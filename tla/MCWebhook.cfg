SPECIFICATION Spec
CONSTANTS
  invoice = invoice
  storno = storno
  Events = {invoice, storno}
  Workers = {w1}
  NoEvent = NoEvent
  NoWorker = NoWorker
  CreatedAt <- MCCreatedAt
  Original <- MCOriginal
  BatchLimit = 1
  Handlers = {h1, h2}
  Kinds <- MCKinds
  Rates = {r1, r2}
  NoRate = NoRate
  Faults = {"store", "lost_put", "rates", "timeout", "lost_answer", "replay", "stop", "crash"}
  MaxFaults = 2
SYMMETRY Symmetry
INVARIANTS TypeOK AckedIsSettled StornoAtOriginalRate NoLostWakeup
PROPERTY FirstPutStays
