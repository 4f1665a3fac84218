SPECIFICATION FairSpec
CONSTANTS
  invoice = invoice
  storno = storno
  Events = {invoice, storno}
  Workers = {w1}
  NoEvent = NoEvent
  NoWorker = NoWorker
  CreatedAt <- MCCreatedAt
  Original <- MCOriginal
  BatchLimit = 1
  Gens = {g1}
  Delays = {"soon"}
  Faults = {"store"}
  MaxFaults = 1
INVARIANTS TypeOK StornoAfterParent AbortedMeansParentFailed
PROPERTIES Settled ImplementsReporting
CHECK_DEADLOCK FALSE
