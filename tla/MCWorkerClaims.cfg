SPECIFICATION Spec
CONSTANTS
  invoice = invoice
  storno = storno
  Events = {invoice}
  Workers = {w1, w2}
  NoEvent = NoEvent
  NoWorker = NoWorker
  CreatedAt <- MCCreatedAt
  Original <- MCOriginal
  BatchLimit = 1
  Gens = {g1, g2}
  Delays = {"soon", "later"}
  Faults = {"flaky", "lost_reply", "store", "crash", "stop"}
  MaxFaults = 3
SYMMETRY Symmetry
INVARIANTS OneLifecyclePerRow RenewalHoldsClaim NoDuplicateSubmission
PROPERTY NoResubmission
CHECK_DEADLOCK FALSE
