SPECIFICATION Spec
CONSTANTS
  invoice = invoice
  storno = storno
  Events = {invoice}
  Workers = {w1}
  NoEvent = NoEvent
  NoWorker = NoWorker
  CreatedAt <- MCCreatedAt
  Original <- MCOriginal
  BatchLimit = 1
  Gens = {g1}
  Delays = {"later"}
  Faults = {"lost_reply"}
  MaxFaults = 1
INVARIANT RetryMeansNothingReachedNAV
CHECK_DEADLOCK FALSE
