SPECIFICATION FairSpec
CONSTANTS
  invoice = invoice
  storno = storno
  Events = {invoice}
  Workers = {w1, w2}
  Home = w1
  NoEvent = NoEvent
  NoWorker = NoWorker
  CreatedAt <- MCCreatedAt
  Original <- MCOriginal
  BatchLimit = 1
  Gens = {g1}
  Delays = {"later"}
  Faults = {"stop", "crash"}
  MaxFaults = 1
  Handlers = {h1}
  Kinds <- MCKinds
  Rates = {r1}
  NoRate = NoRate
  Mishaps = {"store", "timeout", "stop", "crash"}
  MaxMishaps = 1
PROPERTIES ImplementsWorker ImplementsIntake EventuallyReported
CHECK_DEADLOCK FALSE
