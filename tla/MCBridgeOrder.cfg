SPECIFICATION Spec
CONSTANTS
  invoice = invoice
  storno = storno
  Events = {invoice, storno}
  Workers = {w1}
  Home = w1
  NoEvent = NoEvent
  NoWorker = NoWorker
  CreatedAt <- MCCreatedAt
  Original <- MCOriginal
  BatchLimit = 1
  Gens = {g1}
  Delays = {"later"}
  Faults = {}
  MaxFaults = 0
  Handlers = {h1}
  Kinds <- MCKinds
  Rates = {r1}
  NoRate = NoRate
  Mishaps = {}
  MaxMishaps = 0
INVARIANT StornoWaitsForOriginal
CHECK_DEADLOCK FALSE
