SPECIFICATION FairSpec
CONSTANTS
  invoice = invoice
  storno = storno
  Events = {invoice}
  Workers = {w1, w2}
  NoEvent = NoEvent
  NoWorker = NoWorker
  CreatedAt <- MCCreatedAt
  Original <- MCOriginal
  BatchLimit = 1
  Gens = {g1, g2}
  Delays = {"later"}
  Faults = {"late_renewal", "store", "lost_reply", "crash"}
  MaxFaults = 1
INVARIANTS InFlightCarriesTransaction AcceptedMeansFinished
PROPERTIES TransactionWriteOnce TerminalIsFinal Settled ClaimsEnd
CHECK_DEADLOCK FALSE
