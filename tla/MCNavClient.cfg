SPECIFICATION Spec
CONSTANTS
  Callers = {c1, c2, c3}
  Limited = TRUE
  Burst = 1
  Latency = 1
  Validity = 7
  MaxTokens = 3
  Faults = {"cancel", "lost", "garbled", "gateway"}
  MaxFaults = 1
SYMMETRY Symmetry
INVARIANTS TypeOK WithinRate TokenUsedOnce TokenInTime FinalMeansUnregistered
