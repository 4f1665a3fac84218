SPECIFICATION Spec
CONSTANTS
  Configs <- MCConfigs
  DefaultBase = 20
  DefaultMax = 600
  PollInterval = 5
  Ceiling = 130
  MaxAttempts = 10
  MaxOperations = 2
INVARIANTS TypeOK DelayIsExponential AcceptanceStands
PROPERTY RetriesSlowDown
CHECK_DEADLOCK FALSE
