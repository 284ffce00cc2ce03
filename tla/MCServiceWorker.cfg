SPECIFICATION WorkerSpec
CONSTANTS
  Nothing = Nothing
  MaxBuilds = 2
  MaxEdits = 0
INVARIANTS DeployInvalidatesCache
CHECK_DEADLOCK FALSE
