\* A message that failed, repeated with its key: violated.
SPECIFICATION Spec
CONSTANTS
  Attempts = {1, 2}
  Parts <- MCParts
  Sessions <- MCSessions
  Keys <- MCOneKey
  NoKey = NoKey
  Nobody = Nobody
  MaxErrors = 0
  MaxRestarts = 0
  Stores = {TRUE}
CHECK_DEADLOCK FALSE
INVARIANT DuplicateWasSent
