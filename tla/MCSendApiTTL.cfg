\* A key past its TTL: violated.
SPECIFICATION FairSpec
CONSTANTS
  Attempts = {1, 2}
  Parts <- MCParts
  Sessions <- MCSessions
  Keys <- MCOneKey
  NoKey = NoKey
  Nobody = Nobody
  MaxErrors = 0
  MaxRestarts = 0
  Stores = {TRUE}
CHECK_DEADLOCK FALSE
PROPERTY DuplicateIsFresh
