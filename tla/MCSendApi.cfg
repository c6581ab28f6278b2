\* Two requests, two sessions, two idempotency keys, one of them with a colon.
SPECIFICATION FairSpec
CONSTANTS
  Attempts = {1, 2}
  Parts <- MCParts
  Sessions <- MCSessions
  Keys <- MCKeys
  NoKey = NoKey
  Nobody = Nobody
  MaxErrors = 1
  MaxRestarts = 1
  Stores = {TRUE, FALSE}
CHECK_DEADLOCK FALSE
INVARIANTS
  SendInv
  AcceptedOnce
  RepliesTell
  RefusedIsInert
  DuplicateHasOriginal
PROPERTIES
  Answered
  Contract
