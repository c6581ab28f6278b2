\* A gateway that does not send connect.challenge in time.
SPECIFICATION Spec
CONSTANTS
  MaxInbox = 2
  WSReconnect = FALSE
CHECK_DEADLOCK FALSE
INVARIANT DirectConnectWaits
