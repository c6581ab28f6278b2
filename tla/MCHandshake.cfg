\* Reconnection enabled: connections are lost and made anew without end.
SPECIFICATION FairSpec
CONSTANTS
  MaxInbox = 3
  WSReconnect = TRUE
\* App.Run stops once its context is done.
CHECK_DEADLOCK FALSE
INVARIANTS
  ServedIsUsable
  HandshakeInv
PROPERTIES
  AttemptEnds
  Recovers
