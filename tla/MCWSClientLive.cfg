\* Liveness: one connection, no symmetry.
SPECIFICATION FairSpec
CONSTANTS
  Callers = {c1, c2}
  MaxDials = 1
  Ops = {"createAnonOpts"}
  Bodies = {"ok", "badParam"}
  AutoSend = FALSE
  WSReconnect = TRUE
CHECK_DEADLOCK FALSE
PROPERTIES
  CallsTerminate
  BreakReleases
