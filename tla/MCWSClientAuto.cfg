\* The automatic message races the callers for the connection.
SPECIFICATION Spec
CONSTANTS
  Callers = {c1, c2}
  MaxDials = 1
  Ops = {"create", "createAnon"}
  Bodies = {"noKey"}
  AutoSend = TRUE
  WSReconnect = FALSE
SYMMETRY CallerSymmetry
\* App.Run ends with the connection, and the process after a panic.
CHECK_DEADLOCK FALSE
INVARIANT IInv
PROPERTY Contract
