\* Two concurrent callers, two connections, no automatic message.
SPECIFICATION Spec
CONSTANTS
  Callers = {c1, c2}
  MaxDials = 2
  Ops = {"send", "createOpts"}
  Bodies = {"ok", "badParam"}
  AutoSend = FALSE
  WSReconnect = TRUE
SYMMETRY CallerSymmetry
\* The bound on dials ends every behaviour.
CHECK_DEADLOCK FALSE
INVARIANTS
  NoLostWakeup
  NoSendDropped
  NoPendingLeak
  ReplyMatchesRequest
  OneWriter
  IInv
  OneConnection
  OutcomesBind
PROPERTY Contract
