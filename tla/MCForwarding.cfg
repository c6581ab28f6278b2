\* A message and a final event of one session, or two copies; the database may be
\* there or not at each of three starts.
SPECIFICATION Spec
CONSTANTS
  Events = {msg, fin}
  Final = {fin}
  NoEvent = NoEvent
  Handlers = {h1, h2}
  MaxFrames = 2
  MaxSets = 2
  MaxErrors = 1
  MaxRestarts = 2
  Stores = {TRUE, FALSE}
SYMMETRY HandlerSymmetry
CHECK_DEADLOCK FALSE
INVARIANTS
  SentOnce
  DedupeInv
  QuietInv
  QuietSetSurvives
  QuietClearHolds
