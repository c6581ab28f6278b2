\* A call's callbackUrl and stream against the handlers under way: violated.
SPECIFICATION Spec
CONSTANTS
  Events = {msg, fin}
  Final = {fin}
  NoEvent = NoEvent
  Handlers = {h1, h2}
  MaxFrames = 2
  MaxSets = 2
  MaxErrors = 0
  MaxRestarts = 0
  Stores = {TRUE}
CHECK_DEADLOCK FALSE
INVARIANT SetSurvives
