\* Two copies of one event; a second process.
SPECIFICATION FairSpec
CONSTANTS
  Deliveries <- MCDeliveries
  MaxFrames = 2
  MaxAttempts = 2
  Events = {e1}
  NoEvent = NoEvent
  MaxRestarts = 1
\* At the bound of restarts a process that is down stays down.
CHECK_DEADLOCK FALSE
INVARIANTS
  LifecycleInv
  LateEventIsHarmless
  AskedByOne
  LossExplained
PROPERTIES
  ExitTells
  Stops
