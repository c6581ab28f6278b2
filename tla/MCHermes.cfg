\* Three attempts that fit into the time of a job that decides at once, and of no other.
SPECIFICATION FairSpec
CONSTANTS
  Job = job
  Deliveries <- MCDeliveries
  MaxAttempts = 3
  HermesTimeout = 2
  Grace = 2
  WebhookTimeout = 2
  RetryDelay = 1
  MaxFrames = 3
\* A job that is done, or cut off by the end of the process, takes no more steps.
CHECK_DEADLOCK FALSE
INVARIANTS
  HermesInv
  Tried
  OkTells
PROPERTIES
  JobEnds
  Contract
