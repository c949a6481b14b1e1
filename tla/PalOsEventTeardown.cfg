SPECIFICATION Spec
CONSTANTS
  Jobs = {Scheduler, Transmit}
  NoJob = NoJob
  QueueLength = 20
  AtRest = FALSE
INVARIANTS OwnArgument StartsLive
PROPERTIES SilentWhenDestroyed
