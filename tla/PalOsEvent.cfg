SPECIFICATION Spec
CONSTANTS
  Jobs = {Scheduler, Transmit}
  NoJob = NoJob
  QueueLength = 20
  AtRest = TRUE
INVARIANTS TypeOK MarkedIsPending
PROPERTIES OneShotSpec
