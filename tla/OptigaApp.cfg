SPECIFICATION Spec
CONSTANTS
  OPTIGA_LIB_SUCCESS = Success
  OPTIGA_LIB_BUSY = Busy
  NOT_SUCCESS = Busy
  LibErrors = {CommError, InvalidInput}
  NotLogged = NotLogged
INVARIANTS TypeOK NoLateCallback NoLostWakeup NoDanglingInstance LoggedTruth NoLeak
PROPERTIES StageOrder StepsRunOut SessionSpec Termination SessionClosed
