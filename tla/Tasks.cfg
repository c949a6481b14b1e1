SPECIFICATION TasksSpec
CONSTANTS
  OPTIGA_LIB_SUCCESS = Success
  OPTIGA_LIB_BUSY = Busy
  NOT_SUCCESS = Busy
  LibErrors = {CommError, InvalidInput}
  NotLogged = NotLogged
INVARIANTS TasksTypeOK DmaFailureReported
PROPERTIES AppImplemented
