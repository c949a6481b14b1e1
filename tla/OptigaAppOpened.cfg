SPECIFICATION Spec
CONSTANTS
  OPTIGA_LIB_SUCCESS = Success
  OPTIGA_LIB_BUSY = Busy
  NOT_SUCCESS = Busy
  LibErrors = {CommError, InvalidInput}
  NotLogged = NotLogged
INVARIANT OpenedBeforeUse
