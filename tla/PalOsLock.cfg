SPECIFICATION Spec
CONSTANTS
  Contexts <- MCContexts
  Priority <- MCPriority
  HoldAcross = FALSE
INVARIANTS TypeOK MutualExclusion ByteIsTrue
PROPERTY MutexSpec
