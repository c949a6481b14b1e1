SPECIFICATION Spec
CONSTANTS
  Contexts <- MCContexts
  Priority <- MCPriority
  HoldAcross = TRUE
INVARIANT MutualExclusion
