SPECIFICATION Spec
CONSTANTS
  Calls = {"write", "read"}
  MaxDepth = 2
  MaxAttempts = 3
INVARIANT OneTransfer
