SPECIFICATION Spec
CONSTANTS
  Calls = {"write"}
  MaxDepth = 3
  MaxAttempts = 3
INVARIANTS OneTransfer RefusedOnlyIfHeld
