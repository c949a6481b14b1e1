SPECIFICATION SystemSpec
CONSTANTS
  Calls = {"write", "read"}
  MaxDepth = 3
  MaxAttempts = 3
  Lengths = {0, 2}
INVARIANTS FreeAtRest OneAnswer SystemTypeOK NoFalseSuccess WiresFreeAtRest DeliveredOnce
PROPERTY CallsEnd
