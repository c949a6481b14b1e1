SPECIFICATION PortsSpec
CONSTANTS
  Byte = 2
  Values <- MCValues
  Limit <- MCLimit
  Initial <- MCInitial
  ArrayLengths <- MCArrayLengths
  Word = 4096
  MaxElapsed = 8
  Versions <- MCVersions
  KeyLengths <- MCKeyLengths
  OtherClocks = {37500}
INVARIANTS RowsRight ElapsedRight ServedWhole RateKept FormatsTrue
PROPERTY RegistersSpec
