SPECIFICATION JsonSpec
CHECK_DEADLOCK FALSE
CONSTANTS
  Keys <- MCKeys
  Strings <- MCStrings
  Ints <- MCInts
  Tenths <- MCTenths
  TenthArrays <- MCTenthArrays
  StringArrays <- MCStringArrays
  IntArrays <- MCIntArrays
  BoolArrays <- MCBoolArrays
  MaxCalls = 3
  MaxCut = 3
  MaxItems = 2
INVARIANTS RoundTrip EveryPassAdvances
