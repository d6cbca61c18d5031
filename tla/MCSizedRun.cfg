CONSTANTS
  Word = 4
  Narrow = {2}
  Byte = 2
  Single = 1
  Double = 2
  Literals = {0, 1, 2, 3, 5, 9}
  Floats <- MCFloats
  Lengths = {1, 3, 6}
SPECIFICATION Spec
INVARIANTS InterpreterIsOracle ReleaseDropsOnlyOverflow
CHECK_DEADLOCK FALSE
