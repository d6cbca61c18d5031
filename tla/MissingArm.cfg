SPECIFICATION Spec
CONSTANTS
  Lowered <- MCLowered
  Expected <- MCExpected
  Worlds <- MCWorlds
  Tapes <- MCTapes
  MaxOut = 16
  Exhaustive = FALSE
INVARIANT NoUndefinedBehaviour
