SPECIFICATION Spec
CONSTANTS
  Lowered <- MCLowered
  Expected <- MCExpected
  Worlds <- MCWorlds
  Tapes <- MCTapes
  MaxOut = 16
  Exhaustive = TRUE
INVARIANTS
  ValidatorAccepts
  NoUndefinedBehaviour
  SameBehaviour
PROPERTY
  CompiledCodeEnds
