CONSTANTS
  Capacity = 2
  NullSlot = 2
  GenMod = 4
  Value = {"u", "v"}
  MaxCops = 4
  MaxEvicts = 3
  MaxOpen = 2
  ExclusiveHolla = TRUE
SPECIFICATION Spec
INVARIANTS SameObservation SameLiveness
CHECK_DEADLOCK FALSE
