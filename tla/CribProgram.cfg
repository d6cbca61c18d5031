CONSTANTS
  Capacity = 2
  NullSlot = 2
  GenMod = 2
  MaxEpoch = 3
  Value = {"a", "b"}
SPECIFICATION Spec
INVARIANTS TypeOK FreeListExact ResolvesIffLive
PROPERTY ImplementsGenHandles
