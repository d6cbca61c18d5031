CONSTANTS
  KeyCount = 2
  RAW_KEY_CAP = 2
  MaxHappenings = 4
SPECIFICATION Spec
INVARIANTS EdgesAlternate TapsSurvive OneQuit
PROPERTY QuitIsSeen
