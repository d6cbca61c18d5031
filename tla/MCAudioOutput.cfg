CONSTANTS
  MAX_VOICES = 2
  GenMod = 3
  CMD_CAP = 2
  Shapes <- MCShapes
  Formats <- MCFormats
  Volumes = {1}
  Tunings <- MCTunings
  MaxSounds = 1
  MaxPlays = 3
  MaxFill = 1
  MadeUpIds = {4}
SPECIFICATION Spec
INVARIANTS PosInBuffer CallbackNeverFrees CommandsReachTheirVoice OldestIsStolen ResampleInRange
PROPERTY StopsAreHeard
