CONSTANTS
  LogicalSizes <- FarSizes
  WindowSizes <- Windows
  Colors = {1}
  Boxes <- MCBoxes
  Texture <- MCTexture
  Blits <- MCBlits
  FrameFirst = TRUE
SPECIFICATION Spec
INVARIANTS DrawingIsClipped LetterboxIsBlack MouseNamesPixel
PROPERTY GrowthsStayFlat
