\* The images of the run FrameEncoder, for the size of the P16 stream in the
\* report.
SPECIFICATION Spec
CONSTANTS
  Width = 17
  Height = 9
  TileWidth = 8
  TileHeight = 8
  Colors = {0, 1, 2, 3, 4}
  P2Size = 1
  P4Size = 1
  P8Size = 2
  FillColors = {0, 4}
  LastRows = 8
  Images <- SomeImages
  PrevFiles = {}
CHECK_DEADLOCK FALSE
INVARIANT P16SizeIsReported
