\* Nine lines of 17 pixels in tiles of eight by eight, as the command has them:
\* two tiles and a pixel in a line, a second row of tiles with one line.  The
\* palettes have 1, 1 and 2 colours, so that the fifth colour is raw.  An
\* encoding ends.
SPECIFICATION Spec
CONSTANTS
  Width = 17
  Height = 9
  TileWidth = 8
  TileHeight = 8
  Colors = {0, 1, 2, 3, 4}
  P2Size = 1
  P4Size = 1
  P8Size = 2
  FillColors = {0, 4}
  LastRows = 7
  Images <- SomeImages
  PrevFiles <- SomePrevious
CHECK_DEADLOCK FALSE
INVARIANTS
  TypeOK
  RebuildsImage
  TilesAreDirty
  NoPanic
  HeaderDescribesStreams
