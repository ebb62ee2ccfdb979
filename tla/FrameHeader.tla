----------------------------- MODULE FrameHeader -----------------------------
(***************************************************************************)
(* The header of an encoded frame, go/encoder/frame_header.go: a record    *)
(* and its setters.  A slice that was never set is empty.                  *)
(***************************************************************************)
EXTENDS Integers

NewFrameHeader ==
  [Magic |-> 17989,                      \* 0x4645
   ImgWidth |-> 0, ImgHeight |-> 0, TileWidth |-> 0, TileHeight |-> 0,
   P8RunBits |-> <<>>, P4RunBits |-> <<>>, P2RunBits |-> <<>>,
   SelectorRunBits |-> <<>>, TileChangeRunBits |-> <<>>,
   LineChangeRunBits |-> <<>>, Palette |-> <<>>,
   TileChangeEncodedSize |-> 0, LineChangeEncodedSize |-> 0,
   TileChangeStreamDecodedUnits |-> 0, LineChangeStreamDecodedUnits |-> 0]

SetImgDimensions(fh, width, height) ==
  [fh EXCEPT !.ImgWidth = width % 2^16, !.ImgHeight = height % 2^16]

SetTileDimensions(fh, width, height) ==
  [fh EXCEPT !.TileWidth = width % 2^8, !.TileHeight = height % 2^8]

SetTileChange(fh, runBits, encodedSize, decodedUnits) ==
  [fh EXCEPT !.TileChangeRunBits = runBits,
             !.TileChangeEncodedSize = encodedSize,
             !.TileChangeStreamDecodedUnits = decodedUnits]

\* Mutated form of SetLineChange: size and units are swapped.
MutantSwapsSizes(fh, runBits, encodedSize, decodedUnits) ==
  [fh EXCEPT !.LineChangeRunBits = runBits,
             !.LineChangeEncodedSize = decodedUnits,
             !.LineChangeStreamDecodedUnits = encodedSize]

SetLineChange(fh, runBits, encodedSize, decodedUnits) ==
  [fh EXCEPT !.LineChangeRunBits = runBits,
             !.LineChangeEncodedSize = encodedSize,
             !.LineChangeStreamDecodedUnits = decodedUnits]

=============================================================================
