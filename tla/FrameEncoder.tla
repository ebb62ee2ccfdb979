---------------------------- MODULE FrameEncoder ----------------------------
(***************************************************************************)
(* EncodeFrame, go/encoder/frame_encoder.go, on the images that the        *)
(* command go/encoder/cmd gives it: the difference of two images becomes   *)
(* streams of symbols, which are run-length encoded.  A step is a turn of  *)
(* one of the loops over the lines, or what is between two loops.          *)
(*                                                                         *)
(* A stream is the sequence of its symbols.  What the run-length encoding  *)
(* makes of it is in the module SrlenSize; Srlen shows that it comes back. *)
(***************************************************************************)
EXTENDS FrameHeader, SrlenSize

INSTANCE SequencesExt

CONSTANTS
  Width, Height,            \* of the current image
  TileWidth, TileHeight,
  Colors,                   \* the RGB565 colours, 0 is black
  P2Size, P4Size, P8Size,   \* 4, 16 and 256 in the code
  Images,                   \* what -main can be
  PrevFiles,                \* what -prev can be, of any dimensions
  FillColors                \* what -prev-fill can be

IsPowerOfTwo(n) == \E k \in 0 .. n : n = 2^k

\* EncodeFrame finds the tile of a pixel by a shift.  The command has 8, 16, 32.
ASSUME FrameAssumption ==
  /\ Width \in Nat \ {0} /\ Height \in Nat \ {0}
  /\ TileWidth \in Nat \ {0} /\ TileHeight \in Nat \ {0}
  /\ IsPowerOfTwo(TileWidth)
  /\ P2Size \in 1 .. 4 /\ P4Size \in 1 .. 16 /\ P8Size \in 1 .. 256
  /\ FillColors \subseteq Colors /\ 0 \in Colors

Rows == 0 .. Height - 1
Cols == 0 .. Width - 1

ASSUME ImagesAssumption == Images \subseteq [Rows -> [Cols -> Colors]]

VARIABLES
  cur, prev,                  \* the images
  phase,                      \* where EncodeFrame is, see Phases
  line,                       \* the line of the loop under way
  hist,                       \* the colours of cur, most frequent first
  lineChanged, spanChanged,   \* the flags of the lines, and of their spans
  tileStream,
  global,                     \* the streams of all lines together
  lineInfos,                  \* the streams of each line; empty: not Active
  globalRb,                   \* the run bit lengths of the global streams
  encodedBits,                \* the sizes of the encoded streams of each line
  header

vars == <<cur, prev, phase, line, hist, lineChanged, spanChanged, tileStream,
          global, lineInfos, globalRb, encodedBits, header>>
images == <<cur, prev>>
flags  == <<lineChanged, spanChanged, tileStream>>

Phases == {"start", "exit", "diff", "changes", "emit", "choose", "encode",
           "header", "done", "panic"}

-----------------------------------------------------------------------------
(* Streams, and the writers they go to.                                    *)

SELECTOR_P2  == 0
SELECTOR_P4  == 1
SELECTOR_RAW == 2

\* Mutated form of SELECTOR_P8: a number that two bits do not hold.
MutantSelector == 4
SELECTOR_P8  == 3

\* The bits of a symbol of the streams that are encoded.
SymbolSize == [span |-> 1, selector |-> 2, p2 |-> 2, p4 |-> 4, p8 |-> 8]
Streams    == DOMAIN SymbolSize
NoStreams  == [s \in Streams \cup {"p16"} |-> <<>>]
NoBits     == [s \in Streams |-> 0]

NumTilesX == (Width + TileWidth - 1) \div TileWidth
NumTilesY == (Height + TileHeight - 1) \div TileHeight

\* A writer of so many bits has room for these.  Another panics, when it writes
\* a word too many or is finalized; that is here the end of the step.
BytesOf(n) == (n + 7) \div 8
Fits(bits, capacity) == BytesOf(bits) <= BytesOf(capacity)

\* Where the colours of a palette begin and end in hist, counted from 0.
Palettes == {"p2", "p4", "p8"}
First == [p2 |-> 0, p4 |-> P2Size, p8 |-> P2Size + P4Size]
After == [p2 |-> P2Size, p4 |-> P2Size + P4Size,
          p8 |-> P2Size + P4Size + P8Size]

\* MakeColorIndex: the place of a colour in hist.
ColorIndex(c) == CHOOSE i \in 0 .. Len(hist) - 1 : hist[i + 1] = c

Count(image, c) == Cardinality({p \in Rows \X Cols : image[p[1]][p[2]] = c})

\* CalculatePixelCounts, of a palette; p16 is what has none.
NumPixels(s) ==
  MapThenSumSet(LAMBDA i : Count(cur, hist[i + 1]),
                {i \in 0 .. Len(hist) - 1 : First[s] <= i /\ i < After[s]})
P16NumPixels ==
  MapThenSumSet(LAMBDA i : Count(cur, hist[i + 1]),
                {i \in 0 .. Len(hist) - 1 : After.p8 <= i})

\* Mutated form of GlobalCapacity: the P4 stream is given the room of P2.
MutantSharesRoom(s) ==
  CASE s = "span"     -> NumTilesX * Height
    [] s = "selector" -> Width * Height * 2
    [] s \in Palettes -> NumPixels("p2") * SymbolSize[s]

\* The capacities of the global writers, encoded or not.
GlobalCapacity(s) ==
  CASE s = "span"     -> NumTilesX * Height
    [] s = "selector" -> Width * Height * 2
    [] s \in Palettes -> NumPixels(s) * SymbolSize[s]

\* LineInfo.Initialize: the capacities of the writers of a line.
LineCapacity(s) == Width * SymbolSize[s]
EncodedCapacity(s) ==
  IF s = "span" THEN Width ELSE Width * (SymbolSize[s] + 5)

-----------------------------------------------------------------------------
(* The command, and the histogram.                                         *)

\* getImages: the next image shifted down by a line as the previous one.
Shifted(image) ==
  [y \in Rows |-> IF y = 0 THEN [x \in Cols |-> 0] ELSE image[y - 1]]

Filled(c) == [y \in Rows |-> [x \in Cols |-> c]]

\* getImages: a previous image of another size ends the command.
GetImages ==
  \/ /\ prev \in PrevFiles
     /\ phase = IF DOMAIN prev = Rows /\ DOMAIN prev[0] = Cols
                THEN "start" ELSE "exit"
  \/ prev = Shifted(cur) /\ phase = "start"
  \/ prev \in {Filled(c) : c \in FillColors} /\ phase = "start"

\* BuildHistogram: the sort is not stable, equal counts come in any order.  The
\* colours that do not occur come last and are never looked up.
BuildHistogram ==
  LET count == [c \in Colors |-> Count(cur, c)]
  IN  /\ phase = "start"
      /\ hist' \in {h \in SetToSeqs({c \in Colors : count[c] > 0}) :
                      \A i \in 1 .. Len(h) - 1 : count[h[i]] >= count[h[i + 1]]}
      /\ phase' = "diff"
      /\ UNCHANGED <<images, line, flags, global, lineInfos, globalRb,
                     encodedBits, header>>

-----------------------------------------------------------------------------
(* Which lines, spans and tiles have changed.                              *)

\* tileWidthShift: a pixel's tile, or span, within its line.
TileOf(x) == x \div TileWidth

\* Mutated form of DiffLine: the last pixel of a line is not looked at.
MutantStopsShort ==
  LET differs == {x \in Cols \ {Width - 1} : cur[line][x] # prev[line][x]}
  IN  /\ phase = "diff" /\ line < Height
      /\ spanChanged' = [spanChanged EXCEPT ![line] =
           [t \in 0 .. NumTilesX - 1 |-> IF \E x \in differs : TileOf(x) = t
                                         THEN 1 ELSE 0]]
      /\ lineChanged' =
           [lineChanged EXCEPT ![line] = IF differs = {} THEN 0 ELSE 1]
      /\ line' = line + 1
      /\ UNCHANGED <<images, phase, hist, tileStream, global, lineInfos,
                     globalRb, encodedBits, header>>

\* The scan goes on behind the tile of a pixel that differs.
DiffLine ==
  LET differs == {x \in Cols : cur[line][x] # prev[line][x]}
  IN  /\ phase = "diff" /\ line < Height
      /\ spanChanged' = [spanChanged EXCEPT ![line] =
           [t \in 0 .. NumTilesX - 1 |-> IF \E x \in differs : TileOf(x) = t
                                         THEN 1 ELSE 0]]
      /\ lineChanged' =
           [lineChanged EXCEPT ![line] = IF differs = {} THEN 0 ELSE 1]
      /\ line' = line + 1
      /\ UNCHANGED <<images, phase, hist, tileStream, global, lineInfos,
                     globalRb, encodedBits, header>>

LineStream == [i \in 1 .. Height |-> lineChanged[i - 1]]

\* Mutated form of LinesOf: the last tile row has always its full height less 1.
MutantSkipsLast(ty) == {y \in Rows : y \div TileHeight = ty /\ y < Height - 1}

\* The lines of a tile row; the last may have fewer.
LinesOf(ty) == {y \in Rows : y \div TileHeight = ty}

\* An encoded stream of flags, with the run bit lengths chosen for it.
FlagBits(stream) == EncodedSize(1, stream, EncodePrepare(1, stream))

\* The tile stream, by rows; then both streams of flags are encoded.
BuildChangeStreams ==
  /\ phase = "diff" /\ line = Height
  /\ tileStream' = [i \in 1 .. NumTilesX * NumTilesY |->
       LET tx == (i - 1) % NumTilesX  ty == (i - 1) \div NumTilesX
       IN  IF \E y \in LinesOf(ty) : spanChanged[y][tx] = 1 THEN 1 ELSE 0]
  /\ phase' = IF /\ Fits(FlagBits(LineStream), Height)
                 /\ Fits(FlagBits(tileStream'), NumTilesX * NumTilesY)
              THEN "emit" ELSE "panic"
  /\ line' = 0
  /\ UNCHANGED <<images, hist, lineChanged, spanChanged, global, lineInfos,
                 globalRb, encodedBits, header>>

-----------------------------------------------------------------------------
(* The pixels of the changed spans.                                        *)

\* The stream for the pixels with this colour index.
StreamFor(ci) ==
  CASE ci < After.p2                   -> "p2"
    [] After.p2 <= ci /\ ci < After.p4 -> "p4"
    [] After.p4 <= ci /\ ci < After.p8 -> "p8"
    [] After.p8 <= ci                  -> "p16"

Selector == [p2 |-> SELECTOR_P2, p4 |-> SELECTOR_P4, p8 |-> SELECTOR_P8,
             p16 |-> SELECTOR_RAW]

\* A pixel goes to one stream, the colour or its place in the palette, and the
\* selector tells which.
WithPixel(streams, c) ==
  LET ci == ColorIndex(c)
      s  == StreamFor(ci)
      v  == IF s = "p16" THEN c ELSE ci - First[s]
  IN  [streams EXCEPT !.selector = Append(@, Selector[s]), ![s] = Append(@, v)]

\* The streams of a line: its span flags, and the pixels of the changed spans.
StreamsOf(y) ==
  LET spans == [t \in 1 .. NumTilesX |-> spanChanged[y][t - 1]]
      upto[x \in 0 .. Width] ==
        IF x = 0 THEN [NoStreams EXCEPT !.span = spans]
        ELSE IF spanChanged[y][TileOf(x - 1)] = 1
             THEN WithPixel(upto[x - 1], cur[y][x - 1])
             ELSE upto[x - 1]
  IN  upto[Width]

SizeInBits(streams, s) == Len(streams[s]) * SymbolSize[s]

\* One line with changes goes to the writers of the frame and to its own.
EmitLine ==
  /\ phase = "emit" /\ line < Height /\ lineChanged[line] = 1
  /\ global' = [s \in DOMAIN global |-> global[s] \o StreamsOf(line)[s]]
  /\ lineInfos' = [lineInfos EXCEPT ![line] = StreamsOf(line)]
  /\ phase' = IF \A s \in Streams :
                   /\ Fits(SizeInBits(global', s), GlobalCapacity(s))
                   /\ Fits(SizeInBits(lineInfos'[line], s), LineCapacity(s))
              THEN "emit" ELSE "panic"
  /\ line' = line + 1
  /\ UNCHANGED <<images, hist, flags, globalRb, encodedBits, header>>

SkipLine ==
  /\ phase \in {"emit", "encode"} /\ line < Height /\ lineChanged[line] = 0
  /\ line' = line + 1
  /\ UNCHANGED <<images, phase, hist, flags, global, lineInfos, globalRb,
                 encodedBits, header>>

\* The global streams are encoded to learn their run bit lengths.
ChooseGlobalRb ==
  /\ phase = "emit" /\ line = Height
  /\ globalRb' = [s \in Streams |-> EncodePrepare(SymbolSize[s], global[s])]
  /\ phase' = IF \A s \in Streams :
                   Fits(EncodedSize(SymbolSize[s], global[s], globalRb'[s]),
                        GlobalCapacity(s))
              THEN "encode" ELSE "panic"
  /\ line' = 0
  /\ UNCHANGED <<images, hist, flags, global, lineInfos, encodedBits, header>>

\* Each line with changes is encoded with the run bit lengths of the frame.
EncodeLine ==
  /\ phase = "encode" /\ line < Height /\ lineChanged[line] = 1
  /\ encodedBits' = [encodedBits EXCEPT ![line] = [s \in Streams |->
       EncodedSize(SymbolSize[s], lineInfos[line][s], globalRb[s])]]
  /\ phase' = IF \A s \in Streams :
                   Fits(encodedBits'[line][s], EncodedCapacity(s))
              THEN "encode" ELSE "panic"
  /\ line' = line + 1
  /\ UNCHANGED <<images, hist, flags, global, lineInfos, globalRb, header>>

MakeHeader ==
  LET rb(stream) == EncodePrepare(1, stream)
      h1 == SetImgDimensions(NewFrameHeader, Width, Height)
      h2 == SetTileDimensions(h1, TileWidth, TileHeight)
      h3 == SetTileChange(h2, rb(tileStream), BytesOf(FlagBits(tileStream)),
                          Len(tileStream))
  IN  /\ phase = "encode" /\ line = Height
      /\ header' = SetLineChange(h3, rb(LineStream),
                                 BytesOf(FlagBits(LineStream)), Height)
      /\ phase' = "done"
      /\ UNCHANGED <<images, line, hist, flags, global, lineInfos, globalRb,
                     encodedBits>>

-----------------------------------------------------------------------------
Init ==
  /\ cur \in Images /\ GetImages
  /\ line = 0 /\ hist = <<>>
  /\ lineChanged = [y \in Rows |-> 0]
  /\ spanChanged = [y \in Rows |-> [t \in 0 .. NumTilesX - 1 |-> 0]]
  /\ tileStream = <<>>
  /\ global = NoStreams /\ lineInfos = [y \in Rows |-> NoStreams]
  /\ globalRb = [s \in Streams |-> <<>>]
  /\ encodedBits = [y \in Rows |-> NoBits]
  /\ header = NewFrameHeader

Next ==
  \/ BuildHistogram
  \/ DiffLine \/ BuildChangeStreams
  \/ EmitLine \/ SkipLine \/ ChooseGlobalRb
  \/ EncodeLine \/ MakeHeader

Spec == Init /\ [][Next]_vars

-----------------------------------------------------------------------------
(* Properties.                                                             *)

TypeOK ==
  /\ cur \in [Rows -> [Cols -> Colors]]
  /\ phase \in Phases /\ line \in 0 .. Height
  /\ hist \in Seq(Colors)
  /\ lineChanged \in [Rows -> {0, 1}]
  /\ spanChanged \in [Rows -> [0 .. NumTilesX - 1 -> {0, 1}]]
  /\ tileStream \in Seq({0, 1})
  /\ \A s \in Streams :
       /\ \A k \in DOMAIN global[s] : global[s][k] \in 0 .. 2^SymbolSize[s] - 1
       /\ phase = "encode" =>
            globalRb[s] \in [0 .. 2^SymbolSize[s] - 1 -> Widths]
  /\ encodedBits \in [Rows -> [Streams -> Nat]]

\* A reader of the streams: what it makes of pixel x of line y.  Span flags say
\* which pixels are there, the selector says for each which stream has it.
Decoded(y, x) ==
  LET l    == lineInfos[y]
      sent == {z \in 0 .. x : l.span[z \div TileWidth + 1] = 1}
      k    == Cardinality(sent)
      sel  == l.selector[k]
      n    == Cardinality({j \in 1 .. k : l.selector[j] = sel})
  IN  IF LineStream[y + 1] = 0 \/ x \notin sent THEN prev[y][x]
      ELSE CASE sel = SELECTOR_P2  -> hist[l.p2[n] + 1]
             [] sel = SELECTOR_P4  -> hist[P2Size + l.p4[n] + 1]
             [] sel = SELECTOR_P8  -> hist[P2Size + P4Size + l.p8[n] + 1]
             [] sel = SELECTOR_RAW -> l.p16[n]

\* The streams, put on the previous image, give the current image: no pixel that
\* changed is left out, none goes to the wrong stream or out of step with the
\* selector (docs/designs/FrameEncoder.md, "Selector chooses which payload
\* stream consumes data").
RebuildsImage ==
  phase = "done" =>
    \A y \in Rows, x \in Cols : Decoded(y, x) = cur[y][x]

\* The tile stream has a 1 for exactly the tiles with a pixel that changed,
\* those at the right and lower edge included (frame_encoder.go:192, "for the
\* ESP32 to identify dirty tiles").
TilesAreDirty ==
  tileStream # <<>> =>
    \A tx \in 0 .. NumTilesX - 1, ty \in 0 .. NumTilesY - 1 :
      tileStream[ty * NumTilesX + tx + 1] = 1 <=>
        \E y \in Rows, x \in Cols :
          /\ y \div TileHeight = ty /\ x \div TileWidth = tx
          /\ cur[y][x] # prev[y][x]

\* No writer of the frame, of a line or of an encoded stream is too small: no
\* index of EncodeFrame leaves its buffer.
NoPanic == phase # "panic"

\* The header describes the two streams of flags as they were encoded.
HeaderDescribesStreams ==
  phase = "done" =>
    /\ header.TileChangeStreamDecodedUnits = NumTilesX * NumTilesY
    /\ header.TileChangeEncodedSize =
         BytesOf(EncodedSize(1, tileStream, header.TileChangeRunBits))
    /\ header.LineChangeStreamDecodedUnits = Height
    /\ header.LineChangeEncodedSize =
         BytesOf(EncodedSize(1, LineStream, header.LineChangeRunBits))

\* "Size of P16 stream in bytes" (docs/designs/FrameEncoder.md:42) is what the
\* report gives.  Refuted: it counts the raw pixels of unchanged spans too.
P16SizeIsReported == phase = "done" => P16NumPixels = Len(global.p16)

=============================================================================
