-------------------------- MODULE FrameEncoderProofs --------------------------
(***************************************************************************)
(* FrameEncoder, for images, tiles and palettes of every size.  With IInv: the *)
(* tile stream marks the tiles that changed, and the header describes the two *)
(* streams of flags.  With FrameInv: the streams of the lines, put on the  *)
(* previous image, give the current one, and no writer is too small for them. *)
(***************************************************************************)
EXTENDS FrameEncoder, SrlenSizeProofs

\* Pixel x of line y is in span t and has changed.
Differs(y, x) == cur[y][x] # prev[y][x]
Dirty(y, t)   == \E x \in Cols : TileOf(x) = t /\ Differs(y, x)

Tiles == 0 .. NumTilesX - 1

\* Before the tile stream is built there is none; afterwards it has all tiles.
StreamInv ==
  /\ phase \in {"start", "exit", "diff"} => tileStream = <<>>
  /\ phase \in {"emit", "choose", "encode", "header", "done"} =>
       /\ DOMAIN tileStream = 1 .. NumTilesX * NumTilesY
       /\ Len(tileStream) = NumTilesX * NumTilesY

\* The spans of the lines that were looked at are marked as they should be.
SpanInv ==
  /\ line \in Nat
  /\ phase = "start" => line = 0
  /\ spanChanged \in [Rows -> [Tiles -> {0, 1}]]
  /\ phase = "diff" =>
       \A y \in Rows : y < line =>
         \A t \in Tiles : spanChanged[y][t] = 1 <=> Dirty(y, t)

\* The inductive invariant.
IInv == StreamInv /\ SpanInv /\ TilesAreDirty /\ HeaderDescribesStreams

\* The number of tiles in a row, and of rows, is positive.
LEMMA TileCounts == /\ NumTilesX \in Nat /\ NumTilesX > 0
                    /\ NumTilesY \in Nat /\ NumTilesY > 0
<1>1. ASSUME NEW n \in Nat \ {0}, NEW d \in Nat \ {0}
      PROVE  (n + d - 1) \div d \in Nat /\ (n + d - 1) \div d > 0
  <2> DEFINE a == n + d - 1
             q == a \div d
             r == a % d
  <2>1. a \in Nat /\ a >= d
    OBVIOUS
  <2>2. q \in Int /\ r \in Int /\ r < d /\ a = d * q + r
    BY <2>1
  <2>3. q <= 0 => d * q <= 0
    BY <2>2
  <2> QED
    BY <2>1, <2>2, <2>3
<1> QED
  BY <1>1, FrameAssumption DEF NumTilesX, NumTilesY

\* The place of tile tx of row ty in the tile stream, and back.
LEMMA PlaceOfTile ==
  ASSUME NEW n \in Nat, n > 0, NEW m \in Nat,
         NEW tx \in 0 .. n - 1, NEW ty \in 0 .. m - 1
  PROVE  /\ ty * n + tx \in 0 .. n * m - 1
         /\ (ty * n + tx) % n = tx
         /\ (ty * n + tx) \div n = ty
OBVIOUS

\* The first states.
LEMMA Initial == Init => IInv
<1> SUFFICES ASSUME Init PROVE IInv
  OBVIOUS
<1>1. phase \in {"start", "exit"} /\ tileStream = <<>> /\ line = 0
  BY DEF Init, GetImages
<1>2. spanChanged \in [Rows -> [Tiles -> {0, 1}]]
  BY DEF Init, Tiles
<1> QED
  BY <1>1, <1>2 DEF IInv, StreamInv, SpanInv, TilesAreDirty,
                    HeaderDescribesStreams

\* The lines are compared, one after the other.
LEMMA Compares == IInv /\ DiffLine => IInv'
<1> SUFFICES ASSUME IInv, DiffLine PROVE IInv'
  OBVIOUS
<1> DEFINE differs == {x \in Cols : cur[line][x] # prev[line][x]}
           marks   == [t \in Tiles |-> IF \E x \in differs : TileOf(x) = t
                                       THEN 1 ELSE 0]
<1>1. /\ phase = "diff" /\ phase' = "diff" /\ line' = line + 1 /\ line < Height
      /\ tileStream' = tileStream /\ cur' = cur /\ prev' = prev
      /\ spanChanged' = [spanChanged EXCEPT ![line] = marks]
  BY DEF DiffLine, Tiles, images
<1>2. line \in Nat /\ line \in Rows
      /\ spanChanged \in [Rows -> [Tiles -> {0, 1}]]
  BY <1>1, FrameAssumption DEF IInv, SpanInv, Rows
<1>3. marks \in [Tiles -> {0, 1}]
  OBVIOUS
<1>4. StreamInv'
  BY <1>1 DEF IInv, StreamInv
<1>5. \A t \in Tiles : marks[t] = 1 <=> Dirty(line, t)
  BY DEF Dirty, Differs
<1>6. ASSUME NEW y \in Rows, y < line', NEW t \in Tiles
      PROVE  spanChanged'[y][t] = 1 <=> Dirty(y, t)'
  <2>1. Dirty(y, t)' <=> Dirty(y, t)
    BY <1>1 DEF Dirty, Differs
  <2>2. CASE y = line
    BY <2>1, <2>2, <1>1, <1>2, <1>5
  <2>3. CASE y # line
    <3>1. y < line /\ spanChanged'[y] = spanChanged[y]
      BY <1>1, <1>2, <1>6, <2>3 DEF Rows
    <3> QED
      BY <2>1, <3>1, <1>1 DEF IInv, SpanInv
  <2> QED
    BY <2>2, <2>3
<1>7. SpanInv'
  BY <1>1, <1>2, <1>3, <1>6 DEF SpanInv
<1>8. TilesAreDirty' /\ HeaderDescribesStreams'
  BY <1>1 DEF IInv, StreamInv, TilesAreDirty, HeaderDescribesStreams
<1> QED
  BY <1>4, <1>7, <1>8 DEF IInv

\* The tile stream is built from the spans of all lines.
LEMMA Builds == IInv /\ BuildChangeStreams => IInv'
<1> SUFFICES ASSUME IInv, BuildChangeStreams PROVE IInv'
  OBVIOUS
<1> DEFINE mark(i) ==
      LET tx == (i - 1) % NumTilesX  ty == (i - 1) \div NumTilesX
      IN  IF \E y \in LinesOf(ty) : spanChanged[y][tx] = 1 THEN 1 ELSE 0
<1>1. /\ phase = "diff" /\ line = Height
      /\ tileStream' = [i \in 1 .. NumTilesX * NumTilesY |-> mark(i)]
      /\ phase' \in {"emit", "panic"} /\ line' = 0
      /\ cur' = cur /\ prev' = prev /\ spanChanged' = spanChanged
  BY DEF BuildChangeStreams, images
<1>2. NumTilesX * NumTilesY \in Nat
  BY TileCounts
<1>3. StreamInv'
  BY <1>1, <1>2 DEF StreamInv
<1>4. SpanInv'
  BY <1>1 DEF IInv, SpanInv
<1>5. \A y \in Rows : \A t \in Tiles : spanChanged[y][t] = 1 <=> Dirty(y, t)
  BY <1>1, FrameAssumption DEF IInv, SpanInv, Rows
<1>6. ASSUME NEW tx \in Tiles, NEW ty \in 0 .. NumTilesY - 1
      PROVE  tileStream'[ty * NumTilesX + tx + 1] = 1 <=>
               \E y \in Rows, x \in Cols :
                 /\ y \div TileHeight = ty /\ x \div TileWidth = tx
                 /\ cur[y][x] # prev[y][x]
  <2> DEFINE k == ty * NumTilesX + tx
  <2>1. k \in 0 .. NumTilesX * NumTilesY - 1
        /\ k % NumTilesX = tx /\ k \div NumTilesX = ty
    BY TileCounts, PlaceOfTile DEF Tiles
  <2>2. k + 1 \in 1 .. NumTilesX * NumTilesY /\ (k + 1) - 1 = k
    BY <2>1, <1>2
  <2>3. tileStream'[k + 1] = mark(k + 1)
    BY <2>2, <1>1
  <2>4. mark(k + 1) = 1 <=> \E y \in LinesOf(ty) : spanChanged[y][tx] = 1
    BY <2>1, <2>2
  <2>5. (\E y \in LinesOf(ty) : spanChanged[y][tx] = 1)
          <=> \E y \in LinesOf(ty) : Dirty(y, tx)
    BY <1>5 DEF LinesOf
  <2> QED
    BY <2>3, <2>4, <2>5 DEF LinesOf, Dirty, Differs, TileOf
<1>7. TilesAreDirty'
  BY <1>1, <1>6 DEF TilesAreDirty, Tiles
<1>8. HeaderDescribesStreams'
  BY <1>1 DEF HeaderDescribesStreams
<1> QED
  BY <1>3, <1>4, <1>7, <1>8 DEF IInv

\* The other steps, but the last, leave the flags alone; they start and go on
\* when the tile stream is there, or go from the histogram to the comparison.
LEMMA Keeps ==
  ASSUME IInv,
         UNCHANGED <<images, spanChanged, tileStream>>,
         \/ BuildHistogram \/ EmitLine \/ SkipLine
         \/ ChooseGlobalRb \/ EncodeLine \/ UNCHANGED vars
  PROVE  IInv'
<1>1. cur' = cur /\ prev' = prev
  BY DEF images
<1>2. CASE BuildHistogram
  <2>1. phase = "start" /\ phase' = "diff" /\ line = 0 /\ line' = line
    BY <1>2 DEF BuildHistogram, IInv, SpanInv
  <2>2. StreamInv'
    BY <2>1 DEF IInv, StreamInv
  <2>3. SpanInv'
    BY <2>1 DEF IInv, SpanInv, Rows
  <2> QED
    BY <1>1, <2>1, <2>2, <2>3
    DEF IInv, StreamInv, TilesAreDirty, HeaderDescribesStreams
<1>3. CASE EmitLine \/ SkipLine \/ ChooseGlobalRb \/ EncodeLine
  <2>1. /\ phase \in {"emit", "encode"}
        /\ phase' \in {"emit", "encode", "panic"}
        /\ line' \in Nat
    BY <1>3, FrameAssumption
    DEF EmitLine, SkipLine, ChooseGlobalRb, EncodeLine, IInv, SpanInv
  <2>2. StreamInv'
    BY <2>1 DEF IInv, StreamInv
  <2>3. SpanInv'
    BY <2>1 DEF IInv, SpanInv
  <2>4. TilesAreDirty'
    BY <1>1 DEF IInv, TilesAreDirty
  <2> QED
    BY <2>1, <2>2, <2>3, <2>4 DEF IInv, HeaderDescribesStreams
<1>4. CASE UNCHANGED vars
  BY <1>4 DEF vars, images, flags, IInv, StreamInv, SpanInv, TilesAreDirty,
              HeaderDescribesStreams, Dirty, Differs, LineStream
<1> QED
  BY <1>2, <1>3, <1>4

\* The header is filled in from the two streams.
LEMMA Describes == IInv /\ MakeHeader => IInv'
<1> SUFFICES ASSUME IInv, MakeHeader PROVE IInv'
  OBVIOUS
<1>1. /\ phase = "encode" /\ phase' = "done"
      /\ UNCHANGED <<images, line, lineChanged, spanChanged, tileStream>>
  BY DEF MakeHeader, flags
<1>2. StreamInv'
  BY <1>1 DEF IInv, StreamInv
<1>3. SpanInv'
  BY <1>1 DEF IInv, SpanInv
<1>4. TilesAreDirty'
  BY <1>1 DEF IInv, TilesAreDirty, images
<1>5. HeaderDescribesStreams'
  <2> DEFINE rb(stream) == EncodePrepare(1, stream)
  <2>1. /\ header'.TileChangeRunBits = rb(tileStream)
        /\ header'.TileChangeEncodedSize = BytesOf(FlagBits(tileStream))
        /\ header'.TileChangeStreamDecodedUnits = Len(tileStream)
        /\ header'.LineChangeRunBits = rb(LineStream)
        /\ header'.LineChangeEncodedSize = BytesOf(FlagBits(LineStream))
        /\ header'.LineChangeStreamDecodedUnits = Height
    BY DEF MakeHeader, SetImgDimensions, SetTileDimensions, SetTileChange,
           SetLineChange, NewFrameHeader
  <2>2. Len(tileStream) = NumTilesX * NumTilesY
    BY <1>1 DEF IInv, StreamInv
  <2>3. LineStream' = LineStream
    BY <1>1 DEF LineStream
  <2> QED
    BY <1>1, <2>1, <2>2, <2>3 DEF HeaderDescribesStreams, FlagBits
<1> QED
  BY <1>2, <1>3, <1>4, <1>5 DEF IInv

\* The inductive invariant holds: the comparison of the images, the streams of
\* flags and the header are in step (EncodeFrame).
THEOREM Inductive == Spec => []IInv
<1>1. IInv /\ [Next]_vars => IInv'
  <2> SUFFICES ASSUME IInv, [Next]_vars PROVE IInv'
    OBVIOUS
  <2>1. CASE DiffLine
    BY <2>1, Compares
  <2>2. CASE BuildChangeStreams
    BY <2>2, Builds
  <2>3. CASE MakeHeader
    BY <2>3, Describes
  <2>4. CASE BuildHistogram
    BY <2>4, Keeps DEF BuildHistogram, flags
  <2>5. CASE EmitLine \/ ChooseGlobalRb \/ EncodeLine
    BY <2>5, Keeps DEF EmitLine, ChooseGlobalRb, EncodeLine, flags
  <2>6. CASE SkipLine
    BY <2>6, Keeps DEF SkipLine, flags
  <2>7. CASE UNCHANGED vars
    BY <2>7, Keeps DEF vars, images
  <2> QED
    BY <2>1, <2>2, <2>3, <2>4, <2>5, <2>6, <2>7 DEF Next
<1> QED
  BY <1>1, Initial, PTL DEF Spec

\* The tile stream has a 1 for exactly the tiles with a changed pixel, whatever
\* the sizes of the image and of the tiles (EncodeFrame, tileStream).
THEOREM TilesCorrect == Spec => []TilesAreDirty
BY Inductive, PTL DEF IInv

\* The header has the run bit lengths, the size and the length of the two
\* streams of flags as they were encoded (EncodeFrame, header).
THEOREM HeaderCorrect == Spec => []HeaderDescribesStreams
BY Inductive, PTL DEF IInv

-----------------------------------------------------------------------------
(* Colours, and the streams of their pixels.                               *)

Coloured == {"p2", "p4", "p8", "p16"}

\* The values of a stream.
Values(s) == IF s = "p16" THEN Colors ELSE 0 .. 2^SymbolSize[s] - 1

LEMMA Sizes ==
  /\ 2^SymbolSize["span"] = 2 /\ 2^SymbolSize["selector"] = 4
  /\ 2^SymbolSize["p2"] = 4 /\ 2^SymbolSize["p4"] = 16
  /\ 2^SymbolSize["p8"] = 256
  /\ Streams = {"span", "selector", "p2", "p4", "p8"}
<1>1. /\ 2^1 = 2 * 2^0 /\ 2^2 = 2 * 2^1 /\ 2^3 = 2 * 2^2 /\ 2^4 = 2 * 2^3
      /\ 2^5 = 2 * 2^4 /\ 2^6 = 2 * 2^5 /\ 2^7 = 2 * 2^6 /\ 2^8 = 2 * 2^7
  <2>1. \A n \in Nat : 2^(n + 1) = 2 * 2^n
    BY PowerDoubles
  <2> QED
    BY <2>1
<1>2. 2^0 = 1
  OBVIOUS
<1> QED
  BY <1>1, <1>2 DEF SymbolSize, Streams

\* The histogram has each colour of the image once.
HistInv ==
  /\ hist \in Seq(Colors)
  /\ \A i, j \in 1 .. Len(hist) : hist[i] = hist[j] => i = j
  /\ \A y \in Rows, x \in Cols : \E i \in 1 .. Len(hist) : hist[i] = cur[y][x]

ImageInv == cur \in [Rows -> [Cols -> Colors]]

LEMMA PixelsAreFinite ==
  IsFiniteSet(Rows) /\ IsFiniteSet(Cols) /\ IsFiniteSet(Rows \X Cols)
<1>1. Height - 1 \in Int /\ Width - 1 \in Int
  BY FrameAssumption
<1>2. IsFiniteSet(Rows) /\ IsFiniteSet(Cols)
  BY <1>1, FS_Interval DEF Rows, Cols
<1> QED
  BY <1>2, FS_Product

LEMMA HistogramIsComplete == ImageInv /\ BuildHistogram => HistInv'
<1> SUFFICES ASSUME ImageInv, BuildHistogram PROVE HistInv'
  OBVIOUS
<1> DEFINE S == {c \in Colors : Count(cur, c) > 0}
           n == Cardinality(S)
           pixel(p) == cur[p[1]][p[2]]
           P == {p \in Rows \X Cols : pixel(p) \in S}
<1>1. /\ hist' \in [1 .. n -> S]
      /\ \A i, j \in 1 .. n : i # j => hist'[i] # hist'[j]
      /\ cur' = cur
  BY DEF BuildHistogram, SetToSeqs, images
<1>2. ASSUME NEW c \in Colors
      PROVE  Count(cur, c) > 0 <=> \E p \in Rows \X Cols : pixel(p) = c
  <2> DEFINE T == {p \in Rows \X Cols : pixel(p) = c}
  <2>1. IsFiniteSet(T)
    BY PixelsAreFinite, FS_Subset
  <2>2. Cardinality(T) \in Nat /\ (Cardinality(T) = 0 <=> T = {})
    BY <2>1, FS_CardinalityType, FS_EmptySet
  <2>3. Count(cur, c) = Cardinality(T)
    BY DEF Count
  <2>4. T # {} <=> \E p \in Rows \X Cols : pixel(p) = c
    OBVIOUS
  <2> HIDE DEF T
  <2> QED
    BY <2>2, <2>3, <2>4
<1>3. IsFiniteSet(S)
  <2> DEFINE f == [p \in P |-> pixel(p)]
  <2>1. f \in [P -> S]
    OBVIOUS
  <2>2. \A c \in S : \E p \in P : f[p] = c
    BY <1>2
  <2>3. f \in Surjection(P, S)
    BY <2>1, <2>2 DEF Surjection
  <2>4. IsFiniteSet(P)
    BY PixelsAreFinite, FS_Subset
  <2> QED
    BY <2>3, <2>4, FS_Surjection
<1>4. n \in Nat
  BY <1>3, FS_CardinalityType
<1>5. hist' \in Surjection(1 .. n, S)
  <2>1. hist' \in Injection(1 .. n, S)
    BY <1>1, Fun_IsInj
  <2>2. Cardinality(1 .. n) = n
    BY <1>4, FS_Interval
  <2> QED
    BY <1>3, <2>1, <2>2, FS_Injection
<1>6. S \subseteq Colors
  OBVIOUS
<1>7. hist' \in Seq(Colors) /\ Len(hist') = n
  BY <1>1, <1>4, <1>6
<1>8. ASSUME NEW y \in Rows, NEW x \in Cols
      PROVE  \E i \in 1 .. n : hist'[i] = cur[y][x]
  <2>1. cur[y][x] \in S
    <3>1. cur[y][x] \in Colors
      BY DEF ImageInv
    <3>2. <<y, x>> \in Rows \X Cols /\ pixel(<<y, x>>) = cur[y][x]
      OBVIOUS
    <3> QED
      BY <1>2, <3>1, <3>2
  <2> HIDE DEF S, n
  <2> QED
    BY <1>5, <2>1 DEF Surjection
<1> HIDE DEF S, n
<1> QED
  BY <1>1, <1>7, <1>8 DEF HistInv

\* The index of the colour of a pixel, the stream for it, and what it gets.
IndexAt(y, x)  == ColorIndex(cur[y][x])
StreamAt(y, x) == StreamFor(IndexAt(y, x))
ValueAt(y, x)  ==
  IF StreamAt(y, x) = "p16" THEN cur[y][x]
  ELSE IndexAt(y, x) - First[StreamAt(y, x)]

LEMMA IndexIsPlace ==
  ASSUME HistInv, NEW y \in Rows, NEW x \in Cols
  PROVE  /\ IndexAt(y, x) \in 0 .. Len(hist) - 1
         /\ hist[IndexAt(y, x) + 1] = cur[y][x]
         /\ \A i \in 0 .. Len(hist) - 1 :
              hist[i + 1] = cur[y][x] => i = IndexAt(y, x)
<1>1. PICK k \in 1 .. Len(hist) : hist[k] = cur[y][x]
  BY DEF HistInv
<1>2. Len(hist) \in Nat
  BY LenProperties DEF HistInv
<1>3. k - 1 \in 0 .. Len(hist) - 1 /\ (k - 1) + 1 = k
  BY <1>2
<1>4. \E i \in 0 .. Len(hist) - 1 : hist[i + 1] = cur[y][x]
  BY <1>1, <1>3
<1>5. IndexAt(y, x) \in 0 .. Len(hist) - 1
      /\ hist[IndexAt(y, x) + 1] = cur[y][x]
  BY <1>4 DEF IndexAt, ColorIndex
<1>6. ASSUME NEW i \in 0 .. Len(hist) - 1, hist[i + 1] = cur[y][x]
      PROVE  i = IndexAt(y, x)
  <2> DEFINE j == IndexAt(y, x)
  <2>1. j \in 0 .. Len(hist) - 1 /\ hist[j + 1] = cur[y][x]
    BY <1>5
  <2> HIDE DEF j
  <2>2. i + 1 \in 1 .. Len(hist) /\ j + 1 \in 1 .. Len(hist)
    BY <1>2, <2>1
  <2>3. i + 1 = j + 1
    BY <1>6, <2>1, <2>2 DEF HistInv
  <2>4. i = j
    BY <2>1, <2>3
  <2> QED
    BY <2>4 DEF j
<1> QED
  BY <1>5, <1>6

\* A pixel's stream is one of the four, and holds what it gets.
LEMMA ValueFits ==
  ASSUME ImageInv, HistInv, NEW y \in Rows, NEW x \in Cols
  PROVE  /\ StreamAt(y, x) \in Coloured
         /\ ValueAt(y, x) \in Values(StreamAt(y, x))
         /\ \A s \in Palettes : StreamAt(y, x) = s <=>
              First[s] <= IndexAt(y, x) /\ IndexAt(y, x) < After[s]
<1> DEFINE i == IndexAt(y, x)
<1>1. i \in Nat
  BY IndexIsPlace, LenProperties DEF HistInv
<1>2. cur[y][x] \in Colors
  BY DEF ImageInv
<1> HIDE DEF i
<1>3. P2Size \in 1 .. 4 /\ P4Size \in 1 .. 16 /\ P8Size \in 1 .. 256
  BY FrameAssumption
<1>4. /\ StreamFor(i) \in Coloured
      /\ \A s \in Palettes : StreamFor(i) = s <=> First[s] <= i /\ i < After[s]
  <2> DEFINE a == P2Size  b == P2Size + P4Size  c == P2Size + P4Size + P8Size
  <2>1. a \in Nat /\ b \in Nat /\ c \in Nat /\ a < b /\ b < c
    BY <1>3
  <2>2. /\ First["p2"] = 0 /\ First["p4"] = a /\ First["p8"] = b
        /\ After["p2"] = a /\ After["p4"] = b /\ After["p8"] = c
    BY DEF First, After
  <2> HIDE DEF a, b, c
  <2>3. StreamFor(i) = CASE i < a           -> "p2"
                         [] a <= i /\ i < b -> "p4"
                         [] b <= i /\ i < c -> "p8"
                         [] c <= i          -> "p16"
    BY <2>2 DEF StreamFor
  <2>4. /\ i < a => StreamFor(i) = "p2"
        /\ a <= i /\ i < b => StreamFor(i) = "p4"
        /\ b <= i /\ i < c => StreamFor(i) = "p8"
        /\ c <= i => StreamFor(i) = "p16"
    BY <1>1, <2>1, <2>3
  <2>5. \/ i < a
        \/ a <= i /\ i < b
        \/ b <= i /\ i < c
        \/ c <= i
    BY <1>1, <2>1
  <2>6. StreamFor(i) \in Coloured
    BY <2>4, <2>5 DEF Coloured
  <2>7. /\ StreamFor(i) = "p2" <=> 0 <= i /\ i < a
        /\ StreamFor(i) = "p4" <=> a <= i /\ i < b
        /\ StreamFor(i) = "p8" <=> b <= i /\ i < c
    BY <1>1, <2>1, <2>4, <2>5
  <2> QED
    BY <2>2, <2>6, <2>7 DEF Palettes
<1>5. ASSUME StreamFor(i) # "p16"
      PROVE  i - First[StreamFor(i)] \in Values(StreamFor(i))
  <2>1. CASE StreamFor(i) = "p2"
    BY <1>1, <1>3, <1>4, <2>1, Sizes DEF Palettes, First, After, Values
  <2>2. CASE StreamFor(i) = "p4"
    BY <1>1, <1>3, <1>4, <2>2, Sizes DEF Palettes, First, After, Values
  <2>3. CASE StreamFor(i) = "p8"
    BY <1>1, <1>3, <1>4, <2>3, Sizes DEF Palettes, First, After, Values
  <2> QED
    BY <1>4, <1>5, <2>1, <2>2, <2>3 DEF Coloured
<1>6. StreamFor(i) = "p16" => cur[y][x] \in Values(StreamFor(i))
  BY <1>2 DEF Values
<1> QED
  BY <1>4, <1>5, <1>6 DEF StreamAt, ValueAt, i

-----------------------------------------------------------------------------
(* The streams of a line, pixel by pixel.                                  *)

LineStart(y) ==
  [NoStreams EXCEPT !.span = [t \in 1 .. NumTilesX |-> spanChanged[y][t - 1]]]

Changed(y, x) == spanChanged[y][TileOf(x)] = 1

LineStep(y, x, streams) ==
  IF Changed(y, x) THEN WithPixel(streams, cur[y][x]) ELSE streams

\* f has the streams of the line upto each of its pixels, the n-th included.
IsUpto(f, y, n) ==
  f = [x \in 0 .. n |-> IF x = 0 THEN LineStart(y)
                        ELSE LineStep(y, x - 1, f[x - 1])]

Upto(y) == CHOOSE f : IsUpto(f, y, Width)

LEMMA StreamsUpto ==
  ASSUME NEW y
  PROVE  /\ Upto(y)[0] = LineStart(y)
         /\ \A x \in Cols : Upto(y)[x + 1] = LineStep(y, x, Upto(y)[x])
         /\ StreamsOf(y) = Upto(y)[Width]
<1> DEFINE N == {n \in Nat : \E f : IsUpto(f, y, n)}
<1>1. 0 \in N
  <2>1. IsUpto([x \in 0 .. 0 |-> LineStart(y)], y, 0)
    BY DEF IsUpto
  <2> QED
    BY <2>1
<1>2. ASSUME NEW n \in N PROVE n + 1 \in N
  <2>1. PICK f : IsUpto(f, y, n)
    OBVIOUS
  <2>2. n \in Nat
    OBVIOUS
  <2> DEFINE g == [x \in 0 .. n + 1 |->
                    IF x <= n THEN f[x] ELSE LineStep(y, n, f[n])]
  <2>3. \A x \in 0 .. n : f[x] = IF x = 0 THEN LineStart(y)
                                 ELSE LineStep(y, x - 1, f[x - 1])
    BY <2>1 DEF IsUpto
  <2>4. ASSUME NEW x \in 0 .. n + 1
        PROVE  g[x] = IF x = 0 THEN LineStart(y) ELSE LineStep(y, x - 1, g[x - 1])
    <3>1. CASE x = 0
      BY <2>2, <2>3, <3>1
    <3>2. CASE x # 0 /\ x <= n
      BY <2>2, <2>3, <3>2
    <3>3. CASE x = n + 1
      BY <2>2, <3>3
    <3> QED
      BY <2>2, <3>1, <3>2, <3>3
  <2>5. g = [x \in 0 .. n + 1 |-> g[x]]
    OBVIOUS
  <2> HIDE DEF g, N
  <2>6. IsUpto(g, y, n + 1)
    BY <2>4, <2>5 DEF IsUpto
  <2> QED
    BY <2>2, <2>6 DEF N
<1>3. N \in SUBSET Nat
  OBVIOUS
<1> HIDE DEF N
<1>4. Width \in N
  BY <1>1, <1>2, <1>3, Induction, FrameAssumption
<1>5. \E f : IsUpto(f, y, Width)
  BY <1>4 DEF N
<1>6. IsUpto(Upto(y), y, Width)
  BY <1>5 DEF Upto
<1>7. \A x \in 0 .. Width :
        Upto(y)[x] = IF x = 0 THEN LineStart(y)
                     ELSE LineStep(y, x - 1, Upto(y)[x - 1])
  BY <1>6 DEF IsUpto
<1>8. Upto(y)[0] = LineStart(y)
  BY <1>7, FrameAssumption
<1>9. ASSUME NEW x \in Cols
      PROVE  Upto(y)[x + 1] = LineStep(y, x, Upto(y)[x])
  <2>1. x + 1 \in 0 .. Width /\ x + 1 # 0 /\ (x + 1) - 1 = x
    BY FrameAssumption DEF Cols
  <2> QED
    BY <1>7, <2>1
<1>10. StreamsOf(y) = Upto(y)[Width]
  BY DEF StreamsOf, Upto, IsUpto, LineStart, LineStep, Changed
<1> QED
  BY <1>8, <1>9, <1>10

\* The pixels of the first n that are sent, and those that go to a stream; the
\* places among the first k of a selector that tell of the stream.
Sent(y, n)    == {z \in 0 .. n - 1 : Changed(y, z)}
Into(y, n, s) == {z \in Sent(y, n) : StreamAt(y, z) = s}
Turns(selector, k, s) == {j \in 1 .. k : selector[j] = Selector[s]}

\* A reader finds pixel z of line y in the streams.
Finds(y, z, streams) ==
  LET k == Cardinality(Sent(y, z + 1))
      s == StreamAt(y, z)
      n == Cardinality(Turns(streams.selector, k, s))
  IN  /\ k \in 1 .. Len(streams.selector)
      /\ streams.selector[k] = Selector[s]
      /\ n \in 1 .. Len(streams[s])
      /\ streams[s][n] = ValueAt(y, z)

\* The streams of the first n pixels of line y.
AreStreams(y, n, streams) ==
  /\ DOMAIN streams = DOMAIN NoStreams
  /\ streams.span = [t \in 1 .. NumTilesX |-> spanChanged[y][t - 1]]
  /\ streams.selector \in Seq(0 .. 3)
  /\ Len(streams.selector) = Cardinality(Sent(y, n))
  /\ \A s \in Coloured :
       /\ streams[s] \in Seq(Values(s))
       /\ Len(streams[s]) = Cardinality(Into(y, n, s))
       /\ Len(streams[s]) =
            Cardinality(Turns(streams.selector, Len(streams.selector), s))
  /\ \A z \in Sent(y, n) : Finds(y, z, streams)

LEMMA NumbersOfStreams ==
  /\ \A s \in Coloured : Selector[s] \in 0 .. 3
  /\ \A s, t \in Coloured : Selector[s] = Selector[t] => s = t
  /\ Coloured \subseteq DOMAIN NoStreams
  /\ {"span", "selector"} \subseteq DOMAIN NoStreams
BY DEF Selector, Coloured, SELECTOR_P2, SELECTOR_P4, SELECTOR_P8, SELECTOR_RAW,
       NoStreams, Streams, SymbolSize

LEMMA PixelIsAdded ==
  ASSUME ImageInv, HistInv, NEW y \in Rows, NEW x \in Cols,
         NEW u, DOMAIN u = DOMAIN NoStreams
  PROVE  LET v == WithPixel(u, cur[y][x])
             s == StreamAt(y, x)
         IN  /\ DOMAIN v = DOMAIN NoStreams /\ v.span = u.span
             /\ v.selector = Append(u.selector, Selector[s])
             /\ v[s] = Append(u[s], ValueAt(y, x))
             /\ \A t \in Coloured : t # s => v[t] = u[t]
<1> DEFINE v == WithPixel(u, cur[y][x])
           s == StreamAt(y, x)
           w == [u EXCEPT !["selector"] = Append(u["selector"], Selector[s])]
<1>1. s \in Coloured /\ s \in DOMAIN u /\ s # "selector" /\ s # "span"
      /\ "selector" \in DOMAIN u /\ "span" \in DOMAIN u
  BY ValueFits, NumbersOfStreams DEF Coloured
<1>2. v = [w EXCEPT ![s] = Append(u[s], ValueAt(y, x))]
  BY DEF WithPixel, StreamAt, IndexAt, ValueAt
<1>3. \A t \in Coloured : t \in DOMAIN u /\ t # "selector"
  BY NumbersOfStreams DEF Coloured
<1> HIDE DEF v, s
<1>4. DOMAIN v = DOMAIN u /\ v["span"] = u["span"]
      /\ v["selector"] = Append(u["selector"], Selector[s])
      /\ v[s] = Append(u[s], ValueAt(y, x))
      /\ \A t \in Coloured : t # s => v[t] = u[t]
  BY <1>1, <1>2, <1>3
<1> QED
  BY <1>4 DEF v, s

\* One pixel more, or not.
LEMMA SentGrows ==
  ASSUME NEW y, NEW x \in Nat
  PROVE  /\ Changed(y, x) => Sent(y, x + 1) = Sent(y, x) \cup {x}
         /\ ~ Changed(y, x) => Sent(y, x + 1) = Sent(y, x)
         /\ x \notin Sent(y, x)
         /\ IsFiniteSet(Sent(y, x)) /\ Cardinality(Sent(y, x)) \in Nat
         /\ Cardinality(Sent(y, x)) <= x
<1>1. 0 .. (x + 1) - 1 = (0 .. x - 1) \cup {x} /\ x \notin 0 .. x - 1
  OBVIOUS
<1>2. IsFiniteSet(0 .. x - 1) /\ Cardinality(0 .. x - 1) = x
  BY FS_Interval
<1>3. Sent(y, x) \in SUBSET (0 .. x - 1)
  BY DEF Sent
<1>4. IsFiniteSet(Sent(y, x)) /\ Cardinality(Sent(y, x)) <= x
  BY <1>2, <1>3, FS_Subset
<1>5. Cardinality(Sent(y, x)) \in Nat
  BY <1>4, FS_CardinalityType
<1> QED
  BY <1>1, <1>4, <1>5 DEF Sent

LEMMA TurnsStay ==
  ASSUME NEW q \in Seq(0 .. 3), NEW r \in 0 .. 3, NEW s, NEW k \in 0 .. Len(q)
  PROVE  Turns(Append(q, r), k, s) = Turns(q, k, s)
<1>1. Len(q) \in Nat /\ \A j \in 1 .. Len(q) : Append(q, r)[j] = q[j]
  BY AppendProperties, LenProperties
<1> QED
  BY <1>1 DEF Turns

LEMMA TurnsGrow ==
  ASSUME NEW q \in Seq(0 .. 3), NEW r \in 0 .. 3, NEW s
  PROVE  /\ r = Selector[s] =>
              Turns(Append(q, r), Len(q) + 1, s) = Turns(q, Len(q), s) \cup {Len(q) + 1}
         /\ r # Selector[s] =>
              Turns(Append(q, r), Len(q) + 1, s) = Turns(q, Len(q), s)
         /\ Len(q) + 1 \notin Turns(q, Len(q), s)
         /\ IsFiniteSet(Turns(q, Len(q), s))
<1> DEFINE p == Append(q, r)  l == Len(q)
<1>1. l \in Nat /\ \A j \in 1 .. l : p[j] = q[j]
  BY AppendProperties, LenProperties
<1>2. p[l + 1] = r
  BY AppendProperties
<1> HIDE DEF p, l
<1>4. 1 .. l + 1 = (1 .. l) \cup {l + 1} /\ l + 1 \notin 1 .. l
  BY <1>1
<1>5. Turns(p, l + 1, s) = Turns(q, l, s) \cup {j \in {l + 1} : r = Selector[s]}
  BY <1>1, <1>2, <1>4 DEF Turns
<1>6. IsFiniteSet(Turns(q, l, s))
  <2>1. IsFiniteSet(1 .. l)
    BY <1>1, FS_Interval
  <2>2. Turns(q, l, s) \in SUBSET (1 .. l)
    BY DEF Turns
  <2> QED
    BY <2>1, <2>2, FS_Subset
<1>7. l + 1 \notin Turns(q, l, s)
  BY <1>4 DEF Turns
<1> QED
  BY <1>5, <1>6, <1>7 DEF p, l

LEMMA StreamsStart == ASSUME NEW y PROVE AreStreams(y, 0, LineStart(y))
<1> DEFINE u == LineStart(y)
<1>1. /\ DOMAIN u = DOMAIN NoStreams
      /\ u["span"] = [t \in 1 .. NumTilesX |-> spanChanged[y][t - 1]]
      /\ u["selector"] = <<>> /\ \A s \in Coloured : u[s] = <<>>
  BY DEF LineStart, NoStreams, Streams, SymbolSize, Coloured
<1>2. Sent(y, 0) = {} /\ \A s : Into(y, 0, s) = {} /\ Turns(<<>>, 0, s) = {}
  BY DEF Sent, Into, Turns
<1> HIDE DEF u
<1>3. \A S : <<>> \in Seq(S) /\ Len(<<>>) = 0
  OBVIOUS
<1> QED
  BY <1>1, <1>2, <1>3, FS_EmptySet DEF AreStreams, u

\* Another pixel does not move what a reader finds.
LEMMA FindsStays ==
  ASSUME NEW y, NEW z, NEW u, NEW v, Finds(y, z, u),
         u.selector \in Seq(0 .. 3), NEW r \in 0 .. 3,
         v.selector = Append(u.selector, r),
         NEW S, u[StreamAt(y, z)] \in Seq(S),
         NEW e \in S,
         \/ v[StreamAt(y, z)] = u[StreamAt(y, z)]
         \/ v[StreamAt(y, z)] = Append(u[StreamAt(y, z)], e)
  PROVE  Finds(y, z, v)
<1> DEFINE k == Cardinality(Sent(y, z + 1))
           s == StreamAt(y, z)
           p == u.selector
           q == v.selector
           n == Cardinality(Turns(p, k, s))
           a == u[s]
           b == v[s]
           l == Len(p)
           m == Len(a)
<1>1. k \in 1 .. l /\ p[k] = Selector[s] /\ n \in 1 .. m /\ a[n] = ValueAt(y, z)
  BY DEF Finds
<1>2. p \in Seq(0 .. 3) /\ q = Append(p, r) /\ a \in Seq(S)
      /\ (b = a \/ b = Append(a, e))
  OBVIOUS
<1>3. Finds(y, z, v) <=>
        /\ k \in 1 .. Len(q) /\ q[k] = Selector[s]
        /\ Cardinality(Turns(q, k, s)) \in 1 .. Len(b)
        /\ b[Cardinality(Turns(q, k, s))] = ValueAt(y, z)
  BY DEF Finds
<1> HIDE DEF k, s, p, q, a, b
<1>4. l \in Nat /\ m \in Nat
  BY <1>2, LenProperties
<1>5. Len(q) = l + 1 /\ \A i \in 1 .. l : q[i] = p[i]
  BY <1>2, AppendProperties
<1>6. Len(b) \in Nat /\ Len(b) >= m /\ \A i \in 1 .. m : b[i] = a[i]
  <2>1. CASE b = a
    BY <1>4, <2>1
  <2>2. CASE b = Append(a, e)
    <3>1. Len(b) = m + 1 /\ \A i \in 1 .. m : b[i] = a[i]
      BY <1>2, <2>2, AppendProperties
    <3> QED
      BY <1>4, <3>1
  <2> QED
    BY <1>2, <2>1, <2>2
<1>7. k \in 0 .. l
  BY <1>1, <1>4
<1>8. Turns(q, k, s) = Turns(p, k, s)
  <2>1. Turns(Append(p, r), k, s) = Turns(p, k, s)
    BY <1>2, <1>7, TurnsStay
  <2> QED
    BY <1>2, <2>1
<1> HIDE DEF n, l, m
<1>9. Cardinality(Turns(q, k, s)) = n
  BY <1>8 DEF n
<1> QED
  BY <1>1, <1>3, <1>4, <1>5, <1>6, <1>9

LEMMA StreamsStep ==
  ASSUME ImageInv, HistInv, NEW y \in Rows, NEW x \in Cols,
         NEW u, AreStreams(y, x, u)
  PROVE  AreStreams(y, x + 1, LineStep(y, x, u))
<1>1. x \in Nat
  BY DEF Cols
<1>2. CASE ~ Changed(y, x)
  <2>1. Sent(y, x + 1) = Sent(y, x)
    BY <1>1, <1>2, SentGrows
  <2> QED
    BY <1>2, <2>1 DEF AreStreams, Into, LineStep
<1>3. CASE Changed(y, x)
  <2> DEFINE v == WithPixel(u, cur[y][x])
             s == StreamAt(y, x)
             p == u.selector
             r == Selector[s]
             l == Len(p)
  <2>1. /\ DOMAIN u = DOMAIN NoStreams /\ p \in Seq(0 .. 3)
        /\ u.span = [t \in 1 .. NumTilesX |-> spanChanged[y][t - 1]]
        /\ Len(p) = Cardinality(Sent(y, x))
        /\ \A t \in Coloured :
             /\ u[t] \in Seq(Values(t))
             /\ Len(u[t]) = Cardinality(Into(y, x, t))
             /\ Len(u[t]) = Cardinality(Turns(p, Len(p), t))
        /\ \A z \in Sent(y, x) : Finds(y, z, u)
    BY DEF AreStreams
  <2>2. /\ DOMAIN v = DOMAIN NoStreams /\ v.span = u.span
        /\ v.selector = Append(p, r)
        /\ v[s] = Append(u[s], ValueAt(y, x))
        /\ \A t \in Coloured : t # s => v[t] = u[t]
    <3>1. DOMAIN u = DOMAIN NoStreams
      BY <2>1
    <3> QED
      BY <3>1, PixelIsAdded, ZenonT(60)
  <2>3. /\ s \in Coloured /\ ValueAt(y, x) \in Values(s) /\ r \in 0 .. 3
        /\ \A t \in Coloured : r = Selector[t] <=> t = s
    BY ValueFits, NumbersOfStreams
  <2>4. /\ Sent(y, x + 1) = Sent(y, x) \cup {x} /\ x \notin Sent(y, x)
        /\ IsFiniteSet(Sent(y, x))
    BY <1>1, <1>3, SentGrows
  <2> HIDE DEF v, s, p, r
  <2>5. l \in Nat /\ Len(v.selector) = l + 1 /\ v.selector \in Seq(0 .. 3)
        /\ v.selector[l + 1] = r
    BY <2>1, <2>2, <2>3, AppendProperties, LenProperties
  <2>6. Cardinality(Sent(y, x + 1)) = l + 1
    BY <2>1, <2>4, FS_AddElement
  <2>7. ASSUME NEW t \in Coloured
        PROVE  /\ v[t] \in Seq(Values(t))
               /\ Len(v[t]) = Cardinality(Into(y, x + 1, t))
               /\ Len(v[t]) = Cardinality(Turns(v.selector, l + 1, t))
    <3>1. IsFiniteSet(Into(y, x, t)) /\ x \notin Into(y, x, t)
      <4>1. Into(y, x, t) \in SUBSET Sent(y, x)
        BY DEF Into
      <4> QED
        BY <2>4, <4>1, FS_Subset
    <3>2. /\ IsFiniteSet(Turns(p, l, t)) /\ l + 1 \notin Turns(p, l, t)
          /\ r = Selector[t] =>
               Turns(Append(p, r), l + 1, t) = Turns(p, l, t) \cup {l + 1}
          /\ r # Selector[t] => Turns(Append(p, r), l + 1, t) = Turns(p, l, t)
      <4>1. p \in Seq(0 .. 3) /\ r \in 0 .. 3 /\ l \in Nat
        BY <2>1, <2>3, <2>5
      <4> QED
        BY <4>1, TurnsGrow
    <3>3. CASE t = s
      <4>1. Into(y, x + 1, t) = Into(y, x, t) \cup {x}
        BY <2>4, <3>3 DEF Into, s
      <4>2. Turns(v.selector, l + 1, t) = Turns(p, l, t) \cup {l + 1}
        BY <2>2, <2>3, <3>2, <3>3
      <4>3. v[t] \in Seq(Values(t)) /\ Len(v[t]) = Len(u[t]) + 1
        <5>1. u[t] \in Seq(Values(t)) /\ ValueAt(y, x) \in Values(t)
              /\ v[t] = Append(u[t], ValueAt(y, x))
          BY <2>1, <2>2, <2>3, <3>3
        <5> QED
          BY <5>1, AppendProperties
      <4>4. Cardinality(Into(y, x + 1, t)) = Cardinality(Into(y, x, t)) + 1
        BY <3>1, <4>1, FS_AddElement
      <4>5. Cardinality(Turns(v.selector, l + 1, t))
              = Cardinality(Turns(p, l, t)) + 1
        BY <3>2, <4>2, FS_AddElement
      <4> QED
        BY <2>1, <4>3, <4>4, <4>5
    <3>4. CASE t # s
      <4>1. Into(y, x + 1, t) = Into(y, x, t)
        BY <2>4, <3>4 DEF Into, s
      <4>2. Turns(v.selector, l + 1, t) = Turns(p, l, t)
        BY <2>2, <2>3, <3>2, <3>4
      <4>3. v[t] = u[t]
        BY <2>2, <3>4
      <4> QED
        BY <2>1, <4>1, <4>2, <4>3
    <3> QED
      BY <3>3, <3>4
  <2>8. ASSUME NEW z \in Sent(y, x) PROVE Finds(y, z, v)
    <3>1. z \in Cols
      BY <1>1, FrameAssumption DEF Sent, Cols
    <3> DEFINE t == StreamAt(y, z)
    <3>2. t \in Coloured /\ ValueAt(y, z) \in Values(t)
      BY <3>1, ValueFits
    <3>3. u[t] \in Seq(Values(t)) /\ Finds(y, z, u)
      BY <2>1, <3>2
    <3>4. CASE t = s
      <4>1. v[t] = Append(u[t], ValueAt(y, x)) /\ ValueAt(y, x) \in Values(t)
        BY <2>2, <2>3, <3>4
      <4> QED
        BY <2>1, <2>2, <2>3, <3>3, <4>1, FindsStays DEF p
    <3>5. CASE t # s
      <4>1. v[t] = u[t]
        BY <2>2, <3>2, <3>5
      <4> QED
        BY <2>1, <2>2, <2>3, <3>2, <3>3, <4>1, FindsStays DEF p
    <3> QED
      BY <3>4, <3>5
  <2>9. Finds(y, x, v)
    <3>1. Len(v[s]) = Cardinality(Turns(v.selector, l + 1, s))
      BY <2>3, <2>7
    <3>2. Len(v[s]) = Len(u[s]) + 1 /\ v[s][Len(u[s]) + 1] = ValueAt(y, x)
          /\ Len(u[s]) \in Nat
      BY <2>1, <2>2, <2>3, AppendProperties, LenProperties
    <3> DEFINE n == Cardinality(Turns(v.selector, l + 1, s))
    <3>3. n \in 1 .. Len(v[s]) /\ v[s][n] = ValueAt(y, x)
      <4> HIDE DEF n
      <4>1. n = Len(u[s]) + 1
        BY <3>1, <3>2 DEF n
      <4> QED
        BY <3>2, <4>1
    <3>4. l + 1 \in 1 .. l + 1
      BY <2>5
    <3> QED
      BY <2>5, <2>6, <3>3, <3>4 DEF Finds, s, r
  <2>10. \A z \in Sent(y, x + 1) : Finds(y, z, v)
    BY <2>4, <2>8, <2>9
  <2>11. AreStreams(y, x + 1, v)
    BY <2>1, <2>2, <2>5, <2>6, <2>7, <2>10 DEF AreStreams
  <2> QED
    BY <1>3, <2>11 DEF LineStep, v
<1> QED
  BY <1>2, <1>3

\* What EncodeFrame writes for a line is read back from it.
LEMMA StreamsOfLine ==
  ASSUME ImageInv, HistInv, NEW y \in Rows
  PROVE  AreStreams(y, Width, StreamsOf(y))
<1> DEFINE N == {n \in Nat : n <= Width => AreStreams(y, n, Upto(y)[n])}
<1>1. 0 \in N
  BY StreamsStart, StreamsUpto
<1>2. ASSUME NEW n \in N PROVE n + 1 \in N
  <2>1. n \in Nat
    OBVIOUS
  <2>2. ASSUME n + 1 <= Width PROVE AreStreams(y, n + 1, Upto(y)[n + 1])
    <3>1. n \in Cols /\ n <= Width
      BY <2>1, <2>2, FrameAssumption DEF Cols
    <3>2. AreStreams(y, n, Upto(y)[n])
      BY <3>1
    <3>3. Upto(y)[n + 1] = LineStep(y, n, Upto(y)[n])
      BY <3>1, StreamsUpto
    <3> QED
      BY <3>1, <3>2, <3>3, StreamsStep
  <2> QED
    BY <2>1, <2>2
<1>3. N \in SUBSET Nat
  OBVIOUS
<1>4. Width \in Nat /\ Width <= Width
  BY FrameAssumption
<1> HIDE DEF N
<1>5. Width \in N
  BY <1>1, <1>2, <1>3, <1>4, Induction
<1> QED
  BY <1>4, <1>5, StreamsUpto DEF N

-----------------------------------------------------------------------------
(* Reading the streams of a line.                                          *)

\* Each pixel is in one of the spans.
LEMMA TileOfPixel == ASSUME NEW x \in Cols PROVE TileOf(x) \in Tiles
<1> DEFINE q == x \div TileWidth
           a == Width + TileWidth - 1
           n == a \div TileWidth
<1>1. /\ TileWidth \in Nat /\ TileWidth > 0 /\ Width \in Nat
      /\ x \in Nat /\ x < Width
  BY FrameAssumption DEF Cols
<1>2. q \in Nat /\ TileWidth * q <= x
  BY <1>1
<1>3. a \in Nat /\ a >= Width
  BY <1>1
<1>4. n \in Nat /\ a < TileWidth * n + TileWidth
  <2> HIDE DEF a
  <2> QED
    BY <1>1, <1>3
<1> HIDE DEF q, n
<1>5. CASE n <= q
  <2>1. TileWidth * n <= TileWidth * q
    BY <1>1, <1>2, <1>4, <1>5
  <2>2. TileWidth * n \in Nat /\ TileWidth * q \in Nat
    BY <1>1, <1>2, <1>4
  <2> DEFINE u == TileWidth * n  v == TileWidth * q
  <2>3. u \in Nat /\ v \in Nat /\ u <= v /\ v <= x /\ a < u + TileWidth
    BY <1>2, <1>4, <2>1, <2>2
  <2> HIDE DEF u, v
  <2> QED
    BY <1>1, <2>3
<1>6. CASE q < n
  <2>1. q \in 0 .. n - 1
    BY <1>2, <1>4, <1>6
  <2> QED
    BY <2>1 DEF TileOf, Tiles, NumTilesX, q, n, a
<1> QED
  BY <1>2, <1>4, <1>5, <1>6

\* A line that is not marked has no change, nor has a span that is not.
LineMarked(y) ==
  /\ lineChanged[y] \in {0, 1}
  /\ lineChanged[y] = 0 => \A x \in Cols : ~ Differs(y, x)
  /\ \A x \in Cols : Differs(y, x) => Changed(y, x)

LineWritten(y) == lineChanged[y] = 1 => lineInfos[y] = StreamsOf(y)

LEMMA PixelIsRebuilt ==
  ASSUME ImageInv, HistInv, NEW y \in Rows, NEW x \in Cols,
         LineMarked(y), LineWritten(y)
  PROVE  Decoded(y, x) = cur[y][x]
<1> DEFINE l == lineInfos[y]
           sent == {z \in 0 .. x : l.span[z \div TileWidth + 1] = 1}
           k == Cardinality(sent)
           sel == l.selector[k]
           n == Cardinality({j \in 1 .. k : l.selector[j] = sel})
           s == StreamAt(y, x)
           value == CASE sel = SELECTOR_P2  -> hist[l.p2[n] + 1]
                      [] sel = SELECTOR_P4  -> hist[P2Size + l.p4[n] + 1]
                      [] sel = SELECTOR_P8  -> hist[P2Size + P4Size + l.p8[n] + 1]
                      [] sel = SELECTOR_RAW -> l.p16[n]
<1>1. Decoded(y, x) =
        IF LineStream[y + 1] = 0 \/ x \notin sent THEN prev[y][x] ELSE value
  BY DEF Decoded
<1>2. LineStream[y + 1] = lineChanged[y]
  <2>1. y + 1 \in 1 .. Height /\ (y + 1) - 1 = y
    BY FrameAssumption DEF Rows
  <2> QED
    BY <2>1 DEF LineStream
<1>3. x \in Nat /\ Width \in Nat /\ x < Width
  BY FrameAssumption DEF Cols
<1>4. CASE lineChanged[y] = 0
  BY <1>1, <1>2, <1>4 DEF LineMarked, Differs
<1>5. CASE lineChanged[y] = 1
  <2>1. l = StreamsOf(y) /\ AreStreams(y, Width, l)
    BY <1>5, StreamsOfLine DEF LineWritten
  <2>2. /\ l.span = [t \in 1 .. NumTilesX |-> spanChanged[y][t - 1]]
        /\ \A z \in Sent(y, Width) : Finds(y, z, l)
    BY <2>1 DEF AreStreams
  <2>3. ASSUME NEW z \in 0 .. x
        PROVE  l.span[z \div TileWidth + 1] = 1 <=> Changed(y, z)
    <3> DEFINE t == z \div TileWidth
    <3>1. t \in 0 .. NumTilesX - 1 /\ t = TileOf(z)
      <4>1. z \in Cols
        BY <1>3 DEF Cols
      <4> QED
        BY <4>1, TileOfPixel DEF Tiles, TileOf
    <3> HIDE DEF t
    <3>2. t + 1 \in 1 .. NumTilesX /\ (t + 1) - 1 = t
      BY <3>1, TileCounts
    <3>3. l.span[t + 1] = spanChanged[y][t]
      BY <2>2, <3>2
    <3> QED
      BY <3>1, <3>3 DEF t, Changed
  <2>4. sent = Sent(y, x + 1)
    <3>1. 0 .. (x + 1) - 1 = 0 .. x
      BY <1>3
    <3> QED
      BY <2>3, <3>1 DEF Sent
  <2>5. x \in sent <=> Changed(y, x)
    BY <1>3, <2>3
  <2> HIDE DEF l, sent
  <2>6. CASE ~ Changed(y, x)
    BY <1>1, <2>5, <2>6 DEF LineMarked, Differs
  <2>7. CASE Changed(y, x)
    <3>8. Decoded(y, x) = value
      <4> HIDE DEF value
      <4> QED
        BY <1>1, <1>2, <1>5, <2>5, <2>7
    <3>1. x \in Sent(y, Width)
      BY <1>3, <2>7 DEF Sent
    <3>2. Finds(y, x, l)
      BY <2>2, <3>1
    <3>3. sel = Selector[s]
      BY <2>4, <3>2 DEF Finds
    <3>4. n = Cardinality(Turns(l.selector, k, s))
      BY <3>3 DEF Turns
    <3>5. l[s][n] = ValueAt(y, x)
      BY <2>4, <3>2, <3>4 DEF Finds
    <3> HIDE DEF k, sel, n
    <3>6. /\ IndexAt(y, x) \in Nat /\ hist[IndexAt(y, x) + 1] = cur[y][x]
          /\ s \in Coloured
      BY IndexIsPlace, ValueFits, LenProperties DEF HistInv
    <3>7. P2Size \in Nat /\ P4Size \in Nat
      BY FrameAssumption
    <3> DEFINE i == IndexAt(y, x)
    <3> HIDE DEF i
    <3>9. CASE s = "p2"
      <4>1. l.p2[n] = i /\ sel = SELECTOR_P2
        BY <3>3, <3>5, <3>6, <3>9
        DEF Selector, ValueAt, First, s, i
      <4> QED
        BY <3>6, <3>8, <4>1
        DEF i, SELECTOR_P2, SELECTOR_P4, SELECTOR_P8, SELECTOR_RAW
    <3>10. CASE s = "p4"
      <4>1. l.p4[n] = i - P2Size /\ sel = SELECTOR_P4
        BY <3>3, <3>5, <3>10 DEF Selector, ValueAt, First, s, i
      <4>2. P2Size + (i - P2Size) + 1 = i + 1
        BY <3>6, <3>7 DEF i
      <4> QED
        BY <3>6, <3>8, <4>1, <4>2
        DEF i, SELECTOR_P2, SELECTOR_P4, SELECTOR_P8, SELECTOR_RAW
    <3>11. CASE s = "p8"
      <4>1. l.p8[n] = i - (P2Size + P4Size) /\ sel = SELECTOR_P8
        BY <3>3, <3>5, <3>11 DEF Selector, ValueAt, First, s, i
      <4>2. P2Size + P4Size + (i - (P2Size + P4Size)) + 1 = i + 1
        BY <3>6, <3>7 DEF i
      <4> QED
        BY <3>6, <3>8, <4>1, <4>2
        DEF i, SELECTOR_P2, SELECTOR_P4, SELECTOR_P8, SELECTOR_RAW
    <3>12. CASE s = "p16"
      <4>1. l.p16[n] = cur[y][x] /\ sel = SELECTOR_RAW
        BY <3>3, <3>5, <3>12 DEF Selector, ValueAt, s
      <4> QED
        BY <3>8, <4>1
        DEF SELECTOR_P2, SELECTOR_P4, SELECTOR_P8, SELECTOR_RAW
    <3> QED
      BY <3>6, <3>9, <3>10, <3>11, <3>12 DEF Coloured
  <2> QED
    BY <2>6, <2>7
<1> QED
  BY <1>4, <1>5 DEF LineMarked

\* The streams of a line have symbols that fit them, no more than its pixels.
LEMMA LineStreamsFit ==
  ASSUME ImageInv, HistInv, NEW y \in Rows,
         spanChanged \in [Rows -> [Tiles -> {0, 1}]]
  PROVE  /\ \A s \in Streams : StreamsOf(y)[s] \in Seq(Values(s))
         /\ Len(StreamsOf(y)["span"]) = NumTilesX
         /\ Len(StreamsOf(y)["selector"]) <= Width
         /\ \A s \in Palettes :
              /\ Len(StreamsOf(y)[s]) <= Width
              /\ Len(StreamsOf(y)[s]) <=
                   Cardinality({x \in Cols : StreamAt(y, x) = s})
<1> DEFINE u == StreamsOf(y)
<1>1. /\ u["span"] = [t \in 1 .. NumTilesX |-> spanChanged[y][t - 1]]
      /\ u["selector"] \in Seq(0 .. 3)
      /\ Len(u["selector"]) = Cardinality(Sent(y, Width))
      /\ \A s \in Coloured : /\ u[s] \in Seq(Values(s))
                             /\ Len(u[s]) = Cardinality(Into(y, Width, s))
  BY StreamsOfLine DEF AreStreams
<1> HIDE DEF u
<1>2. u["span"] \in Seq({0, 1}) /\ Len(u["span"]) = NumTilesX
  <2>1. ASSUME NEW t \in 1 .. NumTilesX PROVE spanChanged[y][t - 1] \in {0, 1}
    <3>1. t - 1 \in Tiles
      BY TileCounts DEF Tiles
    <3> QED
      BY <3>1
  <2>2. u["span"] \in [1 .. NumTilesX -> {0, 1}]
    BY <1>1, <2>1
  <2> QED
    BY <2>2, TileCounts
<1>3. \A s \in Streams : u[s] \in Seq(Values(s))
  <2>1. Values("span") = {0, 1} /\ Values("selector") = 0 .. 3
    BY Sizes DEF Values
  <2> QED
    BY <1>1, <1>2, <2>1, Sizes DEF Coloured
<1>4. Width \in Nat
  BY FrameAssumption
<1>5. /\ IsFiniteSet(Sent(y, Width)) /\ Cardinality(Sent(y, Width)) \in Nat
      /\ Cardinality(Sent(y, Width)) <= Width
  BY <1>4, SentGrows
<1>6. ASSUME NEW s \in Palettes
      PROVE  /\ Len(u[s]) <= Width
             /\ Len(u[s]) <= Cardinality({x \in Cols : StreamAt(y, x) = s})
  <2> DEFINE T == {x \in Cols : StreamAt(y, x) = s}
  <2>1. Len(u[s]) = Cardinality(Into(y, Width, s))
    BY <1>1 DEF Palettes, Coloured
  <2>2. Into(y, Width, s) \in SUBSET Sent(y, Width)
    BY DEF Into
  <2>3. Into(y, Width, s) \in SUBSET T
    BY DEF Into, Sent, Cols
  <2>4. IsFiniteSet(T)
    BY PixelsAreFinite, FS_Subset
  <2>5. IsFiniteSet(Into(y, Width, s))
        /\ Cardinality(Into(y, Width, s)) <= Cardinality(Sent(y, Width))
    BY <1>5, <2>2, FS_Subset
  <2>6. Cardinality(Into(y, Width, s)) <= Cardinality(T)
    BY <2>3, <2>4, FS_Subset
  <2>7. Cardinality(Into(y, Width, s)) \in Nat
    BY <2>5, FS_CardinalityType
  <2> QED
    BY <1>4, <1>5, <2>1, <2>5, <2>6, <2>7
<1> QED
  BY <1>1, <1>2, <1>3, <1>5, <1>6 DEF u

-----------------------------------------------------------------------------
(* The pixels of a palette, counted by their colours and by their lines.   *)

PixelsOfIndex(i) == {p \in Rows \X Cols : IndexAt(p[1], p[2]) = i}

\* The pixels of the lines before y that go to a stream.
Pixels(s, y) ==
  {p \in Rows \X Cols : p[1] < y /\ StreamAt(p[1], p[2]) = s}

IndicesOf(s) == {i \in 0 .. Len(hist) - 1 : First[s] <= i /\ i < After[s]}
CountOf == [i \in 0 .. Len(hist) - 1 |-> Count(cur, hist[i + 1])]

LEMMA NumPixelsIsTotal ==
  ASSUME NEW s, IsFiniteSet(IndicesOf(s))
  PROVE  NumPixels(s) = Total(CountOf, IndicesOf(s))
<1> DEFINE I == IndicesOf(s)
           num(i) == Count(cur, hist[i + 1])
           Body(g, t) == IF t = {} THEN 0
                         ELSE num(CHOOSE x \in t : TRUE)
                              + g[t \ {CHOOSE x \in t : TRUE}]
           Sums(g) == g = [t \in SUBSET I |-> Body(g, t)]
           F == CountOf
<1>1. NumPixels(s) = (CHOOSE g : Sums(g))[I]
  BY DEF NumPixels, MapThenSumSet, MapThenFoldSet, IndicesOf
<1>2. ASSUME NEW t \in SUBSET I, t # {}
      PROVE  F[Elt(t)] = num(CHOOSE x \in t : TRUE)
  <2>1. Elt(t) \in t /\ Elt(t) = CHOOSE x \in t : TRUE
    BY <1>2 DEF Elt
  <2>2. Elt(t) \in 0 .. Len(hist) - 1
    BY <2>1 DEF IndicesOf
  <2> QED
    BY <2>1, <2>2 DEF CountOf
<1> HIDE DEF I, num, F
<1>3. ASSUME NEW g PROVE Sums(g) <=> IsSum(g, F, I)
  <2>1. ASSUME NEW t \in SUBSET I
        PROVE  Body(g, t) = IF t = {} THEN 0 ELSE F[Elt(t)] + g[t \ {Elt(t)}]
    BY <1>2, <2>1 DEF Elt
  <2> HIDE DEF Body
  <2> QED
    BY <2>1 DEF IsSum
<1> HIDE DEF Sums
<1>4. (CHOOSE g : Sums(g)) = CHOOSE g : IsSum(g, F, I)
  BY <1>3
<1> QED
  BY <1>1, <1>4 DEF Total, I, F

\* A palette has as many pixels as there are of its colours.
LEMMA PixelsOfPalette ==
  ASSUME ImageInv, HistInv, NEW s \in Palettes
  PROVE  NumPixels(s) = Cardinality(Pixels(s, Height))
<1> DEFINE I == IndicesOf(s)
           F == CountOf
           P(T) == {p \in Rows \X Cols : IndexAt(p[1], p[2]) \in T}
           A == {T \in SUBSET I : Total(F, T) = Cardinality(P(T))}
<1>1. Len(hist) \in Nat
  BY LenProperties DEF HistInv
<1>2. IsFiniteSet(I) /\ I \subseteq 0 .. Len(hist) - 1
  <2>1. IsFiniteSet(0 .. Len(hist) - 1)
    BY <1>1, FS_Interval
  <2>2. I \subseteq 0 .. Len(hist) - 1
    BY DEF IndicesOf
  <2> QED
    BY <2>1, <2>2, FS_Subset
<1>3. ASSUME NEW i \in I
      PROVE  F[i] = Cardinality(PixelsOfIndex(i)) /\ F[i] \in Nat
  <2>1. i \in 0 .. Len(hist) - 1
    BY <1>2
  <2>2. ASSUME NEW p \in Rows \X Cols
        PROVE  cur[p[1]][p[2]] = hist[i + 1] <=> IndexAt(p[1], p[2]) = i
    <3>1. p[1] \in Rows /\ p[2] \in Cols
      OBVIOUS
    <3>2. /\ hist[IndexAt(p[1], p[2]) + 1] = cur[p[1]][p[2]]
          /\ hist[i + 1] = cur[p[1]][p[2]] => i = IndexAt(p[1], p[2])
      BY <2>1, <3>1, IndexIsPlace
    <3> QED
      BY <3>2
  <2>3. PixelsOfIndex(i) = {p \in Rows \X Cols : cur[p[1]][p[2]] = hist[i + 1]}
    BY <2>2 DEF PixelsOfIndex
  <2>4. F[i] = Cardinality(PixelsOfIndex(i))
    BY <2>1, <2>3 DEF CountOf, Count
  <2>5. IsFiniteSet(PixelsOfIndex(i))
    BY PixelsAreFinite, FS_Subset DEF PixelsOfIndex
  <2> QED
    BY <2>4, <2>5, FS_CardinalityType
<1>4. ASSUME NEW T \in SUBSET I PROVE IsFiniteSet(P(T))
  BY PixelsAreFinite, FS_Subset
<1>5. {} \in A
  <2>1. P({}) = {}
    OBVIOUS
  <2> HIDE DEF P
  <2> QED
    BY <2>1, TotalEmpty, FS_EmptySet
<1>6. ASSUME NEW T \in A, NEW i \in I \ T PROVE T \cup {i} \in A
  <2>1. T \in SUBSET I /\ Total(F, T) = Cardinality(P(T))
    OBVIOUS
  <2>2. P(T \cup {i}) = P(T) \cup PixelsOfIndex(i)
        /\ P(T) \cap PixelsOfIndex(i) = {}
    BY DEF PixelsOfIndex
  <2>3. IsFiniteSet(PixelsOfIndex(i))
    BY PixelsAreFinite, FS_Subset DEF PixelsOfIndex
  <2> HIDE DEF P
  <2>4. Cardinality(P(T \cup {i}))
          = Cardinality(P(T)) + Cardinality(PixelsOfIndex(i)) - Cardinality({})
    BY <1>4, <2>1, <2>2, <2>3, FS_Union
  <2>5. Cardinality({}) = 0
    BY FS_EmptySet
  <2>6. \A x \in I : F[x] \in Int
    BY <1>3
  <2> HIDE DEF I, F
  <2>7. Total(F, T \cup {i}) = F[i] + Total(F, T)
    <3>1. IsFiniteSet(I) /\ T \in SUBSET I /\ i \in I \ T
      BY <1>2, <2>1
    <3> HIDE DEF A
    <3> QED
      BY <2>6, <3>1, TotalAdd
  <2>8. /\ F[i] = Cardinality(PixelsOfIndex(i)) /\ F[i] \in Nat
        /\ Cardinality(P(T)) \in Nat
    BY <1>3, <1>4, <2>1, FS_CardinalityType
  <2> QED
    BY <2>1, <2>4, <2>5, <2>7, <2>8
<1>7. P(I) = Pixels(s, Height)
  <2>1. ASSUME NEW p \in Rows \X Cols
        PROVE  IndexAt(p[1], p[2]) \in I
                 <=> p[1] < Height /\ StreamAt(p[1], p[2]) = s
    <3>1. p[1] \in Rows /\ p[2] \in Cols
      OBVIOUS
    <3>2. p[1] < Height
      BY <3>1, FrameAssumption DEF Rows
    <3>3. IndexAt(p[1], p[2]) \in 0 .. Len(hist) - 1
      BY <3>1, IndexIsPlace
    <3>4. StreamAt(p[1], p[2]) = s <=>
            First[s] <= IndexAt(p[1], p[2]) /\ IndexAt(p[1], p[2]) < After[s]
      BY <3>1, ValueFits
    <3> QED
      BY <3>2, <3>3, <3>4 DEF IndicesOf
  <2> QED
    BY <2>1 DEF Pixels
<1> HIDE DEF P, F, I
<1>8. I \in A
  BY <1>2, <1>5, <1>6, SetInduction
<1>9. Total(F, I) = Cardinality(P(I))
  BY <1>8
<1> QED
  BY <1>2, <1>7, <1>9, NumPixelsIsTotal DEF F, I

\* With another line there are the pixels of that line more.
LEMMA PixelsOfLine ==
  ASSUME NEW s, NEW y \in Rows
  PROVE  /\ Cardinality(Pixels(s, y)) \in Nat
         /\ Cardinality(Pixels(s, y + 1)) =
              Cardinality(Pixels(s, y))
                + Cardinality({x \in Cols : StreamAt(y, x) = s})
<1> DEFINE T == {x \in Cols : StreamAt(y, x) = s}
           Q == {p \in Rows \X Cols : p[1] = y /\ StreamAt(p[1], p[2]) = s}
           f == [x \in T |-> <<y, x>>]
<1>1. IsFiniteSet(T)
  BY PixelsAreFinite, FS_Subset
<1>2. IsFiniteSet(Q) /\ IsFiniteSet(Pixels(s, y))
  BY PixelsAreFinite, FS_Subset DEF Pixels
<1>3. Cardinality(Q) = Cardinality(T)
  <2>1. f \in [T -> Q]
    OBVIOUS
  <2>2. \A x, z \in T : f[x] = f[z] => x = z
    OBVIOUS
  <2>3. \A p \in Q : \E x \in T : f[x] = p
    OBVIOUS
  <2> HIDE DEF f, T, Q
  <2>4. f \in Surjection(T, Q) /\ f \in Injection(T, Q)
    BY <2>1, <2>2, <2>3, Fun_IsInj DEF Surjection
  <2> QED
    BY <1>1, <2>4, FS_Surjection
<1>4. Pixels(s, y + 1) = Pixels(s, y) \cup Q /\ Pixels(s, y) \cap Q = {}
  <2>1. \A z \in Rows : z < y + 1 <=> z < y \/ z = y
    BY FrameAssumption DEF Rows
  <2>2. ~ (y < y)
    BY FrameAssumption DEF Rows
  <2> QED
    BY <2>1, <2>2 DEF Pixels
<1> HIDE DEF Q, T
<1>5. Cardinality(Pixels(s, y + 1))
        = Cardinality(Pixels(s, y)) + Cardinality(Q) - Cardinality({})
  BY <1>2, <1>4, FS_Union
<1>6. Cardinality({}) = 0 /\ Cardinality(Pixels(s, y)) \in Nat
      /\ Cardinality(Q) \in Nat
  BY <1>2, FS_EmptySet, FS_CardinalityType
<1> QED
  BY <1>3, <1>5, <1>6 DEF T

\* The first lines have no more than all.
LEMMA PixelsOfAll ==
  ASSUME NEW s, NEW y \in 0 .. Height
  PROVE  /\ Cardinality(Pixels(s, y)) \in Nat
         /\ Cardinality(Pixels(s, Height)) \in Nat
         /\ Cardinality(Pixels(s, y)) <= Cardinality(Pixels(s, Height))
         /\ Cardinality(Pixels(s, 0)) = 0
<1>1. IsFiniteSet(Pixels(s, y)) /\ IsFiniteSet(Pixels(s, Height))
  BY PixelsAreFinite, FS_Subset DEF Pixels
<1>2. Pixels(s, y) \in SUBSET Pixels(s, Height)
  BY FrameAssumption DEF Pixels, Rows
<1>3. Pixels(s, 0) = {}
  BY FrameAssumption DEF Pixels, Rows
<1> QED
  BY <1>1, <1>2, <1>3, FS_Subset, FS_CardinalityType, FS_EmptySet

-----------------------------------------------------------------------------
(* The streams of the frame: an inductive invariant.                       *)

TypeInv ==
  /\ ImageInv
  /\ phase \in Phases /\ line \in 0 .. Height
  /\ hist \in Seq(Colors)
  /\ phase \notin {"start", "exit"} => HistInv
  /\ lineChanged \in [Rows -> {0, 1}]
  /\ spanChanged \in [Rows -> [Tiles -> {0, 1}]]
  /\ tileStream \in Seq({0, 1})
  /\ DOMAIN global = DOMAIN NoStreams
  /\ \A s \in Streams : global[s] \in Seq(Values(s))
  /\ DOMAIN lineInfos = Rows
  /\ phase = "encode" => \A s \in Streams : globalRb[s] \in [Values(s) -> Widths]
  /\ encodedBits \in [Rows -> [Streams -> Nat]]

\* The lines that were looked at are marked, those that were written have their
\* streams.
LineInv ==
  /\ phase = "diff" => \A y \in Rows : y < line => LineMarked(y)
  /\ phase \in {"emit", "encode", "done"} => \A y \in Rows : LineMarked(y)
  /\ phase = "emit" => \A y \in Rows : y < line => LineWritten(y)
  /\ phase \in {"encode", "done"} => \A y \in Rows : LineWritten(y)

\* The streams of the frame have no more than the lines that were written.
RoomInv ==
  /\ phase \in {"start", "diff"} => global = NoStreams
  /\ phase = "start" => line = 0
  /\ phase = "emit" =>
       /\ Len(global["span"]) <= NumTilesX * line
       /\ Len(global["selector"]) <= Width * line
       /\ \A s \in Palettes : Len(global[s]) <= Cardinality(Pixels(s, line))

FrameInv == TypeInv /\ LineInv /\ RoomInv

LEMMA ValuesOfStreams ==
  ASSUME NEW s \in Streams
  PROVE  Values(s) = 0 .. 2^SymbolSize[s] - 1 /\ SymbolSize[s] \in Nat
BY DEF Values, Streams, SymbolSize

\* What an image and its spans are made to depends on nothing else.
LEMMA StreamsStay ==
  ASSUME UNCHANGED <<cur, hist, spanChanged>>, NEW CONSTANT y
  PROVE  StreamsOf(y)' = StreamsOf(y)
BY DEF StreamsOf, WithPixel, ColorIndex

LEMMA PixelsStay ==
  ASSUME UNCHANGED <<cur, hist>>
  PROVE  \A s, y : Pixels(s, y)' = Pixels(s, y)
BY DEF Pixels, StreamAt, IndexAt, ColorIndex

LEMMA HistStays == UNCHANGED <<cur, hist>> => (HistInv' <=> HistInv)
BY DEF HistInv

LEMMA MarksStay ==
  ASSUME UNCHANGED <<cur, prev, lineChanged, spanChanged>>, NEW CONSTANT y
  PROVE  LineMarked(y)' <=> LineMarked(y)
BY DEF LineMarked, Differs, Changed

LEMMA WrittenStays ==
  ASSUME UNCHANGED <<cur, hist, spanChanged, lineChanged>>, NEW CONSTANT y,
         lineInfos'[y] = lineInfos[y]
  PROVE  LineWritten(y)' <=> LineWritten(y)
BY StreamsStay DEF LineWritten

\* The first states.
LEMMA FrameStarts == Init => FrameInv
<1> SUFFICES ASSUME Init PROVE FrameInv
  OBVIOUS
<1>1. ImageInv
  BY ImagesAssumption DEF Init, ImageInv
<1>2. phase \in {"start", "exit"} /\ phase \in Phases
  BY DEF Init, GetImages, Phases
<1>3. line = 0 /\ line \in 0 .. Height
  BY FrameAssumption DEF Init
<1>4. /\ hist \in Seq(Colors) /\ tileStream \in Seq({0, 1})
      /\ lineChanged \in [Rows -> {0, 1}]
      /\ spanChanged \in [Rows -> [Tiles -> {0, 1}]]
  BY DEF Init, Tiles
<1>5. global = NoStreams /\ \A s \in Streams : global[s] \in Seq(Values(s))
  BY DEF Init, NoStreams
<1>6. DOMAIN lineInfos = Rows /\ encodedBits \in [Rows -> [Streams -> Nat]]
  BY DEF Init, NoBits
<1> QED
  BY <1>1, <1>2, <1>3, <1>4, <1>5, <1>6
  DEF FrameInv, TypeInv, LineInv, RoomInv

LEMMA FrameHistogram == FrameInv /\ BuildHistogram => FrameInv'
<1> SUFFICES ASSUME FrameInv, BuildHistogram PROVE FrameInv'
  OBVIOUS
<1>1. /\ phase = "start" /\ phase' = "diff"
      /\ UNCHANGED <<cur, prev, line, lineChanged, spanChanged, tileStream,
                     global, lineInfos, globalRb, encodedBits>>
  BY DEF BuildHistogram, images, flags
<1>2. HistInv'
  BY HistogramIsComplete DEF FrameInv, TypeInv
<1>3. TypeInv'
  BY <1>1, <1>2 DEF FrameInv, TypeInv, ImageInv, HistInv, Phases
<1>4. LineInv'
  BY <1>1 DEF FrameInv, RoomInv, LineInv, Rows
<1>5. RoomInv'
  BY <1>1 DEF FrameInv, RoomInv
<1> QED
  BY <1>3, <1>4, <1>5 DEF FrameInv

LEMMA FrameDiff == FrameInv /\ DiffLine => FrameInv'
<1> SUFFICES ASSUME FrameInv, DiffLine PROVE FrameInv'
  OBVIOUS
<1> DEFINE differs == {x \in Cols : cur[line][x] # prev[line][x]}
           marks   == [t \in Tiles |-> IF \E x \in differs : TileOf(x) = t
                                       THEN 1 ELSE 0]
           mark    == IF differs = {} THEN 0 ELSE 1
<1>1. /\ phase = "diff" /\ phase' = "diff" /\ line' = line + 1 /\ line < Height
      /\ spanChanged' = [spanChanged EXCEPT ![line] = marks]
      /\ lineChanged' = [lineChanged EXCEPT ![line] = mark]
      /\ UNCHANGED <<cur, prev, hist, tileStream, global, lineInfos, globalRb,
                     encodedBits>>
  BY DEF DiffLine, Tiles, images
<1>2. /\ line \in Rows /\ line' \in 0 .. Height
      /\ lineChanged \in [Rows -> {0, 1}]
      /\ spanChanged \in [Rows -> [Tiles -> {0, 1}]]
      /\ HistInv
  BY <1>1, FrameAssumption DEF FrameInv, TypeInv, Rows
<1>3. marks \in [Tiles -> {0, 1}] /\ mark \in {0, 1}
  OBVIOUS
<1>4. ASSUME NEW y \in Rows, y < line' PROVE LineMarked(y)'
  <2>1. CASE y = line
    <3>1. lineChanged'[y] = mark /\ spanChanged'[y] = marks
      BY <1>1, <1>2, <2>1
    <3>2. \A x \in Cols : Differs(y, x)' <=> x \in differs
      BY <1>1, <2>1 DEF Differs
    <3>3. \A x \in differs : marks[TileOf(x)] = 1
      BY TileOfPixel
    <3> HIDE DEF marks, differs
    <3> QED
      BY <1>3, <3>1, <3>2, <3>3 DEF LineMarked, Changed
  <2>2. CASE y # line
    <3>1. y < line
      BY <1>1, <1>2, <1>4, <2>2 DEF Rows
    <3>2. LineMarked(y)
      BY <1>1, <3>1 DEF FrameInv, LineInv
    <3>3. lineChanged'[y] = lineChanged[y] /\ spanChanged'[y] = spanChanged[y]
      BY <1>1, <1>2, <2>2
    <3> QED
      BY <1>1, <3>2, <3>3 DEF LineMarked, Differs, Changed
  <2> QED
    BY <2>1, <2>2
<1>5. LineInv'
  BY <1>1, <1>4 DEF LineInv
<1>6. /\ lineChanged' \in [Rows -> {0, 1}]
      /\ spanChanged' \in [Rows -> [Tiles -> {0, 1}]]
  BY <1>1, <1>2, <1>3
<1>7. TypeInv'
  BY <1>1, <1>2, <1>6, HistStays DEF FrameInv, TypeInv, ImageInv
<1>8. RoomInv'
  BY <1>1 DEF FrameInv, RoomInv
<1> QED
  BY <1>5, <1>7, <1>8 DEF FrameInv

LEMMA LineStreamIsFlags ==
  ASSUME lineChanged \in [Rows -> {0, 1}]
  PROVE  LineStream \in Seq({0, 1}) /\ Len(LineStream) = Height
<1>1. ASSUME NEW i \in 1 .. Height PROVE lineChanged[i - 1] \in {0, 1}
  <2>1. i - 1 \in Rows
    BY FrameAssumption DEF Rows
  <2> QED
    BY <2>1
<1>2. LineStream \in [1 .. Height -> {0, 1}]
  BY <1>1 DEF LineStream
<1> QED
  BY <1>2, FrameAssumption

LEMMA FrameChanges == FrameInv /\ BuildChangeStreams => FrameInv'
<1> SUFFICES ASSUME FrameInv, BuildChangeStreams PROVE FrameInv'
  OBVIOUS
<1> DEFINE mark(i) ==
      LET tx == (i - 1) % NumTilesX  ty == (i - 1) \div NumTilesX
      IN  IF \E y \in LinesOf(ty) : spanChanged[y][tx] = 1 THEN 1 ELSE 0
<1>1. /\ phase = "diff" /\ line = Height
      /\ tileStream' = [i \in 1 .. NumTilesX * NumTilesY |-> mark(i)]
      /\ phase' \in {"emit", "panic"} /\ line' = 0
      /\ UNCHANGED <<cur, prev, hist, lineChanged, spanChanged, global,
                     lineInfos, globalRb, encodedBits>>
  BY DEF BuildChangeStreams, images
<1>2. NumTilesX * NumTilesY \in Nat
  BY TileCounts
<1>3. \A i : mark(i) \in {0, 1}
  OBVIOUS
<1> HIDE DEF mark
<1>4. tileStream' \in [1 .. NumTilesX * NumTilesY -> {0, 1}]
  BY <1>1, <1>3
<1>5. tileStream' \in Seq({0, 1})
  BY <1>2, <1>4
<1>6. TypeInv'
  BY <1>1, <1>5, HistStays, FrameAssumption
  DEF FrameInv, TypeInv, ImageInv, Phases
<1>7. \A y \in Rows : y < line
  BY <1>1, FrameAssumption DEF Rows
<1>8. ASSUME NEW y \in Rows PROVE LineMarked(y)'
  <2>1. LineMarked(y)
    BY <1>1, <1>7 DEF FrameInv, LineInv
  <2> QED
    BY <1>1, <2>1, MarksStay
<1>9. \A y \in Rows : ~ (y < line')
  BY <1>1 DEF Rows
<1>10. LineInv'
  BY <1>1, <1>8, <1>9 DEF LineInv
<1>11. RoomInv'
  <2>1. global' = NoStreams
    BY <1>1 DEF FrameInv, RoomInv
  <2>2. \A s \in Palettes \cup {"span", "selector"} : global'[s] = <<>>
    BY <2>1, Sizes DEF NoStreams, Palettes
  <2>3. \A s : Cardinality(Pixels(s, 0)) = 0
    BY PixelsOfAll, FrameAssumption
  <2>4. \A s : Pixels(s, 0)' = Pixels(s, 0)
    BY <1>1, PixelsStay
  <2>5. NumTilesX * 0 = 0 /\ Width * 0 = 0
    BY TileCounts, FrameAssumption
  <2>6. /\ Len(global'["span"]) = 0 /\ Len(global'["selector"]) = 0
        /\ \A s \in Palettes : Len(global'[s]) = 0
    BY <2>2
  <2> QED
    BY <1>1, <2>3, <2>4, <2>5, <2>6 DEF RoomInv
<1> QED
  BY <1>6, <1>10, <1>11 DEF FrameInv

\* A line is written: its streams join those of the frame.
LEMMA FrameEmit ==
  ASSUME FrameInv, EmitLine
  PROVE  /\ FrameInv'
         /\ lineInfos'[line] = StreamsOf(line)
         /\ \A s \in Streams :
              /\ Len(global'[s]) \in Nat
              /\ s = "span" => Len(global'[s]) <= NumTilesX * (line + 1)
              /\ s = "selector" => Len(global'[s]) <= Width * (line + 1)
              /\ s \in Palettes =>
                   Len(global'[s]) <= Cardinality(Pixels(s, line + 1))
<1>1. /\ phase = "emit" /\ phase' \in {"emit", "panic"} /\ line' = line + 1
      /\ line < Height
      /\ global' = [s \in DOMAIN global |-> global[s] \o StreamsOf(line)[s]]
      /\ lineInfos' = [lineInfos EXCEPT ![line] = StreamsOf(line)]
      /\ UNCHANGED <<cur, prev, hist, lineChanged, spanChanged, tileStream,
                     globalRb, encodedBits>>
  BY DEF EmitLine, images, flags
<1>2. /\ ImageInv /\ HistInv /\ line \in Rows /\ line' \in 0 .. Height
      /\ spanChanged \in [Rows -> [Tiles -> {0, 1}]]
      /\ DOMAIN global = DOMAIN NoStreams /\ DOMAIN lineInfos = Rows
      /\ \A s \in Streams : global[s] \in Seq(Values(s))
  BY <1>1, FrameAssumption DEF FrameInv, TypeInv, Rows
<1>3. \A s \in Streams : s \in DOMAIN global
  BY <1>2 DEF NoStreams
<1>4. /\ \A s \in Streams : StreamsOf(line)[s] \in Seq(Values(s))
      /\ Len(StreamsOf(line)["span"]) = NumTilesX
      /\ Len(StreamsOf(line)["selector"]) <= Width
      /\ \A s \in Palettes :
           Len(StreamsOf(line)[s]) <= Cardinality({x \in Cols : StreamAt(line, x) = s})
  BY <1>2, LineStreamsFit
<1>5. ASSUME NEW s \in Streams
      PROVE  /\ global'[s] \in Seq(Values(s))
             /\ Len(global'[s]) = Len(global[s]) + Len(StreamsOf(line)[s])
             /\ Len(global[s]) \in Nat /\ Len(StreamsOf(line)[s]) \in Nat
             /\ Len(global'[s]) \in Nat
  <2> DEFINE f == global[s]  g == StreamsOf(line)[s]  S == Values(s)
             h == global'[s]
  <2>1. f \in Seq(S) /\ g \in Seq(S)
    BY <1>2, <1>4
  <2>2. h = f \o g
    BY <1>1, <1>3
  <2> HIDE DEF f, g, h, S
  <2>3. f \o g \in Seq(S) /\ Len(f \o g) = Len(f) + Len(g)
        /\ Len(f) \in Nat /\ Len(g) \in Nat
    BY <2>1, ConcatProperties, LenProperties
  <2>4. h \in Seq(S) /\ Len(h) = Len(f) + Len(g) /\ Len(h) \in Nat
        /\ Len(f) \in Nat /\ Len(g) \in Nat
    BY <2>2, <2>3
  <2> QED
    BY <2>4 DEF f, g, h, S
<1>6. DOMAIN global' = DOMAIN NoStreams /\ DOMAIN lineInfos' = Rows
      /\ lineInfos'[line] = StreamsOf(line)
  BY <1>1, <1>2
<1>7. /\ Len(global'["span"]) <= NumTilesX * (line + 1)
      /\ Len(global'["selector"]) <= Width * (line + 1)
  <2>1. "span" \in Streams /\ "selector" \in Streams
    BY Sizes
  <2>2. /\ Len(global["span"]) <= NumTilesX * line
        /\ Len(global["selector"]) <= Width * line
    BY <1>1 DEF FrameInv, RoomInv
  <2>3. NumTilesX \in Nat /\ Width \in Nat /\ line \in Nat
    BY <1>2, TileCounts, FrameAssumption DEF Rows
  <2> DEFINE a == Len(global["span"])  b == Len(global["selector"])
             c == Len(StreamsOf(line)["selector"])
             d == Len(global'["span"])  e == Len(global'["selector"])
  <2>4. /\ a \in Nat /\ b \in Nat /\ c \in Nat /\ c <= Width
        /\ d = a + NumTilesX /\ e = b + c
        /\ a <= NumTilesX * line /\ b <= Width * line
    BY <1>4, <1>5, <2>1, <2>2
  <2> HIDE DEF a, b, c, d, e
  <2>5. NumTilesX * (line + 1) = NumTilesX * line + NumTilesX
        /\ Width * (line + 1) = Width * line + Width
        /\ NumTilesX * line \in Nat /\ Width * line \in Nat
    BY <2>3
  <2>6. d <= NumTilesX * (line + 1) /\ e <= Width * (line + 1)
    BY <2>3, <2>4, <2>5
  <2> QED
    BY <2>6 DEF d, e
<1>8. ASSUME NEW s \in Palettes
      PROVE  Len(global'[s]) <= Cardinality(Pixels(s, line + 1))
  <2>1. s \in Streams
    BY Sizes DEF Palettes
  <2>2. Len(global[s]) <= Cardinality(Pixels(s, line))
    BY <1>1 DEF FrameInv, RoomInv
  <2> DEFINE T == {x \in Cols : StreamAt(line, x) = s}
  <2>3. /\ Cardinality(Pixels(s, line)) \in Nat
        /\ Cardinality(Pixels(s, line + 1))
             = Cardinality(Pixels(s, line)) + Cardinality(T)
    BY <1>2, PixelsOfLine
  <2>4. Cardinality(T) \in Nat
    BY PixelsAreFinite, FS_Subset, FS_CardinalityType
  <2>5. Len(StreamsOf(line)[s]) <= Cardinality(T)
    BY <1>4
  <2> HIDE DEF T
  <2> DEFINE a == Len(global[s])  b == Len(StreamsOf(line)[s])
             c == Len(global'[s])
             m == Cardinality(Pixels(s, line))  n == Cardinality(T)
             k == Cardinality(Pixels(s, line + 1))
  <2>6. /\ a \in Nat /\ b \in Nat /\ c = a + b /\ a <= m /\ b <= n
        /\ m \in Nat /\ n \in Nat /\ k = m + n
    BY <1>5, <2>1, <2>2, <2>3, <2>4, <2>5
  <2> HIDE DEF a, b, c, m, n, k
  <2>7. c <= k
    BY <2>6
  <2> QED
    BY <2>7 DEF c, k
<1>9. TypeInv'
  BY <1>1, <1>2, <1>5, <1>6, HistStays DEF FrameInv, TypeInv, ImageInv, Phases
<1>10. LineInv'
  <2>1. ASSUME NEW y \in Rows PROVE LineMarked(y)'
    <3>1. LineMarked(y)
      BY <1>1 DEF FrameInv, LineInv
    <3> QED
      BY <1>1, <3>1, MarksStay
  <2>2. ASSUME NEW y \in Rows, y < line' PROVE LineWritten(y)'
    <3>1. CASE y = line
      <4>1. StreamsOf(y)' = StreamsOf(y)
        BY <1>1, StreamsStay
      <4> QED
        BY <1>6, <3>1, <4>1 DEF LineWritten
    <3>2. CASE y # line
      <4>1. y < line
        BY <1>1, <1>2, <2>2, <3>2 DEF Rows
      <4>2. LineWritten(y)
        BY <1>1, <4>1 DEF FrameInv, LineInv
      <4>3. lineInfos'[y] = lineInfos[y]
        BY <1>1, <1>2, <3>2
      <4> QED
        BY <1>1, <4>2, <4>3, WrittenStays
    <3> QED
      BY <3>1, <3>2
  <2> QED
    BY <1>1, <2>1, <2>2 DEF LineInv
<1>11. RoomInv'
  <2>1. \A s \in Palettes : Len(global'[s]) <= Cardinality(Pixels(s, line)')
    BY <1>1, <1>8 DEF Pixels, StreamAt, IndexAt, ColorIndex
  <2> QED
    BY <1>1, <1>7, <2>1 DEF RoomInv
<1> QED
  BY <1>5, <1>6, <1>7, <1>8, <1>9, <1>10, <1>11 DEF FrameInv

\* A line without changes has no streams.
LEMMA FrameSkip == FrameInv /\ SkipLine => FrameInv'
<1> SUFFICES ASSUME FrameInv, SkipLine PROVE FrameInv'
  OBVIOUS
<1>1. /\ phase \in {"emit", "encode"} /\ phase' = phase /\ line' = line + 1
      /\ line < Height /\ lineChanged[line] = 0
      /\ UNCHANGED <<cur, prev, hist, lineChanged, spanChanged, tileStream,
                     global, lineInfos, globalRb, encodedBits>>
  BY DEF SkipLine, images, flags
<1>2. line \in Rows /\ line' \in 0 .. Height
  BY <1>1, FrameAssumption DEF FrameInv, TypeInv, Rows
<1>3. TypeInv'
  BY <1>1, <1>2, HistStays DEF FrameInv, TypeInv, ImageInv
<1>4. LineInv'
  <2>1. ASSUME NEW y \in Rows PROVE LineMarked(y)'
    <3>1. LineMarked(y)
      BY <1>1 DEF FrameInv, LineInv
    <3> QED
      BY <1>1, <3>1, MarksStay
  <2>2. ASSUME NEW y \in Rows, y < line' \/ phase = "encode"
        PROVE  LineWritten(y)'
    <3>1. y < line \/ y = line \/ phase = "encode"
      BY <1>1, <1>2, <2>2 DEF Rows
    <3>2. LineWritten(y)
      BY <1>1, <3>1 DEF FrameInv, LineInv, LineWritten
    <3> QED
      BY <1>1, <3>2, WrittenStays
  <2> QED
    BY <1>1, <2>1, <2>2 DEF LineInv
<1>5. RoomInv'
  <2>1. CASE phase = "encode"
    BY <1>1, <2>1 DEF RoomInv
  <2>2. CASE phase = "emit"
    <3>1. /\ Len(global["span"]) <= NumTilesX * line
          /\ Len(global["selector"]) <= Width * line
          /\ \A s \in Palettes : Len(global[s]) <= Cardinality(Pixels(s, line))
      BY <2>2 DEF FrameInv, RoomInv
    <3>2. /\ "span" \in Streams /\ "selector" \in Streams
          /\ Palettes \subseteq Streams
      BY Sizes DEF Palettes
    <3>3. \A s \in Streams : Len(global[s]) \in Nat
      BY LenProperties DEF FrameInv, TypeInv
    <3>4. /\ Len(global["span"]) <= NumTilesX * (line + 1)
          /\ Len(global["selector"]) <= Width * (line + 1)
      <4> DEFINE a == Len(global["span"])  b == Len(global["selector"])
      <4>1. a \in Nat /\ b \in Nat /\ a <= NumTilesX * line /\ b <= Width * line
        BY <3>1, <3>2, <3>3
      <4> HIDE DEF a, b
      <4>2. NumTilesX \in Nat /\ Width \in Nat /\ line \in Nat
        BY <1>2, TileCounts, FrameAssumption DEF Rows
      <4>3. NumTilesX * (line + 1) = NumTilesX * line + NumTilesX
            /\ Width * (line + 1) = Width * line + Width
            /\ NumTilesX * line \in Nat /\ Width * line \in Nat
        BY <4>2
      <4>4. a <= NumTilesX * (line + 1) /\ b <= Width * (line + 1)
        BY <4>1, <4>2, <4>3
      <4> QED
        BY <4>4 DEF a, b
    <3>5. ASSUME NEW s \in Palettes
          PROVE  Len(global[s]) <= Cardinality(Pixels(s, line + 1))
      <4> DEFINE T == {x \in Cols : StreamAt(line, x) = s}
      <4>1. /\ Cardinality(Pixels(s, line)) \in Nat
            /\ Cardinality(Pixels(s, line + 1))
                 = Cardinality(Pixels(s, line)) + Cardinality(T)
        BY <1>2, PixelsOfLine
      <4>2. Cardinality(T) \in Nat
        BY PixelsAreFinite, FS_Subset, FS_CardinalityType
      <4> HIDE DEF T
      <4> QED
        BY <3>1, <3>2, <3>3, <4>1, <4>2
    <3>6. \A s \in Palettes : Len(global'[s]) <= Cardinality(Pixels(s, line)')
      <4>1. \A s : Pixels(s, line)' = Pixels(s, line + 1)
        BY <1>1 DEF Pixels, StreamAt, IndexAt, ColorIndex
      <4>2. global' = global
        BY <1>1
      <4> QED
        BY <3>5, <4>1, <4>2
    <3> QED
      BY <1>1, <2>2, <3>4, <3>6 DEF RoomInv
  <2> QED
    BY <1>1, <2>1, <2>2
<1> QED
  BY <1>3, <1>4, <1>5 DEF FrameInv

LEMMA FrameChoose == FrameInv /\ ChooseGlobalRb => FrameInv'
<1> SUFFICES ASSUME FrameInv, ChooseGlobalRb PROVE FrameInv'
  OBVIOUS
<1>1. /\ phase = "emit" /\ phase' \in {"encode", "panic"} /\ line' = 0
      /\ line = Height
      /\ globalRb' = [s \in Streams |-> EncodePrepare(SymbolSize[s], global[s])]
      /\ UNCHANGED <<cur, prev, hist, lineChanged, spanChanged, tileStream,
                     global, lineInfos, encodedBits>>
  BY DEF ChooseGlobalRb, images, flags
<1>2. ASSUME NEW s \in Streams PROVE globalRb'[s] \in [Values(s) -> Widths]
  <2>1. SymbolSize[s] \in Nat /\ global[s] \in Seq(0 .. 2^SymbolSize[s] - 1)
    BY ValuesOfStreams DEF FrameInv, TypeInv
  <2>2. EncodePrepare(SymbolSize[s], global[s])
          \in [0 .. 2^SymbolSize[s] - 1 -> Widths]
    BY <2>1, PreparedWidths
  <2> QED
    BY <1>1, <2>2, ValuesOfStreams
<1>3. TypeInv'
  BY <1>1, <1>2, HistStays, FrameAssumption
  DEF FrameInv, TypeInv, ImageInv, Phases
<1>4. LineInv'
  <2>1. ASSUME NEW y \in Rows PROVE LineMarked(y)' /\ LineWritten(y)'
    <3>1. y < line
      BY <1>1, FrameAssumption DEF Rows
    <3>2. LineMarked(y) /\ LineWritten(y)
      BY <1>1, <3>1 DEF FrameInv, LineInv
    <3> QED
      BY <1>1, <3>2, MarksStay, WrittenStays
  <2> QED
    BY <1>1, <2>1 DEF LineInv
<1>5. RoomInv'
  BY <1>1 DEF RoomInv
<1> QED
  BY <1>3, <1>4, <1>5 DEF FrameInv

\* An encoded stream of a line has a size, with the widths of the frame.
LEMMA EncodedLineSize ==
  ASSUME FrameInv, phase = "encode", line < Height, lineChanged[line] = 1,
         NEW s \in Streams
  PROVE  LET size == EncodedSize(SymbolSize[s], lineInfos[line][s], globalRb[s])
         IN  /\ size \in Nat
             /\ size <= Len(StreamsOf(line)[s]) * (SymbolSize[s] + 5)
<1>1. /\ ImageInv /\ HistInv /\ line \in Rows
      /\ spanChanged \in [Rows -> [Tiles -> {0, 1}]]
  BY FrameAssumption DEF FrameInv, TypeInv, Rows
<1>2. lineInfos[line][s] = StreamsOf(line)[s]
  BY <1>1 DEF FrameInv, LineInv, LineWritten
<1>3. StreamsOf(line)[s] \in Seq(Values(s)) /\ SymbolSize[s] \in Nat
  BY <1>1, LineStreamsFit, ValuesOfStreams
<1>4. \A v \in Values(s) : globalRb[s][v] \in 0 .. 5
  <2>1. globalRb[s] \in [Values(s) -> Widths]
    BY DEF FrameInv, TypeInv
  <2> QED
    BY <2>1 DEF Widths
<1> QED
  BY <1>2, <1>3, <1>4, SizeBound

LEMMA FrameEncode == FrameInv /\ EncodeLine => FrameInv'
<1> SUFFICES ASSUME FrameInv, EncodeLine PROVE FrameInv'
  OBVIOUS
<1> DEFINE sizes == [s \in Streams |->
             EncodedSize(SymbolSize[s], lineInfos[line][s], globalRb[s])]
<1>1. /\ phase = "encode" /\ phase' \in {"encode", "panic"} /\ line' = line + 1
      /\ line < Height /\ lineChanged[line] = 1
      /\ encodedBits' = [encodedBits EXCEPT ![line] = sizes]
      /\ UNCHANGED <<cur, prev, hist, lineChanged, spanChanged, tileStream,
                     global, lineInfos, globalRb>>
  BY DEF EncodeLine, images, flags
<1>2. line \in Rows /\ line' \in 0 .. Height
      /\ encodedBits \in [Rows -> [Streams -> Nat]]
  BY <1>1, FrameAssumption DEF FrameInv, TypeInv, Rows
<1>3. sizes \in [Streams -> Nat]
  BY <1>1, EncodedLineSize
<1> HIDE DEF sizes
<1>4. encodedBits' \in [Rows -> [Streams -> Nat]]
  BY <1>1, <1>2, <1>3
<1>5. TypeInv'
  BY <1>1, <1>2, <1>4, HistStays DEF FrameInv, TypeInv, ImageInv, Phases
<1>6. LineInv'
  <2>1. ASSUME NEW y \in Rows PROVE LineMarked(y)' /\ LineWritten(y)'
    <3>1. LineMarked(y) /\ LineWritten(y)
      BY <1>1 DEF FrameInv, LineInv
    <3> QED
      BY <1>1, <3>1, MarksStay, WrittenStays
  <2> QED
    BY <1>1, <2>1 DEF LineInv
<1>7. RoomInv'
  BY <1>1 DEF RoomInv
<1> QED
  BY <1>5, <1>6, <1>7 DEF FrameInv

LEMMA FrameHeaderMade == FrameInv /\ MakeHeader => FrameInv'
<1> SUFFICES ASSUME FrameInv, MakeHeader PROVE FrameInv'
  OBVIOUS
<1>1. /\ phase = "encode" /\ phase' = "done"
      /\ UNCHANGED <<cur, prev, line, hist, lineChanged, spanChanged,
                     tileStream,
                     global, lineInfos, globalRb, encodedBits>>
  BY DEF MakeHeader, images, flags
<1>2. TypeInv'
  BY <1>1, HistStays DEF FrameInv, TypeInv, ImageInv, Phases
<1>3. LineInv'
  <2>1. ASSUME NEW y \in Rows PROVE LineMarked(y)' /\ LineWritten(y)'
    <3>1. LineMarked(y) /\ LineWritten(y)
      BY <1>1 DEF FrameInv, LineInv
    <3> QED
      BY <1>1, <3>1, MarksStay, WrittenStays
  <2> QED
    BY <1>1, <2>1 DEF LineInv
<1>4. RoomInv'
  BY <1>1 DEF RoomInv
<1> QED
  BY <1>2, <1>3, <1>4 DEF FrameInv

\* The streams of the frame, and of its lines, are as they should be.
LEMMA FrameInductive == Spec => []FrameInv
<1>1. FrameInv /\ [Next]_vars => FrameInv'
  <2> SUFFICES ASSUME FrameInv, [Next]_vars PROVE FrameInv'
    OBVIOUS
  <2>1. CASE BuildHistogram
    BY <2>1, FrameHistogram
  <2>2. CASE DiffLine
    BY <2>2, FrameDiff
  <2>3. CASE BuildChangeStreams
    BY <2>3, FrameChanges
  <2>4. CASE EmitLine
    BY <2>4, FrameEmit
  <2>5. CASE SkipLine
    BY <2>5, FrameSkip
  <2>6. CASE ChooseGlobalRb
    BY <2>6, FrameChoose
  <2>7. CASE EncodeLine
    BY <2>7, FrameEncode
  <2>8. CASE MakeHeader
    BY <2>8, FrameHeaderMade
  <2>9. CASE UNCHANGED vars
    <3>1. UNCHANGED <<cur, prev, phase, line, hist, lineChanged, spanChanged,
                      tileStream, global, lineInfos, globalRb, encodedBits>>
      BY <2>9 DEF vars
    <3>2. TypeInv'
      BY <3>1, HistStays DEF FrameInv, TypeInv, ImageInv
    <3>3. ASSUME NEW y \in Rows
          PROVE  (LineMarked(y)' <=> LineMarked(y))
                 /\ (LineWritten(y)' <=> LineWritten(y))
      BY <3>1, MarksStay, WrittenStays
    <3>4. LineInv'
      BY <3>1, <3>3 DEF FrameInv, LineInv
    <3>5. \A s : Pixels(s, line)' = Pixels(s, line)
      BY <3>1 DEF Pixels, StreamAt, IndexAt, ColorIndex
    <3>6. RoomInv'
      BY <3>1, <3>5 DEF FrameInv, RoomInv
    <3> QED
      BY <3>2, <3>4, <3>6 DEF FrameInv
  <2> QED
    BY <2>1, <2>2, <2>3, <2>4, <2>5, <2>6, <2>7, <2>8, <2>9 DEF Next
<1> QED
  BY <1>1, FrameStarts, PTL DEF Spec

\* No symbol is too wide for its stream, and the run bit lengths of the frame
\* are there for each symbol when its lines are encoded (EncodeFrame).
THEOREM TypeCorrect == Spec => []TypeOK
<1>1. FrameInv => TypeOK
  <2> SUFFICES ASSUME FrameInv PROVE TypeOK
    OBVIOUS
  <2>1. TypeInv
    BY DEF FrameInv
  <2>2. ASSUME NEW s \in Streams
        PROVE  /\ \A k \in DOMAIN global[s] :
                    global[s][k] \in 0 .. 2^SymbolSize[s] - 1
               /\ phase = "encode" =>
                    globalRb[s] \in [0 .. 2^SymbolSize[s] - 1 -> Widths]
    <3>1. global[s] \in Seq(0 .. 2^SymbolSize[s] - 1)
      BY <2>1, ValuesOfStreams DEF TypeInv
    <3>2. phase = "encode" =>
            globalRb[s] \in [0 .. 2^SymbolSize[s] - 1 -> Widths]
      BY <2>1, ValuesOfStreams DEF TypeInv
    <3>3. ASSUME NEW S, global[s] \in Seq(S), NEW k \in DOMAIN global[s]
          PROVE  global[s][k] \in S
      BY <3>3, ElementOfSeq, LenProperties
    <3> QED
      BY <3>1, <3>2, <3>3
  <2> QED
    BY <2>1, <2>2 DEF TypeInv, TypeOK, ImageInv, Tiles
<1> QED
  BY <1>1, FrameInductive, PTL

\* The streams, put on the previous image, give the current image, whatever the
\* images and sizes: a reader that follows the span flags and the selector finds
\* each pixel that changed in its stream (EncodeFrame).
THEOREM ImageIsRebuilt == Spec => []RebuildsImage
<1>1. FrameInv => RebuildsImage
  <2> SUFFICES ASSUME FrameInv, phase = "done", NEW y \in Rows, NEW x \in Cols
               PROVE  Decoded(y, x) = cur[y][x]
    BY DEF RebuildsImage
  <2>1. ImageInv /\ HistInv /\ LineMarked(y) /\ LineWritten(y)
    BY DEF FrameInv, TypeInv, LineInv
  <2> QED
    BY <2>1, PixelIsRebuilt
<1> QED
  BY <1>1, FrameInductive, PTL

-----------------------------------------------------------------------------
(* No writer is too small.                                                 *)

LEMMA FewerFit ==
  ASSUME NEW a \in Nat, NEW b \in Nat, a <= b
  PROVE  Fits(a, b)
BY DEF Fits, BytesOf

\* Tiles are not narrower than a pixel; six bits for each tile of eight pixels
\* or more fit into a bit for each pixel, by bytes.
LEMMA TilesFit ==
  /\ NumTilesX <= Width
  /\ TileWidth >= 8 => \A n \in Nat : n <= NumTilesX * 6 => Fits(n, Width)
<1> DEFINE a == Width + TileWidth - 1
           t == NumTilesX
<1>1. Width \in Nat \ {0} /\ TileWidth \in Nat \ {0}
  BY FrameAssumption
<1>2. a \in Nat /\ t = a \div TileWidth
  BY <1>1 DEF NumTilesX
<1> HIDE DEF t
<1>3. t \in Nat /\ TileWidth * t <= a
  <2> HIDE DEF a
  <2> QED
    BY <1>1, <1>2
<1>4. t <= Width
  <2>1. CASE t >= Width + 1
    <3>1. TileWidth * t >= TileWidth * (Width + 1)
      BY <1>1, <1>3, <2>1
    <3>2. TileWidth * (Width + 1) = TileWidth * Width + TileWidth
      BY <1>1
    <3>3. TileWidth * Width >= Width /\ TileWidth * Width \in Nat
          /\ TileWidth * t \in Nat
      BY <1>1, <1>3
    <3> DEFINE u == TileWidth * t  v == TileWidth * Width
    <3>4. u >= v + TileWidth /\ v >= Width /\ u <= Width + TileWidth - 1
          /\ u \in Nat /\ v \in Nat
      BY <1>3, <3>1, <3>2, <3>3
    <3> HIDE DEF u, v
    <3> QED
      BY <1>1, <3>4
  <2> QED
    BY <1>1, <1>3, <2>1
<1>5. ASSUME TileWidth >= 8, NEW n \in Nat, n <= t * 6 PROVE Fits(n, Width)
  <2>1. 8 * t <= Width + 7
    <3> PICK e \in Nat : TileWidth = 8 + e
      BY <1>1, <1>5, TileWidth - 8 \in Nat
    <3>1. t > 0
      BY TileCounts DEF t
    <3>2. TileWidth * t = 8 * t + e * t
      BY <1>3
    <3>3. e * t >= e /\ e * t \in Nat
      BY <1>3, <3>1
    <3> DEFINE w == e * t  u == TileWidth * t
    <3>4. u = 8 * t + w /\ w >= e /\ w \in Nat /\ u <= Width + (8 + e) - 1
      BY <1>3, <3>2, <3>3
    <3> HIDE DEF w, u
    <3> QED
      BY <1>1, <1>3, <3>4
  <2>2. (n + 7) \div 8 <= t
    BY <1>3, <1>5
  <2>3. t <= (Width + 7) \div 8
    BY <1>1, <1>3, <2>1
  <2> QED
    BY <1>1, <1>3, <1>5, <2>2, <2>3 DEF Fits, BytesOf
<1> QED
  BY <1>4, <1>5 DEF t

LEMMA FlagsFit ==
  ASSUME NEW stream \in Seq({0, 1})
  PROVE  Fits(FlagBits(stream), Len(stream))
<1>1. stream \in Seq(0 .. 2^1 - 1)
  <2>1. 0 .. 2^1 - 1 = {0, 1}
    BY Sizes DEF SymbolSize
  <2> QED
    BY <2>1
<1>2. FlagBits(stream) \in Nat /\ FlagBits(stream) <= Len(stream) * 1
  BY <1>1, PreparedFits DEF FlagBits
<1>3. Len(stream) \in Nat
  BY LenProperties
<1> QED
  BY <1>2, <1>3, FewerFit

LEMMA ChangesFit == FrameInv /\ BuildChangeStreams => phase' # "panic"
<1> SUFFICES ASSUME FrameInv, BuildChangeStreams PROVE phase' # "panic"
  OBVIOUS
<1>1. FrameInv'
  BY FrameChanges
<1>2. tileStream' \in Seq({0, 1})
  BY <1>1 DEF FrameInv, TypeInv
<1>3. LineStream \in Seq({0, 1}) /\ Len(LineStream) = Height
  BY LineStreamIsFlags DEF FrameInv, TypeInv
<1>4. Len(tileStream') = NumTilesX * NumTilesY
  BY <1>2, TileCounts DEF BuildChangeStreams
<1>5. Fits(FlagBits(LineStream), Height)
      /\ Fits(FlagBits(tileStream'), NumTilesX * NumTilesY)
  BY <1>2, <1>3, <1>4, FlagsFit
<1> QED
  BY <1>5 DEF BuildChangeStreams

\* The room of the writers of the frame, when so many lines were written.
LEMMA GlobalFits ==
  ASSUME ImageInv, HistInv, NEW y \in 0 .. Height, NEW s \in Streams,
         NEW n \in Nat,
         s = "span" => n <= NumTilesX * y,
         s = "selector" => n <= Width * y,
         s \in Palettes => n <= Cardinality(Pixels(s, y))
  PROVE  /\ n * SymbolSize[s] \in Nat /\ GlobalCapacity(s) \in Nat
         /\ n * SymbolSize[s] <= GlobalCapacity(s)
<1>1. y \in Nat /\ y <= Height /\ Height \in Nat /\ Width \in Nat
      /\ NumTilesX \in Nat
  BY FrameAssumption, TileCounts
<1>2. CASE s = "span"
  <2>1. NumTilesX * y <= NumTilesX * Height
    BY <1>1
  <2>2. NumTilesX * y \in Nat /\ NumTilesX * Height \in Nat
    BY <1>1
  <2>3. n <= NumTilesX * Height
    BY <1>2, <2>1, <2>2
  <2>4. GlobalCapacity(s) = NumTilesX * Height /\ SymbolSize[s] = 1
    BY <1>2 DEF GlobalCapacity, SymbolSize, Palettes
  <2> QED
    BY <2>2, <2>3, <2>4
<1>3. CASE s = "selector"
  <2>1. Width * y <= Width * Height
    BY <1>1
  <2>2. Width * y \in Nat /\ Width * Height \in Nat
    BY <1>1
  <2>3. n <= Width * Height
    BY <1>3, <2>1, <2>2
  <2>4. GlobalCapacity(s) = Width * Height * 2 /\ SymbolSize[s] = 2
    BY <1>3 DEF GlobalCapacity, SymbolSize, Palettes
  <2> QED
    BY <2>2, <2>3, <2>4
<1>4. CASE s \in Palettes
  <2>1. /\ n <= Cardinality(Pixels(s, y))
        /\ Cardinality(Pixels(s, y)) \in Nat
        /\ Cardinality(Pixels(s, Height)) \in Nat
        /\ Cardinality(Pixels(s, y)) <= Cardinality(Pixels(s, Height))
    BY <1>4, PixelsOfAll
  <2>2. NumPixels(s) = Cardinality(Pixels(s, Height))
    BY <1>4, PixelsOfPalette
  <2>3. GlobalCapacity(s) = NumPixels(s) * SymbolSize[s]
    BY <1>4 DEF GlobalCapacity, Palettes
  <2>4. SymbolSize[s] \in Nat
    BY ValuesOfStreams
  <2> DEFINE m == NumPixels(s)  b == SymbolSize[s]
  <2>5. m \in Nat /\ n <= m /\ b \in Nat
    BY <2>1, <2>2, <2>4
  <2> HIDE DEF m, b
  <2>6. n * b \in Nat /\ m * b \in Nat /\ n * b <= m * b
    BY <2>5
  <2> QED
    BY <2>3, <2>6 DEF m, b
<1> QED
  BY <1>2, <1>3, <1>4, Sizes DEF Palettes

LEMMA EmitFits == FrameInv /\ EmitLine => phase' # "panic"
<1> SUFFICES ASSUME FrameInv, EmitLine PROVE phase' # "panic"
  OBVIOUS
<1>1. /\ ImageInv /\ HistInv /\ line \in Rows /\ line + 1 \in 0 .. Height
      /\ spanChanged \in [Rows -> [Tiles -> {0, 1}]]
  <2>1. phase = "emit" /\ line < Height
    BY DEF EmitLine
  <2> QED
    BY <2>1, FrameAssumption DEF FrameInv, TypeInv, Rows
<1>2. ASSUME NEW s \in Streams
      PROVE  /\ Fits(SizeInBits(global', s), GlobalCapacity(s))
             /\ Fits(SizeInBits(lineInfos'[line], s), LineCapacity(s))
  <2>1. /\ lineInfos'[line] = StreamsOf(line)
        /\ Len(global'[s]) \in Nat
        /\ s = "span" => Len(global'[s]) <= NumTilesX * (line + 1)
        /\ s = "selector" => Len(global'[s]) <= Width * (line + 1)
        /\ s \in Palettes => Len(global'[s]) <= Cardinality(Pixels(s, line + 1))
    BY FrameEmit
  <2> DEFINE n == Len(global'[s])
  <2>2. /\ n \in Nat
        /\ s = "span" => n <= NumTilesX * (line + 1)
        /\ s = "selector" => n <= Width * (line + 1)
        /\ s \in Palettes => n <= Cardinality(Pixels(s, line + 1))
    BY <2>1
  <2> HIDE DEF n
  <2>3. /\ n * SymbolSize[s] \in Nat /\ GlobalCapacity(s) \in Nat
        /\ n * SymbolSize[s] <= GlobalCapacity(s)
    BY <1>1, <2>2, GlobalFits
  <2>4. Fits(SizeInBits(global', s), GlobalCapacity(s))
    BY <2>3, FewerFit DEF SizeInBits, n
  <2> DEFINE k == Len(StreamsOf(line)[s])  b == SymbolSize[s]
  <2>5. k \in Nat /\ k <= Width /\ b \in Nat /\ Width \in Nat
    <3>1. StreamsOf(line)[s] \in Seq(Values(s))
      BY <1>1, LineStreamsFit
    <3>2. k \in Nat
      BY <3>1, LenProperties
    <3>3. CASE s = "span"
      <4>1. k = NumTilesX
        BY <1>1, <3>3, LineStreamsFit
      <4> HIDE DEF k
      <4> QED
        BY <3>2, <4>1, TilesFit, ValuesOfStreams, FrameAssumption
    <3>4. CASE s # "span"
      <4>1. k <= Width
        BY <1>1, <3>4, LineStreamsFit, Sizes DEF Palettes
      <4> HIDE DEF k
      <4> QED
        BY <3>2, <4>1, ValuesOfStreams, FrameAssumption
    <3> QED
      BY <3>3, <3>4, FrameAssumption
  <2> HIDE DEF k, b
  <2>6. k * b \in Nat /\ Width * b \in Nat /\ k * b <= Width * b
    BY <2>5
  <2>7. Fits(SizeInBits(lineInfos'[line], s), LineCapacity(s))
    BY <2>1, <2>6, FewerFit DEF SizeInBits, LineCapacity, k, b
  <2> QED
    BY <2>4, <2>7
<1> QED
  BY <1>2 DEF EmitLine

LEMMA ChosenFits == FrameInv /\ ChooseGlobalRb => phase' # "panic"
<1> SUFFICES ASSUME FrameInv, ChooseGlobalRb PROVE phase' # "panic"
  OBVIOUS
<1>1. /\ ImageInv /\ HistInv /\ line \in 0 .. Height /\ phase = "emit"
  BY DEF ChooseGlobalRb, FrameInv, TypeInv
<1>2. ASSUME NEW s \in Streams
      PROVE  Fits(EncodedSize(SymbolSize[s], global[s], globalRb'[s]),
                  GlobalCapacity(s))
  <2>1. SymbolSize[s] \in Nat /\ global[s] \in Seq(0 .. 2^SymbolSize[s] - 1)
    BY ValuesOfStreams DEF FrameInv, TypeInv
  <2>2. globalRb'[s] = EncodePrepare(SymbolSize[s], global[s])
    BY DEF ChooseGlobalRb
  <2> DEFINE n == Len(global[s])
             size == EncodedSize(SymbolSize[s], global[s], globalRb'[s])
  <2>3. size \in Nat /\ size <= n * SymbolSize[s]
    BY <2>1, <2>2, PreparedFits
  <2>4. n \in Nat
    BY <2>1, LenProperties
  <2>5. /\ s = "span" => n <= NumTilesX * line
        /\ s = "selector" => n <= Width * line
        /\ s \in Palettes => n <= Cardinality(Pixels(s, line))
    BY <1>1 DEF FrameInv, RoomInv
  <2> HIDE DEF n
  <2>6. /\ n * SymbolSize[s] \in Nat /\ GlobalCapacity(s) \in Nat
        /\ n * SymbolSize[s] <= GlobalCapacity(s)
    BY <1>1, <2>4, <2>5, GlobalFits
  <2> HIDE DEF size
  <2>7. size <= GlobalCapacity(s)
    BY <2>3, <2>6
  <2> QED
    BY <2>3, <2>6, <2>7, FewerFit DEF size
<1> QED
  BY <1>2 DEF ChooseGlobalRb

LEMMA EncodeFits ==
  ASSUME FrameInv, EncodeLine, TileWidth >= 8
  PROVE  phase' # "panic"
<1>1. /\ phase = "encode" /\ line < Height /\ lineChanged[line] = 1
      /\ encodedBits' = [encodedBits EXCEPT ![line] = [s \in Streams |->
           EncodedSize(SymbolSize[s], lineInfos[line][s], globalRb[s])]]
  BY DEF EncodeLine
<1>2. /\ ImageInv /\ HistInv /\ line \in Rows /\ DOMAIN encodedBits = Rows
      /\ spanChanged \in [Rows -> [Tiles -> {0, 1}]]
  BY <1>1, FrameAssumption DEF FrameInv, TypeInv, Rows
<1>3. ASSUME NEW s \in Streams
      PROVE  Fits(encodedBits'[line][s], EncodedCapacity(s))
  <2> DEFINE size == EncodedSize(SymbolSize[s], lineInfos[line][s], globalRb[s])
             k == Len(StreamsOf(line)[s])
             b == SymbolSize[s]
  <2>1. encodedBits'[line][s] = size
    BY <1>1, <1>2
  <2>2. size \in Nat /\ size <= k * (b + 5)
    BY <1>1, EncodedLineSize
  <2>3. k \in Nat /\ b \in Nat
    <3>1. StreamsOf(line)[s] \in Seq(Values(s))
      BY <1>2, LineStreamsFit
    <3> QED
      BY <3>1, LenProperties, ValuesOfStreams
  <2>4. CASE s = "span"
    <3>1. k = NumTilesX /\ b = 1
      BY <1>2, <2>4, LineStreamsFit DEF SymbolSize
    <3> HIDE DEF size, k, b
    <3>2. size <= NumTilesX * 6
      BY <2>2, <3>1
    <3>3. Fits(size, Width)
      BY <2>2, <3>2, TilesFit
    <3> QED
      BY <2>1, <2>4, <3>3 DEF EncodedCapacity
  <2>5. CASE s # "span"
    <3>1. k <= Width
      BY <1>2, <2>5, LineStreamsFit, Sizes DEF Palettes
    <3>2. EncodedCapacity(s) = Width * (b + 5)
      BY <2>5 DEF EncodedCapacity
    <3> HIDE DEF size, k, b
    <3>3. Width \in Nat
      BY FrameAssumption
    <3>4. k * (b + 5) <= Width * (b + 5) /\ k * (b + 5) \in Nat
          /\ Width * (b + 5) \in Nat
      BY <2>3, <3>1, <3>3
    <3>5. size <= Width * (b + 5)
      BY <2>2, <3>4
    <3> QED
      BY <2>1, <2>2, <3>2, <3>4, <3>5, FewerFit
  <2> QED
    BY <2>4, <2>5
<1> QED
  BY <1>1, <1>3 DEF EncodeLine

\* No writer of EncodeFrame is too small, for images of every size and tiles of
\* at least eight pixels, as the command has them.
THEOREM NeverPanics ==
  ASSUME TileWidth >= 8
  PROVE  Spec => []NoPanic
<1>1. Init => NoPanic
  BY DEF Init, GetImages, NoPanic
<1>2. NoPanic /\ FrameInv /\ [Next]_vars => NoPanic'
  <2> SUFFICES ASSUME NoPanic, FrameInv, [Next]_vars PROVE phase' # "panic"
    BY DEF NoPanic
  <2>1. CASE BuildHistogram
    BY <2>1 DEF BuildHistogram
  <2>2. CASE DiffLine \/ SkipLine \/ UNCHANGED vars
    BY <2>2 DEF DiffLine, SkipLine, vars, NoPanic
  <2>3. CASE BuildChangeStreams
    BY <2>3, ChangesFit
  <2>4. CASE EmitLine
    BY <2>4, EmitFits
  <2>5. CASE ChooseGlobalRb
    BY <2>5, ChosenFits
  <2>6. CASE EncodeLine
    BY <2>6, EncodeFits
  <2>7. CASE MakeHeader
    BY <2>7 DEF MakeHeader
  <2> QED
    BY <2>1, <2>2, <2>3, <2>4, <2>5, <2>6, <2>7 DEF Next
<1> QED
  BY <1>1, <1>2, FrameInductive, PTL DEF Spec

=============================================================================
