-------------------------------- MODULE Srlen --------------------------------
(***************************************************************************)
(* Selective run-length encoding, go/encoder/srlen.go: one call of Encode  *)
(* (or of Encode4, Encode8), then one of Decode, or the calls of           *)
(* SrlenBitStreamReader.ReadSymbol up to its first error, on what arrived. *)
(* A step is one turn of a loop.                                           *)
(*                                                                         *)
(* A bit stream is the sequence of its bits, the lowest bit of a value     *)
(* first.  The entry points differ in their symbol size and in the number  *)
(* of bits they let their BitStreamReader have.                            *)
(***************************************************************************)
EXTENDS SrlenSize

INSTANCE SequencesExt

CONSTANTS
  SymbolBits,       \* sizeofSymbolInBits
  PrepareBits,      \* numBits of the reader of the analysis, 0: all of the data
  EncodeBits,       \* numBits of the reader of the encoder, 0: all of the data
  Inputs,           \* the data: sequences of bits
  GivenRbs,         \* what givenRb can be
  Nil,              \* givenRb = nil
  MaxCut            \* of streams of up to so many bits part may arrive

ASSUME SrlenAssumption ==
  /\ SymbolBits \in Nat \ {0}
  /\ PrepareBits \in Nat /\ EncodeBits \in Nat
  /\ Inputs \subseteq Seq({0, 1})
  /\ MaxCut \in Nat

Symbols == 0 .. 2^SymbolBits - 1
Phases  == {"analyse", "encode", "decode", "read", "done", "failed"}

\* A givenRb with an entry for each symbol was chosen by EncodePrepare, for this
\* data or another.
ASSUME GivenRbsAssumption ==
  \A g \in GivenRbs :
    g = Nil \/ (DOMAIN g = Symbols => g \in [Symbols -> Widths])

VARIABLES
  data, givenRb,
  phase,               \* where the call under way is, see Phases
  numBits, readBits,   \* the BitStreamReader in use
  hists,               \* sizeInBitsPerRb of each symbol
  rb,
  symbol, remain,      \* Encode: the run being written; ReadSymbol: symbol, run
  out,                 \* the bits of the BitStreamWriter
  back                 \* the symbols that came out of the decoder

vars == <<data, givenRb, phase, numBits, readBits, hists, rb, symbol, remain,
          out, back>>
result == <<data, givenRb>>

-----------------------------------------------------------------------------
(* Bits, and reading them.                                                 *)

Bits(v, n) == [i \in 1 .. n |-> (v \div 2^(i - 1)) % 2]
Value(b)   == CHOOSE v \in 0 .. 2^Len(b) - 1 : Bits(v, Len(b)) = b

\* n bits of src from position p; beyond its buffer a reader sees zeros.
Field(src, p, n) ==
  Value([i \in 1 .. n |-> IF p + i <= Len(src) THEN src[p + i] ELSE 0])

\* The numBits an entry point gives its reader of the data.
Reader(limit) == IF limit = 0 THEN Len(data) ELSE limit

IsReadEnd == numBits - readBits < SymbolBits

SymbolAt(src, k) == Field(src, readBits + k * SymbolBits, SymbolBits)

\* How often the symbol under the reader repeats there.
RunHere ==
  LET left   == (numBits - readBits) \div SymbolBits
      others == {k \in 1 .. left - 1 : SymbolAt(data, k) # SymbolAt(data, 0)}
  IN  IF others = {} THEN left ELSE Min(others)

-----------------------------------------------------------------------------
(* The analysis pass, EncodePrepare.                                       *)

\* Mutated form of Analyse: the chunk a run leaves over is not counted.
MutantDropsRest ==
  /\ phase = "analyse" /\ ~IsReadEnd
  /\ hists' = [hists EXCEPT ![SymbolAt(data, 0)] = [w \in Widths |->
                 @[w] + (RunHere \div 2^w) * (SymbolBits + w)]]
  /\ readBits' = readBits + RunHere * SymbolBits
  /\ UNCHANGED <<result, phase, numBits, rb, symbol, remain, out, back>>

Analyse ==
  /\ phase = "analyse" /\ ~IsReadEnd
  /\ hists' = [hists EXCEPT ![SymbolAt(data, 0)] =
                 [w \in Widths |-> @[w] + RunSize(SymbolBits, RunHere, w)]]
  /\ readBits' = readBits + RunHere * SymbolBits
  /\ UNCHANGED <<result, phase, numBits, rb, symbol, remain, out, back>>

\* The widths are chosen; the encoder makes or resets its reader.
Choose ==
  /\ phase = "analyse" /\ IsReadEnd
  /\ rb' = [s \in Symbols |-> BestRb(hists[s])]
  /\ phase' = "encode"
  /\ numBits' = Reader(EncodeBits) /\ readBits' = 0
  /\ UNCHANGED <<result, hists, symbol, remain, out, back>>

-----------------------------------------------------------------------------
(* The encoding pass, Encode.                                              *)

\* A givenRb of the wrong length is refused.
RejectRb ==
  /\ phase = "encode" /\ DOMAIN rb # Symbols
  /\ phase' = "failed"
  /\ UNCHANGED <<result, numBits, readBits, hists, rb, symbol, remain, out,
                 back>>

EncodeRun ==
  /\ phase = "encode" /\ DOMAIN rb = Symbols /\ remain = 0 /\ ~IsReadEnd
  /\ symbol' = SymbolAt(data, 0) /\ remain' = RunHere
  /\ readBits' = readBits + RunHere * SymbolBits
  /\ UNCHANGED <<result, phase, numBits, hists, rb, out, back>>

\* Mutated form of Write: the length takes one bit more.
MutantWidensField(chunk, field) ==
  /\ phase = "encode" /\ remain > 0
  /\ out' = out \o Bits(symbol, SymbolBits) \o Bits(field, rb[symbol] + 1)
  /\ remain' = remain - chunk
  /\ UNCHANGED <<result, phase, numBits, readBits, hists, rb, symbol, back>>

\* Write a code: the symbol, and in rb bits the length of the chunk less one.
\* With rb = 0 there are no such bits and a chunk is one symbol.
Write(chunk, field) ==
  /\ phase = "encode" /\ remain > 0
  /\ out' = out \o Bits(symbol, SymbolBits) \o Bits(field, rb[symbol])
  /\ remain' = remain - chunk
  /\ UNCHANGED <<result, phase, numBits, readBits, hists, rb, symbol, back>>

Smaller(a, b) == IF a < b THEN a ELSE b

\* Mutated form of EncodeChunk: the length is stored as it is.
MutantStoresLength ==
  LET chunk == Smaller(remain, 2^rb[symbol]) IN Write(chunk, chunk)

\* Mutated form of EncodeChunk: a chunk ends one symbol early.
MutantShortChunk ==
  LET most  == IF rb[symbol] = 0 THEN 1 ELSE 2^rb[symbol] - 1
      chunk == Smaller(remain, most)
  IN  Write(chunk, chunk - 1)

EncodeChunk ==
  LET chunk == Smaller(remain, 2^rb[symbol]) IN Write(chunk, chunk - 1)

\* Encode returns; n bits of the stream reach a Decode or a ReadSymbol.
EncodeEnds(n, decoder) ==
  /\ phase = "encode" /\ DOMAIN rb = Symbols /\ remain = 0 /\ IsReadEnd
  /\ phase' = decoder
  /\ numBits' = n /\ readBits' = 0
  /\ UNCHANGED <<result, hists, rb, symbol, remain, out, back>>

-----------------------------------------------------------------------------
(* Decode, and the symbol-wise reader.                                     *)

RunBits      == rb[SymbolAt(out, 0)]

\* Mutated form of RunIsMissing: the bits of the symbol are forgotten.
MutantLateCheck == readBits + RunBits > numBits

\* ReadBits of the run length would pass the end.
RunIsMissing == readBits + SymbolBits + RunBits > numBits

RunField     == Field(out, readBits + SymbolBits, RunBits)

\* The symbol of the code, n times; once when it has no run length.
Run(n) == [i \in 1 .. IF RunBits = 0 THEN 1 ELSE n |-> SymbolAt(out, 0)]

\* Mutated form of DecodeCode: a run is taken to be as long as its field says.
MutantKeepsField ==
  /\ phase = "decode" /\ ~IsReadEnd
  /\ RunBits = 0 \/ ~RunIsMissing
  /\ back' = back \o Run(RunField)
  /\ readBits' = readBits + SymbolBits + RunBits
  /\ UNCHANGED <<result, phase, numBits, hists, rb, symbol, remain, out>>

DecodeCode ==
  /\ phase = "decode" /\ ~IsReadEnd
  /\ RunBits = 0 \/ ~RunIsMissing
  /\ back' = back \o Run(RunField + 1)
  /\ readBits' = readBits + SymbolBits + RunBits
  /\ UNCHANGED <<result, phase, numBits, hists, rb, symbol, remain, out>>

\* The run length of the last code is cut off: Decode returns an error.
DecodeFails ==
  /\ phase = "decode" /\ ~IsReadEnd
  /\ RunBits > 0 /\ RunIsMissing
  /\ phase' = "failed"
  /\ UNCHANGED <<result, numBits, readBits, hists, rb, symbol, remain, out,
                 back>>

\* ReadSymbol inside a run.
ReadRepeats ==
  /\ phase = "read" /\ remain > 0
  /\ remain' = remain - 1
  /\ back' = Append(back, symbol)
  /\ UNCHANGED <<result, phase, numBits, readBits, hists, rb, symbol, out>>

\* ReadSymbol at a code.  A run length that is cut off is read as -1, which
\* is taken for "no repeats" and not reported.
ReadCode ==
  /\ phase = "read" /\ remain <= 0 /\ ~IsReadEnd
  /\ symbol' = SymbolAt(out, 0)
  /\ back' = Append(back, symbol')
  /\ \/ /\ RunBits = 0
        /\ remain' = remain /\ readBits' = readBits + SymbolBits
     \/ /\ RunBits > 0 /\ RunIsMissing
        /\ remain' = -1 /\ readBits' = readBits + SymbolBits
     \/ /\ RunBits > 0 /\ ~RunIsMissing
        /\ remain' = RunField /\ readBits' = readBits + SymbolBits + RunBits
  /\ UNCHANGED <<result, phase, numBits, hists, rb, out>>

\* Decode returns without an error; ReadSymbol returns "end of stream".
DecodeEnds ==
  /\ phase = "decode" \/ (phase = "read" /\ remain <= 0)
  /\ IsReadEnd
  /\ phase' = "done"
  /\ UNCHANGED <<result, numBits, readBits, hists, rb, symbol, remain, out,
                 back>>

-----------------------------------------------------------------------------
Init ==
  /\ data \in Inputs /\ givenRb \in GivenRbs
  /\ \/ /\ givenRb = Nil /\ phase = "analyse"
        /\ rb = [s \in Symbols |-> 0] /\ numBits = Reader(PrepareBits)
     \/ /\ givenRb # Nil /\ phase = "encode"
        /\ rb = givenRb /\ numBits = Reader(EncodeBits)
  /\ hists = [s \in Symbols |-> [w \in Widths |-> 0]]
  /\ readBits = 0 /\ symbol = 0 /\ remain = 0
  /\ out = <<>> /\ back = <<>>

\* How much of the stream the decoder may get.
Arrived == IF Len(out) <= MaxCut THEN 0 .. Len(out) ELSE {Len(out)}

Next ==
  \/ Analyse \/ Choose
  \/ RejectRb \/ EncodeRun \/ EncodeChunk
  \/ \E n \in Arrived, d \in {"decode", "read"} : EncodeEnds(n, d)
  \/ DecodeCode \/ DecodeFails
  \/ ReadRepeats \/ ReadCode
  \/ DecodeEnds

Spec == Init /\ [][Next]_vars

-----------------------------------------------------------------------------
(* Properties.                                                             *)

\* The whole symbols of the data.
Source == [i \in 1 .. Len(data) \div SymbolBits |->
             Field(data, (i - 1) * SymbolBits, SymbolBits)]

\* Encode has just returned.
Encoded == phase \in {"decode", "read"} /\ back = <<>>

\* The size of an encoding of the source with run bit lengths q.
SourceSize(q) == EncodedSize(SymbolBits, Source, q)

TypeOK ==
  /\ data \in Inputs /\ givenRb \in GivenRbs
  /\ phase \in Phases
  /\ numBits \in Nat /\ readBits \in 0 .. numBits
  /\ hists \in [Symbols -> [Widths -> Nat]]
  /\ DOMAIN rb = Symbols => rb \in [Symbols -> Widths]
  /\ symbol \in Symbols /\ remain \in Nat \cup {-1}
  /\ out \in Seq({0, 1}) /\ back \in Seq(Symbols)

\* Whatever the run bit lengths, chosen for this data or given for another, the
\* whole stream decodes to the data, in both decoders and without an error.
RoundTrip ==
  DOMAIN rb = Symbols /\ numBits = Len(out) =>
    /\ phase # "failed"
    /\ phase = "done" => back = Source

\* However the stream is cut off, Decode writes no symbol the data did not have
\* there: the end of the stream is never taken for a code.  (ReadSymbol does:
\* it takes the rest of a cut off run length for the next code.)
DecodeKeepsPrefix ==
  phase \in {"decode", "failed"} => IsPrefix(back, Source)

\* The stream has the size that recordRun predicts for these run bit lengths.
SizeIsPredicted == Encoded => Len(out) = SourceSize(rb)

\* The widths are those of the module SrlenSize, which the frame encoder uses.
ChoosesAsSized ==
  Encoded /\ givenRb = Nil => rb = EncodePrepare(SymbolBits, Source)

\* No other run bit lengths give a shorter stream than those bestRb chooses; as
\* 0 is among them, no symbol takes more bits than in the data
\* (docs/designs/SelectiveRunLengthEncoding.md, "no expansion per symbol").
OwnRbIsOptimal ==
  Encoded /\ givenRb = Nil =>
    \A s \in Symbols, w \in Widths :
      Len(out) <= SourceSize([rb EXCEPT ![s] = w])

\* At no time does the writer need more than symbol size + 5 bits a symbol, the
\* capacity that LineInfo.Initialize gives its encoded streams.
OutputFits == Len(out) <= (Len(data) \div SymbolBits) * (SymbolBits + 5)

=============================================================================
