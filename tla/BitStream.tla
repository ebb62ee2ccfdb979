------------------------------ MODULE BitStream ------------------------------
(***************************************************************************)
(* A BitStreamWriter and the BitStreamReader taken from it,                *)
(* go/encoder/bitstream.go: bits go through a 64-bit accumulator into the  *)
(* bytes of a buffer, and back.  An action is one call of a method.        *)
(*                                                                         *)
(* A number, a register and a buffer are each the set of their bits that   *)
(* are 1; bit i of the buffer is bit i % 8 of its byte i \div 8.  Writer   *)
(* and reader share the buffer, as their slices do.                        *)
(***************************************************************************)
EXTENDS Integers

CONSTANTS
  WriteWidths,      \* the widths n of WriteBits
  ReadWidths,       \* the widths n of ReadBits, PeekBits and SkipBits
  Payloads(_, _),   \* Payloads(n, at): the n-bit numbers written at bit `at'
  Capacities,       \* the arguments of SetCapacity, in bits
  MaxBits           \* bound of the model: how many bits are ever written

\* WriteBits cannot take more than 32 bits, says its comment, and does not mask
\* them: that a number has no more than n bits is up to the caller.
ASSUME BitStreamAssumption ==
  /\ MaxBits \in Nat
  /\ WriteWidths \subseteq 0 .. 32 /\ ReadWidths \subseteq 0 .. 32
  /\ Capacities \subseteq Nat
  /\ \A n \in WriteWidths, at \in 0 .. MaxBits :
       Payloads(n, at) \subseteq SUBSET (0 .. n - 1)

VARIABLES
  buf, bufLen,                  \* the buffer of the writer, its bytes
  numBits, pos, finalized,
  accuNumBits, accuRegister,    \* BitStreamWriter
  rdLen, rdNumBits, readBits, rdPos,
  rdAccuNumBits, rdAccuRegister, \* BitStreamReader
  result,                       \* of the last ReadBits or PeekBits: n, value
  given, flushed,               \* history: the ones among the bits written; the
                                \* bits in the buffer when the reader was made
  overrun                       \* history: 0, or how many bits were to be stored
                                \* when an index left the buffer: a panic

written == <<buf, bufLen, numBits, pos, finalized, accuNumBits, accuRegister,
             given>>
reading == <<readBits, rdPos, rdAccuNumBits, rdAccuRegister>>
reader  == <<rdLen, rdNumBits, flushed, reading>>
vars    == <<written, reader, result, overrun>>

-----------------------------------------------------------------------------
(* Registers of 64 bits.                                                   *)

Register  == 0 .. 63
ShiftLeft(r, n)  == {i \in Register : i - n \in r}
ShiftRight(r, n) == {i \in Register : i + n \in r}
Low(r, n)        == {i \in r : i < n}

Bytes(n) == (n + 7) \div 8

\* The buffer after its n bytes from pos are overwritten with those of r.
Stored(r, n) ==
  {i \in buf : i < 8 * pos \/ 8 * (pos + n) <= i}
    \cup {i \in 8 * pos .. 8 * (pos + n) - 1 : i - 8 * pos \in r}

-----------------------------------------------------------------------------
(* BitStreamWriter.                                                        *)

SetCapacity(sizeInBits) ==
  /\ bufLen' = Bytes(sizeInBits)
  /\ buf' = IF bufLen = 0 THEN {} ELSE buf
  /\ UNCHANGED <<numBits, pos, finalized, accuNumBits, accuRegister, given,
                 reader, result, overrun>>

\* The accumulator with the n bits of v.
Filled(v) == accuRegister \cup ShiftLeft(v, accuNumBits)

\* The bits asked of the writer, in the order of the calls.
Gives(v, n) ==
  given' = given \cup {j \in numBits .. numBits + n - 1 : j - numBits \in v}

\* WriteBits, while the accumulator has fewer than 32 bits.
Accumulate(v, n) ==
  /\ n > 0 /\ ~finalized /\ accuNumBits + n < 32
  /\ accuRegister' = Filled(v) /\ accuNumBits' = accuNumBits + n
  /\ numBits' = numBits + n
  /\ Gives(v, n)
  /\ UNCHANGED <<buf, bufLen, pos, finalized, reader, result, overrun>>

\* Mutated form of Flush: the low 32 bits stay in the register.
MutantKeepsRegister(v, n) ==
  /\ n > 0 /\ ~finalized /\ accuNumBits + n >= 32 /\ pos + 3 < bufLen
  /\ buf' = Stored(Filled(v), 4) /\ pos' = pos + 4
  /\ accuRegister' = Filled(v)
  /\ accuNumBits' = accuNumBits + n - 32
  /\ numBits' = numBits + n
  /\ Gives(v, n)
  /\ UNCHANGED <<bufLen, finalized, reader, result, overrun>>

\* WriteBits, when 32 bits are there: four bytes go into the buffer.
Flush(v, n) ==
  /\ n > 0 /\ ~finalized /\ accuNumBits + n >= 32 /\ pos + 3 < bufLen
  /\ buf' = Stored(Filled(v), 4) /\ pos' = pos + 4
  /\ accuRegister' = ShiftRight(Filled(v), 32)
  /\ accuNumBits' = accuNumBits + n - 32
  /\ numBits' = numBits + n
  /\ Gives(v, n)
  /\ UNCHANGED <<bufLen, finalized, reader, result, overrun>>

\* WriteBits, when the four bytes do not fit.
FlushPanics(n) ==
  /\ n > 0 /\ ~finalized /\ accuNumBits + n >= 32 /\ pos + 3 >= bufLen
  /\ overrun' = numBits + n
  /\ UNCHANGED <<written, reader, result>>

\* Mutated form of Finalize: a last byte that is not full is left out.
MutantDropsTail ==
  LET rest == accuNumBits \div 8
  IN  /\ pos + rest <= bufLen
      /\ buf' = Stored(accuRegister, rest) /\ pos' = pos + rest
      /\ accuNumBits' = 0 /\ accuRegister' = {}
      /\ finalized' = TRUE
      /\ UNCHANGED <<bufLen, numBits, given, reader, result, overrun>>

Finalize ==
  LET rest == Bytes(accuNumBits)
  IN  /\ pos + rest <= bufLen
      /\ buf' = Stored(accuRegister, rest) /\ pos' = pos + rest
      /\ accuNumBits' = 0 /\ accuRegister' = {}
      /\ finalized' = TRUE
      /\ UNCHANGED <<bufLen, numBits, given, reader, result, overrun>>

\* Mutated form of FinalizePanics: it takes a full buffer for too small.
MutantNeedsSpare ==
  /\ pos + Bytes(accuNumBits) >= bufLen
  /\ overrun' = numBits
  /\ UNCHANGED <<written, reader, result>>

FinalizePanics ==
  /\ pos + Bytes(accuNumBits) > bufLen
  /\ overrun' = numBits
  /\ UNCHANGED <<written, reader, result>>

TestBit(bitPos) == bitPos \div 8 < bufLen /\ bitPos \in buf

-----------------------------------------------------------------------------
(* BitStreamReader.                                                        *)

\* Writer.Reader: it knows of numBits bits, and sees what is in the buffer.
Reader ==
  /\ rdLen' = bufLen /\ rdNumBits' = numBits /\ flushed' = 8 * pos
  /\ readBits' = 0 /\ rdPos' = 0
  /\ rdAccuNumBits' = 0 /\ rdAccuRegister' = {}
  /\ UNCHANGED <<written, result, overrun>>

ResetRead ==
  /\ readBits' = 0 /\ rdPos' = 0
  /\ rdAccuNumBits' = 0 /\ rdAccuRegister' = {}
  /\ UNCHANGED <<written, rdLen, rdNumBits, flushed, result, overrun>>

\* The bytes that checkAccumulator(n) loads, and the register it leaves.
Loads(n) ==
  LET wanted == IF rdAccuNumBits < n THEN Bytes(n - rdAccuNumBits) ELSE 0
  IN  IF wanted <= rdLen - rdPos THEN wanted ELSE rdLen - rdPos

Loaded(n) ==
  rdAccuRegister \cup
    {i \in Register : /\ rdAccuNumBits <= i /\ i < rdAccuNumBits + 8 * Loads(n)
                      /\ 8 * rdPos + i - rdAccuNumBits \in buf}

\* Mutated form of Refused: the last bits are taken for n bits.
MutantReadsPast(n) == n = 0 \/ readBits >= rdNumBits

Refused(n) == n = 0 \/ readBits + n > rdNumBits

\* The call is refused; SkipBits says nothing, the others return -1.
Refuse(n) ==
  /\ Refused(n) /\ result' = <<n, 0 .. 31>>
  /\ UNCHANGED <<written, reader, overrun>>

\* n bits leave the accumulator.
Consume(n) ==
  /\ rdPos' = rdPos + Loads(n)
  /\ rdAccuNumBits' = rdAccuNumBits + 8 * Loads(n) - n
  /\ rdAccuRegister' = ShiftRight(Loaded(n), n)
  /\ readBits' = readBits + n
  /\ UNCHANGED <<written, rdLen, rdNumBits, flushed, overrun>>

ReadBits(n) == ~Refused(n) /\ result' = <<n, Low(Loaded(n), n)>> /\ Consume(n)

SkipBits(n) == ~Refused(n) /\ Consume(n) /\ UNCHANGED result

\* Mutated form of PeekBits: the bytes are loaded, but not counted.
MutantForgetsLoad(n) ==
  /\ ~Refused(n) /\ result' = <<n, Low(Loaded(n), n)>>
  /\ rdPos' = rdPos
  /\ rdAccuNumBits' = rdAccuNumBits + 8 * Loads(n)
  /\ rdAccuRegister' = Loaded(n)
  /\ UNCHANGED <<written, rdLen, rdNumBits, flushed, readBits, overrun>>

PeekBits(n) ==
  /\ ~Refused(n) /\ result' = <<n, Low(Loaded(n), n)>>
  /\ rdPos' = rdPos + Loads(n)
  /\ rdAccuNumBits' = rdAccuNumBits + 8 * Loads(n)
  /\ rdAccuRegister' = Loaded(n)
  /\ UNCHANGED <<written, rdLen, rdNumBits, flushed, readBits, overrun>>

-----------------------------------------------------------------------------
Init ==
  /\ \E c \in Capacities : bufLen = Bytes(c)
  /\ buf = {} /\ numBits = 0 /\ pos = 0 /\ finalized = FALSE
  /\ accuNumBits = 0 /\ accuRegister = {}
  /\ rdLen = 0 /\ rdNumBits = 0 /\ readBits = 0 /\ rdPos = 0
  /\ rdAccuNumBits = 0 /\ rdAccuRegister = {}
  /\ result = <<0, {}>>
  /\ given = {} /\ flushed = 0 /\ overrun = 0

WriteBits(v, n) == Accumulate(v, n) \/ Flush(v, n) \/ FlushPanics(n)

\* Callers grow a writer, before they read from it, and never shrink it.  A
\* panic ends the program.
Next ==
  /\ overrun = 0
  /\ \/ \E c \in Capacities :
          rdNumBits = 0 /\ Bytes(c) > bufLen /\ SetCapacity(c)
     \/ \E n \in WriteWidths : \E v \in Payloads(n, numBits) :
          numBits + n <= MaxBits /\ WriteBits(v, n)
     \/ Finalize \/ FinalizePanics
     \/ Reader \/ ResetRead
     \/ \E n \in ReadWidths :
          ReadBits(n) \/ SkipBits(n) \/ PeekBits(n) \/ Refuse(n)

Spec == Init /\ [][Next]_vars

-----------------------------------------------------------------------------
(* Properties.                                                             *)

TypeOK ==
  /\ bufLen \in Nat /\ buf \subseteq 0 .. 8 * bufLen - 1
  /\ numBits \in Nat /\ pos \in 0 .. bufLen /\ finalized \in BOOLEAN
  /\ accuNumBits \in 0 .. 31 /\ accuRegister \subseteq Register
  /\ rdLen \in 0 .. bufLen /\ rdNumBits \in 0 .. numBits
  /\ readBits \in 0 .. rdNumBits /\ rdPos \in 0 .. rdLen
  /\ rdAccuNumBits \in Int /\ rdAccuRegister \subseteq Register
  /\ result \in (0 .. 32) \X SUBSET (0 .. 31)
  /\ given \subseteq 0 .. numBits - 1
  /\ flushed \in 0 .. 8 * rdLen
  /\ overrun \in Nat

\* What was written is the buffer up to pos and then the accumulator: no bit is
\* lost, doubled or moved between the two, and nothing else is in either.
WriterKeepsBits ==
  /\ finalized => accuNumBits = 0 /\ Bytes(numBits) = pos
  /\ ~finalized => numBits = 8 * pos + accuNumBits
  /\ \A j \in buf : j < 8 * pos /\ j \in given
  /\ \A i \in accuRegister : i < accuNumBits /\ 8 * pos + i \in given
  /\ \A j \in given : IF j < 8 * pos THEN j \in buf
                                     ELSE j - 8 * pos \in accuRegister

\* The accumulator of a reader has the bits between the next one to be read and
\* its byte position, those that were in the buffer when it was made as written,
\* and no others; it counts them below zero when the buffer has ended.
ReaderFollows ==
  /\ flushed <= 8 * pos
  /\ rdAccuNumBits = 8 * rdPos - readBits /\ rdAccuNumBits < 40
  /\ rdAccuNumBits < 0 => rdPos = rdLen
  /\ \A i \in rdAccuRegister : i < rdAccuNumBits
  /\ \A i \in 0 .. 39 :
       i < rdAccuNumBits /\ readBits + i < flushed =>
         (i \in rdAccuRegister <=> readBits + i \in given)

\* A writer runs out of its buffer only when it has more bits than that can hold
\* (bitstream_test.go:25, "initialized with a capacity that can hold all bits"):
\* the flush by four bytes never needs more room than the bits themselves.
PanicsOnlyWhenFull == overrun > 0 => overrun > 8 * bufLen

\* TestBit on a finalized writer tells the bits written, and 0 behind them.
TestBitTells ==
  finalized => \A p \in 0 .. 8 * bufLen + 8 : TestBit(p) <=> p \in given

\* Writer and reader together are a line of bits with a cursor: the bits come
\* back in the order and with the values written, whatever the widths of the
\* writes and of the reads, whatever was peeked at, skipped or read again.
Queue == INSTANCE BitQueue WITH
  length <- numBits, ones <- given, sealed <- finalized, limit <- rdNumBits,
  settled <- IF flushed <= rdNumBits THEN flushed ELSE rdNumBits,
  cursor <- readBits
KeepsQueue == Queue!Spec

=============================================================================
