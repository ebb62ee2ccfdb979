--------------------------- MODULE BitStreamProofs ---------------------------
(***************************************************************************)
(* The bit streams for every sequence of calls, widths, values and         *)
(* capacities: type correctness, the two invariants of writer and reader,  *)
(* and the refinement of BitQueue.                                         *)
(***************************************************************************)
EXTENDS BitStream, TLAPS

\* Writer, reader and their history, together inductive.
IInv == TypeOK /\ WriterKeepsBits /\ ReaderFollows /\ PanicsOnlyWhenFull

-----------------------------------------------------------------------------
(* Lemmas about the operators.                                             *)

\* What Bytes is: the least number of bytes with room for n bits.
LEMMA BytesFacts ==
  ASSUME NEW n \in Int
  PROVE  /\ Bytes(n) \in Int
         /\ n <= 8 * Bytes(n) /\ 8 * Bytes(n) <= n + 7
         /\ n > 0 => Bytes(n) > 0
         /\ n >= 0 => Bytes(n) >= 0
         /\ n = 0 => Bytes(n) = 0
  BY DEF Bytes

\* A WriteBits that stays in the accumulator or flushes it keeps the types.
LEMMA PayloadFits ==
  ASSUME NEW n \in WriteWidths, numBits \in Nat, numBits + n <= MaxBits,
         NEW v \in Payloads(n, numBits)
  PROVE  n \in 0 .. 32 /\ v \subseteq 0 .. n - 1
  <1>1. n \in 0 .. 32 /\ numBits \in 0 .. MaxBits
    BY BitStreamAssumption
  <1>2. Payloads(n, numBits) \subseteq SUBSET (0 .. n - 1)
    BY <1>1, BitStreamAssumption
  <1> QED
    BY <1>1, <1>2

\* checkAccumulator leaves at least n bits, unless the buffer has ended.
LEMMA LoadsFacts ==
  ASSUME IInv, NEW n \in 0 .. 32
  PROVE  /\ Loads(n) \in Nat /\ rdPos + Loads(n) <= rdLen
         /\ rdAccuNumBits + 8 * Loads(n) < 40
         /\ rdAccuNumBits + 8 * Loads(n) < n => rdPos + Loads(n) = rdLen
         /\ Loads(n) > 0 => rdAccuNumBits >= 0
  <1>1. /\ rdAccuNumBits \in Int /\ rdAccuNumBits < 40
        /\ rdLen \in Nat /\ rdPos \in 0 .. rdLen
        /\ rdAccuNumBits < 0 => rdPos = rdLen
    BY DEF IInv, TypeOK, ReaderFollows
  <1>2. CASE rdAccuNumBits < n
    <2> DEFINE b == Bytes(n - rdAccuNumBits)
    <2>1. b \in Int /\ n - rdAccuNumBits <= 8 * b
          /\ 8 * b <= n - rdAccuNumBits + 7 /\ b > 0
      BY <1>1, <1>2, BytesFacts
    <2>2. Loads(n) = IF b <= rdLen - rdPos THEN b ELSE rdLen - rdPos
      BY <1>2 DEF Loads
    <2> HIDE DEF b
    <2> QED
      BY <1>1, <1>2, <2>1, <2>2
  <1>3. CASE ~(rdAccuNumBits < n)
    <2>1. Loads(n) = 0
      BY <1>1, <1>3 DEF Loads
    <2> QED
      BY <1>1, <1>3, <2>1
  <1> QED
    BY <1>2, <1>3

\* Which bits Stored, the shifts and Low leave in a set.
LEMMA RegisterFacts ==
  /\ \A r, n, i : i \in ShiftLeft(r, n) <=> i \in Register /\ i - n \in r
  /\ \A r, n, i : i \in ShiftRight(r, n) <=> i \in Register /\ i + n \in r
  /\ \A r, n, i : i \in Low(r, n) <=> i \in r /\ i < n
  BY DEF ShiftLeft, ShiftRight, Low

LEMMA StoredFacts ==
  ASSUME NEW r, NEW n
  PROVE  \A i : i \in Stored(r, n) <=>
           \/ i \in buf /\ (i < 8 * pos \/ 8 * (pos + n) <= i)
           \/ i \in 8 * pos .. 8 * (pos + n) - 1 /\ i - 8 * pos \in r
  BY DEF Stored

-----------------------------------------------------------------------------
(* The writer.                                                             *)

LEMMA CapacityStep ==
  ASSUME IInv, NEW c \in Capacities, overrun = 0, Bytes(c) > bufLen,
         SetCapacity(c)
  PROVE  IInv'
  <1>1. Bytes(c) \in Nat /\ Bytes(c) >= bufLen /\ bufLen \in Nat
    BY BitStreamAssumption, BytesFacts DEF IInv, TypeOK
  <1>2. TypeOK'
    BY <1>1 DEF SetCapacity, IInv, TypeOK, reader, reading
  <1>3. WriterKeepsBits'
    <2>1. CASE bufLen = 0
      <3>1. pos = 0 /\ buf' = {}
        BY <2>1 DEF SetCapacity, IInv, TypeOK
      <3>2. \A j \in given : ~(j < 8 * pos)
        BY <3>1 DEF IInv, TypeOK
      <3> QED
        BY <3>1, <3>2 DEF SetCapacity, IInv, WriterKeepsBits
    <2>2. CASE bufLen # 0
      BY <2>2 DEF SetCapacity, IInv, WriterKeepsBits
    <2> QED
      BY <2>1, <2>2
  <1>4. ReaderFollows'
    BY DEF SetCapacity, IInv, ReaderFollows, reader, reading
  <1>5. PanicsOnlyWhenFull'
    BY DEF SetCapacity, PanicsOnlyWhenFull
  <1> QED
    BY <1>2, <1>3, <1>4, <1>5 DEF IInv

LEMMA AccumulateStep ==
  ASSUME IInv, NEW n \in 0 .. 32, NEW v \in SUBSET (0 .. n - 1),
         Accumulate(v, n)
  PROVE  IInv'
  <1> DEFINE reg == Filled(v)
  <1>1. \A i : i \in reg <=>
          i \in accuRegister \/ (i \in Register /\ i - accuNumBits \in v)
    BY DEF Filled, ShiftLeft
  <1>2. accuRegister' = reg
    BY DEF Accumulate
  <1> HIDE DEF reg
  <1>3. \A j : j \in given' <=>
          j \in given \/ (j \in numBits .. numBits + n - 1 /\ j - numBits \in v)
    BY DEF Accumulate, Gives
  <1>4. TypeOK'
    <2>1. accuRegister' \subseteq Register
      BY <1>1, <1>2 DEF IInv, TypeOK
    <2>2. given' \subseteq 0 .. numBits' - 1
      <3>1. given' \subseteq given \cup (numBits .. numBits + n - 1)
        BY DEF Accumulate, Gives
      <3>2. /\ given \subseteq 0 .. numBits - 1 /\ numBits \in Nat
            /\ numBits' = numBits + n
        BY DEF Accumulate, IInv, TypeOK
      <3> QED
        BY <3>1, <3>2
    <2> QED
      BY <2>1, <2>2 DEF Accumulate, IInv, TypeOK, reader, reading
  <1>5. WriterKeepsBits'
    <2> USE DEF IInv, TypeOK, WriterKeepsBits, Register
    <2>1. /\ numBits' = numBits + n /\ accuNumBits' = accuNumBits + n
          /\ UNCHANGED <<buf, pos, finalized>> /\ ~finalized
      BY DEF Accumulate
    <2>2. ASSUME NEW i \in accuRegister'
          PROVE  i < accuNumBits' /\ 8 * pos' + i \in given'
      <3>1. CASE i \in accuRegister
        BY <3>1, <2>1, <1>3
      <3>2. CASE i \in Register /\ i - accuNumBits \in v
        BY <3>2, <2>1, <1>3
      <3> QED
        BY <2>2, <1>1, <1>2, <3>1, <3>2
    <2>3. ASSUME NEW j \in given'
          PROVE  IF j < 8 * pos' THEN j \in buf'
                                 ELSE j - 8 * pos' \in accuRegister'
      <3>1. CASE j \in given
        BY <3>1, <2>1, <1>1, <1>2
      <3>2. CASE j \in numBits .. numBits + n - 1 /\ j - numBits \in v
        BY <3>2, <2>1, <1>1, <1>2 DEF Accumulate
      <3> QED
        BY <2>3, <1>3, <3>1, <3>2
    <2>4. \A j \in buf' : j < 8 * pos' /\ j \in given'
      BY <2>1, <1>3
    <2> QED
      BY <2>1, <2>2, <2>3, <2>4
  <1>6. ReaderFollows'
    BY <1>3 DEF Accumulate, IInv, TypeOK, WriterKeepsBits, ReaderFollows,
                reader, reading
  <1>7. PanicsOnlyWhenFull'
    BY DEF Accumulate, IInv, PanicsOnlyWhenFull
  <1> QED
    BY <1>4, <1>5, <1>6, <1>7 DEF IInv

LEMMA FlushStep ==
  ASSUME IInv, NEW n \in 0 .. 32, NEW v \in SUBSET (0 .. n - 1), Flush(v, n)
  PROVE  IInv'
  <1> DEFINE reg == Filled(v)
  <1>1. \A i : i \in reg <=>
          i \in accuRegister \/ (i \in Register /\ i - accuNumBits \in v)
    BY DEF Filled, ShiftLeft
  <1>2. \A i : i \in accuRegister' <=> i \in Register /\ i + 32 \in reg
    BY DEF Flush, ShiftRight
  <1>3. \A i : i \in buf' <=>
          \/ i \in buf /\ (i < 8 * pos \/ 8 * (pos + 4) <= i)
          \/ i \in 8 * pos .. 8 * (pos + 4) - 1 /\ i - 8 * pos \in reg
    BY StoredFacts DEF Flush
  <1> HIDE DEF reg
  <1>4. \A j : j \in given' <=>
          j \in given \/ (j \in numBits .. numBits + n - 1 /\ j - numBits \in v)
    BY DEF Flush, Gives
  <1>5. TypeOK'
    <2>1. buf' \subseteq 0 .. 8 * bufLen' - 1
      <3>1. buf' \subseteq buf \cup (8 * pos .. 8 * (pos + 4) - 1)
        BY DEF Flush, Stored
      <3>2. /\ buf \subseteq 0 .. 8 * bufLen - 1 /\ pos \in Nat /\ bufLen \in Nat
            /\ pos + 3 < bufLen /\ bufLen' = bufLen
        BY DEF Flush, IInv, TypeOK
      <3> QED
        BY <3>1, <3>2
    <2>2. accuNumBits' \in 0 .. 31 /\ accuRegister' \subseteq Register
      BY <1>2 DEF Flush, IInv, TypeOK
    <2>3. given' \subseteq 0 .. numBits' - 1
      <3>1. given' \subseteq given \cup (numBits .. numBits + n - 1)
        BY DEF Flush, Gives
      <3>2. /\ given \subseteq 0 .. numBits - 1 /\ numBits \in Nat
            /\ numBits' = numBits + n
        BY DEF Flush, IInv, TypeOK
      <3> QED
        BY <3>1, <3>2
    <2> QED
      BY <2>1, <2>2, <2>3 DEF Flush, IInv, TypeOK, reader, reading
  <1>6. WriterKeepsBits'
    <2> USE DEF IInv, TypeOK, WriterKeepsBits, Register
    <2>1. numBits' = 8 * pos' + accuNumBits' /\ ~finalized'
      BY DEF Flush
    <2>5. \A i \in reg :
            i \in Register /\ i < accuNumBits + n /\ 8 * pos + i \in given'
      <3> SUFFICES ASSUME NEW i \in reg
                   PROVE  /\ i \in Register /\ i < accuNumBits + n
                          /\ 8 * pos + i \in given'
        OBVIOUS
      <3>1. CASE i \in accuRegister
        BY <3>1, <1>4 DEF Flush
      <3>2. CASE i \in Register /\ i - accuNumBits \in v
        BY <3>2, <1>4 DEF Flush
      <3> QED
        BY <1>1, <3>1, <3>2
    <2>2. ASSUME NEW j \in buf' PROVE j < 8 * pos' /\ j \in given'
      <3>1. CASE j \in buf /\ (j < 8 * pos \/ 8 * (pos + 4) <= j)
        BY <3>1, <1>4 DEF Flush
      <3>2. CASE j \in 8 * pos .. 8 * (pos + 4) - 1 /\ j - 8 * pos \in reg
        <4>1. 8 * pos + (j - 8 * pos) \in given'
          BY <3>2, <2>5
        <4> QED
          BY <3>2, <4>1 DEF Flush
      <3> QED
        BY <2>2, <1>3, <3>1, <3>2
    <2>3. ASSUME NEW i \in accuRegister'
          PROVE  i < accuNumBits' /\ 8 * pos' + i \in given'
      <3>1. i \in Register /\ i + 32 \in reg
        BY <2>3, <1>2
      <3>2. i + 32 < accuNumBits + n /\ 8 * pos + (i + 32) \in given'
        BY <3>1, <2>5
      <3> QED
        BY <3>1, <3>2 DEF Flush
    <2>4. ASSUME NEW j \in given'
          PROVE  IF j < 8 * pos' THEN j \in buf'
                                 ELSE j - 8 * pos' \in accuRegister'
      <3>1. CASE j \in given /\ j < 8 * pos
        BY <3>1, <1>3 DEF Flush
      <3>2. CASE j \in given /\ j >= 8 * pos
        BY <3>2, <1>1, <1>3 DEF Flush
      <3>3. CASE j \in numBits .. numBits + n - 1 /\ j - numBits \in v
        <4>1. j - 8 * pos \in reg
          BY <3>3, <1>1 DEF Flush
        <4>2. CASE j < 8 * pos + 32
          BY <3>3, <4>1, <4>2, <1>3 DEF Flush
        <4>3. CASE j >= 8 * pos + 32
          BY <3>3, <4>1, <4>3, <1>2 DEF Flush
        <4> QED
          BY <3>3, <4>2, <4>3
      <3>4. j \in Int
        BY <2>4, <1>5 DEF Flush
      <3> QED
        BY <2>4, <3>4, <1>4, <3>1, <3>2, <3>3
    <2> QED
      BY <2>1, <2>2, <2>3, <2>4
  <1>7. ReaderFollows'
    BY <1>4 DEF Flush, IInv, TypeOK, WriterKeepsBits, ReaderFollows, reader,
                reading
  <1>8. PanicsOnlyWhenFull'
    BY DEF Flush, IInv, PanicsOnlyWhenFull
  <1> QED
    BY <1>5, <1>6, <1>7, <1>8 DEF IInv

LEMMA FinalizeStep ==
  ASSUME IInv, Finalize
  PROVE  IInv'
  <1> DEFINE rest == Bytes(accuNumBits)
  <1>1. /\ rest \in Nat /\ accuNumBits <= 8 * rest /\ 8 * rest <= accuNumBits + 7
        /\ accuNumBits = 0 => rest = 0
    <2>1. accuNumBits \in Int /\ accuNumBits >= 0
      BY DEF IInv, TypeOK
    <2> QED
      BY <2>1, BytesFacts
  <1>2. /\ pos + rest <= bufLen /\ pos' = pos + rest /\ finalized'
        /\ accuNumBits' = 0 /\ accuRegister' = {}
        /\ UNCHANGED <<bufLen, numBits, given, reader, result, overrun>>
    BY DEF Finalize
  <1>3. \A i : i \in buf' <=>
          \/ i \in buf /\ (i < 8 * pos \/ 8 * (pos + rest) <= i)
          \/ i \in 8 * pos .. 8 * (pos + rest) - 1 /\ i - 8 * pos \in accuRegister
    BY StoredFacts DEF Finalize
  <1>4. TypeOK'
    <2>1. finalized' \in BOOLEAN
      BY DEF Finalize
    <2> HIDE DEF rest
    <2>2. buf' \subseteq 0 .. 8 * bufLen' - 1
      <3>1. buf' \subseteq buf \cup (8 * pos .. 8 * (pos + rest) - 1)
        BY DEF Finalize, Stored, rest
      <3>2. /\ buf \subseteq 0 .. 8 * bufLen - 1 /\ pos \in Nat /\ bufLen \in Nat
        BY DEF IInv, TypeOK
      <3> QED
        BY <1>1, <1>2, <3>1, <3>2
    <2> QED
      BY <1>1, <1>2, <2>1, <2>2 DEF IInv, TypeOK, reader, reading
  <1>5. Bytes(numBits) = pos'
    <2>1. CASE finalized
      BY <2>1, <1>1, <1>2 DEF IInv, TypeOK, WriterKeepsBits
    <2>2. CASE ~finalized
      <3>1. /\ numBits \in Int /\ pos \in Int /\ accuNumBits \in Int
            /\ numBits = 8 * pos + accuNumBits
        BY <2>2 DEF IInv, TypeOK, WriterKeepsBits
      <3> QED
        BY <1>2, <3>1 DEF Bytes
    <2> QED
      BY <2>1, <2>2
  <1>6. WriterKeepsBits'
    <2>1. Bytes(numBits') = pos'
      BY <1>2, <1>5
    <2> HIDE DEF rest
    <2> USE DEF IInv, TypeOK, WriterKeepsBits, Register
    <2>2. ASSUME NEW j \in buf' PROVE j < 8 * pos' /\ j \in given'
      <3>1. CASE j \in buf
        BY <3>1, <1>1, <1>2
      <3>2. CASE j \in 8 * pos .. 8 * (pos + rest) - 1 /\ j - 8 * pos \in accuRegister
        <4>1. 8 * pos + (j - 8 * pos) \in given
          BY <3>2
        <4> QED
          BY <3>2, <4>1, <1>1, <1>2
      <3> QED
        BY <2>2, <1>3, <3>1, <3>2
    <2>3. ASSUME NEW j \in given'
          PROVE  j < 8 * pos' /\ j \in buf'
      <3>1. CASE j < 8 * pos
        BY <2>3, <3>1, <1>1, <1>2, <1>3
      <3>2. CASE ~(j < 8 * pos)
        <4>1. j - 8 * pos \in accuRegister /\ j - 8 * pos < accuNumBits
          BY <2>3, <3>2, <1>2
        <4> QED
          BY <2>3, <3>2, <4>1, <1>1, <1>2, <1>3
      <3> QED
        BY <3>1, <3>2
    <2> QED
      BY <1>2, <2>1, <2>2, <2>3
  <1>7. ReaderFollows'
    <2> HIDE DEF rest
    <2> QED
      BY <1>1, <1>2 DEF IInv, TypeOK, ReaderFollows, reader, reading
  <1>8. PanicsOnlyWhenFull'
    BY <1>2 DEF IInv, PanicsOnlyWhenFull
  <1> QED
    BY <1>4, <1>6, <1>7, <1>8 DEF IInv

LEMMA PanicStep ==
  ASSUME IInv, NEW n \in 0 .. 32, FlushPanics(n) \/ FinalizePanics
  PROVE  IInv'
  <1>1. overrun' \in Nat /\ overrun' > 8 * bufLen
    <2>1. CASE FlushPanics(n)
      BY <2>1 DEF FlushPanics, IInv, TypeOK, WriterKeepsBits
    <2>2. CASE FinalizePanics
      <3>1. accuNumBits = 0 => Bytes(accuNumBits) = 0
        BY BytesFacts DEF IInv, TypeOK
      <3>2. ~finalized
        BY <2>2, <3>1 DEF FinalizePanics, IInv, TypeOK, WriterKeepsBits
      <3>3. 8 * Bytes(accuNumBits) <= accuNumBits + 7 /\ Bytes(accuNumBits) \in Int
        BY BytesFacts DEF IInv, TypeOK
      <3> QED
        BY <2>2, <3>2, <3>3 DEF FinalizePanics, IInv, TypeOK, WriterKeepsBits
    <2> QED
      BY <2>1, <2>2
  <1>2. UNCHANGED <<written, reader, result>>
    BY DEF FlushPanics, FinalizePanics
  <1>3. TypeOK'
    BY <1>1, <1>2 DEF IInv, TypeOK, written, reader, reading
  <1>4. WriterKeepsBits' /\ ReaderFollows'
    BY <1>2 DEF IInv, WriterKeepsBits, ReaderFollows, written, reader, reading
  <1>5. PanicsOnlyWhenFull'
    BY <1>1, <1>2 DEF PanicsOnlyWhenFull, written
  <1> QED
    BY <1>3, <1>4, <1>5 DEF IInv

-----------------------------------------------------------------------------
(* The reader.                                                             *)

\* A step that leaves the writer alone keeps its invariants.
LEMMA WriterUntouched ==
  ASSUME IInv, UNCHANGED <<written, overrun>>
  PROVE  WriterKeepsBits' /\ PanicsOnlyWhenFull'
  BY DEF IInv, WriterKeepsBits, PanicsOnlyWhenFull, written

LEMMA OpenStep ==
  ASSUME IInv, Reader \/ ResetRead
  PROVE  IInv'
  <1>1. UNCHANGED <<written, overrun>>
    BY DEF Reader, ResetRead
  <1>2. TypeOK'
    <2>1. CASE Reader
      BY <2>1 DEF Reader, IInv, TypeOK, written, Register
    <2>2. CASE ResetRead
      BY <2>2 DEF ResetRead, IInv, TypeOK, written, Register
    <2> QED
      BY <2>1, <2>2
  <1>3. ReaderFollows'
    BY DEF Reader, ResetRead, IInv, TypeOK, ReaderFollows, written
  <1> QED
    BY <1>1, <1>2, <1>3, WriterUntouched DEF IInv

LEMMA RefuseStep ==
  ASSUME IInv, NEW n \in 0 .. 32, Refuse(n)
  PROVE  IInv'
  <1>1. UNCHANGED <<written, overrun>>
    BY DEF Refuse
  <1>2. TypeOK'
    BY DEF Refuse, IInv, TypeOK, written, reader, reading
  <1>3. ReaderFollows'
    BY DEF Refuse, IInv, ReaderFollows, written, reader, reading
  <1> QED
    BY <1>1, <1>2, <1>3, WriterUntouched DEF IInv

\* The accumulator after checkAccumulator(n), before n bits are taken from it.
LEMMA LoadedFacts ==
  ASSUME IInv, NEW n \in 0 .. 32
  PROVE  /\ Loaded(n) \subseteq Register
         /\ \A i \in Loaded(n) : i < rdAccuNumBits + 8 * Loads(n)
         /\ \A i \in 0 .. 39 :
              /\ i < rdAccuNumBits + 8 * Loads(n)
              /\ readBits + i < flushed
              => (i \in Loaded(n) <=> readBits + i \in given)
  <1>1. Loads(n) \in Nat /\ rdAccuNumBits + 8 * Loads(n) < 40
    BY LoadsFacts
  <1>2. \A i : i \in Loaded(n) <=>
          \/ i \in rdAccuRegister
          \/ /\ i \in Register
             /\ rdAccuNumBits <= i /\ i < rdAccuNumBits + 8 * Loads(n)
             /\ 8 * rdPos + i - rdAccuNumBits \in buf
    BY DEF Loaded
  <1>3. Loaded(n) \subseteq Register
    BY <1>2 DEF IInv, TypeOK
  <1>4. ASSUME NEW i \in Loaded(n) PROVE i < rdAccuNumBits + 8 * Loads(n)
    <2>1. CASE i \in rdAccuRegister
      BY <2>1, <1>1 DEF IInv, TypeOK, ReaderFollows, Register
    <2> QED
      BY <2>1, <1>4, <1>2
  <1>5. ASSUME NEW i \in 0 .. 39, i < rdAccuNumBits + 8 * Loads(n),
               readBits + i < flushed
        PROVE  i \in Loaded(n) <=> readBits + i \in given
    <2>1. CASE i < rdAccuNumBits
      BY <1>2, <1>5, <2>1 DEF IInv, TypeOK, ReaderFollows
    <2>2. CASE i >= rdAccuNumBits
      <3>1. i \notin rdAccuRegister /\ i \in Register
        BY <2>2 DEF IInv, TypeOK, ReaderFollows, Register
      <3>2. 8 * rdPos + i - rdAccuNumBits = readBits + i
        BY DEF IInv, TypeOK, ReaderFollows
      <3>3. readBits + i \in buf <=> readBits + i \in given
        BY <1>5 DEF IInv, TypeOK, ReaderFollows, WriterKeepsBits
      <3> QED
        BY <1>2, <1>5, <2>2, <3>1, <3>2, <3>3
    <2> QED
      BY <2>1, <2>2 DEF IInv, TypeOK
  <1> QED
    BY <1>3, <1>4, <1>5

\* What the call returns has its n bits, and those of the buffer as written.
LEMMA ResultFacts ==
  ASSUME IInv, NEW n \in 0 .. 32, ~Refused(n)
  PROVE  /\ Low(Loaded(n), n) \subseteq 0 .. n - 1
         /\ \A i \in 0 .. n - 1 : readBits + i < flushed =>
              (i \in Low(Loaded(n), n) <=> readBits + i \in given)
  <1>1. \A i : i \in Low(Loaded(n), n) <=> i \in Loaded(n) /\ i < n
    BY DEF Low
  <1>2. Low(Loaded(n), n) \subseteq 0 .. n - 1
    BY <1>1, LoadedFacts DEF Register
  <1>3. ASSUME NEW i \in 0 .. n - 1, readBits + i < flushed
        PROVE  i < rdAccuNumBits + 8 * Loads(n)
    <2>1. CASE rdAccuNumBits + 8 * Loads(n) < n
      <3>1. rdPos + Loads(n) = rdLen /\ Loads(n) \in Nat
        BY <2>1, LoadsFacts
      <3> QED
        BY <1>3, <3>1 DEF IInv, TypeOK, ReaderFollows
    <2>2. CASE ~(rdAccuNumBits + 8 * Loads(n) < n)
      <3>1. Loads(n) \in Nat
        BY LoadsFacts
      <3> QED
        BY <2>2, <3>1 DEF IInv, TypeOK
    <2> QED
      BY <2>1, <2>2
  <1> QED
    BY <1>1, <1>2, <1>3, LoadedFacts

LEMMA PeekStep ==
  ASSUME IInv, NEW n \in 0 .. 32, PeekBits(n)
  PROVE  IInv'
  <1>1. UNCHANGED <<written, overrun>>
    BY DEF PeekBits
  <1>2. /\ Loads(n) \in Nat /\ rdPos + Loads(n) <= rdLen
        /\ rdAccuNumBits + 8 * Loads(n) < 40
        /\ rdAccuNumBits + 8 * Loads(n) < n => rdPos + Loads(n) = rdLen
    BY LoadsFacts
  <1>3. TypeOK'
    <2>1. result' \in (0 .. 32) \X SUBSET (0 .. 31)
      BY ResultFacts DEF PeekBits
    <2> QED
      BY <1>2, <2>1, LoadedFacts DEF PeekBits, IInv, TypeOK, written
  <1>4. ReaderFollows'
    <2>1. /\ rdAccuNumBits' = rdAccuNumBits + 8 * Loads(n)
          /\ rdPos' = rdPos + Loads(n) /\ rdAccuRegister' = Loaded(n)
          /\ UNCHANGED <<pos, given, rdLen, flushed, readBits>>
      BY DEF PeekBits, written
    <2>2. /\ flushed' <= 8 * pos' /\ rdAccuNumBits' = 8 * rdPos' - readBits'
          /\ rdAccuNumBits' < 40 /\ (rdAccuNumBits' < 0 => rdPos' = rdLen')
      BY <1>2, <2>1 DEF IInv, TypeOK, ReaderFollows
    <2> QED
      BY <2>1, <2>2, LoadedFacts DEF ReaderFollows
  <1> QED
    BY <1>1, <1>3, <1>4, WriterUntouched DEF IInv

LEMMA ConsumeStep ==
  ASSUME IInv, NEW n \in 0 .. 32, ReadBits(n) \/ SkipBits(n)
  PROVE  IInv'
  <1>1. UNCHANGED <<written, overrun>> /\ ~Refused(n) /\ Consume(n)
    BY DEF ReadBits, SkipBits, Consume
  <1>2. /\ Loads(n) \in Nat /\ rdPos + Loads(n) <= rdLen
        /\ rdAccuNumBits + 8 * Loads(n) < 40
        /\ rdAccuNumBits + 8 * Loads(n) < n => rdPos + Loads(n) = rdLen
    BY LoadsFacts
  <1>3. TypeOK'
    <2>1. result' \in (0 .. 32) \X SUBSET (0 .. 31)
      BY ResultFacts DEF ReadBits, SkipBits, IInv, TypeOK
    <2>2. rdAccuRegister' \subseteq Register
      BY <1>1 DEF Consume, ShiftRight
    <2> QED
      BY <1>1, <1>2, <2>1, <2>2 DEF Consume, Refused, IInv, TypeOK, written
  <1>4. ReaderFollows'
    <2>1. /\ rdAccuNumBits' = rdAccuNumBits + 8 * Loads(n) - n
          /\ rdPos' = rdPos + Loads(n) /\ readBits' = readBits + n
          /\ UNCHANGED <<written, rdLen, flushed>>
          /\ \A i : i \in rdAccuRegister' <=> i \in Register /\ i + n \in Loaded(n)
      BY <1>1 DEF Consume, ShiftRight
    <2>2. \A i \in rdAccuRegister' : i < rdAccuNumBits'
      BY <1>2, <2>1, LoadedFacts DEF IInv, TypeOK, Register
    <2>3. ASSUME NEW i \in 0 .. 39, i < rdAccuNumBits', readBits' + i < flushed'
          PROVE  i \in rdAccuRegister' <=> readBits' + i \in given'
      <3>1. i + n \in 0 .. 39 /\ i + n < rdAccuNumBits + 8 * Loads(n)
        BY <1>2, <2>1, <2>3 DEF IInv, TypeOK
      <3>2. readBits + (i + n) < flushed /\ readBits' + i = readBits + (i + n)
        BY <2>1, <2>3 DEF IInv, TypeOK
      <3>3. i + n \in Loaded(n) <=> readBits + (i + n) \in given
        BY <3>1, <3>2, LoadedFacts
      <3>4. i \in Register /\ given' = given
        BY <2>1 DEF Register, written
      <3> QED
        BY <2>1, <3>2, <3>3, <3>4
    <2>4. /\ flushed' <= 8 * pos' /\ rdAccuNumBits' = 8 * rdPos' - readBits'
          /\ rdAccuNumBits' < 40 /\ (rdAccuNumBits' < 0 => rdPos' = rdLen')
      BY <1>2, <2>1 DEF IInv, TypeOK, ReaderFollows, written
    <2> QED
      BY <2>2, <2>3, <2>4 DEF ReaderFollows
  <1> QED
    BY <1>1, <1>3, <1>4, WriterUntouched DEF IInv

-----------------------------------------------------------------------------
(* The theorems.                                                           *)

LEMMA InitIInv == Init => IInv
  <1> SUFFICES ASSUME Init PROVE IInv
    OBVIOUS
  <1>1. PICK c \in Capacities : bufLen = Bytes(c)
    BY DEF Init
  <1>2. bufLen \in Nat
    BY <1>1, BitStreamAssumption, BytesFacts
  <1>3. TypeOK
    <2>1. result \in (0 .. 32) \X SUBSET (0 .. 31)
      <3>1. 0 \in 0 .. 32 /\ {} \in SUBSET (0 .. 31)
        OBVIOUS
      <3> QED
        BY <3>1 DEF Init
    <2>2. /\ buf \subseteq 0 .. 8 * bufLen - 1 /\ given \subseteq 0 .. numBits - 1
          /\ accuRegister \subseteq Register /\ rdAccuRegister \subseteq Register
      BY DEF Init
    <2>3. /\ numBits \in Nat /\ pos \in 0 .. bufLen
          /\ accuNumBits \in 0 .. 31 /\ rdLen \in 0 .. bufLen
      BY <1>2 DEF Init
    <2>5. finalized \in BOOLEAN
      BY DEF Init
    <2>4. /\ rdNumBits \in 0 .. numBits /\ readBits \in 0 .. rdNumBits
          /\ rdPos \in 0 .. rdLen /\ rdAccuNumBits \in Int
          /\ flushed \in 0 .. 8 * rdLen /\ overrun \in Nat
      BY DEF Init
    <2> QED
      BY <1>2, <2>1, <2>2, <2>3, <2>4, <2>5 DEF TypeOK
  <1>4. WriterKeepsBits
    BY BytesFacts DEF Init, WriterKeepsBits
  <1>5. ReaderFollows
    BY DEF Init, ReaderFollows
  <1> QED
    BY <1>3, <1>4, <1>5 DEF Init, IInv, PanicsOnlyWhenFull

\* The disjuncts of Next, with the ranges of their arguments.
LEMMA NextCases ==
  ASSUME IInv, Next
  PROVE  /\ overrun = 0
         /\ \/ \E c \in Capacities : Bytes(c) > bufLen /\ SetCapacity(c)
            \/ \E n \in 0 .. 32 : \E v \in SUBSET (0 .. n - 1) :
                 Accumulate(v, n) \/ Flush(v, n) \/ FlushPanics(n)
            \/ Finalize \/ FinalizePanics
            \/ Reader \/ ResetRead
            \/ \E n \in 0 .. 32 :
                 ReadBits(n) \/ SkipBits(n) \/ PeekBits(n) \/ Refuse(n)
  <1>1. CASE \E n \in WriteWidths : \E v \in Payloads(n, numBits) :
               numBits + n <= MaxBits /\ WriteBits(v, n)
    <2>0. PICK n \in WriteWidths : \E v \in Payloads(n, numBits) :
            numBits + n <= MaxBits /\ WriteBits(v, n)
      BY <1>1
    <2>1. PICK v \in Payloads(n, numBits) :
            numBits + n <= MaxBits /\ WriteBits(v, n)
      BY <2>0
    <2>2. n \in 0 .. 32 /\ v \in SUBSET (0 .. n - 1)
      BY <2>1, PayloadFits DEF IInv, TypeOK
    <2> QED
      BY <2>1, <2>2 DEF WriteBits, Next
  <1>2. CASE \E n \in ReadWidths :
               ReadBits(n) \/ SkipBits(n) \/ PeekBits(n) \/ Refuse(n)
    BY <1>2, BitStreamAssumption DEF Next
  <1> QED
    BY <1>1, <1>2 DEF Next

LEMMA StepIInv == IInv /\ [Next]_vars => IInv'
  <1> SUFFICES ASSUME IInv, [Next]_vars PROVE IInv'
    OBVIOUS
  <1>1. CASE Next
    <2>1. ASSUME NEW c \in Capacities, Bytes(c) > bufLen, SetCapacity(c)
          PROVE  IInv'
      BY <1>1, <2>1, CapacityStep, NextCases
    <2>2. ASSUME NEW n \in 0 .. 32, NEW v \in SUBSET (0 .. n - 1),
                 Accumulate(v, n) \/ Flush(v, n) \/ FlushPanics(n)
          PROVE  IInv'
      BY <2>2, AccumulateStep, FlushStep, PanicStep
    <2>3. CASE Finalize
      BY <2>3, FinalizeStep
    <2>4. CASE FinalizePanics
      <3>1. 0 \in 0 .. 32
        OBVIOUS
      <3> QED
        BY <2>4, <3>1, PanicStep
    <2>5. CASE Reader \/ ResetRead
      BY <2>5, OpenStep
    <2>6. ASSUME NEW n \in 0 .. 32,
                 ReadBits(n) \/ SkipBits(n) \/ PeekBits(n) \/ Refuse(n)
          PROVE  IInv'
      BY <2>6, ConsumeStep, PeekStep, RefuseStep
    <2> QED
      BY <1>1, <2>1, <2>2, <2>3, <2>4, <2>5, <2>6, NextCases
  <1>2. CASE UNCHANGED vars
    BY <1>2 DEF vars, written, reader, reading, IInv, TypeOK, WriterKeepsBits,
                ReaderFollows, PanicsOnlyWhenFull
  <1> QED
    BY <1>1, <1>2

\* The invariant of writer and reader, in every reachable state.
THEOREM Inductive == Spec => []IInv
  BY InitIInv, StepIInv, PTL DEF Spec

\* No position, count or register of bitstream.go leaves its range.
THEOREM TypeCorrect == Spec => []TypeOK
  <1>1. IInv => TypeOK
    BY DEF IInv
  <1> QED
    BY <1>1, Inductive, PTL

\* WriteBits and Finalize lose, double or move no bit on its way through the
\* accumulator.
THEOREM WriterCorrect == Spec => []WriterKeepsBits
  <1>1. IInv => WriterKeepsBits
    BY DEF IInv
  <1> QED
    BY <1>1, Inductive, PTL

\* The accumulator of checkAccumulator, ReadBits, PeekBits and SkipBits has the
\* bits that come next.
THEOREM ReaderCorrect == Spec => []ReaderFollows
  <1>1. IInv => ReaderFollows
    BY DEF IInv
  <1> QED
    BY <1>1, Inductive, PTL

\* No index of WriteBits or Finalize leaves a buffer that holds all bits.
THEOREM PanicsForCause == Spec => []PanicsOnlyWhenFull
  <1>1. IInv => PanicsOnlyWhenFull
    BY DEF IInv
  <1> QED
    BY <1>1, Inductive, PTL

\* TestBit on a finalized writer has every bit written.
THEOREM TestBitCorrect == Spec => []TestBitTells
  <1>1. IInv => TestBitTells
    <2> SUFFICES ASSUME IInv, finalized, NEW p \in 0 .. 8 * bufLen + 8
                 PROVE  TestBit(p) <=> p \in given
      BY DEF TestBitTells
    <2>1. bufLen \in Nat /\ pos \in 0 .. bufLen /\ p \in Nat
      BY DEF IInv, TypeOK
    <2>2. p \in buf => p \div 8 < bufLen
      BY <2>1 DEF IInv, TypeOK
    <2>3. p \in given => p < 8 * pos
      <3>1. numBits \in Nat /\ given \subseteq 0 .. numBits - 1
        BY DEF IInv, TypeOK
      <3>2. numBits <= 8 * Bytes(numBits) /\ Bytes(numBits) = pos
        BY <3>1, BytesFacts DEF IInv, WriterKeepsBits
      <3> QED
        BY <2>1, <3>1, <3>2
    <2> QED
      BY <2>2, <2>3 DEF TestBit, IInv, WriterKeepsBits
  <1> QED
    BY <1>1, Inductive, PTL

-----------------------------------------------------------------------------
(* The refinement of BitQueue.                                             *)

Settled == IF flushed <= rdNumBits THEN flushed ELSE rdNumBits

LEMMA SettledFacts ==
  ASSUME IInv
  PROVE  Settled \in 0 .. rdNumBits /\ Settled <= flushed
  BY DEF Settled, IInv, TypeOK

LEMMA InitQueue == Init => Queue!Init
  BY DEF Init, Queue!Init

LEMMA WriteQueue ==
  ASSUME IInv, NEW n \in 0 .. 32, NEW v \in SUBSET (0 .. n - 1),
         Accumulate(v, n) \/ Flush(v, n)
  PROVE  Queue!Next
  <1>1. /\ n > 0 /\ ~finalized /\ numBits' = numBits + n /\ Gives(v, n)
        /\ UNCHANGED <<finalized, reader, result>>
    BY DEF Accumulate, Flush
  <1>2. given \subseteq given' /\ given' \ given \subseteq numBits .. numBits' - 1
    <2>1. given' = given \cup {j \in numBits .. numBits + n - 1 : j - numBits \in v}
      BY <1>1 DEF Gives
    <2>2. {j \in numBits .. numBits + n - 1 : j - numBits \in v}
            \subseteq numBits .. numBits' - 1
      <3>1. numBits' = numBits + n
        BY <1>1
      <3>2. numBits .. numBits + n - 1 = numBits .. numBits' - 1
        BY <3>1 DEF IInv, TypeOK
      <3> QED
        BY <3>2
    <2> QED
      BY <2>1, <2>2
  <1>3. Queue!Write(n)
    BY <1>1, <1>2 DEF Queue!Write, reader, reading
  <1>4. n \in 1 .. Queue!MaxWidth
    BY <1>1 DEF Queue!MaxWidth
  <1> QED
    BY <1>3, <1>4 DEF Queue!Next

LEMMA OpenQueue ==
  ASSUME IInv, Reader
  PROVE  Queue!Open
  <1>1. numBits \in Nat /\ pos \in Nat
    BY DEF IInv, TypeOK
  <1>2. /\ UNCHANGED <<numBits, given, finalized, result>>
        /\ rdNumBits' = numBits /\ readBits' = 0 /\ flushed' = 8 * pos
    BY DEF Reader, written
  <1>3. finalized => numBits <= 8 * pos
    <2>1. finalized => Bytes(numBits) = pos
      BY DEF IInv, WriterKeepsBits
    <2> QED
      BY <1>1, <2>1, BytesFacts
  <1>4. /\ Settled' \in 0 .. numBits
        /\ finalized => Settled' = numBits
    BY <1>1, <1>2, <1>3 DEF Settled
  <1> QED
    BY <1>2, <1>4 DEF Queue!Open, Settled

LEMMA ReadQueue ==
  ASSUME IInv, NEW n \in 0 .. 32,
         ReadBits(n) \/ SkipBits(n) \/ PeekBits(n) \/ Refuse(n)
  PROVE  Queue!Next
  <1>1. UNCHANGED <<numBits, given, finalized, rdNumBits, flushed>>
    BY DEF ReadBits, SkipBits, PeekBits, Refuse, Consume, written, reader
  <1>2. Refused(n) <=> ~Queue!InReach(n)
    BY DEF Refused, Queue!InReach, IInv, TypeOK
  <1>3. CASE Refuse(n)
    <2>1. Queue!Refuse(n)
      BY <1>2, <1>3 DEF Refuse, Queue!Refuse, Queue!Error, reader, reading
    <2>2. Queue!Read(n)
      BY <1>1, <2>1 DEF Queue!Read
    <2> QED
      BY <2>2 DEF Queue!Next, Queue!MaxWidth
  <1>4. ASSUME ~Refused(n), result' = <<n, Low(Loaded(n), n)>>
        PROVE  Queue!Shows(n)
    <2>1. \A i \in 0 .. n - 1 : readBits + i < Settled => readBits + i < flushed
      BY SettledFacts DEF IInv, TypeOK
    <2> QED
      BY <1>4, <2>1, ResultFacts DEF Queue!Shows, Settled
  <1>5. CASE ReadBits(n)
    <2>1. Queue!Read(n)
      BY <1>1, <1>2, <1>4, <1>5 DEF ReadBits, Consume, Queue!Read
    <2> QED
      BY <2>1 DEF Queue!Next, Queue!MaxWidth
  <1>6. CASE PeekBits(n)
    <2>1. Queue!Peek(n)
      BY <1>1, <1>2, <1>4, <1>6 DEF PeekBits, Queue!Peek
    <2> QED
      BY <2>1 DEF Queue!Next, Queue!MaxWidth
  <1>7. CASE SkipBits(n)
    <2>1. Queue!Skip(n)
      BY <1>1, <1>2, <1>7 DEF SkipBits, Consume, Queue!Skip
    <2> QED
      BY <2>1 DEF Queue!Next, Queue!MaxWidth
  <1> QED
    BY <1>3, <1>5, <1>6, <1>7

LEMMA StepQueue == IInv /\ [Next]_vars => [Queue!Next]_(Queue!vars)
  <1> SUFFICES ASSUME IInv, [Next]_vars
               PROVE  Queue!Next \/ UNCHANGED Queue!vars
    OBVIOUS
  <1>1. ASSUME UNCHANGED <<numBits, given, finalized, rdNumBits, flushed,
                           readBits, result>>
        PROVE  UNCHANGED Queue!vars
    BY <1>1 DEF Queue!vars
  <1>2. CASE UNCHANGED vars
    BY <1>1, <1>2 DEF vars, written, reader, reading
  <1>3. CASE Next
    <2>1. ASSUME NEW c \in Capacities, SetCapacity(c)
          PROVE  UNCHANGED Queue!vars
      BY <1>1, <2>1 DEF SetCapacity, reader, reading
    <2>2. ASSUME NEW n \in 0 .. 32, FlushPanics(n) \/ FinalizePanics
          PROVE  UNCHANGED Queue!vars
      BY <1>1, <2>2 DEF FlushPanics, FinalizePanics, written, reader, reading
    <2>3. CASE Finalize
      <3>1. Queue!Seal
        BY <2>3 DEF Finalize, Queue!Seal, reader, reading
      <3> QED
        BY <3>1 DEF Queue!Next
    <2>4. CASE Reader
      BY <2>4, OpenQueue DEF Queue!Next
    <2>5. CASE ResetRead
      <3>1. Queue!Rewind
        BY <2>5 DEF ResetRead, Queue!Rewind, written
      <3> QED
        BY <3>1 DEF Queue!Next
    <2>6. CASE FinalizePanics
      <3>1. 0 \in 0 .. 32
        OBVIOUS
      <3> QED
        BY <2>2, <2>6, <3>1
    <2> QED
      BY <1>3, <2>1, <2>2, <2>3, <2>4, <2>5, <2>6, NextCases, WriteQueue,
         ReadQueue
  <1> QED
    BY <1>2, <1>3

\* The bits read are the bits written, in their order: writer and reader
\* implement BitQueue.
THEOREM Implements == Spec => KeepsQueue
  BY InitQueue, StepQueue, Inductive, PTL DEF Spec, KeepsQueue, Queue!Spec

=============================================================================
