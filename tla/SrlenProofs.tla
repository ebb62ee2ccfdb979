------------------------------ MODULE SrlenProofs ------------------------------
(***************************************************************************)
(* Srlen, for data of every length and symbols of every size: its types, what *)
(* the encoder has read and written at each step, and that a stream has the *)
(* size that the analysis predicts for it, which is the least possible.  Each *)
(* argument has its invariant: TypeInv, PositionInv, SizeInv and ChoiceInv. *)
(***************************************************************************)
EXTENDS Srlen, SrlenSizeProofs

-----------------------------------------------------------------------------
(* A number and its bits.                                                  *)

LEMMA SameFunction ==
  ASSUME NEW I, NEW T, NEW f \in [I -> T], NEW g \in [I -> T],
         \A i \in I : f[i] = g[i]
  PROVE  f = g
OBVIOUS

LEMMA BitsAreBits ==
  ASSUME NEW v \in Nat, NEW n \in Nat
  PROVE  /\ Bits(v, n) \in [1 .. n -> {0, 1}]
         /\ Bits(v, n) \in Seq({0, 1}) /\ Len(Bits(v, n)) = n
<1>1. \A i \in 1 .. n : (v \div 2^(i - 1)) % 2 \in {0, 1}
  <2>1. ASSUME NEW i \in 1 .. n PROVE (v \div 2^(i - 1)) % 2 \in {0, 1}
    <3> DEFINE p == 2^(i - 1)
    <3>1. p \in Nat /\ p > 0
      BY PowerIsNatural, PowerIsPositive
    <3> HIDE DEF p
    <3>2. v \div p \in Nat
      BY <3>1
    <3>3. (v \div p) % 2 \in {0, 1}
      BY <3>2
    <3> QED
      BY <3>3 DEF p
  <2> QED
    BY <2>1
<1> QED
  BY <1>1 DEF Bits

\* The lowest bit, and the others.
LEMMA LowestBit ==
  ASSUME NEW v \in Nat, NEW n \in Nat
  PROVE  /\ Bits(v, n + 1)[1] = v % 2
         /\ \A i \in 1 .. n : Bits(v, n + 1)[i + 1] = Bits(v \div 2, n)[i]
<1>1. Bits(v, n + 1)[1] = (v \div 2^(1 - 1)) % 2
  BY DEF Bits
<1>2. 2^(1 - 1) = 1
  OBVIOUS
<1>3. v \div 1 = v
  OBVIOUS
<1>4. ASSUME NEW i \in 1 .. n
      PROVE  Bits(v, n + 1)[i + 1] = Bits(v \div 2, n)[i]
  <2>1. i - 1 \in Nat /\ (i + 1) - 1 = (i - 1) + 1 /\ i + 1 \in 1 .. n + 1
    OBVIOUS
  <2>2. Bits(v, n + 1)[i + 1] = (v \div 2^((i + 1) - 1)) % 2
    BY <2>1 DEF Bits
  <2>3. Bits(v \div 2, n)[i] = ((v \div 2) \div 2^(i - 1)) % 2
    BY DEF Bits
  <2> DEFINE p == 2^(i - 1)
  <2>4. 2^((i + 1) - 1) = 2 * p
    BY <2>1, PowerDoubles
  <2>5. p \in Nat \ {0}
    BY <2>1, PowerIsNatural, PowerIsPositive
  <2> HIDE DEF p
  <2>6. v \div (2 * p) = (v \div 2) \div p
    BY <2>5
  <2> QED
    BY <2>2, <2>3, <2>4, <2>6 DEF p
<1> QED
  BY <1>1, <1>2, <1>3, <1>4

\* Each sequence of n bits is that of exactly one number below 2^n.
LEMMA BitsOfOne ==
  ASSUME NEW n \in Nat
  PROVE  /\ \A v, w \in 0 .. 2^n - 1 : Bits(v, n) = Bits(w, n) => v = w
         /\ \A b \in [1 .. n -> {0, 1}] :
              \E v \in 0 .. 2^n - 1 : Bits(v, n) = b
<1> DEFINE One(m) == \A v, w \in 0 .. 2^m - 1 : Bits(v, m) = Bits(w, m) => v = w
           Some(m) == \A b \in [1 .. m -> {0, 1}] :
                        \E v \in 0 .. 2^m - 1 : Bits(v, m) = b
           N == {m \in Nat : One(m) /\ Some(m)}
<1>1. 0 \in N
  <2>1. 0 .. 2^0 - 1 = {0}
    OBVIOUS
  <2>2. \A b \in [1 .. 0 -> {0, 1}] : Bits(0, 0) = b
    BY DEF Bits
  <2>3. One(0)
    BY <2>1
  <2>4. Some(0)
    BY <2>1, <2>2
  <2> QED
    BY <2>3, <2>4
<1>2. ASSUME NEW m \in N PROVE m + 1 \in N
  <2> DEFINE p == 2^m
  <2>1. m \in Nat /\ One(m) /\ Some(m)
    BY <1>2
  <2>2. p \in Nat /\ 2^(m + 1) = 2 * p
    BY <2>1, PowerIsNatural, PowerDoubles
  <2>3. One(m + 1)
    <3>1. ASSUME NEW v \in 0 .. 2^(m + 1) - 1, NEW w \in 0 .. 2^(m + 1) - 1,
                 Bits(v, m + 1) = Bits(w, m + 1)
          PROVE  v = w
      <4> DEFINE v2 == v \div 2
                 w2 == w \div 2
      <4> HIDE DEF p, N, One, Some
      <4>1. v \in Nat /\ w \in Nat /\ v2 \in 0 .. p - 1 /\ w2 \in 0 .. p - 1
        BY <2>2
      <4>2. v % 2 = w % 2
        <5>1. Bits(v, m + 1)[1] = v % 2 /\ Bits(w, m + 1)[1] = w % 2
          BY <2>1, <4>1, LowestBit
        <5> QED
          BY <3>1, <5>1
      <4>3. \A i \in 1 .. m : Bits(v2, m)[i] = Bits(w2, m)[i]
        <5>1. \A i \in 1 .. m : /\ Bits(v, m + 1)[i + 1] = Bits(v2, m)[i]
                               /\ Bits(w, m + 1)[i + 1] = Bits(w2, m)[i]
          BY <2>1, <4>1, LowestBit
        <5> QED
          BY <3>1, <5>1
      <4> HIDE DEF v2, w2
      <4>4. Bits(v2, m) = Bits(w2, m)
        BY <2>1, <4>1, <4>3, BitsAreBits
      <4>5. v2 = w2
        BY <2>1, <4>1, <4>4 DEF p, One
      <4>6. v = 2 * v2 + (v % 2) /\ w = 2 * w2 + (w % 2)
        BY <4>1 DEF v2, w2
      <4> QED
        BY <4>2, <4>5, <4>6
    <3> QED
      BY <3>1
  <2>4. Some(m + 1)
    <3>1. ASSUME NEW b \in [1 .. m + 1 -> {0, 1}]
          PROVE  \E v \in 0 .. 2^(m + 1) - 1 : Bits(v, m + 1) = b
      <4> DEFINE c == [i \in 1 .. m |-> b[i + 1]]
      <4>1. c \in [1 .. m -> {0, 1}]
        BY <2>1
      <4>2. PICK u \in 0 .. p - 1 : Bits(u, m) = c
        BY <2>1, <4>1
      <4> DEFINE v == 2 * u + b[1]
      <4> HIDE DEF p, N, One, Some
      <4>3. b[1] \in {0, 1}
        BY <2>1
      <4>4. u \in Nat /\ v \in 0 .. 2^(m + 1) - 1 /\ v \div 2 = u
            /\ v % 2 = b[1]
        BY <2>2, <4>3
      <4> HIDE DEF v
      <4>0. v \in Nat /\ m + 1 \in Nat
        BY <2>1, <2>2, <4>4
      <4>5. Bits(v, m + 1)[1] = b[1]
        <5>1. Bits(v, m + 1)[1] = v % 2
          BY <2>1, <4>0, LowestBit
        <5> QED
          BY <4>4, <5>1
      <4>6. ASSUME NEW i \in 2 .. m + 1 PROVE Bits(v, m + 1)[i] = b[i]
        <5>1. i - 1 \in 1 .. m /\ (i - 1) + 1 = i
          BY <2>1
        <5>2. Bits(v, m + 1)[(i - 1) + 1] = Bits(u, m)[i - 1]
          BY <2>1, <4>0, <4>4, <5>1, LowestBit
        <5>3. Bits(u, m)[i - 1] = b[(i - 1) + 1]
          BY <4>2, <5>1
        <5> QED
          BY <5>1, <5>2, <5>3
      <4>7. \A i \in 1 .. m + 1 : i = 1 \/ i \in 2 .. m + 1
        BY <2>1
      <4>8. \A i \in 1 .. m + 1 : Bits(v, m + 1)[i] = b[i]
        BY <4>5, <4>6, <4>7
      <4>9. Bits(v, m + 1) \in [1 .. m + 1 -> {0, 1}]
        BY <4>0, BitsAreBits
      <4>10. Bits(v, m + 1) = b
        <5>1. b \in [1 .. m + 1 -> {0, 1}]
          OBVIOUS
        <5>2. \A f, g \in [1 .. m + 1 -> {0, 1}] :
                (\A i \in 1 .. m + 1 : f[i] = g[i]) => f = g
          BY SameFunction
        <5> QED
          BY <4>8, <4>9, <5>1, <5>2
      <4> QED
        BY <4>4, <4>10
    <3> QED
      BY <3>1
  <2> HIDE DEF One, Some
  <2> QED
    BY <2>1, <2>3, <2>4
<1> HIDE DEF N
<1>3. N = Nat
  BY <1>1, <1>2, Induction DEF N
<1> QED
  BY <1>3 DEF N

LEMMA ValueOfBits ==
  ASSUME NEW n \in Nat, NEW v \in 0 .. 2^n - 1
  PROVE  Value(Bits(v, n)) = v
<1>1. 2^n \in Nat
  BY PowerIsNatural
<1>2. v \in Nat
  BY <1>1
<1>3. Len(Bits(v, n)) = n
  BY <1>2, BitsAreBits
<1>4. Value(Bits(v, n)) = CHOOSE w \in 0 .. 2^n - 1 : Bits(w, n) = Bits(v, n)
  BY <1>3 DEF Value
<1> QED
  BY <1>4, BitsOfOne

LEMMA ValueIsNatural ==
  ASSUME NEW n \in Nat, NEW b \in [1 .. n -> {0, 1}]
  PROVE  Value(b) \in 0 .. 2^n - 1 /\ Bits(Value(b), n) = b
<1>1. Len(b) = n
  OBVIOUS
<1>2. \E v \in 0 .. 2^n - 1 : Bits(v, n) = b
  BY BitsOfOne
<1> QED
  BY <1>1, <1>2 DEF Value

-----------------------------------------------------------------------------
(* Reading a stream.                                                       *)

\* A field is a number of its width, also where the buffer has ended.
LEMMA FieldIsNatural ==
  ASSUME NEW src \in Seq({0, 1}), NEW p \in Nat, NEW n \in Nat
  PROVE  Field(src, p, n) \in 0 .. 2^n - 1
<1> DEFINE b == [i \in 1 .. n |-> IF p + i <= Len(src) THEN src[p + i] ELSE 0]
<1>1. ASSUME NEW i \in 1 .. n
      PROVE  (IF p + i <= Len(src) THEN src[p + i] ELSE 0) \in {0, 1}
  <2>1. p + i <= Len(src) => p + i \in 1 .. Len(src)
    BY LenProperties
  <2> QED
    BY <2>1, ElementOfSeq
<1>2. b \in [1 .. n -> {0, 1}]
  BY <1>1
<1> HIDE DEF b
<1>3. Value(b) \in 0 .. 2^n - 1
  BY <1>2, ValueIsNatural
<1> QED
  BY <1>3 DEF Field, b

LEMMA FieldOfBits ==
  ASSUME NEW src, NEW p \in Nat, NEW n \in Nat, NEW v \in 0 .. 2^n - 1,
         p + n <= Len(src), Len(src) \in Nat,
         \A i \in 1 .. n : src[p + i] = Bits(v, n)[i]
  PROVE  Field(src, p, n) = v
<1> DEFINE b == [i \in 1 .. n |-> IF p + i <= Len(src) THEN src[p + i] ELSE 0]
           c == Bits(v, n)
<1>1. v \in Nat
  BY PowerIsNatural
<1>2. c \in [1 .. n -> {0, 1}] /\ Value(c) = v
  BY <1>1, BitsAreBits, ValueOfBits
<1>3. \A i \in 1 .. n : (IF p + i <= Len(src) THEN src[p + i] ELSE 0) = c[i]
  OBVIOUS
<1> HIDE DEF c
<1>4. b = c
  BY <1>2, <1>3
<1> QED
  BY <1>2, <1>4 DEF Field

\* What is written later does not change a field.
LEMMA FieldStays ==
  ASSUME NEW src \in Seq({0, 1}), NEW more \in Seq({0, 1}),
         NEW p \in Nat, NEW n \in Nat, p + n <= Len(src)
  PROVE  Field(src \o more, p, n) = Field(src, p, n)
<1>1. /\ Len(src) \in Nat /\ Len(more) \in Nat
      /\ Len(src \o more) = Len(src) + Len(more)
      /\ \A i \in 1 .. Len(src) + Len(more) : (src \o more)[i] =
           IF i <= Len(src) THEN src[i] ELSE more[i - Len(src)]
  BY ConcatProperties, LenProperties
<1>2. ASSUME NEW i \in 1 .. n
      PROVE  (IF p + i <= Len(src \o more) THEN (src \o more)[p + i] ELSE 0)
               = (IF p + i <= Len(src) THEN src[p + i] ELSE 0)
  <2>1. p + i \in 1 .. Len(src) + Len(more) /\ p + i <= Len(src)
        /\ p + i <= Len(src \o more)
    BY <1>1
  <2> QED
    BY <1>1, <2>1
<1>3. [i \in 1 .. n |-> IF p + i <= Len(src \o more) THEN (src \o more)[p + i] ELSE 0]
      = [i \in 1 .. n |-> IF p + i <= Len(src) THEN src[p + i] ELSE 0]
  BY <1>2, Zenon
<1> QED
  BY <1>3 DEF Field

LEMMA SymbolsAreNatural ==
  /\ SymbolBits \in Nat /\ SymbolBits > 0
  /\ 2^SymbolBits \in Nat /\ 2^SymbolBits > 0
  /\ 0 \in Symbols /\ Symbols \subseteq Nat
<1>1. SymbolBits \in Nat /\ SymbolBits > 0
  BY SrlenAssumption
<1> QED
  BY <1>1, PowerIsNatural, PowerIsPositive DEF Symbols

\* The run at the reader has a symbol at least, and does not pass the end.
LEMMA RunIsThere ==
  ASSUME numBits \in Nat, readBits \in 0 .. numBits, ~IsReadEnd
  PROVE  LET left == (numBits - readBits) \div SymbolBits
         IN  /\ left \in Nat /\ RunHere \in 1 .. left
             /\ readBits + RunHere * SymbolBits <= numBits
             /\ \A k \in 0 .. RunHere - 1 :
                  SymbolAt(data, k) = SymbolAt(data, 0)
             /\ RunHere < left => SymbolAt(data, RunHere) # SymbolAt(data, 0)
<1> DEFINE left == (numBits - readBits) \div SymbolBits
           others == {k \in 1 .. left - 1 : SymbolAt(data, k) # SymbolAt(data, 0)}
<1>1. SymbolBits \in Nat \ {0}
  BY SrlenAssumption
<1>2. numBits - readBits \in Nat /\ numBits - readBits >= SymbolBits
  BY <1>1 DEF IsReadEnd
<1>3. left \in Nat /\ left >= 1 /\ left * SymbolBits <= numBits - readBits
  BY <1>1, <1>2
<1>4. RunHere = IF others = {} THEN left ELSE Min(others)
  BY DEF RunHere
<1> HIDE DEF left
<1>5. others \in SUBSET Nat /\ others \subseteq 1 .. left - 1
  BY <1>3
<1>6. others # {} => Min(others) \in others /\ \A k \in others : Min(others) <= k
  BY <1>5, MinIsLeast
<1>7. RunHere \in 1 .. left
  BY <1>3, <1>4, <1>5, <1>6
<1>8. \A k \in 1 .. RunHere - 1 : k \notin others /\ k \in 1 .. left - 1
  BY <1>3, <1>4, <1>5, <1>6, <1>7
<1>9. RunHere < left => RunHere \in others
  BY <1>3, <1>4, <1>6, <1>7
<1>10. RunHere * SymbolBits <= left * SymbolBits
  BY <1>1, <1>3, <1>7
<1>11. \A k \in 0 .. RunHere - 1 : k = 0 \/ k \in 1 .. RunHere - 1
  BY <1>7
<1>12. \A k \in 0 .. RunHere - 1 : SymbolAt(data, k) = SymbolAt(data, 0)
  BY <1>8, <1>11, Zenon
<1>13. readBits + RunHere * SymbolBits <= numBits
  BY <1>1, <1>2, <1>3, <1>7, <1>10
<1> QED
  BY <1>3, <1>7, <1>9, <1>12, <1>13 DEF left

-----------------------------------------------------------------------------
(* Types.                                                                  *)

\* A run is under way, and a stream decoded, only with a width for each symbol.
TypeInv ==
  /\ TypeOK
  /\ phase \in {"decode", "read"} \/ remain # 0 => DOMAIN rb = Symbols

LEMMA DataIsBits == ASSUME TypeOK PROVE data \in Seq({0, 1})
BY SrlenAssumption DEF TypeOK

LEMMA SymbolIsSymbol ==
  ASSUME NEW src \in Seq({0, 1}), readBits \in Nat, NEW k \in Nat
  PROVE  SymbolAt(src, k) \in Symbols
<1>1. readBits + k * SymbolBits \in Nat
  BY SymbolsAreNatural
<1> QED
  BY <1>1, SymbolsAreNatural, FieldIsNatural DEF SymbolAt, Symbols

LEMMA WidthsArePowers ==
  ASSUME NEW w \in Widths
  PROVE  w \in Nat /\ w <= 5 /\ 2^w \in Nat /\ 2^w > 0
BY PowerIsNatural, PowerIsPositive DEF Widths

LEMMA ReaderIsNatural ==
  ASSUME TypeOK, NEW limit \in Nat
  PROVE  Reader(limit) \in Nat
BY DataIsBits, LenProperties DEF Reader

LEMMA TypeStarts == Init => TypeInv
<1> SUFFICES ASSUME Init PROVE TypeInv
  OBVIOUS
<1>1. data \in Inputs /\ givenRb \in GivenRbs /\ data \in Seq({0, 1})
  BY SrlenAssumption DEF Init
<1>2. Len(data) \in Nat
  BY <1>1, LenProperties
<1>3. Reader(PrepareBits) \in Nat /\ Reader(EncodeBits) \in Nat
  BY <1>2, SrlenAssumption DEF Reader
<1>4. numBits \in Nat /\ phase \in Phases /\ readBits = 0
      /\ phase \notin {"decode", "read"}
  BY <1>3 DEF Init, Phases
<1>5. DOMAIN rb = Symbols => rb \in [Symbols -> Widths]
  <2>1. CASE givenRb = Nil
    BY <2>1 DEF Init, Widths
  <2>2. CASE givenRb # Nil
    BY <2>2, <1>1, GivenRbsAssumption DEF Init
  <2> QED
    BY <2>1, <2>2
<1>6. hists \in [Symbols -> [Widths -> Nat]]
  BY DEF Init
<1>7. symbol \in Symbols /\ remain = 0 /\ out = <<>> /\ back = <<>>
  BY SymbolsAreNatural DEF Init
<1> QED
  BY <1>1, <1>4, <1>5, <1>6, <1>7 DEF TypeInv, TypeOK

LEMMA TypeAnalyse == TypeInv /\ Analyse => TypeInv'
<1> SUFFICES ASSUME TypeInv, Analyse PROVE TypeInv'
  OBVIOUS
<1> DEFINE s == SymbolAt(data, 0)
           h == [w \in Widths |-> hists[s][w] + RunSize(SymbolBits, RunHere, w)]
<1>1. /\ phase = "analyse" /\ ~IsReadEnd /\ hists' = [hists EXCEPT ![s] = h]
      /\ readBits' = readBits + RunHere * SymbolBits
      /\ UNCHANGED <<result, phase, numBits, rb, symbol, remain, out, back>>
  BY DEF Analyse
<1>2. TypeOK
  BY DEF TypeInv
<1>3. numBits \in Nat /\ readBits \in 0 .. numBits
      /\ hists \in [Symbols -> [Widths -> Nat]]
  BY <1>2 DEF TypeOK
<1>4. s \in Symbols
  BY <1>2, <1>3, DataIsBits, SymbolIsSymbol
<1>5. RunHere \in Nat /\ readBits + RunHere * SymbolBits <= numBits
  BY <1>1, <1>3, RunIsThere
<1>6. readBits' \in 0 .. numBits
  BY <1>1, <1>3, <1>5, SymbolsAreNatural
<1>7. \A w \in Widths : hists[s][w] + RunSize(SymbolBits, RunHere, w) \in Nat
  <2>1. ASSUME NEW w \in Widths
        PROVE  hists[s][w] + RunSize(SymbolBits, RunHere, w) \in Nat
    <3>1. RunSize(SymbolBits, RunHere, w) \in Nat
      BY <1>5, SymbolsAreNatural, WidthsArePowers, RunSizeIsNatural
    <3>2. hists[s][w] \in Nat
      BY <1>3, <1>4
    <3> QED
      BY <3>1, <3>2
  <2> QED
    BY <2>1
<1>8. h \in [Widths -> Nat]
  BY <1>7
<1> HIDE DEF h, s
<1>9. hists' \in [Symbols -> [Widths -> Nat]]
  BY <1>1, <1>3, <1>4, <1>8
<1> QED
  BY <1>1, <1>6, <1>9 DEF TypeInv, TypeOK, result

LEMMA TypeChoose == TypeInv /\ Choose => TypeInv'
<1> SUFFICES ASSUME TypeInv, Choose PROVE TypeInv'
  OBVIOUS
<1>1. TypeOK /\ hists \in [Symbols -> [Widths -> Nat]]
  BY DEF TypeInv, TypeOK
<1>2. ASSUME NEW s \in Symbols PROVE BestRb(hists[s]) \in Widths
  BY <1>1, BestRbIsBest
<1>3. rb' \in [Symbols -> Widths]
  BY <1>2 DEF Choose
<1>4. Reader(EncodeBits) \in Nat
  BY <1>1, ReaderIsNatural, SrlenAssumption
<1>5. numBits' \in Nat /\ readBits' = 0 /\ phase' \in Phases
  BY <1>4 DEF Choose, Phases
<1>6. UNCHANGED <<result, hists, symbol, remain, out, back>>
  BY DEF Choose
<1> QED
  BY <1>3, <1>5, <1>6 DEF TypeInv, TypeOK, result

LEMMA TypeEncode ==
  TypeInv /\ (RejectRb \/ EncodeRun \/ EncodeChunk) => TypeInv'
<1> SUFFICES ASSUME TypeInv, RejectRb \/ EncodeRun \/ EncodeChunk PROVE TypeInv'
  OBVIOUS
<1>1. TypeOK /\ numBits \in Nat /\ readBits \in 0 .. numBits
  BY DEF TypeInv, TypeOK
<1>2. CASE RejectRb
  BY <1>2 DEF RejectRb, TypeInv, TypeOK, result, Phases
<1>3. CASE EncodeRun
  <2>1. symbol' \in Symbols
    BY <1>1, <1>3, DataIsBits, SymbolIsSymbol DEF EncodeRun
  <2>2. RunHere \in Nat /\ readBits + RunHere * SymbolBits <= numBits
    BY <1>1, <1>3, RunIsThere DEF EncodeRun
  <2>3. remain' \in Nat /\ readBits' \in 0 .. numBits
    BY <1>1, <1>3, <2>2, SymbolsAreNatural DEF EncodeRun
  <2>4. /\ DOMAIN rb = Symbols
        /\ UNCHANGED <<result, phase, numBits, hists, rb, out, back>>
    BY <1>3 DEF EncodeRun
  <2> QED
    BY <2>1, <2>3, <2>4 DEF TypeInv, TypeOK, result
<1>4. CASE EncodeChunk
  <2> DEFINE chunk == Smaller(remain, 2^rb[symbol])
  <2>1. /\ phase = "encode" /\ remain > 0 /\ remain' = remain - chunk
        /\ out' = out \o Bits(symbol, SymbolBits) \o Bits(chunk - 1, rb[symbol])
        /\ UNCHANGED <<result, phase, numBits, readBits, hists, rb, symbol,
                       back>>
    BY <1>4 DEF EncodeChunk, Write
  <2>2. /\ remain \in Nat /\ DOMAIN rb = Symbols /\ symbol \in Symbols
        /\ symbol \in Nat /\ rb[symbol] \in Widths /\ out \in Seq({0, 1})
    BY <2>1, SymbolsAreNatural DEF TypeInv, TypeOK
  <2>3. chunk \in 1 .. remain
    BY <2>1, <2>2, WidthsArePowers DEF Smaller
  <2> HIDE DEF chunk
  <2>4. chunk - 1 \in Nat
    BY <2>2, <2>3
  <2>5. /\ Bits(symbol, SymbolBits) \in Seq({0, 1})
        /\ Bits(chunk - 1, rb[symbol]) \in Seq({0, 1})
    BY <2>2, <2>4, BitsAreBits, SymbolsAreNatural, WidthsArePowers
  <2>6. out' \in Seq({0, 1})
    BY <2>1, <2>2, <2>5, ConcatProperties
  <2>7. remain' \in Nat
    BY <2>1, <2>2, <2>3
  <2> QED
    BY <2>1, <2>2, <2>6, <2>7 DEF TypeInv, TypeOK, result
<1> QED
  BY <1>2, <1>3, <1>4

LEMMA TypeEncodeEnds ==
  ASSUME TypeInv, NEW n \in Arrived, NEW d \in {"decode", "read"},
         EncodeEnds(n, d)
  PROVE  TypeInv'
<1>1. Len(out) \in Nat
  BY LenProperties DEF TypeInv, TypeOK
<1>2. n \in Nat
  BY <1>1 DEF Arrived
<1>3. /\ phase' \in Phases /\ numBits' = n /\ readBits' = 0
      /\ DOMAIN rb = Symbols
      /\ UNCHANGED <<result, hists, rb, symbol, remain, out, back>>
  BY DEF EncodeEnds, Phases
<1> QED
  BY <1>2, <1>3 DEF TypeInv, TypeOK, result

\* The width of the code under the reader of the stream.
LEMMA CodeIsTyped ==
  ASSUME TypeInv, phase \in {"decode", "read"}
  PROVE  /\ SymbolAt(out, 0) \in Symbols /\ RunBits \in Widths
         /\ RunBits \in Nat
         /\ RunField \in 0 .. 2^RunBits - 1 /\ RunField \in Nat
<1>1. /\ DOMAIN rb = Symbols /\ rb \in [Symbols -> Widths]
      /\ out \in Seq({0, 1}) /\ readBits \in Nat
  BY DEF TypeInv, TypeOK
<1>2. SymbolAt(out, 0) \in Symbols
  BY <1>1, SymbolIsSymbol
<1>3. RunBits \in Widths /\ RunBits \in Nat /\ 2^RunBits \in Nat
  BY <1>1, <1>2, WidthsArePowers DEF RunBits
<1>4. readBits + SymbolBits \in Nat
  BY <1>1, SymbolsAreNatural
<1>5. RunField \in 0 .. 2^RunBits - 1
  BY <1>1, <1>3, <1>4, FieldIsNatural DEF RunField
<1> QED
  BY <1>2, <1>3, <1>5

LEMMA TypeDecode == TypeInv /\ (DecodeCode \/ DecodeFails) => TypeInv'
<1> SUFFICES ASSUME TypeInv, DecodeCode \/ DecodeFails PROVE TypeInv'
  OBVIOUS
<1>1. /\ TypeOK /\ numBits \in Nat /\ readBits \in 0 .. numBits
      /\ phase = "decode"
      /\ back \in Seq(Symbols)
  BY DEF TypeInv, TypeOK, DecodeCode, DecodeFails
<1>2. CASE DecodeFails
  BY <1>2 DEF DecodeFails, TypeInv, TypeOK, result, Phases
<1>3. CASE DecodeCode
  <2> DEFINE n == IF RunBits = 0 THEN 1 ELSE RunField + 1
  <2>1. /\ SymbolAt(out, 0) \in Symbols /\ RunBits \in Nat /\ RunField \in Nat
    BY <1>1, CodeIsTyped
  <2>2. /\ ~IsReadEnd /\ (RunBits = 0 \/ ~RunIsMissing)
        /\ back' = back \o Run(RunField + 1)
        /\ readBits' = readBits + SymbolBits + RunBits
        /\ UNCHANGED <<result, phase, numBits, hists, rb, symbol, remain, out>>
    BY <1>3 DEF DecodeCode
  <2>3. readBits' \in 0 .. numBits
    BY <1>1, <2>1, <2>2, SymbolsAreNatural DEF IsReadEnd, RunIsMissing
  <2>4. Run(RunField + 1) \in [1 .. n -> Symbols] /\ n \in Nat
    BY <2>1 DEF Run
  <2> HIDE DEF n
  <2>5. Run(RunField + 1) \in Seq(Symbols)
    BY <2>4, SeqDef
  <2>6. back' \in Seq(Symbols)
    BY <1>1, <2>2, <2>5, ConcatProperties
  <2> QED
    BY <2>2, <2>3, <2>6 DEF TypeInv, TypeOK, result
<1> QED
  BY <1>2, <1>3

LEMMA TypeRead == TypeInv /\ (ReadRepeats \/ ReadCode) => TypeInv'
<1> SUFFICES ASSUME TypeInv, ReadRepeats \/ ReadCode PROVE TypeInv'
  OBVIOUS
<1>1. /\ TypeOK /\ numBits \in Nat /\ readBits \in 0 .. numBits
      /\ phase = "read"
      /\ back \in Seq(Symbols) /\ DOMAIN rb = Symbols /\ symbol \in Symbols
      /\ remain \in Nat \cup {-1}
  BY DEF TypeInv, TypeOK, ReadRepeats, ReadCode
<1>2. CASE ReadRepeats
  <2>1. /\ remain > 0 /\ remain' = remain - 1 /\ back' = Append(back, symbol)
        /\ UNCHANGED <<result, phase, numBits, readBits, hists, rb, symbol,
                       out>>
    BY <1>2 DEF ReadRepeats
  <2>2. remain' \in Nat /\ back' \in Seq(Symbols)
    BY <1>1, <2>1, AppendProperties
  <2> QED
    BY <1>1, <2>1, <2>2 DEF TypeInv, TypeOK, result
<1>3. CASE ReadCode
  <2>1. SymbolAt(out, 0) \in Symbols /\ RunBits \in Nat /\ RunField \in Nat
    BY <1>1, CodeIsTyped
  <2>2. /\ symbol' = SymbolAt(out, 0) /\ back' = Append(back, symbol')
        /\ ~IsReadEnd
        /\ UNCHANGED <<result, phase, numBits, hists, rb, out>>
    BY <1>3 DEF ReadCode
  <2>3. symbol' \in Symbols /\ back' \in Seq(Symbols)
    BY <1>1, <2>1, <2>2, AppendProperties
  <2>4. remain' \in Nat \cup {-1}
    BY <1>1, <1>3, <2>1 DEF ReadCode
  <2>5. readBits' \in 0 .. numBits
    BY <1>1, <1>3, <2>1, <2>2, SymbolsAreNatural
    DEF ReadCode, IsReadEnd, RunIsMissing
  <2> QED
    BY <1>1, <2>2, <2>3, <2>4, <2>5 DEF TypeInv, TypeOK, result
<1> QED
  BY <1>2, <1>3

\* The types, and that widths are there when they are used (Encode, Decode and
\* ReadSymbol never index the widths beyond their end).
LEMMA TypeInductive == Spec => []TypeInv
<1>1. TypeInv /\ [Next]_vars => TypeInv'
  <2> SUFFICES ASSUME TypeInv, [Next]_vars PROVE TypeInv'
    OBVIOUS
  <2>1. CASE Analyse
    BY <2>1, TypeAnalyse
  <2>2. CASE Choose
    BY <2>2, TypeChoose
  <2>3. CASE RejectRb \/ EncodeRun \/ EncodeChunk
    BY <2>3, TypeEncode
  <2>4. CASE \E n \in Arrived, d \in {"decode", "read"} : EncodeEnds(n, d)
    BY <2>4, TypeEncodeEnds
  <2>5. CASE DecodeCode \/ DecodeFails
    BY <2>5, TypeDecode
  <2>6. CASE ReadRepeats \/ ReadCode
    BY <2>6, TypeRead
  <2>7. CASE DecodeEnds
    BY <2>7 DEF DecodeEnds, TypeInv, TypeOK, result, Phases
  <2>8. CASE UNCHANGED vars
    BY <2>8 DEF vars, result, TypeInv, TypeOK
  <2> QED
    BY <2>1, <2>2, <2>3, <2>4, <2>5, <2>6, <2>7, <2>8 DEF Next
<1> QED
  BY <1>1, TypeStarts, PTL DEF Spec

\* The widths are there when they are used, and each value has its type (Encode,
\* Decode, ReadSymbol), for data and given run bit lengths of every kind.
THEOREM TypeCorrect == Spec => []TypeOK
<1>1. TypeInv => TypeOK
  BY DEF TypeInv
<1> QED
  BY <1>1, TypeInductive, PTL

-----------------------------------------------------------------------------
(* The source, and its runs.                                               *)

LEMMA SourceIsSymbols ==
  ASSUME TypeOK
  PROVE  /\ Source \in Seq(Symbols) /\ Len(Source) = Len(data) \div SymbolBits
         /\ Len(Source) \in Nat /\ Len(data) \in Nat
         /\ \A k \in 1 .. Len(Source) :
              /\ Source[k] = Field(data, (k - 1) * SymbolBits, SymbolBits)
              /\ Source[k] \in Symbols
<1> DEFINE len == Len(data) \div SymbolBits
           sym(k) == Field(data, (k - 1) * SymbolBits, SymbolBits)
<1>1. data \in Seq({0, 1}) /\ Len(data) \in Nat
  BY DataIsBits, LenProperties
<1>2. len \in Nat
  BY <1>1, SymbolsAreNatural
<1>3. \A k \in 1 .. len : sym(k) \in Symbols
  <2>1. ASSUME NEW k \in 1 .. len PROVE sym(k) \in Symbols
    <3>1. (k - 1) * SymbolBits \in Nat
      BY <1>2, SymbolsAreNatural
    <3> QED
      BY <1>1, <3>1, SymbolsAreNatural, FieldIsNatural DEF Symbols
  <2> QED
    BY <2>1
<1> HIDE DEF len, sym
<1>4. Source = [k \in 1 .. len |-> sym(k)]
  BY DEF Source, len, sym
<1>5. Source \in [1 .. len -> Symbols]
  BY <1>3, <1>4
<1>6. Source \in Seq(Symbols) /\ Len(Source) = len
  BY <1>2, <1>5, SeqDef
<1> QED
  BY <1>1, <1>2, <1>3, <1>4, <1>6 DEF len, sym

\* What the encoder sees at a symbol of the source.
LEMMA RunOfSource ==
  ASSUME TypeOK, numBits = Len(data),
         NEW k \in Nat, readBits = k * SymbolBits
  PROVE  /\ k <= Len(Source) /\ (IsReadEnd <=> k = Len(Source))
         /\ ~IsReadEnd =>
              /\ RunHere \in Nat \ {0} /\ k + RunHere <= Len(Source)
              /\ SymbolAt(data, 0) = Source[k + 1]
              /\ \A j \in k + 1 .. k + RunHere : Source[j] = Source[k + 1]
              /\ k + RunHere < Len(Source) =>
                   Source[k + RunHere + 1] # Source[k + RunHere]
<1> DEFINE len == Len(Source)
           b   == SymbolBits
           d   == Len(data)
<1>1. b \in Nat /\ b > 0 /\ d \in Nat /\ len = d \div b /\ len \in Nat
      /\ k * b <= d /\ readBits \in 0 .. d
  BY SymbolsAreNatural, SourceIsSymbols DEF TypeOK
<1>2. \A j \in 1 .. len : Source[j] = Field(data, (j - 1) * b, b)
  BY SourceIsSymbols
<1>3. IsReadEnd <=> d - k * b < b
  BY DEF IsReadEnd
<1>4. \A j : SymbolAt(data, j) = Field(data, k * b + j * b, b)
  BY DEF SymbolAt
<1> HIDE DEF len, b, d
<1>5. (d - k * b) \div b = len - k /\ k <= len
  BY <1>1
<1>6. d - k * b < b <=> k = len
  BY <1>1, <1>5
<1>7. ASSUME NEW j \in Nat, k + j + 1 <= len
      PROVE  SymbolAt(data, j) = Source[k + j + 1]
  <2>1. k + j + 1 \in 1 .. len /\ (k + j + 1) - 1 = k + j
    BY <1>1, <1>7
  <2>2. (k + j) * b = k * b + j * b
    BY <1>1
  <2> QED
    BY <1>2, <1>4, <2>1, <2>2
<1>8. ASSUME ~IsReadEnd
      PROVE  /\ RunHere \in Nat \ {0} /\ k + RunHere <= len
             /\ SymbolAt(data, 0) = Source[k + 1]
             /\ \A j \in k + 1 .. k + RunHere : Source[j] = Source[k + 1]
             /\ k + RunHere < len => Source[k + RunHere + 1] # Source[k + RunHere]
  <2> DEFINE n == RunHere
  <2>1. numBits \in Nat /\ readBits \in 0 .. numBits
    BY <1>1 DEF d
  <2>2. (numBits - readBits) \div SymbolBits = len - k
    BY <1>5 DEF d, b
  <2>3. /\ n \in 1 .. len - k
        /\ \A j \in 0 .. n - 1 : SymbolAt(data, j) = SymbolAt(data, 0)
        /\ n < len - k => SymbolAt(data, n) # SymbolAt(data, 0)
    BY <1>8, <2>1, <2>2, RunIsThere
  <2> HIDE DEF n
  <2>4. n \in Nat \ {0} /\ k + n <= len
    BY <1>1, <2>3
  <2>5. SymbolAt(data, 0) = Source[k + 1]
    BY <1>7, <1>1, <2>4, k + 0 + 1 = k + 1
  <2>6. ASSUME NEW j \in k + 1 .. k + n PROVE Source[j] = Source[k + 1]
    <3> DEFINE i == j - k - 1
    <3>1. i \in Nat /\ i \in 0 .. n - 1 /\ k + i + 1 = j /\ k + i + 1 <= len
      BY <1>1, <2>4
    <3>2. SymbolAt(data, i) = Source[k + i + 1]
      BY <1>7, <3>1
    <3> HIDE DEF i
    <3> QED
      BY <2>3, <2>5, <3>1, <3>2
  <2>7. ASSUME k + n < len PROVE Source[k + n + 1] # Source[k + n]
    <3>1. n < len - k /\ k + n + 1 <= len /\ n \in Nat
      BY <1>1, <2>4, <2>7
    <3>2. SymbolAt(data, n) = Source[k + n + 1]
      BY <1>7, <3>1
    <3>3. Source[k + n + 1] # Source[k + 1]
      BY <2>3, <2>5, <3>1, <3>2
    <3>4. k + n \in k + 1 .. k + n
      BY <2>4
    <3> QED
      BY <2>6, <3>3, <3>4
  <2> QED
    BY <2>4, <2>5, <2>6, <2>7 DEF n
<1> QED
  BY <1>3, <1>5, <1>6, <1>8 DEF len

-----------------------------------------------------------------------------
(* Where the encoder is.                                                   *)

\* The symbols under the reader of the data and before it.
Position == readBits \div SymbolBits

\* The reader has all of the data, and is where a run of the source begins.
ReaderAtRun ==
  /\ numBits = Len(data) /\ readBits = Position * SymbolBits
  /\ Position = Len(Source) \/ Begins(Source, Position + 1)

\* Nothing is written before the widths are chosen, nor decoded before all is
\* written; a run that is being written has just been read.
PositionInv ==
  /\ phase = "analyse" =>
       /\ out = <<>> /\ remain = 0
       /\ PrepareBits = 0 => ReaderAtRun
  /\ phase = "encode" =>
       /\ remain \in Nat
       /\ EncodeBits = 0 =>
            /\ ReaderAtRun /\ remain <= Position
            /\ \A j \in Position - remain + 1 .. Position : Source[j] = symbol
  /\ phase \in {"analyse", "encode"} => back = <<>>
  /\ DOMAIN rb # Symbols =>
       phase \in {"encode", "failed"} /\ out = <<>> /\ back = <<>>

LEMMA Divides ==
  ASSUME NEW b \in Nat \ {0}, NEW k \in Nat
  PROVE  (k * b) \div b = k
OBVIOUS

LEMMA ReaderStarts ==
  ASSUME TypeOK, numBits = Len(data), readBits = 0
  PROVE  Position = 0 /\ ReaderAtRun
<1>1. Len(Source) \in Nat /\ DOMAIN Source = 1 .. Len(Source)
  BY SourceIsSymbols, LenProperties
<1>2. Position = 0
  BY SymbolsAreNatural DEF Position
<1>3. Len(Source) = 0 \/ 0 + 1 \in 1 .. Len(Source)
  BY <1>1
<1>4. 0 = Len(Source) \/ Begins(Source, 0 + 1)
  BY <1>1, <1>3 DEF Begins
<1> QED
  BY <1>2, <1>4, SymbolsAreNatural DEF ReaderAtRun

\* The reader moves from a run to the next.
LEMMA ReaderMoves ==
  ASSUME TypeOK, ReaderAtRun
  PROVE  /\ Position \in Nat /\ Position <= Len(Source)
         /\ IsReadEnd <=> Position = Len(Source)
         /\ ~IsReadEnd =>
              LET k == Position + RunHere
                  run == [at |-> Position + 1, symbol |-> SymbolAt(data, 0),
                          length |-> RunHere]
              IN  /\ RunHere \in Nat \ {0}
                  /\ readBits + RunHere * SymbolBits = k * SymbolBits
                  /\ (readBits + RunHere * SymbolBits) \div SymbolBits = k
                  /\ k <= Len(Source)
                  /\ k = Len(Source) \/ Begins(Source, k + 1)
                  /\ \A j \in Position + 1 .. k : Source[j] = SymbolAt(data, 0)
                  /\ run \notin RunsUpto(Source, Position)
                  /\ RunsUpto(Source, k) = RunsUpto(Source, Position) \cup {run}
<1> DEFINE p == Position
           n == RunHere
           len == Len(Source)
<1>1. SymbolBits \in Nat \ {0} /\ readBits \in Nat
  BY SymbolsAreNatural DEF TypeOK
<1>2. p \in Nat
  BY <1>1 DEF Position
<1>3. numBits = Len(data) /\ readBits = p * SymbolBits
      /\ (p = len \/ Begins(Source, p + 1))
  BY DEF ReaderAtRun
<1>4. Source \in Seq(Symbols) /\ len \in Nat
  BY SourceIsSymbols
<1> HIDE DEF p
<1>5. p <= len /\ (IsReadEnd <=> p = len)
  BY <1>2, <1>3, RunOfSource
<1>6. ASSUME ~IsReadEnd
      PROVE  /\ n \in Nat \ {0} /\ p + n <= len
             /\ SymbolAt(data, 0) = Source[p + 1]
             /\ \A j \in p + 1 .. p + n : Source[j] = Source[p + 1]
             /\ p + n < len => Source[p + n + 1] # Source[p + n]
  BY <1>2, <1>3, <1>6, RunOfSource
<1> HIDE DEF n
<1> DEFINE k == p + n
           run == [at |-> p + 1, symbol |-> SymbolAt(data, 0), length |-> n]
<1>7. ASSUME ~IsReadEnd
      PROVE  /\ run \notin RunsUpto(Source, p)
             /\ RunsUpto(Source, k) = RunsUpto(Source, p) \cup {run}
             /\ k < len => Begins(Source, k + 1)
  <2>1. Begins(Source, p + 1)
    BY <1>3, <1>5, <1>7
  <2>2. run = [at |-> p + 1, symbol |-> Source[p + 1], length |-> n]
    BY <1>6, <1>7
  <2> HIDE DEF run
  <2> QED
    BY <1>2, <1>4, <1>6, <1>7, <2>1, <2>2, NextRun
<1>8. ASSUME ~IsReadEnd
      PROVE  /\ readBits + n * SymbolBits = k * SymbolBits
             /\ (readBits + n * SymbolBits) \div SymbolBits = k
  <2>1. n \in Nat
    BY <1>6, <1>8
  <2>2. (p + n) * SymbolBits = p * SymbolBits + n * SymbolBits
    BY <1>1, <1>2, <2>1
  <2>3. readBits + n * SymbolBits = k * SymbolBits /\ k \in Nat
    BY <1>2, <1>3, <2>1, <2>2
  <2> HIDE DEF k
  <2> QED
    BY <1>1, <2>3, Divides
<1>9. ASSUME ~IsReadEnd PROVE k = len \/ k < len
  BY <1>2, <1>4, <1>6, <1>9
<1> QED
  BY <1>2, <1>5, <1>6, <1>7, <1>8, <1>9 DEF p, n

\* After a step that leaves the data, the source and its runs are as they were.
LEMMA SourceStays ==
  ASSUME UNCHANGED data
  PROVE  Source' = Source
BY DEF Source

LEMMA FewerLeft ==
  ASSUME NEW p \in Nat, NEW m \in Nat, NEW n \in Nat, m <= n
  PROVE  \A j \in p - m + 1 .. p : j \in p - n + 1 .. p
OBVIOUS

LEMMA PositionStarts == Init => PositionInv
<1> SUFFICES ASSUME Init PROVE PositionInv
  OBVIOUS
<1>1. TypeOK
  BY TypeStarts DEF TypeInv
<1>2. /\ readBits = 0 /\ out = <<>> /\ back = <<>> /\ remain = 0
      /\ phase = "analyse" => numBits = Reader(PrepareBits)
      /\ phase = "encode" => numBits = Reader(EncodeBits)
      /\ phase = "analyse" => DOMAIN rb = Symbols
      /\ phase \in {"analyse", "encode"}
  BY DEF Init
<1>3. /\ phase = "analyse" /\ PrepareBits = 0 => numBits = Len(data)
      /\ phase = "encode" /\ EncodeBits = 0 => numBits = Len(data)
  BY <1>2 DEF Reader
<1>4. numBits = Len(data) => Position = 0 /\ ReaderAtRun
  BY <1>1, <1>2, ReaderStarts
<1>5. \A j \in 0 - 0 + 1 .. 0 : FALSE
  OBVIOUS
<1> QED
  BY <1>2, <1>3, <1>4, <1>5 DEF PositionInv

LEMMA PositionAnalyse ==
  TypeInv /\ TypeInv' /\ PositionInv /\ Analyse => PositionInv'
<1> SUFFICES ASSUME TypeInv, TypeInv', PositionInv, Analyse PROVE PositionInv'
  OBVIOUS
<1>1. /\ phase = "analyse" /\ ~IsReadEnd
      /\ readBits' = readBits + RunHere * SymbolBits
      /\ UNCHANGED <<data, phase, numBits, rb, remain, out, back>>
  BY DEF Analyse, result
<1>2. TypeOK /\ Source' = Source
  BY <1>1, SourceStays DEF TypeInv
<1>3. ASSUME PrepareBits = 0 PROVE ReaderAtRun'
  <2>1. ReaderAtRun
    BY <1>1, <1>3 DEF PositionInv
  <2> DEFINE k == Position + RunHere
  <2>2. /\ readBits' = k * SymbolBits /\ readBits' \div SymbolBits = k
        /\ k = Len(Source) \/ Begins(Source, k + 1)
    BY <1>1, <1>2, <2>1, ReaderMoves
  <2> HIDE DEF k
  <2>3. Position' = k
    BY <2>2 DEF Position
  <2> QED
    BY <1>1, <1>2, <2>1, <2>2, <2>3 DEF ReaderAtRun
<1> QED
  BY <1>1, <1>3 DEF PositionInv

LEMMA PositionChoose ==
  TypeInv /\ TypeInv' /\ PositionInv /\ Choose => PositionInv'
<1> SUFFICES ASSUME TypeInv, TypeInv', PositionInv, Choose PROVE PositionInv'
  OBVIOUS
<1>1. /\ phase = "analyse" /\ phase' = "encode"
      /\ numBits' = Reader(EncodeBits) /\ readBits' = 0
      /\ rb' = [s \in Symbols |-> BestRb(hists[s])]
      /\ UNCHANGED <<data, remain, out, back>>
  BY DEF Choose, result
<1>2. TypeOK' /\ DOMAIN rb' = Symbols
  BY <1>1 DEF TypeInv
<1>3. out' = <<>> /\ back' = <<>> /\ remain' = 0
  BY <1>1 DEF PositionInv
<1>4. ASSUME EncodeBits = 0 PROVE Position' = 0 /\ ReaderAtRun'
  <2>1. numBits' = Len(data')
    BY <1>1, <1>4 DEF Reader
  <2>2. (TypeOK /\ numBits = Len(data) /\ readBits = 0
           => Position = 0 /\ ReaderAtRun)'
    BY ReaderStarts, PTL
  <2> QED
    BY <1>1, <1>2, <2>1, <2>2
<1>5. \A j \in 0 - 0 + 1 .. 0 : FALSE
  OBVIOUS
<1> QED
  BY <1>1, <1>2, <1>3, <1>4, <1>5 DEF PositionInv

LEMMA PositionRun ==
  TypeInv /\ TypeInv' /\ PositionInv /\ EncodeRun => PositionInv'
<1> SUFFICES ASSUME TypeInv, TypeInv', PositionInv, EncodeRun PROVE PositionInv'
  OBVIOUS
<1>1. /\ phase = "encode" /\ DOMAIN rb = Symbols /\ ~IsReadEnd
      /\ symbol' = SymbolAt(data, 0) /\ remain' = RunHere
      /\ readBits' = readBits + RunHere * SymbolBits
      /\ UNCHANGED <<data, phase, numBits, rb, out, back>>
  BY DEF EncodeRun, result
<1>2. /\ TypeOK /\ Source' = Source /\ numBits \in Nat
      /\ readBits \in 0 .. numBits
  BY <1>1, SourceStays DEF TypeInv, TypeOK
<1>3. remain' \in Nat
  BY <1>1, <1>2, RunIsThere
<1>4. ASSUME EncodeBits = 0
      PROVE  /\ ReaderAtRun' /\ remain' <= Position'
             /\ \A j \in Position' - remain' + 1 .. Position' : Source'[j] = symbol'
  <2>1. ReaderAtRun
    BY <1>1, <1>4 DEF PositionInv
  <2> DEFINE p == Position
             n == RunHere
             k == p + n
  <2>2. /\ readBits' = k * SymbolBits /\ readBits' \div SymbolBits = k
        /\ k = Len(Source) \/ Begins(Source, k + 1)
        /\ \A j \in p + 1 .. k : Source[j] = symbol'
        /\ p \in Nat /\ n \in Nat \ {0}
    BY <1>1, <1>2, <2>1, ReaderMoves
  <2> HIDE DEF p
  <2>3. remain' = n
    BY <1>1
  <2> HIDE DEF n
  <2>4. k - n = p /\ n <= k
    BY <2>2
  <2> HIDE DEF k
  <2>5. Position' = k
    BY <2>2 DEF Position
  <2> QED
    BY <1>1, <1>2, <2>1, <2>2, <2>3, <2>4, <2>5 DEF ReaderAtRun
<1> QED
  BY <1>1, <1>3, <1>4 DEF PositionInv

LEMMA PositionChunk ==
  TypeInv /\ TypeInv' /\ PositionInv /\ EncodeChunk => PositionInv'
<1> SUFFICES ASSUME TypeInv, TypeInv', PositionInv, EncodeChunk PROVE PositionInv'
  OBVIOUS
<1> DEFINE chunk == Smaller(remain, 2^rb[symbol])
<1>1. /\ phase = "encode" /\ remain > 0 /\ remain' = remain - chunk
      /\ UNCHANGED <<data, phase, numBits, readBits, rb, symbol, back>>
  BY DEF EncodeChunk, Write, result
<1>2. /\ remain \in Nat /\ DOMAIN rb = Symbols /\ rb[symbol] \in Widths
      /\ readBits \in Nat
  BY <1>1 DEF TypeInv, TypeOK
<1>3. chunk \in 1 .. remain
  BY <1>1, <1>2, WidthsArePowers DEF Smaller
<1> HIDE DEF chunk
<1>4. Source' = Source /\ Position' = Position /\ (ReaderAtRun => ReaderAtRun')
  BY <1>1, SourceStays DEF Position, ReaderAtRun
<1>5. Position \in Nat
  BY <1>2, SymbolsAreNatural DEF Position
<1>6. remain' \in Nat /\ remain' <= remain
  BY <1>1, <1>2, <1>3
<1>7. ASSUME EncodeBits = 0
      PROVE  /\ ReaderAtRun' /\ remain' <= Position'
             /\ \A j \in Position' - remain' + 1 .. Position' : Source'[j] = symbol'
  <2> DEFINE p == Position
  <2>1. /\ ReaderAtRun /\ remain <= p
        /\ \A j \in p - remain + 1 .. p : Source[j] = symbol
    BY <1>1, <1>7 DEF PositionInv
  <2> HIDE DEF p
  <2>2. p \in Nat
    BY <1>5 DEF p
  <2>3. \A j \in p - remain' + 1 .. p : j \in p - remain + 1 .. p
    BY <1>2, <1>6, <2>2, FewerLeft
  <2>4. remain' <= p
    BY <1>2, <1>6, <2>1, <2>2
  <2> QED
    BY <1>1, <1>4, <2>1, <2>3, <2>4 DEF p
<1> QED
  BY <1>1, <1>2, <1>6, <1>7 DEF PositionInv

\* The other steps decode, or end a pass.
LEMMA PositionElse ==
  ASSUME TypeInv, PositionInv,
         \/ RejectRb
         \/ \E n \in Arrived, d \in {"decode", "read"} : EncodeEnds(n, d)
         \/ DecodeCode \/ DecodeFails \/ ReadRepeats \/ ReadCode \/ DecodeEnds
  PROVE  PositionInv'
<1>1. phase' \notin {"analyse", "encode"} /\ UNCHANGED <<rb, out>>
  BY DEF RejectRb, EncodeEnds, DecodeCode, DecodeFails, ReadRepeats, ReadCode,
         DecodeEnds
<1>2. CASE DOMAIN rb # Symbols
  <2>1. phase \in {"encode", "failed"} /\ out = <<>> /\ back = <<>>
    BY <1>2 DEF PositionInv
  <2>2. phase' \in {"failed"} /\ UNCHANGED back
    BY <1>2, <2>1
    DEF RejectRb, EncodeEnds, DecodeCode, DecodeFails, ReadRepeats, ReadCode,
        DecodeEnds
  <2> QED
    BY <1>1, <2>1, <2>2 DEF PositionInv
<1>3. CASE DOMAIN rb = Symbols
  BY <1>1, <1>3 DEF PositionInv
<1> QED
  BY <1>2, <1>3

LEMMA PositionInductive == Spec => [](TypeInv /\ PositionInv)
<1>1. TypeInv /\ TypeInv' /\ PositionInv /\ [Next]_vars => PositionInv'
  <2> SUFFICES ASSUME TypeInv, TypeInv', PositionInv, [Next]_vars
               PROVE  PositionInv'
    OBVIOUS
  <2>1. CASE UNCHANGED vars
    BY <2>1, SourceStays
    DEF vars, result, PositionInv, ReaderAtRun, Position
  <2> QED
    BY <2>1, PositionAnalyse, PositionChoose, PositionRun, PositionChunk,
       PositionElse DEF Next
<1> QED
  BY <1>1, TypeInductive, PositionStarts, PTL DEF Spec

-----------------------------------------------------------------------------
(* The size of the stream.                                                 *)

LEMMA SourceRuns ==
  ASSUME TypeOK
  PROVE  /\ IsFiniteSet(Runs(Source))
         /\ \A run \in Runs(Source) : /\ run.at \in 1 .. Len(Source)
                                      /\ run.symbol \in Symbols
                                      /\ run.length \in Nat
         /\ RunsUpto(Source, 0) = {}
         /\ RunsUpto(Source, Len(Source)) = Runs(Source)
         /\ \A k \in Nat : RunsUpto(Source, k) \in SUBSET Runs(Source)
<1>1. Source \in Seq(Symbols) /\ Len(Source) \in Nat
  BY SourceIsSymbols
<1>2. /\ IsFiniteSet(Runs(Source))
      /\ \A run \in Runs(Source) : /\ run.at \in 1 .. Len(Source)
                                   /\ run.symbol \in Symbols
                                   /\ run.length \in Nat \ {0}
  BY <1>1, RunsAreRuns
<1> DEFINE R == Runs(Source)
<1> HIDE DEF R
<1>3. \A run \in R : ~(run.at <= 0) /\ run.at <= Len(Source)
  BY <1>1, <1>2 DEF R
<1>4. /\ {run \in R : run.at <= 0} = {}
      /\ {run \in R : run.at <= Len(Source)} = R
  BY <1>3
<1> QED
  BY <1>2, <1>4 DEF RunsUpto, R

LEMMA RunsHaveWidths ==
  ASSUME TypeOK, NEW T \in SUBSET Runs(Source), NEW r,
         \A run \in T : r[run.symbol] \in Widths
  PROVE  AreRuns(T, r)
<1>1. IsFiniteSet(T) /\ \A run \in T : run.length \in Nat
  BY SourceRuns, FS_Subset
<1> QED
  BY <1>1, WidthsArePowers DEF AreRuns

\* What is written is what recordRun predicts for the runs read, less what is
\* left of the run that is being written.
SizeInv ==
  DOMAIN rb = Symbols /\ EncodeBits = 0 =>
    /\ phase = "encode" =>
         Len(out) + RunSize(SymbolBits, remain, rb[symbol])
           = SizeOf(SymbolBits, RunsUpto(Source, Position), rb)
    /\ phase \in {"decode", "read"} => Len(out) = SourceSize(rb)

\* Before the first run nothing is written.
LEMMA SizeOfStart ==
  ASSUME TypeOK, Position = 0, out = <<>>, remain = 0, rb[symbol] \in Widths
  PROVE  Len(out) + RunSize(SymbolBits, remain, rb[symbol])
           = SizeOf(SymbolBits, RunsUpto(Source, Position), rb)
<1>1. RunsUpto(Source, Position) = {}
  BY SourceRuns
<1>2. SizeOf(SymbolBits, {}, rb) = 0
  BY SizeOfNone
<1>3. RunSize(SymbolBits, 0, rb[symbol]) = 0
  BY NoRunCostsNothing, SymbolsAreNatural, WidthsArePowers
<1>4. Len(out) = 0
  OBVIOUS
<1>5. SizeOf(SymbolBits, RunsUpto(Source, Position), rb) = 0
  BY <1>1, <1>2
<1>6. RunSize(SymbolBits, remain, rb[symbol]) = 0
  BY <1>3
<1> QED
  BY <1>4, <1>5, <1>6

LEMMA SizeStarts == Init => SizeInv
<1> SUFFICES ASSUME Init PROVE SizeInv
  OBVIOUS
<1> SUFFICES ASSUME DOMAIN rb = Symbols, EncodeBits = 0, phase = "encode"
             PROVE  Len(out) + RunSize(SymbolBits, remain, rb[symbol])
                      = SizeOf(SymbolBits, RunsUpto(Source, Position), rb)
  <2>1. phase \in {"analyse", "encode"}
    BY DEF Init
  <2> QED
    BY <2>1 DEF SizeInv
<1>1. TypeOK
  BY TypeStarts DEF TypeInv
<1>2. numBits = Len(data) /\ readBits = 0 /\ out = <<>> /\ remain = 0
  BY DEF Init, Reader
<1>3. Position = 0
  BY <1>1, <1>2, ReaderStarts
<1>4. rb[symbol] \in Widths
  BY <1>1 DEF TypeOK
<1> QED
  BY <1>1, <1>2, <1>3, <1>4, SizeOfStart

LEMMA SizeChoose ==
  TypeInv /\ TypeInv' /\ PositionInv /\ Choose => SizeInv'
<1> SUFFICES ASSUME TypeInv, TypeInv', PositionInv, Choose PROVE SizeInv'
  OBVIOUS
<1>1. phase = "analyse" /\ phase' = "encode" /\ readBits' = 0
      /\ UNCHANGED <<remain, out>>
  BY DEF Choose
<1>2. TypeOK' /\ out' = <<>> /\ remain' = 0
  BY <1>1 DEF TypeInv, PositionInv
<1>3. Position' = 0
  BY <1>1, SymbolsAreNatural DEF Position
<1>4. ASSUME DOMAIN rb' = Symbols
      PROVE  (Len(out) + RunSize(SymbolBits, remain, rb[symbol])
                = SizeOf(SymbolBits, RunsUpto(Source, Position), rb))'
  <2>1. rb'[symbol'] \in Widths
    BY <1>2, <1>4 DEF TypeOK
  <2>2. (TypeOK /\ Position = 0 /\ out = <<>> /\ remain = 0
           /\ rb[symbol] \in Widths =>
             Len(out) + RunSize(SymbolBits, remain, rb[symbol])
               = SizeOf(SymbolBits, RunsUpto(Source, Position), rb))'
    BY SizeOfStart, PTL
  <2> QED
    BY <1>2, <1>3, <2>1, <2>2
<1> QED
  BY <1>1, <1>4 DEF SizeInv

LEMMA SizeRun ==
  TypeInv /\ TypeInv' /\ PositionInv /\ SizeInv /\ EncodeRun => SizeInv'
<1> SUFFICES ASSUME TypeInv, TypeInv', PositionInv, SizeInv, EncodeRun,
                    EncodeBits = 0
             PROVE  SizeInv'
  BY DEF SizeInv
<1>1. /\ phase = "encode" /\ DOMAIN rb = Symbols /\ remain = 0 /\ ~IsReadEnd
      /\ symbol' = SymbolAt(data, 0) /\ remain' = RunHere
      /\ readBits' = readBits + RunHere * SymbolBits
      /\ UNCHANGED <<data, phase, rb, out>>
  BY DEF EncodeRun, result
<1>2. /\ TypeOK /\ Source' = Source /\ rb \in [Symbols -> Widths]
      /\ symbol \in Symbols /\ symbol' \in Symbols /\ out \in Seq({0, 1})
  BY <1>1, SourceStays DEF TypeInv, TypeOK
<1>3. ReaderAtRun
  BY <1>1 DEF PositionInv
<1> DEFINE p == Position
           n == RunHere
           k == p + n
           run == [at |-> p + 1, symbol |-> symbol', length |-> n]
           T == RunsUpto(Source, p)
<1>4. /\ n \in Nat \ {0} /\ p \in Nat
      /\ readBits' \div SymbolBits = k
      /\ run \notin T /\ RunsUpto(Source, k) = T \cup {run}
  BY <1>1, <1>2, <1>3, ReaderMoves
<1>5. run.symbol = symbol' /\ run.length = n
  OBVIOUS
<1> HIDE DEF run
<1>6. AreRuns(T \cup {run}, rb)
  <2>1. k \in Nat
    BY <1>4
  <2>2. RunsUpto(Source, k) \in SUBSET Runs(Source)
    BY <1>2, <2>1, SourceRuns
  <2>3. \A x \in RunsUpto(Source, k) : rb[x.symbol] \in Widths
    BY <1>2, <2>2, SourceRuns
  <2>4. AreRuns(RunsUpto(Source, k), rb)
    BY <1>2, <2>2, <2>3, RunsHaveWidths
  <2> QED
    BY <1>4, <2>4
<1>7. SizeOf(SymbolBits, RunsUpto(Source, k), rb) =
        SizeOf(SymbolBits, T, rb) + RunSize(SymbolBits, n, rb[symbol'])
  <2> HIDE DEF T, k, n, p
  <2>1. SymbolBits \in Nat
    BY SymbolsAreNatural
  <2>2. SizeOf(SymbolBits, T \cup {run}, rb) =
          SizeOf(SymbolBits, T, rb) + RunSize(SymbolBits, run.length, rb[run.symbol])
    BY <1>4, <1>6, <2>1, SizeOfOneMore
  <2> QED
    BY <1>4, <1>5, <2>2
<1>8. Len(out) + RunSize(SymbolBits, 0, rb[symbol]) = SizeOf(SymbolBits, T, rb)
  BY <1>1 DEF SizeInv
<1>9. RunSize(SymbolBits, 0, rb[symbol]) = 0 /\ Len(out) \in Nat
  BY <1>2, NoRunCostsNothing, SymbolsAreNatural, WidthsArePowers, LenProperties
<1>10. Position' = k
  BY <1>4 DEF Position
<1> HIDE DEF k, T, p
<1>11. Len(out) = SizeOf(SymbolBits, T, rb)
  BY <1>8, <1>9
<1>12. Len(out') + RunSize(SymbolBits, remain', rb'[symbol'])
         = SizeOf(SymbolBits, RunsUpto(Source', Position'), rb')
  BY <1>1, <1>2, <1>7, <1>10, <1>11
<1> QED
  BY <1>1, <1>12 DEF SizeInv

LEMMA SizeChunk ==
  TypeInv /\ TypeInv' /\ SizeInv /\ EncodeChunk => SizeInv'
<1> SUFFICES ASSUME TypeInv, TypeInv', SizeInv, EncodeChunk, EncodeBits = 0
             PROVE  SizeInv'
  BY DEF SizeInv
<1> DEFINE w == rb[symbol]
           chunk == Smaller(remain, 2^w)
           code == Bits(symbol, SymbolBits)
           field == Bits(chunk - 1, w)
<1>1. /\ phase = "encode" /\ remain > 0 /\ remain' = remain - chunk
      /\ out' = out \o code \o field
      /\ UNCHANGED <<data, phase, readBits, rb, symbol>>
  BY DEF EncodeChunk, Write, result
<1>2. /\ remain \in Nat /\ DOMAIN rb = Symbols /\ w \in Widths
      /\ symbol \in Nat /\ out \in Seq({0, 1})
  BY <1>1, SymbolsAreNatural DEF TypeInv, TypeOK
<1>3. w \in Nat /\ 2^w \in Nat /\ 2^w > 0 /\ SymbolBits \in Nat
  BY <1>2, WidthsArePowers, SymbolsAreNatural
<1>4. chunk = IF remain < 2^w THEN remain ELSE 2^w
  BY DEF Smaller
<1> HIDE DEF chunk, w
<1>5. chunk - 1 \in Nat /\ remain - chunk = IF remain < 2^w THEN 0 ELSE remain - 2^w
  BY <1>1, <1>2, <1>3, <1>4
<1>6. /\ code \in Seq({0, 1}) /\ Len(code) = SymbolBits
      /\ field \in Seq({0, 1}) /\ Len(field) = w
  BY <1>2, <1>3, <1>5, BitsAreBits
<1> HIDE DEF code, field
<1>7. Len(out') = Len(out) + SymbolBits + w
  <2>1. out \o code \in Seq({0, 1}) /\ Len(out \o code) = Len(out) + SymbolBits
    BY <1>2, <1>6, ConcatProperties
  <2> DEFINE c == out \o code
  <2>2. out' = c \o field
    BY <1>1
  <2> HIDE DEF c
  <2>3. c \in Seq({0, 1}) /\ Len(c) = Len(out) + SymbolBits
    BY <2>1 DEF c
  <2>4. Len(c \o field) = Len(c) + Len(field)
    BY <1>6, <2>3, ConcatProperties
  <2> QED
    BY <1>6, <2>2, <2>3, <2>4
<1>8. RunSize(SymbolBits, remain, w) =
        SymbolBits + w + RunSize(SymbolBits, remain - chunk, w)
  <2>1. remain \in Nat \ {0}
    BY <1>1, <1>2
  <2> QED
    BY <1>3, <1>5, <2>1, ChunkCostsCode
<1>9. RunSize(SymbolBits, remain - chunk, w) \in Nat /\ Len(out) \in Nat
  <2>1. remain - chunk \in Nat
    BY <1>2, <1>3, <1>5
  <2> QED
    BY <1>2, <1>3, <2>1, RunSizeIsNatural, LenProperties
<1>10. Len(out) + RunSize(SymbolBits, remain, w)
         = SizeOf(SymbolBits, RunsUpto(Source, Position), rb)
  BY <1>1, <1>2 DEF SizeInv, w
<1>11. Len(out') + RunSize(SymbolBits, remain - chunk, w)
         = Len(out) + RunSize(SymbolBits, remain, w)
  BY <1>3, <1>7, <1>8, <1>9
<1>12. Source' = Source /\ Position' = Position /\ rb' = rb /\ rb'[symbol'] = w
  BY <1>1, SourceStays DEF Position, w
<1>13. Len(out') + RunSize(SymbolBits, remain', rb'[symbol'])
         = SizeOf(SymbolBits, RunsUpto(Source', Position'), rb')
  BY <1>1, <1>10, <1>11, <1>12
<1> QED
  BY <1>1, <1>13 DEF SizeInv

LEMMA SizeEncodeEnds ==
  ASSUME TypeInv, PositionInv, SizeInv,
         NEW n \in Arrived, NEW d \in {"decode", "read"}, EncodeEnds(n, d)
  PROVE  SizeInv'
<1> SUFFICES ASSUME EncodeBits = 0 PROVE SizeInv'
  BY DEF SizeInv
<1>1. /\ phase = "encode" /\ DOMAIN rb = Symbols /\ remain = 0 /\ IsReadEnd
      /\ phase' # "encode" /\ UNCHANGED <<data, rb, out>>
  BY DEF EncodeEnds, result
<1>2. /\ TypeOK /\ Source' = Source /\ rb[symbol] \in Widths
      /\ out \in Seq({0, 1})
  BY <1>1, SourceStays DEF TypeInv, TypeOK
<1>3. Position = Len(Source)
  BY <1>1, <1>2, ReaderMoves DEF PositionInv
<1>4. Len(out) + RunSize(SymbolBits, 0, rb[symbol])
        = SizeOf(SymbolBits, Runs(Source), rb)
  BY <1>1, <1>2, <1>3, SourceRuns DEF SizeInv
<1>5. RunSize(SymbolBits, 0, rb[symbol]) = 0 /\ Len(out) \in Nat
  BY <1>2, NoRunCostsNothing, SymbolsAreNatural, WidthsArePowers, LenProperties
<1>6. Len(out) = SourceSize(rb)
  BY <1>4, <1>5 DEF SourceSize, EncodedSize
<1>7. SourceSize(rb)' = SourceSize(rb)
  BY <1>1, <1>2 DEF SourceSize
<1> QED
  BY <1>1, <1>6, <1>7 DEF SizeInv

LEMMA SizeElse ==
  ASSUME SizeInv,
         \/ RejectRb \/ Analyse
         \/ DecodeCode \/ DecodeFails \/ ReadRepeats \/ ReadCode \/ DecodeEnds
  PROVE  SizeInv'
<1>1. /\ phase' # "encode" /\ (phase' \in {"decode", "read"} => phase' = phase)
      /\ UNCHANGED <<data, rb, out>>
  BY DEF RejectRb, Analyse, DecodeCode, DecodeFails, ReadRepeats, ReadCode,
         DecodeEnds, result
<1>2. Source' = Source
  BY <1>1, SourceStays
<1>3. SourceSize(rb)' = SourceSize(rb)
  BY <1>1, <1>2 DEF SourceSize
<1> QED
  BY <1>1, <1>3 DEF SizeInv

LEMMA SizeInductive == Spec => []SizeInv
<1>1. TypeInv /\ TypeInv' /\ PositionInv /\ SizeInv /\ [Next]_vars => SizeInv'
  <2> SUFFICES ASSUME TypeInv, TypeInv', PositionInv, SizeInv, [Next]_vars
               PROVE  SizeInv'
    OBVIOUS
  <2>1. CASE UNCHANGED vars
    <3>1. Source' = Source
      BY <2>1, SourceStays DEF vars, result
    <3> QED
      BY <2>1, <3>1 DEF vars, result, SizeInv, Position, SourceSize
  <2> QED
    BY <2>1, SizeChoose, SizeRun, SizeChunk, SizeEncodeEnds, SizeElse DEF Next
<1> QED
  BY <1>1, PositionInductive, SizeStarts, PTL DEF Spec

\* Encode writes as many bits as recordRun predicts for the run bit lengths,
\* whether it chose them or was given them.
THEOREM SizeAsPredicted ==
  ASSUME EncodeBits = 0
  PROVE  Spec => []SizeIsPredicted
<1>1. TypeInv /\ PositionInv /\ SizeInv => SizeIsPredicted
  BY DEF TypeInv, SizeInv, SizeIsPredicted, Encoded
<1> QED
  BY <1>1, PositionInductive, SizeInductive, PTL

-----------------------------------------------------------------------------
(* The widths that are chosen.                                             *)

\* The analysis has counted, for each symbol and width, the cost of the runs
\* read; the widths are then those of the module SrlenSize.
ChoiceInv ==
  PrepareBits = 0 /\ givenRb = Nil =>
    /\ phase = "analyse" =>
         \A s \in Symbols, w \in Widths :
           hists[s][w] = CostsOf(SymbolBits, RunsUpto(Source, Position), s)[w]
    /\ phase # "analyse" => rb = EncodePrepare(SymbolBits, Source)

\* A run of a symbol adds to the costs of this symbol, and of no other.
LEMMA CostOfOneMore ==
  ASSUME NEW runs, NEW run, run \notin runs, IsFiniteSet(runs \cup {run}),
         \A x \in runs \cup {run} : x.length \in Nat,
         NEW s, NEW w \in Widths
  PROVE  CostsOf(SymbolBits, runs \cup {run}, s)[w]
           = IF run.symbol = s
             THEN CostsOf(SymbolBits, runs, s)[w] + RunSize(SymbolBits, run.length, w)
             ELSE CostsOf(SymbolBits, runs, s)[w]
<1> DEFINE r == [t \in {s} |-> w]
           T == RunsOf(runs, s)
           U == RunsOf(runs \cup {run}, s)
<1>3. /\ CostsOf(SymbolBits, runs, s)[w] = SizeOf(SymbolBits, T, r)
      /\ CostsOf(SymbolBits, runs \cup {run}, s)[w] = SizeOf(SymbolBits, U, r)
  BY DEF CostsOf
<1>1. CASE run.symbol = s
  <2>1. U = T \cup {run} /\ run \notin T /\ \A x \in U : x.symbol = s
    BY <1>1 DEF RunsOf
  <2>2. r[run.symbol] = w
    BY <1>1
  <2>3. IsFiniteSet(U)
    BY FS_Subset DEF RunsOf
  <2>4. AreRuns(U, r)
    BY <2>1, <2>3 DEF AreRuns, RunsOf, Widths
  <2> HIDE DEF U, T, r
  <2>5. SizeOf(SymbolBits, U, r)
          = SizeOf(SymbolBits, T, r) + RunSize(SymbolBits, run.length, r[run.symbol])
    BY <2>1, <2>4, SizeOfOneMore, SymbolsAreNatural
  <2> QED
    BY <1>1, <1>3, <2>2, <2>5
<1>2. CASE run.symbol # s
  <2>1. U = T
    BY <1>2 DEF RunsOf
  <2> QED
    BY <1>2, <1>3, <2>1
<1> QED
  BY <1>1, <1>2

LEMMA NoRunNoCost ==
  ASSUME NEW runs, NEW s, NEW w \in Widths, RunsOf(runs, s) = {}
  PROVE  CostsOf(SymbolBits, runs, s)[w] = 0
<1> DEFINE r == [t \in {s} |-> w]
<1>1. CostsOf(SymbolBits, runs, s)[w] = SizeOf(SymbolBits, {}, r)
  BY DEF CostsOf
<1> HIDE DEF r
<1> QED
  BY <1>1, SizeOfNone

LEMMA ChoiceStarts == Init => ChoiceInv
<1> SUFFICES ASSUME Init PROVE ChoiceInv
  OBVIOUS
<1> SUFFICES ASSUME PrepareBits = 0, givenRb = Nil PROVE ChoiceInv
  BY DEF ChoiceInv
<1>1. TypeOK
  BY TypeStarts DEF TypeInv
<1>2. /\ phase = "analyse" /\ numBits = Len(data) /\ readBits = 0
      /\ hists = [s \in Symbols |-> [w \in Widths |-> 0]]
  BY DEF Init, Reader
<1>3. Position = 0
  BY <1>1, <1>2, ReaderStarts
<1>4. RunsUpto(Source, Position) = {}
  BY <1>1, <1>3, SourceRuns
<1>5. ASSUME NEW s \in Symbols, NEW w \in Widths
      PROVE  hists[s][w] = CostsOf(SymbolBits, RunsUpto(Source, Position), s)[w]
  <2>1. RunsOf({}, s) = {}
    BY DEF RunsOf
  <2>2. CostsOf(SymbolBits, {}, s)[w] = 0
    BY <2>1, NoRunNoCost
  <2>3. hists[s][w] = 0
    BY <1>2
  <2> QED
    BY <1>4, <2>2, <2>3
<1> QED
  BY <1>2, <1>5 DEF ChoiceInv

LEMMA ChoiceAnalyse ==
  TypeInv /\ TypeInv' /\ PositionInv /\ ChoiceInv /\ Analyse => ChoiceInv'
<1> SUFFICES ASSUME TypeInv, TypeInv', PositionInv, ChoiceInv, Analyse,
                    PrepareBits = 0, givenRb = Nil
             PROVE  ChoiceInv'
  BY DEF ChoiceInv, Analyse, result
<1> DEFINE s0 == SymbolAt(data, 0)
           n == RunHere
           k == Position + n
           run == [at |-> Position + 1, symbol |-> s0, length |-> n]
           T == RunsUpto(Source, Position)
<1>1. /\ phase = "analyse" /\ ~IsReadEnd
      /\ hists' = [hists EXCEPT ![s0] =
                     [w \in Widths |-> hists[s0][w] + RunSize(SymbolBits, n, w)]]
      /\ readBits' = readBits + n * SymbolBits
      /\ UNCHANGED <<data, givenRb, phase>>
  BY DEF Analyse, result
<1>2. /\ TypeOK /\ Source' = Source /\ hists \in [Symbols -> [Widths -> Nat]]
  BY <1>1, SourceStays DEF TypeInv, TypeOK
<1>3. ReaderAtRun
  BY <1>1 DEF PositionInv
<1>4. /\ n \in Nat \ {0} /\ readBits' \div SymbolBits = k
      /\ run \notin T /\ RunsUpto(Source, k) = T \cup {run} /\ Position \in Nat
  BY <1>1, <1>2, <1>3, ReaderMoves
<1>5. run.symbol = s0 /\ run.length = n
  OBVIOUS
<1>6. k \in Nat
  BY <1>4
<1> HIDE DEF run, k, n, s0
<1>7. IsFiniteSet(T \cup {run}) /\ \A x \in T \cup {run} : x.length \in Nat
  <2>1. RunsUpto(Source, k) \in SUBSET Runs(Source)
    BY <1>2, <1>6, SourceRuns
  <2>2. IsFiniteSet(Runs(Source)) /\ \A x \in Runs(Source) : x.length \in Nat
    BY <1>2, SourceRuns
  <2>3. IsFiniteSet(RunsUpto(Source, k))
    BY <2>1, <2>2, FS_Subset
  <2> QED
    BY <1>4, <2>1, <2>2, <2>3
<1>8. Position' = k
  BY <1>4 DEF Position
<1> HIDE DEF T
<1>9. ASSUME NEW s \in Symbols, NEW w \in Widths
      PROVE  hists'[s][w] = CostsOf(SymbolBits, T \cup {run}, s)[w]
  <2>1. hists[s][w] = CostsOf(SymbolBits, T, s)[w]
    BY <1>1 DEF ChoiceInv, T
  <2>2. hists'[s][w] = IF s0 = s THEN hists[s][w] + RunSize(SymbolBits, n, w)
                       ELSE hists[s][w]
    BY <1>1, <1>2
  <2>3. CostsOf(SymbolBits, T \cup {run}, s)[w]
           = IF run.symbol = s
             THEN CostsOf(SymbolBits, T, s)[w] + RunSize(SymbolBits, run.length, w)
             ELSE CostsOf(SymbolBits, T, s)[w]
    BY <1>4, <1>7, CostOfOneMore
  <2> QED
    BY <1>5, <2>1, <2>2, <2>3
<1>10. RunsUpto(Source', Position') = T \cup {run}
  BY <1>2, <1>4, <1>8
<1> QED
  BY <1>1, <1>9, <1>10 DEF ChoiceInv

LEMMA ChoiceChoose ==
  TypeInv /\ PositionInv /\ ChoiceInv /\ Choose => ChoiceInv'
<1> SUFFICES ASSUME TypeInv, PositionInv, ChoiceInv, Choose,
                    PrepareBits = 0, givenRb = Nil
             PROVE  ChoiceInv'
  BY DEF ChoiceInv, Choose, result
<1>1. /\ phase = "analyse" /\ phase' = "encode" /\ IsReadEnd
      /\ rb' = [s \in Symbols |-> BestRb(hists[s])]
      /\ UNCHANGED data
  BY DEF Choose, result
<1>2. /\ TypeOK /\ Source' = Source /\ hists \in [Symbols -> [Widths -> Nat]]
  BY <1>1, SourceStays DEF TypeInv, TypeOK
<1> DEFINE R == Runs(Source)
<1>3. Position = Len(Source) /\ RunsUpto(Source, Position) = R
  BY <1>1, <1>2, ReaderMoves, SourceRuns DEF PositionInv
<1>4. /\ Source \in Seq(Symbols) /\ SymbolBits \in Nat
      /\ IsFiniteSet(R) /\ \A x \in R : x.length \in Nat
  BY <1>2, SourceIsSymbols, SourceRuns, SymbolsAreNatural
<1>5. EncodePrepare(SymbolBits, Source) =
        [s \in Symbols |-> IF RunsOf(R, s) = {} THEN 0
                           ELSE BestRb(CostsOf(SymbolBits, R, s))]
  BY <1>4, PreparedWidths DEF Symbols
<1> HIDE DEF R
<1>6. ASSUME NEW s \in Symbols
      PROVE  BestRb(hists[s]) = IF RunsOf(R, s) = {} THEN 0
                                ELSE BestRb(CostsOf(SymbolBits, R, s))
  <2>1. \A w \in Widths : hists[s][w] = CostsOf(SymbolBits, R, s)[w]
    BY <1>1, <1>3 DEF ChoiceInv
  <2>2. CostsOf(SymbolBits, R, s) \in [Widths -> Nat]
    BY <1>4, CostsOfAreNatural
  <2>3. hists[s] \in [Widths -> Nat]
    BY <1>2
  <2>4. hists[s] = CostsOf(SymbolBits, R, s)
    BY <2>1, <2>2, <2>3, SameFunction
  <2>5. ASSUME RunsOf(R, s) = {} PROVE BestRb(hists[s]) = 0
    <3>1. \A w \in Widths : hists[s][w] = 0
      BY <2>1, <2>5, NoRunNoCost
    <3>2. 0 \in Widths
      BY DEF Widths
    <3> QED
      BY <2>3, <3>1, <3>2, BestRbIsBest
  <2> QED
    BY <2>4, <2>5
<1>7. rb' = EncodePrepare(SymbolBits, Source)
  BY <1>1, <1>5, <1>6
<1> QED
  BY <1>1, <1>2, <1>7 DEF ChoiceInv

LEMMA ChoiceInductive == Spec => []ChoiceInv
<1>1. TypeInv /\ TypeInv' /\ PositionInv /\ ChoiceInv /\ [Next]_vars => ChoiceInv'
  <2> SUFFICES ASSUME TypeInv, TypeInv', PositionInv, ChoiceInv, [Next]_vars
               PROVE  ChoiceInv'
    OBVIOUS
  <2>1. CASE UNCHANGED vars
    <3>1. Source' = Source
      BY <2>1, SourceStays DEF vars, result
    <3> QED
      BY <2>1, <3>1 DEF vars, result, ChoiceInv, Position
  <2>2. ASSUME phase # "analyse", phase' # "analyse", UNCHANGED <<data, givenRb, rb>>
        PROVE  ChoiceInv'
    <3>1. Source' = Source
      BY <2>2, SourceStays
    <3> QED
      BY <2>2, <3>1 DEF ChoiceInv
  <2>3. CASE \E n \in Arrived, d \in {"decode", "read"} : EncodeEnds(n, d)
    BY <2>2, <2>3 DEF EncodeEnds, result
  <2>4. CASE RejectRb \/ EncodeRun \/ EncodeChunk
    BY <2>2, <2>4 DEF RejectRb, EncodeRun, EncodeChunk, Write, result
  <2>5. CASE \/ DecodeCode \/ DecodeFails \/ ReadRepeats \/ ReadCode \/ DecodeEnds
    BY <2>2, <2>5
    DEF DecodeCode, DecodeFails, ReadRepeats, ReadCode, DecodeEnds,
                      result
  <2> QED
    BY <2>1, <2>3, <2>4, <2>5, ChoiceAnalyse, ChoiceChoose DEF Next
<1> QED
  BY <1>1, PositionInductive, ChoiceStarts, PTL DEF Spec

\* The run bit lengths that Encode chooses for its data are those that the
\* module SrlenSize computes for it, and the frame encoder's model uses.
THEOREM ChosenAsSized ==
  ASSUME PrepareBits = 0
  PROVE  Spec => []ChoosesAsSized
<1>1. ChoiceInv => ChoosesAsSized
  BY DEF ChoiceInv, ChoosesAsSized, Encoded
<1> QED
  BY <1>1, ChoiceInductive, PTL

\* No run bit lengths at all give a shorter stream than those Encode chooses for
\* its data, not even if all of them differ (bestRb, one symbol at a time).
OwnRbIsBestOfAll ==
  Encoded /\ givenRb = Nil =>
    \A q \in [Symbols -> Widths] : Len(out) <= SourceSize(q)

\* Choosing the best width for each symbol by itself is best for the stream
\* (EncodePrepare, Encode).
THEOREM OwnRbAlwaysBest ==
  ASSUME PrepareBits = 0, EncodeBits = 0
  PROVE  Spec => []OwnRbIsBestOfAll
<1>1. TypeInv /\ SizeIsPredicted /\ ChoosesAsSized => OwnRbIsBestOfAll
  <2> SUFFICES ASSUME TypeInv, SizeIsPredicted, ChoosesAsSized, Encoded,
                      givenRb = Nil, NEW q \in [Symbols -> Widths]
               PROVE  Len(out) <= SourceSize(q)
    BY DEF OwnRbIsBestOfAll
  <2>1. Source \in Seq(Symbols)
    BY SourceIsSymbols DEF TypeInv
  <2>2. Len(out) = SourceSize(rb) /\ rb = EncodePrepare(SymbolBits, Source)
    BY DEF SizeIsPredicted, ChoosesAsSized
  <2> QED
    BY <2>1, <2>2, PreparedIsOptimal, SymbolsAreNatural DEF Symbols, SourceSize
<1> QED
  BY <1>1, TypeInductive, SizeAsPredicted, ChosenAsSized, PTL

\* With the run bit lengths that Encode chooses the stream is as short as with
\* any others that differ from them for one symbol.
THEOREM OwnRbAlwaysOptimal ==
  ASSUME PrepareBits = 0, EncodeBits = 0
  PROVE  Spec => []OwnRbIsOptimal
<1>1. TypeInv /\ ChoosesAsSized /\ OwnRbIsBestOfAll => OwnRbIsOptimal
  <2> SUFFICES ASSUME TypeInv, ChoosesAsSized, OwnRbIsBestOfAll, Encoded,
                      givenRb = Nil, NEW s \in Symbols, NEW w \in Widths
               PROVE  Len(out) <= SourceSize([rb EXCEPT ![s] = w])
    BY DEF OwnRbIsOptimal
  <2>1. Source \in Seq(Symbols)
    BY SourceIsSymbols DEF TypeInv
  <2>2. rb = EncodePrepare(SymbolBits, Source)
    BY DEF ChoosesAsSized
  <2>3. rb \in [Symbols -> Widths]
    BY <2>1, <2>2, PreparedWidths, SymbolsAreNatural DEF Symbols
  <2>4. [rb EXCEPT ![s] = w] \in [Symbols -> Widths]
    BY <2>3
  <2> QED
    BY <2>4 DEF OwnRbIsBestOfAll
<1> QED
  BY <1>1, TypeInductive, OwnRbAlwaysBest, ChosenAsSized, PTL

=============================================================================
