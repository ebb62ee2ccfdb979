--------------------------- MODULE SrlenCodecProofs ---------------------------
(***************************************************************************)
(* Srlen, for data of every length and symbols of every size: what Encode  *)
(* writes is a sequence of codes (IsParse), and Decode and ReadSymbol take one *)
(* code after the other off it (ParseInv).  So the stream decodes to the data, *)
(* a part of it to a part of the data, and it fits into its buffer.        *)
(***************************************************************************)
EXTENDS SrlenProofs

-----------------------------------------------------------------------------
(* A stream of codes.                                                      *)

\* The stream o after a code: s in b bits, and f in w bits.
Written(o, s, b, f, w) == o \o Bits(s, b) \o Bits(f, w)

LEMMA CodeWritten ==
  ASSUME NEW o \in Seq({0, 1}), NEW b \in Nat, NEW w \in Nat,
         NEW s \in 0 .. 2^b - 1, NEW f \in 0 .. 2^w - 1
  PROVE  /\ Written(o, s, b, f, w) \in Seq({0, 1})
         /\ Len(Written(o, s, b, f, w)) = Len(o) + b + w
         /\ Field(Written(o, s, b, f, w), Len(o), b) = s
         /\ Field(Written(o, s, b, f, w), Len(o) + b, w) = f
         /\ \A at, m \in Nat : at + m <= Len(o) =>
              Field(Written(o, s, b, f, w), at, m) = Field(o, at, m)
<1> DEFINE o2 == Written(o, s, b, f, w)
           len == Len(o)
           code == Bits(s, b)
           run  == Bits(f, w)
           c == o \o code
<1>1. len \in Nat /\ s \in Nat /\ f \in Nat
  BY LenProperties, PowerIsNatural
<1>2. /\ code \in Seq({0, 1}) /\ Len(code) = b
      /\ run \in Seq({0, 1}) /\ Len(run) = w
  BY <1>1, BitsAreBits
<1>3. o2 = c \o run
  BY DEF Written
<1> HIDE DEF code, run, o2
<1>4. /\ c \in Seq({0, 1}) /\ Len(c) = len + b
      /\ \A i \in 1 .. len + b : c[i] = IF i <= len THEN o[i] ELSE code[i - len]
  BY <1>2, ConcatProperties
<1> HIDE DEF c, len
<1>5. /\ o2 \in Seq({0, 1}) /\ Len(o2) = (len + b) + w
      /\ \A i \in 1 .. (len + b) + w : o2[i] =
           IF i <= len + b THEN c[i] ELSE run[i - (len + b)]
  <2>1. c \in Seq({0, 1}) /\ run \in Seq({0, 1})
    BY <1>2, <1>4
  <2>2. /\ o2 \in Seq({0, 1}) /\ Len(o2) = Len(c) + Len(run)
        /\ \A i \in 1 .. Len(c) + Len(run) : o2[i] =
             IF i <= Len(c) THEN c[i] ELSE run[i - Len(c)]
    BY <1>3, <2>1, ConcatProperties
  <2>3. Len(c) = len + b /\ Len(run) = w
    BY <1>2, <1>4
  <2> QED
    BY <2>2, <2>3
<1>6. \A i \in 1 .. w : o2[(len + b) + i] = run[i]
  <2>1. ASSUME NEW i \in 1 .. w PROVE o2[(len + b) + i] = run[i]
    <3> DEFINE k == (len + b) + i
    <3>1. k \in 1 .. (len + b) + w /\ ~(k <= len + b) /\ k - (len + b) = i
      BY <1>1
    <3> HIDE DEF k
    <3>2. o2[k] = run[i]
      BY <1>5, <3>1
    <3> QED
      BY <3>2 DEF k
  <2> QED
    BY <2>1
<1>7. \A i \in 1 .. b : c[len + i] = code[i]
  <2>1. ASSUME NEW i \in 1 .. b PROVE c[len + i] = code[i]
    <3> DEFINE k == len + i
    <3>1. k \in 1 .. len + b /\ ~(k <= len) /\ k - len = i
      BY <1>1
    <3> HIDE DEF k
    <3>2. c[k] = code[i]
      BY <1>4, <3>1
    <3> QED
      BY <3>2 DEF k
  <2> QED
    BY <2>1
<1>8. Field(o2, len, b) = s
  <2>1. len + b <= Len(c) /\ Len(c) \in Nat
    BY <1>1, <1>4
  <2>2. Field(c, len, b) = s
    BY <1>1, <1>7, <2>1, FieldOfBits DEF code
  <2>3. Field(c \o run, len, b) = Field(c, len, b)
    <3>1. c \in Seq({0, 1}) /\ run \in Seq({0, 1}) /\ len \in Nat
      BY <1>1, <1>2, <1>4
    <3> QED
      BY <2>1, <3>1, FieldStays
  <2> QED
    BY <1>3, <2>2, <2>3
<1>9. Field(o2, len + b, w) = f
  <2>1. len + b \in Nat /\ (len + b) + w <= Len(o2) /\ Len(o2) \in Nat
    BY <1>1, <1>5
  <2> QED
    BY <1>6, <2>1, FieldOfBits DEF run
<1>10. ASSUME NEW at \in Nat, NEW m \in Nat, at + m <= len
       PROVE  Field(o2, at, m) = Field(o, at, m)
  <2>1. Field(c, at, m) = Field(o, at, m)
    BY <1>2, <1>10, FieldStays DEF c, len
  <2>2. at + m <= Len(c)
    BY <1>1, <1>4, <1>10
  <2>3. Field(c \o run, at, m) = Field(c, at, m)
    BY <1>2, <1>4, <2>2, FieldStays
  <2> QED
    BY <1>3, <2>1, <2>3
<1> QED
  BY <1>1, <1>5, <1>8, <1>9, <1>10 DEF len, o2

\* Code i begins at bit p[i] of the stream o and at symbol q[i] of src.
IsCode(src, r, o, p, q, i) ==
  LET s == src[q[i] + 1]
  IN  /\ p[i + 1] = p[i] + SymbolBits + r[s]
      /\ q[i + 1] <= q[i] + 2^r[s]
      /\ \A k \in q[i] + 1 .. q[i + 1] : src[k] = s
      /\ Field(o, p[i], SymbolBits) = s
      /\ Field(o, p[i] + SymbolBits, r[s]) = q[i + 1] - q[i] - 1

\* The stream o consists of n codes, with the widths r: those of the first q[n]
\* symbols of src.
IsParse(src, r, o, n, p, q) ==
  /\ n \in Nat /\ p \in [0 .. n -> Nat] /\ q \in [0 .. n -> Nat]
  /\ p[0] = 0 /\ q[0] = 0 /\ p[n] = Len(o) /\ q[n] <= Len(src)
  /\ \A i \in 0 .. n : p[i] <= q[i] * (SymbolBits + 5)
  /\ \A i, j \in 0 .. n : i < j => p[i] + SymbolBits <= p[j] /\ q[i] < q[j]
  /\ \A i \in 0 .. n - 1 : IsCode(src, r, o, p, q, i)

LEMMA NoCodes ==
  ASSUME NEW src \in Seq(Symbols), NEW r, NEW o, o = <<>>
  PROVE  \E p, q : IsParse(src, r, o, 0, p, q) /\ q[0] = 0
<1> DEFINE z == [i \in 0 .. 0 |-> 0]
<1>1. Len(o) = 0 /\ Len(src) \in Nat
  BY LenProperties
<1>2. IsParse(src, r, o, 0, z, z)
  BY <1>1, SymbolsAreNatural DEF IsParse
<1>3. z[0] = 0
  OBVIOUS
<1> HIDE DEF z
<1> QED
  BY <1>2, <1>3

\* What a parse says of its marks.
LEMMA Marks ==
  ASSUME NEW src \in Seq(Symbols), NEW r, NEW o \in Seq({0, 1}), NEW n, NEW p,
         NEW q, IsParse(src, r, o, n, p, q)
  PROVE  /\ n \in Nat /\ Len(o) \in Nat /\ Len(src) \in Nat
         /\ p[n] = Len(o) /\ q[n] \in Nat
         /\ \A i \in 0 .. n : /\ p[i] \in Nat /\ p[i] <= Len(o)
                              /\ q[i] \in Nat /\ q[i] <= q[n]
                              /\ q[i] <= Len(src)
         /\ \A i \in 0 .. n - 1 :
              /\ i + 1 \in 0 .. n
              /\ p[i] + SymbolBits <= p[i + 1] /\ q[i] < q[i + 1]
              /\ src[q[i] + 1] \in Symbols
<1> DEFINE l == Len(src)
           m == Len(o)
<1>1. /\ n \in Nat /\ p \in [0 .. n -> Nat] /\ q \in [0 .. n -> Nat]
      /\ p[n] = m /\ q[n] <= l /\ m \in Nat /\ l \in Nat
      /\ \A i, j \in 0 .. n : i < j => p[i] + SymbolBits <= p[j] /\ q[i] < q[j]
  BY LenProperties DEF IsParse
<1>2. \A i \in 1 .. l : src[i] \in Symbols
  BY ElementOfSeq
<1> HIDE DEF l, m
<1>3. p[n] \in Nat /\ q[n] \in Nat /\ n \in 0 .. n
  BY <1>1
<1>4. ASSUME NEW i \in 0 .. n
      PROVE  p[i] \in Nat /\ p[i] <= m /\ q[i] \in Nat /\ q[i] <= q[n]
             /\ q[i] <= l
  <2>1. p[i] \in Nat /\ q[i] \in Nat
    BY <1>1
  <2>2. CASE i = n
    BY <1>1, <1>3, <2>1, <2>2
  <2>3. CASE i < n
    <3>1. p[i] + SymbolBits <= p[n] /\ q[i] < q[n]
      BY <1>1, <1>3, <2>3
    <3> QED
      BY <1>1, <1>3, <2>1, <3>1, SymbolsAreNatural
  <2> QED
    BY <1>1, <2>2, <2>3
<1>5. ASSUME NEW i \in 0 .. n - 1
      PROVE  /\ i + 1 \in 0 .. n
             /\ p[i] + SymbolBits <= p[i + 1] /\ q[i] < q[i + 1]
             /\ src[q[i] + 1] \in Symbols
  <2>1. i + 1 \in 0 .. n /\ i \in 0 .. n /\ i < i + 1
    BY <1>1
  <2>2. p[i] + SymbolBits <= p[i + 1] /\ q[i] < q[i + 1]
    BY <1>1, <2>1
  <2>3. q[i] \in Nat /\ q[i + 1] \in Nat /\ q[i + 1] <= l
    BY <1>4, <2>1
  <2> DEFINE x == q[i]  y == q[i + 1]
  <2>4. x \in Nat /\ y \in Nat /\ x < y /\ y <= l /\ l \in Nat
    BY <1>1, <2>2, <2>3
  <2> HIDE DEF x, y, l
  <2>5. x + 1 \in 1 .. l
    BY <2>4
  <2> QED
    BY <1>2, <2>1, <2>2, <2>5 DEF x
<1> QED
  BY <1>1, <1>3, <1>4, <1>5 DEF l, m

LEMMA OneCodeFits ==
  ASSUME NEW b \in Nat, NEW q \in Nat, NEW m \in Nat, NEW c \in Nat \ {0},
         NEW w \in Nat, w <= 5, m <= q * (b + 5)
  PROVE  m + b + w <= (q + c) * (b + 5)
<1> DEFINE k == b + 5
<1>1. k \in Nat /\ b + w <= k /\ m <= q * k
  OBVIOUS
<1> HIDE DEF k
<1>2. (q + c) * k = q * k + c * k
  BY <1>1
<1>3. c * k >= k
  BY <1>1
<1>4. m + b + w <= (q + c) * k
  BY <1>1, <1>2, <1>3
<1> QED
  BY <1>4 DEF k

\* The next symbols of src, from k + 1, are a chunk of a run of s.
IsChunk(src, r, k, s, chunk) ==
  /\ chunk \in Nat \ {0} /\ chunk <= 2^r[s] /\ k + chunk <= Len(src)
  /\ \A j \in k + 1 .. k + chunk : src[j] = s

\* The stream o with one more code parses as one code more.
LEMMA OneCodeMore ==
  ASSUME NEW src \in Seq(Symbols), NEW r \in [Symbols -> Widths],
         NEW o \in Seq({0, 1}), NEW n, NEW p, NEW q,
         NEW s \in Symbols, NEW chunk,
         IsParse(src, r, o, n, p, q), IsChunk(src, r, q[n], s, chunk)
  PROVE  \E p2, q2 :
           /\ IsParse(src, r, Written(o, s, SymbolBits, chunk - 1, r[s]), n + 1,
                      p2, q2)
           /\ q2[n + 1] = q[n] + chunk
<1> DEFINE o2 == Written(o, s, SymbolBits, chunk - 1, r[s])
           b == SymbolBits
           w == r[s]
           len == Len(o)
           qn == q[n]
<1>0. /\ chunk \in Nat \ {0} /\ chunk <= 2^r[s] /\ q[n] + chunk <= Len(src)
      /\ \A k \in q[n] + 1 .. q[n] + chunk : src[k] = s
  BY DEF IsChunk
<1>1. /\ b \in Nat /\ b > 0 /\ w \in Nat /\ w <= 5 /\ 2^w \in Nat
      /\ s \in 0 .. 2^b - 1
  BY SymbolsAreNatural, WidthsArePowers DEF Symbols
<1>2. chunk - 1 \in 0 .. 2^w - 1
  <2> HIDE DEF w
  <2>1. chunk <= 2^w
    BY <1>0 DEF w
  <2> QED
    BY <1>0, <1>1, <2>1
<1>3. /\ n \in Nat /\ p \in [0 .. n -> Nat] /\ q \in [0 .. n -> Nat]
      /\ p[n] = len /\ qn \in Nat /\ len \in Nat /\ Len(src) \in Nat
      /\ qn + chunk <= Len(src) /\ \A k \in qn + 1 .. qn + chunk : src[k] = s
      /\ chunk <= 2^w /\ chunk \in Nat \ {0}
  BY <1>0, Marks DEF IsParse
<1>4. /\ p[0] = 0 /\ q[0] = 0
      /\ \A i \in 0 .. n : p[i] <= q[i] * (b + 5)
      /\ \A i, j \in 0 .. n : i < j => p[i] + b <= p[j] /\ q[i] < q[j]
      /\ \A i \in 0 .. n - 1 : IsCode(src, r, o, p, q, i)
  BY DEF IsParse
<1>5. /\ \A i \in 0 .. n : /\ p[i] \in Nat /\ p[i] <= len
                          /\ q[i] \in Nat /\ q[i] <= qn
      /\ \A i \in 0 .. n - 1 : i + 1 \in 0 .. n /\ src[q[i] + 1] \in Symbols
  BY Marks
<1>6. \A t \in Symbols : r[t] \in Nat
  BY WidthsArePowers
<1>7. o2 = Written(o, s, b, chunk - 1, w)
  OBVIOUS
<1> HIDE DEF o2, b, w, len, qn
<1>8. /\ o2 \in Seq({0, 1}) /\ Len(o2) = len + b + w
      /\ Field(o2, len, b) = s /\ Field(o2, len + b, w) = chunk - 1
      /\ \A at, m \in Nat :
           at + m <= len => Field(o2, at, m) = Field(o, at, m)
  <2> DEFINE f == chunk - 1
  <2>1. f \in 0 .. 2^w - 1 /\ o2 = Written(o, s, b, f, w)
    BY <1>2, <1>7
  <2>2. b \in Nat /\ w \in Nat /\ s \in 0 .. 2^b - 1
    BY <1>1
  <2> HIDE DEF f
  <2>3. /\ o2 \in Seq({0, 1}) /\ Len(o2) = Len(o) + b + w
        /\ Field(o2, Len(o), b) = s /\ Field(o2, Len(o) + b, w) = f
        /\ \A at, m \in Nat :
             at + m <= Len(o) => Field(o2, at, m) = Field(o, at, m)
    <3>1. o \in Seq({0, 1}) /\ f \in 0 .. 2^w - 1
      BY <2>1
    <3> DEFINE u == Written(o, s, b, f, w)
    <3>2. /\ u \in Seq({0, 1}) /\ Len(u) = Len(o) + b + w
          /\ Field(u, Len(o), b) = s /\ Field(u, Len(o) + b, w) = f
      BY <2>2, <3>1, CodeWritten
    <3>3. \A at, m \in Nat :
             at + m <= Len(o) => Field(u, at, m) = Field(o, at, m)
      BY <2>2, <3>1, CodeWritten, SMTT(30)
    <3>4. u = o2
      BY <2>1
    <3> QED
      BY <3>2, <3>3, <3>4
  <2> QED
    BY <2>3 DEF f, len
<1> DEFINE p2 == [i \in 0 .. n + 1 |-> IF i = n + 1 THEN len + b + w ELSE p[i]]
           q2 == [i \in 0 .. n + 1 |-> IF i = n + 1 THEN qn + chunk ELSE q[i]]
<1>9. len + b + w \in Nat /\ qn + chunk \in Nat
  BY <1>1, <1>3
<1>10. p2 \in [0 .. n + 1 -> Nat] /\ q2 \in [0 .. n + 1 -> Nat]
  <2>1. \A i \in 0 .. n + 1 : i = n + 1 \/ i \in 0 .. n
    BY <1>3
  <2> QED
    BY <1>5, <1>9, <2>1
<1>11. /\ p2[n + 1] = len + b + w /\ q2[n + 1] = qn + chunk
       /\ \A i \in 0 .. n : p2[i] = p[i] /\ q2[i] = q[i]
  BY <1>3
<1> HIDE DEF p2, q2
<1>12. \A i \in 0 .. n + 1 : i = n + 1 \/ i \in 0 .. n
  BY <1>3
<1>13. p2[0] = 0 /\ q2[0] = 0 /\ p2[n + 1] = Len(o2) /\ q2[n + 1] <= Len(src)
  <2>1. p2[0] = 0 /\ q2[0] = 0
    BY <1>3, <1>4, <1>11
  <2>2. p2[n + 1] = Len(o2)
    BY <1>8, <1>11
  <2> QED
    BY <1>3, <1>11, <2>1, <2>2
<1>14. ASSUME NEW i \in 0 .. n + 1 PROVE p2[i] <= q2[i] * (b + 5)
  <2>1. CASE i \in 0 .. n
    BY <1>4, <1>11, <2>1
  <2>2. CASE i = n + 1
    <3>1. len <= qn * (b + 5)
      BY <1>3, <1>4 DEF qn
    <3>2. len + b + w <= (qn + chunk) * (b + 5)
      BY <1>1, <1>3, <3>1, OneCodeFits
    <3> QED
      BY <1>11, <2>2, <3>2
  <2> QED
    BY <1>12, <2>1, <2>2
<1>15. ASSUME NEW i \in 0 .. n + 1, NEW j \in 0 .. n + 1, i < j
       PROVE  p2[i] + b <= p2[j] /\ q2[i] < q2[j]
  <2>1. i \in 0 .. n
    BY <1>3, <1>15
  <2>2. CASE j \in 0 .. n
    BY <1>4, <1>11, <1>15, <2>1, <2>2
  <2>3. CASE j = n + 1
    <3>1. p2[i] = p[i] /\ q2[i] = q[i] /\ p[i] \in Nat /\ p[i] <= len
          /\ q[i] \in Nat /\ q[i] <= qn
      BY <1>5, <1>11, <2>1
    <3>2. p2[j] = len + b + w /\ q2[j] = qn + chunk
      BY <1>11, <2>3
    <3>3. /\ b \in Nat /\ w \in Nat /\ len \in Nat /\ qn \in Nat
          /\ chunk \in Nat \ {0}
      BY <1>1, <1>3
    <3> DEFINE x == p[i]  y == q[i]
    <3>4. x \in Nat /\ x <= len /\ y \in Nat /\ y <= qn
      BY <3>1
    <3> HIDE DEF x, y, b, w, len, qn
    <3>5. x + b <= len + b + w /\ y < qn + chunk
      BY <3>3, <3>4
    <3> QED
      BY <3>1, <3>2, <3>5 DEF x, y
  <2> QED
    BY <1>12, <2>2, <2>3
<1>16. ASSUME NEW i \in 0 .. n PROVE IsCode(src, r, o2, p2, q2, i)
  <2>1. CASE i = n
    <3>1. src[qn + 1] = s
      BY <1>3
    <3>2. p2[i] = len /\ q2[i] = qn /\ p2[i + 1] = len + b + w
          /\ q2[i + 1] = qn + chunk
      BY <1>3, <1>11, <2>1 DEF qn
    <3>3. src[q2[i] + 1] = s
      BY <3>1, <3>2
    <3>4. (qn + chunk) - qn - 1 = chunk - 1 /\ qn + chunk <= qn + 2^w
      BY <1>1, <1>3
    <3>5. /\ p2[i + 1] = p2[i] + b + r[s] /\ q2[i + 1] <= q2[i] + 2^r[s]
          /\ \A k \in q2[i] + 1 .. q2[i + 1] : src[k] = s
          /\ Field(o2, p2[i], b) = s
          /\ Field(o2, p2[i] + b, r[s]) = q2[i + 1] - q2[i] - 1
      BY <1>3, <1>8, <3>2, <3>4 DEF w
    <3> QED
      BY <3>3, <3>5 DEF IsCode, b
  <2>2. CASE i < n
    <3> DEFINE t == src[q[i] + 1]
    <3>1. i \in 0 .. n - 1 /\ i + 1 \in 0 .. n
      BY <1>3, <2>2
    <3>2. IsCode(src, r, o, p, q, i) /\ t \in Symbols
      BY <1>4, <1>5, <3>1
    <3>3. p2[i] = p[i] /\ q2[i] = q[i] /\ p2[i + 1] = p[i + 1]
          /\ q2[i + 1] = q[i + 1]
      BY <1>11, <3>1
    <3>4. p[i] \in Nat /\ p[i + 1] \in Nat /\ p[i + 1] <= len /\ r[t] \in Nat
      BY <1>5, <1>6, <3>1, <3>2
    <3>5. /\ p[i + 1] = p[i] + b + r[t] /\ q[i + 1] <= q[i] + 2^r[t]
          /\ \A k \in q[i] + 1 .. q[i + 1] : src[k] = t
          /\ Field(o, p[i], b) = t
          /\ Field(o, p[i] + b, r[t]) = q[i + 1] - q[i] - 1
      BY <3>2 DEF IsCode, b
    <3> HIDE DEF t
    <3>6. p[i] + b \in Nat /\ p[i] + b <= len /\ (p[i] + b) + r[t] <= len
      <4>1. b \in Nat /\ len \in Nat
        BY <1>1, <1>3
      <4> DEFINE x == p[i]
                 y == p[i + 1]
                 z == r[t]
      <4>2. x \in Nat /\ y \in Nat /\ y <= len /\ z \in Nat /\ y = x + b + z
        BY <3>4, <3>5
      <4> HIDE DEF x, y, z
      <4>3. x + b \in Nat /\ x + b <= len /\ (x + b) + z <= len
        BY <4>1, <4>2
      <4> QED
        BY <4>3 DEF x, y, z
    <3>7. Field(o2, p[i], b) = t
      BY <1>1, <1>8, <3>4, <3>5, <3>6
    <3>8. Field(o2, p[i] + b, r[t]) = q[i + 1] - q[i] - 1
      BY <1>8, <3>4, <3>5, <3>6
    <3>9. src[q2[i] + 1] = t
      BY <3>3 DEF t
    <3>10. /\ p2[i + 1] = p2[i] + b + r[t] /\ q2[i + 1] <= q2[i] + 2^r[t]
           /\ \A k \in q2[i] + 1 .. q2[i + 1] : src[k] = t
           /\ Field(o2, p2[i], b) = t
           /\ Field(o2, p2[i] + b, r[t]) = q2[i + 1] - q2[i] - 1
      BY <3>3, <3>5, <3>7, <3>8
    <3> QED
      BY <3>9, <3>10 DEF IsCode, b
  <2> QED
    BY <1>3, <2>1, <2>2
<1>17. n + 1 \in Nat /\ (n + 1) - 1 = n
  BY <1>3
<1>18. \A i \in 0 .. (n + 1) - 1 : IsCode(src, r, o2, p2, q2, i)
  BY <1>16, <1>17
<1>19. IsParse(src, r, o2, n + 1, p2, q2)
  BY <1>10, <1>13, <1>14, <1>15, <1>17, <1>18 DEF IsParse, b
<1> QED
  BY <1>11, <1>19 DEF qn, o2
-----------------------------------------------------------------------------
(* What has been decoded.                                                  *)

First(src, k) == [j \in 1 .. k |-> src[j]]

LEMMA FirstSymbols ==
  ASSUME NEW src \in Seq(Symbols), NEW k \in Nat, k <= Len(src)
  PROVE  /\ First(src, k) \in Seq(Symbols) /\ Len(First(src, k)) = k
         /\ \A j \in 1 .. k : First(src, k)[j] = src[j]
         /\ IsPrefix(First(src, k), src)
         /\ k = 0 => First(src, k) = <<>>
         /\ k = Len(src) => First(src, k) = src
<1> DEFINE f == First(src, k)
           l == Len(src)
<1>1. l \in Nat /\ \A j \in 1 .. l : src[j] \in Symbols
  BY LenProperties, ElementOfSeq
<1>2. src = [j \in 1 .. l |-> src[j]]
  BY LenProperties
<1> HIDE DEF l
<1>3. k <= l
  BY DEF l
<1>4. \A j \in 1 .. k : src[j] \in Symbols
  BY <1>1, <1>3
<1>5. f \in [1 .. k -> Symbols] /\ \A j \in 1 .. k : f[j] = src[j]
  BY <1>4 DEF First
<1>6. f \in Seq(Symbols)
  BY <1>5, SeqDef
<1>7. Len(f) = k
  BY <1>5
<1>8. k = 0 => f = <<>>
  BY DEF First
<1>9. k = l => f = src
  BY <1>2 DEF First
<1> HIDE DEF f
<1>10. IsPrefix(f, src)
  <2>1. SubSeq(f, 1, k) = SubSeq(src, 1, k)
    BY <1>1, <1>3, <1>5, <1>6, <1>7, SubSeqProperties
  <2> QED
    BY <1>3, <1>7, <2>1 DEF IsPrefix, l
<1> QED
  BY <1>5, <1>6, <1>7, <1>8, <1>9, <1>10 DEF f, l

\* A run more.
LEMMA RunAppended ==
  ASSUME NEW src \in Seq(Symbols), NEW k \in Nat, NEW m \in Nat,
         k + m <= Len(src), NEW s \in Symbols,
         \A j \in k + 1 .. k + m : src[j] = s
  PROVE  First(src, k) \o [j \in 1 .. m |-> s] = First(src, k + m)
<1> DEFINE run == [j \in 1 .. m |-> s]
           f == First(src, k)
           g == First(src, k + m)
           l == Len(src)
<1>1. l \in Nat /\ k + m <= l
  BY LenProperties
<1> HIDE DEF l
<1>2. run \in Seq(Symbols) /\ Len(run) = m /\ \A j \in 1 .. m : run[j] = s
  <2>1. run \in [1 .. m -> Symbols]
    OBVIOUS
  <2> QED
    BY <2>1, SeqDef
<1>3. /\ f \in Seq(Symbols) /\ Len(f) = k /\ \A j \in 1 .. k : f[j] = src[j]
      /\ g \in Seq(Symbols) /\ Len(g) = k + m
      /\ \A j \in 1 .. k + m : g[j] = src[j]
  <2>1. k <= l /\ k + m \in Nat
    BY <1>1
  <2> QED
    BY <1>1, <2>1, FirstSymbols DEF l
<1> HIDE DEF run, f, g
<1> DEFINE h == f \o run
<1>4. /\ h \in Seq(Symbols) /\ Len(h) = k + m
      /\ \A j \in 1 .. k + m : h[j] = IF j <= k THEN f[j] ELSE run[j - k]
  <2>1. /\ h \in Seq(Symbols) /\ Len(h) = Len(f) + Len(run)
        /\ \A j \in 1 .. Len(f) + Len(run) : h[j] =
             IF j <= Len(f) THEN f[j] ELSE run[j - Len(f)]
    <3>1. f \in Seq(Symbols) /\ run \in Seq(Symbols)
      BY <1>2, <1>3
    <3> QED
      BY <3>1, ConcatProperties
  <2> QED
    BY <1>2, <1>3, <2>1
<1> HIDE DEF h
<1>5. ASSUME NEW j \in 1 .. k + m PROVE h[j] = g[j]
  <2>1. CASE j <= k
    BY <1>3, <1>4, <2>1
  <2>2. CASE ~(j <= k)
    <3>1. j \in k + 1 .. k + m /\ j - k \in 1 .. m
      BY <2>2
    <3> QED
      BY <1>2, <1>3, <1>4, <2>2, <3>1
  <2> QED
    BY <2>1, <2>2
<1>6. h = g
  BY <1>3, <1>4, <1>5, SeqEqual
<1> QED
  BY <1>6 DEF h, f, g, run

\* A symbol more.
LEMMA SymbolAppended ==
  ASSUME NEW src \in Seq(Symbols), NEW k \in Nat, k + 1 <= Len(src)
  PROVE  Append(First(src, k), src[k + 1]) = First(src, k + 1)
<1> DEFINE f == First(src, k)
           g == First(src, k + 1)
           h == Append(f, src[k + 1])
           l == Len(src)
<1>1. l \in Nat /\ k + 1 <= l /\ src[k + 1] \in Symbols
  BY LenProperties, ElementOfSeq
<1> HIDE DEF l
<1>2. /\ f \in Seq(Symbols) /\ Len(f) = k /\ \A j \in 1 .. k : f[j] = src[j]
      /\ g \in Seq(Symbols) /\ Len(g) = k + 1
      /\ \A j \in 1 .. k + 1 : g[j] = src[j]
  <2>1. k <= l /\ k + 1 \in Nat
    BY <1>1
  <2> QED
    BY <1>1, <2>1, FirstSymbols DEF l
<1> HIDE DEF f, g
<1>3. /\ h \in Seq(Symbols) /\ Len(h) = k + 1 /\ h[k + 1] = src[k + 1]
      /\ \A j \in 1 .. k : h[j] = f[j]
  BY <1>1, <1>2, AppendProperties
<1> HIDE DEF h
<1>4. \A j \in 1 .. k + 1 : j = k + 1 \/ j \in 1 .. k
  OBVIOUS
<1>5. \A j \in 1 .. k + 1 : h[j] = g[j]
  BY <1>2, <1>3, <1>4
<1>6. h = g
  BY <1>2, <1>3, <1>5, SeqEqual
<1> QED
  BY <1>6 DEF h, f, g

\* A decoder that is at the beginning of code i reads this code.
LEMMA CodeIsRead ==
  ASSUME TypeInv, phase \in {"decode", "read"}, NEW n, NEW p, NEW q,
         IsParse(Source, rb, out, n, p, q), NEW i \in 0 .. n, readBits = p[i],
         numBits <= Len(out)
  PROVE  /\ ~IsReadEnd => i \in 0 .. n - 1
         /\ numBits = Len(out) /\ IsReadEnd => i = n
         /\ i \in 0 .. n - 1 =>
              /\ SymbolAt(out, 0) = Source[q[i] + 1]
              /\ readBits + SymbolBits + RunBits = p[i + 1]
              /\ RunField + 1 = q[i + 1] - q[i]
              /\ RunBits = 0 => q[i + 1] = q[i] + 1
              /\ numBits = Len(out) => ~RunIsMissing
              /\ \A k \in q[i] + 1 .. q[i + 1] : Source[k] = SymbolAt(out, 0)
<1> DEFINE len == Len(out)
           b == SymbolBits
<1>1. /\ b \in Nat /\ b > 0 /\ numBits \in Nat /\ readBits \in 0 .. numBits
      /\ rb \in [Symbols -> Widths] /\ out \in Seq({0, 1}) /\ TypeOK
  BY SymbolsAreNatural DEF TypeInv, TypeOK
<1>2. Source \in Seq(Symbols)
  BY <1>1, SourceIsSymbols
<1>3. /\ n \in Nat /\ len \in Nat /\ p[n] = len
      /\ \A j \in 0 .. n : p[j] \in Nat /\ p[j] <= len /\ q[j] \in Nat
      /\ \A j \in 0 .. n - 1 :
           j + 1 \in 0 .. n /\ p[j] + b <= p[j + 1] /\ q[j] < q[j + 1]
           /\ Source[q[j] + 1] \in Symbols
  BY <1>1, <1>2, Marks, ZenonT(60)
<1>4. \A j \in 0 .. n - 1 : IsCode(Source, rb, out, p, q, j)
  BY DEF IsParse
<1>5. IsReadEnd <=> numBits - p[i] < b
  BY DEF IsReadEnd
<1>6. SymbolAt(out, 0) = Field(out, p[i], b)
  <2>1. readBits + 0 * SymbolBits = p[i]
    BY <1>1
  <2> QED
    BY <2>1 DEF SymbolAt
<1>7. numBits <= len
  OBVIOUS
<1> HIDE DEF len, b
<1>8. ASSUME ~IsReadEnd PROVE i \in 0 .. n - 1
  <2>1. i # n
    BY <1>1, <1>3, <1>5, <1>7, <1>8
  <2> QED
    BY <1>3, <2>1
<1>9. ASSUME numBits = len, IsReadEnd PROVE i = n
  <2> SUFFICES ASSUME i # n PROVE FALSE
    OBVIOUS
  <2>1. i \in 0 .. n - 1
    BY <1>3
  <2>2. p[i] + b <= p[i + 1] /\ p[i + 1] <= len /\ p[i] \in Nat
        /\ p[i + 1] \in Nat
    BY <1>3, <2>1
  <2> DEFINE x == p[i]
             y == p[i + 1]
  <2>3. x + b <= y /\ y <= len /\ x \in Nat /\ y \in Nat /\ len - x < b
    BY <1>5, <1>9, <2>2
  <2> HIDE DEF x, y
  <2> QED
    BY <1>1, <1>3, <2>3
<1>10. ASSUME i \in 0 .. n - 1
       PROVE  /\ SymbolAt(out, 0) = Source[q[i] + 1]
              /\ readBits + b + RunBits = p[i + 1]
              /\ RunField + 1 = q[i + 1] - q[i]
              /\ RunBits = 0 => q[i + 1] = q[i] + 1
              /\ numBits = len => ~RunIsMissing
              /\ \A k \in q[i] + 1 .. q[i + 1] : Source[k] = SymbolAt(out, 0)
  <2> DEFINE s == Source[q[i] + 1]
  <2>1. /\ p[i + 1] = p[i] + b + rb[s] /\ q[i + 1] <= q[i] + 2^rb[s]
        /\ \A k \in q[i] + 1 .. q[i + 1] : Source[k] = s
        /\ Field(out, p[i], b) = s
        /\ Field(out, p[i] + b, rb[s]) = q[i + 1] - q[i] - 1
    BY <1>4, <1>10 DEF IsCode, b
  <2> HIDE DEF s
  <2>2. SymbolAt(out, 0) = s
    BY <1>6, <2>1
  <2>3. RunBits = rb[s]
    BY <2>2 DEF RunBits
  <2>4. RunField = q[i + 1] - q[i] - 1
    BY <2>1, <2>3 DEF RunField, b
  <2>5. /\ q[i] \in Nat /\ q[i + 1] \in Nat /\ q[i] < q[i + 1]
        /\ p[i + 1] <= len /\ p[i + 1] \in Nat
    BY <1>3, <1>10
  <2>6. RunField + 1 = q[i + 1] - q[i]
    BY <2>4, <2>5
  <2>7. ASSUME RunBits = 0 PROVE q[i + 1] = q[i] + 1
    <3>1. q[i + 1] <= q[i] + 1
      BY <2>1, <2>3, <2>7
    <3> QED
      BY <2>5, <3>1
  <2>8. readBits + b + RunBits = p[i + 1]
    BY <2>1, <2>3
  <2>9. numBits = len => ~RunIsMissing
    BY <2>5, <2>8, <1>3 DEF RunIsMissing, b
  <2> QED
    BY <2>1, <2>2, <2>6, <2>7, <2>8, <2>9 DEF s
<1> QED
  BY <1>8, <1>9, <1>10 DEF len, b

-----------------------------------------------------------------------------
(* The encoder and the decoders meet at the codes.                         *)

\* What has been decoded is what the codes up to the reader stand for.
DecodedTo(p, q, i) == readBits = p[i] /\ back = First(Source, q[i])

\* The same, less what is left of the last run.
ReadTo(p, q, i) ==
  /\ readBits = p[i] /\ remain \in Nat /\ remain <= q[i]
  /\ back = First(Source, q[i] - remain)
  /\ \A j \in q[i] - remain + 1 .. q[i] : Source[j] = symbol

Progress(n, p, q) ==
  /\ phase = "encode" => q[n] + remain = Position
  /\ phase \notin {"analyse", "encode"} => q[n] = Len(Source)
  /\ phase \in {"decode", "failed"} => \E i \in 0 .. n : DecodedTo(p, q, i)
  /\ phase = "read" /\ numBits = Len(out) => \E i \in 0 .. n : ReadTo(p, q, i)
  /\ phase \in {"decode", "read"} => numBits <= Len(out)
  /\ phase = "failed" => numBits # Len(out)
  /\ phase = "done" /\ numBits = Len(out) => back = Source

\* The stream consists of codes for the source, as far as it has been read.
ParseInv ==
  DOMAIN rb = Symbols /\ EncodeBits = 0 =>
    \E n, p, q : IsParse(Source, rb, out, n, p, q) /\ Progress(n, p, q)

LEMMA ParseStarts == Init => ParseInv
<1> SUFFICES ASSUME Init, DOMAIN rb = Symbols, EncodeBits = 0
             PROVE  \E n, p, q : /\ IsParse(Source, rb, out, n, p, q)
                                 /\ Progress(n, p, q)
  BY DEF ParseInv
<1>1. TypeOK
  BY TypeStarts DEF TypeInv
<1>2. /\ readBits = 0 /\ out = <<>> /\ remain = 0
      /\ phase \in {"analyse", "encode"}
  BY DEF Init
<1>3. Source \in Seq(Symbols)
  BY <1>1, SourceIsSymbols
<1>4. PICK p, q : IsParse(Source, rb, out, 0, p, q) /\ q[0] = 0
  BY <1>2, <1>3, NoCodes
<1>5. Position = 0
  BY <1>2, SymbolsAreNatural DEF Position
<1>6. Progress(0, p, q)
  BY <1>2, <1>4, <1>5 DEF Progress
<1> QED
  BY <1>4, <1>6

LEMMA ParseAnalyse == ParseInv /\ Analyse => ParseInv'
<1> SUFFICES ASSUME ParseInv, Analyse, DOMAIN rb' = Symbols, EncodeBits = 0
             PROVE  \E n, p, q : /\ IsParse(Source', rb', out', n, p, q)
                                 /\ Progress(n, p, q)'
  BY DEF ParseInv
<1>1. phase = "analyse" /\ UNCHANGED <<data, phase, rb, out>>
  BY DEF Analyse, result
<1>2. Source' = Source
  BY <1>1, SourceStays
<1>3. PICK n, p, q : IsParse(Source, rb, out, n, p, q) /\ Progress(n, p, q)
  BY <1>1 DEF ParseInv
<1>4. IsParse(Source', rb', out', n, p, q)
  BY <1>1, <1>2, <1>3
<1>5. Progress(n, p, q)'
  BY <1>1 DEF Progress
<1> QED
  BY <1>4, <1>5

LEMMA ParseChoose == TypeInv /\ TypeInv' /\ PositionInv /\ Choose => ParseInv'
<1> SUFFICES ASSUME TypeInv, TypeInv', PositionInv, Choose
             PROVE  \E n, p, q : /\ IsParse(Source', rb', out', n, p, q)
                                 /\ Progress(n, p, q)'
  BY DEF ParseInv
<1>1. phase = "analyse" /\ phase' = "encode" /\ readBits' = 0
      /\ UNCHANGED <<data, remain, out>>
  BY DEF Choose, result
<1>2. Source' = Source /\ out' = <<>> /\ remain' = 0 /\ TypeOK
  BY <1>1, SourceStays DEF PositionInv, TypeInv
<1>3. Source \in Seq(Symbols)
  BY <1>2, SourceIsSymbols
<1>4. PICK p, q : IsParse(Source, rb', out', 0, p, q) /\ q[0] = 0
  BY <1>2, <1>3, NoCodes
<1>5. Position' = 0
  BY <1>1, SymbolsAreNatural DEF Position
<1>6. Progress(0, p, q)'
  BY <1>1, <1>2, <1>4, <1>5 DEF Progress
<1> QED
  BY <1>2, <1>4, <1>6

LEMMA ParseRun ==
  TypeInv /\ TypeInv' /\ PositionInv /\ ParseInv /\ EncodeRun => ParseInv'
<1> SUFFICES ASSUME TypeInv, TypeInv', PositionInv, ParseInv, EncodeRun,
                    DOMAIN rb' = Symbols, EncodeBits = 0
             PROVE  \E n, p, q : /\ IsParse(Source', rb', out', n, p, q)
                                 /\ Progress(n, p, q)'
  BY DEF ParseInv
<1>1. /\ phase = "encode" /\ remain = 0 /\ ~IsReadEnd /\ remain' = RunHere
      /\ readBits' = readBits + RunHere * SymbolBits
      /\ UNCHANGED <<data, phase, numBits, rb, out>>
  BY DEF EncodeRun, result
<1>2. Source' = Source /\ TypeOK /\ ReaderAtRun
  BY <1>1, SourceStays DEF TypeInv, PositionInv
<1>3. PICK n, p, q : IsParse(Source, rb, out, n, p, q) /\ Progress(n, p, q)
  BY <1>1 DEF ParseInv
<1>4. Position' = Position + RunHere /\ Position \in Nat
  BY <1>1, <1>2, ReaderMoves DEF Position
<1>5. q[n] + 0 = Position
  BY <1>1, <1>3 DEF Progress
<1>6. q[n] \in Nat
  BY <1>2, <1>3, SourceIsSymbols, Marks DEF TypeOK
<1>7. q[n] + remain' = Position'
  BY <1>1, <1>4, <1>5, <1>6
<1>8. Progress(n, p, q)'
  BY <1>1, <1>7 DEF Progress
<1> QED
  BY <1>1, <1>2, <1>3, <1>8

LEMMA ParseChunk ==
  TypeInv /\ TypeInv' /\ PositionInv /\ ParseInv /\ EncodeChunk => ParseInv'
<1> SUFFICES ASSUME TypeInv, TypeInv', PositionInv, ParseInv, EncodeChunk,
                    DOMAIN rb' = Symbols, EncodeBits = 0
             PROVE  \E n, p, q : /\ IsParse(Source', rb', out', n, p, q)
                                 /\ Progress(n, p, q)'
  BY DEF ParseInv
<1> DEFINE chunk == Smaller(remain, 2^rb[symbol])
<1>1. /\ phase = "encode" /\ remain > 0 /\ remain' = remain - chunk
      /\ out' = Written(out, symbol, SymbolBits, chunk - 1, rb[symbol])
      /\ UNCHANGED <<data, phase, readBits, rb, symbol>>
  BY DEF EncodeChunk, Write, Written, result
<1>2. /\ Source' = Source /\ TypeOK /\ rb \in [Symbols -> Widths]
      /\ remain \in Nat /\ symbol \in Symbols /\ out \in Seq({0, 1})
      /\ rb[symbol] \in Widths
  BY <1>1, SourceStays DEF TypeInv, TypeOK
<1>3. /\ ReaderAtRun
      /\ \A j \in Position - remain + 1 .. Position : Source[j] = symbol
  BY <1>1 DEF PositionInv
<1>4. PICK n, p, q : IsParse(Source, rb, out, n, p, q) /\ Progress(n, p, q)
  BY <1>1 DEF ParseInv
<1>5. Source \in Seq(Symbols) /\ Len(Source) \in Nat /\ Position \in Nat
      /\ Position <= Len(Source) /\ q[n] \in Nat
  BY <1>2, <1>3, <1>4, SourceIsSymbols, ReaderMoves, Marks
<1>6. chunk \in Nat \ {0} /\ chunk <= remain /\ chunk <= 2^rb[symbol]
  BY <1>1, <1>2, WidthsArePowers DEF Smaller
<1> HIDE DEF chunk
<1>7. q[n] + remain = Position
  BY <1>1, <1>4 DEF Progress
<1>8. /\ q[n] + chunk <= Len(Source)
      /\ \A k \in q[n] + 1 .. q[n] + chunk : Source[k] = symbol
  <2> DEFINE m == q[n]
             l == Len(Source)
             z == Position
  <2>1. /\ m \in Nat /\ l \in Nat /\ z \in Nat /\ z <= l /\ m + remain = z
        /\ \A j \in z - remain + 1 .. z : Source[j] = symbol
        /\ chunk \in Nat /\ chunk <= remain /\ remain \in Nat
    BY <1>2, <1>3, <1>5, <1>6, <1>7
  <2> HIDE DEF m, l, z
  <2>2. m + chunk <= l
    BY <2>1
  <2>3. \A k \in m + 1 .. m + chunk : k \in z - remain + 1 .. z
    BY <2>1
  <2> QED
    BY <2>1, <2>2, <2>3 DEF m, l
<1>9. PICK p2, q2 : /\ IsParse(Source, rb, out', n + 1, p2, q2)
                    /\ q2[n + 1] = q[n] + chunk
  <2> DEFINE o2 == Written(out, symbol, SymbolBits, chunk - 1, rb[symbol])
  <2>1. \E p2, q2 : /\ IsParse(Source, rb, o2, n + 1, p2, q2)
                    /\ q2[n + 1] = q[n] + chunk
    <3>1. IsChunk(Source, rb, q[n], symbol, chunk)
      BY <1>6, <1>8 DEF IsChunk
    <3> QED
      <4>1. /\ Source \in Seq(Symbols) /\ rb \in [Symbols -> Widths]
            /\ out \in Seq({0, 1}) /\ symbol \in Symbols
            /\ IsParse(Source, rb, out, n, p, q)
        BY <1>2, <1>4, <1>5
      <4> QED
        BY <3>1, <4>1, OneCodeMore
  <2> HIDE DEF o2
  <2>2. out' = o2
    BY <1>1 DEF o2
  <2> QED
    BY <2>1, <2>2
<1>10. Position' = Position
  BY <1>1 DEF Position
<1>11. q2[n + 1] + remain' = Position'
  BY <1>1, <1>2, <1>5, <1>6, <1>7, <1>9, <1>10
<1>12. Progress(n + 1, p2, q2)'
  BY <1>1, <1>11 DEF Progress
<1> QED
  BY <1>1, <1>2, <1>9, <1>12

LEMMA ParseEncodeEnds ==
  ASSUME TypeInv, PositionInv, ParseInv,
         NEW a \in Arrived, NEW d \in {"decode", "read"}, EncodeEnds(a, d)
  PROVE  ParseInv'
<1> SUFFICES ASSUME EncodeBits = 0
             PROVE  \E n, p, q : /\ IsParse(Source', rb', out', n, p, q)
                                 /\ Progress(n, p, q)'
  BY DEF ParseInv
<1>1. /\ phase = "encode" /\ DOMAIN rb = Symbols /\ remain = 0 /\ IsReadEnd
      /\ phase' = d /\ numBits' = a /\ readBits' = 0
      /\ UNCHANGED <<data, rb, symbol, remain, out, back>>
  BY DEF EncodeEnds, result
<1>2. /\ Source' = Source /\ TypeOK /\ back = <<>> /\ ReaderAtRun
      /\ out \in Seq({0, 1})
  BY <1>1, SourceStays DEF TypeInv, TypeOK, PositionInv
<1>3. Position = Len(Source) /\ Source \in Seq(Symbols)
  BY <1>1, <1>2, ReaderMoves, SourceIsSymbols
<1>4. PICK n, p, q : IsParse(Source, rb, out, n, p, q) /\ Progress(n, p, q)
  BY <1>1 DEF ParseInv
<1>5. /\ n \in Nat /\ q[n] \in Nat /\ Len(Source) \in Nat /\ Len(out) \in Nat
      /\ p[0] = 0 /\ q[0] = 0
  BY <1>2, <1>3, <1>4, Marks DEF IsParse
<1>6. q[n] = Len(Source)
  BY <1>1, <1>3, <1>4, <1>5 DEF Progress
<1>7. First(Source, 0) = <<>>
  BY <1>3, <1>5, FirstSymbols
<1>8. 0 \in 0 .. n /\ a <= Len(out)
  BY <1>5 DEF Arrived
<1>9. DecodedTo(p, q, 0)' /\ ReadTo(p, q, 0)'
  <2>1. 0 - 0 = 0 /\ \A j \in 0 - 0 + 1 .. 0 : FALSE
    OBVIOUS
  <2> QED
    BY <1>1, <1>2, <1>5, <1>7, <2>1 DEF DecodedTo, ReadTo
<1>10. Progress(n, p, q)'
  BY <1>1, <1>2, <1>6, <1>8, <1>9 DEF Progress
<1> QED
  BY <1>1, <1>2, <1>4, <1>10

LEMMA ParseDecode ==
  TypeInv /\ TypeInv' /\ ParseInv /\ (DecodeCode \/ DecodeFails) => ParseInv'
<1> SUFFICES ASSUME TypeInv, TypeInv', ParseInv, DecodeCode \/ DecodeFails,
                    DOMAIN rb' = Symbols, EncodeBits = 0
             PROVE  \E n, p, q : /\ IsParse(Source', rb', out', n, p, q)
                                 /\ Progress(n, p, q)'
  BY DEF ParseInv
<1>1. /\ phase = "decode" /\ ~IsReadEnd
      /\ UNCHANGED <<data, numBits, rb, out>>
  BY DEF DecodeCode, DecodeFails, result
<1>2. Source' = Source /\ TypeOK /\ out \in Seq({0, 1})
  BY <1>1, SourceStays DEF TypeInv, TypeOK
<1>3. PICK n, p, q : IsParse(Source, rb, out, n, p, q) /\ Progress(n, p, q)
  BY <1>1 DEF ParseInv
<1>4. q[n] = Len(Source) /\ numBits <= Len(out)
  BY <1>1, <1>3 DEF Progress
<1>5. PICK i \in 0 .. n : DecodedTo(p, q, i)
  BY <1>1, <1>3 DEF Progress
<1>6. readBits = p[i] /\ back = First(Source, q[i])
  BY <1>5 DEF DecodedTo
<1>7. /\ i \in 0 .. n - 1
      /\ SymbolAt(out, 0) = Source[q[i] + 1]
      /\ readBits + SymbolBits + RunBits = p[i + 1]
      /\ RunField + 1 = q[i + 1] - q[i]
      /\ RunBits = 0 => q[i + 1] = q[i] + 1
      /\ numBits = Len(out) => ~RunIsMissing
      /\ \A k \in q[i] + 1 .. q[i + 1] : Source[k] = SymbolAt(out, 0)
  BY <1>1, <1>3, <1>4, <1>6, CodeIsRead
<1>8. Source \in Seq(Symbols)
  BY <1>2, SourceIsSymbols
<1>9. /\ i + 1 \in 0 .. n /\ q[i] \in Nat /\ q[i + 1] \in Nat
      /\ q[i] < q[i + 1] /\ q[i + 1] <= Len(Source)
      /\ Source[q[i] + 1] \in Symbols
  BY <1>2, <1>3, <1>7, <1>8, Marks, ZenonT(60)
<1>10. CASE DecodeCode
  <2>1. /\ phase' = "decode" /\ back' = back \o Run(RunField + 1)
        /\ readBits' = p[i + 1]
    BY <1>1, <1>7, <1>10 DEF DecodeCode
  <2> DEFINE m == q[i + 1] - q[i]
             s == SymbolAt(out, 0)
  <2>2. m \in Nat /\ q[i] + m = q[i + 1] /\ (RunBits = 0 => m = 1)
    <3> DEFINE x == q[i]  y == q[i + 1]
    <3>1. x \in Nat /\ y \in Nat /\ x < y /\ (RunBits = 0 => y = x + 1)
      BY <1>7, <1>9
    <3> HIDE DEF x, y
    <3>2. y - x \in Nat /\ x + (y - x) = y /\ (RunBits = 0 => y - x = 1)
      BY <3>1
    <3> QED
      BY <3>2 DEF x, y
  <2>3. Run(RunField + 1) = [j \in 1 .. m |-> s]
    <3> HIDE DEF m
    <3>1. RunField + 1 = m
      BY <1>7 DEF m
    <3> QED
      BY <2>2, <3>1 DEF Run
  <2>4. s \in Symbols
    BY <1>7, <1>9
  <2>5. First(Source, q[i]) \o [j \in 1 .. m |-> s] = First(Source, q[i] + m)
    <3> HIDE DEF m, s
    <3>1. q[i] + m <= Len(Source)
      BY <1>9, <2>2
    <3>2. \A j \in q[i] + 1 .. q[i] + m : Source[j] = s
      BY <1>7, <2>2 DEF s
    <3> QED
      BY <1>8, <1>9, <2>2, <2>4, <3>1, <3>2, RunAppended
  <2> HIDE DEF m, s
  <2>6. back' = First(Source, q[i + 1])
    BY <1>6, <2>1, <2>2, <2>3, <2>5
  <2>7. DecodedTo(p, q, i + 1)'
    BY <1>2, <2>1, <2>6 DEF DecodedTo
  <2>8. Progress(n, p, q)'
    BY <1>1, <1>2, <1>4, <1>9, <2>1, <2>7 DEF Progress
  <2> QED
    BY <1>1, <1>2, <1>3, <2>8
<1>11. CASE DecodeFails
  <2>1. phase' = "failed" /\ RunIsMissing /\ UNCHANGED <<readBits, back>>
    BY <1>11 DEF DecodeFails
  <2>2. numBits # Len(out)
    BY <1>7, <2>1
  <2>3. DecodedTo(p, q, i)'
    BY <1>2, <1>6, <2>1 DEF DecodedTo
  <2>4. Progress(n, p, q)'
    BY <1>1, <1>2, <1>4, <2>1, <2>2, <2>3 DEF Progress
  <2> QED
    BY <1>1, <1>2, <1>3, <2>4
<1> QED
  BY <1>10, <1>11

LEMMA ParseRepeats ==
  TypeInv /\ TypeInv' /\ ParseInv /\ ReadRepeats => ParseInv'
<1> SUFFICES ASSUME TypeInv, TypeInv', ParseInv, ReadRepeats,
                    DOMAIN rb' = Symbols, EncodeBits = 0
             PROVE  \E n, p, q : /\ IsParse(Source', rb', out', n, p, q)
                                 /\ Progress(n, p, q)'
  BY DEF ParseInv
<1>1. /\ phase = "read" /\ phase' = "read" /\ remain > 0 /\ remain' = remain - 1
      /\ back' = Append(back, symbol)
      /\ UNCHANGED <<data, numBits, readBits, rb, symbol, out>>
  BY DEF ReadRepeats, result
<1>2. Source' = Source /\ TypeOK /\ out \in Seq({0, 1})
  BY <1>1, SourceStays DEF TypeInv, TypeOK
<1>3. PICK n, p, q : IsParse(Source, rb, out, n, p, q) /\ Progress(n, p, q)
  BY <1>1 DEF ParseInv
<1>4. Source \in Seq(Symbols)
  BY <1>2, SourceIsSymbols
<1>5. ASSUME NEW i \in 0 .. n, ReadTo(p, q, i) PROVE ReadTo(p, q, i)'
  <2> DEFINE k == q[i] - remain
  <2>1. /\ q[i] \in Nat /\ q[i] <= Len(Source) /\ Len(Source) \in Nat
    BY <1>2, <1>3, <1>4, Marks
  <2>2. /\ readBits = p[i] /\ remain \in Nat /\ remain <= q[i]
        /\ back = First(Source, k)
        /\ \A j \in k + 1 .. q[i] : Source[j] = symbol
    BY <1>5 DEF ReadTo
  <2>3. /\ k \in Nat /\ k + 1 <= Len(Source) /\ k + 1 = q[i] - (remain - 1)
        /\ k + 1 \in k + 1 .. q[i] /\ remain - 1 \in Nat /\ remain - 1 <= q[i]
    <3>1. \A x, l, r \in Nat : x <= l /\ r <= x /\ r > 0 =>
            /\ x - r \in Nat /\ (x - r) + 1 <= l /\ (x - r) + 1 = x - (r - 1)
            /\ (x - r) + 1 \in (x - r) + 1 .. x /\ r - 1 \in Nat /\ r - 1 <= x
      OBVIOUS
    <3> QED
      BY <1>1, <2>1, <2>2, <3>1
  <2> HIDE DEF k
  <2>4. Source[k + 1] = symbol
    BY <2>2, <2>3
  <2>5. Append(back, symbol) = First(Source, k + 1)
    BY <1>4, <2>2, <2>3, <2>4, SymbolAppended
  <2>6. \A j \in (k + 1) + 1 .. q[i] : j \in k + 1 .. q[i]
    BY <2>1, <2>3
  <2>7. q[i] - remain' = k + 1
    BY <1>1, <2>3
  <2>8. back' = First(Source', q[i] - remain')
    BY <1>1, <1>2, <2>5, <2>7
  <2>9. \A j \in q[i] - remain' + 1 .. q[i] : Source'[j] = symbol'
    BY <1>1, <1>2, <2>2, <2>6, <2>7
  <2> QED
    BY <1>1, <2>2, <2>3, <2>8, <2>9 DEF ReadTo
<1>6. Progress(n, p, q)'
  BY <1>1, <1>2, <1>3, <1>5 DEF Progress
<1> QED
  BY <1>1, <1>2, <1>3, <1>6

LEMMA ParseRead == TypeInv /\ TypeInv' /\ ParseInv /\ ReadCode => ParseInv'
<1> SUFFICES ASSUME TypeInv, TypeInv', ParseInv, ReadCode,
                    DOMAIN rb' = Symbols, EncodeBits = 0
             PROVE  \E n, p, q : /\ IsParse(Source', rb', out', n, p, q)
                                 /\ Progress(n, p, q)'
  BY DEF ParseInv
<1>1. /\ phase = "read" /\ phase' = "read" /\ remain <= 0 /\ ~IsReadEnd
      /\ symbol' = SymbolAt(out, 0) /\ back' = Append(back, symbol')
      /\ UNCHANGED <<data, numBits, rb, out>>
  BY DEF ReadCode, result
<1>2. Source' = Source /\ TypeOK /\ out \in Seq({0, 1})
  BY <1>1, SourceStays DEF TypeInv, TypeOK
<1>3. PICK n, p, q : IsParse(Source, rb, out, n, p, q) /\ Progress(n, p, q)
  BY <1>1 DEF ParseInv
<1>4. Source \in Seq(Symbols)
  BY <1>2, SourceIsSymbols
<1>5. numBits <= Len(out) /\ q[n] = Len(Source)
  BY <1>1, <1>3 DEF Progress
<1>6. ASSUME NEW i \in 0 .. n, ReadTo(p, q, i), numBits = Len(out)
      PROVE  i + 1 \in 0 .. n /\ ReadTo(p, q, i + 1)'
  <2>1. /\ readBits = p[i] /\ remain = 0 /\ back = First(Source, q[i] - 0)
    BY <1>1, <1>6 DEF ReadTo
  <2>2. /\ i \in 0 .. n - 1
        /\ SymbolAt(out, 0) = Source[q[i] + 1]
        /\ readBits + SymbolBits + RunBits = p[i + 1]
        /\ RunField + 1 = q[i + 1] - q[i]
        /\ RunBits = 0 => q[i + 1] = q[i] + 1
        /\ ~RunIsMissing
        /\ \A k \in q[i] + 1 .. q[i + 1] : Source[k] = SymbolAt(out, 0)
    BY <1>1, <1>3, <1>5, <1>6, <2>1, CodeIsRead
  <2>3. /\ i + 1 \in 0 .. n /\ q[i] \in Nat /\ q[i + 1] \in Nat
        /\ q[i] < q[i + 1] /\ q[i + 1] <= Len(Source)
    BY <1>2, <1>3, <1>4, <2>2, Marks, ZenonT(60)
  <2>4. RunField = q[i + 1] - q[i] - 1
    <3>1. RunField \in Nat
      BY <1>1, CodeIsTyped
    <3> QED
      BY <2>2, <2>3, <3>1
  <2>5. readBits' = p[i + 1] /\ remain' = q[i + 1] - q[i] - 1
    <3>1. RunBits \in Nat /\ readBits \in Nat
      BY <1>1, <1>2, CodeIsTyped DEF TypeOK
    <3>2. CASE RunBits = 0
      <4>1. remain' = remain /\ readBits' = readBits + SymbolBits
        BY <3>2 DEF ReadCode
      <4>2. q[i + 1] - q[i] - 1 = 0
        BY <2>2, <2>3, <3>2
      <4>3. readBits + SymbolBits + RunBits = readBits + SymbolBits
        BY <3>1, <3>2, SymbolsAreNatural
      <4> QED
        BY <2>1, <2>2, <4>1, <4>2, <4>3
    <3>3. CASE RunBits > 0
      BY <2>2, <2>4, <3>1, <3>3 DEF ReadCode
    <3> QED
      BY <3>1, <3>2, <3>3
  <2> DEFINE x == q[i]
             y == q[i + 1]
  <2>6. x \in Nat /\ y \in Nat /\ x < y /\ y <= Len(Source)
        /\ Len(Source) \in Nat
    BY <1>4, <2>3, LenProperties
  <2>7. remain' = y - x - 1 /\ back = First(Source, x)
        /\ symbol' = Source[x + 1]
        /\ \A j \in x + 1 .. y : Source[j] = symbol'
    BY <1>1, <2>1, <2>2, <2>5, <2>6
  <2> HIDE DEF x, y
  <2>8. /\ remain' \in Nat /\ remain' <= y /\ y - remain' = x + 1
        /\ x + 1 <= Len(Source)
    BY <2>6, <2>7
  <2>9. back' = First(Source, x + 1)
    BY <1>1, <1>4, <2>6, <2>7, <2>8, SymbolAppended
  <2>10. \A j \in y - remain' + 1 .. y : Source[j] = symbol'
    <3>1. \A j \in (x + 1) + 1 .. y : j \in x + 1 .. y
      BY <2>6
    <3> QED
      BY <2>7, <2>8, <3>1
  <2> QED
    BY <1>2, <2>3, <2>5, <2>8, <2>9, <2>10 DEF ReadTo, x, y
<1>7. Progress(n, p, q)'
  BY <1>1, <1>2, <1>3, <1>5, <1>6 DEF Progress
<1> QED
  BY <1>1, <1>2, <1>3, <1>7

LEMMA ParseDecodeEnds == TypeInv /\ TypeInv' /\ ParseInv /\ DecodeEnds => ParseInv'
<1> SUFFICES ASSUME TypeInv, TypeInv', ParseInv, DecodeEnds,
                    DOMAIN rb' = Symbols, EncodeBits = 0
             PROVE  \E n, p, q : /\ IsParse(Source', rb', out', n, p, q)
                                 /\ Progress(n, p, q)'
  BY DEF ParseInv
<1>1. /\ phase = "decode" \/ (phase = "read" /\ remain <= 0)
      /\ phase' = "done" /\ IsReadEnd
      /\ UNCHANGED <<data, numBits, rb, out, back>>
  BY DEF DecodeEnds, result
<1>2. Source' = Source /\ TypeOK /\ out \in Seq({0, 1})
  BY <1>1, SourceStays DEF TypeInv, TypeOK
<1>3. PICK n, p, q : IsParse(Source, rb, out, n, p, q) /\ Progress(n, p, q)
  BY <1>1 DEF ParseInv
<1>4. Source \in Seq(Symbols) /\ Len(Source) \in Nat
  BY <1>2, SourceIsSymbols
<1>5. q[n] = Len(Source) /\ numBits <= Len(out)
  BY <1>1, <1>3 DEF Progress
<1>6. First(Source, q[n]) = Source
  BY <1>4, <1>5, FirstSymbols
<1>7. ASSUME numBits = Len(out) PROVE back = Source
  <2>1. CASE phase = "decode"
    <3>1. PICK i \in 0 .. n : DecodedTo(p, q, i)
      BY <1>3, <2>1 DEF Progress
    <3>2. readBits = p[i] /\ back = First(Source, q[i])
      BY <3>1 DEF DecodedTo
    <3>3. i = n
      BY <1>1, <1>3, <1>5, <1>7, <2>1, <3>2, CodeIsRead
    <3> QED
      BY <1>6, <3>2, <3>3
  <2>2. CASE phase = "read" /\ remain <= 0
    <3>1. PICK i \in 0 .. n : ReadTo(p, q, i)
      BY <1>3, <1>7, <2>2 DEF Progress
    <3>2. readBits = p[i] /\ remain = 0 /\ back = First(Source, q[i] - 0)
      BY <2>2, <3>1 DEF ReadTo
    <3>3. i = n
      BY <1>1, <1>3, <1>5, <1>7, <2>2, <3>2, CodeIsRead
    <3> QED
      BY <1>4, <1>5, <1>6, <3>2, <3>3
  <2> QED
    BY <1>1, <2>1, <2>2
<1>8. Progress(n, p, q)'
  BY <1>1, <1>2, <1>5, <1>7 DEF Progress
<1> QED
  BY <1>1, <1>2, <1>3, <1>8

LEMMA ParseInductive == Spec => []ParseInv
<1>1. TypeInv /\ TypeInv' /\ PositionInv /\ ParseInv /\ [Next]_vars => ParseInv'
  <2> SUFFICES ASSUME TypeInv, TypeInv', PositionInv, ParseInv, [Next]_vars
               PROVE  ParseInv'
    OBVIOUS
  <2>1. CASE RejectRb
    BY <2>1 DEF RejectRb, ParseInv
  <2>2. CASE UNCHANGED vars
    <3>1. Source' = Source
      BY <2>2, SourceStays DEF vars, result
    <3> QED
      BY <2>2, <3>1
      DEF vars, result, ParseInv, Progress, DecodedTo, ReadTo, Position
  <2>3. CASE \E a \in Arrived, d \in {"decode", "read"} : EncodeEnds(a, d)
    BY <2>3, ParseEncodeEnds
  <2> QED
    BY <2>1, <2>2, <2>3, ParseAnalyse, ParseChoose, ParseRun, ParseChunk,
       ParseDecode, ParseRepeats, ParseRead, ParseDecodeEnds DEF Next
<1> QED
  BY <1>1, PositionInductive, TypeInductive, ParseStarts, PTL DEF Spec

\* Whatever run bit lengths Encode uses, what it writes decodes to the data,
\* with Decode and with ReadSymbol.
THEOREM AlwaysRoundTrip ==
  ASSUME EncodeBits = 0
  PROVE  Spec => []RoundTrip
<1>1. ParseInv => RoundTrip
  BY DEF ParseInv, RoundTrip, Progress
<1> QED
  BY <1>1, ParseInductive, PTL

\* However few bits of the stream arrive, Decode writes symbols of the data only.
THEOREM AlwaysKeepsPrefix ==
  ASSUME EncodeBits = 0
  PROVE  Spec => []DecodeKeepsPrefix
<1>1. TypeInv /\ PositionInv /\ ParseInv => DecodeKeepsPrefix
  <2> SUFFICES ASSUME TypeInv, PositionInv, ParseInv, phase \in {"decode", "failed"}
               PROVE  IsPrefix(back, Source)
    BY DEF DecodeKeepsPrefix
  <2>1. Source \in Seq(Symbols) /\ Len(Source) \in Nat /\ out \in Seq({0, 1})
    BY SourceIsSymbols DEF TypeInv, TypeOK
  <2>2. CASE DOMAIN rb = Symbols
    <3>1. PICK n, p, q : IsParse(Source, rb, out, n, p, q) /\ Progress(n, p, q)
      BY <2>2 DEF ParseInv
    <3>2. PICK i \in 0 .. n : back = First(Source, q[i])
      BY <3>1 DEF Progress, DecodedTo
    <3>3. q[i] \in Nat /\ q[i] <= Len(Source)
      BY <2>1, <3>1, Marks
    <3> QED
      BY <2>1, <3>2, <3>3, FirstSymbols
  <2>3. CASE DOMAIN rb # Symbols
    <3>1. back = First(Source, 0)
      BY <2>1, <2>3, FirstSymbols DEF PositionInv
    <3> QED
      BY <2>1, <3>1, FirstSymbols
  <2> QED
    BY <2>2, <2>3
<1> QED
  BY <1>1, PositionInductive, ParseInductive, PTL

\* The buffer that LineInfo.Initialize gives an encoded stream is large enough,
\* at each step of the encoding.
THEOREM AlwaysFits ==
  ASSUME EncodeBits = 0
  PROVE  Spec => []OutputFits
<1>1. TypeInv /\ PositionInv /\ ParseInv => OutputFits
  <2> SUFFICES ASSUME TypeInv, PositionInv, ParseInv
               PROVE  Len(out) <= (Len(data) \div SymbolBits) * (SymbolBits + 5)
    BY DEF OutputFits
  <2> DEFINE l == Len(Source)
             c == SymbolBits + 5
  <2>1. /\ Source \in Seq(Symbols) /\ l \in Nat /\ out \in Seq({0, 1})
        /\ l = Len(data) \div SymbolBits /\ c \in Nat
    BY SourceIsSymbols, SymbolsAreNatural DEF TypeInv, TypeOK
  <2>2. Len(out) <= l * c
    <3>1. CASE DOMAIN rb = Symbols
      <4>1. PICK n, p, q : IsParse(Source, rb, out, n, p, q)
        BY <3>1 DEF ParseInv
      <4>2. n \in Nat /\ p[n] = Len(out) /\ q[n] \in Nat /\ q[n] <= l
            /\ Len(out) \in Nat
        BY <2>1, <4>1, Marks DEF IsParse
      <4>3. p[n] <= q[n] * c
        BY <4>1, <4>2 DEF IsParse
      <4> HIDE DEF l, c
      <4> DEFINE m == q[n]
      <4>4. m \in Nat /\ m <= l /\ Len(out) <= m * c
        BY <4>2, <4>3
      <4> HIDE DEF m
      <4>5. m * c <= l * c /\ m * c \in Nat /\ l * c \in Nat
        BY <2>1, <4>4
      <4> QED
        BY <4>2, <4>4, <4>5
    <3>2. CASE DOMAIN rb # Symbols
      <4>1. Len(out) = 0
        BY <3>2 DEF PositionInv
      <4> HIDE DEF l, c
      <4>2. l * c \in Nat
        BY <2>1
      <4> QED
        BY <4>1, <4>2
    <3> QED
      BY <3>1, <3>2
  <2> QED
    BY <2>1, <2>2
<1> QED
  BY <1>1, PositionInductive, ParseInductive, PTL

=============================================================================
