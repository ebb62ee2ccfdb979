--------------------------- MODULE SrlenSizeProofs ---------------------------
(***************************************************************************)
(* The operators of SrlenSize, for streams of every length and symbols of  *)
(* every size: sums over runs, the runs of a stream and how they follow each *)
(* other, the widths that EncodePrepare chooses, and how long an encoding can *)
(* be.  The proofs about Srlen and FrameEncoder use these lemmas.          *)
(***************************************************************************)
EXTENDS SrlenSize, WellFoundedInduction, FunctionTheorems, FiniteSetTheorems,
        SequenceTheorems, TLAPS

\* A set of natural numbers has a least one.
LEMMA LeastNatural ==
  ASSUME NEW T \in SUBSET Nat, T # {}
  PROVE  \E x \in T : \A y \in T : x <= y
<1> DEFINE R == {ss \in Nat \X Nat : ss[1] < ss[2]}
<1>1. IsWellFoundedOn(R, Nat)
  BY NatLessThanWellFounded DEF OpToRel
<1>2. T \subseteq Nat
  OBVIOUS
<1> HIDE DEF R
<1>3. PICK x \in T : \A y \in T : ~ (<<y, x>> \in R)
  BY <1>1, <1>2, WFMin
<1>4. \A y \in T : ~ (y < x)
  BY <1>3 DEF R
<1> QED
  BY <1>4

\* Induction: what holds of 0, and of n + 1 if of n, holds of every number.
LEMMA Induction ==
  ASSUME NEW S \in SUBSET Nat, 0 \in S, \A n \in S : n + 1 \in S
  PROVE  S = Nat
<1> SUFFICES ASSUME Nat \ S # {} PROVE FALSE
  OBVIOUS
<1>1. PICK x \in Nat \ S : \A y \in Nat \ S : x <= y
  BY LeastNatural
<1>2. x - 1 \in Nat
  OBVIOUS
<1>3. x - 1 \in S
  BY <1>1, <1>2
<1>4. x - 1 + 1 \in S
  BY <1>3
<1> QED
  BY <1>4

\* The same, for the subsets of a finite set.
LEMMA SetInduction ==
  ASSUME NEW S, IsFiniteSet(S), NEW A \in SUBSET SUBSET S, {} \in A,
         \A T \in A : \A x \in S \ T : T \cup {x} \in A
  PROVE  \A T \in SUBSET S : T \in A
<1> DEFINE N == {n \in Nat : \A T \in SUBSET S : Cardinality(T) = n => T \in A}
<1>1. \A T \in SUBSET S : IsFiniteSet(T) /\ Cardinality(T) \in Nat
  BY FS_Subset, FS_CardinalityType
<1>2. 0 \in N
  BY <1>1, FS_EmptySet
<1>3. ASSUME NEW n \in N PROVE n + 1 \in N
  <2>1. SUFFICES ASSUME NEW T \in SUBSET S, Cardinality(T) = n + 1 PROVE T \in A
    BY <1>3
  <2>2. T # {}
    BY <2>1, FS_EmptySet, n + 1 # 0
  <2>3. PICK x \in T : TRUE
    BY <2>2
  <2>4. Cardinality(T \ {x}) = n
    <3>1. IsFiniteSet(T) /\ x \in T /\ n \in Nat
      BY <1>1, <2>3
    <3>2. Cardinality(T \ {x}) = Cardinality(T) - 1
      BY <3>1, FS_RemoveElement
    <3> QED
      BY <2>1, <3>1, <3>2
  <2>5. T \ {x} \in A
    BY <2>4
  <2>6. (T \ {x}) \cup {x} = T /\ x \in S \ (T \ {x})
    OBVIOUS
  <2> QED
    BY <2>5, <2>6
<1>4. N = Nat
  <2> HIDE DEF N
  <2> QED
    BY <1>2, <1>3, Induction DEF N
<1> QED
  BY <1>1, <1>4

-----------------------------------------------------------------------------
(* Powers of two.                                                          *)

LEMMA PowerIsNatural == ASSUME NEW n \in Nat PROVE 2^n \in Nat
<1>1. IsFiniteSet(1 .. n) /\ Cardinality(1 .. n) = n
  BY FS_Interval
<1>2. IsFiniteSet(SUBSET (1 .. n)) /\ Cardinality(SUBSET (1 .. n)) = 2^n
  BY <1>1, FS_SUBSET
<1> QED
  BY <1>2, FS_CardinalityType

LEMMA PowerDoubles == ASSUME NEW n \in Nat PROVE 2^(n + 1) = 2 * 2^n
<1> DEFINE A == SUBSET (1 .. n)
           B == {s \cup {n + 1} : s \in A}
           f == [s \in A |-> s \cup {n + 1}]
<1>1. IsFiniteSet(1 .. n) /\ Cardinality(1 .. n) = n
      /\ IsFiniteSet(1 .. n + 1) /\ Cardinality(1 .. n + 1) = n + 1
  BY FS_Interval
<1>2. IsFiniteSet(A) /\ Cardinality(A) = 2^n
      /\ Cardinality(SUBSET (1 .. n + 1)) = 2^(n + 1)
  BY <1>1, FS_SUBSET
<1>3. f \in Bijection(A, B)
  <2>1. f \in Surjection(A, B)
    BY DEF Surjection
  <2>2. \A s, t \in A : f[s] = f[t] => s = t
    OBVIOUS
  <2>3. f \in Injection(A, B)
    <3>1. f \in [A -> B]
      OBVIOUS
    <3> HIDE DEF f, A, B
    <3> QED
      BY <2>2, <3>1, Fun_IsInj
  <2> QED
    BY <2>1, <2>3 DEF Bijection
<1>4. IsFiniteSet(B) /\ Cardinality(B) = 2^n
  BY <1>2, <1>3, FS_Bijection DEF ExistsBijection
<1>5. A \cap B = {} /\ A \cup B = SUBSET (1 .. n + 1)
  <2>1. ASSUME NEW s \in SUBSET (1 .. n + 1), n + 1 \in s PROVE s \in B
    <3>1. s \ {n + 1} \in A /\ (s \ {n + 1}) \cup {n + 1} = s
      BY <2>1
    <3> QED
      BY <3>1
  <2>2. ASSUME NEW s \in SUBSET (1 .. n + 1), n + 1 \notin s PROVE s \in A
    BY <2>2
  <2>3. 1 .. n \subseteq 1 .. n + 1 /\ n + 1 \in 1 .. n + 1
    OBVIOUS
  <2>4. A \subseteq SUBSET (1 .. n + 1) /\ B \subseteq SUBSET (1 .. n + 1)
    BY <2>3, Zenon
  <2>5. n + 1 \notin 1 .. n
    OBVIOUS
  <2>6. A \cap B = {}
    BY <2>5, Zenon
  <2> QED
    BY <2>1, <2>2, <2>4, <2>6
<1>6. Cardinality(A \cup B) = Cardinality(A) + Cardinality(B)
                              - Cardinality(A \cap B)
  BY <1>2, <1>4, FS_Union
<1>7. Cardinality(A \cap B) = 0
  BY <1>5, FS_EmptySet
<1> DEFINE p == 2^n
           d == 2^(n + 1)
<1>8. p \in Nat /\ d = p + p - 0
  BY <1>2, <1>4, <1>5, <1>6, <1>7, PowerIsNatural
<1> HIDE DEF p
<1>9. d = 2 * p
  BY <1>8
<1> QED
  BY <1>9 DEF p

LEMMA PowerIsPositive == ASSUME NEW n \in Nat PROVE 2^n > 0
<1> DEFINE S == {m \in Nat : 2^m > 0}
<1>1. 0 \in S
  OBVIOUS
<1>2. ASSUME NEW m \in S PROVE m + 1 \in S
  BY <1>2, PowerDoubles, PowerIsNatural
<1> HIDE DEF S
<1>3. S = Nat
  BY <1>1, <1>2, Induction DEF S
<1> QED
  BY <1>3 DEF S

-----------------------------------------------------------------------------
(* Sums: MapThenSumSet of a function.                                      *)

Elt(s) == CHOOSE x \in s : TRUE

\* g has the sums of F over the subsets of S.
IsSum(g, F, S) ==
  g = [s \in SUBSET S |-> IF s = {} THEN 0 ELSE F[Elt(s)] + g[s \ {Elt(s)}]]

Total(F, S) == (CHOOSE g : IsSum(g, F, S))[S]

LEMMA SumExists ==
  ASSUME NEW S, IsFiniteSet(S), NEW F
  PROVE  \E g : IsSum(g, F, S)
<1> DEFINE Next1(g) == [s \in SUBSET S |->
                        IF s = {} THEN 0 ELSE F[Elt(s)] + g[s \ {Elt(s)}]]
           Upto(g, n) == /\ g = [s \in SUBSET S |-> g[s]]
                         /\ \A s \in SUBSET S :
                              Cardinality(s) <= n => g[s] = Next1(g)[s]
           N == {n \in Nat : \E g : Upto(g, n)}
<1>1. \A T \in SUBSET S : IsFiniteSet(T) /\ Cardinality(T) \in Nat
  BY FS_Subset, FS_CardinalityType
<1>2. \A s \in SUBSET S : s # {} => /\ Elt(s) \in s /\ s \ {Elt(s)} \in SUBSET S
                            /\ Cardinality(s \ {Elt(s)}) = Cardinality(s) - 1
  BY <1>1, FS_RemoveElement DEF Elt
<1>3. 0 \in N
  <2> DEFINE z == [s \in SUBSET S |-> 0]
  <2>1. ASSUME NEW s \in SUBSET S, Cardinality(s) <= 0 PROVE z[s] = Next1(z)[s]
    <3>1. s = {}
      BY <1>1, <2>1, FS_EmptySet
    <3> QED
      BY <3>1
  <2>2. Upto(z, 0)
    BY <2>1
  <2> QED
    BY <2>2
<1>4. ASSUME NEW n \in N PROVE n + 1 \in N
  <2>1. PICK g : Upto(g, n)
    BY <1>4
  <2> DEFINE h == Next1(g)
  <2>2. ASSUME NEW s \in SUBSET S, Cardinality(s) <= n + 1
        PROVE  h[s] = Next1(h)[s]
    <3>1. CASE s = {}
      BY <3>1
    <3>2. CASE s # {}
      <4> DEFINE t == s \ {Elt(s)}
      <4>1. t \in SUBSET S /\ Cardinality(t) <= n
        <5>1. t \in SUBSET S /\ Cardinality(t) = Cardinality(s) - 1
          BY <1>2, <3>2
        <5>2. Cardinality(s) \in Nat /\ Cardinality(s) <= n + 1 /\ n \in Nat
          BY <1>1, <2>2
        <5> HIDE DEF t
        <5> QED
          BY <5>1, <5>2
      <4>2. g[t] = Next1(g)[t]
        BY <2>1, <4>1
      <4>3. g[t] = h[t]
        BY <4>2
      <4>4. h[s] = F[Elt(s)] + g[t] /\ Next1(h)[s] = F[Elt(s)] + h[t]
        BY <3>2
      <4> QED
        BY <4>3, <4>4
    <3> QED
      BY <3>1, <3>2
  <2>3. h = [s \in SUBSET S |-> h[s]]
    OBVIOUS
  <2>4. Upto(h, n + 1)
    BY <2>2, <2>3
  <2> HIDE DEF h, Upto
  <2> QED
    BY <2>4
<1> HIDE DEF N
<1>5. N = Nat
  BY <1>3, <1>4, Induction DEF N
<1>6. PICK g : Upto(g, Cardinality(S))
  BY <1>1, <1>5 DEF N
<1>7. ASSUME NEW s \in SUBSET S PROVE g[s] = Next1(g)[s]
  <2>1. Cardinality(s) <= Cardinality(S)
    BY FS_Subset
  <2> QED
    BY <1>6, <2>1
<1>8. g = [s \in SUBSET S |-> g[s]]
  BY <1>6
<1>9. g = Next1(g)
  BY <1>7, <1>8
<1> QED
  BY <1>9 DEF IsSum

\* Sums of the same numbers are the same.
LEMMA SumAgrees ==
  ASSUME NEW S, IsFiniteSet(S), NEW T \in SUBSET S, NEW F, NEW G,
         \A x \in T : F[x] = G[x],
         NEW g, IsSum(g, F, S), NEW h, IsSum(h, G, T)
  PROVE  \A s \in SUBSET T : g[s] = h[s]
<1> DEFINE N == {n \in Nat : \A s \in SUBSET T :
                               Cardinality(s) = n => g[s] = h[s]}
<1>1. \A s \in SUBSET T : IsFiniteSet(s) /\ Cardinality(s) \in Nat
  BY FS_Subset, FS_CardinalityType
<1>2. \A s \in SUBSET T : s # {} => /\ Elt(s) \in s /\ s \ {Elt(s)} \in SUBSET T
                            /\ Cardinality(s \ {Elt(s)}) = Cardinality(s) - 1
  BY <1>1, FS_RemoveElement DEF Elt
<1>3. \A s \in SUBSET T :
        /\ g[s] = IF s = {} THEN 0 ELSE F[Elt(s)] + g[s \ {Elt(s)}]
        /\ h[s] = IF s = {} THEN 0 ELSE G[Elt(s)] + h[s \ {Elt(s)}]
  BY DEF IsSum
<1>4. 0 \in N
  <2>1. ASSUME NEW s \in SUBSET T, Cardinality(s) = 0 PROVE g[s] = h[s]
    <3>1. s = {}
      BY <1>1, <2>1, FS_EmptySet
    <3> QED
      BY <1>3, <3>1
  <2> QED
    BY <2>1
<1>5. ASSUME NEW n \in N PROVE n + 1 \in N
  <2>1. ASSUME NEW s \in SUBSET T, Cardinality(s) = n + 1 PROVE g[s] = h[s]
    <3> DEFINE t == s \ {Elt(s)}
    <3>1. s # {}
      BY <2>1, FS_EmptySet, n + 1 # 0
    <3>2. t \in SUBSET T /\ Cardinality(t) = n /\ Elt(s) \in T
      BY <1>2, <2>1, <3>1
    <3>3. g[t] = h[t]
      BY <3>2
    <3> QED
      BY <1>3, <3>1, <3>2, <3>3
  <2> QED
    BY <2>1
<1> HIDE DEF N
<1>6. N = Nat
  BY <1>4, <1>5, Induction DEF N
<1> QED
  BY <1>1, <1>6 DEF N

LEMMA TotalIsSum ==
  ASSUME NEW S, IsFiniteSet(S), NEW F, NEW g, IsSum(g, F, S)
  PROVE  Total(F, S) = g[S]
<1> DEFINE h == CHOOSE h : IsSum(h, F, S)
<1>1. IsSum(h, F, S)
  BY SumExists
<1> HIDE DEF h
<1>2. h[S] = g[S]
  BY <1>1, SumAgrees
<1> QED
  BY <1>2 DEF Total, h

LEMMA TotalEqual ==
  ASSUME NEW S, IsFiniteSet(S), NEW F, NEW G, \A x \in S : F[x] = G[x]
  PROVE  Total(F, S) = Total(G, S)
<1>1. PICK g : IsSum(g, F, S)
  BY SumExists
<1>2. PICK h : IsSum(h, G, S)
  BY SumExists
<1>3. \A s \in SUBSET S : g[s] = h[s]
  BY <1>1, <1>2, SumAgrees
<1> QED
  BY <1>1, <1>2, <1>3, TotalIsSum

LEMMA TotalEmpty == ASSUME NEW F PROVE Total(F, {}) = 0
<1>1. IsFiniteSet({})
  BY FS_EmptySet
<1>2. PICK g : IsSum(g, F, {})
  BY <1>1, SumExists
<1>3. g[{}] = 0
  BY <1>2 DEF IsSum
<1> QED
  BY <1>1, <1>2, <1>3, TotalIsSum

\* The sum over S, by the element that the definition takes first.
LEMMA TotalAny ==
  ASSUME NEW S, IsFiniteSet(S), S # {}, NEW F
  PROVE  /\ Elt(S) \in S
         /\ Total(F, S) = F[Elt(S)] + Total(F, S \ {Elt(S)})
<1> DEFINE T == S \ {Elt(S)}
<1>1. PICK g : IsSum(g, F, S)
  BY SumExists
<1>2. IsFiniteSet(T) /\ T \in SUBSET S
  BY FS_Subset
<1>3. PICK h : IsSum(h, F, T)
  BY <1>2, SumExists
<1> HIDE DEF T
<1>4. g[T] = h[T]
  BY <1>1, <1>2, <1>3, SumAgrees
<1>5. Total(F, S) = g[S] /\ Total(F, T) = h[T]
  BY <1>1, <1>2, <1>3, TotalIsSum
<1>6. g[S] = F[Elt(S)] + g[T]
  BY <1>1 DEF IsSum, T
<1> QED
  BY <1>4, <1>5, <1>6 DEF T, Elt

LEMMA TotalIsInteger ==
  ASSUME NEW S, IsFiniteSet(S), NEW F, \A x \in S : F[x] \in Int
  PROVE  \A s \in SUBSET S : Total(F, s) \in Int
<1> DEFINE N == {n \in Nat : \A s \in SUBSET S :
                               Cardinality(s) = n => Total(F, s) \in Int}
<1>1. \A s \in SUBSET S : IsFiniteSet(s) /\ Cardinality(s) \in Nat
  BY FS_Subset, FS_CardinalityType
<1>2. 0 \in N
  BY <1>1, FS_EmptySet, TotalEmpty
<1>3. ASSUME NEW n \in N PROVE n + 1 \in N
  <2>1. ASSUME NEW s \in SUBSET S, Cardinality(s) = n + 1
        PROVE  Total(F, s) \in Int
    <3> DEFINE t == s \ {Elt(s)}
    <3>1. s # {}
      BY <2>1, FS_EmptySet, n + 1 # 0
    <3>2. Elt(s) \in s /\ Total(F, s) = F[Elt(s)] + Total(F, t)
      BY <1>1, <3>1, TotalAny
    <3>3. Cardinality(t) = Cardinality(s) - 1
      BY <1>1, <3>2, FS_RemoveElement
    <3>4. t \in SUBSET S /\ Cardinality(t) = n
      BY <2>1, <3>3
    <3>5. Total(F, t) \in Int
      BY <3>4
    <3> QED
      BY <3>2, <3>5
  <2> QED
    BY <2>1
<1> HIDE DEF N
<1>4. N = Nat
  BY <1>2, <1>3, Induction DEF N
<1> QED
  BY <1>1, <1>4 DEF N

\* The sum over S, by any element of it.
LEMMA TotalRemove ==
  ASSUME NEW S, IsFiniteSet(S), NEW F, \A x \in S : F[x] \in Int
  PROVE  \A s \in SUBSET S : \A x \in s :
           Total(F, s) = F[x] + Total(F, s \ {x})
<1> DEFINE N == {n \in Nat : \A s \in SUBSET S : \A x \in s :
                  Cardinality(s) = n => Total(F, s) = F[x] + Total(F, s \ {x})}
<1>1. \A s \in SUBSET S : IsFiniteSet(s) /\ Cardinality(s) \in Nat
  BY FS_Subset, FS_CardinalityType
<1>2. 0 \in N
  BY <1>1, FS_EmptySet
<1>3. ASSUME NEW n \in N PROVE n + 1 \in N
  <2>1. ASSUME NEW s \in SUBSET S, NEW x \in s, Cardinality(s) = n + 1
        PROVE  Total(F, s) = F[x] + Total(F, s \ {x})
    <3> DEFINE a == Elt(s)
               t == s \ {a}
    <3>1. s # {}
      OBVIOUS
    <3>2. a \in s /\ Total(F, s) = F[a] + Total(F, t)
      BY <1>1, <3>1, TotalAny
    <3>3. CASE x = a
      BY <3>2, <3>3
    <3>4. CASE x # a
      <4> DEFINE u == s \ {x}
                 v == s \ {x, a}
      <4>1. t \in SUBSET S /\ u \in SUBSET S /\ v \in SUBSET S
            /\ x \in t /\ a \in u /\ t \ {x} = v /\ u \ {a} = v
        BY <3>2, <3>4
      <4>2. Cardinality(t) = n /\ Cardinality(u) = n
        BY <1>1, <2>1, <3>2, FS_RemoveElement
      <4> HIDE DEF t, u, v, a
      <4>3. Total(F, t) = F[x] + Total(F, v) /\ Total(F, u) = F[a] + Total(F, v)
        BY <4>1, <4>2
      <4>4. Total(F, v) \in Int /\ F[x] \in Int /\ F[a] \in Int
        BY <4>1, <3>2, TotalIsInteger
      <4>5. Total(F, s) = F[x] + Total(F, u)
        BY <3>2, <4>3, <4>4
      <4> QED
        BY <4>5 DEF u
    <3> QED
      BY <3>3, <3>4
  <2> QED
    BY <2>1
<1> HIDE DEF N
<1>4. N = Nat
  BY <1>2, <1>3, Induction DEF N
<1> QED
  BY <1>1, <1>4 DEF N

\* An element more.
LEMMA TotalAdd ==
  ASSUME NEW S, IsFiniteSet(S), NEW F, \A x \in S : F[x] \in Int,
         NEW T \in SUBSET S, NEW x \in S \ T
  PROVE  Total(F, T \cup {x}) = F[x] + Total(F, T)
<1> DEFINE U == T \cup {x}
<1>1. U \in SUBSET S /\ x \in U /\ U \ {x} = T
  OBVIOUS
<1> HIDE DEF U
<1>2. Total(F, U) = F[x] + Total(F, U \ {x})
  BY <1>1, TotalRemove
<1> QED
  BY <1>1, <1>2 DEF U

LEMMA TotalMonotone ==
  ASSUME NEW S, IsFiniteSet(S), NEW F, NEW G,
         \A x \in S : F[x] \in Int /\ G[x] \in Int /\ F[x] <= G[x]
  PROVE  Total(F, S) <= Total(G, S)
<1> DEFINE A == {T \in SUBSET S : Total(F, T) <= Total(G, T)}
<1>1. {} \in A
  BY TotalEmpty
<1>2. ASSUME NEW T \in A, NEW x \in S \ T PROVE T \cup {x} \in A
  <2>1. Total(F, T) \in Int /\ Total(G, T) \in Int
    BY TotalIsInteger
  <2>2. Total(F, T \cup {x}) = F[x] + Total(F, T)
    BY TotalAdd
  <2>3. Total(G, T \cup {x}) = G[x] + Total(G, T)
    BY TotalAdd
  <2>4. F[x] \in Int /\ G[x] \in Int /\ F[x] <= G[x]
        /\ Total(F, T) <= Total(G, T)
    BY <1>2
  <2>5. Total(F, T \cup {x}) <= Total(G, T \cup {x})
    BY <2>1, <2>2, <2>3, <2>4
  <2> QED
    BY <2>5
<1> HIDE DEF A
<1>3. A \in SUBSET SUBSET S
  BY DEF A
<1>4. S \in A
  BY <1>1, <1>2, <1>3, SetInduction
<1> QED
  BY <1>4 DEF A

LEMMA TotalUnion ==
  ASSUME NEW S, IsFiniteSet(S), NEW F, \A x \in S : F[x] \in Int,
         NEW T \in SUBSET S
  PROVE  Total(F, S) = Total(F, T) + Total(F, S \ T)
<1> DEFINE R == S \ T
           A == {U \in SUBSET R : Total(F, T \cup U) = Total(F, T) + Total(F, U)}
<1>1. R \in SUBSET S /\ IsFiniteSet(R)
  BY FS_Subset
<1>2. {} \in A
  <2>1. Total(F, T) \in Int
    BY TotalIsInteger
  <2>2. T \cup {} = T /\ Total(F, {}) = 0
    BY TotalEmpty
  <2> QED
    BY <2>1, <2>2
<1>3. ASSUME NEW U \in A, NEW x \in R \ U PROVE U \cup {x} \in A
  <2> DEFINE V == T \cup U
  <2>1. Total(F, T) \in Int /\ Total(F, U) \in Int /\ F[x] \in Int
    BY TotalIsInteger
  <2>2. V \in SUBSET S /\ U \in SUBSET S /\ x \in S \ V /\ x \in S \ U
        /\ T \cup (U \cup {x}) = V \cup {x}
    OBVIOUS
  <2>3. Total(F, V) = Total(F, T) + Total(F, U)
    BY <1>3
  <2> HIDE DEF V
  <2>4. Total(F, V \cup {x}) = F[x] + Total(F, V)
    BY <2>2, TotalAdd
  <2>5. Total(F, U \cup {x}) = F[x] + Total(F, U)
    BY <2>2, TotalAdd
  <2>6. Total(F, V \cup {x}) = Total(F, T) + Total(F, U \cup {x})
    BY <2>1, <2>3, <2>4, <2>5
  <2>7. Total(F, T \cup (U \cup {x})) = Total(F, T) + Total(F, U \cup {x})
    BY <2>2, <2>6
  <2>8. U \cup {x} \in SUBSET R
    OBVIOUS
  <2> QED
    BY <2>7, <2>8
<1> HIDE DEF A
<1>4. A \in SUBSET SUBSET R
  BY DEF A
<1> HIDE DEF R
<1>5. R \in A
  BY <1>1, <1>2, <1>3, <1>4, SetInduction
<1>6. T \cup R = S
  BY DEF R
<1> QED
  BY <1>5, <1>6 DEF A, R

-----------------------------------------------------------------------------
(* What runs cost.                                                         *)

LEMMA RunSizeIsNatural ==
  ASSUME NEW bits \in Nat, NEW n \in Nat, NEW w \in Nat
  PROVE  RunSize(bits, n, w) \in Nat
<1> DEFINE p == 2^w
<1>1. p \in Nat /\ p > 0
  BY PowerIsNatural, PowerIsPositive
<1> HIDE DEF p
<1>2. (n + p - 1) \div p \in Nat
  BY <1>1
<1>3. ((n + p - 1) \div p) * (bits + w) \in Nat
  BY <1>2
<1> QED
  BY <1>3 DEF RunSize, p

Costs(bits, runs, rb) ==
  [run \in runs |-> RunSize(bits, run.length, rb[run.symbol])]

\* Runs that can be counted: of natural length, of symbols that have a width.
AreRuns(runs, rb) ==
  /\ IsFiniteSet(runs)
  /\ \A run \in runs : run.length \in Nat /\ rb[run.symbol] \in Nat

LEMMA SizeIsTotal ==
  ASSUME NEW bits, NEW runs, IsFiniteSet(runs), NEW rb
  PROVE  SizeOf(bits, runs, rb) = Total(Costs(bits, runs, rb), runs)
<1> DEFINE cost(run) == RunSize(bits, run.length, rb[run.symbol])
           F == Costs(bits, runs, rb)
           Body(g, s) == IF s = {} THEN 0
                         ELSE cost(CHOOSE x \in s : TRUE)
                              + g[s \ {CHOOSE x \in s : TRUE}]
           Sums(g) == g = [s \in SUBSET runs |-> Body(g, s)]
<1>1. SizeOf(bits, runs, rb) = (CHOOSE g : Sums(g))[runs]
  BY DEF SizeOf, MapThenSumSet, MapThenFoldSet
<1>2. ASSUME NEW s \in SUBSET runs, s # {}
      PROVE  F[Elt(s)] = cost(CHOOSE x \in s : TRUE)
  <2>1. Elt(s) \in runs
    BY <1>2 DEF Elt
  <2> QED
    BY <2>1 DEF Elt, Costs
<1>3. ASSUME NEW g PROVE Sums(g) <=> IsSum(g, F, runs)
  <2> DEFINE Body2(s) == IF s = {} THEN 0 ELSE F[Elt(s)] + g[s \ {Elt(s)}]
  <2>1. \A s \in SUBSET runs : Body(g, s) = Body2(s)
    <3> HIDE DEF F
    <3> QED
      BY <1>2 DEF Elt
  <2> HIDE DEF Body, F, Body2
  <2>2. [s \in SUBSET runs |-> Body(g, s)] = [s \in SUBSET runs |-> Body2(s)]
    BY <2>1
  <2> QED
    BY <2>2 DEF IsSum, Body2
<1> HIDE DEF Sums, F
<1>4. (CHOOSE g : Sums(g)) = (CHOOSE g : IsSum(g, F, runs))
  BY <1>3
<1> QED
  BY <1>1, <1>4 DEF Total, F

LEMMA SizeOfNone == ASSUME NEW bits, NEW rb PROVE SizeOf(bits, {}, rb) = 0
BY FS_EmptySet, SizeIsTotal, TotalEmpty

\* The cost of each run is a number, and the sum is one.
LEMMA CostsAreNatural ==
  ASSUME NEW bits \in Nat, NEW runs, NEW rb, AreRuns(runs, rb)
  PROVE  \A run \in runs : Costs(bits, runs, rb)[run] \in Nat
BY RunSizeIsNatural DEF AreRuns, Costs

LEMMA SizeIsNatural ==
  ASSUME NEW bits \in Nat, NEW runs, NEW rb, AreRuns(runs, rb)
  PROVE  SizeOf(bits, runs, rb) \in Nat
<1> DEFINE F == Costs(bits, runs, rb)
           Z == [run \in runs |-> 0]
           A == {T \in SUBSET runs : Total(Z, T) = 0}
<1>1. IsFiniteSet(runs) /\ \A run \in runs : F[run] \in Nat /\ Z[run] = 0
  BY CostsAreNatural DEF AreRuns
<1>2. \A run \in runs : F[run] \in Int /\ Z[run] \in Int /\ Z[run] <= F[run]
  BY <1>1
<1> HIDE DEF F, Z
<1>3. {} \in A
  BY TotalEmpty
<1>4. ASSUME NEW T \in A, NEW x \in runs \ T PROVE T \cup {x} \in A
  <2>1. Total(Z, T \cup {x}) = Z[x] + Total(Z, T)
    BY <1>1, <1>2, TotalAdd
  <2>2. Z[x] = 0 /\ Total(Z, T) = 0
    BY <1>1
  <2>3. Total(Z, T \cup {x}) = 0
    BY <2>1, <2>2
  <2> QED
    BY <2>3
<1> HIDE DEF A
<1>5. A \in SUBSET SUBSET runs
  BY DEF A
<1>6. runs \in A
  BY <1>1, <1>3, <1>4, <1>5, SetInduction
<1>7. Total(Z, runs) = 0
  BY <1>6 DEF A
<1>8. Total(Z, runs) <= Total(F, runs)
  BY <1>1, <1>2, TotalMonotone
<1>9. Total(F, runs) \in Int
  BY <1>1, <1>2, TotalIsInteger
<1> QED
  BY <1>1, <1>7, <1>8, <1>9, SizeIsTotal DEF F

\* Widths that agree on the symbols of the runs give the same size.
LEMMA SizeAgrees ==
  ASSUME NEW bits, NEW runs, IsFiniteSet(runs), NEW rb, NEW q,
         \A run \in runs : rb[run.symbol] = q[run.symbol]
  PROVE  SizeOf(bits, runs, rb) = SizeOf(bits, runs, q)
<1>1. \A run \in runs : Costs(bits, runs, rb)[run] = Costs(bits, runs, q)[run]
  BY DEF Costs
<1> QED
  BY <1>1, SizeIsTotal, TotalEqual

\* A part of the runs and the rest.
LEMMA SizeOfParts ==
  ASSUME NEW bits \in Nat, NEW runs, NEW rb, AreRuns(runs, rb),
         NEW part \in SUBSET runs
  PROVE  SizeOf(bits, runs, rb) =
           SizeOf(bits, part, rb) + SizeOf(bits, runs \ part, rb)
<1> DEFINE F == Costs(bits, runs, rb)
           rest == runs \ part
<1>1. IsFiniteSet(runs) /\ \A run \in runs : F[run] \in Int
  BY CostsAreNatural DEF AreRuns
<1>2. IsFiniteSet(part) /\ IsFiniteSet(rest) /\ rest \in SUBSET runs
  BY <1>1, FS_Subset
<1>3. ASSUME NEW T \in SUBSET runs PROVE SizeOf(bits, T, rb) = Total(F, T)
  <2> DEFINE G == Costs(bits, T, rb)
  <2>1. IsFiniteSet(T)
    BY <1>1, FS_Subset
  <2>2. \A x \in T : G[x] = F[x]
    BY DEF Costs
  <2> HIDE DEF F
  <2>3. Total(G, T) = Total(F, T)
    BY <2>1, <2>2, TotalEqual
  <2> QED
    BY <2>1, <2>3, SizeIsTotal
<1> HIDE DEF F, rest
<1>4. Total(F, runs) = Total(F, part) + Total(F, runs \ part)
  BY <1>1, TotalUnion
<1> QED
  BY <1>2, <1>3, <1>4 DEF rest

LEMMA SizeOfOne ==
  ASSUME NEW bits \in Nat, NEW run, NEW rb, AreRuns({run}, rb)
  PROVE  SizeOf(bits, {run}, rb) = RunSize(bits, run.length, rb[run.symbol])
<1> DEFINE F == Costs(bits, {run}, rb)
<1>1. F[run] \in Int /\ IsFiniteSet({run})
  BY CostsAreNatural DEF AreRuns
<1>2. F[run] = RunSize(bits, run.length, rb[run.symbol])
  BY DEF Costs
<1> HIDE DEF F
<1>3. Elt({run}) = run /\ {run} \ {run} = {}
  BY DEF Elt
<1>4. Total(F, {run}) = F[run] + Total(F, {})
  BY <1>1, <1>3, TotalAny
<1>5. Total(F, {run}) = F[run]
  BY <1>1, <1>4, TotalEmpty
<1> QED
  BY <1>1, <1>2, <1>5, SizeIsTotal DEF F

LEMMA SizeOfOneMore ==
  ASSUME NEW bits \in Nat, NEW runs, NEW run, run \notin runs, NEW rb,
         AreRuns(runs \cup {run}, rb)
  PROVE  SizeOf(bits, runs \cup {run}, rb) =
           SizeOf(bits, runs, rb) + RunSize(bits, run.length, rb[run.symbol])
<1> DEFINE all == runs \cup {run}
<1>1. runs \in SUBSET all /\ all \ runs = {run}
  OBVIOUS
<1>2. AreRuns({run}, rb)
  BY FS_Singleton DEF AreRuns
<1> HIDE DEF all
<1>3. SizeOf(bits, all, rb) = SizeOf(bits, runs, rb) + SizeOf(bits, all \ runs, rb)
  BY <1>1, SizeOfParts DEF all
<1>4. SizeOf(bits, {run}, rb) = RunSize(bits, run.length, rb[run.symbol])
  BY <1>2, SizeOfOne
<1> QED
  BY <1>1, <1>3, <1>4 DEF all

-----------------------------------------------------------------------------
(* One run, and the best width for a symbol.                               *)

LEMMA NoRunCostsNothing ==
  ASSUME NEW bits \in Nat, NEW w \in Nat
  PROVE  RunSize(bits, 0, w) = 0
<1> DEFINE p == 2^w
<1>1. p \in Nat /\ p > 0
  BY PowerIsNatural, PowerIsPositive
<1> HIDE DEF p
<1>2. (0 + p - 1) \div p = 0
  BY <1>1
<1>3. ((0 + p - 1) \div p) * (bits + w) = 0
  BY <1>2
<1> QED
  BY <1>3 DEF RunSize, p

\* A chunk of a run costs one code.
LEMMA ChunkCostsCode ==
  ASSUME NEW bits \in Nat, NEW w \in Nat, NEW n \in Nat \ {0}
  PROVE  RunSize(bits, n, w) =
           bits + w + RunSize(bits, IF n < 2^w THEN 0 ELSE n - 2^w, w)
<1> DEFINE p == 2^w
           m == IF n < p THEN 0 ELSE n - p
<1>1. p \in Nat /\ p > 0
  BY PowerIsNatural, PowerIsPositive
<1> HIDE DEF p
<1>2. m \in Nat /\ (n + p - 1) \div p = (m + p - 1) \div p + 1
  BY <1>1
<1> DEFINE q == (m + p - 1) \div p
<1>3. q \in Nat
  BY <1>1, <1>2
<1> HIDE DEF q, m
<1>4. (q + 1) * (bits + w) = bits + w + q * (bits + w)
  BY <1>3
<1> QED
  BY <1>2, <1>4 DEF RunSize, p, q, m

LEMMA BestRbIsBest ==
  ASSUME NEW sizes, \A w \in Widths : sizes[w] \in Nat
  PROVE  /\ BestRb(sizes) \in Widths
         /\ \A v \in Widths : sizes[BestRb(sizes)] <= sizes[v]
         /\ (\A v \in Widths : sizes[v] = sizes[0]) => BestRb(sizes) = 0
<1> DEFINE T == {sizes[w] : w \in Widths}
           IsBest(w) == \A v \in Widths :
                          sizes[w] < sizes[v] \/ (sizes[w] = sizes[v] /\ w <= v)
<1>1. T \in SUBSET Nat /\ T # {}
  BY DEF Widths
<1>2. PICK x \in T : \A y \in T : x <= y
  BY <1>1, LeastNatural
<1> DEFINE M == {w \in Widths : sizes[w] = x}
<1>3. M \in SUBSET Nat /\ M # {}
  BY <1>2 DEF Widths
<1>4. PICK w \in M : \A v \in M : w <= v
  BY <1>3, LeastNatural
<1>5. ASSUME NEW v \in Widths
      PROVE  sizes[w] < sizes[v] \/ (sizes[w] = sizes[v] /\ w <= v)
  <2>1. sizes[w] = x /\ x <= sizes[v] /\ x \in Nat /\ sizes[v] \in Nat
    BY <1>1, <1>2
  <2>2. CASE sizes[v] = x
    BY <1>4, <2>1, <2>2
  <2>3. CASE sizes[v] # x
    BY <2>1, <2>3
  <2> QED
    BY <2>2, <2>3
<1>6. w \in Widths /\ IsBest(w)
  BY <1>5
<1> DEFINE b == BestRb(sizes)
<1>7. b = CHOOSE u \in Widths : IsBest(u)
  BY DEF BestRb
<1> HIDE DEF IsBest, b
<1>8. b \in Widths /\ IsBest(b)
  BY <1>6, <1>7
<1>9. \A v \in Widths : sizes[b] <= sizes[v]
  BY <1>8 DEF IsBest
<1>10. ASSUME \A v \in Widths : sizes[v] = sizes[0] PROVE b = 0
  <2>1. 0 \in Widths /\ sizes[0] \in Nat /\ sizes[b] = sizes[0]
    BY <1>8, <1>10 DEF Widths
  <2>2. b <= 0
    BY <1>8, <2>1 DEF IsBest
  <2> QED
    BY <1>8, <2>2 DEF Widths
<1> QED
  BY <1>8, <1>9, <1>10 DEF b

-----------------------------------------------------------------------------
(* The runs of a stream.                                                   *)

LEMMA MinIsLeast ==
  ASSUME NEW S \in SUBSET Nat, S # {}
  PROVE  Min(S) \in S /\ \A y \in S : Min(S) <= y
<1>1. \E x \in S : \A y \in S : x <= y
  BY LeastNatural
<1> QED
  BY <1>1 DEF Min

\* A run begins at i; one that begins there ends before j.
Begins(stream, i) ==
  i \in DOMAIN stream /\ (i = 1 \/ stream[i - 1] # stream[i])
Beginnings(stream) == {i \in DOMAIN stream : i = 1 \/ stream[i - 1] # stream[i]}
Ends(stream, i) ==
  Min({j \in Beginnings(stream) \cup {Len(stream) + 1} : j > i})
RunAt(stream, i) ==
  [at |-> i, symbol |-> stream[i], length |-> Ends(stream, i) - i]

LEMMA RunsBegin ==
  ASSUME NEW stream
  PROVE  Runs(stream) = {RunAt(stream, i) : i \in Beginnings(stream)}
BY DEF Runs, RunAt, Beginnings, Ends

LEMMA RunEnds ==
  ASSUME NEW S, NEW stream \in Seq(S), NEW i \in Beginnings(stream)
  PROVE  /\ i \in 1 .. Len(stream)
         /\ Ends(stream, i) \in i + 1 .. Len(stream) + 1
         /\ Ends(stream, i) \in Beginnings(stream) \cup {Len(stream) + 1}
         /\ \A j \in Beginnings(stream) : j > i => Ends(stream, i) <= j
<1> DEFINE later == {j \in Beginnings(stream) \cup {Len(stream) + 1} : j > i}
<1>1. Len(stream) \in Nat /\ Beginnings(stream) \subseteq 1 .. Len(stream)
  BY DEF Beginnings
<1>2. later \in SUBSET Nat /\ Len(stream) + 1 \in later
  BY <1>1
<1> HIDE DEF later
<1>3. Min(later) \in later /\ \A y \in later : Min(later) <= y
  BY <1>2, MinIsLeast
<1>4. Ends(stream, i) = Min(later)
  BY DEF Ends, later
<1> QED
  BY <1>1, <1>3, <1>4 DEF later

\* The runs are finitely many, of symbols of the stream, and not empty.
LEMMA RunsAreRuns ==
  ASSUME NEW S, NEW stream \in Seq(S)
  PROVE  /\ IsFiniteSet(Runs(stream))
         /\ \A run \in Runs(stream) :
              /\ run.at \in 1 .. Len(stream) /\ run.symbol \in S
              /\ run.length \in Nat \ {0}
<1> DEFINE R == Runs(stream)
           f == [run \in R |-> run.at]
<1>1. \A run \in R : \E i \in Beginnings(stream) : run = RunAt(stream, i)
  BY RunsBegin
<1>2. ASSUME NEW run \in R
      PROVE  /\ run.at \in 1 .. Len(stream) /\ run.symbol \in S
             /\ run.length \in Nat \ {0} /\ run = RunAt(stream, run.at)
  <2>1. PICK i \in Beginnings(stream) : run = RunAt(stream, i)
    BY <1>1
  <2>2. run.at = i /\ run.symbol = stream[i]
        /\ run.length = Ends(stream, i) - i
    BY <2>1 DEF RunAt
  <2>3. i \in 1 .. Len(stream) /\ Ends(stream, i) \in i + 1 .. Len(stream) + 1
    BY RunEnds
  <2>4. stream[i] \in S /\ Len(stream) \in Nat
    BY <2>3, ElementOfSeq, LenProperties
  <2> QED
    BY <2>1, <2>2, <2>3, <2>4
<1>3. IsFiniteSet(1 .. Len(stream))
  BY FS_Interval, LenProperties
<1>4. f \in [R -> 1 .. Len(stream)]
  BY <1>2
<1>5. \A a, b \in R : f[a] = f[b] => a = b
  BY <1>2
<1> HIDE DEF f, R
<1>6. f \in Injection(R, 1 .. Len(stream))
  BY <1>4, <1>5, Fun_IsInj
<1>7. IsFiniteSet(R)
  BY <1>3, <1>6, FS_Injection
<1> QED
  BY <1>2, <1>7 DEF R

\* The runs of a stream up to its first k symbols, when no run crosses there.
RunsUpto(stream, k) == {run \in Runs(stream) : run.at <= k}

\* The next run, of n symbols, is the one that joins them.
LEMMA NextRun ==
  ASSUME NEW S, NEW stream \in Seq(S),
         NEW k \in Nat, Begins(stream, k + 1),
         NEW n \in Nat \ {0}, k + n <= Len(stream),
         \A j \in k + 1 .. k + n : stream[j] = stream[k + 1],
         k + n < Len(stream) => stream[k + n + 1] # stream[k + n]
  PROVE  LET run == [at |-> k + 1, symbol |-> stream[k + 1], length |-> n]
         IN  /\ run \notin RunsUpto(stream, k)
             /\ RunsUpto(stream, k + n) = RunsUpto(stream, k) \cup {run}
             /\ k + n < Len(stream) => Begins(stream, k + n + 1)
<1> DEFINE B == Beginnings(stream)
           run == [at |-> k + 1, symbol |-> stream[k + 1], length |-> n]
<1>1. Len(stream) \in Nat /\ DOMAIN stream = 1 .. Len(stream)
  BY LenProperties
<1>2. k + 1 \in B /\ B \subseteq 1 .. Len(stream)
  BY <1>1 DEF Beginnings, Begins
<1>3. \A j \in B : ~ (k + 1 < j /\ j <= k + n)
  <2>1. ASSUME NEW j \in B, k + 1 < j, j <= k + n PROVE FALSE
    <3>1. j \in k + 1 .. k + n /\ j - 1 \in k + 1 .. k + n
      BY <1>2, <2>1
    <3>2. stream[j] = stream[j - 1] /\ j # 1
      BY <3>1
    <3> QED
      BY <3>2 DEF Beginnings
  <2> QED
    BY <2>1
<1>4. k + n + 1 \in B \cup {Len(stream) + 1}
  <2>1. CASE k + n = Len(stream)
    BY <2>1
  <2>2. CASE k + n < Len(stream)
    <3>1. k + n + 1 \in 1 .. Len(stream) /\ (k + n + 1) - 1 = k + n
      BY <1>1, <2>2
    <3> QED
      BY <1>1, <2>2, <3>1 DEF Beginnings
  <2> DEFINE l == Len(stream)
  <2>3. l \in Nat /\ k + n <= l
    BY <1>1
  <2> HIDE DEF l
  <2>4. k + n = l \/ k + n < l
    BY <2>3
  <2> QED
    BY <2>1, <2>2, <2>4 DEF l
<1>5. Ends(stream, k + 1) = k + n + 1
  <2>1. /\ Ends(stream, k + 1) \in (k + 1) + 1 .. Len(stream) + 1
        /\ Ends(stream, k + 1) \in B \cup {Len(stream) + 1}
        /\ \A j \in B : j > k + 1 => Ends(stream, k + 1) <= j
    BY <1>2, RunEnds
  <2>2. Ends(stream, k + 1) <= k + n + 1
    BY <1>1, <1>4, <2>1
  <2>3. Ends(stream, k + 1) > k + n
    BY <1>1, <1>3, <2>1
  <2> QED
    BY <1>1, <2>1, <2>2, <2>3
<1>6. run = RunAt(stream, k + 1)
  BY <1>5 DEF RunAt
<1>7. run \in Runs(stream) /\ run.at = k + 1
  BY <1>2, <1>6, RunsBegin
<1>8. \A r \in Runs(stream) : r.at \in B /\ r = RunAt(stream, r.at)
  <2>1. ASSUME NEW r \in Runs(stream)
        PROVE  r.at \in B /\ r = RunAt(stream, r.at)
    <3>1. PICK i \in B : r = RunAt(stream, i)
      BY RunsBegin
    <3>2. r.at = i
      BY <3>1 DEF RunAt
    <3> QED
      BY <3>1, <3>2
  <2> QED
    BY <2>1
<1>9. run \notin RunsUpto(stream, k)
  BY <1>7 DEF RunsUpto
<1>10. \A r \in Runs(stream) : r.at <= k + n => r.at <= k \/ r = run
  BY <1>2, <1>3, <1>6, <1>8
<1>11. \A r \in Runs(stream) : r.at <= k => r.at <= k + n
  BY <1>2, <1>8
<1>12. RunsUpto(stream, k + n) = RunsUpto(stream, k) \cup {run}
  <2> HIDE DEF run
  <2>1. run.at <= k + n
    BY <1>7
  <2> QED
    BY <1>7, <1>10, <1>11, <2>1 DEF RunsUpto
<1>13. k + n < Len(stream) => Begins(stream, k + n + 1)
  BY <1>1, <1>4 DEF Beginnings, Begins
<1> QED
  BY <1>9, <1>12, <1>13

-----------------------------------------------------------------------------
(* The widths that EncodePrepare chooses.                                  *)

\* The runs of a symbol, and what they cost with each width.
RunsOf(runs, s) == {run \in runs : run.symbol = s}
CostsOf(bits, runs, s) ==
  [w \in Widths |-> SizeOf(bits, RunsOf(runs, s), [t \in {s} |-> w])]

LEMMA CostsOfAreNatural ==
  ASSUME NEW bits \in Nat, NEW runs, IsFiniteSet(runs),
         \A run \in runs : run.length \in Nat, NEW s
  PROVE  CostsOf(bits, runs, s) \in [Widths -> Nat]
<1>1. ASSUME NEW w \in Widths
      PROVE  SizeOf(bits, RunsOf(runs, s), [t \in {s} |-> w]) \in Nat
  <2>1. IsFiniteSet(RunsOf(runs, s))
    BY FS_Subset DEF RunsOf
  <2>2. AreRuns(RunsOf(runs, s), [t \in {s} |-> w])
    BY <2>1 DEF AreRuns, RunsOf, Widths
  <2> QED
    BY <2>2, SizeIsNatural
<1> QED
  BY <1>1 DEF CostsOf

LEMMA PreparedWidths ==
  ASSUME NEW bits \in Nat, NEW stream \in Seq(0 .. 2^bits - 1)
  PROVE  /\ EncodePrepare(bits, stream) =
              [s \in 0 .. 2^bits - 1 |->
                 IF RunsOf(Runs(stream), s) = {} THEN 0
                 ELSE BestRb(CostsOf(bits, Runs(stream), s))]
         /\ EncodePrepare(bits, stream) \in [0 .. 2^bits - 1 -> Widths]
<1> DEFINE R == Runs(stream)
           best(s) == IF RunsOf(R, s) = {} THEN 0 ELSE BestRb(CostsOf(bits, R, s))
<1>1. EncodePrepare(bits, stream) = [s \in 0 .. 2^bits - 1 |-> best(s)]
  BY DEF EncodePrepare, RunsOf, CostsOf
<1>2. IsFiniteSet(R) /\ \A run \in R : run.length \in Nat
  BY RunsAreRuns
<1> HIDE DEF R
<1>3. ASSUME NEW s PROVE best(s) \in Widths
  <2>1. CostsOf(bits, R, s) \in [Widths -> Nat]
    BY <1>2, CostsOfAreNatural
  <2>2. BestRb(CostsOf(bits, R, s)) \in Widths
    BY <2>1, BestRbIsBest
  <2> QED
    BY <2>2 DEF Widths
<1> HIDE DEF best
<1>4. EncodePrepare(bits, stream) \in [0 .. 2^bits - 1 -> Widths]
  BY <1>1, <1>3
<1> QED
  BY <1>1, <1>4 DEF R, best

LEMMA WidthsAreNatural ==
  ASSUME NEW S, NEW runs, IsFiniteSet(runs), NEW rb \in [S -> Widths],
         \A run \in runs : run.length \in Nat /\ run.symbol \in S
  PROVE  AreRuns(runs, rb)
BY DEF AreRuns, Widths

\* With the width that is chosen for a symbol the stream is not longer.
LEMMA PreparedWidthIsBest ==
  ASSUME NEW bits \in Nat, NEW stream \in Seq(0 .. 2^bits - 1),
         NEW s \in 0 .. 2^bits - 1, NEW q \in [0 .. 2^bits - 1 -> Widths]
  PROVE  EncodedSize(bits, stream,
                     [q EXCEPT ![s] = EncodePrepare(bits, stream)[s]])
           <= EncodedSize(bits, stream, q)
<1> DEFINE S == 0 .. 2^bits - 1
           R == Runs(stream)
           best == EncodePrepare(bits, stream)
           r == [q EXCEPT ![s] = best[s]]
           part == RunsOf(R, s)
           rest == R \ part
           costs == CostsOf(bits, R, s)
<1>1. IsFiniteSet(R) /\ \A run \in R : run.length \in Nat /\ run.symbol \in S
  BY RunsAreRuns
<1>2. /\ best \in [S -> Widths]
      /\ best[s] = IF part = {} THEN 0 ELSE BestRb(costs)
  BY PreparedWidths
<1> HIDE DEF best, S
<1>3. /\ r \in [S -> Widths] /\ q \in [S -> Widths]
      /\ r[s] = best[s] /\ q[s] \in Widths
      /\ \A t \in S : t # s => q[t] = r[t]
  BY <1>2 DEF S
<1> HIDE DEF r, R
<1>4. AreRuns(R, r) /\ AreRuns(R, q)
  BY <1>1, <1>3, WidthsAreNatural
<1>5. part \in SUBSET R /\ (\A run \in part : run.symbol = s)
      /\ \A run \in rest : run \in R /\ run.symbol # s
  BY DEF RunsOf
<1>6. IsFiniteSet(part) /\ IsFiniteSet(rest)
  BY <1>1, <1>5, FS_Subset
<1>14. costs = [v \in Widths |-> SizeOf(bits, part, [t \in {s} |-> v])]
  BY DEF CostsOf
<1>7. costs \in [Widths -> Nat]
  BY <1>1, CostsOfAreNatural
<1> HIDE DEF part, rest, costs
<1>8. /\ SizeOf(bits, R, r) = SizeOf(bits, part, r) + SizeOf(bits, rest, r)
      /\ SizeOf(bits, R, q) = SizeOf(bits, part, q) + SizeOf(bits, rest, q)
  BY <1>4, <1>5, SizeOfParts DEF rest
<1>9. SizeOf(bits, rest, r) = SizeOf(bits, rest, q)
  <2>1. \A run \in rest : r[run.symbol] = q[run.symbol]
    BY <1>1, <1>3, <1>5
  <2> QED
    BY <1>6, <2>1, SizeAgrees
<1>10. ASSUME NEW x \in [S -> Widths]
       PROVE  SizeOf(bits, part, x) = costs[x[s]]
  <2> DEFINE y == [t \in {s} |-> x[s]]
  <2>1. \A run \in part : x[run.symbol] = y[run.symbol]
    BY <1>5
  <2>2. x[s] \in Widths
    BY <1>10 DEF S
  <2>3. costs[x[s]] = SizeOf(bits, part, y)
    BY <1>14, <2>2
  <2> HIDE DEF y
  <2> QED
    BY <1>6, <2>1, <2>3, SizeAgrees
<1>11. SizeOf(bits, part, r) <= SizeOf(bits, part, q)
  <2>1. CASE part = {}
    <3>1. SizeOf(bits, part, r) = 0 /\ SizeOf(bits, part, q) = 0
      BY <2>1, SizeOfNone
    <3> QED
      BY <3>1
  <2>2. CASE part # {}
    <3>1. r[s] = BestRb(costs)
      BY <1>2, <1>3, <2>2
    <3>2. costs[BestRb(costs)] <= costs[q[s]]
      BY <1>3, <1>7, BestRbIsBest
    <3> QED
      BY <1>3, <1>10, <3>1, <3>2
  <2> QED
    BY <2>1, <2>2
<1>12. SizeOf(bits, part, r) \in Nat /\ SizeOf(bits, part, q) \in Nat
       /\ SizeOf(bits, rest, r) \in Nat
  <2>1. AreRuns(part, r) /\ AreRuns(part, q) /\ AreRuns(rest, r)
    BY <1>4, <1>5, <1>6 DEF AreRuns
  <2> QED
    BY <2>1, SizeIsNatural
<1>13. SizeOf(bits, R, r) <= SizeOf(bits, R, q)
  BY <1>8, <1>9, <1>11, <1>12
<1> QED
  BY <1>13 DEF EncodedSize, R, r, best

\* With other widths, of some symbols or all, the stream is not shorter.
LEMMA PreparedIsOptimal ==
  ASSUME NEW bits \in Nat, NEW stream \in Seq(0 .. 2^bits - 1),
         NEW q \in [0 .. 2^bits - 1 -> Widths]
  PROVE  EncodedSize(bits, stream, EncodePrepare(bits, stream))
           <= EncodedSize(bits, stream, q)
<1> DEFINE S == 0 .. 2^bits - 1
           best == EncodePrepare(bits, stream)
           size(x) == EncodedSize(bits, stream, x)
           mix(T) == [s \in S |-> IF s \in T THEN best[s] ELSE q[s]]
           A == {T \in SUBSET S : size(mix(T)) <= size(q)}
<1>1. best \in [S -> Widths]
  BY PreparedWidths
<1>2. IsFiniteSet(S)
  BY PowerIsNatural, FS_Interval
<1>3. ASSUME NEW x \in [S -> Widths] PROVE size(x) \in Nat
  <2>1. IsFiniteSet(Runs(stream))
        /\ \A run \in Runs(stream) : run.length \in Nat /\ run.symbol \in S
    BY RunsAreRuns
  <2>2. AreRuns(Runs(stream), x)
    BY <1>3, <2>1, WidthsAreNatural
  <2> QED
    BY <2>2, SizeIsNatural DEF EncodedSize
<1>4. ASSUME NEW x \in [S -> Widths], NEW s \in S
      PROVE  size([x EXCEPT ![s] = best[s]]) <= size(x)
  BY <1>4, PreparedWidthIsBest
<1> HIDE DEF best, size
<1>5. \A T \in SUBSET S : mix(T) \in [S -> Widths]
  BY <1>1
<1>6. mix({}) = q /\ mix(S) = best
  BY <1>1
<1>7. ASSUME NEW T \in SUBSET S, NEW s \in S \ T
      PROVE  mix(T \cup {s}) = [mix(T) EXCEPT ![s] = best[s]]
  OBVIOUS
<1> HIDE DEF mix, S
<1>8. {} \in A
  BY <1>3, <1>6 DEF S
<1>9. ASSUME NEW T \in A, NEW s \in S \ T PROVE T \cup {s} \in A
  <2>1. T \in SUBSET S /\ size(mix(T)) <= size(q)
    OBVIOUS
  <2>2. size(mix(T \cup {s})) <= size(mix(T))
    BY <1>4, <1>5, <1>7, <2>1
  <2>3. /\ size(mix(T)) \in Nat /\ size(mix(T \cup {s})) \in Nat
        /\ size(q) \in Nat
    BY <1>3, <1>5, <2>1 DEF S
  <2> QED
    BY <2>1, <2>2, <2>3
<1>10. S \in A
  BY <1>2, <1>8, <1>9, SetInduction
<1> QED
  BY <1>6, <1>10 DEF size, best

-----------------------------------------------------------------------------
(* No code is longer than the symbols it stands for, and a width.          *)

LEMMA RunSizeBound ==
  ASSUME NEW bits \in Nat, NEW n \in Nat, NEW w \in Nat, NEW m \in Nat, w <= m
  PROVE  RunSize(bits, n, w) <= n * (bits + m)
<1> DEFINE p == 2^w
           c == (n + p - 1) \div p
<1>1. p \in Nat /\ p > 0
  BY PowerIsNatural, PowerIsPositive
<1> HIDE DEF p
<1>2. c \in Nat /\ c <= n
  <2>1. c \in Nat /\ p * c <= n + p - 1
    BY <1>1
  <2> HIDE DEF c
  <2>2. CASE c >= n + 1
    <3> PICK d \in Nat : c = n + 1 + d
      BY <2>1, <2>2, c - n - 1 \in Nat
    <3>1. p * c = p * n + p + p * d
      BY <1>1
    <3>2. p * n >= n /\ p * d >= 0
      BY <1>1
    <3>3. p * n \in Nat /\ p * d \in Nat
      BY <1>1
    <3> DEFINE x == p * n  y == p * d  z == p * c
    <3>4. x \in Nat /\ y \in Nat /\ x >= n /\ z = x + p + y /\ z <= n + p - 1
      BY <2>1, <3>1, <3>2, <3>3
    <3> HIDE DEF x, y, z
    <3> QED
      BY <1>1, <3>4
  <2> QED
    BY <2>1, <2>2
<1> HIDE DEF c
<1>3. c * (bits + w) <= n * (bits + m)
  <2>1. c * (bits + w) <= n * (bits + w)
    BY <1>2
  <2>2. n * (bits + w) <= n * (bits + m)
    OBVIOUS
  <2>3. c * (bits + w) \in Nat /\ n * (bits + w) \in Nat
        /\ n * (bits + m) \in Nat
    BY <1>2
  <2> QED
    BY <2>1, <2>2, <2>3
<1> QED
  BY <1>3 DEF RunSize, p, c

\* The run that begins at k + 1 joins those upto k.
LEMMA RunJoins ==
  ASSUME NEW S, NEW stream \in Seq(S), NEW k \in Nat, Begins(stream, k + 1)
  PROVE  LET run == RunAt(stream, k + 1)
         IN  /\ run.length \in Nat \ {0} /\ k + run.length <= Len(stream)
             /\ run.symbol \in S /\ run \in Runs(stream)
             /\ run \notin RunsUpto(stream, k)
             /\ RunsUpto(stream, k + run.length) = RunsUpto(stream, k) \cup {run}
             /\ k + run.length < Len(stream) =>
                  Begins(stream, k + run.length + 1)
<1> DEFINE B == Beginnings(stream)
           run == RunAt(stream, k + 1)
           e == Ends(stream, k + 1)
<1>1. Len(stream) \in Nat /\ DOMAIN stream = 1 .. Len(stream)
  BY LenProperties
<1>2. k + 1 \in B
  BY DEF Beginnings, Begins
<1>3. /\ k + 1 \in 1 .. Len(stream)
      /\ e \in (k + 1) + 1 .. Len(stream) + 1
      /\ e \in B \cup {Len(stream) + 1}
      /\ \A j \in B : j > k + 1 => e <= j
  BY <1>2, RunEnds
<1>4. /\ run.at = k + 1 /\ run.length = e - (k + 1)
      /\ run.symbol = stream[k + 1] /\ run \in Runs(stream)
  BY <1>2, RunsBegin DEF RunAt
<1>5. \A r \in Runs(stream) : r.at \in B /\ r = RunAt(stream, r.at)
  <2>1. ASSUME NEW r \in Runs(stream)
        PROVE  r.at \in B /\ r = RunAt(stream, r.at)
    <3>1. PICK i \in B : r = RunAt(stream, i)
      BY RunsBegin
    <3>2. r.at = i
      BY <3>1 DEF RunAt
    <3> QED
      BY <3>1, <3>2
  <2> QED
    BY <2>1
<1>6. B \subseteq 1 .. Len(stream) /\ stream[k + 1] \in S
  BY <1>1, <1>3, ElementOfSeq DEF Beginnings
<1> HIDE DEF B, e
<1>7. run.length \in Nat \ {0} /\ k + run.length = e - 1
  BY <1>1, <1>3, <1>4
<1>8. run \notin RunsUpto(stream, k)
  BY <1>4 DEF RunsUpto
<1>9. \A r \in Runs(stream) : r.at <= e - 1 <=> r.at <= k \/ r = run
  <2>1. ASSUME NEW r \in Runs(stream)
        PROVE  r.at <= e - 1 <=> r.at <= k \/ r = run
    <3>1. r.at \in B /\ r.at \in Nat
      <4>1. r.at \in B
        BY <1>5
      <4>2. r.at \in 1 .. Len(stream)
        BY <1>6, <4>1
      <4> QED
        BY <4>1, <4>2
    <3>2. CASE r.at <= k
      BY <1>1, <1>3, <3>1, <3>2
    <3>3. CASE r.at = k + 1
      <4>1. r = run
        BY <1>5, <3>3
      <4> QED
        BY <1>1, <1>3, <3>3, <4>1
    <3>4. CASE r.at > k + 1
      <4>1. e <= r.at /\ r # run
        BY <1>3, <1>4, <3>1, <3>4
      <4> QED
        BY <1>1, <1>3, <3>1, <3>4, <4>1
    <3> QED
      BY <3>1, <3>2, <3>3, <3>4
  <2> QED
    BY <2>1
<1>10. RunsUpto(stream, e - 1) = RunsUpto(stream, k) \cup {run}
  BY <1>4, <1>9 DEF RunsUpto
<1>11. e - 1 < Len(stream) => Begins(stream, e - 1 + 1)
  BY <1>1, <1>3 DEF B, Beginnings, Begins
<1> QED
  BY <1>1, <1>3, <1>4, <1>6, <1>7, <1>8, <1>10, <1>11

\* An encoded stream has no more than so many bits for each symbol.
LEMMA SizeBound ==
  ASSUME NEW bits \in Nat, NEW S, NEW stream \in Seq(S),
         NEW rb, NEW m \in Nat, \A s \in S : rb[s] \in 0 .. m
  PROVE  /\ EncodedSize(bits, stream, rb) \in Nat
         /\ EncodedSize(bits, stream, rb) <= Len(stream) * (bits + m)
<1> DEFINE l == Len(stream)
           R == Runs(stream)
           size(k) == SizeOf(bits, RunsUpto(stream, k), rb)
           Good(k) == /\ k < l => Begins(stream, k + 1)
                      /\ size(k) <= k * (bits + m)
           N == {i \in Nat : \E k \in 0 .. l :
                   Good(k) /\ (k >= i \/ k = l)}
<1>1. l \in Nat /\ DOMAIN stream = 1 .. l
  BY LenProperties
<1>2. IsFiniteSet(R)
      /\ \A run \in R : /\ run.at \in 1 .. l
                        /\ run.length \in Nat /\ rb[run.symbol] \in Nat
  BY RunsAreRuns
<1>3. ASSUME NEW k \in Nat
      PROVE  AreRuns(RunsUpto(stream, k), rb) /\ size(k) \in Nat
  <2>1. AreRuns(RunsUpto(stream, k), rb)
    BY <1>2, FS_Subset DEF AreRuns, RunsUpto
  <2> QED
    BY <2>1, SizeIsNatural
<1>4. RunsUpto(stream, 0) = {} /\ RunsUpto(stream, l) = R
  BY <1>1, <1>2 DEF RunsUpto
<1>5. Good(0)
  <2>1. size(0) = 0
    BY <1>4, SizeOfNone
  <2>2. 0 < l => Begins(stream, 0 + 1)
    BY <1>1 DEF Begins
  <2>3. 0 * (bits + m) = 0
    OBVIOUS
  <2> HIDE DEF size
  <2> QED
    BY <2>1, <2>2, <2>3
<1>6. ASSUME NEW k \in 0 .. l, Good(k), k < l
      PROVE  \E j \in 0 .. l : Good(j) /\ j > k
  <2> DEFINE run == RunAt(stream, k + 1)
             n == run.length
             w == rb[run.symbol]
  <2>1. k \in Nat /\ Begins(stream, k + 1)
    BY <1>1, <1>6
  <2>2. /\ n \in Nat \ {0} /\ k + n <= l
        /\ run.symbol \in S /\ run \in R
        /\ run \notin RunsUpto(stream, k)
        /\ RunsUpto(stream, k + n) = RunsUpto(stream, k) \cup {run}
        /\ k + n < l => Begins(stream, k + n + 1)
    BY <2>1, RunJoins
  <2>3. w \in Nat /\ w <= m
    BY <2>2
  <2> HIDE DEF run
  <2>4. k + n \in Nat /\ k + n \in 0 .. l /\ k + n > k
    BY <1>1, <2>1, <2>2
  <2>5. AreRuns(RunsUpto(stream, k + n), rb)
    BY <1>3, <2>4
  <2>6. AreRuns(RunsUpto(stream, k) \cup {run}, rb)
    BY <2>2, <2>5
  <2>7. size(k + n) = size(k) + RunSize(bits, n, w)
    <3> DEFINE T == RunsUpto(stream, k)
    <3> HIDE DEF T
    <3>1. AreRuns(T \cup {run}, rb) /\ run \notin T
      BY <2>2, <2>6 DEF T
    <3>2. SizeOf(bits, T \cup {run}, rb)
            = SizeOf(bits, T, rb) + RunSize(bits, run.length, rb[run.symbol])
      BY <3>1, SizeOfOneMore
    <3> QED
      BY <2>2, <3>2 DEF T, w
  <2> HIDE DEF w
  <2>8. RunSize(bits, n, w) <= n * (bits + m) /\ RunSize(bits, n, w) \in Nat
    BY <2>2, <2>3, RunSizeBound, RunSizeIsNatural
  <2>9. size(k) \in Nat /\ size(k) <= k * (bits + m)
    BY <1>3, <1>6, <2>1
  <2>10. size(k + n) <= (k + n) * (bits + m)
    <3> DEFINE x == k * (bits + m)  y == n * (bits + m)
               u == RunSize(bits, n, w)  v == size(k)
    <3>1. (k + n) * (bits + m) = x + y
      BY <2>1, <2>2
    <3>2. x \in Nat /\ y \in Nat
      <4>1. bits + m \in Nat /\ k \in Nat /\ n \in Nat
        BY <2>1, <2>2
      <4> QED
        BY <4>1
    <3> HIDE DEF x, y, u, v, size
    <3>3. v + u <= x + y
      BY <2>8, <2>9, <3>2 DEF x, y, u, v
    <3> QED
      BY <2>7, <3>1, <3>3 DEF u, v
  <2> HIDE DEF size, n
  <2> QED
    BY <2>2, <2>4, <2>10
<1> HIDE DEF Good, l
<1>7. 0 \in N
  BY <1>1, <1>5
<1>8. ASSUME NEW i \in N PROVE i + 1 \in N
  <2>1. PICK k \in 0 .. l : Good(k) /\ (k >= i \/ k = l)
    OBVIOUS
  <2>2. i \in Nat
    OBVIOUS
  <2> HIDE DEF N
  <2>3. \E j \in 0 .. l : Good(j) /\ (j >= i + 1 \/ j = l)
    <3>1. CASE k = l
      BY <2>1, <3>1
    <3>2. CASE k # l
      <4>1. k < l /\ k \in Nat
        BY <1>1, <3>2
      <4>2. PICK j \in 0 .. l : Good(j) /\ j > k
        BY <1>6, <2>1, <4>1
      <4>3. j >= i + 1
        BY <1>1, <2>1, <2>2, <3>2, <4>1, <4>2
      <4> QED
        BY <4>2, <4>3
    <3> QED
      BY <3>1, <3>2
  <2> QED
    BY <2>2, <2>3 DEF N
<1>9. N \in SUBSET Nat
  OBVIOUS
<1> HIDE DEF N
<1>10. l \in N
  BY <1>1, <1>7, <1>8, <1>9, Induction
<1>11. PICK k \in 0 .. l :
              Good(k) /\ (k >= l \/ k = l)
  BY <1>10 DEF N
<1>12. k = l
  BY <1>1, <1>11
<1>13. size(l) <= l * (bits + m)
  BY <1>11, <1>12 DEF Good
<1> QED
  BY <1>1, <1>3, <1>4, <1>13 DEF EncodedSize, l

\* With the widths chosen for it a stream does not grow.
LEMMA PreparedFits ==
  ASSUME NEW bits \in Nat, NEW stream \in Seq(0 .. 2^bits - 1)
  PROVE  LET size == EncodedSize(bits, stream, EncodePrepare(bits, stream))
         IN  size \in Nat /\ size <= Len(stream) * bits
<1> DEFINE S == 0 .. 2^bits - 1
           none == [s \in S |-> 0]
           best == EncodePrepare(bits, stream)
<1>1. best \in [S -> Widths] /\ none \in [S -> Widths]
  BY PreparedWidths DEF Widths
<1>2. EncodedSize(bits, stream, best) <= EncodedSize(bits, stream, none)
  BY <1>1, PreparedIsOptimal
<1> HIDE DEF best, S
<1>3. (\A s \in S : none[s] \in 0 .. 0) /\ \A s \in S : best[s] \in 0 .. 5
  BY <1>1 DEF Widths
<1> HIDE DEF none
<1>4. stream \in Seq(S)
  BY DEF S
<1>5. /\ EncodedSize(bits, stream, none) \in Nat
      /\ EncodedSize(bits, stream, none) <= Len(stream) * (bits + 0)
  BY <1>3, <1>4, SizeBound
<1>6. EncodedSize(bits, stream, best) \in Nat
  BY <1>3, <1>4, SizeBound
<1>7. Len(stream) * (bits + 0) = Len(stream) * bits
      /\ Len(stream) * bits \in Nat
  BY <1>4, LenProperties
<1> QED
  BY <1>2, <1>5, <1>6, <1>7 DEF best

=============================================================================
