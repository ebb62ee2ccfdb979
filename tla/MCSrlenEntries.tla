---------------------------- MODULE MCSrlenEntries ----------------------------
(***************************************************************************)
(* SrlenEntries for TLC: one or two bytes of equal nibbles, and run bit    *)
(* lengths that are nil or the same for all symbols.                       *)
(***************************************************************************)
EXTENDS SrlenEntries, Sequences

Byte(low, high) == [i \in 1 .. 8 |-> IF i <= 4 THEN low ELSE high]

SomeBytes == {Byte(l, h) : l, h \in {0, 1}}
OneOrTwoBytes == SomeBytes \cup {a \o b : a, b \in SomeBytes}

Same(n) == {[s \in 0 .. n - 1 |-> w] : w \in 0 .. 5}
NilOrSame4 == {Nil} \cup Same(16)
NilOrSame8 == {Nil} \cup Same(256)

=============================================================================
