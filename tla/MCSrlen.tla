------------------------------- MODULE MCSrlen -------------------------------
(***************************************************************************)
(* Srlen for TLC: what is encoded, and with which run bit lengths.         *)
(***************************************************************************)
EXTENDS Srlen

CONSTANTS
  MaxBits,       \* every data of up to so many bits ...
  MaxRun,        \* ... and a run of up to so many symbols, then up to 3 bits
  GivenWidths    \* the widths a givenRb can have

Repeated(b, n) == [i \in 1 .. n |-> b]

AllInputs ==
  UNION {[1 .. n -> {0, 1}] : n \in 0 .. MaxBits}
    \cup {Repeated(0, m * SymbolBits) \o Repeated(1, n) :
            m \in 0 .. MaxRun, n \in 0 .. 3}

\* Nil, a width for the symbol 0 and one for the others, and a givenRb of the
\* wrong length.
AllRbs ==
  {Nil} \cup {[s \in Symbols |-> IF s = 0 THEN v ELSE w] : v, w \in GivenWidths}
        \cup {[s \in {0} |-> 0]}

=============================================================================
