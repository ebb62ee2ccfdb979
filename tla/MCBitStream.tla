----------------------------- MODULE MCBitStream -----------------------------
(***************************************************************************)
(* BitStream for TLC: the numbers that are written.                        *)
(***************************************************************************)
EXTENDS BitStream

\* Every third bit of the stream is 1, so that no two bytes in a row and no two
\* words are alike; the first 32 bits, or those after 31, can also be all ones,
\* as -1 is.
Pattern(n, at) ==
  {{i \in 0 .. n - 1 : (at + i) % 3 = 0}}
    \cup IF n = 32 /\ at \in {0, 31} THEN {0 .. 31} ELSE {}

=============================================================================
