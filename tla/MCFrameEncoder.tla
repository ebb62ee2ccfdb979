---------------------------- MODULE MCFrameEncoder ----------------------------
(***************************************************************************)
(* FrameEncoder for TLC: images made of a few kinds of lines, so that all  *)
(* streams are used, edges are cut off, and spans and runs are long.       *)
(***************************************************************************)
EXTENDS FrameEncoder

CONSTANT LastRows          \* the lines before these are all alike

\* A line that repeats this pattern, and one with a single pixel that is not 0.
Line(pattern) == [x \in Cols |-> pattern[(x % Len(pattern)) + 1]]
Dot(at, c)    == [x \in Cols |-> IF x = at THEN c ELSE 0]

\* Black; two colours; all colours; lines that differ from black in the last
\* pixel of a tile, in the first and last tile, or in the half tile at the end.
Lines ==
  {Line(<<0>>), Line(<<0, 1, 0>>), Line(<<2, 3, 4, 1>>),
   Dot(2 * TileWidth - 1, 2), [Dot(0, 4) EXCEPT ![Width - 1] = 4],
   Dot(Width - 1, 3)}

SomeImages ==
  {[y \in Rows |-> IF y < LastRows THEN first ELSE last[y]] :
     first \in Lines, last \in [LastRows .. Height - 1 -> Lines]}

\* Images of one line, and black images of these and other sizes.
SomePrevious ==
  {[y \in Rows |-> l] : l \in Lines} \cup
  {[y \in 0 .. h |-> [x \in 0 .. w |-> 0]] :
     h \in Height - 2 .. Height, w \in Width - 2 .. Width}

=============================================================================
