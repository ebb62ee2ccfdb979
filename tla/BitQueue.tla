------------------------------ MODULE BitQueue ------------------------------
(***************************************************************************)
(* What a BitStreamWriter and the BitStreamReader taken from it promise,   *)
(* go/encoder/bitstream.go, without bytes and registers: a growing line of *)
(* bits and a cursor on it.  The tests of bitstream_test.go are instances. *)
(*                                                                         *)
(* A number is the set of its bits that are 1.                             *)
(***************************************************************************)
EXTENDS Integers

VARIABLES
  length, ones,   \* the bits written, and which of them are 1
  sealed,         \* Finalize was called
  limit,          \* the bits the reader may read: those before its creation
  settled,        \* of these, the bits that are certain to be read as written
  cursor,         \* the bits read or skipped
  result          \* of the last ReadBits or PeekBits: the width, the value

vars == <<length, ones, sealed, limit, settled, cursor, result>>

MaxWidth == 32

\* How a read is refused, the int32 of -1: each of its bits is 1.
Error == 0 .. 31

Init ==
  /\ length = 0 /\ ones = {} /\ sealed = FALSE
  /\ limit = 0 /\ settled = 0 /\ cursor = 0
  /\ result = <<0, {}>>

\* n bits go behind those written before.
Write(n) ==
  /\ ~sealed
  /\ length' = length + n
  /\ ones \subseteq ones' /\ ones' \ ones \subseteq length .. length' - 1
  /\ UNCHANGED <<sealed, limit, settled, cursor, result>>

Seal ==
  /\ sealed' = TRUE
  /\ UNCHANGED <<length, ones, limit, settled, cursor, result>>

\* A reader has all bits of a finalized writer; of another, some.
Open ==
  /\ limit' = length /\ cursor' = 0
  /\ settled' \in 0 .. length
  /\ sealed => settled' = length
  /\ UNCHANGED <<length, ones, sealed, result>>

InReach(n) == 0 < n /\ cursor + n <= limit

\* The result has the n bits at the cursor, as far as they are settled.
Shows(n) ==
  /\ result'[1] = n /\ result'[2] \subseteq 0 .. n - 1
  /\ \A i \in 0 .. n - 1 :
       cursor + i < settled => (i \in result'[2] <=> cursor + i \in ones)

Refuse(n) == ~InReach(n) /\ result' = <<n, Error>> /\ cursor' = cursor

Peek(n) ==
  /\ Refuse(n) \/ (InReach(n) /\ Shows(n) /\ cursor' = cursor)
  /\ UNCHANGED <<length, ones, sealed, limit, settled>>

Read(n) ==
  /\ Refuse(n) \/ (InReach(n) /\ Shows(n) /\ cursor' = cursor + n)
  /\ UNCHANGED <<length, ones, sealed, limit, settled>>

Skip(n) ==
  /\ InReach(n)
  /\ cursor' = cursor + n
  /\ UNCHANGED <<length, ones, sealed, limit, settled, result>>

Rewind ==
  /\ cursor' = 0
  /\ UNCHANGED <<length, ones, sealed, limit, settled, result>>

Next ==
  \/ \E n \in 1 .. MaxWidth : Write(n)
  \/ Seal \/ Open \/ Rewind
  \/ \E n \in 0 .. MaxWidth : Peek(n) \/ Read(n) \/ Skip(n)

Spec == Init /\ [][Next]_vars

=============================================================================
