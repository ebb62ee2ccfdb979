----------------------------- MODULE SrlenEntries -----------------------------
(***************************************************************************)
(* Encode4 and Encode8, go/encoder/srlen.go.  Each repeats the two passes  *)
(* of Encode for one symbol size, on a reader that it makes itself: the    *)
(* same specification, with the number of bits it gives that reader.       *)
(***************************************************************************)
EXTENDS Integers

CONSTANTS
  Data,        \* the data: sequences of bits, whole bytes
  Rbs4, Rbs8,  \* what givenRb can be
  Nil          \* givenRb = nil

VARIABLES
  entry,       \* the function that is called
  data, givenRb, phase, numBits, readBits, hists, rb, symbol, remain, out, back

\* Encode4Prepare and Encode4.
Encode4 == INSTANCE Srlen WITH
  SymbolBits <- 4, PrepareBits <- 4, EncodeBits <- 4,
  Inputs <- Data, GivenRbs <- Rbs4, MaxCut <- 0

\* Encode8Prepare, whose reader is too short for one symbol, and Encode8.
Encode8 == INSTANCE Srlen WITH
  SymbolBits <- 8, PrepareBits <- 4, EncodeBits <- 8,
  Inputs <- Data, GivenRbs <- Rbs8, MaxCut <- 0

Init == \/ entry = "Encode4" /\ Encode4!Init
        \/ entry = "Encode8" /\ Encode8!Init

Next == /\ \/ entry = "Encode4" /\ Encode4!Next
           \/ entry = "Encode8" /\ Encode8!Next
        /\ UNCHANGED entry

Spec == Init /\ [][Next]_<<entry, Encode4!vars>>

\* "Encode takes a stream of symbols and encodes it using the SRLEN algorithm"
\* (srlen.go:152 and :251): what is encoded decodes to the data.  Refuted: only
\* the first nibble is, or the first byte.
RoundTripOfEntries ==
  /\ entry = "Encode4" => Encode4!RoundTrip
  /\ entry = "Encode8" => Encode8!RoundTrip

=============================================================================
