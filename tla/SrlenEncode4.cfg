\* Encode4 and Encode8 of one or two bytes.
SPECIFICATION Spec
CONSTANTS
  Nil = Nil
  Data <- OneOrTwoBytes
  Rbs4 <- NilOrSame4
  Rbs8 <- NilOrSame8
CHECK_DEADLOCK FALSE
INVARIANT RoundTripOfEntries
