\* Two-bit symbols: every data of up to 7 bits (an odd bit left over), a run of
\* up to 40 symbols and one more, so that every width is the best for some; the
\* widths of bestRb and given ones; streams of up to 10 bits cut off after any
\* bit.  A coding ends.
SPECIFICATION Spec
CONSTANTS
  SymbolBits = 2
  PrepareBits = 0
  EncodeBits = 0
  MaxCut = 10
  MaxBits = 7
  MaxRun = 40
  GivenWidths = {0, 1, 5}
  Nil = Nil
  Inputs <- AllInputs
  GivenRbs <- AllRbs
CHECK_DEADLOCK FALSE
INVARIANTS
  TypeOK
  RoundTrip
  DecodeKeepsPrefix
  SizeIsPredicted
  ChoosesAsSized
  OwnRbIsOptimal
  OutputFits
