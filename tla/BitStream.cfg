\* A writer of up to 72 bits with capacities below, at and above what it needs,
\* the widths at which the accumulator is exactly full, one short, or holds 63
\* bits.  The program may end in a panic.
SPECIFICATION Spec
CONSTANTS
  WriteWidths = {0, 9, 31, 32}
  ReadWidths = {0, 7, 32}
  Capacities = {0, 8, 64, 72}
  MaxBits = 72
  Payloads <- Pattern
CHECK_DEADLOCK FALSE
INVARIANTS
  TypeOK
  WriterKeepsBits
  ReaderFollows
  PanicsOnlyWhenFull
  TestBitTells
PROPERTY KeepsQueue
