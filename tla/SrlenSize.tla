------------------------------ MODULE SrlenSize ------------------------------
(***************************************************************************)
(* What the run-length encoding of go/encoder/srlen.go costs, and which    *)
(* run bit lengths it chooses.  A stream is the sequence of its symbols,   *)
(* each of so many bits; rb gives each symbol its run bit length.          *)
(***************************************************************************)
EXTENDS Integers, Sequences, FiniteSetsExt

Widths == 0 .. 5              \* the run bit lengths a runHist knows

\* recordRun: a run costs one code per chunk of up to 2^w symbols.
RunSize(bits, run, w) == ((run + 2^w - 1) \div 2^w) * (bits + w)

\* bestRb: the first of the widths with the smallest size.
BestRb(sizes) ==
  CHOOSE w \in Widths : \A v \in Widths :
    sizes[w] < sizes[v] \/ (sizes[w] = sizes[v] /\ w <= v)

\* The runs of the stream: where each begins, of which symbol, and how long.
Runs(stream) ==
  LET starts == {i \in DOMAIN stream : i = 1 \/ stream[i - 1] # stream[i]}
      Later(i) == {j \in starts \cup {Len(stream) + 1} : j > i}
  IN  {[at |-> i, symbol |-> stream[i], length |-> Min(Later(i)) - i] :
         i \in starts}

\* The bits that these runs cost.
SizeOf(bits, runs, rb) ==
  MapThenSumSet(LAMBDA run : RunSize(bits, run.length, rb[run.symbol]), runs)

\* The bits that Encode writes for the stream.
EncodedSize(bits, stream, rb) == SizeOf(bits, Runs(stream), rb)

\* EncodePrepare: the run bit lengths it chooses for the stream.  A symbol that
\* does not occur costs nothing with any of them, and the first is taken.
EncodePrepare(bits, stream) ==
  LET runs    == Runs(stream)
      of(s)   == {run \in runs : run.symbol = s}
      cost(s) == [w \in Widths |-> SizeOf(bits, of(s), [t \in {s} |-> w])]
  IN  [s \in 0 .. 2^bits - 1 |-> IF of(s) = {} THEN 0 ELSE BestRb(cost(s))]

=============================================================================
