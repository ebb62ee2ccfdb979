# cmui in TLA+

cmui is a remote UI server for small displays: a C++ TCP server that runs one
thread per client and hands each client to a callback of the application, and
a frame encoder in Go that compresses the difference between two frames.  This
directory holds TLA+ models of both, what TLC checks of them on small
instances, and what TLAPS proves for every instance.

    tlc -workers 2 -config UiServerSafety.cfg MCUiServer
    tlapm UiServerProofs.tla
    tlapm UiServerDescriptorProofs.tla
    tlapm ClientIoProofs.tla
    tlapm BitStreamProofs.tla
    tlapm SrlenSizeProofs.tla
    tlapm SrlenProofs.tla
    tlapm SrlenCodecProofs.tla
    tlapm FrameEncoderProofs.tla

## Inventory

| Part | Source | State | Operations | What makes it correct |
|---|---|---|---|---|
| Life of a server | `source/main/cpp/c_ui_server.cpp`, `c_ui_server.h` | `server_t` (running flag, listening socket, accept thread), `client_t` per slot (state, descriptor, thread handle, started flag, peer key) | `server_create`, `server_start`, `server_stop`, `server_destroy`, `server_thread_main`, `client_thread_main`, slot allocation, `close_client_socket` | a slot belongs to one thread; nothing runs or is open after a stop; no descriptor leaks; a peer keeps its slot; a stop ends |
| Client API | the same | `m_fd`, `m_state`, receive buffer, the socket's buffers | `client_wait`, `client_recv`, `client_send` | the bytes of the packets are sent in order, once; a connection is dropped only for a cause; a send ends |
| SRLEN codec | `go/encoder/srlen.go` | histograms, run bit lengths, reader and writer positions, run in progress | `EncodePrepare`, `Encode`, `Encode4/8(Prepare)`, `Decode`, `ReadSymbol` | what is decoded is what was encoded; the chosen run bit lengths are the best; the output fits its buffer |
| Bit streams | `go/encoder/bitstream.go` | buffer, accumulator, positions | `WriteBits`, `Finalize`, `ReadBits`, `PeekBits`, `SkipBits`, `ResetRead`, `IsReadEnd` | a queue of bits, whatever the accumulator holds |
| Frame encoder | `go/encoder/frame_encoder.go` | per-line streams, change flags, palette | `BuildHistogram`, `MakeColorIndex`, `LineInfo.Initialize`, `EncodeFrame` | the streams, put on the previous image, give the current one; the flags mark what changed; no stream outgrows its buffer |
| Frame header | `go/encoder/frame_header.go` | a record | setters, `WriteBinary` | it describes the streams |
| Command | `go/encoder/cmd/frame_encoder.go` | none | PNG in, the previous image from a file, shifted or filled, report out | the encoder is given images of one size and tiles it can handle |
| Client message | `source/main/include/cmui/c_ui_protocol.h` | none | a struct nobody reads or writes | |
| Frame synchronisation protocol | `docs/designs/FrameSyncProtocol.md` | none | a design without an implementation | |
| Build files, test main | `cmui.go`, `package/package.go`, `source/test/cpp` | none | | |

How the parts meet: the threads of the server share `client_t` and
`server_t` (atomics `m_state` and `m_running`, everything else without a
lock) and the descriptor table of the process.  The callback runs in the
client thread and calls the client API.  The frame encoder calls the codec,
which reads and writes bit streams; the server and the encoder are not
connected by any code yet.

What is hard: the interleavings of the three kinds of threads around a slot
that is freed by its thread, by a stop or by a failed `pthread_create`; a
descriptor closed by two threads and reused by the kernel in between; thread
handles overwritten before they are joined; errors of the system calls half
way through; partial sends, time limits and signals; boundaries of run
lengths, registers, buffers, palettes and tiles; streams that are cut off, or
written and read side by side; run bit lengths chosen for a frame and used on a
line.  `PROJECT.json` lists these hazards
with their lines and the properties that watch them.

## Modules

| Module | What it is |
|---|---|
| `UiServer` | the life of one server: controlling thread, accept thread, client threads, descriptor table, peers |
| `ServerPromise` | what the header file promises, without threads' steps or descriptors |
| `UiServerInvariant` | the inductive invariants of `UiServer` |
| `UiServerProofs` | theorems about threads and slots, and the refinement of `ServerPromise` |
| `UiServerDescriptorProofs` | theorems about descriptors and the end of `server_stop` |
| `MCUiServer` | symmetry for TLC |
| `ClientIo` | one client's calls of the client API against a socket, a peer and a stop |
| `ClientIoProofs` | theorems about `ClientIo`: types, order of the bytes, causes |
| `SrlenSize` | what a run-length encoding costs, and which run bit lengths it chooses |
| `Srlen` | one encoding followed by one decoding |
| `MCSrlen` | the data and run bit lengths TLC enumerates |
| `SrlenEntries`, `MCSrlenEntries` | `Encode4` and `Encode8` as instances of `Srlen`, and their data |
| `SrlenSizeProofs` | lemmas about sums, runs, sizes and the chosen run bit lengths |
| `SrlenProofs` | theorems about `Srlen`: types, sizes, the best run bit lengths |
| `SrlenCodecProofs` | theorems about `Srlen`: what is encoded is decoded, and fits |
| `BitQueue` | what a bit stream promises: a line of bits and a cursor |
| `BitStream` | a writer and a reader with buffer, positions and accumulators |
| `MCBitStream` | the numbers that are written |
| `BitStreamProofs` | theorems about `BitStream`, and the refinement of `BitQueue` |
| `FrameHeader` | the header of a frame, a record with its setters |
| `FrameEncoder` | one call of `EncodeFrame` by the command; uses `FrameHeader` and `SrlenSize` |
| `MCFrameEncoder` | the images TLC enumerates |
| `FrameEncoderProofs` | theorems about `FrameEncoder`: tiles, header, the image, capacities |

### UiServer

The variables keep the source's names.  `kfd` says what each descriptor of the
process is (`closed`, `listen`, `conn`, or `app` for the rest of the process),
`eof` which connections read end-of-file, `backlog` who waits for `accept`.
Each thread has a program counter, the loop index it needs and a register for
the descriptor it has tested.  The labels of the program counters name the
next access to shared memory or the next system call.

| Actions | Code |
|---|---|
| `Create`, `DestroyStopped`, `DestroyFrees` | `server_create`, `server_destroy` |
| `StartClaims`, `StartListens`, `StartCannotListen`, `StartSpawns`, `StartCannotSpawn` | `server_start`; its four ways to fail before the thread have one effect |
| `StopClaims`, `StopClosesListener`, `StopClearsListener`, `StopJoinsAcceptor` | first half of `server_stop` |
| `StopScans`, `StopMarks`, `StopTestsFd`, `StopShuts`, `StopCloses`, `StopClears` | its first loop with `close_client_socket` |
| `StopJoinsClient` | its second loop |
| `AcceptorTests`, `AcceptorSelects`, `AcceptorAccepts`, `AcceptorAcceptFails` | `server_thread_main` up to `accept` |
| `AcceptorSeeksHome`, `AcceptorSeeksAny`, `AcceptorRejects` | `allocate_client_slot_for_peer`, `allocate_client_slot`, no slot |
| `AcceptorSpawns`, `AcceptorCannotSpawn`, `AcceptorMarksStarted` | filling in the slot and `pthread_create` |
| `ThreadTests`, `ThreadCallsApi`, `ThreadDoesIo`, `ThreadContinues`, `ThreadBreaks` | the loop of `client_thread_main` and its callback |
| `ThreadTestsFd`, `ThreadShuts`, `ThreadCloses`, `ThreadClears`, `ThreadReleases` | its end |
| `PeerConnects`, `PeerGivesUp`, `PeerDisconnects`, `AppOpens`, `AppCloses` | the environment |

Decisions worth knowing:

- One thread controls the server, as in the threading model of
  `HighLevelDesign.md`; no callback stops the server.
- `m_fd` is read without synchronisation several times in a row.  A second
  read gives the value tested before or the present one, since the compiler
  may keep the register.
- The fields of a slot are filled in by the accept thread while nobody else
  looks at them, so that is one step with `pthread_create`.  `m_thread_started`
  is set after it and is a step of its own, since the new thread may already
  be running, or finished.
- `Threads` are the threads the process can hold.  A client thread that has
  ended stays `exited`, and its place is taken, until it is joined: the pool
  shrinks by every thread whose handle was overwritten.
- The server binds an IPv4 socket, so `extract_peer_key` always finds a
  family, and its other branches are unreachable.
- A missing callback leaves the loop at once, which is the behaviour of a
  callback that returns non-zero at its first call.
- `shutdown` of the listening socket has no effect the model could see before
  the `close` that follows.  Descriptors of the rest of the process are not
  listening sockets.
- The history variable `ahome` remembers, at `accept`, the free slots that had
  the peer's key.

### ServerPromise

`sessions` are pairs of a client index and a thread; `phase` is where the
server is between create and destroy.  A session begins while clients are
accepted, with an index and a thread that no other session has; a stop
returns when there is none.  `UiServer` implements it with `Phase` (from the
controlling thread's program counter and `m_running`) and `Sessions` (from the
client threads at work).

### ClientIo

A step is one system call with the code that follows it.  The send buffer has
a bound, the peer reads one byte at a time when it likes and may close or reset
the connection; `Stop` is what `server_stop` does to this client.  A byte is the
number of its packet and its place in it.  Accepted sockets are non-blocking,
as they are on the platform the code is compiled for (they inherit
`O_NONBLOCK` from the listening socket).  `SIGPIPE` is taken to be ignored.
Interrupted calls are counted so that they can be bounded.  That the number of
a closed socket may come to name another file is the subject of `UiServer`; here
every call on it fails.

### Srlen

A bit stream is the sequence of its bits, and a step is one turn of a loop:
one run analysed, one run read, one code written, one code decoded.
`Encode`, `Encode4` and `Encode8` are copies of each other that differ in the
symbol size and in the number of bits they let their reader see, which are
constants here (`SymbolBits`, `PrepareBits`, `EncodeBits`); `SrlenEntries` has the
instances for the latter two.  Both decoders run on what was encoded, `Decode`
and the calls of `ReadSymbol`.

### BitStream

An action is one call of a method.  A number, a register and the buffer are each
the set of their bits that are 1, so that a shift is a shift and nothing is put
together from digits.  `given` is a history variable, the ones among the bits
written; `flushed` remembers how many bits were in the buffer when the reader was
made, and `overrun` a panic, after which nothing happens.

| Actions | Code |
|---|---|
| `SetCapacity` | `SetCapacity`, and `NewBitStreamWriter` in `Init` |
| `Accumulate`, `Flush`, `FlushPanics` | `WriteBits` by what happens to the accumulator |
| `Finalize`, `FinalizePanics` | `Finalize` |
| `Reader`, `ResetRead` | `Reader`, `NewBitStreamReader`, `ResetRead` |
| `ReadBits`, `PeekBits`, `SkipBits`, `Refuse` | the three calls, and their common test |

Calls come in any order, also after `Finalize` and before it.  The two
restrictions are duties of the callers: a number has no more bits than its
width, which is at most 32 (the code does not mask it), and a writer is grown,
not shrunk, before a reader is taken from it (growing moves the buffer away from
under a reader).

`BitQueue` has no bytes: bits go behind those written, a reader has a limit and
a cursor, and what it reads are the bits at the cursor as far as they are
*settled*.  A reader of a finalized writer has all bits settled; of another, those
that had left the accumulator, since it shares the buffer.

### FrameEncoder

A step is a turn of one of the loops over the lines, or what is between two
loops; `phase` and `line` say where `EncodeFrame` is.  A stream is the sequence of
its symbols (`Srlen` and `BitStream` show that it comes back), and the writers
appear with their capacities: `Fits` compares bytes with bytes, as the writer does.

| Actions | Code |
|---|---|
| `GetImages` (in `Init`) | `getImages`: the previous image from a file, shifted or filled; another size ends the command |
| `BuildHistogram` | `BuildHistogram`, `MakeColorIndex`; the unstable sort gives any order of equal counts |
| `DiffLine` | first loop of `EncodeFrame`: flags of a line and its spans |
| `BuildChangeStreams` | line and tile streams and their encoding |
| `EmitLine`, `SkipLine` | second loop: the streams of the frame and of the line, which `StreamsOf` builds pixel by pixel (`StreamFor`, `WithPixel`) |
| `ChooseGlobalRb` | the encoding of the streams of the frame |
| `EncodeLine`, `SkipLine` | third loop: the streams of the line with the run bit lengths of the frame |
| `MakeHeader` | the header |

The sizes of the palettes, 4, 16 and 256 colours, are constants, so that small
images reach the raw pixels.  `SrlenSize` computes the run bit lengths and the
sizes of the encoded streams from the runs at once; `ChoosesAsSized` and
`SizeIsPredicted` say that the loops of `Srlen` arrive at the same.  Times, the
printing and the counters only printed are left out, but for `P16NumPixels`.

## Runs

| Run | Question | Bounds | States |
|---|---|---|---|
| `UiServerSafety` | slots, threads, handles, descriptors; does the server implement `ServerPromise`? | 2 slots, 3 threads, 3 descriptors, 1 peer | 472,508 |
| `UiServerAffinity` | does a peer get its slot back? | 2 slots, 3 threads, 2 descriptors, 2 peers | 432,924 |
| `UiServerLive` | do stops end, slots become free, losses get noticed? | 1 slot, 2 threads, 2 descriptors, 1 peer, fair | 32,384 |
| `UiServerOwner` | finding 1 | 1 slot, 1 thread | violation |
| `UiServerListens` | finding 2 | 1 slot, 1 thread | violation |
| `ClientIo` | order, causes, end of a send | buffers of 2, packets of up to 3 bytes, 2 packets, 2 signals, fair | 86,640 |
| `ClientIoWait` | finding 3 | 1 packet, 1 signal | violation |
| `Srlen` | round trip, sizes, the best widths, capacity, streams that are cut off | 2-bit symbols, all data of up to 7 bits, runs of up to 40, streams of up to 10 bits cut after any bit | 199,284 |
| `SrlenEncode4` | finding 4 | one or two bytes | violation |
| `BitStream` | is it a queue of bits? | 72 bits, widths 0, 9, 31, 32 in and 0, 7, 32 out, capacities 0, 8, 64, 72 | 122,030 |
| `FrameEncoder` | image, tiles, header, capacities | images of 17 by 9 in five colours, palettes of 1, 1 and 2, tiles of 8 by 8 | 99,085 |
| `FrameReport` | finding 5 | as `FrameEncoder`, fewer images | violation |

Why the bounds are enough.  Two slots show a slot that is reused beside one
that is busy and a server that is full; three threads show two at work and a
zombie, or two zombies; three descriptors show the listener, two connections
and every reuse of a number, since the rest of the process opens and closes
descriptors at any time.  The affinity needs two peers, and its run two
descriptors only: one connection at a time, while its slot may still be
closing.  For liveness, one slot is where every wait of a stop happens, and the
second thread is the zombie beside the one at work.  A packet of three bytes
needs two sends into a buffer of two, with a full buffer in between; the second
packet shows what follows a torn one.  Runs of up to 40 cross the boundaries of all
run bit lengths, 2, 4, 8, 16 and 32, in both the analysis and the encoder.
72 bits fill the accumulator twice, with 63 bits in it in between, and end in the
middle of a word; the pattern of the bits, every third, makes each byte and word
different from its neighbours, and numbers of all ones are read as the error
-1 is.  17 by 9 pixels in the tiles of the command are two tiles and a pixel in a
line and a second row of tiles with one line, so edges are cut off on both sides;
one pixel is also the tightest case for the span streams (3 spans of 6 bits in 3
bytes).  Lines of six kinds, from black to one with all palettes and raw pixels,
meet images of every kind; seven long equal lines make the frame choose wide run
bit lengths, and the last two are of any kind.  The histogram of a symbol size
makes larger alphabets expensive and shows nothing new: codes of different symbols
do not interact.

The safety runs of the server treat threads, descriptors and peers as
interchangeable; all their formulas are symmetric in them, the refinement of
`ServerPromise` included.  Deadlock is checked everywhere except where the
program ends: a coding of `Srlen`, a panic of `BitStream`, the encoding of a frame.

## Fairness

`UiServerLive` assumes that every thread that can take a step takes one
(weak fairness of the controlling thread inside a call, of the accept thread,
of each client thread): operating system threads are scheduled.  Nothing
forces the application to call `server_stop`, a peer to come or go, or the
rest of the process to do anything.

Of the callback it is assumed that it returns, and that it keeps trying its
connection with a call that can fail (strong fairness of returning, of calling,
and of a call that records an end).  This is what the comment on `client_fn_t`
expects ("run until the client disconnects or the server signals it to
terminate"): the code gives a callback that never returns no way to be
stopped.  `StopTerminates` and `SlotReleased` need the first assumption,
`PeerLossNoticed` both.

`ClientIo` assumes weak fairness of the steps inside `client_send` and nothing of
the peer.  Signals are the one thing that could keep it going for ever, and
they are bounded by `MaxSignals`.

## Findings

1. `server_stop` and the client thread close the same slot's socket
   (`UiServerOwner`).  Between the test of `m_fd` and `close` in one of them the
   other may have closed the descriptor and the process may have opened
   another file under that number.  `HighLevelDesign.md` says the connection
   thread is the "single owner of session state".
2. An error of `accept` or `select` ends the accept thread but leaves `m_running`
   set (`UiServerListens`): the server never accepts again and
   `server_start` answers 0 at once, which the header calls success.
3. `client_wait` returns 0 for a signal (`ClientIoWait`); the header says 0 is
   the timeout.  `client_send` gives up a packet because of it.
4. `Encode4` and `Encode8` read one symbol of their data and drop the rest
   (`SrlenEncode4`), because their readers are given 4 and 8 *bits*.
   `Encode8Prepare` even gives its reader 4, so its analysis sees nothing.
5. The report's P16 size, and with it the total, counts the raw pixels of the
   whole image, not those that are sent (`FrameReport`).

Other observations made while modelling, which no run checks:

- The header that `EncodeFrame` makes has neither the palette nor the run bit
  lengths of the selector and pixel streams, which `frame_header.go:14-21` lists;
  in `FrameHeader` nothing sets them.  The frame cannot be decoded from it.
- `WriteBinary` takes its `bytes.Buffer` by value, so the caller's stays as it was.
- A writer that is too small panics when it is flushed or finalized, not when the
  bit too many is written, as the comment at `bitstream_test.go:25` has it.
- `ReadSymbol` takes a run length that is cut off for -1, reports nothing, and
  reads the rest of that field as the next code.  `ReadBits` of 32 ones is -1, the
  error.  No document says otherwise.
- A port above 65535, or an image wider than 65535 pixels, is cut to 16 bits.

With the first finding in mind, `ServingDescriptor` is stated up to the point
where `server_stop` turns to the slots: there the descriptor of a session is its
own from the start of its thread to its `close`.

## Proofs

All proofs are for arbitrary constants under the named assumptions
(`UiServerAssumption`: at least one slot, and the three "none" values are
different from the real ones; `ClientIoAssumption`: buffers and packets of at
least one byte; `SrlenAssumption` and `GivenRbsAssumption`: data are bits, and run
bit lengths given for all symbols are some that `EncodePrepare` can choose;
`BitStreamAssumption`; `FrameAssumption` and `ImagesAssumption`: images of one size,
tiles a power of two wide, palettes of at most 4, 16 and 256 colours).

`UiServerProofs`:

- `TypeCorrect`: the type invariant, one step per action.
- `Inductive`: `IInv` of `UiServerInvariant`, again one step per action.
- `OneThreadPerSlot`, `FreeSlots`, `Joins`: three of the safety properties of
  `UiServerSafety`, from `IInv`.
- `Affinity`: `PeerKeepsItsSlot`, with `HomeInv`: the slots a peer could get back
  stay free and lie ahead of the loop, since only the accept thread takes a free
  slot.
- `Implements`: `UiServer` implements `ServerPromise`.

`AtMostOneThreadPerSlot` is not inductive: nothing in it prevents two slots from
holding one handle, or the accept thread from starting a thread on a slot it
claimed while another thread is at work there.  The argument of `IInv` is this.
A thread at work is the one whose handle its slot *holds*, where a slot holds a
handle from `pthread_create` (before `m_thread_started` is set) to the join
(`HandleInv`); held handles differ.  So a slot has at most one thread at
work.  The accept thread gives a handle to a slot only after it has changed it
from `SLOT_FREE`, and a free slot has no thread at work (`FreeSlotIsIdle`,
`ClaimInv`), whoever freed it: the thread itself does so as its last step,
`AcceptorCannotSpawn` frees a slot that `ClaimInv` says is idle, and the second
loop of `server_stop` frees slots it has joined.  That there is no accept thread by then
is `ControlInv`, and that no handle is left when the loop has passed is
`JoinInv`; the latter also gives `Quiesce` in the refinement: no session is left
when `server_stop` returns.

`UiServerDescriptorProofs`:

- `Descriptors`: `DInv` of `UiServerInvariant`, inductive together with `IInv`.
- `StopIsComplete`, `NoLeak`, `OwnDescriptor`: `StopQuiesces`,
  `NoDescriptorLeak` and `ServingDescriptor`.

Its argument.  A slot has a descriptor only while the thread that will clear it
is at work (`OwnerInv`), so a slot the accept thread fills in has none that
would be lost.  A number that has been closed but not cleared may be given out
again (`Closed`); an open connection is therefore with the accept thread or in a
slot that has *not* closed it (`OpenInv`), and clearing a slot loses nothing.
Between `pthread_create` and the end of its turn the accept thread still holds
the number it handed over, which the new thread may have closed already
(`HandoverInv`).  Until the slots are drained only the thread of a session
closes its descriptor (`ServeInv`); after that two threads may, which is the first
finding, and `OpenInv` shows that this leaks nothing all the same.

TLC checks `IInv` and `DInv` themselves in `UiServerSafety`.

`ClientIoProofs`:

- `ForCause`: that a connection is marked `SLOT_DISCONNECTED` only when it is lost
  or the server is being stopped, with the invariant that only a stop closes the
  socket under the callback.
- `TypeCorrect`: the type invariant, with `CallInv`: within a call a byte is left
  to be sent.
- `InOrder`: `SendsInOrder`.  The argument is one fact about sequences
  (`Appending`): a stream in order that ends with the last byte of a packet stays
  so when the next bytes of the packet under way are appended.  That the stream
  ends in this way (`Ends`) is what `SendsInOrder` lacks to be inductive.

`BitStreamProofs`, for all widths up to 32, all payloads, capacities and bounds:

- `Inductive`: `TypeOK`, `WriterKeepsBits`, `ReaderFollows` and
  `PanicsOnlyWhenFull` together are inductive; none of them is alone.
- `TypeCorrect`, `WriterCorrect`, `ReaderCorrect`, `PanicsForCause`,
  `TestBitCorrect`: the properties of the run `BitStream`.
- `Implements`: `BitStream` implements `BitQueue`.

The argument: bit `j` written is bit `j` of the buffer below `8 * pos` and bit
`j - 8 * pos` of the register above, so a flush moves the border and no bit.
The reader's register starts at the bit `readBits` and ends before
`8 * rdPos`; below `flushed` its bits are those written, since the
writer never stores below `pos` again.

`FrameEncoderProofs`, for images, tiles and palettes of every size:

- `TilesCorrect`: `TilesAreDirty`.  The inductive part is that the spans of the lines
  compared so far are marked exactly when a pixel in them differs (`SpanInv`); the
  place of a tile in the stream and its row and column determine each other
  (`PlaceOfTile`).
- `HeaderCorrect`: `HeaderDescribesStreams`, with the length of the tile stream
  (`StreamInv`).  These two rest on `IInv`, the following on `FrameInv`.
- `TypeCorrect`, `ImageIsRebuilt`: `TypeOK` and `RebuildsImage`.
- `NeverPanics`: `NoPanic`, for tiles of at least 8 pixels; the command admits 8,
  16 and 32 (`cmd/frame_encoder.go`).  The assumption is needed: a line's
  encoded span stream has a bit for each pixel and may take six for each tile, and
  with tiles of two pixels the writer panics on an image of 32 by 8 that changes
  throughout, but for every other tile of the last line: the lines before make the
  run bit lengths wide.

`FrameInv` has three parts.  `LineInv`: the lines compared so far are marked,
a pixel that differs lies in a marked span of a marked line, and each marked line
written so far has the streams that `StreamsOf` gives.  `TypeInv`: `hist` has
each colour of the image once, so a pixel's place in it is a place in exactly one
palette, or in none.  `RoomInv`: what the streams of the frame have so far is at
most what the lines written so far have, counted by tiles, by pixels, and by
pixels of the palette.  None of the three properties is inductive without it:
`RebuildsImage` speaks of the last state only, and `NoPanic` knows nothing of
lengths.

`AreStreams` is the invariant of the loop over the pixels of a line: the selector
has an entry for each pixel sent, a stream one for each selector that names it,
and each pixel sent so far is found by counting, as a reader does (`Finds`).
Appending a pixel leaves what was found (`FindsStays`).
That `GlobalCapacity` is enough is a double count: a palette's pixels counted by
colours, as `CalculatePixelCounts` does, and by lines, as they are written
(`PixelsOfPalette`, `PixelsOfLine`).

`SrlenSizeProofs` has the lemmas about `SrlenSize`, for streams of every length:
sums over finite sets may be split and joined; the runs of a stream
up to a place gain one run at a time (`NextRun`); `BestRb` is a least width; no
run bit lengths make a stream shorter than those of `EncodePrepare`
(`PreparedIsOptimal`, from the costs of each symbol separately); a stream is at most
symbol size + 5 bits a symbol (`SizeBound`), and with the run bit lengths
of `EncodePrepare` never longer than the data (`PreparedFits`), which
`NeverPanics` needs for the writers of the frame.

`SrlenProofs`, for symbols of every size, all data and all given run bit lengths:

- `TypeCorrect`: `TypeOK`, with `TypeInv`: widths are there for every symbol when a
  run is being written or a stream decoded.
- `SizeAsPredicted`: `SizeIsPredicted`.  `PositionInv` says that the reader of the
  data stands where a run begins; `SizeInv` that what is written is the cost of
  the runs read, less the chunks that are left of the last one.
- `ChosenAsSized`: `ChoosesAsSized`, with `ChoiceInv`: the histogram has the costs of
  the runs read so far, by symbol and width.
- `OwnRbAlwaysBest`, `OwnRbAlwaysOptimal`: no other run bit lengths give a shorter
  stream; the second is `OwnRbIsOptimal`, where one symbol has another width.

`SrlenCodecProofs`:

- `AlwaysRoundTrip`, `AlwaysKeepsPrefix`, `AlwaysFits`: `RoundTrip`,
  `DecodeKeepsPrefix` and `OutputFits`.

Their argument: `IsParse` says that a stream consists of codes, with the bit and the
symbol at which each begins, and `ParseInv` that encoder and decoders are at
such a place.  The encoder appends a code, which leaves the fields of
the others; a decoder takes the code under its reader.  Of a code that was cut off either
the symbol is incomplete, where the reader is at its end, or the run length, where
`Decode` fails.  The marks of the parse also bound the
output, chunk by chunk.

These theorems are about `Encode`: they assume that the readers have all of the
data (`EncodeBits = 0`, for the choice of run bit lengths also
`PrepareBits = 0`), which is how the frame encoder calls it.  `Encode4` and
`Encode8` do without, and for them finding 4 refutes the round trip.

What is recursive is proved about with sets: a fact about all natural numbers holds
because the set of those that have it contains 0 and with each number the next
(`Induction`, from the well-foundedness of the order), and in the same way
for finite sets (`SetInduction`).  `StreamsOf` is a recursive function, and
`StreamsUpto` shows that it is defined as the loop runs.

Only model-checked: the four liveness properties, `StopTerminates`, `SlotReleased`
and `PeerLossNoticed` of the server and `SendReturns` of the client API, which this
prover cannot do.  Each safety property of a passing run is a theorem.

## Not modelled

- Running out of memory in `server_create`, time stamps, receive buffers'
  contents, `TCP_NODELAY`, the port number.
- `FD_SET` with a descriptor that has become -1, which is undefined; the models
  let the call fail or act on the old or new number.
- `FrameHeader.SetPalette` and `WriteBinary`, which have no caller; the command's flags, PNG files and
  the conversion to RGB565, which are input; the report but for the P16 size.
- The message struct, the build files, the test main and the frame
  synchronisation protocol, which has no implementation.

## Plan

1. Done: `UiServer` with `ServerPromise` and its proofs, `ClientIo`, `Srlen`,
   `BitStream` with `BitQueue`, `FrameEncoder` with `FrameHeader`, and theorems for
   all safety properties of the passing runs.
2. Further theorems: that `Srlen` decodes what a writer and reader of `BitStream`
   carry, which would join the two modules.
3. `ServerMemory`: `server_create` and `server_destroy` with an allocator that may
   fail; every block is given back once.
