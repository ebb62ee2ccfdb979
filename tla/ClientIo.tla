------------------------------- MODULE ClientIo -------------------------------
(***************************************************************************)
(* What a client callback does on its connection: client_wait, client_recv *)
(* and client_send of source/main/cpp/c_ui_server.cpp, on a non-blocking   *)
(* TCP socket with a bounded send buffer, against a peer that reads when   *)
(* it likes, a server_stop in another thread, and signals.                 *)
(*                                                                         *)
(* A step is one system call with the code after it.  The bytes of packet  *)
(* k are <<k, 1>>, <<k, 2>>, ...; those of the peer are 1, 2, 3, ...       *)
(***************************************************************************)
EXTENDS Integers, Sequences

CONSTANTS
  SendBuffer,     \* bytes the kernel takes before a send would block
  RecvBuffer,     \* m_recv_buffer_cap
  MaxPacket,      \* bound: packet_size
  MaxPackets,     \* bound: calls of client_send
  MaxBytes,       \* bound: bytes of the peer that wait
  MaxSignals      \* bound: system calls a signal interrupts

ASSUME ClientIoAssumption ==
  /\ SendBuffer \in Nat \ {0} /\ RecvBuffer \in Nat \ {0}
  /\ MaxPacket \in Nat \ {0} /\ MaxPackets \in Nat
  /\ MaxBytes \in Nat /\ MaxSignals \in Nat

CONNECTED    == "SLOT_CONNECTED"
DISCONNECTED == "SLOT_DISCONNECTED"

VARIABLES
  m_state,
  m_fd,        \* "open", or "closed": -1, or the number of a closed socket
  peer,        \* "up", "eof" (it has closed, or shutdown) or "reset"
  stopped,     \* has server_stop marked and closed this client?
  room,        \* free bytes of the send buffer
  stream,      \* the bytes the kernel has taken for the peer
  unread,      \* the number of bytes that wait for client_recv
  pc,          \* "app", "send" (its loop) or "waiting" (its client_wait)
  size, sent,  \* packet_size and sent of the client_send under way
  sends,       \* per finished client_send: packet_size, sent, result
  waited,      \* result of the last client_wait, and what made it return
  signals      \* the number of interrupted calls

kernelVars == <<m_fd, peer, stopped>>
vars == <<m_state, kernelVars, room, stream, unread, pc, size, sent,
          sends, waited, signals>>

Smaller(a, b) == IF a < b THEN a ELSE b

\* A call on the socket fails: it is closed, or the peer has reset it.
Broken == m_fd = "closed" \/ peer = "reset"

-----------------------------------------------------------------------------
(* Around the callback.                                                    *)

PeerReads ==
  /\ peer = "up" /\ room < SendBuffer
  /\ room' = room + 1
  /\ UNCHANGED <<m_state, kernelVars, stream, unread, pc, size, sent,
                 sends, waited, signals>>

PeerSends ==
  /\ peer = "up" /\ unread < MaxBytes
  /\ unread' = unread + 1
  /\ UNCHANGED <<m_state, kernelVars, room, stream, pc, size, sent,
                 sends, waited, signals>>

\* A peer that has closed answers what is sent to it with a reset.
PeerLeaves ==
  /\ \/ peer = "up" /\ peer' \in {"eof", "reset"}
     \/ peer = "eof" /\ peer' = "reset"
  /\ UNCHANGED <<m_state, m_fd, stopped, room, stream, unread, pc, size,
                 sent, sends, waited, signals>>

\* server_stop: the slot is marked, the socket shut down and closed.
Stop ==
  /\ ~stopped
  /\ stopped' = TRUE
  /\ m_state' = DISCONNECTED /\ m_fd' = "closed"
  /\ UNCHANGED <<peer, room, stream, unread, pc, size, sent, sends,
                 waited, signals>>

-----------------------------------------------------------------------------
(* client_send.                                                            *)

\* The callback calls client_send with a packet of n bytes.  The test of m_fd
\* lets the number of a closed socket pass; with m_fd negative the call returns
\* -1 and changes nothing.
SendBegins(n) ==
  /\ pc = "app" /\ Len(sends) < MaxPackets
  /\ pc' = "send" /\ size' = n /\ sent' = 0
  /\ UNCHANGED <<m_state, kernelVars, room, stream, unread, sends,
                 waited, signals>>

\* client_send returns r, after n bytes in all.
Return(n, r) ==
  /\ pc' = "app" /\ size' = 0 /\ sent' = 0
  /\ sends' = Append(sends, [size |-> size, sent |-> n, result |-> r])

Packet == Len(sends) + 1
Bytes(first, last) ==
  [i \in 1 .. last - first + 1 |-> <<Packet, first + i - 1>>]

\* Mutated form of SendTakes: each call offers packet_size bytes again.
MutantOffersWhole(n) ==
  /\ pc = "send" /\ ~Broken /\ n <= Smaller(room, size)
  /\ room' = room - n
  /\ stream' = stream \o Bytes(sent + 1, sent + n)
  /\ IF sent + n >= size THEN Return(size, 0)
     ELSE sent' = sent + n /\ UNCHANGED <<pc, size, sends>>
  /\ UNCHANGED <<m_state, kernelVars, unread, waited, signals>>

\* Mutated form of SendTakes: sent is set to the count of the last call.
MutantForgetsSent(n) ==
  /\ pc = "send" /\ ~Broken /\ n <= Smaller(room, size - sent)
  /\ room' = room - n
  /\ stream' = stream \o Bytes(sent + 1, sent + n)
  /\ IF n = size THEN Return(n, 0)
     ELSE sent' = n /\ UNCHANGED <<pc, size, sends>>
  /\ UNCHANGED <<m_state, kernelVars, unread, waited, signals>>

\* send takes n of the bytes that are left.
SendTakes(n) ==
  /\ pc = "send" /\ ~Broken /\ n <= Smaller(room, size - sent)
  /\ room' = room - n
  /\ stream' = stream \o Bytes(sent + 1, sent + n)
  /\ IF sent + n = size THEN Return(size, 0)
     ELSE sent' = sent + n /\ UNCHANGED <<pc, size, sends>>
  /\ UNCHANGED <<m_state, kernelVars, unread, waited, signals>>

\* Mutated form of SendBlocks: a full buffer is taken for a lost connection.
MutantDropsOnFull ==
  /\ pc = "send" /\ ~Broken /\ room = 0
  /\ m_state' = DISCONNECTED
  /\ Return(sent, -1)
  /\ UNCHANGED <<kernelVars, room, stream, unread, waited, signals>>

\* EAGAIN: wait for room, 50 ms at most.
SendBlocks ==
  /\ pc = "send" /\ ~Broken /\ room = 0
  /\ pc' = "waiting"
  /\ UNCHANGED <<m_state, kernelVars, room, stream, unread, size, sent,
                 sends, waited, signals>>

\* EINTR: the call is made again.
SendInterrupted ==
  /\ pc = "send" /\ signals < MaxSignals
  /\ signals' = signals + 1
  /\ UNCHANGED <<m_state, kernelVars, room, stream, unread, pc, size,
                 sent, sends, waited>>

\* Any other error; the signal SIGPIPE is taken to be ignored.
SendFails ==
  /\ pc = "send" /\ Broken
  /\ m_state' = DISCONNECTED
  /\ Return(sent, -1)
  /\ UNCHANGED <<kernelVars, room, stream, unread, waited, signals>>

-----------------------------------------------------------------------------
(* client_wait.  select finds a socket ready for writing when there is     *)
(* room or an error, for reading when there are bytes, an end or an error. *)

Writable == m_fd = "open" /\ (room > 0 \/ peer = "reset")
Readable == m_fd = "open" /\ (unread > 0 \/ peer # "up")

Result(r, why) == waited' = [result |-> r, why |-> why]

\* client_wait for the readiness in mask (1 to send, 2 to receive), by bits.
Ready(mask) == (IF mask \in {1, 3} /\ Writable THEN 1 ELSE 0)
             + (IF mask \in {2, 3} /\ Readable THEN 2 ELSE 0)

Waits(mask) ==
  \/ Ready(mask) # 0 /\ Result(Ready(mask), "ready") /\ signals' = signals
  \/ Ready(mask) = 0 /\ Result(0, "timeout") /\ signals' = signals
  \/ signals < MaxSignals /\ Result(0, "signal") /\ signals' = signals + 1
  \/ m_fd = "closed" /\ Result(-1, "error") /\ signals' = signals

\* The callback calls client_wait.
AppWaits(mask) ==
  /\ pc = "app"
  /\ Waits(mask)
  /\ UNCHANGED <<m_state, kernelVars, room, stream, unread, pc, size,
                 sent, sends>>

\* Mutated form of SendWaits: a wait that ends without room is repeated.
MutantWaitsForever ==
  /\ pc = "waiting"
  /\ Waits(1)
  /\ IF waited'.result <= 0 THEN UNCHANGED <<pc, size, sent, sends>>
     ELSE pc' = "send" /\ UNCHANGED <<size, sent, sends>>
  /\ UNCHANGED <<m_state, kernelVars, room, stream, unread>>

\* client_send calls it: unless there is room now, the packet is given up,
\* and the connection stays SLOT_CONNECTED.
SendWaits ==
  /\ pc = "waiting"
  /\ Waits(1)
  /\ IF waited'.result <= 0 THEN Return(sent, -1)
     ELSE pc' = "send" /\ UNCHANGED <<size, sent, sends>>
  /\ UNCHANGED <<m_state, kernelVars, room, stream, unread>>

-----------------------------------------------------------------------------
(* client_recv.  EINTR repeats the call, EAGAIN returns -1: no change.     *)

\* recv gives n of the bytes that wait, m_recv_buffer_cap at most.
RecvTakes(n) ==
  /\ pc = "app" /\ ~Broken /\ n <= Smaller(RecvBuffer, unread)
  /\ unread' = unread - n
  /\ UNCHANGED <<m_state, kernelVars, room, stream, pc, size, sent, sends,
                 waited, signals>>

\* recv finds the end of the stream, or an error.
RecvEnds ==
  /\ pc = "app"
  /\ Broken \/ (peer = "eof" /\ unread = 0)
  /\ m_state' = DISCONNECTED
  /\ UNCHANGED <<kernelVars, room, stream, unread, pc, size, sent,
                 sends, waited, signals>>

-----------------------------------------------------------------------------
Init ==
  /\ m_state = CONNECTED /\ m_fd = "open" /\ peer = "up" /\ stopped = FALSE
  /\ room = SendBuffer /\ stream = <<>> /\ unread = 0
  /\ pc = "app" /\ size = 0 /\ sent = 0 /\ sends = <<>>
  /\ waited = [result |-> 0, why |-> "timeout"] /\ signals = 0

SendStep ==
  \/ \E n \in 1 .. MaxPacket : SendTakes(n)
  \/ SendBlocks \/ SendFails \/ SendWaits

Next ==
  \/ PeerReads \/ PeerSends \/ PeerLeaves \/ Stop
  \/ \E n \in 1 .. MaxPacket : SendBegins(n)
  \/ SendStep \/ SendInterrupted
  \/ \E mask \in 1 .. 3 : AppWaits(mask)
  \/ \E n \in 1 .. RecvBuffer : RecvTakes(n)
  \/ RecvEnds

\* Nothing is assumed of the peer; the thread inside client_send runs.
Spec     == Init /\ [][Next]_vars
FairSpec == Spec /\ WF_vars(SendStep)

-----------------------------------------------------------------------------
(* Properties.                                                             *)

TypeOK ==
  /\ m_state \in {CONNECTED, DISCONNECTED} /\ m_fd \in {"open", "closed"}
  /\ peer \in {"up", "eof", "reset"} /\ stopped \in BOOLEAN
  /\ room \in 0 .. SendBuffer /\ unread \in 0 .. MaxBytes
  /\ stream \in Seq((1 .. MaxPackets) \X (1 .. MaxPacket))
  /\ pc \in {"app", "send", "waiting"}
  /\ size \in 0 .. MaxPacket /\ sent \in 0 .. size
  /\ sends \in Seq([size : 1 .. MaxPacket, sent : 0 .. MaxPacket,
                     result : {0, -1}])
  /\ waited \in [result : -1 .. 3,
                  why : {"ready", "timeout", "signal", "error"}]
  /\ signals \in 0 .. MaxSignals

\* How many bytes of the k-th packet the kernel has taken.
Took(k) == IF k <= Len(sends) THEN sends[k].sent
           ELSE IF k = Packet /\ pc # "app" THEN sent ELSE 0

\* The stream to the peer is made of the packets in order, each from its first
\* byte on without a gap or a repetition, however send splits them and whatever
\* interrupts it; and client_send answers 0 for a packet just when all of it is
\* in the stream.
SendsInOrder ==
  /\ \A k \in 1 .. Len(sends) :
       sends[k].result = 0 <=> sends[k].sent = sends[k].size
  /\ \A i \in 1 .. Len(stream) :
       LET k == stream[i][1] b == stream[i][2] IN
       /\ b <= Took(k)
       /\ b > 1 => i > 1 /\ stream[i - 1] = <<k, b - 1>>
       /\ b = 1 /\ i > 1 => stream[i - 1][1] < k
                            /\ stream[i - 1][2] = Took(stream[i - 1][1])
  /\ \A k \in 1 .. Packet : \A b \in 1 .. Took(k) :
       \E i \in 1 .. Len(stream) : stream[i] = <<k, b>>

\* A connection is given up only when it is lost or server_stop asked for it:
\* no timeout, full buffer or signal makes it SLOT_DISCONNECTED.
DisconnectsForCause == m_state = DISCONNECTED => stopped \/ peer # "up"

\* client_send returns, whether the peer reads or not (after MaxSignals signals
\* no more calls are interrupted).
SendReturns == pc # "app" ~> pc = "app"

\* c_ui_server.h on client_wait: "returns 0 on timeout", and only then.
ZeroOnlyOnTimeout == waited.result = 0 => waited.why = "timeout"

=============================================================================
