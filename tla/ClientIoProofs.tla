---------------------------- MODULE ClientIoProofs ----------------------------
(***************************************************************************)
(* ClientIo for every size of the buffers and packets and every number of  *)
(* packets and signals: a connection is given up only for a cause, and the *)
(* bytes of the packets are sent in order.                                 *)
(***************************************************************************)
EXTENDS ClientIo, TLAPS

\* Only server_stop takes the socket away from a callback.
ClosedByStop == m_fd = "closed" => stopped

\* What a failed call of send or recv rests on.
CauseInv == DisconnectsForCause /\ ClosedByStop

\* Every step keeps the causes: the ones that mark the connection have found
\* it broken, and no cause goes away.
LEMMA CauseStep == CauseInv /\ [Next]_vars => CauseInv'
<1> SUFFICES ASSUME CauseInv, [Next]_vars PROVE CauseInv'
  OBVIOUS
<1> USE DEF CauseInv, DisconnectsForCause, ClosedByStop, kernelVars
<1>1. CASE PeerLeaves
  BY <1>1 DEF PeerLeaves
<1>2. CASE Stop
  BY <1>2 DEF Stop
<1>3. CASE SendFails
  BY <1>3 DEF SendFails, Broken
<1>4. CASE RecvEnds
  BY <1>4 DEF RecvEnds, Broken
<1>5. ASSUME UNCHANGED <<m_state, kernelVars>> PROVE CauseInv'
  BY <1>5
<1>6. CASE PeerReads \/ PeerSends \/ \E n \in 1 .. RecvBuffer : RecvTakes(n)
  BY <1>5, <1>6 DEF PeerReads, PeerSends, RecvTakes
<1>7. CASE \E n \in 1 .. MaxPacket : SendBegins(n) \/ SendTakes(n)
  BY <1>5, <1>7 DEF SendBegins, SendTakes
<1>8. CASE SendBlocks \/ SendWaits \/ SendInterrupted
  BY <1>5, <1>8 DEF SendBlocks, SendWaits, SendInterrupted
<1>9. CASE \E mask \in 1 .. 3 : AppWaits(mask)
  BY <1>5, <1>9 DEF AppWaits
<1>10. CASE UNCHANGED vars
  BY <1>5, <1>10 DEF vars
<1> QED BY <1>1, <1>2, <1>3, <1>4, <1>6, <1>7, <1>8, <1>9, <1>10
        DEF Next, SendStep

\* No timeout, full buffer or signal makes client_recv or client_send give the
\* connection up.
THEOREM ForCause == Spec => []DisconnectsForCause
<1>1. Init => CauseInv
  BY DEF Init, CauseInv, DisconnectsForCause, ClosedByStop, CONNECTED,
     DISCONNECTED
<1>2. CauseInv => DisconnectsForCause
  BY DEF CauseInv
<1> QED BY <1>1, <1>2, CauseStep, PTL DEF Spec

-----------------------------------------------------------------------------
(* The types, and the order of the bytes.                                  *)

\* Between calls nothing is under way; within one, a byte is left to be sent.
CallInv ==
  /\ pc = "app" => size = 0 /\ sent = 0
  /\ pc # "app" => sent < size /\ Len(sends) < MaxPackets

TypeInv == TypeOK /\ CallInv

Byte == (1 .. MaxPackets) \X (1 .. MaxPacket)
Call == [size : 1 .. MaxPacket, sent : 0 .. MaxPacket, result : {0, -1}]

\* The bytes that a send takes are bytes of the packet, one after the other.
LEMMA BytesTaken ==
  ASSUME TypeInv, pc = "send", NEW n \in 1 .. MaxPacket, n <= size - sent
  PROVE  /\ Bytes(sent + 1, sent + n) \in Seq(Byte)
         /\ Len(Bytes(sent + 1, sent + n)) = n
         /\ \A j \in 1 .. n : Bytes(sent + 1, sent + n)[j] = <<Packet, sent + j>>
<1>1. /\ size \in 0 .. MaxPacket /\ sent \in 0 .. size
      /\ Packet \in 1 .. MaxPackets /\ MaxPacket \in Nat
  BY ClientIoAssumption DEF TypeInv, TypeOK, CallInv, Packet
<1>2. Bytes(sent + 1, sent + n) = [j \in 1 .. n |-> <<Packet, sent + j>>]
  <2>1. (sent + n) - (sent + 1) + 1 = n
    BY <1>1
  <2>2. \A j \in 1 .. n : (sent + 1) + j - 1 = sent + j
    BY <1>1
  <2> QED
    BY <2>1, <2>2 DEF Bytes
<1>3. \A j \in 1 .. n : <<Packet, sent + j>> \in Byte
  BY <1>1 DEF Byte
<1> QED
  BY <1>2, <1>3

\* A call that returns is one more call of the right type.
LEMMA Returns ==
  ASSUME TypeInv, pc # "app", NEW n \in 0 .. size, NEW r \in {0, -1},
         Return(n, r)
  PROVE  /\ pc' = "app" /\ size' = 0 /\ sent' = 0
         /\ sends' \in Seq(Call) /\ Len(sends') = Len(sends) + 1
         /\ \A k \in 1 .. Len(sends) : sends'[k] = sends[k]
         /\ sends'[Len(sends) + 1] = [size |-> size, sent |-> n, result |-> r]
<1>1. [size |-> size, sent |-> n, result |-> r] \in Call
  BY ClientIoAssumption DEF TypeInv, TypeOK, CallInv, Call
<1>2. sends \in Seq(Call)
  BY DEF TypeInv, TypeOK, Call
<1> QED
  BY <1>1, <1>2 DEF Return

\* Every step keeps the types, one step per action.
LEMMA TypeStep == TypeInv /\ [Next]_vars => TypeInv'
<1> SUFFICES ASSUME TypeInv, [Next]_vars PROVE TypeInv'
  OBVIOUS
<1> USE ClientIoAssumption DEF kernelVars, CONNECTED, DISCONNECTED
<1>1. ASSUME UNCHANGED <<stream, pc, size, sent, sends, waited, signals>>,
             m_state' \in {CONNECTED, DISCONNECTED},
             m_fd' \in {"open", "closed"}, stopped' \in BOOLEAN,
             peer' \in {"up", "eof", "reset"},
             room' \in 0 .. SendBuffer, unread' \in 0 .. MaxBytes
      PROVE  TypeInv'
  BY <1>1 DEF TypeInv, TypeOK, CallInv
<1>2. CASE PeerReads \/ PeerSends \/ PeerLeaves \/ Stop \/ RecvEnds
  <2>1. CASE PeerReads
    BY <1>1, <2>1 DEF PeerReads, TypeInv, TypeOK
  <2>2. CASE PeerSends
    BY <1>1, <2>2 DEF PeerSends, TypeInv, TypeOK
  <2>3. CASE PeerLeaves
    BY <1>1, <2>3 DEF PeerLeaves, TypeInv, TypeOK
  <2>4. CASE Stop
    BY <1>1, <2>4 DEF Stop, TypeInv, TypeOK
  <2>5. CASE RecvEnds
    BY <1>1, <2>5 DEF RecvEnds, TypeInv, TypeOK
  <2> QED
    BY <1>2, <2>1, <2>2, <2>3, <2>4, <2>5
<1>3. CASE \E n \in 1 .. RecvBuffer : RecvTakes(n)
  BY <1>1, <1>3 DEF RecvTakes, Smaller, TypeInv, TypeOK
<1>4. ASSUME NEW n \in 1 .. MaxPacket, SendBegins(n) PROVE TypeInv'
  BY <1>4 DEF SendBegins, TypeInv, TypeOK, CallInv
<1>5. ASSUME NEW n \in 1 .. MaxPacket, SendTakes(n) PROVE TypeInv'
  <2>1. /\ pc = "send" /\ n <= room /\ n <= size - sent /\ room' = room - n
        /\ stream' = stream \o Bytes(sent + 1, sent + n)
        /\ UNCHANGED <<m_state, kernelVars, unread, waited, signals>>
    BY <1>5 DEF SendTakes, Smaller, TypeInv, TypeOK
  <2>2. stream' \in Seq(Byte)
    <3>1. stream \in Seq(Byte)
      BY DEF TypeInv, TypeOK, Byte
    <3> QED
      BY <2>1, <3>1, BytesTaken
  <2>3. CASE sent + n = size
    <3>1. size \in 0 .. size /\ pc # "app" /\ Return(size, 0)
      BY <1>5, <2>1, <2>3 DEF SendTakes, TypeInv, TypeOK
    <3>2. /\ pc' = "app" /\ size' = 0 /\ sent' = 0 /\ sends' \in Seq(Call)
      BY <3>1, Returns
    <3> QED
      BY <2>1, <2>2, <3>2 DEF TypeInv, TypeOK, CallInv, Byte, Call
  <2>4. CASE sent + n # size
    BY <1>5, <2>1, <2>2, <2>4 DEF SendTakes, TypeInv, TypeOK, CallInv, Byte
  <2> QED
    BY <2>3, <2>4
<1>6. CASE SendBlocks \/ SendInterrupted
  BY <1>6 DEF SendBlocks, SendInterrupted, TypeInv, TypeOK, CallInv
<1>7. CASE SendFails
  <2>1. sent \in 0 .. size /\ pc # "app" /\ Return(sent, -1)
    BY <1>7 DEF SendFails, TypeInv, TypeOK
  <2>2. /\ pc' = "app" /\ size' = 0 /\ sent' = 0 /\ sends' \in Seq(Call)
    BY <2>1, Returns
  <2> QED
    BY <1>7, <2>2 DEF SendFails, TypeInv, TypeOK, CallInv, Call
<1>8. ASSUME NEW mask \in 1 .. 3, Waits(mask)
      PROVE  /\ waited' \in [result : -1 .. 3,
                             why : {"ready", "timeout", "signal", "error"}]
             /\ signals' \in 0 .. MaxSignals
  BY <1>8 DEF Waits, Result, Ready, TypeInv, TypeOK
<1>9. ASSUME NEW mask \in 1 .. 3, AppWaits(mask) PROVE TypeInv'
  BY <1>8, <1>9 DEF AppWaits, TypeInv, TypeOK, CallInv
<1>10. CASE SendWaits
  <2>1. /\ waited' \in [result : -1 .. 3,
                        why : {"ready", "timeout", "signal", "error"}]
        /\ signals' \in 0 .. MaxSignals
    BY <1>8, <1>10 DEF SendWaits
  <2>2. CASE Return(sent, -1)
    <3>1. sent \in 0 .. size /\ pc # "app"
      BY <1>10 DEF SendWaits, TypeInv, TypeOK
    <3>2. /\ pc' = "app" /\ size' = 0 /\ sent' = 0 /\ sends' \in Seq(Call)
      BY <2>2, <3>1, Returns
    <3> QED
      BY <1>10, <2>1, <3>2 DEF SendWaits, TypeInv, TypeOK, CallInv, Call
  <2>3. CASE pc' = "send" /\ UNCHANGED <<size, sent, sends>>
    BY <1>10, <2>1, <2>3 DEF SendWaits, TypeInv, TypeOK, CallInv
  <2> QED
    BY <1>10, <2>2, <2>3 DEF SendWaits
<1>11. CASE UNCHANGED vars
  BY <1>11 DEF vars, TypeInv, TypeOK, CallInv
<1> QED BY <1>2, <1>3, <1>4, <1>5, <1>6, <1>7, <1>9, <1>10, <1>11
        DEF Next, SendStep

LEMMA TypeInit == Init => TypeInv
<1> SUFFICES ASSUME Init PROVE TypeInv
  OBVIOUS
<1>1. waited \in [result : -1 .. 3,
                  why : {"ready", "timeout", "signal", "error"}]
  BY DEF Init
<1>2. stream \in Seq((1 .. MaxPackets) \X (1 .. MaxPacket))
  BY DEF Init
<1>3. sends \in Seq([size : 1 .. MaxPacket, sent : 0 .. MaxPacket,
                     result : {0, -1}])
  BY DEF Init
<1>4. /\ m_state \in {CONNECTED, DISCONNECTED} /\ m_fd \in {"open", "closed"}
      /\ peer \in {"up", "eof", "reset"} /\ stopped \in BOOLEAN
      /\ pc \in {"app", "send", "waiting"}
  BY DEF Init
<1>5. /\ room \in 0 .. SendBuffer /\ unread \in 0 .. MaxBytes
      /\ size \in 0 .. MaxPacket /\ sent \in 0 .. size
      /\ signals \in 0 .. MaxSignals
  BY ClientIoAssumption DEF Init
<1>6. CallInv
  BY DEF Init, CallInv
<1> QED
  BY <1>1, <1>2, <1>3, <1>4, <1>5, <1>6 DEF TypeInv, TypeOK

\* Every variable of ClientIo keeps its type: client_send never asks for more
\* bytes than are left of the packet, nor counts beyond its end.
THEOREM TypeCorrect == Spec => []TypeOK
<1>1. Init => TypeInv
  BY TypeInit
<1>2. TypeInv => TypeOK
  BY DEF TypeInv
<1> QED BY <1>1, <1>2, TypeStep, PTL DEF Spec

-----------------------------------------------------------------------------
(* The order of the bytes, first as a fact about sequences: st is a stream *)
(* of bytes <<k, b>>, had gives each packet the number of its bytes in it. *)

Packets == Nat \ {0}

Ordered(st, had, p) ==
  /\ \A i \in 1 .. Len(st) :
       /\ st[i][2] <= had[st[i][1]]
       /\ st[i][2] > 1 => i > 1 /\ st[i - 1] = <<st[i][1], st[i][2] - 1>>
       /\ st[i][2] = 1 /\ i > 1 => /\ st[i - 1][1] < st[i][1]
                                   /\ st[i - 1][2] = had[st[i - 1][1]]
  /\ \A k \in 1 .. p : \A b \in 1 .. had[k] :
       \E i \in 1 .. Len(st) : st[i] = <<k, b>>

\* The stream ends with the last byte of a packet, which is the one under way
\* if s bytes of that have been sent.
Ends(st, had, p, s) ==
  /\ Len(st) > 0 => st[Len(st)][2] = had[st[Len(st)][1]]
  /\ s > 0 => Len(st) > 0 /\ st[Len(st)] = <<p, s>>

\* What is where in two sequences put together.
LEMMA Joined ==
  ASSUME NEW S, NEW a \in Seq(S), NEW b \in Seq(S)
  PROVE  /\ Len(a \o b) = Len(a) + Len(b)
         /\ \A i \in 1 .. Len(a) : (a \o b)[i] = a[i]
         /\ \A j \in 1 .. Len(b) : (a \o b)[Len(a) + j] = b[j]
<1>1. Len(a \o b) = Len(a) + Len(b)
  OBVIOUS
<1>2. \A i \in 1 .. Len(a) : (a \o b)[i] = a[i]
  OBVIOUS
<1>3. ASSUME NEW j \in 1 .. Len(b) PROVE (a \o b)[Len(a) + j] = b[j]
  <2>1. Len(a) + j \in 1 .. Len(a) + Len(b) /\ Len(a) + j > Len(a)
        /\ (Len(a) + j) - Len(a) = j
    OBVIOUS
  <2> QED
    BY <2>1
<1> QED
  BY <1>1, <1>2, <1>3

\* A packet of which nothing is sent changes nothing.
LEMMA OrderedAhead ==
  ASSUME NEW st, NEW had, NEW p \in Nat, Ordered(st, had, p), had[p + 1] = 0
  PROVE  Ordered(st, had, p + 1)
<1>1. ASSUME NEW k \in 1 .. p + 1, NEW b \in 1 .. had[k]
      PROVE  \E i \in 1 .. Len(st) : st[i] = <<k, b>>
  <2>1. CASE k = p + 1
    <3>1. b \in 1 .. 0
      BY <2>1
    <3> QED
      BY <3>1
  <2>2. CASE k # p + 1
    <3>1. k \in 1 .. p
      BY <2>2
    <3> QED
      BY <3>1 DEF Ordered
  <2> QED
    BY <2>1, <2>2
<1> QED
  BY <1>1, Zenon DEF Ordered

\* The stream stays in order when the next n bytes of packet p are appended.
LEMMA Appending ==
  ASSUME NEW st, NEW st2, NEW L \in Nat, NEW p \in Packets, NEW s \in Nat,
         NEW n \in Nat \ {0}, NEW had \in [Packets -> Nat],
         Len(st) = L, Len(st2) = L + n,
         \A i \in 1 .. L : st[i][1] \in Packets /\ st[i][2] \in Nat \ {0},
         \A i \in 1 .. L : st2[i] = st[i],
         \A j \in 1 .. n : st2[L + j] = <<p, s + j>>,
         Ordered(st, had, p), Ends(st, had, p, s),
         had[p] = s, \A k \in Packets : k > p => had[k] = 0
  PROVE  LET had2 == [had EXCEPT ![p] = s + n]
         IN  Ordered(st2, had2, p) /\ Ends(st2, had2, p, s + n)
<1> DEFINE had2 == [had EXCEPT ![p] = s + n]
<1>1. /\ had2[p] = s + n /\ had2 \in [Packets -> Nat]
      /\ \A k \in Packets : k # p => had2[k] = had[k]
  OBVIOUS
<1> HIDE DEF had2
<1>1a. ASSUME NEW k \in Packets
      PROVE  /\ had[k] \in Nat /\ had[k] <= had2[k]
             /\ k < p => had2[k] = had[k]
             /\ had[k] > 0 => k <= p
             /\ k = p => had[k] = s
  <2>1. had[k] \in Nat /\ (k # p => had2[k] = had[k]) /\ k \in Nat /\ p \in Nat
        /\ (k > p => had[k] = 0)
    BY <1>1 DEF Packets
  <2> QED
    BY <1>1, <2>1
\* What is in the stream already is of this packet or of an earlier one.
<1>2. ASSUME NEW i \in 1 .. L
      PROVE  /\ st[i][1] <= p /\ st[i][2] <= had2[st[i][1]]
             /\ st[i][1] = p => s > 0
  <2>1. st[i][1] \in Packets /\ st[i][2] \in Nat \ {0}
        /\ st[i][2] <= had[st[i][1]]
    BY DEF Ordered
  <2>2. st[i][1] \in Nat /\ p \in Nat
    BY <2>1 DEF Packets
  <2>3. /\ had[st[i][1]] \in Nat /\ had[st[i][1]] <= had2[st[i][1]]
        /\ had[st[i][1]] > 0 => st[i][1] <= p
        /\ st[i][1] = p => had[st[i][1]] = s
        /\ had2[st[i][1]] \in Nat
    BY <1>1, <1>1a, <2>1
  <2> QED
    BY <2>1, <2>2, <2>3
<1>3. ASSUME NEW i \in 1 .. L
      PROVE  /\ st2[i][2] <= had2[st2[i][1]]
             /\ st2[i][2] > 1 =>
                  i > 1 /\ st2[i - 1] = <<st2[i][1], st2[i][2] - 1>>
             /\ st2[i][2] = 1 /\ i > 1 =>
                  /\ st2[i - 1][1] < st2[i][1]
                  /\ st2[i - 1][2] = had2[st2[i - 1][1]]
  <2>1. st2[i] = st[i] /\ st[i][2] <= had2[st[i][1]]
    BY <1>2
  <2>2. /\ st[i][2] > 1 => i > 1 /\ st[i - 1] = <<st[i][1], st[i][2] - 1>>
        /\ st[i][2] = 1 /\ i > 1 => /\ st[i - 1][1] < st[i][1]
                                    /\ st[i - 1][2] = had[st[i - 1][1]]
    BY DEF Ordered
  <2>3. CASE i = 1
    BY <2>1, <2>2, <2>3
  <2>4. CASE i > 1
    <3>1. i - 1 \in 1 .. L
      BY <2>4
    <3>2. st2[i - 1] = st[i - 1]
      BY <3>1
    <3>3. st[i - 1][1] \in Packets /\ st[i][1] \in Packets /\ st[i][1] <= p
      BY <1>2, <3>1
    <3>4. st[i - 1][1] < st[i][1] => had2[st[i - 1][1]] = had[st[i - 1][1]]
      <4> SUFFICES ASSUME st[i - 1][1] < st[i][1]
                   PROVE  had2[st[i - 1][1]] = had[st[i - 1][1]]
        OBVIOUS
      <4>1. st[i - 1][1] < p
        BY <3>3 DEF Packets
      <4> QED
        BY <1>1a, <3>3, <4>1
    <3> QED
      BY <2>1, <2>2, <2>4, <3>2, <3>4
  <2> QED
    BY <2>3, <2>4
<1>4. ASSUME NEW j \in 1 .. n
      PROVE  LET i == L + j
             IN  /\ st2[i][2] <= had2[st2[i][1]]
                 /\ st2[i][2] > 1 =>
                      i > 1 /\ st2[i - 1] = <<st2[i][1], st2[i][2] - 1>>
                 /\ st2[i][2] = 1 /\ i > 1 =>
                      /\ st2[i - 1][1] < st2[i][1]
                      /\ st2[i - 1][2] = had2[st2[i - 1][1]]
  <2>1. st2[L + j] = <<p, s + j>> /\ st2[L + j][1] = p /\ st2[L + j][2] = s + j
        /\ s + j <= had2[p]
    BY <1>1
  <2>2. CASE j > 1
    <3>1. j - 1 \in 1 .. n /\ (L + j) - 1 = L + (j - 1) /\ L + j > 1
          /\ s + (j - 1) = (s + j) - 1 /\ s + j > 1 /\ s + j # 1
      BY <2>2
    <3>2. st2[(L + j) - 1] = <<p, (s + j) - 1>>
      BY <3>1
    <3> QED
      BY <2>1, <3>1, <3>2
  <2>3. CASE j = 1 /\ s > 0
    <3>1. L \in 1 .. L /\ st[L] = <<p, s>>
      BY <2>3 DEF Ends
    <3>2. /\ (L + j) - 1 = L /\ L + j > 1 /\ (s + j) - 1 = s
          /\ s + j > 1 /\ s + j # 1
      BY <2>3, <3>1
    <3>3. st2[(L + j) - 1] = <<p, (s + j) - 1>>
      BY <3>1, <3>2
    <3> QED
      BY <2>1, <3>2, <3>3
  <2>4. CASE j = 1 /\ s = 0
    <3>1. s + j = 1 /\ ~(s + j > 1) /\ (L + j) - 1 = L
      BY <2>4
    <3>2. ASSUME L + j > 1
          PROVE  st2[L][1] < p /\ st2[L][2] = had2[st2[L][1]]
      <4>1. L \in 1 .. L /\ L > 0
        BY <2>4, <3>2
      <4>2. st2[L] = st[L] /\ st[L][1] \in Packets /\ st[L][1] < p
        BY <1>2, <2>4, <4>1 DEF Packets
      <4>3. st[L][2] = had[st[L][1]]
        BY <4>1 DEF Ends
      <4>4. had2[st[L][1]] = had[st[L][1]]
        BY <1>1a, <4>2
      <4> QED
        BY <4>2, <4>3, <4>4
    <3> QED
      BY <2>1, <3>1, <3>2
  <2> QED
    BY <2>2, <2>3, <2>4
<1>5. ASSUME NEW k \in 1 .. p, NEW b \in 1 .. had2[k]
      PROVE  \E i \in 1 .. L + n : st2[i] = <<k, b>>
  <2>1. CASE k = p /\ b > s
    <3>1. b \in 1 .. s + n
      BY <1>1, <2>1
    <3>2. b - s \in 1 .. n /\ s + (b - s) = b /\ L + (b - s) \in 1 .. L + n
      BY <2>1, <3>1
    <3>3. st2[L + (b - s)] = <<p, b>>
      BY <3>2
    <3> QED
      BY <2>1, <3>2, <3>3
  <2>2. CASE ~(k = p /\ b > s)
    <3>1. b \in 1 .. had[k]
      <4>1. CASE k = p
        BY <1>1, <2>2, <4>1
      <4>2. CASE k # p
        BY <1>1, <4>2 DEF Packets
      <4> QED
        BY <4>1, <4>2
    <3>2. PICK i \in 1 .. L : st[i] = <<k, b>>
      BY <3>1 DEF Ordered
    <3>3. i \in 1 .. L + n /\ st2[i] = st[i]
      OBVIOUS
    <3> QED
      BY <3>2, <3>3
  <2> QED
    BY <2>1, <2>2
<1>6. ASSUME NEW i \in 1 .. L + n
      PROVE  i \in 1 .. L \/ (i - L \in 1 .. n /\ i = L + (i - L))
  OBVIOUS
<1>7. \A i \in 1 .. L + n :
        /\ st2[i][2] <= had2[st2[i][1]]
        /\ st2[i][2] > 1 => i > 1 /\ st2[i - 1] = <<st2[i][1], st2[i][2] - 1>>
        /\ st2[i][2] = 1 /\ i > 1 => /\ st2[i - 1][1] < st2[i][1]
                                     /\ st2[i - 1][2] = had2[st2[i - 1][1]]
  <2> SUFFICES ASSUME NEW i \in 1 .. L + n
               PROVE  /\ st2[i][2] <= had2[st2[i][1]]
                      /\ st2[i][2] > 1 =>
                           i > 1 /\ st2[i - 1] = <<st2[i][1], st2[i][2] - 1>>
                      /\ st2[i][2] = 1 /\ i > 1 =>
                           /\ st2[i - 1][1] < st2[i][1]
                           /\ st2[i - 1][2] = had2[st2[i - 1][1]]
    OBVIOUS
  <2>1. CASE i \in 1 .. L
    BY <1>3, <2>1
  <2>2. CASE i - L \in 1 .. n /\ i = L + (i - L)
    <3> DEFINE j == i - L
    <3>1. j \in 1 .. n /\ i = L + j
      BY <2>2
    <3> HIDE DEF j
    <3> QED
      BY <1>4, <3>1
  <2> QED
    BY <1>6, <2>1, <2>2
<1>8. Ordered(st2, had2, p)
  <2>1. \A k \in 1 .. p : \A b \in 1 .. had2[k] :
          \E i \in 1 .. Len(st2) : st2[i] = <<k, b>>
    BY <1>5
  <2>2. 1 .. Len(st2) = 1 .. L + n
    OBVIOUS
  <2> QED
    BY <1>7, <2>1, <2>2, Zenon DEF Ordered
<1>9. Ends(st2, had2, p, s + n)
  <2>1. st2[L + n] = <<p, s + n>> /\ L + n > 0
    OBVIOUS
  <2> QED
    BY <1>1, <2>1 DEF Ends
<1> QED
  BY <1>8, <1>9 DEF had2

-----------------------------------------------------------------------------
(* The order of the bytes in ClientIo.                                     *)

Had == [k \in Packets |-> Took(k)]

Answers == \A k \in 1 .. Len(sends) :
             sends[k].result = 0 <=> sends[k].sent = sends[k].size

OrderInv == /\ Answers
            /\ Ordered(stream, Had, Packet) /\ Ends(stream, Had, Packet, sent)

\* What the packets have had: nothing behind the one under way.
LEMMA HadType ==
  ASSUME TypeInv
  PROVE  /\ Had \in [Packets -> Nat] /\ Packet \in Packets /\ sent \in Nat
         /\ Had[Packet] = sent
         /\ \A k \in Packets : k > Packet => Had[k] = 0
<1>1. /\ \A k \in 1 .. Len(sends) : sends[k] \in Call
      /\ Packet = Len(sends) + 1 /\ sent \in Nat /\ Len(sends) \in Nat
      /\ pc = "app" => sent = 0
  <2>1. sends \in Seq(Call)
    BY DEF TypeInv, TypeOK, Call
  <2>2. sent \in Nat /\ (pc = "app" => sent = 0)
    BY ClientIoAssumption DEF TypeInv, TypeOK, CallInv
  <2> QED
    BY <2>1, <2>2 DEF Packet
<1>2. \A k \in 1 .. Len(sends) : sends[k].sent \in Nat
  BY <1>1, ClientIoAssumption DEF Call
<1> QED
  BY <1>1, <1>2 DEF Had, Took, Packets

\* A call that returns: its packet keeps what it has had by then.
LEMMA HadAtReturn ==
  ASSUME TypeInv, pc # "app", NEW m \in 0 .. size, NEW r \in {0, -1},
         Return(m, r), Answers, r = 0 <=> m = size
  PROVE  /\ Answers' /\ Packet' = Packet + 1 /\ sent' = 0
         /\ Had' = [Had EXCEPT ![Packet] = m]
<1>1. /\ pc' = "app" /\ sent' = 0 /\ Len(sends') = Len(sends) + 1
      /\ \A k \in 1 .. Len(sends) : sends'[k] = sends[k]
      /\ sends'[Len(sends) + 1] = [size |-> size, sent |-> m, result |-> r]
  BY Returns
<1>2. Len(sends) \in Nat
  BY DEF TypeInv, TypeOK
<1>3. ASSUME NEW k \in 1 .. Len(sends')
      PROVE  sends'[k].result = 0 <=> sends'[k].sent = sends'[k].size
  <2>1. CASE k \in 1 .. Len(sends)
    BY <1>1, <2>1 DEF Answers
  <2>2. CASE k = Len(sends) + 1
    BY <1>1, <2>2
  <2> QED
    BY <1>1, <1>2, <2>1, <2>2
<1>4. ASSUME NEW k \in Packets
      PROVE  Took(k)' = IF k = Packet THEN m ELSE Took(k)
  <2>1. CASE k \in 1 .. Len(sends)
    BY <1>1, <1>2, <2>1 DEF Took, Packet
  <2>2. CASE k = Len(sends) + 1
    BY <1>1, <1>2, <2>2 DEF Took, Packet
  <2>3. CASE k > Len(sends) + 1
    <3>1. Took(k) = 0
      BY <1>2, <2>3 DEF Took, Packet, Packets
    <3>2. Took(k)' = 0
      BY <1>1, <1>2, <2>3 DEF Took, Packet, Packets
    <3>3. k # Packet
      BY <1>2, <2>3 DEF Packet
    <3> QED
      BY <3>1, <3>2, <3>3
  <2> QED
    BY <1>2, <2>1, <2>2, <2>3 DEF Packets
<1> QED
  BY <1>1, <1>3, <1>4 DEF Answers, Packet, Had

\* A step that appends nothing: the packet under way may end.
LEMMA Quiet ==
  ASSUME TypeInv, OrderInv, stream' = stream, Answers', Had' = Had,
         \/ Packet' = Packet /\ sent' = sent
         \/ Packet' \in {Packet, Packet + 1} /\ sent' = 0
  PROVE  OrderInv'
<1>1. Packet \in Nat /\ Had[Packet + 1] = 0
  BY HadType DEF Packets
<1>2. Ordered(stream, Had, Packet + 1)
  BY <1>1, OrderedAhead DEF OrderInv
<1> QED
  BY <1>1, <1>2 DEF OrderInv, Ends

\* A step that appends the next bytes of the packet under way.
LEMMA Takes ==
  ASSUME TypeInv, OrderInv, NEW n \in 1 .. MaxPacket, SendTakes(n)
  PROVE  OrderInv'
<1> DEFINE had2 == [Had EXCEPT ![Packet] = sent + n]
<1>1. /\ pc = "send" /\ n <= size - sent /\ n \in Nat \ {0}
      /\ stream' = stream \o Bytes(sent + 1, sent + n)
      /\ size \in 0 .. MaxPacket /\ sent \in 0 .. size
  BY ClientIoAssumption DEF SendTakes, Smaller, TypeInv, TypeOK
<1>2. stream \in Seq(Byte) /\ Len(stream) \in Nat
  BY DEF TypeInv, TypeOK, Byte
<1>3. \A i \in 1 .. Len(stream) :
        stream[i][1] \in Packets /\ stream[i][2] \in Nat \ {0}
  BY <1>2, ClientIoAssumption DEF Byte, Packets
<1>4. /\ Len(stream') = Len(stream) + n
      /\ \A i \in 1 .. Len(stream) : stream'[i] = stream[i]
      /\ \A j \in 1 .. n :
           stream'[Len(stream) + j] = <<Packet, sent + j>>
  <2>1. PICK new \in Seq(Byte) :
          /\ stream' = stream \o new /\ Len(new) = n
          /\ \A j \in 1 .. n : new[j] = <<Packet, sent + j>>
    <3>1. /\ Bytes(sent + 1, sent + n) \in Seq(Byte)
          /\ Len(Bytes(sent + 1, sent + n)) = n
          /\ \A j \in 1 .. n :
               Bytes(sent + 1, sent + n)[j] = <<Packet, sent + j>>
      BY <1>1, BytesTaken
    <3> QED
      BY <1>1, <3>1
  <2>2. /\ Len(stream \o new) = Len(stream) + Len(new)
        /\ \A i \in 1 .. Len(stream) : (stream \o new)[i] = stream[i]
        /\ \A j \in 1 .. Len(new) : (stream \o new)[Len(stream) + j] = new[j]
    BY <1>2, Joined
  <2> QED
    BY <2>1, <2>2
<1>5. Ordered(stream', had2, Packet) /\ Ends(stream', had2, Packet, sent + n)
  <2>1. /\ Ordered(stream, Had, Packet) /\ Ends(stream, Had, Packet, sent)
        /\ Had \in [Packets -> Nat] /\ Packet \in Packets /\ sent \in Nat
        /\ Had[Packet] = sent /\ \A k \in Packets : k > Packet => Had[k] = 0
    BY HadType DEF OrderInv
  <2>2. n \in Nat \ {0} /\ Len(stream) \in Nat
    BY <1>1, <1>2
  <2> QED
    BY <1>3, <1>4, <2>1, <2>2, Appending, Zenon
<1>6. CASE sent + n = size
  <2>1. Return(size, 0) /\ size \in 0 .. size
    BY <1>1, <1>6 DEF SendTakes
  <2>2. /\ Answers' /\ Packet' = Packet + 1 /\ sent' = 0 /\ Had' = had2
    BY <1>1, <1>6, <2>1, HadAtReturn DEF OrderInv
  <2>3. Packet \in Nat /\ had2[Packet + 1] = 0
    BY HadType DEF Packets
  <2>4. Ordered(stream', had2, Packet + 1)
    BY <1>5, <2>3, OrderedAhead
  <2>5. Ends(stream', had2, Packet + 1, 0)
    BY <1>5 DEF Ends
  <2> QED
    BY <2>2, <2>4, <2>5 DEF OrderInv
<1>7. CASE sent + n # size
  <2>1. UNCHANGED <<pc, sends>> /\ sent' = sent + n
    BY <1>7 DEF SendTakes
  <2>2. Packet' = Packet /\ Answers'
    BY <2>1 DEF Packet, Answers, OrderInv
  <2>3. \A k \in Packets :
          Took(k)' = IF k = Packet THEN sent + n ELSE Took(k)
    <3>1. Packet = Len(sends) + 1 /\ Len(sends) \in Nat /\ pc # "app"
      BY <1>1 DEF Packet, TypeInv, TypeOK
    <3> QED
      BY <2>1, <2>2, <3>1 DEF Took
  <2>4. Had' = had2
    BY <2>3 DEF Had
  <2> QED
    BY <1>5, <2>1, <2>2, <2>4 DEF OrderInv
<1> QED
  BY <1>6, <1>7

\* Every step keeps the order, one step per action.
LEMMA OrderStep == TypeInv /\ OrderInv /\ [Next]_vars => OrderInv'
<1> SUFFICES ASSUME TypeInv, OrderInv, [Next]_vars PROVE OrderInv'
  OBVIOUS
\* A call that ends without all of its packet.
<1>1. ASSUME pc # "app", Return(sent, -1), stream' = stream PROVE OrderInv'
  <2>1. sent \in 0 .. size /\ sent # size
    BY <1>1 DEF TypeInv, TypeOK, CallInv
  <2>2. /\ Answers' /\ Packet' = Packet + 1 /\ sent' = 0
        /\ Had' = [Had EXCEPT ![Packet] = sent]
    BY <1>1, <2>1, HadAtReturn DEF OrderInv
  <2>3. Had' = Had
    BY <2>2, HadType
  <2> QED
    BY <1>1, <2>2, <2>3, Quiet
\* A step that leaves the calls alone, but for a wait within one.
<1>2. ASSUME UNCHANGED <<stream, sent, sends>>, pc = "app" <=> pc' = "app"
      PROVE  OrderInv'
  <2>1. Packet' = Packet /\ Answers' /\ \A k \in Packets : Took(k)' = Took(k)
    BY <1>2 DEF Packet, Took, Answers, OrderInv
  <2> QED
    BY <1>2, <2>1, Quiet DEF Had
<1>3. CASE PeerReads \/ PeerSends \/ PeerLeaves \/ Stop \/ RecvEnds
  BY <1>2, <1>3 DEF PeerReads, PeerSends, PeerLeaves, Stop, RecvEnds
<1>4. CASE \E n \in 1 .. RecvBuffer : RecvTakes(n)
  BY <1>2, <1>4 DEF RecvTakes
<1>5. CASE \E n \in 1 .. MaxPacket : SendBegins(n)
  <2>1. pc = "app" /\ sent' = 0 /\ UNCHANGED <<stream, sends>>
    BY <1>5 DEF SendBegins
  <2>2. Packet' = Packet /\ Answers'
    BY <2>1 DEF Packet, Answers, OrderInv
  <2>3. \A k \in Packets : Took(k)' = Took(k)
    BY <2>1, <2>2 DEF Took
  <2> QED
    BY <2>1, <2>2, <2>3, Quiet DEF Had
<1>6. CASE \E n \in 1 .. MaxPacket : SendTakes(n)
  BY <1>6, Takes
<1>7. CASE SendBlocks \/ SendInterrupted
  BY <1>2, <1>7 DEF SendBlocks, SendInterrupted
<1>8. CASE SendFails
  BY <1>1, <1>8 DEF SendFails
<1>9. CASE \E mask \in 1 .. 3 : AppWaits(mask)
  BY <1>2, <1>9 DEF AppWaits
<1>10. CASE SendWaits
  BY <1>1, <1>2, <1>10 DEF SendWaits
<1>11. CASE UNCHANGED vars
  BY <1>2, <1>11 DEF vars
<1> QED BY <1>3, <1>4, <1>5, <1>6, <1>7, <1>8, <1>9, <1>10, <1>11
        DEF Next, SendStep

\* For every size of the buffers and packets: the peer is sent the bytes of the
\* packets in order, without gap or repetition, and client_send answers 0 for
\* exactly the packets that are in the stream as a whole.
THEOREM InOrder == Spec => []SendsInOrder
<1>1. Init => OrderInv
  BY DEF Init, OrderInv, Answers, Ordered, Ends, Had, Took, Packet, Packets
<1>2. TypeInv /\ OrderInv => SendsInOrder
  <2> SUFFICES ASSUME TypeInv, OrderInv PROVE SendsInOrder
    OBVIOUS
  <2>1. stream \in Seq(Byte) /\ Len(stream) \in Nat /\ Packet \in Packets
    BY HadType DEF TypeInv, TypeOK, Byte
  <2>2. \A i \in 1 .. Len(stream) : stream[i][1] \in Packets
    BY <2>1, ClientIoAssumption DEF Byte, Packets
  <2>3. \A k \in Packets : Had[k] = Took(k)
    BY DEF Had
  <2>4. ASSUME NEW i \in 1 .. Len(stream)
        PROVE  LET k == stream[i][1] b == stream[i][2] IN
               /\ b <= Took(k)
               /\ b > 1 => i > 1 /\ stream[i - 1] = <<k, b - 1>>
               /\ b = 1 /\ i > 1 =>
                    /\ stream[i - 1][1] < k
                    /\ stream[i - 1][2] = Took(stream[i - 1][1])
    <3>1. i > 1 => i - 1 \in 1 .. Len(stream)
      BY <2>1
    <3> QED
      BY <2>2, <2>3, <3>1 DEF OrderInv, Ordered
  <2>5. \A k \in 1 .. Packet : \A b \in 1 .. Took(k) :
          \E i \in 1 .. Len(stream) : stream[i] = <<k, b>>
    <3>1. \A k \in 1 .. Packet : \A b \in 1 .. Had[k] :
            \E i \in 1 .. Len(stream) : stream[i] = <<k, b>>
      BY DEF OrderInv, Ordered
    <3>2. \A k \in 1 .. Packet : k \in Packets /\ Had[k] = Took(k)
      BY <2>1, <2>3 DEF Packets
    <3> QED
      BY <3>1, <3>2
  <2> QED
    BY <2>4, <2>5 DEF OrderInv, Answers, SendsInOrder
<1> QED BY <1>1, <1>2, TypeInit, TypeStep, OrderStep, PTL DEF Spec

=============================================================================
