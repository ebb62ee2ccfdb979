-------------------------- MODULE UiServerInvariant --------------------------
(***************************************************************************)
(* The inductive invariants of UiServer.  AtMostOneThreadPerSlot and       *)
(* FreeSlotIsIdle are not inductive: they lean on which thread handle a    *)
(* slot holds, on when the accept thread exists, and on how far the joins  *)
(* of server_stop have come (IInv).  What becomes of descriptors is a      *)
(* second invariant on top of it (DInv).                                   *)
(***************************************************************************)
EXTENDS UiServer

\* No call of the application is between server_start and the return of
\* server_stop.
Quiet == mpc \in {"absent", "listen", "spawn", "free"}
         \/ (mpc = "idle" /\ m_running = 0)

\* The accept thread exists from the end of server_start to its join, and
\* m_running tells server_start and server_stop how far the other has come.
ControlInv ==
  /\ mpc \in {"listen", "spawn"} => m_running = 1
  /\ Stopping \/ mpc \in {"absent", "free"} => m_running = 0
  /\ apc # "none" <=>
       \/ mpc = "idle" /\ m_running = 1
       \/ mpc \in {"close_l", "clear_l", "join_a"}
  /\ s_thread_started = 1 <=> apc # "none"

\* The handle in the slot is that of a thread nobody has joined.
Held(c) == m_thread_started[c] = 1 \/ (apc = "started" /\ ai = c)

\* Held handles differ, and a thread at work is the one its slot holds.
HandleInv ==
  /\ \A c \in Slots : Held(c) =>
       m_thread[c] \in Threads /\ tpc[m_thread[c]] # "unused"
  /\ \A c, d \in Slots :
       Held(c) /\ Held(d) /\ m_thread[c] = m_thread[d] => c = d
  /\ \A t \in Threads : Active(t) => Held(tslot[t]) /\ m_thread[tslot[t]] = t

\* The slot the accept thread has claimed is not free and nobody works on it.
ClaimInv ==
  apc = "spawn" =>
    /\ m_state[ai] # FREE
    /\ \A t \in Threads : Active(t) => tslot[t] # ai

\* The joins leave no handle behind, and there is none before a start.
JoinInv ==
  /\ Quiet => \A c \in Slots : m_thread_started[c] = 0
  /\ mpc = "join_c" => \A c \in Slots : c < si => m_thread_started[c] = 0

\* The inductive invariant; a run checks it, UiServerProofs proves it.
IInv ==
  TypeOK /\ ControlInv /\ HandleInv /\ ClaimInv /\ JoinInv /\ FreeSlotIsIdle

\* While the accept thread looks for a slot of the peer, the slots that were
\* free and had its key at accept() still are and do, and lie ahead.
HomeInv ==
  /\ apc = "affinity" => \A c \in ahome : c >= ai /\ m_state[c] = FREE
                                                 /\ m_peer[c] = apeer
  /\ PeerKeepsItsSlot

-----------------------------------------------------------------------------
(* The invariant of the descriptors, inductive together with IInv.         *)

\* What the second loop of server_stop has passed is free, and so is every
\* slot while nothing is started.
FreedInv ==
  /\ Quiet => \A c \in Slots : m_state[c] = FREE
  /\ mpc = "join_c" => \A c \in Slots : c < si => m_state[c] = FREE

\* A slot has a descriptor only while a thread is at work that will clear it.
OwnerInv ==
  \A c \in Slots : m_fd[c] # NoFd =>
    \E t \in Threads : Active(t) /\ tslot[t] = c /\ tpc[t] # "release"

\* The descriptor of slot c has been closed and is not cleared yet: the kernel
\* may give its number out again.
Closed(c) ==
  \/ mpc = "clear" /\ si = c
  \/ \E t \in Threads : tpc[t] = "c_clear" /\ tslot[t] = c

\* The accept thread holds a connection from accept() until its slot has it.
HandoverInv ==
  /\ aconn # NoFd <=> apc \in {"affinity", "scan", "spawn", "started"}
  /\ apc = "started" /\ IsOpen(aconn, "conn") =>
       m_fd[ai] = aconn /\ ~Closed(ai)

\* The listening socket exists: server_start is about to create its thread, or
\* the server is running and server_stop has not closed the socket yet.
HasListener ==
  mpc \in {"spawn", "close_l"} \/ (mpc = "idle" /\ m_running = 1)

\* An open connection is in a slot that has not closed it, or with the accept
\* thread; a listening socket is that of a server being started or running.
OpenInv ==
  \A f \in Fds :
    /\ kfd[f] = "conn" =>
         aconn = f \/ \E c \in Slots : m_fd[c] = f /\ ~Closed(c)
    /\ kfd[f] = "listen" => m_listen_fd = f /\ HasListener

\* Before the slots are drained, the listener and the connection that is being
\* accepted are open, and no thread that serves another connection has them.
ServeInv ==
  /\ HasListener => Listening
  /\ apc \in {"affinity", "scan", "spawn"} =>
       /\ IsOpen(aconn, "conn")
       /\ \A t \in Threads : Serving(t) => m_fd[tslot[t]] # aconn
  /\ ServingDescriptor

\* The invariant of the descriptors.
DInv == FreedInv /\ OwnerInv /\ HandoverInv /\ OpenInv /\ ServeInv

=============================================================================
