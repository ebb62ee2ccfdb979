------------------------------- MODULE UiServer -------------------------------
(***************************************************************************)
(* The life of one server_t of source/main/cpp/c_ui_server.cpp: the        *)
(* controlling thread that starts, stops and destroys it, the accept       *)
(* thread (server_thread_main), one thread per accepted connection         *)
(* (client_thread_main), and the part of the operating system they share:  *)
(* the descriptor table and the backlog of the listening socket.           *)
(*                                                                         *)
(* One action is one piece of code between two accesses to memory or       *)
(* kernel state that another thread can observe.  The atomics of the code  *)
(* (m_state, m_running) and the plain fields that threads race on (m_fd,   *)
(* m_listen_fd) are read and written at the steps where the code does so.  *)
(*                                                                         *)
(* The callback m_client_fn is the application's: it is an arbitrary       *)
(* sequence of client_wait, client_recv and client_send calls and a return *)
(* value.  One thread controls the server (docs/designs/HighLevelDesign.md,*)
(* Threading Model); no callback calls server_stop.                        *)
(***************************************************************************)
EXTENDS Integers, FiniteSets

CONSTANTS
  MaxClients,     \* m_client_array_cap
  Threads,        \* the client threads the process can hold, zombies included
  Fds,            \* the descriptors of the process
  Peers,          \* the remote addresses
  NoFd,           \* a negative m_fd or m_listen_fd
  NoThread,       \* an m_thread that pthread_create did not fill in
  NoPeer          \* m_peer_valid = 0

ASSUME UiServerAssumption ==
  /\ MaxClients \in Nat \ {0}
  /\ NoFd \notin Fds
  /\ NoThread \notin Threads
  /\ NoPeer \notin Peers

Slots == 0 .. MaxClients - 1
Turns == 0 .. MaxClients      \* a loop index over the slots, its end included

\* client_state_t
FREE         == "SLOT_FREE"
CONNECTED    == "SLOT_CONNECTED"
DISCONNECTED == "SLOT_DISCONNECTED"

VARIABLES
  \* server_t
  m_running, m_listen_fd, s_thread_started,
  \* client_t, one per slot; m_peer is m_peer_valid with the peer's key
  m_state, m_fd, m_thread, m_thread_started, m_peer,
  \* kernel: what a descriptor is, which sockets read end-of-file, who waits
  kfd, eof, backlog,
  \* controlling thread: program counter, loop index, register, and
  \* where server_stop returns to: the application or server_destroy
  mpc, si, mfd, mret,
  \* accept thread: program counter, loop index, accepted descriptor and its
  \* peer, and (history) the free slots that held the peer's key at accept()
  apc, ai, aconn, apeer, ahome,
  \* client threads: program counter, c->m_index of the argument, register
  tpc, tslot, tfd

serverVars == <<m_running, m_listen_fd, s_thread_started>>
slotVars   == <<m_state, m_fd, m_thread, m_thread_started, m_peer>>
osVars     == <<kfd, eof, backlog>>
mainVars   == <<mpc, si, mfd, mret>>
acceptVars == <<apc, ai, aconn, apeer, ahome>>
threadVars == <<tpc, tslot, tfd>>
vars == <<serverVars, slotVars, osVars, mainVars, acceptVars, threadVars>>

MainPC   == {"absent", "idle", "listen", "spawn",
             "close_l", "clear_l", "join_a",
             "scan", "mark", "test", "shut", "close", "clear",
             "join_c", "free"}
AcceptPC == {"none", "test", "select", "accept", "affinity", "scan",
             "spawn", "started", "exited"}
ThreadPC == {"unused", "loop", "callback", "io",
             "c_test", "c_shut", "c_close", "c_clear", "release", "exited"}

\* A thread that still reads or writes its slot.
Active(t) == tpc[t] \notin {"unused", "exited"}

\* The controlling thread is inside server_stop.
Stopping == mpc \in {"close_l", "clear_l", "join_a", "scan", "mark", "test",
                     "shut", "close", "clear", "join_c"}

\* Inside server_stop, with the accept thread joined.
Draining == Stopping /\ mpc \notin {"close_l", "clear_l", "join_a"}

IsOpen(f, kind) == f \in Fds /\ kfd[f] = kind
ClosedFds       == {f \in Fds : kfd[f] = "closed"}
Listening       == IsOpen(m_listen_fd, "listen")

-----------------------------------------------------------------------------
(* Kernel calls.                                                           *)

\* close(f): whatever f names by now is closed; with the listening socket
\* go the connections nobody accepted.  A negative f is EBADF.
CloseFd(f) ==
  /\ kfd' = IF f \in Fds THEN [kfd EXCEPT ![f] = "closed"] ELSE kfd
  /\ eof' = eof \ {f}
  /\ backlog' = IF IsOpen(f, "listen") THEN {} ELSE backlog

\* shutdown(f, SHUT_RDWR): the connection reads end-of-file from now on.
ShutdownFd(f) ==
  /\ eof' = IF IsOpen(f, "conn") THEN eof \cup {f} ELSE eof
  /\ UNCHANGED <<kfd, backlog>>

-----------------------------------------------------------------------------
(* The environment: peers, and the rest of the process, which opens and    *)
(* closes descriptors of its own.                                          *)

PeerConnects(p) ==
  /\ Listening /\ p \notin backlog
  /\ backlog' = backlog \cup {p}
  /\ UNCHANGED <<serverVars, slotVars, kfd, eof, mainVars, acceptVars,
                 threadVars>>

PeerGivesUp(p) ==
  /\ p \in backlog
  /\ backlog' = backlog \ {p}
  /\ UNCHANGED <<serverVars, slotVars, kfd, eof, mainVars, acceptVars,
                 threadVars>>

PeerDisconnects(f) ==
  /\ kfd[f] = "conn" /\ f \notin eof
  /\ eof' = eof \cup {f}
  /\ UNCHANGED <<serverVars, slotVars, kfd, backlog, mainVars, acceptVars,
                 threadVars>>

AppOpens(f) ==
  /\ kfd[f] = "closed"
  /\ kfd' = [kfd EXCEPT ![f] = "app"]
  /\ UNCHANGED <<serverVars, slotVars, eof, backlog, mainVars, acceptVars,
                 threadVars>>

AppCloses(f) ==
  /\ kfd[f] = "app"
  /\ kfd' = [kfd EXCEPT ![f] = "closed"]
  /\ UNCHANGED <<serverVars, slotVars, eof, backlog, mainVars, acceptVars,
                 threadVars>>

Environment ==
  \/ \E p \in Peers : PeerConnects(p) \/ PeerGivesUp(p)
  \/ \E f \in Fds : PeerDisconnects(f) \/ AppOpens(f) \/ AppCloses(f)

-----------------------------------------------------------------------------
(* The controlling thread: server_create, server_start, server_stop and    *)
(* server_destroy.                                                         *)

\* server_create: cleared memory, every slot free.
Create ==
  /\ mpc = "absent"
  /\ mpc' = "idle"
  /\ m_running' = 0 /\ m_listen_fd' = NoFd /\ s_thread_started' = 0
  /\ m_state' = [c \in Slots |-> FREE]
  /\ m_fd' = [c \in Slots |-> NoFd]
  /\ m_thread' = [c \in Slots |-> NoThread]
  /\ m_thread_started' = [c \in Slots |-> 0]
  /\ m_peer' = [c \in Slots |-> NoPeer]
  /\ UNCHANGED <<si, mfd, mret, osVars, acceptVars, threadVars>>

\* Mutated form of StartClaims: m_running counts the calls.
MutantCountsStarts ==
  /\ mpc = "idle"
  /\ m_running' = m_running + 1
  /\ mpc' = "listen"
  /\ UNCHANGED <<m_listen_fd, s_thread_started, slotVars, osVars,
                 si, mfd, mret, acceptVars, threadVars>>

\* server_start, the compare-and-exchange of m_running.  When it fails the
\* call returns 0 and has changed nothing.
StartClaims ==
  /\ mpc = "idle" /\ m_running = 0
  /\ m_running' = 1
  /\ mpc' = "listen"
  /\ UNCHANGED <<m_listen_fd, s_thread_started, slotVars, osVars,
                 si, mfd, mret, acceptVars, threadVars>>

\* socket, setsockopt, bind, listen and O_NONBLOCK all succeed.
StartListens(f) ==
  /\ mpc = "listen" /\ f \in ClosedFds
  /\ kfd' = [kfd EXCEPT ![f] = "listen"]
  /\ m_listen_fd' = f
  /\ mpc' = "spawn"
  /\ UNCHANGED <<m_running, s_thread_started, slotVars, eof, backlog,
                 si, mfd, mret, acceptVars, threadVars>>

\* One of them fails: the socket, if it was opened, is closed again.
StartCannotListen ==
  /\ mpc = "listen"
  /\ m_running' = 0
  /\ mpc' = "idle"
  /\ UNCHANGED <<m_listen_fd, s_thread_started, slotVars, osVars,
                 si, mfd, mret, acceptVars, threadVars>>

\* pthread_create of the accept thread succeeds; server_start returns 0.
StartSpawns ==
  /\ mpc = "spawn"
  /\ apc' = "test"
  /\ s_thread_started' = 1
  /\ mpc' = "idle"
  /\ UNCHANGED <<m_running, m_listen_fd, slotVars, osVars, si, mfd, mret,
                 ai, aconn, apeer, ahome, threadVars>>

\* It fails: the listening socket is closed, server_start returns -1.
StartCannotSpawn ==
  /\ mpc = "spawn"
  /\ CloseFd(m_listen_fd)
  /\ m_listen_fd' = NoFd
  /\ m_running' = 0
  /\ mpc' = "idle"
  /\ UNCHANGED <<s_thread_started, slotVars, si, mfd, mret, acceptVars,
                 threadVars>>

\* server_stop, the compare-and-exchange of m_running: called for itself or
\* by server_destroy.
StopClaims(ret) ==
  /\ mpc = "idle" /\ m_running = 1
  /\ m_running' = 0
  /\ mret' = ret
  /\ mpc' = IF m_listen_fd # NoFd THEN "close_l" ELSE "join_a"
  /\ UNCHANGED <<m_listen_fd, s_thread_started, slotVars, osVars, si, mfd,
                 acceptVars, threadVars>>

\* server_destroy of a server that is not running: server_stop returns at once.
DestroyStopped ==
  /\ mpc = "idle" /\ m_running = 0
  /\ mpc' = "free"
  /\ UNCHANGED <<serverVars, slotVars, osVars, si, mfd, mret, acceptVars,
                 threadVars>>

\* shutdown(m_listen_fd), which no peer or thread sees, and close(m_listen_fd).
StopClosesListener ==
  /\ mpc = "close_l"
  /\ CloseFd(m_listen_fd)
  /\ mpc' = "clear_l"
  /\ UNCHANGED <<serverVars, slotVars, si, mfd, mret, acceptVars, threadVars>>

StopClearsListener ==
  /\ mpc = "clear_l"
  /\ m_listen_fd' = NoFd
  /\ mpc' = "join_a"
  /\ UNCHANGED <<m_running, s_thread_started, slotVars, osVars, si, mfd,
                 mret, acceptVars, threadVars>>

\* Mutated form of StopJoinsAcceptor: the join is left out.
MutantSkipsAcceptorJoin ==
  /\ mpc = "join_a"
  /\ mpc' = "scan" /\ si' = 0
  /\ UNCHANGED <<serverVars, slotVars, osVars, mfd, mret, acceptVars,
                 threadVars>>

\* pthread_join of the accept thread, when it was started.
StopJoinsAcceptor ==
  /\ mpc = "join_a"
  /\ s_thread_started = 1 => apc = "exited"
  /\ apc' = "none"
  /\ s_thread_started' = 0
  /\ mpc' = "scan" /\ si' = 0
  /\ UNCHANGED <<m_running, m_listen_fd, slotVars, osVars, mfd, mret,
                 ai, aconn, apeer, ahome, threadVars>>

\* First loop of server_stop: is slot si connected?
StopScans ==
  /\ mpc = "scan"
  /\ \/ /\ si \in Slots /\ m_state[si] = CONNECTED
        /\ mpc' = "mark" /\ si' = si
     \/ /\ si \in Slots /\ m_state[si] # CONNECTED
        /\ mpc' = "scan" /\ si' = si + 1
     \/ /\ si = MaxClients
        /\ mpc' = "join_c" /\ si' = 0
  /\ UNCHANGED <<serverVars, slotVars, osVars, mfd, mret, acceptVars,
                 threadVars>>

\* ... then it is told to end, by a store that the client thread may have
\* overtaken in the meantime ...
StopMarks ==
  /\ mpc = "mark"
  /\ m_state' = [m_state EXCEPT ![si] = DISCONNECTED]
  /\ mpc' = "test"
  /\ UNCHANGED <<serverVars, m_fd, m_thread, m_thread_started, m_peer, osVars,
                 si, mfd, mret, acceptVars, threadVars>>

\* ... and close_client_socket runs in this thread too.
StopTestsFd ==
  /\ mpc = "test"
  /\ \/ /\ m_fd[si] = NoFd
        /\ mpc' = "scan" /\ si' = si + 1 /\ mfd' = mfd
     \/ /\ m_fd[si] # NoFd
        /\ mpc' = "shut" /\ si' = si /\ mfd' = m_fd[si]
  /\ UNCHANGED <<serverVars, slotVars, osVars, mret, acceptVars, threadVars>>

\* The argument of shutdown is m_fd as tested or m_fd read again: the access
\* races with the client thread and the compiler may keep the register.
StopShuts ==
  /\ mpc = "shut"
  /\ \E f \in {mfd, m_fd[si]} : ShutdownFd(f)
  /\ mpc' = "close" /\ mfd' = NoFd
  /\ UNCHANGED <<serverVars, slotVars, si, mret, acceptVars, threadVars>>

StopCloses ==
  /\ mpc = "close"
  /\ CloseFd(m_fd[si])
  /\ mpc' = "clear"
  /\ UNCHANGED <<serverVars, slotVars, si, mfd, mret, acceptVars, threadVars>>

StopClears ==
  /\ mpc = "clear"
  /\ m_fd' = [m_fd EXCEPT ![si] = NoFd]
  /\ mpc' = "scan" /\ si' = si + 1
  /\ UNCHANGED <<serverVars, m_state, m_thread, m_thread_started, m_peer,
                 osVars, mfd, mret, acceptVars, threadVars>>

\* Mutated form of StopJoinsClient: m_thread_started is not reset.
MutantKeepsStarted ==
  /\ mpc = "join_c"
  /\ \/ /\ si \in Slots
        /\ m_thread_started[si] = 1 => tpc[m_thread[si]] = "exited"
        /\ tpc' = IF m_thread_started[si] = 1
                  THEN [tpc EXCEPT ![m_thread[si]] = "unused"] ELSE tpc
        /\ m_state' = [m_state EXCEPT ![si] = FREE]
        /\ mpc' = "join_c" /\ si' = si + 1
     \/ /\ si = MaxClients
        /\ mpc' = mret
        /\ si' = 0
        /\ UNCHANGED <<tpc, m_state>>
  /\ mret' = IF mpc' = "join_c" THEN mret ELSE "idle"
  /\ UNCHANGED <<serverVars, m_fd, m_thread, m_thread_started, m_peer, osVars,
                 mfd, acceptVars, tslot, tfd>>

\* Second loop of server_stop: join the slot's thread, if one was started,
\* and free the slot.  After the last slot server_stop returns.
StopJoinsClient ==
  /\ mpc = "join_c"
  /\ \/ /\ si \in Slots
        /\ m_thread_started[si] = 1 => tpc[m_thread[si]] = "exited"
        /\ tpc' = IF m_thread_started[si] = 1
                  THEN [tpc EXCEPT ![m_thread[si]] = "unused"] ELSE tpc
        /\ m_thread_started' = [m_thread_started EXCEPT ![si] = 0]
        /\ m_state' = [m_state EXCEPT ![si] = FREE]
        /\ mpc' = "join_c" /\ si' = si + 1
     \/ /\ si = MaxClients
        /\ mpc' = mret
        /\ si' = 0
        /\ UNCHANGED <<tpc, m_thread_started, m_state>>
  /\ mret' = IF mpc' = "join_c" THEN mret ELSE "idle"
  /\ UNCHANGED <<serverVars, m_fd, m_thread, m_peer, osVars, mfd, acceptVars,
                 tslot, tfd>>

\* The rest of server_destroy: the memory of the server is given back.
DestroyFrees ==
  /\ mpc = "free"
  /\ mpc' = "absent"
  /\ UNCHANGED <<serverVars, slotVars, osVars, si, mfd, mret, acceptVars,
                 threadVars>>

StopStep ==
  \/ StopClosesListener \/ StopClearsListener \/ StopJoinsAcceptor
  \/ StopScans \/ StopMarks \/ StopTestsFd \/ StopShuts \/ StopCloses
  \/ StopClears \/ StopJoinsClient

\* What the application may ask for, and what it cannot leave half done.
MainCalls ==
  \/ Create \/ StartClaims \/ DestroyStopped
  \/ \E ret \in {"idle", "free"} : StopClaims(ret)
MainStep ==
  \/ \E f \in Fds : StartListens(f)
  \/ StartCannotListen \/ StartSpawns \/ StartCannotSpawn
  \/ StopStep \/ DestroyFrees

-----------------------------------------------------------------------------
(* The accept thread, server_thread_main.                                  *)

\* Mutated form of AcceptorTests: the loop does not look at m_running.
MutantAcceptsForever ==
  /\ apc = "test"
  /\ apc' = "select"
  /\ UNCHANGED <<serverVars, slotVars, osVars, mainVars, ai, aconn, apeer,
                 ahome, threadVars>>

AcceptorTests ==
  /\ apc = "test"
  /\ apc' = IF m_running # 0 THEN "select" ELSE "exited"
  /\ UNCHANGED <<serverVars, slotVars, osVars, mainVars, ai, aconn, apeer,
                 ahome, threadVars>>

\* FD_SET and select: 200 ms pass or a signal arrives; a connection waits; or
\* server_stop has closed the descriptor under the call (EBADF, or readiness
\* of whatever the number names now).
AcceptorSelects ==
  /\ apc = "select"
  /\ \/ apc' = "test"
     \/ Listening /\ backlog # {} /\ apc' = "accept"
     \/ ~Listening /\ apc' \in {"accept", "exited"}
  /\ UNCHANGED <<serverVars, slotVars, osVars, mainVars, ai, aconn, apeer,
                 ahome, threadVars>>

\* accept gives a connection.
AcceptorAccepts(p, f) ==
  /\ apc = "accept" /\ Listening /\ p \in backlog /\ f \in ClosedFds
  /\ backlog' = backlog \ {p}
  /\ kfd' = [kfd EXCEPT ![f] = "conn"]
  /\ aconn' = f /\ apeer' = p
  /\ ahome' = {c \in Slots : m_state[c] = FREE /\ m_peer[c] = p}
  /\ apc' = "affinity" /\ ai' = 0
  /\ UNCHANGED <<serverVars, slotVars, eof, mainVars, threadVars>>

\* accept fails: EINTR or EAGAIN, or another error (ECONNABORTED, EMFILE, the
\* listener closed by server_stop), which ends the thread while m_running stays
\* as it is.
AcceptorAcceptFails ==
  /\ apc = "accept"
  /\ \/ Listening /\ apc' = "test"
     \/ apc' = "exited"
  /\ UNCHANGED <<serverVars, slotVars, osVars, mainVars, ai, aconn, apeer,
                 ahome, threadVars>>

\* Mutated form of AcceptorSeeksHome: the loop ends one slot early.
MutantSkipsLastHome ==
  /\ apc = "affinity"
  /\ \/ /\ ai \in 0 .. MaxClients - 2
        /\ m_peer[ai] = apeer /\ m_state[ai] = FREE
        /\ m_state' = [m_state EXCEPT ![ai] = CONNECTED]
        /\ apc' = "spawn" /\ ai' = ai
     \/ /\ ai \in 0 .. MaxClients - 2
        /\ ~(m_peer[ai] = apeer /\ m_state[ai] = FREE)
        /\ apc' = "affinity" /\ ai' = ai + 1 /\ m_state' = m_state
     \/ /\ ai = MaxClients - 1
        /\ apc' = "scan" /\ ai' = 0 /\ m_state' = m_state
  /\ UNCHANGED <<serverVars, m_fd, m_thread, m_thread_started, m_peer, osVars,
                 mainVars, aconn, apeer, ahome, threadVars>>

\* allocate_client_slot_for_peer, one turn of its loop: a free slot this peer
\* had before is taken by compare-and-exchange.
AcceptorSeeksHome ==
  /\ apc = "affinity"
  /\ \/ /\ ai \in Slots /\ m_peer[ai] = apeer /\ m_state[ai] = FREE
        /\ m_state' = [m_state EXCEPT ![ai] = CONNECTED]
        /\ apc' = "spawn" /\ ai' = ai
     \/ /\ ai \in Slots /\ ~(m_peer[ai] = apeer /\ m_state[ai] = FREE)
        /\ apc' = "affinity" /\ ai' = ai + 1 /\ m_state' = m_state
     \/ /\ ai = MaxClients
        /\ apc' = "scan" /\ ai' = 0 /\ m_state' = m_state
  /\ UNCHANGED <<serverVars, m_fd, m_thread, m_thread_started, m_peer, osVars,
                 mainVars, aconn, apeer, ahome, threadVars>>

\* The accept thread has dealt with one connection.
ForgetConnection == aconn' = NoFd /\ apeer' = NoPeer /\ ahome' = {} /\ ai' = 0

\* Mutated form of AcceptorSeeksAny: the slot is taken whatever its state.
MutantTakesAnySlot ==
  /\ apc = "scan" /\ ai \in Slots
  /\ m_state' = [m_state EXCEPT ![ai] = CONNECTED]
  /\ m_peer' = [m_peer EXCEPT ![ai] = apeer]
  /\ apc' = "spawn" /\ ai' = ai
  /\ UNCHANGED <<serverVars, m_fd, m_thread, m_thread_started, osVars,
                 mainVars, aconn, apeer, ahome, threadVars>>

\* allocate_client_slot, one turn of its loop; the slot then gets the key.
AcceptorSeeksAny ==
  /\ apc = "scan" /\ ai \in Slots
  /\ \/ /\ m_state[ai] = FREE
        /\ m_state' = [m_state EXCEPT ![ai] = CONNECTED]
        /\ m_peer' = [m_peer EXCEPT ![ai] = apeer]
        /\ apc' = "spawn" /\ ai' = ai
     \/ /\ m_state[ai] # FREE
        /\ apc' = "scan" /\ ai' = ai + 1
        /\ UNCHANGED <<m_state, m_peer>>
  /\ UNCHANGED <<serverVars, m_fd, m_thread, m_thread_started, osVars,
                 mainVars, aconn, apeer, ahome, threadVars>>

\* Mutated form of AcceptorRejects: the accepted descriptor is forgotten.
MutantKeepsRejected ==
  /\ apc = "scan" /\ ai = MaxClients
  /\ apc' = "test"
  /\ ForgetConnection
  /\ UNCHANGED <<serverVars, slotVars, osVars, mainVars, threadVars>>

\* No slot is free: the connection is closed.
AcceptorRejects ==
  /\ apc = "scan" /\ ai = MaxClients
  /\ CloseFd(aconn)
  /\ apc' = "test"
  /\ ForgetConnection
  /\ UNCHANGED <<serverVars, slotVars, mainVars, threadVars>>

\* The slot is filled in and pthread_create starts its thread.  The handle
\* of the slot's previous thread is overwritten, joined or not.
AcceptorSpawns(t) ==
  /\ apc = "spawn" /\ tpc[t] = "unused"
  /\ m_fd' = [m_fd EXCEPT ![ai] = aconn]
  /\ m_thread_started' = [m_thread_started EXCEPT ![ai] = 0]
  /\ m_thread' = [m_thread EXCEPT ![ai] = t]
  /\ tpc' = [tpc EXCEPT ![t] = "loop"]
  /\ tslot' = [tslot EXCEPT ![t] = ai]
  /\ apc' = "started"
  /\ UNCHANGED <<serverVars, m_state, m_peer, osVars, mainVars,
                 ai, aconn, apeer, ahome, tfd>>

\* The slot is filled in and pthread_create fails: close_client_socket, and
\* the slot is free again.
AcceptorCannotSpawn ==
  /\ apc = "spawn"
  /\ CloseFd(aconn)
  /\ m_fd' = [m_fd EXCEPT ![ai] = NoFd]
  /\ m_thread_started' = [m_thread_started EXCEPT ![ai] = 0]
  /\ m_thread' = [m_thread EXCEPT ![ai] = NoThread]
  /\ m_state' = [m_state EXCEPT ![ai] = FREE]
  /\ apc' = "test"
  /\ ForgetConnection
  /\ UNCHANGED <<serverVars, m_peer, mainVars, threadVars>>

\* Mutated form of AcceptorMarksStarted: the flag is not set.
MutantForgetsStarted ==
  /\ apc = "started"
  /\ apc' = "test"
  /\ ForgetConnection
  /\ UNCHANGED <<serverVars, slotVars, osVars, mainVars, threadVars>>

AcceptorMarksStarted ==
  /\ apc = "started"
  /\ m_thread_started' = [m_thread_started EXCEPT ![ai] = 1]
  /\ apc' = "test"
  /\ ForgetConnection
  /\ UNCHANGED <<serverVars, m_state, m_fd, m_thread, m_peer, osVars,
                 mainVars, threadVars>>

AcceptStep ==
  \/ AcceptorTests \/ AcceptorSelects
  \/ \E p \in Peers, f \in Fds : AcceptorAccepts(p, f)
  \/ AcceptorAcceptFails \/ AcceptorSeeksHome \/ AcceptorSeeksAny
  \/ AcceptorRejects \/ AcceptorCannotSpawn \/ AcceptorMarksStarted
  \/ \E t \in Threads : AcceptorSpawns(t)

-----------------------------------------------------------------------------
(* A client thread, client_thread_main, on the slot it was created with.   *)

At(t, from, to) == tpc[t] = from /\ tpc' = [tpc EXCEPT ![t] = to]

\* Mutated form of ThreadTests: only m_running ends the loop.
MutantIgnoresSlotState(t) ==
  /\ \/ m_running # 0 /\ At(t, "loop", "callback")
     \/ m_running = 0 /\ At(t, "loop", "c_test")
  /\ UNCHANGED <<serverVars, slotVars, osVars, mainVars, acceptVars, tslot,
                 tfd>>

\* The condition of the while loop.  m_running is loaded first: when m_state
\* changes between the two loads the test might as well have run before.
ThreadTests(t) ==
  /\ \/ /\ m_running # 0 /\ m_state[tslot[t]] = CONNECTED
        /\ At(t, "loop", "callback")
     \/ /\ ~(m_running # 0 /\ m_state[tslot[t]] = CONNECTED)
        /\ At(t, "loop", "c_test")
  /\ UNCHANGED <<serverVars, slotVars, osVars, mainVars, acceptVars, tslot,
                 tfd>>

\* The callback calls client_wait, client_recv or client_send, which goes on
\* only if m_fd is not negative (otherwise it returns -1).
ThreadCallsApi(t) ==
  /\ m_fd[tslot[t]] # NoFd
  /\ At(t, "callback", "io")
  /\ tfd' = [tfd EXCEPT ![t] = m_fd[tslot[t]]]
  /\ UNCHANGED <<serverVars, slotVars, osVars, mainVars, acceptVars, tslot>>

\* Mutated form of ThreadDoesIo: end-of-file is not recorded.
MutantMissesEof(t) ==
  /\ At(t, "io", "callback")
  /\ tfd' = [tfd EXCEPT ![t] = NoFd]
  /\ m_state' = m_state
  /\ UNCHANGED <<serverVars, m_fd, m_thread, m_thread_started, m_peer, osVars,
                 mainVars, acceptVars, tslot>>

\* The system call on m_fd as tested or as read again.  On a connection in
\* good order nothing is recorded; after end-of-file, or when the number no
\* longer names a connection, recv and send store SLOT_DISCONNECTED
\* (client_wait does not).
ThreadDoesIo(t) ==
  /\ At(t, "io", "callback")
  /\ tfd' = [tfd EXCEPT ![t] = NoFd]
  /\ \/ m_state' = m_state
     \/ /\ \E f \in {tfd[t], m_fd[tslot[t]]} : ~IsOpen(f, "conn") \/ f \in eof
        /\ m_state' = [m_state EXCEPT ![tslot[t]] = DISCONNECTED]
  /\ UNCHANGED <<serverVars, m_fd, m_thread, m_thread_started, m_peer, osVars,
                 mainVars, acceptVars, tslot>>

\* The callback returns zero.
ThreadContinues(t) ==
  /\ At(t, "callback", "loop")
  /\ UNCHANGED <<serverVars, slotVars, osVars, mainVars, acceptVars, tslot,
                 tfd>>

\* The callback returns non-zero (or there is none): the loop is left.
ThreadBreaks(t) ==
  /\ At(t, "callback", "c_test")
  /\ UNCHANGED <<serverVars, slotVars, osVars, mainVars, acceptVars, tslot,
                 tfd>>

\* close_client_socket, run by the client thread.
ThreadTestsFd(t) ==
  /\ \/ /\ m_fd[tslot[t]] = NoFd
        /\ At(t, "c_test", "release") /\ tfd' = tfd
     \/ /\ m_fd[tslot[t]] # NoFd
        /\ At(t, "c_test", "c_shut")
        /\ tfd' = [tfd EXCEPT ![t] = m_fd[tslot[t]]]
  /\ UNCHANGED <<serverVars, slotVars, osVars, mainVars, acceptVars, tslot>>

ThreadShuts(t) ==
  /\ At(t, "c_shut", "c_close")
  /\ \E f \in {tfd[t], m_fd[tslot[t]]} : ShutdownFd(f)
  /\ tfd' = [tfd EXCEPT ![t] = NoFd]
  /\ UNCHANGED <<serverVars, slotVars, mainVars, acceptVars, tslot>>

\* Mutated form of ThreadCloses: the slot is released before the descriptor
\* is closed and cleared.
MutantReleasesEarly(t) ==
  /\ At(t, "c_close", "c_clear")
  /\ CloseFd(m_fd[tslot[t]])
  /\ m_state' = [m_state EXCEPT ![tslot[t]] = FREE]
  /\ UNCHANGED <<serverVars, m_fd, m_thread, m_thread_started, m_peer,
                 mainVars, acceptVars, tslot, tfd>>

ThreadCloses(t) ==
  /\ At(t, "c_close", "c_clear")
  /\ CloseFd(m_fd[tslot[t]])
  /\ UNCHANGED <<serverVars, slotVars, mainVars, acceptVars, tslot, tfd>>

ThreadClears(t) ==
  /\ At(t, "c_clear", "release")
  /\ m_fd' = [m_fd EXCEPT ![tslot[t]] = NoFd]
  /\ UNCHANGED <<serverVars, m_state, m_thread, m_thread_started, m_peer,
                 osVars, mainVars, acceptVars, tslot, tfd>>

\* The last access of the thread to its slot.
ThreadReleases(t) ==
  /\ At(t, "release", "exited")
  /\ m_state' = [m_state EXCEPT ![tslot[t]] = FREE]
  /\ tslot' = [tslot EXCEPT ![t] = 0]
  /\ UNCHANGED <<serverVars, m_fd, m_thread, m_thread_started, m_peer, osVars,
                 mainVars, acceptVars, tfd>>

ThreadStep(t) ==
  \/ ThreadTests(t) \/ ThreadCallsApi(t) \/ ThreadDoesIo(t)
  \/ ThreadContinues(t) \/ ThreadBreaks(t) \/ ThreadTestsFd(t)
  \/ ThreadShuts(t) \/ ThreadCloses(t) \/ ThreadClears(t) \/ ThreadReleases(t)

-----------------------------------------------------------------------------
Init ==
  /\ m_running = 0 /\ m_listen_fd = NoFd /\ s_thread_started = 0
  /\ m_state = [c \in Slots |-> FREE]
  /\ m_fd = [c \in Slots |-> NoFd]
  /\ m_thread = [c \in Slots |-> NoThread]
  /\ m_thread_started = [c \in Slots |-> 0]
  /\ m_peer = [c \in Slots |-> NoPeer]
  /\ kfd = [f \in Fds |-> "closed"] /\ eof = {} /\ backlog = {}
  /\ mpc = "absent" /\ si = 0 /\ mfd = NoFd /\ mret = "idle"
  /\ apc = "none" /\ ai = 0 /\ aconn = NoFd /\ apeer = NoPeer /\ ahome = {}
  /\ tpc = [t \in Threads |-> "unused"]
  /\ tslot = [t \in Threads |-> 0]
  /\ tfd = [t \in Threads |-> NoFd]

Next ==
  \/ Environment
  \/ MainCalls
  \/ MainStep
  \/ AcceptStep
  \/ \E t \in Threads : ThreadStep(t)

\* Every thread that can run does run.  Of the application's callback it is
\* assumed that it returns and that it goes on trying its connection, with
\* client_recv or client_send, until a call fails.
Fairness ==
  /\ WF_vars(MainStep)
  /\ WF_vars(AcceptStep)
  /\ \A t \in Threads :
       /\ WF_vars(ThreadStep(t))
       /\ SF_vars(ThreadContinues(t) \/ ThreadBreaks(t))
       /\ SF_vars(ThreadCallsApi(t))
       /\ SF_vars(ThreadDoesIo(t) /\ m_state' # m_state)

Spec     == Init /\ [][Next]_vars
FairSpec == Spec /\ Fairness

-----------------------------------------------------------------------------
(* Safety.                                                                 *)

\* Every variable holds a value the program or the kernel can give it.
TypeOK ==
  /\ m_running \in {0, 1} /\ s_thread_started \in {0, 1}
  /\ m_listen_fd \in Fds \cup {NoFd}
  /\ m_state \in [Slots -> {FREE, CONNECTED, DISCONNECTED}]
  /\ m_fd \in [Slots -> Fds \cup {NoFd}]
  /\ m_thread \in [Slots -> Threads \cup {NoThread}]
  /\ m_thread_started \in [Slots -> {0, 1}]
  /\ m_peer \in [Slots -> Peers \cup {NoPeer}]
  /\ kfd \in [Fds -> {"closed", "app", "listen", "conn"}]
  /\ eof \subseteq Fds /\ backlog \subseteq Peers
  /\ mpc \in MainPC /\ si \in Turns
  /\ mfd \in Fds \cup {NoFd} /\ mret \in {"idle", "free"}
  /\ apc \in AcceptPC /\ ai \in Turns
  /\ aconn \in Fds \cup {NoFd} /\ apeer \in Peers \cup {NoPeer}
  /\ ahome \subseteq Slots
  /\ mpc \in {"mark", "test", "shut", "close", "clear"} => si \in Slots
  /\ apc \in {"spawn", "started"} => ai \in Slots
  /\ tpc \in [Threads -> ThreadPC]
  /\ tslot \in [Threads -> Slots]
  /\ tfd \in [Threads -> Fds \cup {NoFd}]

\* A slot never has two client threads at work on its client_t: the accept
\* thread gives a slot away only after the last access of the thread before,
\* although it neither joins that thread nor waits for it.
AtMostOneThreadPerSlot ==
  \A t, u \in Threads :
    Active(t) /\ Active(u) /\ tslot[t] = tslot[u] => t = u

\* No slot is SLOT_FREE while a thread still works on it, whether it was the
\* thread, server_stop or a failed pthread_create that freed it.
FreeSlotIsIdle ==
  \A t \in Threads : Active(t) => m_state[tslot[t]] # FREE

\* Until server_stop turns to the slots, m_fd of a slot names an open connection
\* from the creation of its thread to that thread's close(), and no two threads
\* share one: no earlier user of the slot, and no other slot whose number the
\* kernel has given out again, closes or clears it.
Serving(t) == Active(t) /\ tpc[t] \notin {"c_clear", "release"}

ServingDescriptor ==
  ~Draining =>
    \A t \in Threads : Serving(t) =>
      /\ IsOpen(m_fd[tslot[t]], "conn")
      /\ tpc[t] \in {"io", "c_shut"} => tfd[t] = m_fd[tslot[t]]
      /\ \A u \in Threads :
           Serving(u) /\ m_fd[tslot[u]] = m_fd[tslot[t]] => u = t

\* Every open connection is in the hands of the accept thread or in a slot:
\* no rejection, failed pthread_create, stop or race of two closes leaks one.
NoDescriptorLeak ==
  \A f \in Fds : kfd[f] = "conn" =>
    aconn = f \/ \E c \in Slots : m_fd[c] = f

\* When server_stop (or a failed server_start) has returned, nothing is left
\* running or open: only then may server_destroy free what the threads use.
StopQuiesces ==
  (mpc = "idle" /\ m_running = 0) \/ mpc \in {"free", "absent"} =>
    /\ apc = "none" /\ s_thread_started = 0
    /\ \A t \in Threads : ~Active(t)
    /\ \A c \in Slots : m_state[c] = FREE /\ m_fd[c] = NoFd
    /\ \A f \in Fds : kfd[f] \in {"closed", "app"}

\* server_stop joins a handle only when it is that of a thread not joined yet,
\* and while that thread runs it is the one at work on this very slot.
JoinsOwnThread ==
  mpc = "join_c" /\ si \in Slots /\ m_thread_started[si] = 1 =>
    /\ m_thread[si] \in Threads
    /\ tpc[m_thread[si]] # "unused"
    /\ Active(m_thread[si]) => tslot[m_thread[si]] = si

\* A peer is given a slot it never had only when no slot it had was free at
\* the time its connection was accepted.
PeerKeepsItsSlot == apc = "scan" => ahome = {}

-----------------------------------------------------------------------------
(* Liveness, under FairSpec.                                               *)

\* server_stop returns: both its loops and all its joins come to an end.
StopTerminates == Stopping ~> ~Stopping

\* A slot marked SLOT_DISCONNECTED, by its own thread or by server_stop, is
\* free again in the end.
SlotReleased ==
  \A c \in Slots : (m_state[c] = DISCONNECTED) ~> (m_state[c] = FREE)

\* The loss of a peer is noticed: the slot does not stay connected.
PeerLossNoticed ==
  \A c \in Slots :
    (m_state[c] = CONNECTED /\ m_fd[c] \in eof) ~> (m_state[c] # CONNECTED)

-----------------------------------------------------------------------------
(* The promise of the header file, kept by the implementation.             *)

\* Inside server_start nothing is promised yet; inside server_stop, clients
\* are accepted until the accept thread has been joined.
Phase ==
  CASE mpc = "absent" -> "absent"
    [] mpc = "idle" -> IF m_running = 1 THEN "running" ELSE "stopped"
    [] mpc \in {"listen", "spawn", "free"} -> "stopped"
    [] mpc \in {"close_l", "clear_l", "join_a"} -> "stopping"
    [] OTHER -> "draining"

Sessions == {<<tslot[t], t>> : t \in {u \in Threads : Active(u)}}

Promise == INSTANCE ServerPromise WITH
  Indices <- Slots, Workers <- Threads, phase <- Phase, sessions <- Sessions

\* The client function runs in at most one thread per index, and only between
\* server_start and the return of server_stop: every step of the three kinds
\* of threads is a step of the promise or none.
KeepsPromise == Promise!Spec

-----------------------------------------------------------------------------
(* What the documents say and the code does not do.                        *)

\* docs/designs/HighLevelDesign.md: the connection thread is the "single owner
\* of session state", the socket included.  Then whoever is about to close
\* the descriptor of a slot would close that slot's connection.
ClosesOwnSocket ==
  /\ \A t \in Threads : tpc[t] = "c_close" =>
       m_fd[tslot[t]] = NoFd \/ IsOpen(m_fd[tslot[t]], "conn")
  /\ mpc = "close" => m_fd[si] = NoFd \/ IsOpen(m_fd[si], "conn")

\* c_ui_server.h: server_start creates "a thread that listens for incoming
\* client connections".  Then a server that is running and not being stopped
\* would have that thread.
StartedServerListens == mpc = "idle" /\ m_running = 1 => apc # "exited"

=============================================================================
