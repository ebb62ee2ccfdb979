----------------------- MODULE UiServerDescriptorProofs -----------------------
(***************************************************************************)
(* What becomes of descriptors, for every number of slots, threads,        *)
(* descriptors and peers.                                                  *)
(***************************************************************************)
EXTENDS UiServerProofs

\* Every step keeps the invariant of the descriptors.
LEMMA DescriptorStep == IInv /\ DInv /\ [Next]_vars => DInv'
<1> SUFFICES ASSUME IInv, DInv, [Next]_vars PROVE DInv'
  OBVIOUS
<1> TypeOK /\ TypeOK'
  BY TypeStep DEF IInv
<1> USE SlotTurns, UiServerAssumption
    DEF TypeOK, IInv, ControlInv, HandleInv, ClaimInv, JoinInv, FreeSlotIsIdle,
        DInv, FreedInv, OwnerInv, HandoverInv, OpenInv, ServeInv, Closed,
        HasListener, ServingDescriptor, Serving, Draining, IsOpen, Listening,
        Held, Active, Quiet, Stopping, FREE, CONNECTED, DISCONNECTED,
        MainPC, AcceptPC, ThreadPC, serverVars, slotVars, osVars, mainVars,
        acceptVars, threadVars, CloseFd, ShutdownFd, ForgetConnection, At,
        ClosedFds
<1>1. CASE Environment
  BY <1>1 DEF Environment, PeerConnects, PeerGivesUp, PeerDisconnects, AppOpens,
     AppCloses
<1>2. CASE MainCalls
  <2>1. CASE Create
    BY <2>1 DEF Create
  <2>2. CASE StartClaims
    BY <2>2 DEF StartClaims
  <2>3. CASE DestroyStopped
    BY <2>3 DEF DestroyStopped
  <2>4. CASE \E ret \in {"idle", "free"} : StopClaims(ret)
    BY <2>4 DEF StopClaims
  <2> QED BY <1>2, <2>1, <2>2, <2>3, <2>4 DEF MainCalls
<1>3. CASE MainStep
  <2>1. CASE \E f \in Fds : StartListens(f)
    BY <2>1 DEF StartListens
  <2>2. CASE StartCannotListen
    BY <2>2 DEF StartCannotListen
  <2>3. CASE StartSpawns
    BY <2>3 DEF StartSpawns
  <2>4. CASE StartCannotSpawn
    BY <2>4 DEF StartCannotSpawn
  <2>5. CASE StopClosesListener
    BY <2>5 DEF StopClosesListener
  <2>6. CASE StopClearsListener
    BY <2>6 DEF StopClearsListener
  <2>7. CASE StopJoinsAcceptor
    BY <2>7 DEF StopJoinsAcceptor
  <2>8. CASE StopScans
    BY <2>8 DEF StopScans, Slots, Turns
  <2>9. CASE StopMarks
    BY <2>9 DEF StopMarks
  <2>10. CASE StopTestsFd
    BY <2>10 DEF StopTestsFd
  <2>11. CASE StopShuts
    BY <2>11 DEF StopShuts
  <2>12. CASE StopCloses
    BY <2>12 DEF StopCloses
  <2>13. CASE StopClears
    BY <2>13 DEF StopClears
  <2>14. CASE StopJoinsClient
    <3>1. /\ apc = "none" /\ m_running = 0
          /\ UNCHANGED <<kfd, m_fd, aconn, apc, tslot>>
      BY <2>14 DEF StopJoinsClient
    <3>2. \A t \in Threads : tpc'[t] = tpc[t] \/ (~Active(t) /\ ~Active(t)')
      BY <2>14, <3>1 DEF StopJoinsClient
    <3>3. OwnerInv'
      BY ONLY DInv, <3>1, <3>2 DEF DInv, OwnerInv, Active
    <3>4. HandoverInv'
      BY <3>1
    <3>5. ~HasListener /\ ~HasListener' /\ UNCHANGED m_listen_fd
      BY <2>14 DEF StopJoinsClient
    <3>6. \A c \in Slots : Closed(c)' => Closed(c)
      BY <2>14, <3>2 DEF StopJoinsClient
    <3>7. OpenInv'
      BY ONLY DInv, <3>1, <3>5, <3>6 DEF DInv, OpenInv
    <3>8. CASE si \in Slots /\ mpc' = "join_c" /\ si' = si + 1
      <4>1. FreedInv'
        BY <2>14, <3>8 DEF StopJoinsClient, Slots
      <4>2. ServeInv'
        BY <3>1, <3>5, <3>8
      <4> QED BY <3>3, <3>4, <3>7, <4>1, <4>2
    <3>9. CASE si = MaxClients /\ mpc' = mret
      <4>1. m_state' = m_state /\ \A c \in Slots : m_state[c] = FREE /\ ~Held(c)
        BY <2>14, <3>1, <3>9 DEF StopJoinsClient, Slots
      <4>2. \A t \in Threads : ~Active(t)'
        BY <3>2, <4>1
      <4>3. FreedInv' /\ ServeInv'
        BY <3>1, <3>5, <4>1, <4>2
      <4> QED BY <3>3, <3>4, <3>7, <4>3
    <3> QED BY <2>14, <3>8, <3>9 DEF StopJoinsClient
  <2>15. CASE DestroyFrees
    BY <2>15 DEF DestroyFrees
  <2> QED BY <1>3, <2>1, <2>2, <2>3, <2>4, <2>5, <2>6, <2>7, <2>8, <2>9,
       <2>10, <2>11, <2>12, <2>13, <2>14, <2>15 DEF MainStep, StopStep
<1>4. CASE AcceptStep
  <2>1. CASE AcceptorTests
    BY <2>1 DEF AcceptorTests
  <2>2. CASE AcceptorSelects
    BY <2>2 DEF AcceptorSelects
  <2>3. CASE \E p \in Peers, f \in Fds : AcceptorAccepts(p, f)
    BY <2>3 DEF AcceptorAccepts
  <2>4. CASE AcceptorAcceptFails
    BY <2>4 DEF AcceptorAcceptFails
  <2>5. CASE AcceptorSeeksHome
    BY <2>5 DEF AcceptorSeeksHome
  <2>6. CASE AcceptorSeeksAny
    BY <2>6 DEF AcceptorSeeksAny
  <2>7. CASE AcceptorRejects
    BY <2>7 DEF AcceptorRejects
  <2>8. CASE AcceptorCannotSpawn
    BY <2>8 DEF AcceptorCannotSpawn
  <2>9. CASE AcceptorMarksStarted
    BY <2>9 DEF AcceptorMarksStarted
  <2>10. CASE \E t \in Threads : AcceptorSpawns(t)
    BY <2>10 DEF AcceptorSpawns
  <2> QED BY <1>4, <2>1, <2>2, <2>3, <2>4, <2>5, <2>6, <2>7, <2>8, <2>9, <2>10
       DEF AcceptStep
<1>5. ASSUME NEW t \in Threads, ThreadStep(t) PROVE DInv'
  <2>1. CASE ThreadTests(t)
    BY <2>1 DEF ThreadTests
  <2>2. CASE ThreadCallsApi(t)
    BY <2>2 DEF ThreadCallsApi
  <2>3. CASE ThreadDoesIo(t)
    BY <2>3 DEF ThreadDoesIo
  <2>4. CASE ThreadContinues(t)
    BY <2>4 DEF ThreadContinues
  <2>5. CASE ThreadBreaks(t)
    BY <2>5 DEF ThreadBreaks
  <2>6. CASE ThreadTestsFd(t)
    BY <2>6 DEF ThreadTestsFd
  <2>7. CASE ThreadShuts(t)
    BY <2>7 DEF ThreadShuts
  <2>8. CASE ThreadCloses(t)
    BY <2>8 DEF ThreadCloses
  <2>9. CASE ThreadClears(t)
    BY <2>9 DEF ThreadClears
  <2>10. CASE ThreadReleases(t)
    BY <2>10 DEF ThreadReleases
  <2> QED BY <1>5, <2>1, <2>2, <2>3, <2>4, <2>5, <2>6, <2>7, <2>8, <2>9, <2>10
       DEF ThreadStep
<1>6. CASE UNCHANGED vars
  BY <1>6 DEF vars
<1> QED BY <1>1, <1>2, <1>3, <1>4, <1>5, <1>6 DEF Next

\* The invariant of the descriptors holds in every reachable state.
THEOREM Descriptors == Spec => []DInv
<1>1. Init => DInv
  BY TypeInit DEF Init, DInv, FreedInv, OwnerInv, HandoverInv, OpenInv,
     ServeInv, HasListener, ServingDescriptor, Serving, Active, Quiet, Closed,
     TypeOK
<1> QED BY <1>1, Inductive, DescriptorStep, PTL DEF Spec

\* When server_stop has returned nothing runs and nothing is open, so that
\* server_destroy frees no memory a thread still uses.
THEOREM StopIsComplete == Spec => []StopQuiesces
<1>1. IInv /\ DInv => StopQuiesces
  <2> SUFFICES ASSUME IInv, DInv, Quiet, mpc \notin {"listen", "spawn"}
               PROVE  /\ apc = "none" /\ s_thread_started = 0
                      /\ \A t \in Threads : ~Active(t)
                      /\ \A c \in Slots : m_state[c] = FREE /\ m_fd[c] = NoFd
                      /\ \A f \in Fds : kfd[f] \in {"closed", "app"}
    BY DEF StopQuiesces, Quiet
  <2>1. apc = "none" /\ s_thread_started = 0 /\ ~HasListener
    BY DEF IInv, TypeOK, ControlInv, Quiet, HasListener
  <2>2. \A t \in Threads : ~Active(t)
    BY <2>1 DEF IInv, TypeOK, HandleInv, JoinInv, Held
  <2>3. \A c \in Slots : m_state[c] = FREE /\ m_fd[c] = NoFd
    BY <2>2 DEF DInv, FreedInv, OwnerInv
  <2>4. aconn = NoFd
    BY <2>1 DEF DInv, HandoverInv
  <2>5. \A f \in Fds : kfd[f] \notin {"conn", "listen"}
    BY <2>1, <2>3, <2>4, UiServerAssumption DEF DInv, OpenInv
  <2> QED BY <2>1, <2>2, <2>3, <2>5 DEF IInv, TypeOK
<1> QED BY <1>1, Inductive, Descriptors, PTL

\* No open connection is forgotten.
THEOREM NoLeak == Spec => []NoDescriptorLeak
<1>1. DInv => NoDescriptorLeak
  BY DEF DInv, OpenInv, NoDescriptorLeak
<1> QED BY <1>1, Descriptors, PTL

\* Until server_stop turns to the slots, a session has its descriptor to itself.
THEOREM OwnDescriptor == Spec => []ServingDescriptor
<1>1. DInv => ServingDescriptor
  BY DEF DInv, ServeInv
<1> QED BY <1>1, Descriptors, PTL

=============================================================================
