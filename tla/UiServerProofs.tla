---------------------------- MODULE UiServerProofs ----------------------------
(***************************************************************************)
(* UiServer for every number of slots, threads, descriptors and peers: the *)
(* inductive invariant and what follows from it.                           *)
(***************************************************************************)
EXTENDS UiServerInvariant, TLAPS

\* The loops over the slots start in range and stay in range.
LEMMA SlotTurns ==
  /\ 0 \in Slots /\ 0 \in Turns /\ MaxClients \notin Slots
  /\ \A i \in Slots : i \in Turns /\ i + 1 \in Turns
  BY UiServerAssumption DEF Slots, Turns

\* Every variable keeps its type: no index of a loop, handle or descriptor
\* leaves the range it is used with.
LEMMA TypeStep == TypeOK /\ [Next]_vars => TypeOK'
<1> USE SlotTurns DEF TypeOK, FREE, CONNECTED, DISCONNECTED,
    MainPC, AcceptPC, ThreadPC, serverVars, slotVars, osVars, mainVars,
    acceptVars, threadVars, CloseFd, ShutdownFd, ForgetConnection, At, ClosedFds
<1> SUFFICES ASSUME TypeOK, [Next]_vars PROVE TypeOK'
  OBVIOUS
<1>1. CASE Environment
  BY <1>1 DEF Environment, PeerConnects, PeerGivesUp, PeerDisconnects, AppOpens,
     AppCloses
<1>2. CASE MainCalls
  <2>1. CASE Create
    BY <2>1 DEF Create
  <2>2. CASE StartClaims
    BY <2>2 DEF StartClaims
  <2>3. CASE DestroyStopped
    BY <2>3 DEF DestroyStopped
  <2>4. CASE \E ret \in {"idle", "free"} : StopClaims(ret)
    BY <2>4 DEF StopClaims
  <2> QED BY <1>2, <2>1, <2>2, <2>3, <2>4 DEF MainCalls
<1>3. CASE MainStep
  <2>1. CASE \E f \in Fds : StartListens(f)
    BY <2>1 DEF StartListens
  <2>2. CASE StartCannotListen
    BY <2>2 DEF StartCannotListen
  <2>3. CASE StartSpawns
    BY <2>3 DEF StartSpawns
  <2>4. CASE StartCannotSpawn
    BY <2>4 DEF StartCannotSpawn
  <2>5. CASE StopClosesListener
    BY <2>5 DEF StopClosesListener
  <2>6. CASE StopClearsListener
    BY <2>6 DEF StopClearsListener
  <2>7. CASE StopJoinsAcceptor
    BY <2>7 DEF StopJoinsAcceptor
  <2>8. CASE StopScans
    BY <2>8 DEF StopScans, Slots, Turns
  <2>9. CASE StopMarks
    BY <2>9 DEF StopMarks
  <2>10. CASE StopTestsFd
    BY <2>10 DEF StopTestsFd
  <2>11. CASE StopShuts
    BY <2>11 DEF StopShuts, IsOpen
  <2>12. CASE StopCloses
    BY <2>12 DEF StopCloses
  <2>13. CASE StopClears
    BY <2>13 DEF StopClears
  <2>14. CASE StopJoinsClient
    BY <2>14 DEF StopJoinsClient
  <2>15. CASE DestroyFrees
    BY <2>15 DEF DestroyFrees
  <2> QED BY <1>3, <2>1, <2>2, <2>3, <2>4, <2>5, <2>6, <2>7, <2>8, <2>9,
       <2>10, <2>11, <2>12, <2>13, <2>14, <2>15 DEF MainStep, StopStep
<1>4. CASE AcceptStep
  <2>1. CASE AcceptorTests
    BY <2>1 DEF AcceptorTests
  <2>2. CASE AcceptorSelects
    BY <2>2 DEF AcceptorSelects
  <2>3. CASE \E p \in Peers, f \in Fds : AcceptorAccepts(p, f)
    BY <2>3 DEF AcceptorAccepts
  <2>4. CASE AcceptorAcceptFails
    BY <2>4 DEF AcceptorAcceptFails
  <2>5. CASE AcceptorSeeksHome
    BY <2>5 DEF AcceptorSeeksHome
  <2>6. CASE AcceptorSeeksAny
    BY <2>6 DEF AcceptorSeeksAny
  <2>7. CASE AcceptorRejects
    BY <2>7 DEF AcceptorRejects
  <2>8. CASE AcceptorCannotSpawn
    BY <2>8 DEF AcceptorCannotSpawn
  <2>9. CASE AcceptorMarksStarted
    BY <2>9 DEF AcceptorMarksStarted
  <2>10. CASE \E t \in Threads : AcceptorSpawns(t)
    BY <2>10 DEF AcceptorSpawns
  <2> QED BY <1>4, <2>1, <2>2, <2>3, <2>4, <2>5, <2>6, <2>7, <2>8, <2>9, <2>10
       DEF AcceptStep
<1>5. ASSUME NEW t \in Threads, ThreadStep(t) PROVE TypeOK'
  <2>1. CASE ThreadTests(t)
    BY <2>1 DEF ThreadTests
  <2>2. CASE ThreadCallsApi(t)
    BY <2>2 DEF ThreadCallsApi
  <2>3. CASE ThreadDoesIo(t)
    BY <2>3 DEF ThreadDoesIo
  <2>4. CASE ThreadContinues(t)
    BY <2>4 DEF ThreadContinues
  <2>5. CASE ThreadBreaks(t)
    BY <2>5 DEF ThreadBreaks
  <2>6. CASE ThreadTestsFd(t)
    BY <2>6 DEF ThreadTestsFd
  <2>7. CASE ThreadShuts(t)
    BY <2>7 DEF ThreadShuts, IsOpen
  <2>8. CASE ThreadCloses(t)
    BY <2>8 DEF ThreadCloses
  <2>9. CASE ThreadClears(t)
    BY <2>9 DEF ThreadClears
  <2>10. CASE ThreadReleases(t)
    BY <2>10 DEF ThreadReleases
  <2> QED BY <1>5, <2>1, <2>2, <2>3, <2>4, <2>5, <2>6, <2>7, <2>8, <2>9, <2>10
       DEF ThreadStep
<1>6. CASE UNCHANGED vars
  BY <1>6 DEF vars
<1> QED BY <1>1, <1>2, <1>3, <1>4, <1>5, <1>6 DEF Next

\* server_create starts from cleared memory.
LEMMA TypeInit == Init => TypeOK
  BY SlotTurns DEF Init, TypeOK, FREE, CONNECTED, DISCONNECTED,
     MainPC, AcceptPC, ThreadPC

\* The types hold in every reachable state.
THEOREM TypeCorrect == Spec => []TypeOK
  BY TypeInit, TypeStep, PTL DEF Spec

\* Every step keeps the rest of the inductive invariant.
LEMMA InductiveStep == IInv /\ [Next]_vars => IInv'
<1> SUFFICES ASSUME IInv, [Next]_vars PROVE IInv'
  OBVIOUS
<1> DEFINE Rest ==
      ControlInv /\ HandleInv /\ ClaimInv /\ JoinInv /\ FreeSlotIsIdle
<1> TypeOK /\ TypeOK'
  BY TypeStep DEF IInv
<1> SUFFICES Rest'
  BY DEF IInv
<1> USE SlotTurns, UiServerAssumption
    DEF TypeOK, IInv, ControlInv, HandleInv, ClaimInv, JoinInv, FreeSlotIsIdle,
        Held, Active, Quiet, Stopping, FREE, CONNECTED, DISCONNECTED,
        MainPC, AcceptPC, ThreadPC, serverVars, slotVars, osVars, mainVars,
        acceptVars, threadVars, CloseFd, ShutdownFd, ForgetConnection, At,
        ClosedFds
<1>1. CASE Environment
  BY <1>1 DEF Environment, PeerConnects, PeerGivesUp, PeerDisconnects, AppOpens,
     AppCloses
<1>2. CASE MainCalls
  <2>1. CASE Create
    BY <2>1 DEF Create
  <2>2. CASE StartClaims
    BY <2>2 DEF StartClaims
  <2>3. CASE DestroyStopped
    BY <2>3 DEF DestroyStopped
  <2>4. CASE \E ret \in {"idle", "free"} : StopClaims(ret)
    BY <2>4 DEF StopClaims
  <2> QED BY <1>2, <2>1, <2>2, <2>3, <2>4 DEF MainCalls
<1>3. CASE MainStep
  <2>1. CASE \E f \in Fds : StartListens(f)
    BY <2>1 DEF StartListens
  <2>2. CASE StartCannotListen
    BY <2>2 DEF StartCannotListen
  <2>3. CASE StartSpawns
    BY <2>3 DEF StartSpawns
  <2>4. CASE StartCannotSpawn
    BY <2>4 DEF StartCannotSpawn
  <2>5. CASE StopClosesListener
    BY <2>5 DEF StopClosesListener
  <2>6. CASE StopClearsListener
    BY <2>6 DEF StopClearsListener
  <2>7. CASE StopJoinsAcceptor
    BY <2>7 DEF StopJoinsAcceptor
  <2>8. CASE StopScans
    BY <2>8 DEF StopScans, Slots, Turns
  <2>9. CASE StopMarks
    BY <2>9 DEF StopMarks
  <2>10. CASE StopTestsFd
    BY <2>10 DEF StopTestsFd
  <2>11. CASE StopShuts
    BY <2>11 DEF StopShuts
  <2>12. CASE StopCloses
    BY <2>12 DEF StopCloses
  <2>13. CASE StopClears
    BY <2>13 DEF StopClears
  <2>14. CASE StopJoinsClient
    <3>1. apc = "none" /\ apc' = "none" /\ apc # "started"
      BY <2>14 DEF StopJoinsClient
    <3>2. CASE si \in Slots /\ mpc' = "join_c" /\ si' = si + 1
      <4> DEFINE h == m_thread[si]
      <4>1. \A t \in Threads : Active(t) => tslot[t] # si
        BY <2>14, <3>1, <3>2 DEF StopJoinsClient
      <4>2. \A t \in Threads : Active(t)' <=> Active(t)
        BY <2>14, <3>1, <3>2 DEF StopJoinsClient
      <4>3. /\ UNCHANGED <<m_thread, tslot>>
            /\ m_state' = [m_state EXCEPT ![si] = FREE]
            /\ m_thread_started' = [m_thread_started EXCEPT ![si] = 0]
        BY <2>14, <3>1, <3>2 DEF StopJoinsClient
      <4>4. FreeSlotIsIdle'
        BY ONLY IInv, <4>1, <4>2, <4>3
           DEF IInv, TypeOK, FreeSlotIsIdle, FREE, CONNECTED, DISCONNECTED
      <4>5. \A c \in Slots : Held(c)' <=> Held(c) /\ c # si
        BY <3>1, <3>2, <4>3
      <4>6. \A t \in Threads : tpc'[t] = "unused" =>
               tpc[t] = "unused" \/ (Held(si) /\ t = m_thread[si])
        BY <2>14, <3>1, <3>2 DEF StopJoinsClient
      <4>7. HandleInv'
        BY ONLY IInv, <3>2, <4>1, <4>2, <4>3, <4>5, <4>6 
           DEF IInv, TypeOK, HandleInv
      <4>8. JoinInv'
        BY <2>14, <3>1, <3>2 DEF StopJoinsClient, Slots
      <4>9. ControlInv' /\ ClaimInv'
        BY <2>14, <3>1, <3>2 DEF StopJoinsClient
      <4> QED BY <4>4, <4>7, <4>8, <4>9
    <3>3. CASE si = MaxClients /\ mpc' = mret
      BY <2>14, <3>1, <3>3 DEF StopJoinsClient, Slots
    <3> QED BY <2>14, <3>2, <3>3 DEF StopJoinsClient
  <2>15. CASE DestroyFrees
    BY <2>15 DEF DestroyFrees
  <2> QED BY <1>3, <2>1, <2>2, <2>3, <2>4, <2>5, <2>6, <2>7, <2>8, <2>9,
       <2>10, <2>11, <2>12, <2>13, <2>14, <2>15 DEF MainStep, StopStep
<1>4. CASE AcceptStep
  <2>1. CASE AcceptorTests
    BY <2>1 DEF AcceptorTests
  <2>2. CASE AcceptorSelects
    BY <2>2 DEF AcceptorSelects
  <2>3. CASE \E p \in Peers, f \in Fds : AcceptorAccepts(p, f)
    BY <2>3 DEF AcceptorAccepts
  <2>4. CASE AcceptorAcceptFails
    BY <2>4 DEF AcceptorAcceptFails
  <2>5. CASE AcceptorSeeksHome
    BY <2>5 DEF AcceptorSeeksHome
  <2>6. CASE AcceptorSeeksAny
    BY <2>6 DEF AcceptorSeeksAny
  <2>7. CASE AcceptorRejects
    BY <2>7 DEF AcceptorRejects
  <2>8. CASE AcceptorCannotSpawn
    BY <2>8 DEF AcceptorCannotSpawn
  <2>9. CASE AcceptorMarksStarted
    BY <2>9 DEF AcceptorMarksStarted
  <2>10. CASE \E t \in Threads : AcceptorSpawns(t)
    BY <2>10 DEF AcceptorSpawns
  <2> QED BY <1>4, <2>1, <2>2, <2>3, <2>4, <2>5, <2>6, <2>7, <2>8, <2>9, <2>10
       DEF AcceptStep
<1>5. ASSUME NEW t \in Threads, ThreadStep(t) PROVE Rest'
  <2>1. CASE ThreadTests(t)
    BY <2>1 DEF ThreadTests
  <2>2. CASE ThreadCallsApi(t)
    BY <2>2 DEF ThreadCallsApi
  <2>3. CASE ThreadDoesIo(t)
    BY <2>3 DEF ThreadDoesIo
  <2>4. CASE ThreadContinues(t)
    BY <2>4 DEF ThreadContinues
  <2>5. CASE ThreadBreaks(t)
    BY <2>5 DEF ThreadBreaks
  <2>6. CASE ThreadTestsFd(t)
    BY <2>6 DEF ThreadTestsFd
  <2>7. CASE ThreadShuts(t)
    BY <2>7 DEF ThreadShuts
  <2>8. CASE ThreadCloses(t)
    BY <2>8 DEF ThreadCloses
  <2>9. CASE ThreadClears(t)
    BY <2>9 DEF ThreadClears
  <2>10. CASE ThreadReleases(t)
    BY <2>10 DEF ThreadReleases
  <2> QED BY <1>5, <2>1, <2>2, <2>3, <2>4, <2>5, <2>6, <2>7, <2>8, <2>9, <2>10
       DEF ThreadStep
<1>6. CASE UNCHANGED vars
  BY <1>6 DEF vars
<1> QED BY <1>1, <1>2, <1>3, <1>4, <1>5, <1>6 DEF Next

\* The inductive invariant holds in every reachable state.
THEOREM Inductive == Spec => []IInv
<1>1. Init => IInv
  BY TypeInit DEF Init, IInv, ControlInv, HandleInv, ClaimInv, JoinInv,
     FreeSlotIsIdle, Held, Active, Quiet, Stopping
<1> QED BY <1>1, InductiveStep, PTL DEF Spec

\* A slot never has two client threads, although nobody joins a client thread
\* before its slot is used again.
THEOREM OneThreadPerSlot == Spec => []AtMostOneThreadPerSlot
<1>1. IInv => AtMostOneThreadPerSlot
  BY DEF IInv, HandleInv, AtMostOneThreadPerSlot
<1> QED BY <1>1, Inductive, PTL

\* A slot the accept thread may give away is one no thread works on.
THEOREM FreeSlots == Spec => []FreeSlotIsIdle
<1>1. IInv => FreeSlotIsIdle
  BY DEF IInv
<1> QED BY <1>1, Inductive, PTL

\* server_stop joins no thread twice and no thread of another slot.
THEOREM Joins == Spec => []JoinsOwnThread
<1>1. IInv => JoinsOwnThread
  BY DEF IInv, TypeOK, HandleInv, Held, JoinsOwnThread
<1> QED BY <1>1, Inductive, PTL

-----------------------------------------------------------------------------
\* Nobody but the accept thread takes a free slot or changes its key.
LEMMA HomeStep == IInv /\ HomeInv /\ [Next]_vars => HomeInv'
<1> SUFFICES ASSUME IInv, HomeInv, [Next]_vars PROVE HomeInv'
  OBVIOUS
<1> TypeOK /\ ControlInv /\ FreeSlotIsIdle
  BY DEF IInv
<1> USE DEF TypeOK, ControlInv, HomeInv, PeerKeepsItsSlot, FREE, CONNECTED,
    DISCONNECTED, serverVars, slotVars, osVars, mainVars, acceptVars, threadVars
<1>1. CASE AcceptStep
  <2>0. CASE apc' \notin {"affinity", "scan"}
    BY <2>0
  <2>1. CASE \E p \in Peers, f \in Fds : AcceptorAccepts(p, f)
    BY <2>1 DEF AcceptorAccepts, Slots
  <2>2. CASE AcceptorSeeksHome
    <3>1. CASE ai \in Slots /\ ~(m_peer[ai] = apeer /\ m_state[ai] = FREE)
      <4>1. \A c \in ahome : c >= ai /\ c # ai
        BY <2>2, <3>1 DEF AcceptorSeeksHome
      <4>2. \A c \in ahome : c >= ai + 1
        BY <3>1, <4>1 DEF Slots
      <4> QED BY <2>2, <3>1, <4>2, SlotTurns DEF AcceptorSeeksHome
    <3>2. CASE ai = MaxClients
      <4>1. \A c \in ahome : c \in Slots /\ c >= MaxClients
        BY <2>2, <3>2 DEF AcceptorSeeksHome
      <4>2. ahome = {}
        BY <4>1, UiServerAssumption DEF Slots
      <4> QED BY <2>2, <3>2, <4>2, SlotTurns DEF AcceptorSeeksHome
    <3> QED BY <2>2, <3>1, <3>2, <2>0 DEF AcceptorSeeksHome
  <2>3. CASE AcceptorSeeksAny
    BY <2>3 DEF AcceptorSeeksAny
  <2> QED BY <1>1, <2>0, <2>1, <2>2, <2>3
          DEF AcceptStep, AcceptorTests, AcceptorSelects, AcceptorAcceptFails,
              AcceptorRejects, AcceptorCannotSpawn, AcceptorMarksStarted,
              AcceptorSpawns
<1>2. ASSUME UNCHANGED <<acceptVars, m_peer>>,
             \A c \in Slots : m_state[c] = FREE => m_state'[c] = FREE
      PROVE  HomeInv'
  BY <1>2
<1>3. CASE apc' \notin {"affinity", "scan"}
  BY <1>3
<1>4. CASE Environment
  BY <1>2, <1>4 DEF Environment, PeerConnects, PeerGivesUp, PeerDisconnects,
     AppOpens, AppCloses
<1>5. CASE MainCalls \/ MainStep
  BY <1>2, <1>3, <1>5 DEF MainCalls, MainStep, StopStep, Create, StartClaims,
     DestroyStopped, StopClaims, StartListens, StartCannotListen, StartSpawns,
     StartCannotSpawn, StopClosesListener, StopClearsListener,
     StopJoinsAcceptor, StopScans, StopMarks, StopTestsFd, StopShuts,
     StopCloses, StopClears, StopJoinsClient, DestroyFrees, Stopping
<1>6. ASSUME NEW t \in Threads, ThreadStep(t) PROVE HomeInv'
  BY <1>2, <1>6 DEF ThreadStep, ThreadTests, ThreadCallsApi, ThreadDoesIo,
     ThreadContinues, ThreadBreaks, ThreadTestsFd, ThreadShuts, ThreadCloses,
     ThreadClears, ThreadReleases, At, Active, FreeSlotIsIdle
<1>7. CASE UNCHANGED vars
  BY <1>2, <1>7 DEF vars
<1> QED BY <1>1, <1>4, <1>5, <1>6, <1>7 DEF Next

\* A peer gets back a slot it had whenever one was free at its accept().
THEOREM Affinity == Spec => []PeerKeepsItsSlot
<1>1. Init => HomeInv
  BY DEF Init, HomeInv, PeerKeepsItsSlot
<1>2. HomeInv => PeerKeepsItsSlot
  BY DEF HomeInv
<1> QED BY <1>1, <1>2, Inductive, HomeStep, PTL DEF Spec

-----------------------------------------------------------------------------
\* A step that neither starts nor ends the work of a thread keeps the sessions.
LEMMA SameSessions ==
  ASSUME \A t \in Threads : /\ Active(t)' <=> Active(t)
                            /\ Active(t) => tslot'[t] = tslot[t]
  PROVE  Sessions' = Sessions
  BY DEF Sessions

\* The implementation keeps the promise of the header file.
THEOREM Implements == Spec => KeepsPromise
<1>1. Init => Promise!Init
  BY DEF Init, Promise!Init, Phase, Sessions, Active
<1>2. IInv /\ [Next]_vars => [Promise!Next]_<<Phase, Sessions>>
  <2> SUFFICES ASSUME IInv, [Next]_vars PROVE [Promise!Next]_<<Phase, Sessions>>
    OBVIOUS
  <2> TypeOK
    BY DEF IInv
  <2>1. CASE \E t \in Threads : AcceptorSpawns(t)
    <3> PICK t \in Threads : AcceptorSpawns(t)
      BY <2>1
    <3>1. Sessions' = Sessions \cup {<<ai, t>>}
      BY DEF AcceptorSpawns, Sessions, Active, TypeOK
    <3>2. \A s \in Sessions : s[1] # ai /\ s[2] # t
      BY DEF IInv, ClaimInv, AcceptorSpawns, Sessions, Active
    <3>3. Phase \in {"running", "stopping"} /\ Phase' = Phase
      BY DEF IInv, ControlInv, AcceptorSpawns, Phase, mainVars, serverVars
    <3>4. Promise!Begin(ai, t)
      BY <3>1, <3>2, <3>3 DEF Promise!Begin
    <3>5. ai \in Slots
      BY DEF TypeOK, AcceptorSpawns
    <3> QED BY <3>4, <3>5 DEF Promise!Next
  <2>2. ASSUME NEW t \in Threads, ThreadReleases(t)
        PROVE Promise!Next
    <3>1. /\ Sessions' = Sessions \ {<<tslot[t], t>>}
          /\ <<tslot[t], t>> \in Sessions
      BY <2>2 DEF ThreadReleases, At, Sessions, Active, TypeOK, ThreadPC
    <3>2. Phase' = Phase
      BY <2>2 DEF ThreadReleases, Phase, mainVars, serverVars
    <3>3. Promise!End(tslot[t], t)
      BY <3>1, <3>2 DEF Promise!End
    <3> QED BY <3>3 DEF Promise!Next, TypeOK
  <2>3. ASSUME UNCHANGED <<Phase, Sessions>>
        PROVE  [Promise!Next]_<<Phase, Sessions>>
    BY <2>3
  <2> USE DEF serverVars, slotVars, osVars, mainVars, acceptVars, threadVars
  <2>4. CASE Environment
    <3>1. UNCHANGED <<mpc, m_running, tpc, tslot>>
      BY <2>4 DEF Environment, PeerConnects, PeerGivesUp, PeerDisconnects,
         AppOpens, AppCloses
    <3> QED BY <3>1, <2>3 DEF Phase, Sessions, Active
  <2>5. CASE MainCalls
    <3>1. Sessions' = Sessions
      BY <2>5 DEF MainCalls, Create, StartClaims, DestroyStopped, StopClaims,
         Sessions, Active
    <3>2. \/ Phase' = Phase
          \/ Phase = "absent" /\ Phase' = "stopped"
          \/ Phase = "running" /\ Phase' = "stopping"
      BY <2>5 DEF MainCalls, Create, StartClaims, DestroyStopped, StopClaims,
         Phase
    <3> QED BY <3>1, <3>2, <2>3 DEF Promise!Next, Promise!Move
  <2>6. CASE StopJoinsClient
    <3>1. \A t \in Threads : /\ Active(t)' <=> Active(t)
                             /\ Active(t) => tslot'[t] = tslot[t]
      BY <2>6 DEF StopJoinsClient, IInv, HandleInv, Active, TypeOK, ThreadPC
    <3>2. Sessions' = Sessions
      BY <3>1, SameSessions
    <3>3. CASE mpc' = "join_c"
      BY <2>6, <3>2, <3>3, <2>3 DEF StopJoinsClient, Phase
    <3>4. CASE mpc' = mret /\ si = MaxClients
      <4>1. \A c \in Slots : ~Held(c)
        BY <2>6, <3>4, UiServerAssumption
           DEF StopJoinsClient, IInv, JoinInv, ControlInv, Held, Slots
      <4>2. Sessions = {}
        BY <4>1 DEF Sessions, IInv, HandleInv, TypeOK
      <4>3. Phase = "draining" /\ Phase' = "stopped"
        BY <2>6, <3>4 DEF StopJoinsClient, Phase, TypeOK, IInv, ControlInv,
             Stopping
      <4> QED BY <3>2, <4>2, <4>3 DEF Promise!Next, Promise!Quiesce,
           Promise!Move
    <3> QED BY <2>6, <3>3, <3>4 DEF StopJoinsClient
  <2>7. CASE MainStep /\ ~StopJoinsClient
    <3>1. Sessions' = Sessions
      BY <2>7 DEF MainStep, StopStep, StartListens, StartCannotListen,
         StartSpawns, StartCannotSpawn, StopClosesListener, StopClearsListener,
         StopJoinsAcceptor, StopScans, StopMarks, StopTestsFd, StopShuts,
         StopCloses, StopClears, DestroyFrees, Sessions, Active
    <3>2. \/ Phase' = Phase
          \/ Phase = "stopped" /\ Phase' \in {"running", "absent"}
          \/ Phase = "stopping" /\ Phase' = "draining"
      BY <2>7 DEF MainStep, StopStep, StartListens, StartCannotListen,
         StartSpawns, StartCannotSpawn, StopClosesListener, StopClearsListener,
         StopJoinsAcceptor, StopScans, StopMarks, StopTestsFd, StopShuts,
         StopCloses, StopClears, DestroyFrees, Phase, IInv, ControlInv
    <3> QED BY <3>1, <3>2, <2>3 DEF Promise!Next, Promise!Move
  <2>8. CASE AcceptStep /\ ~\E t \in Threads : AcceptorSpawns(t)
    <3>1. UNCHANGED <<mpc, m_running, tpc, tslot>>
      BY <2>8 DEF AcceptStep, AcceptorTests, AcceptorSelects, AcceptorAccepts,
         AcceptorAcceptFails, AcceptorSeeksHome, AcceptorSeeksAny,
         AcceptorRejects, AcceptorCannotSpawn, AcceptorMarksStarted
    <3> QED BY <3>1, <2>3 DEF Phase, Sessions, Active
  <2>9. ASSUME NEW t \in Threads, ThreadStep(t), ~ThreadReleases(t)
        PROVE  UNCHANGED <<Phase, Sessions>>
    <3>1. UNCHANGED <<mpc, m_running, tslot>>
      BY <2>9 DEF ThreadStep, ThreadTests, ThreadCallsApi, ThreadDoesIo,
         ThreadContinues, ThreadBreaks, ThreadTestsFd, ThreadShuts,
         ThreadCloses, ThreadClears
    <3>2. \A u \in Threads : Active(u)' <=> Active(u)
      BY <2>9 DEF ThreadStep, ThreadTests, ThreadCallsApi, ThreadDoesIo,
         ThreadContinues, ThreadBreaks, ThreadTestsFd, ThreadShuts,
         ThreadCloses, ThreadClears, At, Active, TypeOK
    <3> QED BY <3>1, <3>2, SameSessions DEF Phase
  <2>10. CASE UNCHANGED vars
    BY <2>10, <2>3 DEF vars, Phase, Sessions, Active
  <2> QED BY <2>1, <2>2, <2>3, <2>4, <2>5, <2>6, <2>7, <2>8, <2>9, <2>10
          DEF Next, MainStep, StopStep, AcceptStep
<1> QED BY <1>1, <1>2, Inductive, PTL DEF Spec, KeepsPromise, Promise!Spec

=============================================================================
