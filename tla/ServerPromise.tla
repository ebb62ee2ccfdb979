---------------------------- MODULE ServerPromise ----------------------------
(***************************************************************************)
(* What c_ui_server.h promises the application about one server_t, with no *)
(* word on how: sessions are the pairs of a client index and the thread    *)
(* that calls the client function with that index.                         *)
(***************************************************************************)
CONSTANTS Indices, Workers

VARIABLES
  phase,     \* "absent", "stopped", "running", "stopping" or "draining"
  sessions

Init == phase = "absent" /\ sessions = {}

Move(from, to) == phase = from /\ phase' = to /\ UNCHANGED sessions

\* A session begins while clients are accepted, on an index and in a thread
\* that no other session has.
Begin(c, t) ==
  /\ phase \in {"running", "stopping"}
  /\ \A s \in sessions : s[1] # c /\ s[2] # t
  /\ sessions' = sessions \cup {<<c, t>>}
  /\ UNCHANGED phase

End(c, t) ==
  /\ <<c, t>> \in sessions
  /\ sessions' = sessions \ {<<c, t>>}
  /\ UNCHANGED phase

\* server_stop may return when the last session has ended.
Quiesce == sessions = {} /\ Move("draining", "stopped")

Next ==
  \/ Move("absent", "stopped")       \* server_create
  \/ Move("stopped", "running")      \* server_start
  \/ Move("running", "stopping")     \* server_stop is called
  \/ Move("stopping", "draining")    \* no client is accepted any more
  \/ Quiesce                         \* server_stop returns
  \/ Move("stopped", "absent")       \* server_destroy
  \/ \E c \in Indices, t \in Workers : Begin(c, t) \/ End(c, t)

Spec == Init /\ [][Next]_<<phase, sessions>>

=============================================================================
