--------------------------- MODULE ExclusiveLock ---------------------------
(***************************************************************************)
(* What `ResourceLock` promises to its callers, from its module            *)
(* documentation: an exclusive lock on one resource.  Somebody may take    *)
(* the lock when nobody alive has it, uses the resource, and is the only   *)
(* one that can give the lock up, when done; the lock of a process that    *)
(* dies is released.  No table, no polling, no monitors, no priorities.    *)
(***************************************************************************)
CONSTANTS Procs,    \* the processes that use the resource
          Nobody    \* not a process: the lock is free

VARIABLES holder,   \* who has the lock
          using,    \* who was told so and is not done
          live      \* the processes that have not ended

Init == holder = Nobody /\ using = {} /\ live = Procs

\* Nobody alive has the lock: it is free, or its holder has died.
Unheld == holder \notin live

Take(p) == p \in live /\ Unheld /\ holder' = p /\ UNCHANGED <<using, live>>

Enter(p) == holder = p /\ p \in live /\ using' = using \cup {p} /\ UNCHANGED <<holder, live>>

Leave(p) == p \in using /\ using' = using \ {p} /\ UNCHANGED <<holder, live>>

GiveUp(p) == holder = p /\ p \notin using /\ holder' = Nobody /\ UNCHANGED <<using, live>>

Die(p) == live' = live \ {p} /\ using' = using \ {p} /\ UNCHANGED holder

\* The lock is released for a holder that has died.
Recover == Unheld /\ holder' = Nobody /\ UNCHANGED <<using, live>>

Next ==
  \/ \E p \in Procs : Take(p) \/ Enter(p) \/ Leave(p) \/ GiveUp(p) \/ Die(p)
  \/ Recover

Spec == Init /\ [][Next]_<<holder, using, live>>
=============================================================================
