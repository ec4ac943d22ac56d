---------------------------- MODULE ResourceLock ----------------------------
(***************************************************************************)
(* RustyclawOrchestrator.ResourceLock (resource_lock.ex): exclusive locks  *)
(* kept as rows of a public ETS table that every process reads and writes  *)
(* itself, without a server in between.  One ETS call is atomic; a         *)
(* function that makes two is not, so each ETS call is a step of its own.  *)
(*                                                                         *)
(* The table has one row per resource name and no function touches two     *)
(* rows: this module follows one resource.                                 *)
(***************************************************************************)
EXTENDS Integers

CONSTANTS
  Procs,       \* processes (pids) that call acquire and release
  Main,        \* those that pass `priority: :main`; the others pass :btw
  Mortal,      \* those that may end normally once they have released
  Killable,    \* those that may be killed at any point of the code
  Refs,        \* results of make_ref()
  MaxTries,    \* attempts that fit between the call and its deadline
  None         \* no row, no pid, no reference

Row == [pid : Procs, ref : Refs, main : BOOLEAN]

ASSUME ProcsAssumption ==
  /\ Main \subseteq Procs
  /\ Mortal \subseteq Procs
  /\ Killable \subseteq Procs
  /\ MaxTries \in Nat \ {0}
  /\ None \notin Procs \cup Refs
  /\ None \notin Row

VARIABLES
  row,         \* the ETS row: None, or the pid, lock_ref and priority stored
  alive,       \* Process.alive?(pid)
  pc,          \* the step each process takes next
  tries,       \* attempts made in the current acquire (its clock)
  saw,         \* the pid the last :ets.lookup of the process returned
  ref,         \* the lock_ref of the last insert of the process
  claims,      \* acquire returned :ok and release has not been called since
  monitors     \* the processes spawned by monitor_holder

vars == <<row, alive, pc, tries, saw, ref, claims, monitors>>

\* matched: the monitor has seen the row of its holder and is about to delete.
Monitor == [pid : Procs, ref : Refs, matched : BOOLEAN]

Steps == {"idle", "insert_new", "monitor",
          "preempt_lookup", "preempt_insert",
          "reclaim_lookup", "reclaim_alive", "reclaim_delete", "retry",
          "release_lookup", "release_delete"}

Holds(p) == row # None /\ row.pid = p

RowOf(p, r) == [pid |-> p, ref |-> r, main |-> p \in Main]

\* A reference that nothing still mentions stands for a new one: make_ref never
\* returns the same reference twice, and only live references are compared.
FreshRefs ==
  Refs \ ( {m.ref : m \in monitors} \cup {ref[p] : p \in Procs}
           \cup (IF row = None THEN {} ELSE {row.ref}) )

Init ==
  /\ row = None
  /\ alive = [p \in Procs |-> TRUE]
  /\ pc = [p \in Procs |-> "idle"]
  /\ tries = [p \in Procs |-> 0]
  /\ saw = [p \in Procs |-> None]
  /\ ref = [p \in Procs |-> None]
  /\ claims = [p \in Procs |-> FALSE]
  /\ monitors = {}

-----------------------------------------------------------------------------
(* acquire and try_acquire *)

\* Process p, alive, performs the step named `from` and goes on at `to`.
Goto(p, from, to) ==
  /\ alive[p]
  /\ pc[p] = from
  /\ pc' = [pc EXCEPT ![p] = to]

\* acquire(resource, opts): both callers, BtwServer and Worker, acquire, use and
\* release in that order.  One reference stands for the make_ref() of every attempt
\* of the call: that of an attempt that failed was never stored.  Refs so bounds the
\* calls of a process whose monitors still wait (they do until it ends).
Acquire(p) ==
  /\ ~ claims[p]
  /\ Goto(p, "idle", "insert_new")
  /\ tries' = [tries EXCEPT ![p] = 1]
  /\ \E r \in FreshRefs : ref' = [ref EXCEPT ![p] = r]
  /\ UNCHANGED <<row, alive, saw, claims, monitors>>

\* :ets.insert_new, true: the row is in, its holder has no monitor yet.
InsertNew(p) ==
  /\ row = None
  /\ Goto(p, "insert_new", "monitor")
  /\ row' = RowOf(p, ref[p])
  /\ UNCHANGED <<alive, tries, saw, ref, claims, monitors>>

\* :ets.insert_new, false: contested; maybe_preempt returns false at once for :btw.
InsertRefused(p) ==
  /\ row # None
  /\ Goto(p, "insert_new", IF p \in Main THEN "preempt_lookup" ELSE "reclaim_lookup")
  /\ UNCHANGED <<row, alive, tries, saw, ref, claims, monitors>>

\* monitor_holder: spawn; the spawned process does not run in this step.
SpawnMonitor(p) == monitors' = monitors \cup {[pid |-> p, ref |-> ref[p], matched |-> FALSE]}

\* After either insert: monitor_holder and :ok to the caller.
MonitorAndReturn(p) ==
  /\ Goto(p, "monitor", "idle")
  /\ SpawnMonitor(p)
  /\ claims' = [claims EXCEPT ![p] = TRUE]
  /\ ref' = [ref EXCEPT ![p] = None]
  /\ tries' = [tries EXCEPT ![p] = 0]
  /\ UNCHANGED <<row, alive, saw>>

-----------------------------------------------------------------------------
(* maybe_preempt *)

Preemptible(p) == row # None /\ ~ row.main /\ row.pid # p

PreemptLookup(p) ==
  /\ \/ /\ Preemptible(p)
        /\ Goto(p, "preempt_lookup", "preempt_insert")
        /\ saw' = [saw EXCEPT ![p] = row.pid]
     \/ /\ ~ Preemptible(p)
        /\ Goto(p, "preempt_lookup", "reclaim_lookup")
        /\ UNCHANGED saw
  /\ UNCHANGED <<row, alive, tries, ref, claims, monitors>>

\* A plausible bug, for the mutation runs: the row keeps the reference of the preempted holder.
PreemptInsert_OldRef(p) ==
  /\ Goto(p, "preempt_insert", "monitor")
  /\ row' = RowOf(p, IF row = None THEN ref[p] ELSE row.ref)
  /\ saw' = [saw EXCEPT ![p] = None]
  /\ UNCHANGED <<alive, tries, ref, claims, monitors>>

\* :ets.insert replaces whatever row is there by now, or none.  What follows is as
\* after insert_new, and the message {:resource_preempted, resource}: BtwServer's
\* catch-all handle_info drops it and a Task never reads it, so it is not kept.
PreemptInsert(p) ==
  /\ Goto(p, "preempt_insert", "monitor")
  /\ row' = RowOf(p, ref[p])
  /\ saw' = [saw EXCEPT ![p] = None]
  /\ UNCHANGED <<alive, tries, ref, claims, monitors>>

-----------------------------------------------------------------------------
(* maybe_reclaim_dead_lock and retry_or_timeout *)

ReclaimLookup(p) ==
  /\ \/ /\ row # None
        /\ Goto(p, "reclaim_lookup", "reclaim_alive")
        /\ saw' = [saw EXCEPT ![p] = row.pid]
     \/ /\ row = None
        /\ Goto(p, "reclaim_lookup", "retry")
        /\ UNCHANGED saw
  /\ UNCHANGED <<row, alive, tries, ref, claims, monitors>>

\* A plausible bug, for the mutation runs: the liveness of the holder is looked at the wrong way round.
ReclaimAlive_Inverted(p) ==
  /\ Goto(p, "reclaim_alive", IF alive[saw[p]] THEN "reclaim_delete" ELSE "retry")
  /\ saw' = [saw EXCEPT ![p] = None]
  /\ UNCHANGED <<row, alive, tries, ref, claims, monitors>>

ReclaimAlive(p) ==
  /\ Goto(p, "reclaim_alive", IF alive[saw[p]] THEN "retry" ELSE "reclaim_delete")
  /\ saw' = [saw EXCEPT ![p] = None]
  /\ UNCHANGED <<row, alive, tries, ref, claims, monitors>>

\* :ets.delete by key: it takes no notice of whose row it is.
ReclaimDelete(p) ==
  /\ Goto(p, "reclaim_delete", "retry")
  /\ row' = None
  /\ UNCHANGED <<alive, tries, saw, ref, claims, monitors>>

\* A plausible bug, for the mutation runs: the deadline is not compared.
Retry_NoDeadline(p) ==
  /\ Goto(p, "retry", "insert_new")
  /\ tries' = [tries EXCEPT ![p] = @ + 1]
  /\ UNCHANGED <<row, alive, saw, ref, claims, monitors>>

\* Before the deadline: sleep and try again.
Retry(p) ==
  /\ tries[p] < MaxTries
  /\ Goto(p, "retry", "insert_new")
  /\ tries' = [tries EXCEPT ![p] = @ + 1]
  /\ UNCHANGED <<row, alive, saw, ref, claims, monitors>>

\* Past the deadline, however many attempts were made: {:error, :resource_busy}.
Timeout(p) ==
  /\ Goto(p, "retry", "idle")
  /\ tries' = [tries EXCEPT ![p] = 0]
  /\ ref' = [ref EXCEPT ![p] = None]
  /\ UNCHANGED <<row, alive, saw, claims, monitors>>

-----------------------------------------------------------------------------
(* release *)

\* The caller is done with the resource the moment it calls release.
Release(p) ==
  /\ claims[p]
  /\ Goto(p, "idle", "release_lookup")
  /\ claims' = [claims EXCEPT ![p] = FALSE]
  /\ UNCHANGED <<row, alive, tries, saw, ref, monitors>>

\* A plausible bug, for the mutation runs: only a :btw row matches the pattern.
ReleaseLookup_BtwOnly(p) ==
  /\ Goto(p, "release_lookup", IF Holds(p) /\ ~ row.main THEN "release_delete" ELSE "idle")
  /\ UNCHANGED <<row, alive, tries, saw, ref, claims, monitors>>

\* pid == self(): go on to delete; anything else: {:error, :not_held}.
ReleaseLookup(p) ==
  /\ Goto(p, "release_lookup", IF Holds(p) THEN "release_delete" ELSE "idle")
  /\ UNCHANGED <<row, alive, tries, saw, ref, claims, monitors>>

ReleaseDelete(p) ==
  /\ Goto(p, "release_delete", "idle")
  /\ row' = None
  /\ UNCHANGED <<alive, tries, saw, ref, claims, monitors>>

-----------------------------------------------------------------------------
(* The end of a process, and the monitors that wait for it *)

End(p) ==
  /\ alive[p]
  /\ alive' = [alive EXCEPT ![p] = FALSE]
  /\ pc' = [pc EXCEPT ![p] = "idle"]
  /\ tries' = [tries EXCEPT ![p] = 0]
  /\ saw' = [saw EXCEPT ![p] = None]
  /\ ref' = [ref EXCEPT ![p] = None]
  /\ claims' = [claims EXCEPT ![p] = FALSE]
  /\ UNCHANGED <<row, monitors>>

\* A BtwServer stops, and the Task of a Worker ends, after its release.
Exit(p) == p \in Mortal /\ pc[p] = "idle" /\ ~ claims[p] /\ End(p)

\* An exit signal ends a process at any point.
Kill(p) == p \in Killable /\ End(p)

\* A plausible bug, for the mutation runs: only a :btw row matches the pattern of the monitor.
MonitorDown_BtwOnly(m) ==
  /\ ~ m.matched
  /\ ~ alive[m.pid]
  /\ IF row # None /\ row.pid = m.pid /\ row.ref = m.ref /\ ~ row.main
     THEN monitors' = (monitors \ {m}) \cup {[m EXCEPT !.matched = TRUE]}
     ELSE monitors' = monitors \ {m}
  /\ UNCHANGED <<row, alive, pc, tries, saw, ref, claims>>

\* :DOWN arrives (at once when the holder was dead before Process.monitor).
MonitorDown(m) ==
  /\ ~ m.matched
  /\ ~ alive[m.pid]
  /\ IF row # None /\ row.pid = m.pid /\ row.ref = m.ref
     THEN monitors' = (monitors \ {m}) \cup {[m EXCEPT !.matched = TRUE]}
     ELSE monitors' = monitors \ {m}
  /\ UNCHANGED <<row, alive, pc, tries, saw, ref, claims>>

MonitorDelete(m) ==
  /\ m.matched
  /\ row' = None
  /\ monitors' = monitors \ {m}
  /\ UNCHANGED <<alive, pc, tries, saw, ref, claims>>

-----------------------------------------------------------------------------
\* What a process does by itself once it has called acquire or release.
Step(p) ==
  \/ InsertNew(p) \/ InsertRefused(p) \/ MonitorAndReturn(p)
  \/ PreemptLookup(p) \/ PreemptInsert(p)
  \/ ReclaimLookup(p) \/ ReclaimAlive(p) \/ ReclaimDelete(p)
  \/ Retry(p) \/ Timeout(p)
  \/ ReleaseLookup(p) \/ ReleaseDelete(p)

Next ==
  \/ \E p \in Procs : Step(p) \/ Acquire(p) \/ Release(p) \/ Exit(p) \/ Kill(p)
  \/ \E m \in monitors : MonitorDown(m) \/ MonitorDelete(m)

Spec == Init /\ [][Next]_vars

\* The scheduler of the BEAM runs every runnable process: a call once made goes
\* on, and a monitor whose holder is dead gets its :DOWN.  Nobody is obliged to
\* call, to release, or to die.
Fairness ==
  /\ \A p \in Procs : WF_vars(Step(p))
  /\ \A p \in Procs, r \in Refs, b \in BOOLEAN :
       LET m == [pid |-> p, ref |-> r, matched |-> b]
       IN  WF_vars(m \in monitors /\ (MonitorDown(m) \/ MonitorDelete(m)))

FairSpec == Spec /\ Fairness
-----------------------------------------------------------------------------
(* Properties *)

TypeOK ==
  /\ row \in Row \cup {None}
  /\ alive \in [Procs -> BOOLEAN]
  /\ pc \in [Procs -> Steps]
  /\ tries \in [Procs -> 0 .. MaxTries]
  /\ saw \in [Procs -> Procs \cup {None}]
  /\ ref \in [Procs -> Refs \cup {None}]
  /\ claims \in [Procs -> BOOLEAN]
  /\ monitors \subseteq Monitor

\* No lock is leaked by a live process: whatever the interleaving of releases,
\* preemptions, reclaims and monitors, the row of a live process is one it
\* believes it holds, is just about to be told it holds, or is giving back.
NoLeakedLock ==
  \A p \in Procs :
    Holds(p) /\ alive[p] =>
      claims[p] \/ pc[p] \in {"monitor", "release_lookup", "release_delete"}

\* "The lock is automatically released if the holding process dies (monitored)":
\* the row of a live holder whose acquire has passed monitor_holder is watched by
\* a monitor that compares with this very acquisition, so a stale monitor of an
\* earlier acquisition is never what the release depends on.
HolderIsWatched ==
  \A p \in Procs :
    Holds(p) /\ alive[p] /\ pc[p] # "monitor" =>
      [pid |-> p, ref |-> row.ref, matched |-> FALSE] \in monitors

\* A process that dies once it is watched loses its row without anybody's help.
DeadRow == row # None /\ ~ alive[row.pid]

CrashedHolderIsReleased ==
  \A r \in Refs :
    (DeadRow /\ row.ref = r /\ \E m \in monitors : m.pid = row.pid /\ m.ref = r)
      ~> ~ (row # None /\ row.ref = r)

\* A process that was killed between the insert and monitor_holder leaves a row no
\* monitor will take away; the next process that wants the resource does.
ContenderReclaimsDeadRow ==
  \A p \in Procs : (DeadRow /\ alive[p] /\ pc[p] = "insert_new") ~> (~ DeadRow \/ ~ alive[p])

\* "Acquire an exclusive lock on a resource": two processes never both think they hold it.
Exclusive == \A p, q \in Procs : claims[p] /\ claims[q] => p = q

\* The row says who has the lock, whether or not that process still lives.
Lock == INSTANCE ExclusiveLock WITH
          Nobody <- None,
          holder <- IF row = None THEN None ELSE row.pid,
          using <- {p \in Procs : claims[p]},
          live <- {p \in Procs : alive[p]}

\* What callers see of the table is an exclusive lock: `ResourceLock_proofs` says while what.
ImplementsExclusiveLock == Lock!Spec
=============================================================================
