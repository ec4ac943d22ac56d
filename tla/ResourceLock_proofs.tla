------------------------ MODULE ResourceLock_proofs ------------------------
(***************************************************************************)
(* Proofs about ResourceLock for any number of processes, references and   *)
(* attempts.                                                               *)
(***************************************************************************)
EXTENDS ResourceLock, TLAPS

\* Every part of a call to acquire that may still store the row.
Acquiring == {"insert_new", "monitor", "preempt_lookup", "preempt_insert",
              "reclaim_lookup", "reclaim_alive", "reclaim_delete", "retry"}

\* The table distinguishes a row from none.
LEMMA RowIsARow ==
  ASSUME NEW p \in Procs, NEW r \in Refs
  PROVE  RowOf(p, r) \in Row /\ RowOf(p, r) # None
<1>1. (p \in Main) \in BOOLEAN
  OBVIOUS
<1>2. RowOf(p, r) \in Row
  BY <1>1, Zenon DEF RowOf, Row
<1> QED
  BY <1>2, ProcsAssumption

\* TypeOK is not inductive: the row stores ref[p], which is a reference only while
\* the call lasts.
TypeInv ==
  /\ TypeOK
  /\ \A p \in Procs : pc[p] \in Acquiring => ref[p] \in Refs

LEMMA InitTypeInv == Init => TypeInv
  BY ProcsAssumption DEF Init, TypeInv, TypeOK, Steps, Acquiring

LEMMA NextTypeInv == TypeInv /\ [Next]_vars => TypeInv'
<1> SUFFICES ASSUME TypeInv, [Next]_vars PROVE TypeInv'
  OBVIOUS
<1>0. ASSUME NEW p \in Procs, MonitorAndReturn(p) PROVE ref[p] \in Refs
  BY <1>0 DEF TypeInv, Acquiring, MonitorAndReturn, Goto
<1> USE ProcsAssumption DEF TypeInv, TypeOK, Steps, Acquiring, Goto
<1>1. ASSUME NEW p \in Procs, Acquire(p) PROVE TypeInv'
  BY <1>1 DEF Acquire, FreshRefs
<1>2. ASSUME NEW p \in Procs, InsertNew(p) PROVE TypeInv'
  BY <1>2 DEF InsertNew, RowOf, Row
<1>3. ASSUME NEW p \in Procs, InsertRefused(p) PROVE TypeInv'
  BY <1>3 DEF InsertRefused
<1>4. ASSUME NEW p \in Procs, MonitorAndReturn(p) PROVE TypeInv'
  <2>1. [pid |-> p, ref |-> ref[p], matched |-> FALSE] \in Monitor
    BY <1>0, <1>4 DEF Monitor
  <2>2. monitors' \subseteq Monitor
    BY <1>4, <2>1 DEF MonitorAndReturn, SpawnMonitor
  <2> QED
    BY <1>4, <2>2 DEF MonitorAndReturn
<1>5. ASSUME NEW p \in Procs, PreemptLookup(p) PROVE TypeInv'
  BY <1>5 DEF PreemptLookup, Preemptible, Row
<1>6. ASSUME NEW p \in Procs, PreemptInsert(p) PROVE TypeInv'
  BY <1>6 DEF PreemptInsert, RowOf, Row
<1>7. ASSUME NEW p \in Procs, ReclaimLookup(p) PROVE TypeInv'
  BY <1>7 DEF ReclaimLookup, Row
<1>8. ASSUME NEW p \in Procs, ReclaimAlive(p) PROVE TypeInv'
  BY <1>8 DEF ReclaimAlive
<1>9. ASSUME NEW p \in Procs, ReclaimDelete(p) PROVE TypeInv'
  BY <1>9 DEF ReclaimDelete
<1>10. ASSUME NEW p \in Procs, Retry(p) PROVE TypeInv'
  BY <1>10 DEF Retry
<1>11. ASSUME NEW p \in Procs, Timeout(p) PROVE TypeInv'
  BY <1>11 DEF Timeout
<1>12. ASSUME NEW p \in Procs, Release(p) PROVE TypeInv'
  BY <1>12 DEF Release
<1>13. ASSUME NEW p \in Procs, ReleaseLookup(p) PROVE TypeInv'
  BY <1>13 DEF ReleaseLookup
<1>14. ASSUME NEW p \in Procs, ReleaseDelete(p) PROVE TypeInv'
  BY <1>14 DEF ReleaseDelete
<1>15. ASSUME NEW p \in Procs, End(p) PROVE TypeInv'
  BY <1>15 DEF End
<1>16. ASSUME NEW m \in monitors, MonitorDown(m) PROVE TypeInv'
  <2>1. [m EXCEPT !.matched = TRUE] \in Monitor
    BY DEF Monitor
  <2>2. monitors' \subseteq Monitor
    BY <1>16, <2>1 DEF MonitorDown
  <2> QED
    BY <1>16, <2>2 DEF MonitorDown
<1>17. ASSUME NEW m \in monitors, MonitorDelete(m) PROVE TypeInv'
  BY <1>17 DEF MonitorDelete
<1>18. CASE UNCHANGED vars
  BY <1>18 DEF vars
<1> QED
  BY <1>1, <1>2, <1>3, <1>4, <1>5, <1>6, <1>7, <1>8, <1>9, <1>10, <1>11, <1>12,
     <1>13, <1>14, <1>15, <1>16, <1>17, <1>18 DEF Next, Step, Exit, Kill

\* Type correctness, in every environment.
THEOREM TypeCorrect == Spec => []TypeOK
<1>1. Spec => []TypeInv
  BY InitTypeInv, NextTypeInv, PTL DEF Spec
<1> QED
  BY <1>1, PTL DEF TypeInv

-----------------------------------------------------------------------------
(***************************************************************************)
(* Whoever dies and whenever: no live process leaks the lock, and every    *)
(* live holder is watched.  The second needs to know which reference the   *)
(* row carries while its monitor is about to be spawned.                   *)
(***************************************************************************)
RowRef ==
  \A p \in Procs : Holds(p) /\ pc[p] = "monitor" => row.ref = ref[p]

CrashInv == TypeInv /\ NoLeakedLock /\ HolderIsWatched /\ RowRef

LEMMA InitCrashInv == Init => CrashInv
  BY InitTypeInv DEF Init, CrashInv, NoLeakedLock, HolderIsWatched, RowRef, Holds

LEMMA NextCrashInv == CrashInv /\ [Next]_vars => CrashInv'
<1> SUFFICES ASSUME CrashInv, [Next]_vars
             PROVE  NoLeakedLock' /\ HolderIsWatched' /\ RowRef'
  BY NextTypeInv DEF CrashInv
<1> USE ProcsAssumption DEF CrashInv, TypeInv, TypeOK, NoLeakedLock, HolderIsWatched,
        RowRef, Holds, Goto
<1> DEFINE Goal == NoLeakedLock' /\ HolderIsWatched' /\ RowRef'
<1>1. ASSUME NEW p \in Procs, Acquire(p) PROVE Goal
  BY <1>1 DEF Acquire
<1>2. ASSUME NEW p \in Procs, InsertNew(p) PROVE Goal
  BY <1>2 DEF InsertNew, RowOf
<1>3. ASSUME NEW p \in Procs, InsertRefused(p) PROVE Goal
  BY <1>3 DEF InsertRefused
<1>4. ASSUME NEW p \in Procs, MonitorAndReturn(p) PROVE Goal
  BY <1>4 DEF MonitorAndReturn, SpawnMonitor
<1>5. ASSUME NEW p \in Procs, PreemptLookup(p) PROVE Goal
  BY <1>5 DEF PreemptLookup, Preemptible
<1>6. ASSUME NEW p \in Procs, PreemptInsert(p) PROVE Goal
  BY <1>6 DEF PreemptInsert, RowOf
<1>7. ASSUME NEW p \in Procs, ReclaimLookup(p) PROVE Goal
  BY <1>7 DEF ReclaimLookup
<1>8. ASSUME NEW p \in Procs, ReclaimAlive(p) PROVE Goal
  BY <1>8 DEF ReclaimAlive
<1>9. ASSUME NEW p \in Procs, ReclaimDelete(p) PROVE Goal
  BY <1>9 DEF ReclaimDelete
<1>10. ASSUME NEW p \in Procs, Retry(p) PROVE Goal
  BY <1>10 DEF Retry
<1>11. ASSUME NEW p \in Procs, Timeout(p) PROVE Goal
  BY <1>11 DEF Timeout
<1>12. ASSUME NEW p \in Procs, Release(p) PROVE Goal
  BY <1>12 DEF Release
<1>13. ASSUME NEW p \in Procs, ReleaseLookup(p) PROVE Goal
  BY <1>13 DEF ReleaseLookup
<1>14. ASSUME NEW p \in Procs, ReleaseDelete(p) PROVE Goal
  BY <1>14 DEF ReleaseDelete
<1>15. ASSUME NEW p \in Procs, End(p) PROVE Goal
  BY <1>15 DEF End
<1>16. ASSUME NEW m \in monitors, MonitorDown(m) PROVE Goal
  BY <1>16 DEF MonitorDown, Monitor
<1>17. ASSUME NEW m \in monitors, MonitorDelete(m) PROVE Goal
  BY <1>17 DEF MonitorDelete
<1>18. CASE UNCHANGED vars
  BY <1>18 DEF vars
<1> QED
  BY <1>1, <1>2, <1>3, <1>4, <1>5, <1>6, <1>7, <1>8, <1>9, <1>10, <1>11, <1>12,
     <1>13, <1>14, <1>15, <1>16, <1>17, <1>18 DEF Next, Step, Exit, Kill

\* A live process never leaves its row behind, in every environment.
THEOREM NoLeak == Spec => []NoLeakedLock
<1>1. Spec => []CrashInv
  BY InitCrashInv, NextCrashInv, PTL DEF Spec
<1> QED
  BY <1>1, PTL DEF CrashInv

\* The death of a live holder that has passed monitor_holder will be noticed.
THEOREM Watched == Spec => []HolderIsWatched
<1>1. Spec => []CrashInv
  BY InitCrashInv, NextCrashInv, PTL DEF Spec
<1> QED
  BY <1>1, PTL DEF CrashInv
-----------------------------------------------------------------------------
(***************************************************************************)
(* In every environment, whatever the priorities and whoever dies: the     *)
(* only way to lose exclusion is that somebody else takes the row of a     *)
(* process that lives, as a preemption does on purpose, and a reclaim or a *)
(* monitor does when it deletes by key after its own row was replaced.  A  *)
(* release never does.                                                     *)
(***************************************************************************)
LiveRowTaken ==
  /\ row # None /\ alive[row.pid]
  /\ \/ \E p \in Procs : PreemptInsert(p) \/ ReclaimDelete(p)
     \/ \E m \in monitors : MonitorDelete(m)

\* Until then who claims the lock, is about to or is about to delete the row has it.
HolderInv ==
  /\ \A p \in Procs : claims[p] => pc[p] = "idle"
  /\ \A p \in Procs : claims[p] \/ pc[p] \in {"monitor", "release_delete"} =>
                        Holds(p) /\ alive[p]
  /\ \A m \in monitors : m.matched => ~ alive[m.pid]

LEMMA InitHolderInv == Init => HolderInv
  BY DEF Init, HolderInv

LEMMA NextHolderInv ==
  TypeInv /\ HolderInv /\ [Next]_vars /\ [~ LiveRowTaken]_vars => HolderInv'
<1>0. TypeInv /\ HolderInv /\ UNCHANGED vars => HolderInv'
  BY DEF HolderInv, Holds, vars
<1> SUFFICES ASSUME TypeInv, HolderInv, Next, ~ LiveRowTaken PROVE HolderInv'
  BY <1>0
<1> USE ProcsAssumption DEF TypeInv, TypeOK, HolderInv, Holds, Goto
<1>1. ASSUME NEW p \in Procs, Acquire(p) PROVE HolderInv'
  BY <1>1 DEF Acquire
<1>2. ASSUME NEW p \in Procs, InsertNew(p) PROVE HolderInv'
  <2>1. row' # None
    BY <1>2, RowIsARow DEF InsertNew, Acquiring
  <2>2. \A q \in Procs : ~ (claims[q] \/ pc[q] \in {"monitor", "release_delete"})
    BY <1>2 DEF InsertNew
  <2> QED
    BY <1>2, <2>1, <2>2 DEF InsertNew, RowOf
<1>3. ASSUME NEW p \in Procs, InsertRefused(p) PROVE HolderInv'
  BY <1>3 DEF InsertRefused
<1>4. ASSUME NEW p \in Procs, MonitorAndReturn(p) PROVE HolderInv'
  BY <1>4 DEF MonitorAndReturn, SpawnMonitor
<1>5. ASSUME NEW p \in Procs, PreemptLookup(p) PROVE HolderInv'
  BY <1>5 DEF PreemptLookup, Preemptible
<1>6. ASSUME NEW p \in Procs, PreemptInsert(p) PROVE HolderInv'
  <2>1. row' # None
    BY <1>6, RowIsARow DEF PreemptInsert, Acquiring
  <2>2. \A q \in Procs : ~ (claims[q] \/ pc[q] \in {"monitor", "release_delete"})
    BY <1>6 DEF LiveRowTaken
  <2> QED
    BY <1>6, <2>1, <2>2 DEF PreemptInsert, RowOf
<1>7. ASSUME NEW p \in Procs, ReclaimLookup(p) PROVE HolderInv'
  BY <1>7 DEF ReclaimLookup
<1>8. ASSUME NEW p \in Procs, ReclaimAlive(p) PROVE HolderInv'
  BY <1>8 DEF ReclaimAlive
<1>9. ASSUME NEW p \in Procs, ReclaimDelete(p) PROVE HolderInv'
  <2>1. \A q \in Procs : ~ (claims[q] \/ pc[q] \in {"monitor", "release_delete"})
    BY <1>9 DEF LiveRowTaken
  <2> QED
    BY <1>9, <2>1 DEF ReclaimDelete
<1>10. ASSUME NEW p \in Procs, Retry(p) PROVE HolderInv'
  BY <1>10 DEF Retry
<1>11. ASSUME NEW p \in Procs, Timeout(p) PROVE HolderInv'
  BY <1>11 DEF Timeout
<1>12. ASSUME NEW p \in Procs, Release(p) PROVE HolderInv'
  BY <1>12 DEF Release
<1>13. ASSUME NEW p \in Procs, ReleaseLookup(p) PROVE HolderInv'
  BY <1>13 DEF ReleaseLookup
<1>14. ASSUME NEW p \in Procs, ReleaseDelete(p) PROVE HolderInv'
  BY <1>14 DEF ReleaseDelete
<1>15. ASSUME NEW p \in Procs, End(p) PROVE HolderInv'
  BY <1>15 DEF End
<1>16. ASSUME NEW m \in monitors, MonitorDown(m) PROVE HolderInv'
  BY <1>16 DEF MonitorDown, Monitor
<1>17. ASSUME NEW m \in monitors, MonitorDelete(m) PROVE HolderInv'
  <2>1. \A q \in Procs : ~ (claims[q] \/ pc[q] \in {"monitor", "release_delete"})
    BY <1>17 DEF LiveRowTaken
  <2> QED
    BY <1>17, <2>1 DEF MonitorDelete
<1> QED
  BY <1>1, <1>2, <1>3, <1>4, <1>5, <1>6, <1>7, <1>8, <1>9, <1>10, <1>11, <1>12,
     <1>13, <1>14, <1>15, <1>16, <1>17 DEF Next, Step, Exit, Kill

\* Two processes both think they hold the resource only after the row of a live process
\* was taken by another: for any number of processes, priorities, deaths and attempts.
THEOREM ExclusionIsLostByTheRow == Spec /\ [][~ LiveRowTaken]_vars => []Exclusive
<1>1. HolderInv => Exclusive
  BY DEF HolderInv, Exclusive, Holds
<1> QED
  BY <1>1, InitTypeInv, NextTypeInv, InitHolderInv, NextHolderInv, PTL DEF Spec

-----------------------------------------------------------------------------
\* In the same environment every ETS call, and every death, is a step of the abstract
\* lock or none: a row that is taken, by key or by an insert, is that of a dead process.
holderBar == IF row = None THEN None ELSE row.pid
usingBar == {p \in Procs : claims[p]}
liveBar == {p \in Procs : alive[p]}
barVars == <<holderBar, usingBar, liveBar>>

LEMMA StepRefinement ==
  ASSUME TypeInv, HolderInv, [Next]_vars, [~ LiveRowTaken]_vars
  PROVE  [Lock!Next]_barVars
<1>0. CASE UNCHANGED vars
  BY <1>0 DEF vars, barVars, holderBar, usingBar, liveBar
<1> SUFFICES ASSUME Next, ~ LiveRowTaken PROVE [Lock!Next]_barVars
  BY <1>0
<1> USE ProcsAssumption
    DEF TypeInv, TypeOK, HolderInv, Holds, Goto, holderBar, usingBar, liveBar, barVars,
        Lock!Next, Lock!Unheld, Lock!Take, Lock!Enter, Lock!Leave, Lock!GiveUp, Lock!Die,
        Lock!Recover
<1>1. ASSUME NEW p \in Procs, InsertNew(p) PROVE Lock!Take(p)
  <2>1. row' # None
    BY <1>1, RowIsARow DEF InsertNew, Acquiring
  <2> QED
    BY <1>1, <2>1 DEF InsertNew, RowOf
<1>2. ASSUME NEW p \in Procs, PreemptInsert(p) PROVE Lock!Take(p)
  <2>1. row' # None /\ row'.pid = p
    BY <1>2, RowIsARow DEF PreemptInsert, Acquiring, RowOf
  <2>2. row = None \/ ~ alive[row.pid]
    BY <1>2 DEF LiveRowTaken
  <2> QED
    BY <1>2, <2>1, <2>2 DEF PreemptInsert
<1>3. ASSUME NEW p \in Procs, MonitorAndReturn(p) PROVE Lock!Enter(p)
  BY <1>3 DEF MonitorAndReturn
<1>4. ASSUME NEW p \in Procs, Release(p) PROVE Lock!Leave(p)
  BY <1>4 DEF Release
<1>5. ASSUME NEW p \in Procs, ReleaseDelete(p) PROVE Lock!GiveUp(p)
  BY <1>5 DEF ReleaseDelete
<1>6. ASSUME NEW p \in Procs, ReclaimDelete(p) PROVE Lock!Recover
  <2>1. row = None \/ ~ alive[row.pid]
    BY <1>6 DEF LiveRowTaken
  <2> QED
    BY <1>6, <2>1 DEF ReclaimDelete
<1>7. ASSUME NEW m \in monitors, MonitorDelete(m) PROVE Lock!Recover
  <2>1. row = None \/ ~ alive[row.pid]
    BY <1>7 DEF LiveRowTaken
  <2> QED
    BY <1>7, <2>1 DEF MonitorDelete
<1>8. ASSUME NEW p \in Procs, End(p) PROVE Lock!Die(p)
  BY <1>8 DEF End
<1>9. ASSUME NEW p \in Procs,
             \/ InsertRefused(p) \/ PreemptLookup(p) \/ ReclaimLookup(p) \/ ReclaimAlive(p)
             \/ Retry(p) \/ Timeout(p) \/ ReleaseLookup(p) \/ Acquire(p)
      PROVE  UNCHANGED barVars
  BY <1>9 DEF InsertRefused, PreemptLookup, ReclaimLookup, ReclaimAlive,
              Retry, Timeout, ReleaseLookup, Acquire
<1>10. ASSUME NEW m \in monitors, MonitorDown(m) PROVE UNCHANGED barVars
  BY <1>10 DEF MonitorDown
<1> QED
  BY <1>1, <1>2, <1>3, <1>4, <1>5, <1>6, <1>7, <1>8, <1>9, <1>10
  DEF Next, Step, Exit, Kill

\* The table, written without a server, implements the abstract lock and recovers it from
\* holders that die, for any priorities, attempts and deaths, up to the first time the row
\* of a live process is taken.
THEOREM Refinement == Spec /\ [][~ LiveRowTaken]_vars => ImplementsExclusiveLock
<1>1. Init => Lock!Init
  BY DEF Init, Lock!Init
<1>2. TypeInv /\ HolderInv /\ [Next]_vars /\ [~ LiveRowTaken]_vars =>
        [Lock!Next]_<<IF row = None THEN None ELSE row.pid, {p \in Procs : claims[p]},
                      {p \in Procs : alive[p]}>>
  BY StepRefinement DEF barVars, holderBar, usingBar, liveBar
<1> QED
  BY <1>1, <1>2, InitTypeInv, NextTypeInv, InitHolderInv, NextHolderInv, PTL
  DEF Spec, ImplementsExclusiveLock, Lock!Spec

-----------------------------------------------------------------------------
(***************************************************************************)
(* When that does not happen.  The callers that compete for one name have  *)
(* one priority: BtwServers, all :btw, for "browser" and Workers, all      *)
(* :main, for a repository.  They end, and may be killed, at any time.     *)
(***************************************************************************)
SamePriority == Main = {} \/ Main = Procs

\* An acquisition falls between the lookup of a contender, or of a monitor, and what that
\* one does with what it saw.
InsertMeetsDelete ==
  /\ \E p \in Procs : InsertNew(p)
  /\ \/ \E q \in Procs : pc[q] \in {"reclaim_alive", "reclaim_delete"}
     \/ \E m \in monitors : m.matched

\* Who is about to delete by key finds no row, or the row of a dead process; who asks
\* whether a process is alive finds no row, or the row of that process.
WindowInv ==
  /\ row # None => row.main = (row.pid \in Main)
  /\ \A p \in Procs : pc[p] # "preempt_insert" /\ (pc[p] = "preempt_lookup" => p \in Main)
  /\ \A p \in Procs : pc[p] = "reclaim_alive" =>
                        saw[p] \in Procs /\ (row = None \/ row.pid = saw[p])
  /\ (\/ \E p \in Procs : pc[p] = "reclaim_delete"
      \/ \E m \in monitors : m.matched) => row = None \/ ~ alive[row.pid]

LEMMA InitWindowInv == Init => WindowInv
  BY DEF Init, WindowInv

LEMMA NextWindowInv ==
  ASSUME SamePriority
  PROVE  TypeInv /\ WindowInv /\ [Next]_vars /\ [~ InsertMeetsDelete]_vars => WindowInv'
<1>0. WindowInv /\ UNCHANGED vars => WindowInv'
  BY DEF WindowInv, vars
<1> SUFFICES ASSUME TypeInv, WindowInv, Next, ~ InsertMeetsDelete PROVE WindowInv'
  BY <1>0
<1> USE ProcsAssumption, SamePriority DEF SamePriority, TypeInv, TypeOK, WindowInv, Goto
<1>1. ASSUME NEW p \in Procs, Acquire(p) PROVE WindowInv'
  BY <1>1 DEF Acquire
<1>2. ASSUME NEW p \in Procs, InsertNew(p) PROVE WindowInv'
  <2>1. /\ \A q \in Procs : pc[q] \notin {"reclaim_alive", "reclaim_delete"}
        /\ \A m \in monitors : ~ m.matched
    BY <1>2 DEF InsertMeetsDelete
  <2> QED
    BY <1>2, <2>1 DEF InsertNew, RowOf
<1>3. ASSUME NEW p \in Procs, InsertRefused(p) PROVE WindowInv'
  BY <1>3 DEF InsertRefused
<1>4. ASSUME NEW p \in Procs, MonitorAndReturn(p) PROVE WindowInv'
  BY <1>4 DEF MonitorAndReturn, SpawnMonitor
<1>5. ASSUME NEW p \in Procs, PreemptLookup(p) PROVE WindowInv'
  BY <1>5 DEF PreemptLookup, Preemptible, Row
<1>6. ASSUME NEW p \in Procs, PreemptInsert(p) PROVE WindowInv'
  BY <1>6 DEF PreemptInsert
<1>7. ASSUME NEW p \in Procs, ReclaimLookup(p) PROVE WindowInv'
  BY <1>7 DEF ReclaimLookup, Row
<1>8. ASSUME NEW p \in Procs, ReclaimAlive(p) PROVE WindowInv'
  BY <1>8 DEF ReclaimAlive
<1>9. ASSUME NEW p \in Procs, ReclaimDelete(p) PROVE WindowInv'
  BY <1>9 DEF ReclaimDelete
<1>10. ASSUME NEW p \in Procs, Retry(p) PROVE WindowInv'
  BY <1>10 DEF Retry
<1>11. ASSUME NEW p \in Procs, Timeout(p) PROVE WindowInv'
  BY <1>11 DEF Timeout
<1>12. ASSUME NEW p \in Procs, Release(p) PROVE WindowInv'
  BY <1>12 DEF Release
<1>13. ASSUME NEW p \in Procs, ReleaseLookup(p) PROVE WindowInv'
  BY <1>13 DEF ReleaseLookup
<1>14. ASSUME NEW p \in Procs, ReleaseDelete(p) PROVE WindowInv'
  BY <1>14 DEF ReleaseDelete
<1>15. ASSUME NEW p \in Procs, End(p) PROVE WindowInv'
  BY <1>15 DEF End, Row
<1>16. ASSUME NEW m \in monitors, MonitorDown(m) PROVE WindowInv'
  BY <1>16 DEF MonitorDown, Monitor
<1>17. ASSUME NEW m \in monitors, MonitorDelete(m) PROVE WindowInv'
  BY <1>17 DEF MonitorDelete
<1> QED
  BY <1>1, <1>2, <1>3, <1>4, <1>5, <1>6, <1>7, <1>8, <1>9, <1>10, <1>11, <1>12,
     <1>13, <1>14, <1>15, <1>16, <1>17 DEF Next, Step, Exit, Kill

\* Among callers of one priority the row of a live process is taken only when somebody
\* acquires while a contender or a monitor acts on an older lookup, however the callers
\* release, end and are killed; outside that window they exclude one another.
THEOREM ExclusiveOutsideTheWindow ==
  ASSUME SamePriority
  PROVE  Spec /\ [][~ InsertMeetsDelete]_vars => [][~ LiveRowTaken]_vars /\ []Exclusive
<1>1. TypeInv /\ WindowInv /\ [Next]_vars => [~ LiveRowTaken]_vars
  BY DEF WindowInv, LiveRowTaken, PreemptInsert, ReclaimDelete, MonitorDelete, Goto
<1>2. Spec /\ [][~ InsertMeetsDelete]_vars => [][~ LiveRowTaken]_vars
  BY <1>1, InitTypeInv, NextTypeInv, InitWindowInv, NextWindowInv, PTL DEF Spec
<1> QED
  BY <1>2, ExclusionIsLostByTheRow, PTL
=============================================================================
