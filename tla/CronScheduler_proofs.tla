------------------------ MODULE CronScheduler_proofs ------------------------
(***************************************************************************)
(* Proofs about CronScheduler, for any number of jobs and callers, any     *)
(* schedules and any number of faults.                                     *)
(***************************************************************************)
EXTENDS CronScheduler, TLAPS

(* The parts of the state that refer to one another are maps with a domain *)
(* of their own; what Put, Without and Update do to them.                  *)

LEMMA PutType ==
  ASSUME NEW f, NEW S, f \in [DOMAIN f -> S], NEW x, NEW v \in S
  PROVE  /\ Put(f, x, v) \in [DOMAIN Put(f, x, v) -> S]
         /\ DOMAIN Put(f, x, v) = DOMAIN f \cup {x}
         /\ Put(f, x, v)[x] = v
         /\ \A y \in DOMAIN f : y # x => Put(f, x, v)[y] = f[y]
BY DEF Put

LEMMA WithoutType ==
  ASSUME NEW f, NEW S, f \in [DOMAIN f -> S], NEW x
  PROVE  /\ Without(f, x) \in [DOMAIN Without(f, x) -> S]
         /\ DOMAIN Without(f, x) = DOMAIN f \ {x}
         /\ \A y \in DOMAIN f \ {x} : Without(f, x)[y] = f[y]
BY DEF Without

LEMMA UpdateType ==
  ASSUME NEW S, jobs \in [DOMAIN jobs -> S], NEW id, NEW row \in S
  PROVE  /\ Update(id, row) \in [DOMAIN jobs -> S]
         /\ DOMAIN Update(id, row) = DOMAIN jobs
         /\ id \in DOMAIN jobs => Update(id, row)[id] = row
         /\ \A y \in DOMAIN jobs : y # id => Update(id, row)[y] = jobs[y]
BY DEF Update

(* Schedules: a recurring one moves forward, and an exhausted one stays so. *)

LEMMA NextRunIsATime ==
  ASSUME CronAssumption, NEW s \in Schedules, NEW from \in Nat, NEW n \in NextRun(s, from)
  PROVE  n \in Nat /\ (s.kind # "at" => n > from)
<1>1. CASE s.kind = "at"
  BY <1>1 DEF NextRun, CronAssumption, ScheduleKinds
<1>2. CASE s.kind = "every"
  <2>1. s.every \in Nat \ {0} BY <1>2 DEF CronAssumption, ScheduleKinds
  <2>2. n = from + s.every BY <1>2 DEF NextRun
  <2> QED BY <2>1, <2>2
<1>3. CASE s.kind = "cron"
  <2>1. s.times \subseteq Nat BY <1>3 DEF CronAssumption, ScheduleKinds
  <2>2. n \in s.times /\ n > from BY <1>3 DEF NextRun
  <2> QED BY <2>1, <2>2
<1> QED BY <1>1, <1>2, <1>3 DEF CronAssumption, ScheduleKinds

LEMMA EndlessStays ==
  ASSUME CronAssumption, NEW job \in Row, NEW t \in Nat, NEW u \in Nat, t <= u, Endless(job, t)
  PROVE  Endless(job, u)
<1>1. CASE Exhausted(job.schedule, t)
  <2>1. job.schedule.times \subseteq Nat
    BY <1>1 DEF Exhausted, Row, CronAssumption, ScheduleKinds
  <2> QED BY <1>1, <2>1 DEF Exhausted, Endless
<1> QED BY <1>1 DEF Endless

-----------------------------------------------------------------------------
(* Types                                                                   *)

LEMMA WithNewScheduleType ==
  ASSUME CronAssumption, now \in Nat, NEW row \in Row, NEW r \in WithNewSchedule(row)
  PROVE  r \in Row
<1>1. PICK s \in Schedules : \E n \in NextRun(s, now) :
        r = [row EXCEPT !.schedule = s, !.next_run = n]
  BY DEF WithNewSchedule
<1>2. PICK n \in NextRun(s, now) : r = [row EXCEPT !.schedule = s, !.next_run = n]
  BY <1>1
<1>3. n \in Nat BY <1>2, NextRunIsATime
<1> QED BY <1>2, <1>3 DEF Row

LEMMA TypeInit == CronAssumption /\ Init => TypeOK
BY DEF Init, TypeOK, Never, CronAssumption

LEMMA TypeNext == CronAssumption /\ TypeOK /\ [Next]_vars => TypeOK'
<1> SUFFICES ASSUME CronAssumption, TypeOK, [Next]_vars PROVE TypeOK' OBVIOUS
<1> USE DEF TypeOK
<1>0. CASE UNCHANGED vars BY <1>0 DEF vars
<1>1. CASE Tick BY <1>1 DEF Tick
<1>2. ASSUME NEW j \in Jobs, AddJob(j) PROVE TypeOK'
  <2>1. PICK s \in Schedules, d \in BOOLEAN : \E n \in NextRun(s, now) :
          jobs' = Put(jobs, j, [schedule |-> s, enabled |-> TRUE,
                                delete_after_run |-> d, next_run |-> n])
    BY <1>2 DEF AddJob
  <2>2. PICK n \in NextRun(s, now) :
          jobs' = Put(jobs, j, [schedule |-> s, enabled |-> TRUE,
                                delete_after_run |-> d, next_run |-> n])
    BY <2>1
  <2>3. [schedule |-> s, enabled |-> TRUE, delete_after_run |-> d, next_run |-> n] \in Row
    BY NextRunIsATime DEF Row
  <2> DEFINE v == [schedule |-> s, enabled |-> TRUE, delete_after_run |-> d, next_run |-> n]
  <2>4. jobs' \in [DOMAIN jobs' -> Row] /\ DOMAIN jobs' = DOMAIN jobs \cup {j}
    <3>1. jobs' = Put(jobs, j, v) /\ v \in Row BY <2>2, <2>3
    <3> HIDE DEF v
    <3>2. Put(jobs, j, v) \in [DOMAIN Put(jobs, j, v) -> Row] /\ DOMAIN Put(jobs, j, v) = DOMAIN jobs \cup {j}
      BY <3>1, PutType
    <3> QED BY <3>1, <3>2
  <2> QED BY <1>2, <2>4 DEF AddJob
<1>3. ASSUME NEW j \in Jobs, RemoveJob(j) PROVE TypeOK'
  <2>1. jobs' \in [DOMAIN jobs' -> Row] /\ DOMAIN jobs' = DOMAIN jobs \ {j}
    BY <1>3, WithoutType DEF RemoveJob
  <2> QED BY <1>3, <2>1 DEF RemoveJob
<1>4. ASSUME NEW c \in Callers, NEW j \in Jobs, UpdateRead(c, j) PROVE TypeOK'
  <2>1. PICK r \in {jobs[j]} \cup WithNewSchedule(jobs[j]), e \in BOOLEAN, d \in BOOLEAN :
          patches' = Put(patches, c, [id |-> j, read |-> jobs[j],
                                      row |-> [r EXCEPT !.enabled = e, !.delete_after_run = d]])
    BY <1>4 DEF UpdateRead
  <2> DEFINE row == [r EXCEPT !.enabled = e, !.delete_after_run = d]
  <2>2. jobs[j] \in Row /\ row \in Row
    <3>1. jobs[j] \in Row BY <1>4 DEF UpdateRead
    <3>2. r \in Row BY <2>1, <3>1, WithNewScheduleType
    <3> QED BY <3>1, <3>2 DEF Row
  <2>3. [id |-> j, read |-> jobs[j], row |-> row] \in Patch
    BY <2>2 DEF Patch
  <2> DEFINE v == [id |-> j, read |-> jobs[j], row |-> row]
  <2>4. patches' \in [DOMAIN patches' -> Patch] /\ DOMAIN patches' = DOMAIN patches \cup {c}
    <3>1. patches' = Put(patches, c, v) /\ v \in Patch BY <2>1, <2>3
    <3> HIDE DEF v
    <3>2. Put(patches, c, v) \in [DOMAIN Put(patches, c, v) -> Patch]
          /\ DOMAIN Put(patches, c, v) = DOMAIN patches \cup {c}
      BY <3>1, PutType
    <3> QED BY <3>1, <3>2
  <2> QED BY <1>4, <2>4 DEF UpdateRead
<1>5. ASSUME NEW c \in Callers, UpdateWrite(c) PROVE TypeOK'
  <2> DEFINE p == patches[c]
  <2>1. p \in Patch /\ p.id \in Jobs /\ p.row \in Row
    BY <1>5 DEF UpdateWrite, Patch
  <2>2. jobs' \in [DOMAIN jobs' -> Row] /\ DOMAIN jobs' = DOMAIN jobs
    <3>1. jobs' = Update(p.id, p.row) BY <1>5 DEF UpdateWrite
    <3>2. Update(p.id, p.row) \in [DOMAIN jobs -> Row] BY <2>1, UpdateType
    <3> QED BY <3>1, <3>2
  <2>3. patches' \in [DOMAIN patches' -> Patch] /\ DOMAIN patches' = DOMAIN patches \ {c}
    BY <1>5, WithoutType DEF UpdateWrite
  <2>4. served' \in [Jobs -> Nat \cup {Never}] /\ \A j \in Jobs : served'[j] \in {served[j], Never}
    BY <1>5, <2>1 DEF UpdateWrite
  <2> QED BY <1>5, <2>2, <2>3, <2>4 DEF UpdateWrite
<1>6. ASSUME NEW c \in Callers, UpdateDropped(c) PROVE TypeOK'
  <2>1. patches' \in [DOMAIN patches' -> Patch] /\ DOMAIN patches' = DOMAIN patches \ {c}
    BY <1>6, WithoutType DEF UpdateDropped
  <2> QED BY <1>6, <2>1 DEF UpdateDropped
<1>7. CASE Poll
  <2>1. PICK S \in SUBSET Due :
          batch' = [j \in S |-> [job |-> jobs[j], pc |-> "queued", ok |-> FALSE]]
    BY <1>7 DEF Poll
  <2>2. \A j \in S : [job |-> jobs[j], pc |-> "queued", ok |-> FALSE] \in Task
    BY DEF Due, Task
  <2>3. batch' \in [DOMAIN batch' -> Task] /\ DOMAIN batch' \subseteq DOMAIN jobs
    BY <2>1, <2>2 DEF Due
  <2> QED BY <1>7, <2>3 DEF Poll
<1>8. ASSUME NEW j \in Jobs, Start(j) PROVE TypeOK'
  <2>1. j \in DOMAIN batch /\ batch[j] \in Task
    BY <1>8 DEF Start, Queued
  <2>2. [batch[j] EXCEPT !.pc = "running"] \in Task BY <2>1 DEF Task
  <2>3. batch' \in [DOMAIN batch' -> Task] /\ DOMAIN batch' = DOMAIN batch
    BY <1>8, <2>2 DEF Start
  <2> QED BY <1>8, <2>3 DEF Start
<1>9. ASSUME NEW j \in Jobs, RunEnds(j) PROVE TypeOK'
  <2>1. j \in DOMAIN batch /\ batch[j].job \in Row /\ batch[j].job.next_run \in Nat
    BY <1>9 DEF RunEnds, Task, Row
  <2>2. \A ok \in BOOLEAN : [job |-> batch[j].job, pc |-> "ended", ok |-> ok] \in Task
    BY <2>1 DEF Task
  <2>3. batch' \in [DOMAIN batch' -> Task] /\ DOMAIN batch' = DOMAIN batch
    BY <1>9, <2>2 DEF RunEnds
  <2>4. served' \in [Jobs -> Nat \cup {Never}] /\ \A i \in Jobs \ {j} : served'[i] = served[i]
    BY <1>9, <2>1 DEF RunEnds
  <2> QED BY <1>9, <2>1, <2>3, <2>4 DEF RunEnds
<1>10. ASSUME NEW j \in Jobs, RemoveDone(j) PROVE TypeOK'
  <2>1. jobs' \in [DOMAIN jobs' -> Row] /\ DOMAIN jobs' = DOMAIN jobs \ {j}
    BY <1>10, WithoutType DEF RemoveDone
  <2>2. batch' \in [DOMAIN batch' -> Task] /\ DOMAIN batch' = DOMAIN batch \ {j}
    BY <1>10, WithoutType DEF RemoveDone
  <2> QED BY <1>10, <2>1, <2>2 DEF RemoveDone
<1>11. ASSUME NEW j \in Jobs, DisableRead(j) PROVE TypeOK'
  <2>1. ASSUME j \in DOMAIN jobs
        PROVE  [job |-> [jobs[j] EXCEPT !.enabled = FALSE], pc |-> "disabling", ok |-> FALSE] \in Task
    <3>1. [jobs[j] EXCEPT !.enabled = FALSE] \in Row BY <2>1 DEF Row
    <3> QED BY <3>1 DEF Task
  <2>2. DOMAIN Without(batch, j) = DOMAIN batch \ {j}
        /\ Without(batch, j) \in [DOMAIN Without(batch, j) -> Task]
    BY WithoutType
  <2>3. batch' \in [DOMAIN batch' -> Task] /\ DOMAIN batch' \subseteq DOMAIN batch
    BY <1>11, <2>1, <2>2 DEF DisableRead
  <2> QED BY <1>11, <2>3 DEF DisableRead
<1>12. ASSUME NEW j \in Jobs, DisableWrite(j) PROVE TypeOK'
  <2>1. batch[j].job \in Row BY <1>12 DEF DisableWrite, Task
  <2>2. jobs' \in [DOMAIN jobs' -> Row] /\ DOMAIN jobs' = DOMAIN jobs
    <3>1. jobs' = Update(j, batch[j].job) BY <1>12 DEF DisableWrite
    <3>2. Update(j, batch[j].job) \in [DOMAIN jobs -> Row] BY <2>1, UpdateType
    <3> QED BY <3>1, <3>2
  <2>3. batch' \in [DOMAIN batch' -> Task] /\ DOMAIN batch' = DOMAIN batch \ {j}
    BY <1>12, WithoutType DEF DisableWrite
  <2> QED BY <1>12, <2>2, <2>3 DEF DisableWrite
<1>13. ASSUME NEW j \in Jobs, Reschedule(j) PROVE TypeOK'
  <2>1. batch[j].job.schedule \in Schedules BY <1>13 DEF Reschedule, Ended, Task, Row
  <2>2. PICK n \in NextRun(batch[j].job.schedule, now) :
          jobs' = [y \in DOMAIN jobs |-> IF y = j THEN [jobs[y] EXCEPT !.next_run = n] ELSE jobs[y]]
    BY <1>13 DEF Reschedule
  <2>3. n \in Nat BY <2>1, <2>2, NextRunIsATime
  <2>4. \A y \in DOMAIN jobs : [jobs[y] EXCEPT !.next_run = n] \in Row BY <2>3 DEF Row
  <2>5. jobs' \in [DOMAIN jobs' -> Row] /\ DOMAIN jobs' = DOMAIN jobs BY <2>2, <2>4
  <2>6. batch' \in [DOMAIN batch' -> Task] /\ DOMAIN batch' = DOMAIN batch \ {j}
    BY <1>13, WithoutType DEF Reschedule
  <2>7. served' \in [Jobs -> Nat \cup {Never}] /\ \A i \in Jobs : served'[i] \in {served[i], Never}
    BY <1>13 DEF Reschedule
  <2> QED BY <1>13, <2>5, <2>6, <2>7 DEF Reschedule
<1>14. ASSUME NEW j \in Jobs, NothingToSchedule(j) \/ StoreFails(j) PROVE TypeOK'
  <2>1. batch' \in [DOMAIN batch' -> Task] /\ DOMAIN batch' = DOMAIN batch \ {j}
    <3>1. batch' = Without(batch, j) BY <1>14 DEF NothingToSchedule, StoreFails
    <3> QED BY <3>1, WithoutType
  <2>2. served' \in [Jobs -> Nat \cup {Never}] /\ \A i \in Jobs : served'[i] \in {served[i], Never}
    BY <1>14 DEF NothingToSchedule, StoreFails
  <2>3. UNCHANGED <<now, calls, jobs, used, patches>> /\ faults' \in Nat
    BY <1>14 DEF NothingToSchedule, StoreFails
  <2> QED BY <2>1, <2>2, <2>3
<1>15. CASE Restart
  BY <1>15 DEF Restart
<1> QED BY <1>0, <1>1, <1>2, <1>3, <1>4, <1>5, <1>6, <1>7, <1>8, <1>9, <1>10, <1>11, <1>12,
           <1>13, <1>14, <1>15 DEF Next, Work

\* Every reachable state is well typed: a removed job does not come back, the batch and
\* the patches speak of known jobs, and next_run is a time.
THEOREM TypeCorrect == CronAssumption => (Spec => []TypeOK)
<1> SUFFICES ASSUME CronAssumption PROVE Spec => []TypeOK OBVIOUS
<1>1. Init => TypeOK BY TypeInit
<1>2. TypeOK /\ [Next]_vars => TypeOK' BY TypeNext
<1> QED BY <1>1, <1>2, PTL DEF Spec

-----------------------------------------------------------------------------
(* Runs once per occurrence                                                *)

\* A run that is over was for a time that has come and that served remembers, unless it
\* was told to forget it; what is about to run was not run before, or has no other time.
TaskServed(j) ==
  j \in DOMAIN batch =>
    LET t == batch[j] IN
      /\ t.pc = "disabling" => ~ t.job.enabled
      /\ t.pc # "disabling" => t.job.next_run <= now
      /\ t.pc = "ended" => served[j] \in {Never, t.job.next_run}
      /\ t.pc \in {"queued", "running"} => t.job.next_run > served[j] \/ Endless(t.job, now)

\* The row of a job whose last run is dealt with leads to no second run for it.
RowServed(j) ==
  j \in DOMAIN jobs =>
    \/ ~ jobs[j].enabled
    \/ jobs[j].next_run > served[j]
    \/ Endless(jobs[j], now)
    \/ j \in DOMAIN batch /\ batch[j].pc \in {"ended", "disabling"}

ServedInv == \A j \in Jobs : TaskServed(j) /\ RowServed(j)

LEMMA ServedInit == Init => ServedInv
BY DEF Init, ServedInv, TaskServed, RowServed

\* A job that a step does not touch keeps its parts of the invariant.
LEMMA Untouched ==
  ASSUME NEW i \in Jobs, TaskServed(i), RowServed(i), now' = now, served'[i] = served[i],
         i \in DOMAIN jobs' <=> i \in DOMAIN jobs, i \in DOMAIN jobs => jobs'[i] = jobs[i],
         i \in DOMAIN batch' <=> i \in DOMAIN batch, i \in DOMAIN batch => batch'[i] = batch[i]
  PROVE  TaskServed(i)' /\ RowServed(i)'
BY DEF TaskServed, RowServed, Endless, Exhausted, IsOneShotAutoDelete

LEMMA ServedNext ==
  CronAssumption /\ TypeOK /\ TypeOK' /\ ServedInv /\ [Next]_vars => ServedInv'
<1> SUFFICES ASSUME CronAssumption, TypeOK, TypeOK', ServedInv, [Next]_vars, NEW i \in Jobs
             PROVE  TaskServed(i)' /\ RowServed(i)'
  BY DEF ServedInv
<1>a. TaskServed(i) /\ RowServed(i) BY DEF ServedInv
<1>t. /\ now \in Nat /\ served[i] \in Nat \cup {-1} /\ served'[i] \in Nat \cup {-1}
      /\ i \in DOMAIN jobs => jobs[i] \in Row /\ jobs[i].next_run \in Nat
      /\ i \in DOMAIN jobs' => jobs'[i] \in Row /\ jobs'[i].next_run \in Nat
      /\ i \in DOMAIN batch => batch[i] \in Task /\ batch[i].job \in Row /\ batch[i].job.next_run \in Nat
      /\ i \in DOMAIN batch' => batch'[i] \in Task /\ batch'[i].job \in Row
                                  /\ batch'[i].job.next_run \in Nat
  <2>1. now \in Nat /\ served[i] \in Nat \cup {-1} /\ served'[i] \in Nat \cup {-1}
    BY DEF TypeOK, Never
  <2>2. (i \in DOMAIN jobs => jobs[i] \in Row) /\ (i \in DOMAIN jobs' => jobs'[i] \in Row)
    BY DEF TypeOK
  <2>3. (i \in DOMAIN batch => batch[i] \in Task) /\ (i \in DOMAIN batch' => batch'[i] \in Task)
    BY DEF TypeOK
  <2> QED BY <2>1, <2>2, <2>3 DEF Row, Task
<1>0. CASE UNCHANGED vars BY <1>0, <1>a, Untouched DEF vars
<1>1. CASE Tick
  <2>1. now' = now + 1 /\ UNCHANGED <<jobs, batch, served>> BY <1>1 DEF Tick
  <2>2. ASSUME NEW job \in Row, Endless(job, now) PROVE Endless(job, now')
    BY <2>1, <2>2, <1>t, EndlessStays
  <2>3. TaskServed(i)'
    BY <1>a, <1>t, <2>1, <2>2 DEF TaskServed
  <2>4. RowServed(i)'
    BY <1>a, <1>t, <2>1, <2>2 DEF RowServed
  <2> QED BY <2>3, <2>4
<1>2. ASSUME NEW j \in Jobs, AddJob(j) PROVE TaskServed(i)' /\ RowServed(i)'
  <2>1. PICK row : jobs' = Put(jobs, j, row) /\ UNCHANGED <<now, batch, served>> /\ j \notin used
    BY <1>2 DEF AddJob
  <2>2. CASE i = j
    <3>1. served'[i] = -1 /\ i \notin DOMAIN batch' BY <2>1, <2>2 DEF TypeOK, Never
    <3>2. i \in DOMAIN jobs' => jobs'[i].next_run > served'[i] BY <3>1, <1>t
    <3> QED BY <3>1, <3>2 DEF TaskServed, RowServed
  <2>3. CASE i # j
    <3>1. DOMAIN jobs' = DOMAIN jobs \cup {j} /\ (i \in DOMAIN jobs => jobs'[i] = jobs[i])
      BY <2>1, <2>3 DEF Put
    <3> QED BY <1>a, <2>1, <2>3, <3>1, Untouched
  <2> QED BY <2>2, <2>3
<1>3. ASSUME NEW j \in Jobs, RemoveJob(j) PROVE TaskServed(i)' /\ RowServed(i)'
  <2>1. jobs' = Without(jobs, j) /\ UNCHANGED <<now, batch, served>> BY <1>3 DEF RemoveJob
  <2>2. DOMAIN jobs' = DOMAIN jobs \ {j} /\ (i \in DOMAIN jobs' => jobs'[i] = jobs[i])
    BY <2>1 DEF Without
  <2>3. TaskServed(i)' BY <1>a, <2>1 DEF TaskServed, Endless, Exhausted, IsOneShotAutoDelete
  <2>4. RowServed(i)' BY <1>a, <2>1, <2>2 DEF RowServed, Endless, Exhausted, IsOneShotAutoDelete
  <2> QED BY <2>3, <2>4
<1>4. ASSUME NEW c \in Callers, NEW j \in Jobs, UpdateRead(c, j) PROVE TaskServed(i)' /\ RowServed(i)'
  BY <1>4, <1>a, Untouched DEF UpdateRead
<1>5. ASSUME NEW c \in Callers, UpdateWrite(c) PROVE TaskServed(i)' /\ RowServed(i)'
  <2> DEFINE p == patches[c]
  <2>1. /\ jobs' = Update(p.id, p.row) /\ UNCHANGED <<now, batch>> /\ p \in Patch
        /\ served' = IF OnlyPauses(p) THEN served ELSE [served EXCEPT ![p.id] = Never]
    BY <1>5 DEF UpdateWrite, TypeOK
  <2>2. p.id \in Jobs /\ p.row \in Row /\ p.read \in Row BY <2>1 DEF Patch
  <2>3. CASE i # p.id
    <3>1. DOMAIN jobs' = DOMAIN jobs /\ (i \in DOMAIN jobs => jobs'[i] = jobs[i])
      BY <2>1, <2>3 DEF Update
    <3>2. served'[i] = served[i] BY <2>1, <2>2, <2>3 DEF TypeOK
    <3> QED BY <1>a, <2>1, <3>1, <3>2, Untouched
  <2>4. CASE i = p.id /\ ~ OnlyPauses(p)
    <3>1. served'[i] = -1 BY <2>1, <2>2, <2>4 DEF TypeOK, Never
    <3>2. i \in DOMAIN batch' => batch'[i].job.next_run > served'[i] BY <3>1, <1>t
    <3>3. i \in DOMAIN jobs' => jobs'[i].next_run > served'[i] BY <3>1, <1>t
    <3>4. TaskServed(i)' BY <1>a, <2>1, <3>1, <3>2 DEF TaskServed, Never
    <3> QED BY <3>3, <3>4 DEF RowServed
  <2>5. CASE i = p.id /\ OnlyPauses(p)
    <3>1. served'[i] = served[i] BY <2>1, <2>5
    <3>2. TaskServed(i)' BY <1>a, <2>1, <3>1 DEF TaskServed, Endless, Exhausted, IsOneShotAutoDelete
    <3>3. DOMAIN jobs' = DOMAIN jobs /\ (i \in DOMAIN jobs => jobs'[i] = p.row)
      BY <2>1, <2>5 DEF Update
    <3>4. i \in DOMAIN jobs => jobs'[i] = jobs[i] \/ ~ jobs'[i].enabled
      <4>1. ASSUME i \in DOMAIN jobs PROVE p.row = jobs[i] \/ p.row = [p.read EXCEPT !.enabled = FALSE]
        BY <2>5, <4>1 DEF OnlyPauses
      <4> QED BY <4>1, <3>3, <2>2 DEF Row
    <3>5. RowServed(i)' BY <1>a, <2>1, <3>1, <3>3, <3>4
      DEF RowServed, Endless, Exhausted, IsOneShotAutoDelete
    <3> QED BY <3>2, <3>5
  <2> QED BY <2>3, <2>4, <2>5
<1>6. ASSUME NEW c \in Callers, UpdateDropped(c) PROVE TaskServed(i)' /\ RowServed(i)'
  BY <1>6, <1>a, Untouched DEF UpdateDropped
<1>7. CASE Poll
  <2>1. PICK S \in SUBSET Due :
          batch' = [j \in S |-> [job |-> jobs[j], pc |-> "queued", ok |-> FALSE]]
    BY <1>7 DEF Poll
  <2>2. UNCHANGED <<now, jobs, served>> /\ DOMAIN batch = {} BY <1>7 DEF Poll
  <2>3. RowServed(i)' BY <1>a, <2>2 DEF RowServed, Endless, Exhausted, IsOneShotAutoDelete
  <2>4. ASSUME i \in DOMAIN batch'
        PROVE  /\ batch'[i].pc = "queued" /\ batch'[i].job = jobs[i] /\ i \in DOMAIN jobs
               /\ jobs[i].enabled /\ jobs[i].next_run <= now
    BY <2>1, <2>4 DEF Due
  <2>5. TaskServed(i)'
    BY <1>a, <2>2, <2>4 DEF RowServed, TaskServed, Endless, Exhausted, IsOneShotAutoDelete
  <2> QED BY <2>3, <2>5
<1>8. ASSUME NEW j \in Jobs, Start(j) PROVE TaskServed(i)' /\ RowServed(i)'
  <2>1. /\ UNCHANGED <<now, jobs, served>> /\ DOMAIN batch' = DOMAIN batch
        /\ j \in DOMAIN batch /\ batch[j].pc = "queued"
        /\ batch' = [batch EXCEPT ![j].pc = "running"]
    BY <1>8 DEF Start, Queued
  <2>2. ASSUME i \in DOMAIN batch
        PROVE  /\ batch'[i].job = batch[i].job
               /\ batch'[i].pc = (IF i = j THEN "running" ELSE batch[i].pc)
    BY <2>1, <2>2, <1>t DEF Task
  <2>3. TaskServed(i)' BY <1>a, <2>1, <2>2 DEF TaskServed, Endless, Exhausted, IsOneShotAutoDelete
  <2>4. RowServed(i)' BY <1>a, <2>1, <2>2 DEF RowServed, Endless, Exhausted, IsOneShotAutoDelete
  <2> QED BY <2>3, <2>4
<1>9. ASSUME NEW j \in Jobs, RunEnds(j) PROVE TaskServed(i)' /\ RowServed(i)'
  <2>1. /\ UNCHANGED <<now, jobs>> /\ DOMAIN batch' = DOMAIN batch
        /\ j \in DOMAIN batch /\ batch[j].pc = "running"
        /\ served' = [served EXCEPT ![j] = batch[j].job.next_run]
    BY <1>9 DEF RunEnds
  <2>2. PICK ok \in BOOLEAN :
          batch' = [batch EXCEPT ![j] = [job |-> batch[j].job, pc |-> "ended", ok |-> ok]]
    BY <1>9 DEF RunEnds
  <2>3. CASE i = j
    <3>1. batch'[i].job = batch[i].job /\ batch'[i].pc = "ended" /\ served'[i] = batch[i].job.next_run
      BY <2>1, <2>2, <2>3 DEF TypeOK
    <3> QED BY <1>a, <2>1, <2>3, <3>1 DEF TaskServed, RowServed
  <2>4. CASE i # j
    <3>1. served'[i] = served[i] BY <2>1, <2>4 DEF TypeOK
    <3>2. i \in DOMAIN batch => batch'[i] = batch[i] BY <2>2, <2>4
    <3> QED BY <1>a, <2>1, <3>1, <3>2, Untouched
  <2> QED BY <2>3, <2>4
<1>10. ASSUME NEW j \in Jobs, RemoveDone(j) PROVE TaskServed(i)' /\ RowServed(i)'
  <2>1. jobs' = Without(jobs, j) /\ batch' = Without(batch, j) /\ UNCHANGED <<now, served>>
    BY <1>10 DEF RemoveDone
  <2>2. CASE i = j BY <2>1, <2>2 DEF Without, TaskServed, RowServed
  <2>3. CASE i # j
    <3>1. /\ DOMAIN jobs' = DOMAIN jobs \ {j} /\ (i \in DOMAIN jobs => jobs'[i] = jobs[i])
          /\ DOMAIN batch' = DOMAIN batch \ {j} /\ (i \in DOMAIN batch => batch'[i] = batch[i])
      BY <2>1, <2>3 DEF Without
    <3> QED BY <1>a, <2>1, <2>3, <3>1, Untouched
  <2> QED BY <2>2, <2>3
<1>11. ASSUME NEW j \in Jobs, DisableRead(j) PROVE TaskServed(i)' /\ RowServed(i)'
  <2>1. j \in DOMAIN batch /\ UNCHANGED <<now, jobs, served>> BY <1>11 DEF DisableRead, Ended
  <2>2. CASE j \in DOMAIN jobs
    <3>1. batch' = [batch EXCEPT ![j] = [job |-> [jobs[j] EXCEPT !.enabled = FALSE],
                                         pc |-> "disabling", ok |-> FALSE]]
      BY <1>11, <2>2 DEF DisableRead
    <3>2. CASE i = j
      <4>1. i \in DOMAIN batch' /\ batch'[i].pc = "disabling"
            /\ batch'[i].job = [jobs[i] EXCEPT !.enabled = FALSE]
        BY <2>1, <3>1, <3>2
      <4>2. ~ batch'[i].job.enabled BY <4>1, <2>2, <3>2, <1>t DEF Row
      <4> QED BY <4>1, <4>2 DEF TaskServed, RowServed
    <3>3. CASE i # j
      <4>1. DOMAIN batch' = DOMAIN batch /\ (i \in DOMAIN batch => batch'[i] = batch[i])
        BY <3>1, <3>3
      <4> QED BY <1>a, <2>1, <4>1, Untouched
    <3> QED BY <3>2, <3>3
  <2>3. CASE j \notin DOMAIN jobs
    <3>1. batch' = Without(batch, j) BY <1>11, <2>3 DEF DisableRead
    <3>2. CASE i = j BY <2>1, <2>3, <3>1, <3>2 DEF Without, TaskServed, RowServed
    <3>3. CASE i # j
      <4>1. DOMAIN batch' = DOMAIN batch \ {j} /\ (i \in DOMAIN batch => batch'[i] = batch[i])
        BY <3>1, <3>3 DEF Without
      <4> QED BY <1>a, <2>1, <3>3, <4>1, Untouched
    <3> QED BY <3>2, <3>3
  <2> QED BY <2>2, <2>3
<1>12. ASSUME NEW j \in Jobs, DisableWrite(j) PROVE TaskServed(i)' /\ RowServed(i)'
  <2>1. /\ jobs' = Update(j, batch[j].job) /\ batch' = Without(batch, j)
        /\ j \in DOMAIN batch /\ batch[j].pc = "disabling" /\ UNCHANGED <<now, served>>
    BY <1>12 DEF DisableWrite
  <2>2. CASE i = j
    <3>1. i \notin DOMAIN batch' BY <2>1, <2>2 DEF Without
    <3>2. ~ batch[i].job.enabled BY <1>a, <2>1, <2>2 DEF TaskServed
    <3>3. i \in DOMAIN jobs' => ~ jobs'[i].enabled BY <2>1, <2>2, <3>2 DEF Update
    <3> QED BY <3>1, <3>3 DEF TaskServed, RowServed
  <2>3. CASE i # j
    <3>1. /\ DOMAIN jobs' = DOMAIN jobs /\ (i \in DOMAIN jobs => jobs'[i] = jobs[i])
          /\ DOMAIN batch' = DOMAIN batch \ {j} /\ (i \in DOMAIN batch => batch'[i] = batch[i])
      BY <2>1, <2>3 DEF Without, Update
    <3> QED BY <1>a, <2>1, <2>3, <3>1, Untouched
  <2> QED BY <2>2, <2>3
<1>13. ASSUME NEW j \in Jobs, Reschedule(j) PROVE TaskServed(i)' /\ RowServed(i)'
  <2>1. /\ j \in DOMAIN batch /\ batch[j].pc = "ended" /\ ~ IsOneShotAutoDelete(batch[j].job)
        /\ served' = IF EditedMeanwhile(j) THEN [served EXCEPT ![j] = Never] ELSE served
        /\ batch' = Without(batch, j) /\ now' = now
    BY <1>13 DEF Reschedule, Ended
  <2>2. PICK n \in NextRun(batch[j].job.schedule, now) :
          jobs' = [y \in DOMAIN jobs |-> IF y = j THEN [jobs[y] EXCEPT !.next_run = n] ELSE jobs[y]]
    BY <1>13 DEF Reschedule
  <2>3. CASE i # j
    <3>1. /\ DOMAIN jobs' = DOMAIN jobs /\ (i \in DOMAIN jobs => jobs'[i] = jobs[i])
          /\ DOMAIN batch' = DOMAIN batch \ {j} /\ (i \in DOMAIN batch => batch'[i] = batch[i])
      BY <2>1, <2>2, <2>3 DEF Without
    <3>2. served'[i] = served[i] BY <2>1, <2>3 DEF TypeOK
    <3> QED BY <1>a, <2>1, <2>3, <3>1, <3>2, Untouched
  <2>4. CASE i = j
    <3>1. i \notin DOMAIN batch' BY <2>1, <2>4 DEF Without
    <3>2. TaskServed(i)' BY <3>1 DEF TaskServed
    <3>3. CASE EditedMeanwhile(j)
      <4>1. served'[i] = -1 BY <2>1, <2>4, <3>3 DEF TypeOK, Never
      <4> QED BY <3>2, <4>1, <1>t DEF RowServed
    <3>4. CASE ~ EditedMeanwhile(j)
      <4> DEFINE job == batch[j].job
      <4>1. /\ i \in DOMAIN jobs /\ jobs[i].schedule = job.schedule
            /\ jobs[i].delete_after_run = job.delete_after_run /\ served'[i] = served[i]
        BY <2>1, <2>4, <3>4 DEF EditedMeanwhile
      <4>2. job \in Row /\ job.schedule \in Schedules /\ job.next_run \in Nat
        BY <1>t, <2>1, <2>4 DEF Row
      <4>3. /\ jobs'[i].schedule = job.schedule /\ jobs'[i].next_run = n
            /\ jobs'[i].delete_after_run = job.delete_after_run
        BY <2>2, <2>4, <4>1, <1>t DEF Row
      <4>4. CASE job.schedule.kind = "at"
        BY <2>1, <3>2, <4>3, <4>4 DEF RowServed, Endless, IsOneShotAutoDelete
      <4>5. CASE job.schedule.kind # "at"
        <5>1. n \in Nat /\ n > now BY <2>2, <4>2, <4>5, <1>t, NextRunIsATime
        <5>2. job.next_run <= now /\ served[i] \in {Never, job.next_run}
          BY <1>a, <2>1, <2>4 DEF TaskServed
        <5>3. jobs'[i].next_run > served'[i] BY <4>1, <4>2, <4>3, <5>1, <5>2, <1>t DEF Never
        <5> QED BY <3>2, <5>3 DEF RowServed
      <4> QED BY <4>4, <4>5
    <3> QED BY <3>3, <3>4
  <2> QED BY <2>3, <2>4
<1>14. ASSUME NEW j \in Jobs, NothingToSchedule(j) PROVE TaskServed(i)' /\ RowServed(i)'
  <2>1. /\ j \in DOMAIN batch /\ Exhausted(batch[j].job.schedule, now)
        /\ served' = IF EditedMeanwhile(j) THEN [served EXCEPT ![j] = Never] ELSE served
        /\ batch' = Without(batch, j) /\ UNCHANGED <<now, jobs>>
    BY <1>14 DEF NothingToSchedule, Ended
  <2>2. CASE i # j
    <3>1. DOMAIN batch' = DOMAIN batch \ {j} /\ (i \in DOMAIN batch => batch'[i] = batch[i])
      BY <2>1, <2>2 DEF Without
    <3>2. served'[i] = served[i] BY <2>1, <2>2 DEF TypeOK
    <3> QED BY <1>a, <2>1, <2>2, <3>1, <3>2, Untouched
  <2>3. CASE i = j
    <3>1. i \notin DOMAIN batch' BY <2>1, <2>3 DEF Without
    <3>2. TaskServed(i)' BY <3>1 DEF TaskServed
    <3>3. CASE EditedMeanwhile(j)
      <4>1. served'[i] = -1 BY <2>1, <2>3, <3>3 DEF TypeOK, Never
      <4> QED BY <3>2, <4>1, <1>t DEF RowServed
    <3>4. CASE ~ EditedMeanwhile(j)
      <4>1. jobs[i].schedule = batch[j].job.schedule BY <2>3, <3>4 DEF EditedMeanwhile
      <4>2. Endless(jobs[i], now) BY <2>1, <4>1 DEF Endless, Exhausted, IsOneShotAutoDelete
      <4> QED BY <2>1, <3>2, <4>2 DEF RowServed, Endless, Exhausted, IsOneShotAutoDelete
    <3> QED BY <3>3, <3>4
  <2> QED BY <2>2, <2>3
<1>15. ASSUME NEW j \in Jobs, StoreFails(j) PROVE TaskServed(i)' /\ RowServed(i)'
  <2>1. batch' = Without(batch, j) /\ served' = [served EXCEPT ![j] = Never] /\ UNCHANGED <<now, jobs>>
    BY <1>15 DEF StoreFails
  <2>2. CASE i # j
    <3>1. DOMAIN batch' = DOMAIN batch \ {j} /\ (i \in DOMAIN batch => batch'[i] = batch[i])
      BY <2>1, <2>2 DEF Without
    <3>2. served'[i] = served[i] BY <2>1, <2>2 DEF TypeOK
    <3> QED BY <1>a, <2>1, <2>2, <3>1, <3>2, Untouched
  <2>3. CASE i = j
    <3>1. i \notin DOMAIN batch' BY <2>1, <2>3 DEF Without
    <3>2. served'[i] = -1 BY <2>1, <2>3 DEF TypeOK, Never
    <3> QED BY <3>1, <3>2, <1>t DEF TaskServed, RowServed
  <2> QED BY <2>2, <2>3
<1>16. CASE Restart
  <2>1. /\ DOMAIN batch' = {} /\ UNCHANGED <<now, jobs>>
        /\ served'[i] = IF i \in DOMAIN batch /\ batch[i].pc \in {"ended", "disabling"}
                         THEN -1 ELSE served[i]
    BY <1>16 DEF Restart, Never
  <2>2. TaskServed(i)' BY <2>1 DEF TaskServed
  <2>3. CASE i \in DOMAIN batch /\ batch[i].pc \in {"ended", "disabling"}
    BY <2>1, <2>2, <2>3, <1>t DEF RowServed
  <2>4. CASE ~ (i \in DOMAIN batch /\ batch[i].pc \in {"ended", "disabling"})
    BY <1>a, <2>1, <2>2, <2>4 DEF RowServed, Endless, Exhausted, IsOneShotAutoDelete
  <2> QED BY <2>3, <2>4
<1> QED BY <1>0, <1>1, <1>2, <1>3, <1>4, <1>5, <1>6, <1>7, <1>8, <1>9, <1>10, <1>11, <1>12,
           <1>13, <1>14, <1>15, <1>16 DEF Next, Work

\* Only a job that ServedInv lets run is started, so nothing is run twice for one time
\* unless a fault, an edit or the schedule makes it so.
THEOREM RunsOnce == CronAssumption => (Spec => RunsOncePerOccurrence)
<1> SUFFICES ASSUME CronAssumption PROVE Spec => RunsOncePerOccurrence OBVIOUS
<1> DEFINE A == \A j \in Jobs : Starts(j) =>
                  batch[j].job.next_run > served[j] \/ Endless(batch[j].job, now)
<1>1. Init => TypeOK /\ ServedInv BY TypeInit, ServedInit
<1>2. TypeOK /\ ServedInv /\ [Next]_vars => TypeOK' /\ ServedInv'
  BY TypeNext, ServedNext
<1>3. TypeOK /\ ServedInv /\ [Next]_vars => [A]_vars
  BY DEF ServedInv, TaskServed, Starts
<1> QED BY <1>1, <1>2, <1>3, PTL DEF Spec, RunsOncePerOccurrence
-----------------------------------------------------------------------------
(* At jobs: what the guide promises of them, and what it takes.            *)

\* Every At job in the table is to be removed after its run, as add_shell_job sees to it.
AtJobsGo == \A j \in DOMAIN jobs : jobs[j].schedule.kind = "at" => jobs[j].delete_after_run

\* The poll hands on what it has read.
PolledAtJobsGo ==
  \A j \in DOMAIN batch :
    /\ batch[j].pc \in {"queued", "running"} /\ batch[j].job.schedule.kind = "at"
    => batch[j].job.delete_after_run

LEMMA PolledNext == TypeOK /\ AtJobsGo /\ PolledAtJobsGo /\ [Next]_vars => PolledAtJobsGo'
<1> SUFFICES ASSUME TypeOK, AtJobsGo, PolledAtJobsGo, [Next]_vars PROVE PolledAtJobsGo'
  OBVIOUS
<1> USE DEF PolledAtJobsGo
<1>0. batch \in [DOMAIN batch -> Task] BY DEF TypeOK
<1>1. CASE UNCHANGED batch BY <1>1
<1>2. CASE Poll
  <2>1. PICK S \in SUBSET Due :
          batch' = [j \in S |-> [job |-> jobs[j], pc |-> "queued", ok |-> FALSE]]
    BY <1>2 DEF Poll
  <2> QED BY <2>1 DEF Due, AtJobsGo
<1>3. ASSUME NEW j \in Jobs, Start(j) PROVE PolledAtJobsGo'
  <2>1. j \in DOMAIN batch /\ batch[j].pc = "queued" BY <1>3 DEF Start, Queued
  <2>2. batch' = [batch EXCEPT ![j].pc = "running"] BY <1>3 DEF Start
  <2>3. ASSUME NEW i \in DOMAIN batch
        PROVE  batch'[i].job = batch[i].job /\ (i # j => batch'[i] = batch[i])
    BY <1>0, <2>2 DEF Task
  <2> QED BY <2>1, <2>2, <2>3
<1>4. ASSUME NEW j \in Jobs, RunEnds(j) PROVE PolledAtJobsGo'
  BY <1>4 DEF RunEnds
<1>5. ASSUME NEW j, batch' = Without(batch, j) PROVE PolledAtJobsGo'
  BY <1>5 DEF Without
<1>6. ASSUME NEW j \in Jobs, DisableRead(j) PROVE PolledAtJobsGo'
  BY <1>6, <1>5 DEF DisableRead
<1>7. ASSUME NEW j \in Jobs,
             \/ RemoveDone(j) \/ DisableWrite(j) \/ Reschedule(j) \/ NothingToSchedule(j)
             \/ StoreFails(j)
      PROVE  PolledAtJobsGo'
  BY <1>7, <1>5 DEF RemoveDone, DisableWrite, Reschedule, NothingToSchedule, StoreFails
<1>8. CASE Restart BY <1>8 DEF Restart
<1>9. CASE \/ Tick \/ UNCHANGED vars
           \/ \E j \in Jobs : AddJob(j) \/ RemoveJob(j)
           \/ \E c \in Callers, j \in Jobs : UpdateRead(c, j)
           \/ \E c \in Callers : UpdateWrite(c) \/ UpdateDropped(c)
  BY <1>1, <1>9 DEF Tick, vars, AddJob, RemoveJob, UpdateRead, UpdateWrite, UpdateDropped
<1> QED BY <1>2, <1>3, <1>4, <1>6, <1>7, <1>8, <1>9 DEF Next, Work

\* An At job is started once for its time (a fault or an edit that asks for a new run
\* apart), if it is one that is removed after its run: only of the jobs that cron_add and
\* update_job leave without delete_after_run the guide is wrong.
THEOREM OneShotsRunOnce ==
  CronAssumption => (Spec /\ []AtJobsGo => OneShotRunsOnce)
<1> SUFFICES ASSUME CronAssumption PROVE Spec /\ []AtJobsGo => OneShotRunsOnce OBVIOUS
<1> DEFINE A == \A j \in Jobs : Starts(j) /\ batch[j].job.schedule.kind = "at" =>
                  batch[j].job.next_run > served[j]
<1>1. Init => TypeOK /\ ServedInv /\ PolledAtJobsGo
  BY TypeInit, ServedInit DEF Init, PolledAtJobsGo
<1>2. TypeOK /\ ServedInv /\ PolledAtJobsGo /\ AtJobsGo /\ [Next]_vars
        => TypeOK' /\ ServedInv' /\ PolledAtJobsGo'
  BY TypeNext, ServedNext, PolledNext
<1>3. ServedInv /\ PolledAtJobsGo => A
  <2> SUFFICES ASSUME ServedInv, PolledAtJobsGo, NEW j \in Jobs, Starts(j),
                      batch[j].job.schedule.kind = "at"
               PROVE  batch[j].job.next_run > served[j]
    OBVIOUS
  <2>1. j \in DOMAIN batch /\ batch[j].pc = "queued" BY DEF Starts
  <2>2. IsOneShotAutoDelete(batch[j].job) BY <2>1 DEF PolledAtJobsGo, IsOneShotAutoDelete
  <2> QED BY <2>1, <2>2 DEF ServedInv, TaskServed, Endless
<1> QED BY <1>1, <1>2, <1>3, PTL DEF Spec, OneShotRunsOnce
=============================================================================
