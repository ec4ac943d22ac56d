---------------------------- MODULE CronScheduler ----------------------------
(***************************************************************************)
(* The cron scheduler (src/cron): jobs in a SQLite table, a loop in the    *)
(* daemon that polls for the due ones and runs them, and callers (the      *)
(* command line, the gateway, the agent's tools) that add, patch and       *)
(* remove jobs at the same time, in this process or in another.            *)
(*                                                                         *)
(* Every statement opens a connection of its own, so one SQL statement is  *)
(* one step.  The scheduler works from rows it read at the poll, and       *)
(* update_job reads a row, patches it and writes all of it back in a       *)
(* second statement.                                                       *)
(*                                                                         *)
(* A run stands for all its attempts (execute_job_with_retry) and for the  *)
(* delivery of its output; it ends well or badly.  The columns last_run,   *)
(* last_status and last_output and the run history are written and shown   *)
(* but read by no operation: they are left out, and with them cron_run,    *)
(* which runs a job and writes nothing else.                               *)
(***************************************************************************)
EXTENDS Integers, FiniteSets

CONSTANTS
  Jobs,              \* ids; a UUID is handed out once
  Callers,           \* concurrent calls of update_job
  Schedules,         \* the schedules callers ask for
  max_tasks,         \* jobs a poll returns at most
  max_concurrent,    \* jobs in flight at most
  MaxTime,           \* bound on the clock
  MaxPatches,        \* bound on calls of update_job
  MaxFaults          \* bound on restarts and failing statements

\* Cron expressions are the times they match; finitely many when they name a year.
ScheduleKinds ==
  [kind: {"cron"}, times: SUBSET Nat] \cup [kind: {"at"}, at: Nat]
    \cup [kind: {"every"}, every: Nat \ {0}]

ASSUME CronAssumption ==
  /\ IsFiniteSet(Jobs)
  /\ Schedules \subseteq ScheduleKinds
  /\ {max_tasks, max_concurrent} \subseteq Nat \ {0}
  /\ {MaxTime, MaxPatches, MaxFaults} \subseteq Nat

VARIABLES
  now,       \* Utc::now(), which does not go back
  jobs,      \* cron_jobs: the row of each id in the table
  used,      \* ids handed out so far
  patches,   \* a call of update_job between its two statements: the job, the row
             \* it read and the row it will write
  batch,     \* the jobs of the current poll that are not finished: see Task
  calls,     \* calls of update_job so far
  faults,    \* restarts and failing statements so far
  served     \* history: the last next_run whose run ended and that the table is
             \* to forget; Never after a fault or an edit that asks for a new run

vars == <<now, jobs, used, patches, batch, calls, faults, served>>

Never == -1

Row == [schedule: Schedules, enabled: BOOLEAN, delete_after_run: BOOLEAN, next_run: Nat]

\* job is the row as polled.  "ended": the run is over, its result not stored;
\* "disabling": update_job has read the row of a failed one-shot and job is what it
\* will write.
Task == [job: Row, pc: {"queued", "running", "ended", "disabling"}, ok: BOOLEAN]

Patch == [id: Jobs, read: Row, row: Row]

Put(f, x, v) == [y \in DOMAIN f \cup {x} |-> IF y = x THEN v ELSE f[y]]
Without(f, x) == [y \in DOMAIN f \ {x} |-> f[y]]

\* UPDATE ... WHERE id = ?: nothing happens when the row is gone.
Update(id, row) == [y \in DOMAIN jobs |-> IF y = id THEN row ELSE jobs[y]]

------------------------------------------------------------------------------
(* Schedules                                                               *)

\* A cron expression that matches nothing after this time: next_run_for_schedule fails.
Exhausted(s, from) == s.kind = "cron" /\ \A t \in s.times : t <= from

\* Mutant: a schedule without a next run gets the default time instead of an error.
NextRun_Default(s, from) ==
  CASE s.kind = "at"    -> {s.at}
    [] s.kind = "every" -> {from + s.every}
    [] s.kind = "cron"  -> IF \E t \in s.times : t > from
                             THEN {t \in s.times : t > from /\ \A u \in s.times : u > from => t <= u}
                             ELSE {Never}

\* The next run as a set of one element, empty when there is none.
NextRun(s, from) ==
  CASE s.kind = "at"    -> {s.at}
    [] s.kind = "every" -> {from + s.every}
    [] s.kind = "cron"  -> {t \in s.times : t > from /\ \A u \in s.times : u > from => t <= u}

Valid(s) == IF s.kind = "at" THEN s.at > now ELSE ~ Exhausted(s, now)

IsOneShotAutoDelete(job) == job.delete_after_run /\ job.schedule.kind = "at"

------------------------------------------------------------------------------
Init ==
  /\ now = 0
  /\ jobs = [y \in {} |-> 0] /\ used = {}
  /\ patches = [y \in {} |-> 0]
  /\ batch = [y \in {} |-> 0]
  /\ calls = 0 /\ faults = 0
  /\ served = [j \in Jobs |-> Never]

Tick ==
  /\ now < MaxTime /\ now' = now + 1
  /\ UNCHANGED <<calls, jobs, used, patches, batch, faults, served>>

(* The callers                                                             *)

\* add_shell_job sets delete_after_run for an At schedule, add_agent_job as it is told.
AddJob(j) ==
  /\ j \notin used /\ used' = used \cup {j}
  /\ \E s \in Schedules, d \in BOOLEAN : \E n \in NextRun(s, now) :
       /\ Valid(s)
       /\ jobs' = Put(jobs, j, [schedule |-> s, enabled |-> TRUE,
                                delete_after_run |-> d, next_run |-> n])
  /\ UNCHANGED <<now, calls, patches, batch, faults, served>>

RemoveJob(j) ==
  /\ j \in DOMAIN jobs /\ jobs' = Without(jobs, j)
  /\ UNCHANGED <<now, calls, used, patches, batch, faults, served>>

\* The row with a schedule of the caller's choice; its next run follows from it.
WithNewSchedule(row) ==
  UNION {{[row EXCEPT !.schedule = s, !.next_run = n] : n \in NextRun(s, now)} :
           s \in {t \in Schedules : Valid(t)}}

\* A CronJobPatch may change any of the three; name and command change none.
UpdateRead(c, j) ==
  /\ c \notin DOMAIN patches /\ j \in DOMAIN jobs
  /\ calls < MaxPatches /\ calls' = calls + 1
  /\ \E r \in {jobs[j]} \cup WithNewSchedule(jobs[j]), e \in BOOLEAN, d \in BOOLEAN :
       patches' = Put(patches, c, [id |-> j, read |-> jobs[j],
                                   row |-> [r EXCEPT !.enabled = e, !.delete_after_run = d]])
  /\ UNCHANGED <<now, jobs, used, batch, faults, served>>

\* A patch that only pauses the job, written over the row it read, asks for no new run.
OnlyPauses(p) ==
  /\ p.id \in DOMAIN jobs => jobs[p.id] = p.read
  /\ p.row \in {p.read, [p.read EXCEPT !.enabled = FALSE]}

UpdateWrite(c) ==
  /\ c \in DOMAIN patches
  /\ LET p == patches[c] IN
       /\ jobs' = Update(p.id, p.row)
       /\ served' = IF OnlyPauses(p) THEN served ELSE [served EXCEPT ![p.id] = Never]
  /\ patches' = Without(patches, c)
  /\ UNCHANGED <<now, calls, used, batch, faults>>

\* The caller ends or its second statement fails.
UpdateDropped(c) ==
  /\ c \in DOMAIN patches /\ patches' = Without(patches, c)
  /\ UNCHANGED <<now, calls, jobs, used, batch, faults, served>>

(* The scheduler                                                           *)

Due == {j \in DOMAIN jobs : jobs[j].enabled /\ jobs[j].next_run <= now}

\* Mutant: a poll that does not wait for the batch before it.
Poll_NotAwaited ==
  /\ Due # {}
  /\ batch' = [j \in DOMAIN batch \cup Due |->
                 IF j \in Due /\ (j \in DOMAIN batch => batch[j].pc = "ended")
                   THEN [job |-> jobs[j], pc |-> "queued", ok |-> FALSE] ELSE batch[j]]
  /\ UNCHANGED <<now, calls, jobs, used, patches, faults, served>>

\* SELECT ... ORDER BY next_run ASC LIMIT max_tasks, once the last batch is finished.
Poll ==
  /\ DOMAIN batch = {} /\ Due # {}
  /\ \E S \in SUBSET Due :
       /\ Cardinality(S) = max_tasks \/ (S = Due /\ Cardinality(S) < max_tasks)
       /\ \A i \in S, j \in Due \ S : jobs[i].next_run <= jobs[j].next_run
       /\ batch' = [j \in S |-> [job |-> jobs[j], pc |-> "queued", ok |-> FALSE]]
  /\ UNCHANGED <<now, calls, jobs, used, patches, faults, served>>

Queued == {j \in DOMAIN batch : batch[j].pc = "queued"}
InFlight == DOMAIN batch \ Queued

\* buffer_unordered: the next of the list as soon as fewer than max_concurrent run.
Start(j) ==
  /\ j \in Queued /\ Cardinality(InFlight) < max_concurrent
  /\ \A i \in Queued : batch[j].job.next_run <= batch[i].job.next_run
  /\ batch' = [batch EXCEPT ![j].pc = "running"]
  /\ UNCHANGED <<now, calls, jobs, used, patches, faults, served>>

RunEnds(j) ==
  /\ j \in DOMAIN batch /\ batch[j].pc = "running"
  /\ \E ok \in BOOLEAN :
       batch' = [batch EXCEPT ![j] = [job |-> batch[j].job, pc |-> "ended", ok |-> ok]]
  /\ served' = [served EXCEPT ![j] = batch[j].job.next_run]
  /\ UNCHANGED <<now, calls, jobs, used, patches, faults>>

Ended(j) == j \in DOMAIN batch /\ batch[j].pc = "ended"

\* A one-shot that succeeded is removed.
RemoveDone(j) ==
  /\ Ended(j) /\ batch[j].ok /\ IsOneShotAutoDelete(batch[j].job)
  /\ jobs' = Without(jobs, j) /\ batch' = Without(batch, j)
  /\ UNCHANGED <<now, calls, used, patches, faults, served>>

\* Mutant: a failed one-shot that is not disabled.
DisableRead_Skipped(j) ==
  /\ Ended(j) /\ ~ batch[j].ok /\ IsOneShotAutoDelete(batch[j].job)
  /\ batch' = Without(batch, j) /\ served' = [served EXCEPT ![j] = Never]
  /\ UNCHANGED <<now, calls, jobs, used, patches, faults>>

\* One that failed is disabled, by update_job.
DisableRead(j) ==
  /\ Ended(j) /\ ~ batch[j].ok /\ IsOneShotAutoDelete(batch[j].job)
  /\ batch' = IF j \in DOMAIN jobs
                THEN [batch EXCEPT ![j] = [job |-> [jobs[j] EXCEPT !.enabled = FALSE],
                                           pc |-> "disabling", ok |-> FALSE]]
                ELSE Without(batch, j)
  /\ UNCHANGED <<now, calls, jobs, used, patches, faults, served>>

DisableWrite(j) ==
  /\ j \in DOMAIN batch /\ batch[j].pc = "disabling"
  /\ jobs' = Update(j, batch[j].job) /\ batch' = Without(batch, j)
  /\ UNCHANGED <<now, calls, used, patches, faults, served>>

\* The caller changed what the run's outcome is about while the run went on.
EditedMeanwhile(j) ==
  j \in DOMAIN jobs =>
    \/ jobs[j].schedule # batch[j].job.schedule
    \/ jobs[j].delete_after_run # batch[j].job.delete_after_run

\* The next run follows from the schedule that was polled.
Reschedule(j) ==
  /\ Ended(j) /\ ~ IsOneShotAutoDelete(batch[j].job)
  /\ \E n \in NextRun(batch[j].job.schedule, now) :
       jobs' = [y \in DOMAIN jobs |-> IF y = j THEN [jobs[y] EXCEPT !.next_run = n] ELSE jobs[y]]
  /\ served' = IF EditedMeanwhile(j) THEN [served EXCEPT ![j] = Never] ELSE served
  /\ batch' = Without(batch, j)
  /\ UNCHANGED <<now, calls, used, patches, faults>>

\* next_run_for_schedule fails before the row is written: the error is logged.
NothingToSchedule(j) ==
  /\ Ended(j) /\ Exhausted(batch[j].job.schedule, now)
  /\ served' = IF EditedMeanwhile(j) THEN [served EXCEPT ![j] = Never] ELSE served
  /\ batch' = Without(batch, j)
  /\ UNCHANGED <<now, calls, jobs, used, patches, faults>>

\* A statement that stores the outcome fails: the error is logged or dropped.
StoreFails(j) ==
  /\ j \in DOMAIN batch /\ batch[j].pc \in {"ended", "disabling"}
  /\ faults < MaxFaults /\ faults' = faults + 1
  /\ batch' = Without(batch, j) /\ served' = [served EXCEPT ![j] = Never]
  /\ UNCHANGED <<now, calls, jobs, used, patches>>

\* The daemon ends and starts again: the jobs it had polled are in the table only.
Restart ==
  /\ DOMAIN batch # {} /\ faults < MaxFaults /\ faults' = faults + 1
  /\ batch' = [y \in {} |-> 0]
  /\ served' = [j \in Jobs |-> IF j \in DOMAIN batch /\ batch[j].pc \in {"ended", "disabling"}
                                 THEN Never ELSE served[j]]
  /\ UNCHANGED <<now, calls, jobs, used, patches>>

------------------------------------------------------------------------------
Work(j) ==
  \/ Start(j)
  \/ RunEnds(j)
  \/ RemoveDone(j)
  \/ DisableRead(j)
  \/ DisableWrite(j)
  \/ Reschedule(j)
  \/ NothingToSchedule(j)

Next ==
  \/ Tick
  \/ \E j \in Jobs : AddJob(j) \/ RemoveJob(j)
  \/ \E c \in Callers, j \in Jobs : UpdateRead(c, j)
  \/ \E c \in Callers : UpdateWrite(c) \/ UpdateDropped(c)
  \/ Poll
  \/ \E j \in Jobs : Work(j) \/ StoreFails(j)
  \/ Restart

Spec == Init /\ [][Next]_vars

\* The loop polls as long as the daemon lives and the runtime schedules its futures.
\* A shell job ends after SHELL_JOB_TIMEOUT_SECS at the latest; that an agent job ends is
\* an assumption, it has no timeout of its own.
Fairness == WF_vars(Poll) /\ \A j \in Jobs : WF_vars(Work(j))

FairSpec == Spec /\ Fairness

------------------------------------------------------------------------------
(* Properties                                                              *)

\* Every variable has its type; the table, the batch and the patches speak of ids that
\* were handed out; a job is polled when it is due.
TypeOK ==
  /\ now \in Nat /\ calls \in Nat /\ faults \in Nat /\ used \subseteq Jobs
  /\ DOMAIN jobs \subseteq used /\ jobs \in [DOMAIN jobs -> Row]
  /\ DOMAIN patches \subseteq Callers /\ patches \in [DOMAIN patches -> Patch]
  /\ DOMAIN batch \subseteq used /\ batch \in [DOMAIN batch -> Task]
  /\ served \in [Jobs -> Nat \cup {Never}]
  /\ \A j \in Jobs : j \notin used => served[j] = Never

Starts(j) ==
  /\ j \in DOMAIN batch /\ batch[j].pc = "queued"
  /\ j \in DOMAIN batch' /\ batch'[j].pc = "running"

\* reschedule_after_run cannot move this job forward.
Endless(job, t) ==
  /\ ~ IsOneShotAutoDelete(job)
  /\ job.schedule.kind = "at" \/ Exhausted(job.schedule, t)

\* What is due once is run once.  A job is started again for a next_run that a run was
\* already made for only after a restart or a failing statement, after an edit that asks
\* for it or is written over a newer row, or because its schedule has no later time: no
\* interleaving of polls, runs, pauses, removals and patches of the name or the command
\* repeats it.
RunsOncePerOccurrence ==
  [][\A j \in Jobs : Starts(j) =>
       batch[j].job.next_run > served[j] \/ Endless(batch[j].job, now)]_vars

\* A one-shot that is due does not stay due: whatever fails and whoever edits it, it is
\* removed, disabled, or given another time (process_due_jobs, persist_job_result).
OneShotIsDue(j) ==
  j \in DOMAIN jobs /\ jobs[j].enabled /\ jobs[j].next_run <= now /\ IsOneShotAutoDelete(jobs[j])

OneShotSettles == \A j \in Jobs : OneShotIsDue(j) ~> ~ OneShotIsDue(j)

\* The guide calls an At job a "One-shot at time" (docs/USAGE_GUIDE.md:180): it is not
\* started again for a time it was already run for.  Not so when delete_after_run is off:
\* cron_add takes it from its caller and a patch of the schedule leaves it as it was.
OneShotRunsOnce ==
  [][\A j \in Jobs : Starts(j) /\ batch[j].job.schedule.kind = "at" =>
       batch[j].job.next_run > served[j]]_vars
==============================================================================
