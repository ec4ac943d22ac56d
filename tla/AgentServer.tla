----------------------------- MODULE AgentServer -----------------------------
(***************************************************************************)
(* RustyclawOrchestrator.AgentServer (agent_server.ex): the GenServer of   *)
(* one agent and its life under AgentSupervisor.  It runs tasks and        *)
(* delegations in supervised Task processes and answers the callers when   *)
(* the outcome of the Task arrives, checks its health on a timer, knows a  *)
(* parent and children by pid, and keeps an accumulated state that a       *)
(* persistent agent saves when it terminates and restores when it starts.  *)
(*                                                                         *)
(* A GenServer handles one message at a time: each callback is an action.  *)
(* A Task sends its result before it ends and the result is flushed of its *)
(* :DOWN, so one outcome arrives per Task; messages of different processes *)
(* arrive in any order.  The history of the agent is a log that no branch  *)
(* reads: send_message, report_to_parent and :child_report change nothing  *)
(* else and are left out.                                                  *)
(***************************************************************************)
EXTENDS Integers

CONSTANTS
  Calls,           \* calls of run_task and delegate_to_child, each made once
  Peers,           \* pids of other agents
  Parent,          \* the peer given as parent_pid, or None
  Keys,            \* keys written to the accumulated state
  Probes,          \* bridge health checks that may be under way at a time
  Persistent,      \* definition.persistent
  MemoryLimited,   \* definition.max_memory_mb is set
  MayBeKilled,     \* the process may die without terminate/2
  DiskFaults,      \* a snapshot may fail to be written, or be unreadable
  None

ASSUME AgentAssumption ==
  /\ {Persistent, MemoryLimited, MayBeKilled, DiskFaults} \subseteq BOOLEAN
  /\ Parent \in Peers \cup {None}
  /\ None \notin Calls \cup Peers

VARIABLES
  up,              \* the process is running
  status,          \* "idle" or "running": :initializing and :stopping are never set
  pending,         \* pending_task: the call whose {from, ref} it holds, or None
  delegations,     \* pending_delegations: the calls whose from it holds
  parent,          \* parent_pid
  children,        \* child_pids
  watched,         \* peers it has a monitor on whose :DOWN it has not handled
  health,          \* the result of the last health check
  recovery,        \* recovery_attempts
  bridgeHealthy,   \* what the last bridge health result said
  stale,           \* more than 300 s have passed since last_successful_task
  acc,             \* keys of accumulated_state
  snapshot,        \* keys in the snapshot file; {} when there is none
  mailbox,         \* requests of calls not handled yet
  call,            \* where each caller is: see CallStates
  kind,            \* "run" or "delegate"
  replies,         \* number of replies sent to the caller
  task,            \* the Task of each call: see TaskStates
  peerAlive,
  probe,           \* the bridge health checks: see ProbeStates
  bridge,          \* "up"; "down": Rust core unreachable; "gone": no RustBridge process
  acked,           \* keys whose update was answered :ok
  overwritten      \* auxiliary, read by no action: the calls whose place in
                   \* pending_task another run_task has taken

work == <<status, pending, delegations>>
family == <<parent, children, watched>>
fitness == <<health, recovery, bridgeHealthy, stale>>
store == <<acc, snapshot, acked>>
callers == <<mailbox, call, kind, replies, overwritten>>
world == <<peerAlive, bridge>>
vars == <<up, work, family, fitness, store, callers, task, probe, world>>

CallStates == {"new", "waiting", "answered", "exited"}
TaskStates == {"none", "running", "ok", "error", "down"}
ProbeStates == {"none", "running", "ok", "error", "down"}
Healths == {"healthy", "degraded", "unhealthy"}

Waiting(c) == call[c] = "waiting"

Init ==
  /\ up = TRUE
  /\ status = "idle"
  /\ pending = None
  /\ delegations = {}
  /\ parent = Parent
  /\ children = {}
  /\ watched = {Parent} \ {None}
  /\ health = "healthy"
  /\ recovery = 0
  /\ bridgeHealthy = TRUE
  /\ stale = FALSE
  /\ acc = {}
  /\ snapshot = {}
  /\ acked = {}
  /\ mailbox = {}
  /\ call = [c \in Calls |-> "new"]
  /\ kind = [c \in Calls |-> "run"]
  /\ replies = [c \in Calls |-> 0]
  /\ overwritten = {}
  /\ task = [c \in Calls |-> "none"]
  /\ probe = [i \in Probes |-> "none"]
  /\ peerAlive = [p \in Peers |-> TRUE]
  /\ bridge = "up"

-----------------------------------------------------------------------------
(* Callers *)

\* GenServer.call: the request is in the mailbox, or the caller exits at once when
\* no process is registered.
Call(c, k) ==
  /\ call[c] = "new"
  /\ kind' = [kind EXCEPT ![c] = k]
  /\ call' = [call EXCEPT ![c] = IF up THEN "waiting" ELSE "exited"]
  /\ mailbox' = IF up THEN mailbox \cup {c} ELSE mailbox
  /\ UNCHANGED <<up, work, family, fitness, store, replies, overwritten, task, probe, world>>

\* The 30 s of the call are over: the caller exits.  Its request stays in the mailbox
\* and its Task goes on; a reply that comes later is dropped by the alias of the call.
CallTimeout(c) ==
  /\ Waiting(c)
  /\ call' = [call EXCEPT ![c] = "exited"]
  /\ UNCHANGED <<up, work, family, fitness, store, mailbox, kind, replies, overwritten, task, probe, world>>

Reply(c) ==
  /\ replies' = [replies EXCEPT ![c] = @ + 1]
  /\ call' = [call EXCEPT ![c] = IF @ = "exited" THEN @ ELSE "answered"]

-----------------------------------------------------------------------------
(* handle_call *)

\* A call is turned down by an unhealthy agent, and by one over its memory limit:
\* how much memory the process has at that moment is not modelled.
MayReject == health = "unhealthy" \/ MemoryLimited

RejectRun(c) ==
  /\ c \in mailbox /\ kind[c] = "run"
  /\ MayReject
  /\ mailbox' = mailbox \ {c}
  /\ Reply(c)
  /\ UNCHANGED <<up, work, family, fitness, store, kind, overwritten, task, probe, world>>

\* A plausible bug, for the mutation runs: the caller is told at once as well.
RunTask_RepliesAtOnce(c) ==
  /\ c \in mailbox /\ kind[c] = "run"
  /\ health # "unhealthy"
  /\ mailbox' = mailbox \ {c}
  /\ Reply(c)
  /\ task' = [task EXCEPT ![c] = "running"]
  /\ status' = "running"
  /\ pending' = c
  /\ overwritten' = overwritten \cup ({pending} \ {None})
  /\ UNCHANGED <<up, delegations, family, fitness, store, kind, probe, world>>

\* pending_task is a single place: whatever it held is overwritten.
RunTask(c) ==
  /\ c \in mailbox /\ kind[c] = "run"
  /\ health # "unhealthy"
  /\ mailbox' = mailbox \ {c}
  /\ task' = [task EXCEPT ![c] = "running"]
  /\ status' = "running"
  /\ pending' = c
  /\ overwritten' = overwritten \cup ({pending} \ {None})
  /\ UNCHANGED <<up, delegations, family, fitness, store, call, kind, replies, probe, world>>

\* [] -> {:error, :child_not_found}.
ChildNotFound(c) ==
  /\ c \in mailbox /\ kind[c] = "delegate"
  /\ mailbox' = mailbox \ {c}
  /\ Reply(c)
  /\ UNCHANGED <<up, work, family, fitness, store, kind, overwritten, task, probe, world>>

\* A plausible bug, for the mutation runs: the pid of the parent is put among the children.
Delegate_TracksParent(c, p) ==
  /\ c \in mailbox /\ kind[c] = "delegate"
  /\ mailbox' = mailbox \ {c}
  /\ children' = children \cup {parent}
  /\ watched' = IF p \in children THEN watched ELSE watched \cup {p}
  /\ task' = [task EXCEPT ![c] = "running"]
  /\ delegations' = delegations \cup {c}
  /\ UNCHANGED <<up, status, pending, parent, fitness, store, call, kind, replies, overwritten, probe, world>>

\* The registry may still name a peer that has just died; a monitor of a dead process
\* delivers its :DOWN at once.
Delegate(c, p) ==
  /\ c \in mailbox /\ kind[c] = "delegate"
  /\ mailbox' = mailbox \ {c}
  /\ children' = children \cup {p}
  /\ watched' = IF p \in children THEN watched ELSE watched \cup {p}
  /\ task' = [task EXCEPT ![c] = "running"]
  /\ delegations' = delegations \cup {c}
  /\ UNCHANGED <<up, status, pending, parent, fitness, store, call, kind, replies, overwritten, probe, world>>

\* {:update_accumulated_state, updates}: merged first, checked afterwards.
Update(k) ==
  /\ up
  /\ acc' = acc \cup {k}
  /\ \/ acked' = acked \cup {k}
     \/ MemoryLimited /\ acked' = acked      \* {:error, :memory_limit_exceeded}
  /\ UNCHANGED <<up, work, family, fitness, snapshot, callers, task, probe, world>>

-----------------------------------------------------------------------------
(* Tasks, and handle_info of their outcomes *)

\* The Task of a call ends: RustBridge.run_task or run_task of the child returned a
\* result, good or bad, or the call in it exited (timeout, no process).
TaskEnds(c) ==
  /\ task[c] = "running"
  /\ \E outcome \in {"ok", "error", "down"} : task' = [task EXCEPT ![c] = outcome]
  /\ UNCHANGED <<up, work, family, fitness, store, callers, probe, world>>

\* {ref, result} of the pending task: {:error, _} counts as a successful task, too.
RunResult(c) ==
  /\ task[c] \in {"ok", "error"} /\ pending = c
  /\ Reply(c)
  /\ status' = "idle"
  /\ pending' = None
  /\ stale' = FALSE
  /\ task' = [task EXCEPT ![c] = "none"]
  /\ UNCHANGED <<up, delegations, family, health, recovery, bridgeHealthy, store, mailbox, kind, overwritten, probe, world>>

\* :DOWN of the pending task: {:error, {:task_crashed, reason}}.
RunDown(c) ==
  /\ task[c] = "down" /\ pending = c
  /\ Reply(c)
  /\ status' = "idle"
  /\ pending' = None
  /\ task' = [task EXCEPT ![c] = "none"]
  /\ UNCHANGED <<up, delegations, family, fitness, store, mailbox, kind, overwritten, probe, world>>

\* A plausible bug, for the mutation runs: only a result answers the caller.
DelegationEnds_ResultOnly(c) ==
  /\ task[c] \in {"ok", "error"} /\ c \in delegations
  /\ Reply(c)
  /\ delegations' = delegations \ {c}
  /\ task' = [task EXCEPT ![c] = "none"]
  /\ UNCHANGED <<up, status, pending, family, fitness, store, mailbox, kind, overwritten, probe, world>>

\* Result or :DOWN of a delegation.
DelegationEnds(c) ==
  /\ task[c] \in {"ok", "error", "down"} /\ c \in delegations
  /\ Reply(c)
  /\ delegations' = delegations \ {c}
  /\ task' = [task EXCEPT ![c] = "none"]
  /\ UNCHANGED <<up, status, pending, family, fitness, store, mailbox, kind, overwritten, probe, world>>

\* A plausible bug, for the mutation runs: whatever Task ends, the agent is idle again.
OutcomeIgnored_ClearsPending(c) ==
  /\ up
  /\ task[c] \in {"ok", "error", "down"} /\ pending # c /\ c \notin delegations
  /\ status' = "idle"
  /\ pending' = None
  /\ task' = [task EXCEPT ![c] = "none"]
  /\ UNCHANGED <<up, delegations, family, fitness, store, callers, probe, world>>

\* An outcome nobody is known for: the `_other` of handle_task_result, or a :DOWN of
\* a pid that is no peer.
OutcomeIgnored(c) ==
  /\ up
  /\ task[c] \in {"ok", "error", "down"} /\ pending # c /\ c \notin delegations
  /\ task' = [task EXCEPT ![c] = "none"]
  /\ UNCHANGED <<up, work, family, fitness, store, callers, probe, world>>

-----------------------------------------------------------------------------
(* Parent and children *)

PeerDies(p) ==
  /\ peerAlive[p]
  /\ peerAlive' = [peerAlive EXCEPT ![p] = FALSE]
  /\ UNCHANGED <<up, work, family, fitness, store, callers, task, probe, bridge>>

\* A plausible bug, for the mutation runs: maybe_clear_parent is not called.
PeerDown_ParentKept(p) ==
  /\ up
  /\ p \in watched /\ ~ peerAlive[p]
  /\ watched' = watched \ {p}
  /\ children' = children \ {p}
  /\ UNCHANGED <<up, work, parent, fitness, store, callers, task, probe, world>>

\* :DOWN of a peer; of one that is parent and child the second :DOWN finds nothing.
PeerDown(p) ==
  /\ up
  /\ p \in watched /\ ~ peerAlive[p]
  /\ watched' = watched \ {p}
  /\ children' = children \ {p}
  /\ parent' = IF parent = p THEN None ELSE parent
  /\ UNCHANGED <<up, work, fitness, store, callers, task, probe, world>>

-----------------------------------------------------------------------------
(* Health *)

\* A plausible bug, for the mutation runs: the bridge is not looked at.
EvaluateHealth_NoBridge ==
  IF recovery >= 3 THEN "unhealthy"
  ELSE IF stale \/ recovery >= 1 THEN "degraded" ELSE "healthy"

EvaluateHealth ==
  IF recovery >= 3 THEN "unhealthy"
  ELSE IF ~ bridgeHealthy \/ stale \/ recovery >= 1 THEN "degraded" ELSE "healthy"

\* :health_check, which only a persistent agent schedules: a new bridge check is
\* started and the health is computed from what is known so far.
HealthCheck(i) ==
  /\ up /\ Persistent
  /\ probe[i] = "none"
  /\ probe' = [probe EXCEPT ![i] = "running"]
  /\ health' = EvaluateHealth
  /\ recovery' = CASE EvaluateHealth = "healthy" -> 0
                   [] EvaluateHealth = "degraded" -> recovery
                   [] EvaluateHealth = "unhealthy" -> recovery + 1
  /\ UNCHANGED <<up, work, family, bridgeHealthy, stale, store, callers, task, world>>

\* The check asks the bridge; without a RustBridge process its call exits.
ProbeEnds(i) ==
  /\ probe[i] = "running"
  /\ probe' = [probe EXCEPT ![i] =
                 CASE bridge = "up" -> "ok" [] bridge = "down" -> "error" [] bridge = "gone" -> "down"]
  /\ UNCHANGED <<up, work, family, fitness, store, callers, task, world>>

\* {:bridge_health, _}; the :DOWN of a check that exited changes nothing.
ProbeResult(i) ==
  /\ probe[i] \in {"ok", "error", "down"}
  /\ probe' = [probe EXCEPT ![i] = "none"]
  /\ bridgeHealthy' = IF probe[i] = "down" THEN bridgeHealthy ELSE probe[i] = "ok"
  /\ UNCHANGED <<up, work, family, health, recovery, stale, store, callers, task, world>>

BridgeChanges(b) ==
  /\ bridge' = b
  /\ UNCHANGED <<up, work, family, fitness, store, callers, task, probe, peerAlive>>

TimePasses ==
  /\ up /\ stale' = TRUE
  /\ UNCHANGED <<up, work, family, health, recovery, bridgeHealthy, store, callers, task, probe, world>>

-----------------------------------------------------------------------------
(* The end of the process, and its restart by AgentSupervisor *)

\* The state of the process is gone: what init gives the next one.
Reset ==
  /\ status' = "idle"
  /\ pending' = None
  /\ delegations' = {}
  /\ parent' = Parent
  /\ children' = {}
  /\ watched' = {Parent} \ {None}
  /\ health' = "healthy"
  /\ recovery' = 0
  /\ bridgeHealthy' = TRUE
  /\ stale' = FALSE

\* Callers see the process die; Tasks are not linked, but their messages go nowhere.
Dies ==
  /\ up /\ up' = FALSE
  /\ Reset
  /\ mailbox' = {}
  /\ call' = [c \in Calls |-> IF Waiting(c) THEN "exited" ELSE call[c]]
  /\ task' = [c \in Calls |-> "none"]
  /\ probe' = [i \in Probes |-> "none"]
  /\ acc' = {}
  /\ UNCHANGED <<kind, replies, overwritten, acked, world>>

\* A plausible bug, for the mutation runs: only an agent that is idle is saved.
Saved_WhenIdle == IF Persistent /\ status = "idle" THEN {acc} ELSE {snapshot}

\* What save_snapshot may leave in the file; a failing write is logged.
Saved ==
  IF Persistent THEN {acc} \cup {s \in {snapshot} : DiskFaults} ELSE {snapshot}

\* What maybe_restore_snapshot may return; an unreadable snapshot is as none.
Restored ==
  IF Persistent THEN {snapshot} \cup {s \in {{}} : DiskFaults} ELSE {{}}

\* stop_agent, a shutdown, or an exception: terminate/2 runs.
Terminate ==
  /\ Dies
  /\ snapshot' \in Saved

\* Killed, or the VM stopped.
Kill ==
  /\ MayBeKilled
  /\ Dies
  /\ UNCHANGED snapshot

\* init of a new process under the same name: by the supervisor or by spawn_agent.
Start ==
  /\ ~ up /\ up' = TRUE
  /\ acc' \in Restored
  /\ UNCHANGED <<work, family, fitness, snapshot, acked, callers, task, probe, world>>

-----------------------------------------------------------------------------
Handle(c) ==
  \/ RejectRun(c) \/ RunTask(c) \/ ChildNotFound(c)
  \/ \E p \in Peers : Delegate(c, p)
  \/ RunResult(c) \/ RunDown(c) \/ DelegationEnds(c) \/ OutcomeIgnored(c)

Next ==
  \/ \E c \in Calls : \/ \E k \in {"run", "delegate"} : Call(c, k)
                      \/ CallTimeout(c) \/ Handle(c) \/ TaskEnds(c)
  \/ \E k \in Keys : Update(k)
  \/ \E p \in Peers : PeerDies(p) \/ PeerDown(p)
  \/ \E i \in Probes : HealthCheck(i) \/ ProbeEnds(i) \/ ProbeResult(i)
  \/ \E b \in {"up", "down", "gone"} : BridgeChanges(b)
  \/ TimePasses \/ Terminate \/ Kill \/ Start

Spec == Init /\ [][Next]_vars

\* The GenServer handles what is in its mailbox, a Task ends (its call has a timeout)
\* and the health timer fires.  Callers, peers, the bridge and the end of the process
\* are not obliged to anything; in particular no reply relies on a caller's timeout.
Fairness ==
  /\ \A c \in Calls : WF_vars(Handle(c)) /\ WF_vars(TaskEnds(c))
  /\ \A p \in Peers : WF_vars(PeerDown(p))
  /\ \A i \in Probes : WF_vars(HealthCheck(i)) /\ WF_vars(ProbeEnds(i)) /\ WF_vars(ProbeResult(i))

FairSpec == Spec /\ Fairness
-----------------------------------------------------------------------------
(* Properties *)

TypeOK ==
  /\ up \in BOOLEAN
  /\ status \in {"idle", "running"}
  /\ pending \in Calls \cup {None}
  /\ delegations \subseteq Calls
  /\ parent \in Peers \cup {None}
  /\ children \subseteq Peers
  /\ watched \subseteq Peers
  /\ health \in Healths
  /\ recovery \in Nat
  /\ bridgeHealthy \in BOOLEAN
  /\ stale \in BOOLEAN
  /\ acc \subseteq Keys
  /\ snapshot \subseteq Keys
  /\ acked \subseteq Keys
  /\ mailbox \subseteq Calls
  /\ call \in [Calls -> CallStates]
  /\ kind \in [Calls -> {"run", "delegate"}]
  /\ replies \in [Calls -> Nat]
  /\ overwritten \subseteq Calls
  /\ task \in [Calls -> TaskStates]
  /\ probe \in [Probes -> ProbeStates]
  /\ peerAlive \in [Peers -> BOOLEAN]
  /\ bridge \in {"up", "down", "gone"}

\* However rejections, results, crashes, timeouts and restarts interleave, no caller is
\* sent a second reply.
AtMostOneReply == \A c \in Calls : replies[c] <= 1

\* A caller that is still waiting is known to the server: its request is in the
\* mailbox, or its from is kept with the reference of a Task under way.  Overlapping
\* run_task calls break that in one way only: the later one takes the place of the
\* earlier one in pending_task.
NoCallForgotten ==
  \A c \in Calls : Waiting(c) =>
    \/ c \in mailbox
    \/ task[c] # "none" /\ (pending = c \/ c \in delegations)
    \/ c \in overwritten

\* The status a caller reads agrees with pending_task across overlapping tasks,
\* results that come late and crashes.
RunningIffPending == status = "running" <=> pending # None

\* "This should not hang -- it should return an error": a call is answered without the
\* help of the caller's timeout, whatever becomes of its Task and of the child, unless
\* a later run_task has taken its place.
CallIsAnswered == \A c \in Calls : Waiting(c) ~> ~ Waiting(c) \/ c \in overwritten

\* A dead parent or child is eventually forgotten, or the agent itself has ended.
DeadPeerIsForgotten ==
  \A p \in Peers : (up /\ ~ peerAlive[p] /\ p \in children \cup {parent})
                     ~> (~ up \/ p \notin children \cup {parent})

\* The part of DeadPeerIsForgotten that needs no fairness: whoever the agent takes for its
\* parent or its child has a :DOWN to come, also when it was dead before it was tracked
\* and when it is parent and child at once.
KnownPeersAreWatched == (children \cup {parent}) \ {None} \subseteq watched

\* "health degrades when bridge is unreachable": once the Rust core stays unreachable,
\* late results of earlier bridge checks do not hide it for ever.
OutageIsNoticed == <>[](up /\ bridge = "down") => <>[](health = "degraded")

\* The :unhealthy branch of run_task is dead code: recovery_attempts only grows when
\* the agent is unhealthy, and it is unhealthy only when it has grown.
NeverUnhealthy == health # "unhealthy" /\ recovery = 0

\* "Agents with `persistent: true` survive restarts via snapshots": an update that was
\* answered :ok is in the accumulated state, or in the file while the agent is down.
UpdatesSurvive == acked \subseteq (IF up THEN acc ELSE snapshot)
=============================================================================
