------------------------- MODULE AgentServer_proofs -------------------------
(***************************************************************************)
(* Theorems about AgentServer, for any number of calls, peers, keys and    *)
(* bridge checks.                                                          *)
(***************************************************************************)
EXTENDS AgentServer, TLAPS

\* A request in the mailbox has left no trace yet, a from that is kept has not been
\* answered, and pending_task and pending_delegations hold calls of their own kind.
CallInv(c) ==
  /\ replies[c] <= 1
  /\ call[c] = "new" \/ c \in mailbox =>
       replies[c] = 0 /\ task[c] = "none" /\ c # pending /\ c \notin delegations
  /\ call[c] = "new" => c \notin mailbox
  /\ c = pending => kind[c] = "run"
  /\ c \in delegations => kind[c] = "delegate"
  /\ c = pending \/ c \in delegations => replies[c] = 0 /\ task[c] # "none"

CallsInv == \A c \in Calls : CallInv(c)

-----------------------------------------------------------------------------
\* A new process watches peers only.
LEMMA ParentIsAPeer == {Parent} \ {None} \subseteq Peers
  BY AgentAssumption

LEMMA SavedIsStored == ASSUME TypeOK PROVE Saved \subseteq SUBSET Keys
  BY DEF Saved, TypeOK

LEMMA RestoredIsStored == ASSUME TypeOK PROVE Restored \subseteq SUBSET Keys
  BY DEF Restored, TypeOK

\* Every reachable state is well typed.
THEOREM TypeCorrect == Spec => []TypeOK
<1>1. Init => TypeOK
  <2> SUFFICES ASSUME Init PROVE TypeOK
    OBVIOUS
  <2>1. watched \subseteq Peers /\ parent \in Peers \cup {None}
    BY ParentIsAPeer, AgentAssumption DEF Init
  <2>2. /\ up \in BOOLEAN /\ bridgeHealthy \in BOOLEAN /\ stale \in BOOLEAN
        /\ status \in {"idle", "running"} /\ health \in Healths /\ recovery \in Nat
        /\ pending \in Calls \cup {None} /\ delegations \subseteq Calls /\ mailbox \subseteq Calls
        /\ overwritten \subseteq Calls
        /\ children \subseteq Peers /\ acc \subseteq Keys /\ snapshot \subseteq Keys
        /\ acked \subseteq Keys /\ bridge \in {"up", "down", "gone"}
    BY DEF Init, Healths
  <2>3. /\ call \in [Calls -> CallStates] /\ task \in [Calls -> TaskStates]
        /\ kind \in [Calls -> {"run", "delegate"}] /\ replies \in [Calls -> Nat]
        /\ probe \in [Probes -> ProbeStates] /\ peerAlive \in [Peers -> BOOLEAN]
    BY DEF Init, CallStates, TaskStates, ProbeStates
  <2> QED
    BY <2>1, <2>2, <2>3 DEF TypeOK
<1>2. TypeOK /\ [Next]_vars => TypeOK'
  <2> SUFFICES ASSUME TypeOK, [Next]_vars PROVE TypeOK'
    OBVIOUS
  <2> USE AgentAssumption DEF TypeOK, CallStates, TaskStates, ProbeStates, Healths,
        work, family, fitness, store, callers, world
  <2>1. ASSUME NEW c \in Calls, NEW k \in {"run", "delegate"}, Call(c, k) PROVE TypeOK'
    BY <2>1 DEF Call
  <2>2. ASSUME NEW c \in Calls, CallTimeout(c) PROVE TypeOK'
    BY <2>2 DEF CallTimeout
  <2>3. ASSUME NEW c \in Calls, Handle(c) PROVE TypeOK'
    <3>1. CASE RejectRun(c)
      BY <3>1 DEF RejectRun, Reply
    <3>2. CASE RunTask(c)
      BY <3>2 DEF RunTask
    <3>3. CASE ChildNotFound(c)
      BY <3>3 DEF ChildNotFound, Reply
    <3>4. ASSUME NEW p \in Peers, Delegate(c, p) PROVE TypeOK'
      BY <3>4 DEF Delegate
    <3>5. CASE RunResult(c)
      <4>1. /\ replies' \in [Calls -> Nat] /\ call' \in [Calls -> CallStates]
            /\ task' \in [Calls -> TaskStates]
        BY <3>5 DEF RunResult, Reply
      <4>2. status' = "idle" /\ pending' = None /\ stale' = FALSE
        BY <3>5 DEF RunResult
      <4> QED
        BY <3>5, <4>1, <4>2 DEF RunResult
    <3>6. CASE RunDown(c)
      BY <3>6 DEF RunDown, Reply
    <3>7. CASE DelegationEnds(c)
      BY <3>7 DEF DelegationEnds, Reply
    <3>8. CASE OutcomeIgnored(c)
      BY <3>8 DEF OutcomeIgnored
    <3> QED
      BY <2>3, <3>1, <3>2, <3>3, <3>4, <3>5, <3>6, <3>7, <3>8 DEF Handle
  <2>4. ASSUME NEW c \in Calls, TaskEnds(c) PROVE TypeOK'
    BY <2>4 DEF TaskEnds
  <2>5. ASSUME NEW k \in Keys, Update(k) PROVE TypeOK'
    BY <2>5 DEF Update
  <2>6. ASSUME NEW p \in Peers, PeerDies(p) \/ PeerDown(p) PROVE TypeOK'
    BY <2>6 DEF PeerDies, PeerDown
  <2>7. ASSUME NEW i \in Probes, HealthCheck(i) PROVE TypeOK'
    BY <2>7 DEF HealthCheck, EvaluateHealth
  <2>8. ASSUME NEW i \in Probes, ProbeEnds(i) \/ ProbeResult(i) PROVE TypeOK'
    BY <2>8 DEF ProbeEnds, ProbeResult
  <2>9. ASSUME NEW b \in {"up", "down", "gone"}, BridgeChanges(b) PROVE TypeOK'
    BY <2>9 DEF BridgeChanges
  <2>10. CASE TimePasses
    BY <2>10 DEF TimePasses
  <2>11. CASE Terminate \/ Kill
    <3>1. snapshot' \subseteq Keys
      BY <2>11, SavedIsStored DEF Terminate, Kill
    <3>2. Dies
      BY <2>11 DEF Terminate, Kill
    <3>3. watched' \subseteq Peers /\ parent' \in Peers \cup {None}
      BY <3>2, ParentIsAPeer DEF Dies, Reset
    <3>4. /\ call' \in [Calls -> CallStates] /\ task' \in [Calls -> TaskStates]
          /\ probe' \in [Probes -> ProbeStates]
      BY <3>2 DEF Dies, Waiting
    <3> QED
      BY <3>1, <3>2, <3>3, <3>4 DEF Dies, Reset
  <2>12. CASE Start
    BY <2>12, RestoredIsStored DEF Start
  <2>13. CASE UNCHANGED vars
    BY <2>13 DEF vars
  <2> QED
    BY <2>1, <2>2, <2>3, <2>4, <2>5, <2>6, <2>7, <2>8, <2>9, <2>10, <2>11, <2>12, <2>13 DEF Next
<1> QED
  BY <1>1, <1>2, PTL DEF Spec
-----------------------------------------------------------------------------
\* The :unhealthy state cannot be reached, so no task is ever rejected for it: of
\* recovery_attempts and :unhealthy each needs the other first.
THEOREM UnhealthyIsUnreachable == Spec => []NeverUnhealthy
<1>1. Init => NeverUnhealthy
  BY DEF Init, NeverUnhealthy
<1>2. NeverUnhealthy /\ [Next]_vars => NeverUnhealthy'
  <2> SUFFICES ASSUME NeverUnhealthy, [Next]_vars PROVE NeverUnhealthy'
    OBVIOUS
  <2>1. ASSUME NEW i \in Probes, HealthCheck(i) PROVE NeverUnhealthy'
    BY <2>1 DEF HealthCheck, EvaluateHealth, NeverUnhealthy
  <2>2. ASSUME Terminate \/ Kill PROVE NeverUnhealthy'
    BY <2>2 DEF Terminate, Kill, Dies, Reset, NeverUnhealthy
  <2>3. ASSUME UNCHANGED <<health, recovery>> PROVE NeverUnhealthy'
    BY <2>3 DEF NeverUnhealthy
  <2>4. ASSUME NEW c \in Calls, Handle(c) PROVE UNCHANGED <<health, recovery>>
    BY <2>4 DEF Handle, RejectRun, RunTask, ChildNotFound, Delegate, RunResult, RunDown,
      DelegationEnds, OutcomeIgnored, fitness
  <2>5. ASSUME NEW c \in Calls, NEW k \in {"run", "delegate"},
               Call(c, k) \/ CallTimeout(c) \/ TaskEnds(c)
        PROVE  UNCHANGED <<health, recovery>>
    BY <2>5 DEF Call, CallTimeout, TaskEnds, fitness
  <2>6. ASSUME NEW k \in Keys, Update(k) PROVE UNCHANGED <<health, recovery>>
    BY <2>6 DEF Update, fitness
  <2>7. ASSUME NEW p \in Peers, PeerDies(p) \/ PeerDown(p) PROVE UNCHANGED <<health, recovery>>
    BY <2>7 DEF PeerDies, PeerDown, fitness
  <2>8. ASSUME NEW i \in Probes, ProbeEnds(i) \/ ProbeResult(i)
        PROVE  UNCHANGED <<health, recovery>>
    BY <2>8 DEF ProbeEnds, ProbeResult, fitness
  <2>9. ASSUME NEW b \in {"up", "down", "gone"}, BridgeChanges(b) PROVE UNCHANGED <<health, recovery>>
    BY <2>9 DEF BridgeChanges, fitness
  <2>10. ASSUME TimePasses \/ Start \/ UNCHANGED vars PROVE UNCHANGED <<health, recovery>>
    BY <2>10 DEF TimePasses, Start, vars, fitness
  <2> QED
    BY <2>1, <2>2, <2>3, <2>4, <2>5, <2>6, <2>7, <2>8, <2>9, <2>10 DEF Next
<1> QED
  BY <1>1, <1>2, PTL DEF Spec
-----------------------------------------------------------------------------
\* What one caller sees of a step depends on few variables.
Unseen == <<pending, delegations, mailbox, call, kind, replies, overwritten, task>>

LEMMA CallsInvInit == Init => CallsInv
<1> SUFFICES ASSUME Init, NEW d \in Calls PROVE CallInv(d)
  BY DEF CallsInv
<1>1. d # None
  BY AgentAssumption
<1>2. /\ call[d] = "new" /\ replies[d] = 0 /\ task[d] = "none"
      /\ d \notin mailbox /\ d \notin delegations /\ pending = None
  BY DEF Init
<1> QED
  BY <1>1, <1>2 DEF CallInv

LEMMA CallsInvStep == TypeOK /\ CallsInv /\ [Next]_vars => CallsInv'
<1> SUFFICES ASSUME TypeOK, CallsInv, [Next]_vars, NEW d \in Calls PROVE CallInv(d)'
  BY DEF CallsInv
<1>0. CallInv(d) /\ d # None
  BY AgentAssumption DEF CallsInv
<1> USE <1>0 DEF CallInv, TypeOK, CallStates, TaskStates
<1>1. ASSUME NEW c \in Calls, NEW k \in {"run", "delegate"}, Call(c, k) PROVE CallInv(d)'
  BY <1>1 DEF Call, work
<1>2. ASSUME NEW c \in Calls, CallTimeout(c) PROVE CallInv(d)'
  BY <1>2 DEF CallTimeout, work, Waiting
<1>3. ASSUME NEW c \in Calls, Handle(c) PROVE CallInv(d)'
  <2>1. CASE RejectRun(c)
    BY <2>1 DEF RejectRun, Reply, work
  <2>2. CASE RunTask(c)
    BY <2>2 DEF RunTask
  <2>3. CASE ChildNotFound(c)
    BY <2>3 DEF ChildNotFound, Reply, work
  <2>4. ASSUME NEW p \in Peers, Delegate(c, p) PROVE CallInv(d)'
    BY <2>4 DEF Delegate
  <2>5. CASE RunResult(c)
    BY <2>5 DEF RunResult, Reply
  <2>6. CASE RunDown(c)
    BY <2>6 DEF RunDown, Reply
  <2>7. CASE DelegationEnds(c)
    BY <2>7 DEF DelegationEnds, Reply
  <2>8. CASE OutcomeIgnored(c)
    BY <2>8 DEF OutcomeIgnored, work, callers
  <2> QED
    BY <1>3, <2>1, <2>2, <2>3, <2>4, <2>5, <2>6, <2>7, <2>8 DEF Handle
<1>4. ASSUME NEW c \in Calls, TaskEnds(c) PROVE CallInv(d)'
  BY <1>4 DEF TaskEnds, work, callers
<1>5. CASE Terminate \/ Kill
  BY <1>5 DEF Terminate, Kill, Dies, Reset, Waiting
<1>6. CASE UNCHANGED Unseen
  BY <1>6 DEF Unseen
<1>7. ASSUME NEW k \in Keys, Update(k) PROVE UNCHANGED Unseen
  BY <1>7 DEF Update, Unseen, work, callers
<1>8. ASSUME NEW p \in Peers, PeerDies(p) \/ PeerDown(p) PROVE UNCHANGED Unseen
  BY <1>8 DEF PeerDies, PeerDown, Unseen, work, callers
<1>9. ASSUME NEW i \in Probes, HealthCheck(i) \/ ProbeEnds(i) \/ ProbeResult(i)
      PROVE  UNCHANGED Unseen
  BY <1>9 DEF HealthCheck, ProbeEnds, ProbeResult, Unseen, work, callers
<1>10. ASSUME NEW b \in {"up", "down", "gone"}, BridgeChanges(b) PROVE UNCHANGED Unseen
  BY <1>10 DEF BridgeChanges, Unseen, work, callers
<1>11. ASSUME TimePasses \/ Start \/ UNCHANGED vars PROVE UNCHANGED Unseen
  BY <1>11 DEF TimePasses, Start, vars, Unseen, work, callers
<1> QED
  BY <1>1, <1>2, <1>3, <1>4, <1>5, <1>6, <1>7, <1>8, <1>9, <1>10, <1>11 DEF Next

THEOREM CallsInvHolds == Spec => [](TypeOK /\ CallsInv)
<1>1. TypeOK /\ CallsInv /\ [Next]_vars => CallsInv'
  BY CallsInvStep
<1> QED
  BY <1>1, TypeCorrect, CallsInvInit, PTL DEF Spec

\* No caller is ever sent a second reply, however many calls, timeouts, crashes and
\* restarts there are, and whether or not run_task calls overlap.
THEOREM RepliesOnce == Spec => []AtMostOneReply
<1>1. CallsInv => AtMostOneReply
  BY DEF CallsInv, CallInv, AtMostOneReply
<1> QED
  BY <1>1, CallsInvHolds, PTL

-----------------------------------------------------------------------------
\* With graceful ends and a disk that works, a persistent agent keeps every update it
\* has acknowledged, through any number of restarts.
THEOREM AcknowledgedUpdatesSurvive ==
  ASSUME Persistent, ~ MayBeKilled, ~ DiskFaults
  PROVE  Spec => []UpdatesSurvive
<1>1. Init => UpdatesSurvive
  BY DEF Init, UpdatesSurvive
<1>2. UpdatesSurvive /\ [Next]_vars => UpdatesSurvive'
  <2> SUFFICES ASSUME UpdatesSurvive, [Next]_vars PROVE UpdatesSurvive'
    OBVIOUS
  <2>1. ASSUME NEW k \in Keys, Update(k) PROVE UpdatesSurvive'
    BY <2>1 DEF Update, UpdatesSurvive
  <2>2. CASE Terminate
    <3>1. snapshot' = acc
      BY <2>2 DEF Terminate, Saved
    <3> QED
      BY <2>2, <3>1 DEF Terminate, Dies, UpdatesSurvive
  <2>3. CASE Start
    <3>1. acc' = snapshot
      BY <2>3 DEF Start, Restored
    <3> QED
      BY <2>3, <3>1 DEF Start, UpdatesSurvive
  <2>4. ASSUME UNCHANGED <<up, store>> PROVE UpdatesSurvive'
    BY <2>4 DEF UpdatesSurvive, store
  <2>5. ASSUME NEW c \in Calls, Handle(c) PROVE UNCHANGED <<up, store>>
    BY <2>5 DEF Handle, RejectRun, RunTask, ChildNotFound, Delegate, RunResult, RunDown,
      DelegationEnds, OutcomeIgnored
  <2>6. ASSUME NEW c \in Calls, NEW k \in {"run", "delegate"},
               Call(c, k) \/ CallTimeout(c) \/ TaskEnds(c)
        PROVE  UNCHANGED <<up, store>>
    BY <2>6 DEF Call, CallTimeout, TaskEnds
  <2>7. ASSUME NEW p \in Peers, PeerDies(p) \/ PeerDown(p) PROVE UNCHANGED <<up, store>>
    BY <2>7 DEF PeerDies, PeerDown
  <2>8. ASSUME NEW i \in Probes, HealthCheck(i) \/ ProbeEnds(i) \/ ProbeResult(i)
        PROVE  UNCHANGED <<up, store>>
    BY <2>8 DEF HealthCheck, ProbeEnds, ProbeResult
  <2>9. ASSUME NEW b \in {"up", "down", "gone"}, BridgeChanges(b) PROVE UNCHANGED <<up, store>>
    BY <2>9 DEF BridgeChanges
  <2>10. ASSUME TimePasses \/ UNCHANGED vars PROVE UNCHANGED <<up, store>>
    BY <2>10 DEF TimePasses, vars
  <2>11. ~ Kill
    BY DEF Kill
  <2> QED
    BY <2>1, <2>2, <2>3, <2>4, <2>5, <2>6, <2>7, <2>8, <2>9, <2>10, <2>11 DEF Next
<1> QED
  BY <1>1, <1>2, PTL DEF Spec
-----------------------------------------------------------------------------
\* Rejections, results, crashes, timeouts and restarts forget no caller that waits; a
\* later run_task that takes its place is the only thing that does.  CallsInv is needed:
\* a Task whose outcome is dropped must not be the one a from is kept with.
LEMMA KnownStep ==
  TypeOK /\ CallsInv /\ NoCallForgotten /\ [Next]_vars => NoCallForgotten'
<1> SUFFICES ASSUME TypeOK, CallsInv, NoCallForgotten, [Next]_vars PROVE NoCallForgotten'
  OBVIOUS
<1> DEFINE Known(c) == Waiting(c) =>
             \/ c \in mailbox
             \/ task[c] # "none" /\ (pending = c \/ c \in delegations)
             \/ c \in overwritten
<1> SUFFICES ASSUME NEW d \in Calls PROVE Known(d)'
  BY DEF NoCallForgotten
<1>0. Known(d) /\ CallInv(d) /\ d # None
  BY AgentAssumption DEF NoCallForgotten, CallsInv
<1> USE <1>0 DEF Waiting, TypeOK, CallStates, TaskStates
<1>1. ASSUME NEW c \in Calls, NEW k \in {"run", "delegate"}, Call(c, k)
      PROVE  Known(d)'
  BY <1>1 DEF Call, work
<1>2. ASSUME NEW c \in Calls, CallTimeout(c) PROVE Known(d)'
  BY <1>2 DEF CallTimeout, work
<1>3. ASSUME NEW c \in Calls, Handle(c) PROVE Known(d)'
  <2> USE DEF CallInv
  <2>1. CASE RejectRun(c)
    BY <2>1 DEF RejectRun, Reply, work
  <2>2. CASE RunTask(c)
    BY <2>2 DEF RunTask
  <2>3. CASE ChildNotFound(c)
    BY <2>3 DEF ChildNotFound, Reply, work
  <2>4. ASSUME NEW p \in Peers, Delegate(c, p) PROVE Known(d)'
    BY <2>4 DEF Delegate
  <2>5. CASE RunResult(c)
    BY <2>5 DEF RunResult, Reply
  <2>6. CASE RunDown(c)
    BY <2>6 DEF RunDown, Reply
  <2>7. CASE DelegationEnds(c)
    BY <2>7 DEF DelegationEnds, Reply
  <2>8. CASE OutcomeIgnored(c)
    BY <2>8 DEF OutcomeIgnored, work, callers
  <2> QED
    BY <1>3, <2>1, <2>2, <2>3, <2>4, <2>5, <2>6, <2>7, <2>8 DEF Handle
<1>4. ASSUME NEW c \in Calls, TaskEnds(c) PROVE Known(d)'
  BY <1>4 DEF TaskEnds, work, callers
<1>5. CASE Terminate \/ Kill
  BY <1>5 DEF Terminate, Kill, Dies, Reset
<1>6. CASE UNCHANGED Unseen
  BY <1>6 DEF Unseen
<1>7. ASSUME NEW k \in Keys, Update(k) PROVE UNCHANGED Unseen
  BY <1>7 DEF Update, Unseen, work, callers
<1>8. ASSUME NEW p \in Peers, PeerDies(p) \/ PeerDown(p) PROVE UNCHANGED Unseen
  BY <1>8 DEF PeerDies, PeerDown, Unseen, work, callers
<1>9. ASSUME NEW i \in Probes, HealthCheck(i) \/ ProbeEnds(i) \/ ProbeResult(i)
      PROVE  UNCHANGED Unseen
  BY <1>9 DEF HealthCheck, ProbeEnds, ProbeResult, Unseen, work, callers
<1>10. ASSUME NEW b \in {"up", "down", "gone"}, BridgeChanges(b) PROVE UNCHANGED Unseen
  BY <1>10 DEF BridgeChanges, Unseen, work, callers
<1>11. ASSUME TimePasses \/ Start \/ UNCHANGED vars PROVE UNCHANGED Unseen
  BY <1>11 DEF TimePasses, Start, vars, Unseen, work, callers
<1> QED
  BY <1>1, <1>2, <1>3, <1>4, <1>5, <1>6, <1>7, <1>8, <1>9, <1>10, <1>11 DEF Next

THEOREM WaitingCallsAreKnown == Spec => []NoCallForgotten
<1>1. Init => NoCallForgotten
  BY DEF Init, NoCallForgotten, Waiting
<1>2. TypeOK /\ CallsInv /\ NoCallForgotten /\ [Next]_vars => NoCallForgotten'
  BY KnownStep
<1> QED
  BY <1>1, <1>2, CallsInvHolds, PTL DEF Spec
-----------------------------------------------------------------------------
\* The status that callers read follows pending_task in every reachable state.
THEOREM StatusFollowsPending == Spec => []RunningIffPending
<1>1. Init => RunningIffPending
  BY DEF Init, RunningIffPending
<1>2. RunningIffPending /\ [Next]_vars => RunningIffPending'
  <2> SUFFICES ASSUME RunningIffPending, [Next]_vars PROVE RunningIffPending'
    OBVIOUS
  <2>1. ASSUME NEW c \in Calls, Handle(c) PROVE RunningIffPending'
    <3>1. c # None
      BY AgentAssumption
    <3>2. CASE RunTask(c)
      BY <3>1, <3>2 DEF RunTask, RunningIffPending
    <3>3. CASE RunResult(c) \/ RunDown(c)
      BY <3>3 DEF RunResult, RunDown, RunningIffPending
    <3>4. CASE RejectRun(c) \/ ChildNotFound(c) \/ DelegationEnds(c) \/ OutcomeIgnored(c)
                \/ \E p \in Peers : Delegate(c, p)
      BY <3>4 DEF RejectRun, ChildNotFound, DelegationEnds, OutcomeIgnored, Delegate, work,
        RunningIffPending
    <3> QED
      BY <2>1, <3>2, <3>3, <3>4 DEF Handle
  <2>2. CASE Terminate \/ Kill
    BY <2>2 DEF Terminate, Kill, Dies, Reset, RunningIffPending
  <2>3. \/ \E c \in Calls : Handle(c)
        \/ Terminate \/ Kill
        \/ UNCHANGED <<status, pending>>
    BY DEF Next, vars, work, Call, CallTimeout, TaskEnds, Update, PeerDies, PeerDown, HealthCheck,
      ProbeEnds, ProbeResult, BridgeChanges, TimePasses, Start
  <2> QED
    BY <2>1, <2>2, <2>3 DEF RunningIffPending
<1> QED
  BY <1>1, <1>2, PTL DEF Spec
-----------------------------------------------------------------------------
\* No pid of a dead process stays among the parent and the children unnoticed: the
\* monitor that forgets it is there in every reachable state.
THEOREM KnownPeersHaveMonitors == Spec => []KnownPeersAreWatched
<1> USE DEF KnownPeersAreWatched
<1>1. Init => KnownPeersAreWatched
  BY DEF Init
<1>2. KnownPeersAreWatched /\ [Next]_vars => KnownPeersAreWatched'
  <2> SUFFICES ASSUME KnownPeersAreWatched, [Next]_vars PROVE KnownPeersAreWatched'
    OBVIOUS
  <2>1. CASE \E c \in Calls, p \in Peers : Delegate(c, p)
    BY <2>1 DEF Delegate
  <2>2. CASE \E p \in Peers : PeerDown(p)
    BY <2>2 DEF PeerDown
  <2>3. CASE Terminate \/ Kill
    BY <2>3 DEF Terminate, Kill, Dies, Reset
  <2>4. \/ \E c \in Calls, p \in Peers : Delegate(c, p)
        \/ \E p \in Peers : PeerDown(p)
        \/ Terminate \/ Kill
        \/ UNCHANGED family
    BY DEF Next, Handle, vars, family, Call, CallTimeout, RejectRun, RunTask, ChildNotFound,
      RunResult, RunDown, DelegationEnds, OutcomeIgnored, TaskEnds, Update, PeerDies,
      HealthCheck, ProbeEnds, ProbeResult, BridgeChanges, TimePasses, Start
  <2> QED
    BY <2>1, <2>2, <2>3, <2>4 DEF family
<1> QED
  BY <1>1, <1>2, PTL DEF Spec
=============================================================================
