---------------------------- MODULE SessionBridge ----------------------------
(***************************************************************************)
(* The session bridge (hooks/builtin/session_bridge): it binds a           *)
(* conversation, a (channel, sender) pair, to a Claude Code child process  *)
(* and routes the messages of the conversation to the child's stdin.       *)
(*                                                                         *)
(* The dispatch loop of channels/mod.rs handles every message in a worker  *)
(* task of its own, so handlers run at the same time.  A handler is a      *)
(* sequence of steps that each hold one lock: the RwLock of the binding    *)
(* table or the Mutex of the process manager.  The lock is held until the  *)
(* table is on disk, so a change and its save are one step.  Between two   *)
(* awaits a task is not preempted here: a reader that sees the end of the  *)
(* output is queued on the Mutex, where abort() ends it.                   *)
(*                                                                         *)
(* Replies to the user, /status and the commands that pass through change  *)
(* nothing and are left out; so are commands that fail before the table is *)
(* read (unknown agent, bad directory).                                    *)
(***************************************************************************)
EXTENDS Integers, FiniteSets

CONSTANTS
  Keys,                  \* conversations: (channel, sender) pairs
  Handlers,              \* worker tasks of the dispatch loop
  Sessions,              \* children that may exist at a time
  max_sessions,
  CRASH_COOLDOWN_MAX,
  STDIN_CHANNEL_BUFFER,
  PipeRoom,              \* messages the stdin pipe and the child hold
  UsizeValues,           \* how many values a usize has
  None

ASSUME BridgeAssumption ==
  /\ IsFiniteSet(Keys) /\ IsFiniteSet(Handlers) /\ Handlers # {}
  /\ {max_sessions, STDIN_CHANNEL_BUFFER, PipeRoom} \subseteq Nat
  /\ {CRASH_COOLDOWN_MAX, UsizeValues} \subseteq Nat \ {0}
  /\ None \notin Sessions \cup Keys

VARIABLES
  bindings,        \* the binding of a key: "free" (none), "active" or "stale"
  disk,            \* keys in session_bridge_bindings.json
  unconfirmed,     \* keys bound by a connect that was told the bind had failed
  processes,       \* ProcessManagerInner.processes: the session of a key, or None
  crash_records,   \* crashes of a key in the last CRASH_COOLDOWN_SECS
  pc,              \* the step a handler takes next; "idle" when it is free
  conv,            \* the conversation of a handler's message, None when it is free
  owner,           \* the key a session was spawned for, None when it does not exist
  reader,          \* the child of a session and its stdout reader: see ReaderStates
  pending,         \* pending_messages of a session, a usize
  unanswered       \* messages a session accepted and has no result line for

table == <<bindings, disk, unconfirmed>>
pipe == <<pending, unanswered>>
children == <<processes, owner, reader>>
handlers == <<pc, conv>>
vars == <<table, children, pipe, crash_records, handlers>>

\* "none": no child; "reading": the child runs; "eof": its output has ended (the code
\* takes this for its exit) and the reader waits for the process manager; "unbinding":
\* the process is removed, the binding not yet.
ReaderStates == {"none", "reading", "eof", "unbinding"}
Steps == {"idle", "cooldown", "count", "bind", "spawn", "kill", "route", "unbind"}

Active == {k \in Keys : bindings[k] = "active"}

TypeOK ==
  /\ bindings \in [Keys -> {"free", "active", "stale"}]
  /\ disk \subseteq Keys /\ unconfirmed \subseteq Keys
  /\ processes \in [Keys -> Sessions \cup {None}]
  /\ crash_records \in [Keys -> 0..CRASH_COOLDOWN_MAX]
  /\ pc \in [Handlers -> Steps] /\ conv \in [Handlers -> Keys \cup {None}]
  /\ \A h \in Handlers : conv[h] = None <=> pc[h] = "idle"
  /\ owner \in [Sessions -> Keys \cup {None}] /\ reader \in [Sessions -> ReaderStates]
  /\ \A s \in Sessions : owner[s] = None <=> reader[s] = "none"
  /\ pending \in [Sessions -> 0..(UsizeValues - 1)]
  /\ unanswered \in [Sessions -> 0..(STDIN_CHANNEL_BUFFER + PipeRoom)]

Init ==
  /\ bindings = [k \in Keys |-> "free"] /\ disk = {} /\ unconfirmed = {}
  /\ processes = [k \in Keys |-> None]
  /\ crash_records = [k \in Keys |-> 0]
  /\ pc = [h \in Handlers |-> "idle"] /\ conv = [h \in Handlers |-> None]
  /\ owner = [s \in Sessions |-> None] /\ reader = [s \in Sessions |-> "none"]
  /\ pending = [s \in Sessions |-> 0] /\ unanswered = [s \in Sessions |-> 0]

-----------------------------------------------------------------------------
(* Messages arrive and are handled.                                        *)

Goto(h, step) == pc' = [pc EXCEPT ![h] = step] /\ UNCHANGED conv

Done(h) ==
  /\ pc' = [pc EXCEPT ![h] = "idle"]
  /\ conv' = [conv EXCEPT ![h] = None]

Take(h, k, step) ==
  /\ pc[h] = "idle"
  /\ pc' = [pc EXCEPT ![h] = step]
  /\ conv' = [conv EXCEPT ![h] = k]
  /\ UNCHANGED <<table, children, pipe, crash_records>>

\* /connect of a conversation that has no active binding
Connect(h, k) == bindings[k] # "active" /\ Take(h, k, "cooldown")

\* /disconnect of a conversation that has a binding, stale or not
Disconnect(h, k) == bindings[k] # "free" /\ Take(h, k, "kill")

\* any other message: cleans up a stale binding, or is routed to the child
Message(h, k) ==
  \/ bindings[k] = "stale" /\ Take(h, k, "unbind")
  \/ bindings[k] = "active" /\ Take(h, k, "route")

CheckCooldown(h) ==
  /\ pc[h] = "cooldown"
  /\ IF crash_records[conv[h]] >= CRASH_COOLDOWN_MAX THEN Done(h) ELSE Goto(h, "count")
  /\ UNCHANGED <<table, children, pipe, crash_records>>

CheckMaxSessions_OffByOne(h) ==
  /\ pc[h] = "count"
  /\ IF Cardinality(Active) > max_sessions THEN Done(h) ELSE Goto(h, "bind")
  /\ UNCHANGED <<table, children, pipe, crash_records>>

CheckMaxSessions(h) ==
  /\ pc[h] = "count"
  /\ IF Cardinality(Active) >= max_sessions THEN Done(h) ELSE Goto(h, "bind")
  /\ UNCHANGED <<table, children, pipe, crash_records>>

\* When the save fails the binding stays in the table although bind returns an error.
Bind(h) ==
  LET k == conv[h] IN
  /\ pc[h] = "bind"
  /\ \/ /\ bindings[k] = "active"
        /\ Done(h)
        /\ UNCHANGED table
     \/ /\ bindings[k] # "active"
        /\ bindings' = [bindings EXCEPT ![k] = "active"]
        /\ \/ /\ disk' = {j \in Keys : bindings[j] # "free"} \cup {k}
              /\ Goto(h, "spawn")
              /\ UNCHANGED unconfirmed
           \/ /\ unconfirmed' = unconfirmed \cup {k}
              /\ Done(h)
              /\ UNCHANGED disk
  /\ UNCHANGED <<children, pipe, crash_records>>

SpawnFails_BindingKept(h) ==
  /\ pc[h] = "spawn"
  /\ Done(h)
  /\ UNCHANGED <<table, children, pipe, crash_records>>

\* A process runs for the key, or the command cannot be started: roll back.
SpawnFails(h) ==
  /\ pc[h] = "spawn"
  /\ Goto(h, "unbind")
  /\ UNCHANGED <<table, children, pipe, crash_records>>

Started(h, k) ==
  \E s \in Sessions :
    /\ reader[s] = "none"
    /\ processes' = [processes EXCEPT ![k] = s]
    /\ owner' = [owner EXCEPT ![s] = k]
    /\ reader' = [reader EXCEPT ![s] = "reading"]
    /\ Done(h)
    /\ UNCHANGED <<table, pipe, crash_records>>

Spawn(h) ==
  /\ pc[h] = "spawn"
  /\ processes[conv[h]] = None
  /\ Started(h, conv[h])

Kill_ReaderLives(h) ==
  /\ pc[h] = "kill"
  /\ processes' = [processes EXCEPT ![conv[h]] = None]
  /\ Goto(h, "unbind")
  /\ UNCHANGED <<table, owner, reader, pipe, crash_records>>

\* A session whose reader is gone leaves nothing behind: its id is free again.
Released(S) ==
  /\ reader' = [s \in Sessions |-> IF s \in S THEN "none" ELSE reader[s]]
  /\ owner' = [s \in Sessions |-> IF s \in S THEN None ELSE owner[s]]
  /\ pending' = [s \in Sessions |-> IF s \in S THEN 0 ELSE pending[s]]
  /\ unanswered' = [s \in Sessions |-> IF s \in S THEN 0 ELSE unanswered[s]]

\* Kills the child, if there is one, and aborts its reader, which is at an await.
Kill(h) ==
  /\ pc[h] = "kill"
  /\ processes' = [processes EXCEPT ![conv[h]] = None]
  /\ Released({processes[conv[h]]})
  /\ Goto(h, "unbind")
  /\ UNCHANGED <<table, crash_records>>

Route_CountsFirst(h) ==
  LET s == processes[conv[h]] IN
  /\ pc[h] = "route"
  /\ Done(h)
  /\ IF s = None THEN UNCHANGED pipe ELSE
       /\ pending' = [pending EXCEPT ![s] = @ + 1]
       /\ UNCHANGED unanswered
  /\ UNCHANGED <<table, children, crash_records>>

\* There is no process, or try_send fails: the channel is full, or closed because the
\* child does not read, and the counter is taken back.
Route(h) ==
  LET s == processes[conv[h]] IN
  /\ pc[h] = "route"
  /\ Done(h)
  /\ \/ /\ s # None => reader[s] # "reading" \/ unanswered[s] >= STDIN_CHANNEL_BUFFER
        /\ UNCHANGED pipe
     \/ /\ s # None
        /\ unanswered[s] < STDIN_CHANNEL_BUFFER + PipeRoom
        /\ unanswered' = [unanswered EXCEPT ![s] = @ + 1]
        /\ pending' = [pending EXCEPT ![s] = (@ + 1) % UsizeValues]
  /\ UNCHANGED <<table, children, crash_records>>

Unbound_MarksStale(k) ==
  /\ bindings' = [bindings EXCEPT ![k] = IF @ = "free" THEN @ ELSE "stale"]
  /\ unconfirmed' = unconfirmed \ {k}
  /\ UNCHANGED disk

\* BindingTable.unbind: a missing binding is not saved, and the save may fail.
Unbound(k) ==
  /\ bindings' = [bindings EXCEPT ![k] = "free"]
  /\ unconfirmed' = unconfirmed \ {k}
  /\ \/ bindings[k] # "free" /\ disk' = {j \in Keys \ {k} : bindings[j] # "free"}
     \/ UNCHANGED disk

\* The last step of /disconnect, of a rollback and of the cleanup of a stale binding:
\* it removes the binding of the key, whoever made it.
Unbind(h) ==
  /\ pc[h] = "unbind"
  /\ Unbound(conv[h])
  /\ Done(h)
  /\ UNCHANGED <<children, pipe, crash_records>>

-----------------------------------------------------------------------------
(* A child and its stdout reader.                                          *)

\* A text of the assistant is one line of a turn, and the result its last: each takes
\* one off the counter.
AssistantLine(s) ==
  /\ reader[s] = "reading" /\ unanswered[s] > 0
  /\ pending' = [pending EXCEPT ![s] = (@ - 1) % UsizeValues]
  /\ UNCHANGED <<table, children, unanswered, crash_records, handlers>>

ResultLine(s) ==
  /\ reader[s] = "reading" /\ unanswered[s] > 0
  /\ pending' = [pending EXCEPT ![s] = (@ - 1) % UsizeValues]
  /\ unanswered' = [unanswered EXCEPT ![s] = @ - 1]
  /\ UNCHANGED <<table, children, crash_records, handlers>>

\* The child exits, or closes its output, or a read error ends the reader.
OutputEnds(s) ==
  /\ reader[s] = "reading"
  /\ reader' = [reader EXCEPT ![s] = "eof"]
  /\ UNCHANGED <<table, processes, owner, pipe, crash_records, handlers>>

\* The entry is removed by key: no session id is compared.
ReaderRemoves(s) ==
  LET k == owner[s] IN
  /\ reader[s] = "eof"
  /\ processes' = [processes EXCEPT ![k] = None]
  /\ crash_records' = [crash_records EXCEPT
                         ![k] = IF @ = CRASH_COOLDOWN_MAX THEN @ ELSE @ + 1]
  /\ reader' = [reader EXCEPT ![s] = "unbinding"]
  /\ UNCHANGED <<table, owner, pipe, handlers>>

ReaderUnbinds(s) ==
  /\ reader[s] = "unbinding"
  /\ Unbound(owner[s])
  /\ Released({s})
  /\ UNCHANGED <<processes, crash_records, handlers>>

\* A crash is older than CRASH_COOLDOWN_SECS.
CrashForgotten(k) ==
  /\ crash_records[k] > 0
  /\ crash_records' = [crash_records EXCEPT ![k] = @ - 1]
  /\ UNCHANGED <<table, children, pipe, handlers>>

Restart_KeepsActive ==
  /\ bindings' = [k \in Keys |-> IF k \in disk THEN "active" ELSE "free"]
  /\ unconfirmed' = {}
  /\ processes' = [k \in Keys |-> None]
  /\ Released(Sessions)
  /\ crash_records' = [k \in Keys |-> 0]
  /\ pc' = [h \in Handlers |-> "idle"] /\ conv' = [h \in Handlers |-> None]
  /\ UNCHANGED disk

\* The daemon ends and starts again: the tasks are gone, the children are killed when
\* the runtime drops the readers, and BindingTable::load marks every binding stale.
Restart ==
  /\ bindings' = [k \in Keys |-> IF k \in disk THEN "stale" ELSE "free"]
  /\ unconfirmed' = {}
  /\ processes' = [k \in Keys |-> None]
  /\ Released(Sessions)
  /\ crash_records' = [k \in Keys |-> 0]
  /\ pc' = [h \in Handlers |-> "idle"] /\ conv' = [h \in Handlers |-> None]
  /\ UNCHANGED disk

Step(h) ==
  \/ CheckCooldown(h) \/ CheckMaxSessions(h) \/ Bind(h) \/ Spawn(h) \/ SpawnFails(h)
  \/ Kill(h) \/ Route(h) \/ Unbind(h)

Next ==
  \/ \E h \in Handlers :
       \/ \E k \in Keys : Connect(h, k) \/ Disconnect(h, k) \/ Message(h, k)
       \/ Step(h)
  \/ \E s \in Sessions :
       \/ AssistantLine(s) \/ ResultLine(s) \/ OutputEnds(s)
       \/ ReaderRemoves(s) \/ ReaderUnbinds(s)
  \/ \E k \in Keys : CrashForgotten(k)
  \/ Restart

Spec == Init /\ [][Next]_vars

\* A task that can run is run, the locks are fair, and a save ends.  Users and children
\* are not obliged to anything.
Fairness ==
  /\ \A h \in Handlers : WF_vars(Step(h))
  /\ \A s \in Sessions : WF_vars(ReaderRemoves(s) \/ ReaderUnbinds(s))

FairSpec == Spec /\ Fairness
-----------------------------------------------------------------------------
(* Properties.  TypeOK also says what the fields of an idle handler and of a session  *)
(* that does not exist hold, and that the counter stays a usize.                      *)

\* A reader removes the entry of its key without comparing session ids.  It never
\* takes another session's: the entry is its own from the spawn until it has removed
\* it, and no entry outlives its reader, however disconnects, reconnects and crashes
\* interleave.
ReaderOwnsEntry ==
  \A s \in Sessions, k \in Keys :
    processes[k] = s <=> owner[s] = k /\ reader[s] \in {"reading", "eof"}

\* "One user, one session per channel": no two children whose output goes to a user
\* serve the same conversation, even with several connects past every check.
OneSessionPerKey ==
  \A s, t \in Sessions :
    reader[s] = "reading" /\ reader[t] = "reading" /\ owner[s] = owner[t] => s = t

Mover(h, k) == conv[h] = k /\ pc[h] \in {"spawn", "unbind"}
Leaver(s, k) == owner[s] = k /\ reader[s] = "unbinding"

\* An active binding has a child, or somebody is about to give it one or to remove it;
\* only a bind whose save failed leaves a binding that nobody looks after.
BoundMeansServed ==
  \A k \in Active \ unconfirmed :
    \/ processes[k] # None
    \/ \E h \in Handlers : Mover(h, k)
    \/ \E s \in Sessions : Leaver(s, k)

\* A stale binding belongs to an earlier run: no child serves its conversation and no
\* connect is about to start one, so the cleanup that follows its lookup kills nothing.
StaleIsDead ==
  \A k \in Keys : bindings[k] = "stale" =>
    processes[k] = None /\ \A h \in Handlers : ~ (pc[h] = "spawn" /\ conv[h] = k)

\* The number of sessions is read before the bind.  Connects that pass the check
\* together exceed the cap, by fewer than the messages in flight.
CapOvershoot ==
  Cardinality(Active) + Cardinality({h \in Handlers : pc[h] = "bind"})
    <= max_sessions + Cardinality(Handlers) - 1

\* A user whose messages go nowhere is not left so: an active binding without a child
\* gets one or goes away, unless the save of its bind failed.
BindingSettles ==
  \A k \in Keys :
    (k \in Active \ unconfirmed /\ processes[k] = None)
      ~> (k \notin Active \/ k \in unconfirmed \/ processes[k] # None)
-----------------------------------------------------------------------------
(* What the documents claim and the code does not keep.                    *)

Quiet(k) ==
  /\ \A h \in Handlers : pc[h] = "idle" \/ conv[h] # k
  /\ \A s \in Sessions : owner[s] = k => reader[s] \in {"none", "reading"}

\* "One process per /connect, lives until /disconnect or crash": with no message of the
\* conversation under way, a conversation that has a child is bound to it.
ChildIsBound == \A k \in Keys : Quiet(k) /\ processes[k] # None => bindings[k] = "active"

\* Nobody is about to remove the binding of a conversation whose child a connect is about
\* to start: the window in which ChildIsBound is lost.
NoRemovalMeetsSpawn ==
  \A h \in Handlers : pc[h] = "spawn" =>
    /\ \A g \in Handlers : ~ (conv[g] = conv[h] /\ pc[g] = "unbind")
    /\ \A s \in Sessions : ~ Leaver(s, conv[h])

\* "Number of messages currently queued (sent but not yet responded to)": at most the
\* messages the child has not finished with.
PendingIsQueued ==
  \A s \in Sessions : reader[s] = "reading" => pending[s] <= unanswered[s]
=============================================================================
