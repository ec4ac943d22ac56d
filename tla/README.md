# rustyclaw in TLA+

rustyclaw is a personal multi-agent runtime: a Rust core (channels, the agent loop, providers,
tools, memory, a daemon) and an Elixir/OTP orchestrator (named agents, delegation, synthesized
tools, coding plugins) that the daemon starts and that talks to the core over loopback HTTP.
This directory holds TLA+ modules for the parts whose state is shared by several actors, TLC
configurations that check them on small instances, and TLAPS proofs of the main invariants for
every value of the constants.  `PROJECT.json` maps each definition to the lines it models
and lists components, runs, hazards, findings and theorems.

Paths below: `E/` is `src/elixir/rustyclaw_orchestrator/lib/rustyclaw_orchestrator/`,
`R/` is `src/src/`.

To check a configuration: `tlc -config MCResourceLock_crash.cfg MCResourceLock.tla`; to check a
proof module: `tlapm ResourceLock_proofs.tla`.

## 1. The system

### 1.1 Parts with state of their own

| Part | State | Operations | Hard behaviour | Correct when |
|---|---|---|---|---|
| ResourceLock `E/resource_lock.ex` | one public ETS row per resource | acquire with priority and deadline, release, a monitor process per acquisition | no server: every caller reads and writes the table itself, in several ETS calls; holders die | holders exclude one another; a lock is not leaked; a dead holder's lock comes free |
| AgentServer `E/agent_server.ex`, AgentSupervisor | one process per agent: pending task, delegations, parent, children, health, accumulated state, snapshot file | run_task, delegate_to_child, update_accumulated_state, health check, messages, terminate, restart | replies sent from Task outcomes; callers that time out; crashes of Tasks, children, the agent | every caller gets one answer, its own; no caller hangs; acknowledged updates survive; an outage shows |
| SessionBridge `R/hooks/builtin/session_bridge/` | binding table (memory and file), child processes, reader tasks, crash counts | /connect, /disconnect, message, output of the child, restart | message handlers are concurrent; each takes two locks one after the other; children crash | a conversation is bound exactly when a child serves it; the cap holds; nobody is left talking to nothing |
| CronScheduler `R/cron/` | SQLite rows of jobs, the batch of the current poll | add, update, pause, remove; poll, run, store the outcome | rows read at the poll are used after a run of any length; whole-row updates; restarts | one run per occurrence; a one-shot ends |
| Tool lifecycle `E/tool_synthesis/{registry,probation,improver,persistence}.ex` | ETS table of tools with status and counts; windows; files | register, execute, record, promote, suspend, deprecate, improve, roll back | counts and status are read-modify-write of the same entry by different processes | a suspended tool stays so; counts are those of the invocations |
| AgentCoordinator `E/agent_coordinator.ex` | definitions, ACL, rules | delegate: single, sequential, fan-out; agents started on demand | lookup then spawn; calls that exit in the middle of a strategy | an agent that runs is not refused; one failure does not take the others with it |
| RustBridge `E/rust_bridge.ex` | table of pending calls, retries left | run_task, health check | retries of a request that may be under way | one reply per call; a task is not run twice |
| Channel dispatch `R/channels/mod.rs` | permits, in-flight map with tokens and completion marks, conversation histories | receive, spawn, interrupt, wait, process, /new, compact, roll back | a task per message on several threads; a reply may be there before the cancellation is seen; load-then-wait of a notification | one request per chat and sender; a request is made from its own message; no turn stays open; every message ends |
| Auth profiles `R/auth/{profiles,mod}.rs` | one file of profiles, a lock file, refresh mutexes and backoffs of each process | token, login, remove, choose the active one; refresh | several processes; a mutex that is only one process's; dropped requests whose file operation goes on; lost answers | changes are serial; a process spends a refresh token once; a backoff is kept; nobody waits for ever |
| PairingGuard `R/security/pairing.rs`, POST /pair, /bind, config.toml | one-time code, failed attempts by client, tokens and allowed users, the saved configuration | try_pair, save the grant, restart | check, compare and count under three separate locks; a dropped request; writers that replace the whole file | guesses are bounded; a code admits one client; a saved grant stays |
| Daemon supervisors `R/daemon/{mod,elixir}.rs` | component tasks, the orchestrator's child process, health | start, restart with backoff, health check, stop | a stop during a start; panics | a component that ended is restarted or reported |

How they interact: the channel dispatch loop (`R/channels/mod.rs`) handles each message in its
own task and offers it to the hooks first, where the SessionBridge may take it; otherwise the
agent loop runs.  The core's tools call the orchestrator's HTTP routers; AgentCoordinator starts
agents through AgentSupervisor and calls AgentServer; AgentServer runs its tasks through
RustBridge, which posts to the core's gateway.  A BtwServer takes the ResourceLock "browser" with
priority :btw around its one task, a Worker that of its repository with priority :main.
The daemon runs gateway, channels, heartbeat, scheduler and orchestrator under restart loops of its
own.  Providers ask AuthService for a token at each
request, and the terminal's `auth` commands change the same store from another process.  The
gateway and the Telegram channel let clients in with a PairingGuard and keep the grants in
config.toml, which each of its writers replaces as a whole: these two, PUT /api/config, and the
tools that change the model routing and the proxy.

### 1.2 Parts not modelled, and why

- Some parts have state but no user in the program.  No plugin is ever registered (nothing calls
  `Manager.start_plugin`), so that every issue of a TaskOrchestrator session ends with
  `:no_available_plugin`, no retry is scheduled and no Worker gets past the choice of a plugin.
  CostTracker is built for the gateway's dashboard only: nothing checks a budget or records a
  cost.  The SOP engine (`R/sop/`, `R/tools/sop_*.rs`) is not compiled: no module declares it and
  the configuration type it imports does not exist.  SubAgentSession's table is created and never
  used; TaskQueue is started with `poll_interval_ms: 0` (`E/application.ex:79`) and nothing pushes
  to it.
- The tool lifecycle, AgentCoordinator, RustBridge's table of pending calls and the restart loops
  of the daemon can be modelled and are what the plan (section 6) has left.
- Sequential parts whose branches depend on text: the agent loop, prompt building, hooks other
  than the session bridge, sentinel and leak patterns, skill and agent definitions.
- State behind a single lock with one short operation each, which unit tests reach: e-stop, OTP,
  approvals, rate limits, health registry, trajectory buffers.
- Adapters and I/O: channels, providers, most tools, memory backends, tunnels, runtimes,
  observability, onboarding, hardware, the firmware, the web interface.

Every part is listed with its reason under `components`.

## 2. Modules

| Module | Models | State (code) |
|---|---|---|
| `ExclusiveLock` | abstract: what ResourceLock promises, deaths included | `holder`, `using`, `live` |
| `ServingLine` | abstract: what the in-flight map of the channel dispatch promises | `place`, `chat`, `number`, `given` |
| `ResourceLock` | `E/resource_lock.ex` for one resource, with the ends of BtwServers and the release of Workers | `row` (the ETS row), `monitors` (monitor processes), per process `pc`, `tries`, `saw` (pid looked up), `ref` (lock_ref), `claims` (was told it holds the lock), `alive` |
| `AgentServer` | one agent, its callers, Tasks, relatives, bridge and disk | `pending` (pending_task), `delegations`, `status`, `parent`, `children`, `watched` (monitors), `health`, `recovery`, `bridgeHealthy`, `stale`, `acc`, `snapshot`; environment: `mailbox`, `call`, `task`, `probe`, `peerAlive`, `bridge`; ghosts `replies`, `acked`, `overwritten` (callers of run_task whose place in pending_task a later one took) |
| `SessionBridge` | the three files of the bridge | `bindings`, `disk` (the table and its file), `processes` (ProcessManager's map), `owner`, `reader` (children and their reader tasks), `pending`, `unanswered` (the stdin queue), `crash_records`, per handler `pc`, `conv`; ghost `unconfirmed` (a bind whose save failed) |
| `CronScheduler` | the daemon's loop, the store, concurrent callers | `jobs` (table rows), `batch` (tasks of process_due_jobs, with the row as polled), `patches` (update_job between its two statements), `now`, `used`, `calls`, `faults`; ghost `served` (the next_run the last run of a job was for) |
| `ChannelDispatch` | the dispatch loop, the workers and the histories | `interrupt_enabled`, `max_in_flight_messages` (fixed at the start), `pc`, `scope` (interruption_scope_key), `in_flight` (in_flight_by_sender), `previous` and `cancelled` (the replaced task, the tokens), `histories` (conversation_histories); the permits and the completion marks are read off `pc`; auxiliary `closed`, `missed`, `rank`, `registrations` |
| `AuthProfiles` | `R/auth/profiles.rs` and the refresh in `R/auth/mod.rs` | `file` (auth-profiles.json), `lock` (the lock file), per worker `kind`, `profile`, `stage`, `where`, `data`, `refresh_token`, `tokens`, `attempts`; `refresh_lock`, `backoffs` (of a process and profile); `late` (a write of a dropped request); the provider: `issued`, `expiring`, `rotates`, `spent`; auxiliary `loose`, `lost` |
| `Pairing` | `R/security/pairing.rs`, POST /pair, /bind, the saves of config.toml by these, by PUT /api/config and by the tools | `guarded`, `code`, `admitted` (paired_tokens, allowed_users), `attempts` (failed_attempts), `disk` (config.toml), `memory` (AppState.config), per request or tool call `client`, `right`, `stage`, `copy`, `dropped`; auxiliary `admissions`, `saved` |

`MC*` modules instantiate them for TLC; `*_proofs` modules hold the theorems (`ServingLine_proofs`
those on the refinement of `ServingLine` by `ChannelDispatch`).

**Atomicity.** A step is what the code cannot interleave: one ETS call (ResourceLock), one
GenServer callback (AgentServer), one critical section with the save it holds the lock for
(SessionBridge), one SQL statement, since every statement opens its own connection
(CronScheduler), what is done under one mutex or between two awaits (ChannelDispatch, Pairing).
In AuthProfiles only the holder of the lock file touches the store, so its load is one step with
the creation of the lock file, and the rename of the new file is another.  A function that makes
two such calls is two actions with a program counter.

**Abstractions.**
- ResourceLock: one resource (no function touches two rows); time is a number of attempts.
- AgentServer: a call is made once; the history of messages, which no branch reads, is left out
  (send_message, report_to_parent, child_report); times are `stale` (five minutes passed since
  the last successful task) and the health timer.
- SessionBridge: a task is not preempted between two awaits; a reader at the end of the output is
  queued on the mutex, where it can be aborted; the end of a child's output is the child's end; a
  restart is one of the whole daemon.  /status and text are left out.
- CronScheduler: a run stands for all its attempts and the delivery; the columns that are only
  shown (last_run, last_status, last_output, the history) are left out; the clock is monotonic;
  cron expressions are the set of times they match.
- ChannelDispatch: a turn stands for the messages its text is made of.  Drafts, reactions, routes,
  the provider cache and the hot reload are left out.  A panic of a worker is not modelled: the
  release profile aborts.  The order of the workers at the in-flight map is free, since they are
  spawned on several threads, so an older message may interrupt a newer one.
- AuthProfiles: what the provider does beyond refusing a spent token (some revoke the whole family
  of it) is not modelled.  A file operation that has begun goes on when the future that waits for it is
  dropped (tokio's blocking pool), hence `late`.  Encryption, metadata and the login flows before
  the store is asked are left out.  A token expires and a backoff ends at any moment.
- Pairing: a client is a rate key of the gateway or a chat; time is abstract (a lockout is over and
  a record is old whenever the code looks).  The gateway's rate limiter is left out, as it only
  refuses.  One guard per door: the other TelegramChannels (`R/gateway/mod.rs:434`,
  `R/cron/scheduler.rs:315`) print codes nobody listens for.  What a writer
  changes besides grants is left out (`Edit`): a tool saves the file it has loaded, PUT /api/config
  the configuration in memory.  Not modelled: the `bind-telegram` command, the wizard and other
  processes than the daemon, which are more writers of the same kind, and a PUT whose body was read
  before a restart.

## 3. Runs

Bounds are CONSTANTS of the modules.  With two workers on a small machine a run takes between ten
seconds and two and a half minutes.

| Run | Instance | Shows |
|---|---|---|
| `lock_crash` | one :main, two :btw, all may end or be killed, 3 refs, 2 attempts; 80,036 states | `NoLeakedLock`, `HolderIsWatched`, and under fairness `CrashedHolderIsReleased`, `ContenderReclaimsDeadRow` |
| `lock_v_reclaim` | three :btw tasks that end, 3 refs, no kills | violation of `Exclusive` (finding 1) |
| `agent_calls` | two calls that may overlap, a parent and another peer, kills; 62,736 states | `AtMostOneReply`, `NoCallForgotten`, `CallIsAnswered`, `DeadPeerIsForgotten` |
| `agent_health` | persistent agent, one call, two keys, two bridge checks under way, graceful ends; 219,189 states | `UpdatesSurvive`, `OutageIsNoticed` |
| `bridge_safety` | two conversations, handlers, sessions; cap 1; symmetry; 658,653 states | `ReaderOwnsEntry` (which implies `OneSessionPerKey`, theorem `OneSession`), `BoundMeansServed`, `StaleIsDead`, `CapOvershoot` |
| `bridge_life` | one conversation, two handlers, two sessions; 63,471 states | `BindingSettles` |
| `bridge_v_orphan` | the same, no fairness | violation of `ChildIsBound` (finding 2) |
| `cron_runs` | two jobs, one concurrent update, schedules "at 1" and "cron {1,2}", clock to 2, one edit, one fault, one slot; 509,861 states | `RunsOncePerOccurrence`, `OneShotSettles` |
| `dispatch_turns` | three messages of one sender in two chats that share a history, two of equal text, interrupts on or off, two or three permits, histories capped at 3 and compacted to 2; 567,800 states | `OnePerScope`, `OwnTurnLast`, `EveryTurnClosed`, `FreshSession`, `ServedInOrder` (refinement of `ServingLine`), `EveryMessageSettles` |
| `auth_store` | two requests of the daemon, one command on the terminal, two profiles, three token sets, two attempts; 335,693 states | `Serialised`, `StoredTokenIsLive`, `NoDuplicateRefresh`, `BackoffRespected`, `EveryOperationEnds` |
| `pairing_codes` | two requests to the gateway, the Telegram listener, a tool, two chats, one attempt, one record, one restart; 363,370 states | `GuessesBounded`, `OneAdmissionPerStart`, `CodesAreUsed` |
| `pairing_v_lost` | the same and PUT /api/config, no fairness | violation of `NoRepairing` (finding 3) |

Every passing run also checks `TypeOK` of its module, except `agent_health` and `bridge_life`,
whose module's other run does.

**Why the bounds are enough.**  The lock's races need an owner, somebody with a stale lookup and
a third party who acquires in between: three processes, and one reference more than can be in
use at once keeps an old monitor distinguishable.  References may be reused once nothing mentions
them; make_ref never repeats, so reuse only adds what equality of dead values could add, which is
nothing.  The agent's handlers look at one call, peer or check at a time: two of each give every
pair.  The bridge's interference is between two handlers on one key, or a handler and a reader of
an earlier session; the cap needs a second key.  With STDIN_CHANNEL_BUFFER 1 and PipeRoom 0 the
first message fills the queue, so the full-channel path is taken; a two-valued usize wraps at
once.  The cron interference is between one job's run and one edit of it; the second job competes
for the slot.  One fault and one edit are what the properties' exceptions speak of; the proofs
cover any number.  In the dispatch a third message is the first that can meet a predecessor which
still waits for its own; two scopes with one history are the case where chats interfere (with a
history for each chat there are two independent copies of a smaller instance); histories of three
turns reach the cap and the compaction.  `MCChannelDispatch` also checks that the merging of turns,
which the model states by groups, is what the code's loop computes on histories of up to five turns.
For the profiles two workers share the mutex and the backoffs of a process and the third is under
the lock file only; three token sets are the two of the start and one more to go stale.  For the
pairing two requests are what overlaps between a check and a count, and
with one attempt the overlap shows; one record with two chats fills the map, so that each failure
may evict; one tool call is another writer.  With two permits the third message of the dispatch
waits for one; that messages asleep hold every permit while another is queued, the last case of
`EveryMessageSettles`, takes four messages and is not reached.

`CHECK_DEADLOCK FALSE` is set where the system may stop: processes of ResourceLock may all have
ended; the clock of CronScheduler is bounded; the messages of ChannelDispatch, the calls of
AuthProfiles and the codes of Pairing are used up.

### Fairness, and why the code justifies it

- ResourceLock: weak fairness of every process's own steps (the BEAM runs runnable processes) and
  of monitors (a :DOWN is delivered).  Nobody has to call, to release or to die.
- AgentServer: weak fairness of handling what is in the mailbox, of the end of a Task (its HTTP
  call has a timeout), of :DOWN messages and of the health timer.  A caller's own timeout is not
  fair: `CallIsAnswered` does not lean on it.
- SessionBridge: weak fairness of each handler's next step (tokio's locks are fair, saves end)
  and of a reader that has seen the end of the output.  Users and children owe nothing.
- CronScheduler: weak fairness of the poll loop and of each task in flight.  A shell job is ended
  by SHELL_JOB_TIMEOUT_SECS; that an agent job ends is an assumption, it has no timeout.
- ChannelDispatch: weak fairness of each task's steps; a model call has the message's time budget.
  The wait for the previous task gets no fairness of its own.  It loads `done` and then waits for
  a notification: a task that is between the two when its predecessor finishes sleeps for ever,
  and `EveryMessageSettles` says that this, and the permits such tasks keep, is the only way for
  a message not to end.
- AuthProfiles: weak fairness of what a worker does by itself, which includes giving up on the
  lock file after LOCK_TIMEOUT_MS.  The provider's answer is not fair (its client has no
  timeout), so `EveryOperationEnds` leaves out who waits behind such a request.
- Pairing: weak fairness of a request's steps, and strong fairness of one thing the outside does:
  some client that has the code comes again when its lockout is over.

## 4. What the code does against its documents

With a run that finds it:

1. **Two holders** (`lock_v_reclaim`).  `maybe_reclaim_dead_lock` looks a row up, asks whether its pid
   is alive, and deletes by key.  If the holder releases and ends in between and another process
   acquires, the new row is deleted and a third process acquires as well.  Monitors delete by key
   too.  Among callers of one priority such a window is the only way
   (`ExclusiveOutsideTheWindow`); whatever the priorities, it is always that the row of a live
   process is taken (`ExclusionIsLostByTheRow`).
2. **An orphan child** (`bridge_v_orphan`).  A /disconnect between the bind and the spawn of a
   /connect removes the binding; the child is started all the same.  Messages do not reach it,
   /disconnect does not find it, every later /connect fails.  The same happens when the cleanup of
   a stale binding, a rollback or a reader's late unbind falls between the two; that some removal
   meets a spawn is the only way (`ChildIsBoundOutsideTheWindow`).
3. **A confirmed grant is lost** (`pairing_v_lost`).  A pairing that is saved between the load and
   the save of another writer, a /bind, a tool call or a PUT /api/config, is overwritten; one door
   and a tool are enough.  The gateway even starts from the configuration it has held since the
   daemon started and so undoes earlier /binds and tool calls.  After a restart the client has to
   pair again.  Such stale loads are the only way among the writers modelled
   (`GrantsAreLostByStaleLoads`).

Without a run in the set; the formula is in the module and TLC finds the violation in seconds with
the change that is named:

- *The pending counter wraps* (`PendingIsQueued`; one session, PipeRoom 1, UsizeValues 8): one
  increment per message, two decrements.
- *A one-shot that is not deleted runs at every poll* (`OneShotRunsOnce`; one job, no edits, no
  faults): the next run of an At schedule is the time that has passed.  cron_add accepts such a job
  and an update of a recurring job to an At schedule makes one; a cron expression whose year is over
  behaves alike.  An At job that is removed after its run is started once (`OneShotsRunOnce`).
- *An answer arrives in the session /new has started* (`NoStrayReply`; texts all different, a cap
  of 50 and 12 kept): without interrupts, and from another chat with them, the answer to a message
  of before is appended after the clear and after a turn of the fresh session.  With interrupts and
  one chat for the history it does not happen (`FreshSession`, which is proved).

Smaller disagreements, visible in the models and without a run of their own:
- ResourceLock: release looks up and deletes in two calls, so a non-holder's row can be deleted;
  two :main processes can preempt each other; a monitor has the same gap; a process killed before
  its monitor exists keeps its row until somebody contends.
- AgentServer: a run_task during another overwrites pending_task (`E/agent_server.ex:186`; a server
  that is already :running does not refuse): the first outcome matches nothing and its caller waits
  for its timeout.  `overwritten` keeps those callers, and `NoCallForgotten` and `CallIsAnswered` say
  that it happens to nobody else.  No idle timeout; delegate_to_child does not set the child's
  parent; the health
  check is scheduled for persistent agents only; :unhealthy is unreachable (`NeverUnhealthy`,
  which is proved); a
  rejected update stays merged; an {:error, _} result counts as a successful task; snapshots are
  only written in terminate.
- SessionBridge: max_sessions can be exceeded (`CapOvershoot` says by how much: the handlers in
  flight less one); an unbind whose save fails comes back after a restart as a stale binding.
- CronScheduler: a schedule edited during a run gets its next run from the old schedule; a job
  made recurring during its one-shot run is removed; a pause can be lost to a concurrent whole-row
  update; max_tasks limits a poll, not the "persisted tasks" its documentation names
  (`R/config/schema.rs:2484`), and jobs that stay due can keep others out.
- ChannelDispatch: the wakeup that can be missed (`missed`); a history does not name the chat, so
  that chats of one sender answer from each other's turns; a roll-back compares texts and can take
  the turn of an equal message.
- AuthProfiles: a lock file left behind is never reclaimed, every later operation times out; two
  processes send the same refresh token; a login during a refresh is overwritten by its result; a
  login without a refresh token can lead to a second use of the old one; the answer with a rotated
  token can be lost, and then the stored one is dead; a dropped request can write an older store
  back.  Even then the tokens of two accounts do not get mixed (`AccountsNotMixed`, which is proved).
- Pairing: concurrent guesses exceed MAX_PAIR_ATTEMPTS by the requests in flight less one
  (`GuessesBounded`); a request that is dropped admits its client, who is told nothing, and the
  code is gone.

## 5. Proofs

For every value of the constants (sets of any size; MaxTries, caps and widths any number):

| Module | Theorems | Argument |
|---|---|---|
| `ResourceLock_proofs` | `TypeCorrect`, `NoLeak`, `Watched` | `CrashInv`: TypeOK, the two properties, and `RowRef` (a holder about to spawn its monitor still has the reference of the row in hand): without it a monitor could be spawned for another acquisition |
| | `ExclusionIsLostByTheRow` | any priorities and deaths, for behaviours in which nobody takes the row of a live process (`LiveRowTaken`: preemption, reclaim, monitor).  `HolderInv`: until then who claims the lock, is about to or is about to delete the row has it, and a monitor that has matched is of a dead process; so a release cannot hit another's row |
| | `Refinement` | under the same premise, with `HolderInv`: `holder` is the row's pid, `using` the claims, `live` who has not died; each step is an abstract step or a stutter.  Releases, ends, kills and the reclaim of dead rows are all in |
| | `ExclusiveOutsideTheWindow` | callers of one priority (`SamePriority`), as the callers of one name are.  `WindowInv`: whoever has looked a row up to reclaim it, or has matched it as a monitor, sees a row that still is that of a dead process, unless somebody acquired meanwhile (`InsertMeetsDelete`) |
| `AgentServer_proofs` | `TypeCorrect`, `UnhealthyIsUnreachable`, `StatusFollowsPending` | inductive as they stand with TypeOK |
| | `RepliesOnce` | `CallsInv`: a request in the mailbox has left no trace yet, and a `from` that is kept has not been answered |
| | `WaitingCallsAreKnown` | inductive with `CallsInv`: a Task whose outcome is ignored is not one a `from` is kept with, so only a later run_task forgets a caller |
| | `AcknowledgedUpdatesSurvive` | assumes a persistent agent that is not killed and a disk that works |
| | `KnownPeersHaveMonitors` | inductive as it stands: who becomes parent or child is monitored in the same callback, and its :DOWN takes it out of both.  The safety part of `DeadPeerIsForgotten` |
| `SessionBridge_proofs` | `TypeCorrect` | the counter stays a usize by `CounterWraps` |
| | `EntriesOwned`, `OneSession` | `ReaderOwnsEntry` is an equivalence and inductive with TypeOK; its two directions need each other |
| | `BoundIsServed`, `StaleStaysDead` | `BindingInv`, their conjunction, inductive with `ReaderOwnsEntry`: a stale binding that is removed had no child to lose |
| | `ChildIsBoundOutsideTheWindow` | for behaviours in which no removal of a binding meets a spawn for it (`NoRemovalMeetsSpawn`).  `BoundInv`: a conversation with a child is bound and nobody is about to unbind it, and of several connects past the checks only the one that is bound spawns |
| | `CapIsBounded` | inductive, with lemmas on the cardinalities of the active bindings and the admitted handlers |
| `CronScheduler_proofs` | `TypeCorrect`, `RunsOnce` | `ServedInv`: a task that has not started is for a later time than the last served one or its schedule has no later time; a row whose last run is dealt with cannot come due for a time already served |
| | `OneShotsRunOnce` | for behaviours in which every At job in the table is removed after its run (`AtJobsGo`): a polled row then has a time that was not served, because the exception in `ServedInv` is of jobs that stay |
| `ChannelDispatch_proofs` | `TypeCorrect`, `OneRequestPerChat` | `LineInv`: with interrupts the tasks of a scope stand in a line, ordered by `rank`; the entry of the map is the last of those in process, a task that waits has `previous` just before it, and whoever does not wait has nobody in process before it.  Two that work would each have to be before the other |
| | `RequestIsItsMessage` | inductive with `OneRequestPerChat`: between the append and the read nobody else of the chat changes the history |
| | `TurnsStayClosed` | `TurnsInv`: what is closed is past its request, and a history holds the turns of its own key; lemmas say that the cap, the compaction and the roll-back keep closed turns closed |
| | `SessionsAreFresh` | `SessionInv`: behind a user's turn stands the answer to that very turn, and from its append to the end of its request a message is the last turn; with `OneRequestPerChat` nobody clears in between.  Cap, compaction and roll-back keep the pairs |
| `ServingLine_proofs` | `MapServesInOrder` | the refinement maps places to `placeBar` and `chatBar` (read off `pc`), the numbers to `rank` and `registrations`; `LineInv` says that whoever is past its wait has nobody before it.  Without interrupts nobody is in a line and all steps stutter |
| | `NobodyWaitsInVain` | `WakeInv`: a task past its look at `done` waits for one that is not done, or missed its wakeup.  In the line of a chat the first that waits has a predecessor that moves: the safety part of `EveryMessageSettles` |
| `AuthProfiles_proofs` | `TypeCorrect` | inductive, with one lemma for each step |
| | `BackoffIsRespected` | `MutexInv` adds that who is past the second load holds the mutex of its process and profile, so that nobody else of the process can fail meanwhile |
| | `OperationsAreSerialised` | `LockInv`: who is inside made the lock file, and while no write is loose what it has loaded is what the file holds |
| | `StoredTokensAreLive`, `RefreshesAreNotRepeated` | `KnowInv`: a refresh token belongs to one profile, a token set that is not saved yet is known to its worker only, and a refresh token is exchanged once.  The two properties are inductive together with it, `LockInv` and `MutexInv`: the second load sees the successor because the mutex is held until it is saved |
| | `AccountsStayApart` | `Accounts`: a token belongs to one profile wherever a copy of it is (the store, what a worker has loaded or was given, a late write) and was given out.  It needs neither the lock file nor the mutex and so says what remains true after a loose write |
| `Pairing_proofs` | `TypeCorrect` | the range of the counts is `GuessesAreBounded` |
| | `GuessesAreBounded` | `CountsBounded`: the count of a record and the requests that passed the check and are not counted yet are together within the bound |
| | `OneAdmission` | `CodeOnce`: a code that was not used has let nobody in, one that was has let one client in |
| | `GrantsAreLostByStaleLoads` | for behaviours without a stale load (`StaleLoad`: another writer is between its load and its save, or a gateway's writer starts from a memory that lacks what the file grants).  `GrantsInv`: what is confirmed is on disk and in the copy of whoever is about to save, of whom there is one at most, and no configuration grants at a door that has a code |

Assumptions on constants are the named ASSUMEs of the modules (`ProcsAssumption`,
`AgentAssumption`, `BridgeAssumption`, `CronAssumption`, `DispatchAssumption`,
`LimitsAssumption`, `ProfilesAssumption`,
`PairingAssumption`), which TLC evaluates in every run.  The
extra premises (one priority; no kill and a working disk) are premises of the theorems that need
them and of nothing else.

The theorems `ExclusionIsLostByTheRow`, `ExclusiveOutsideTheWindow`, `ChildIsBoundOutsideTheWindow`,
`OneShotsRunOnce` and `GrantsAreLostByStaleLoads` are the other side of disagreements in section 4:
each excludes one kind of event, leaves every constant free, and says that in the system as it is
modelled nothing else loses the property; on the instances of the runs TLC finds the property
violated without the premise and not with it.

**Model-checked only.**  The liveness properties (`CrashedHolderIsReleased`,
`ContenderReclaimsDeadRow`, `CallIsAnswered`, `DeadPeerIsForgotten`, `OutageIsNoticed`,
`BindingSettles`, `OneShotSettles`, `EveryMessageSettles`, `EveryOperationEnds`, `CodesAreUsed`):
fairness and ENABLED are beyond the prover.  What they rest on is proved where it is a safety
property: `HolderIsWatched` (a monitor is there to release the row), `NoCallForgotten`,
`KnownPeersAreWatched`, `BoundMeansServed` (somebody is there to give a child or to unbind) and
`NoChatWaitsInVain`.  That the merging of turns keeps what a fold over the history computes is
induction over data: `MCChannelDispatch` checks it on bounded histories.

## 6. Plan

In this order, most important first:

1. **ToolLifecycle** (Registry + Probation, driven by the HTTP router's execute, promote, suspend,
   remove, improve and rollback): each ETS call a step, as in ResourceLock.  Abstract
   specification: the documented life cycle probation, promoted, suspended, deprecated, with the
   refinement that holds when calls do not overlap.  Properties: a tool suspended for a crash is
   not executed again unless promoted by hand; counts equal the recorded invocations (expected to
   fail when calls overlap).  Persistence is a small part of it: promotion writes no file, since
   nobody passes `:source`.
2. **Coordinator** over AgentServer's interface: concurrent delegations that start the same agent,
   strategies with calls that exit, depth of provenance.
3. **RustBridge** (one reply per call, retries) and **Daemon** (restart loops, stop during start).
4. Pure functions with a reference definition: the backoff of the daemon, provider fallback order.

The plugin pipeline (TaskOrchestrator, RetryScheduler, Worker) is not in the plan any more: it is
unreachable until a plugin is registered (section 1.2).

The set of runs has one safety-and-liveness run per module, a second one where an instance cannot
serve both, and one violation for each finding.  Proofs still to come for what exists: that
the agents' properties carry over to several that delegate to one another (with Coordinator), and
the safety part of `EveryOperationEnds` (a refresh mutex is held by a worker that refreshes).
