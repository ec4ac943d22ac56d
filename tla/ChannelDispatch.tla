--------------------------- MODULE ChannelDispatch ---------------------------
(***************************************************************************)
(* The dispatch of channel messages (channels/mod.rs): one loop takes      *)
(* messages from the queue of the listeners, takes a permit for each and   *)
(* spawns a worker task.  Workers run on several threads.  They share the  *)
(* map of requests in flight, with which a new message interrupts the      *)
(* previous one of its sender and chat, and the conversation histories.    *)
(*                                                                         *)
(* Every step holds one lock or ends at an await.  A model call is one     *)
(* step, `running', that ends in any of the ways the code tells apart: its *)
(* result may be there before a cancellation is seen, so a cancelled task  *)
(* may still answer.  Drafts, reactions, the typing indicator and what is  *)
(* sent to the user change nothing a later step reads and are left out; so *)
(* are the routes, the provider cache and the hot reload of the            *)
(* configuration, whose failures end a message before it is recorded       *)
(* (Dropped).  A turn stands for the messages its text is made of.         *)
(***************************************************************************)
EXTENDS Integers, Sequences, FiniteSets, SequencesExt

CONSTANTS
  Tasks,                 \* messages, and the worker tasks that handle them: 1..n in the
                         \* order in which the listeners send them
  Scopes, Keys, Texts,
  KeyOf,                 \* the history key of a scope: it does not name the chat
  TextOf,                \* the text of a message
  InFlightLimits,        \* the values of max_in_flight_messages
  MAX_CHANNEL_HISTORY,
  CHANNEL_HISTORY_COMPACT_KEEP_MESSAGES,
  None

ASSUME DispatchAssumption ==
  /\ Tasks \subseteq Nat /\ IsFiniteSet(Tasks)
  /\ KeyOf \in [Scopes -> Keys] /\ TextOf \in [Tasks -> Texts]
  /\ {MAX_CHANNEL_HISTORY, CHANNEL_HISTORY_COMPACT_KEEP_MESSAGES} \subseteq Nat \ {0}
  /\ None \notin Tasks \cup Scopes

ASSUME LimitsAssumption == InFlightLimits \subseteq Nat \ {0}

VARIABLES
  interrupt_enabled,     \* the configuration; the channel is one that has interrupts
  max_in_flight_messages, \* the permits there are; computed when the daemon starts
  pc,                    \* the step a task takes next
  scope,                 \* the interruption scope of a message: (reply target, sender)
  in_flight,             \* in_flight_by_sender: the task registered for a scope, or None
  previous,              \* the task that a task replaced in the map, or None
  cancelled,             \* tasks whose cancellation token is set
  histories,             \* the turns of a key
  closed,                \* auxiliary: tasks that appended a reply or a closing note
  missed,                \* auxiliary: tasks between the two statements of wait() when
                         \* the previous one was marked done
  rank,                  \* auxiliary: the order in which tasks registered
  registrations          \* auxiliary: how many did

places == <<in_flight, previous, cancelled, rank, registrations>>
lineup == <<places, missed>>
record == <<histories, closed>>
settings == <<interrupt_enabled, max_in_flight_messages>>
vars == <<settings, pc, scope, lineup, record>>

\* A task waits for the previous one in two statements: it loads `done', and creates a
\* Notified future, which only a later notify_waiters completes.
Waiting == {"load", "create", "asleep"}
Working == {"start", "clear", "append", "read", "running"}
Steps == {"none", "queued", "spawned", "end", "mark", "done"} \cup Waiting \cup Working

Turn == [role : {"user", "assistant"}, of : SUBSET Tasks]

TypeOK ==
  /\ interrupt_enabled \in BOOLEAN /\ max_in_flight_messages \in InFlightLimits
  /\ pc \in [Tasks -> Steps]
  /\ scope \in [Tasks -> Scopes \cup {None}]
  /\ \A t \in Tasks : scope[t] = None <=> pc[t] \in {"none", "queued"}
  /\ in_flight \in [Scopes -> Tasks \cup {None}]
  /\ previous \in [Tasks -> Tasks \cup {None}]
  /\ cancelled \subseteq Tasks /\ closed \subseteq Tasks /\ missed \subseteq Tasks
  /\ histories \in [Keys -> Seq(Turn)]
  /\ \A k \in Keys : Len(histories[k]) <= MAX_CHANNEL_HISTORY
  /\ rank \in [Tasks -> Nat] /\ registrations \in Nat

Init ==
  /\ interrupt_enabled \in BOOLEAN /\ max_in_flight_messages \in InFlightLimits
  /\ pc = [t \in Tasks |-> "none"]
  /\ scope = [t \in Tasks |-> None]
  /\ in_flight = [s \in Scopes |-> None]
  /\ previous = [t \in Tasks |-> None]
  /\ cancelled = {} /\ closed = {} /\ missed = {}
  /\ histories = [k \in Keys |-> <<>>]
  /\ rank = [t \in Tasks |-> 0] /\ registrations = 0

Key(t) == KeyOf[scope[t]]
Goto(t, from, to) == pc[t] = from /\ pc' = [pc EXCEPT ![t] = to]

-----------------------------------------------------------------------------
(* The queue and the dispatch loop.                                        *)

First(step) == {t \in Tasks : pc[t] = step /\ \A u \in Tasks : u < t => pc[u] # step}

Receive(t) ==
  /\ t \in First("none") /\ Goto(t, "none", "queued")
  /\ UNCHANGED <<settings, scope, lineup, record>>

Permits == {t \in Tasks : pc[t] \notin {"none", "queued", "done"}}

\* What a message holds matters from here on: its scope now, its text when it is handled.
Spawn(t) ==
  /\ t \in First("queued") /\ Cardinality(Permits) < max_in_flight_messages
  /\ Goto(t, "queued", "spawned")
  /\ \E s \in Scopes : scope' = [scope EXCEPT ![t] = s]
  /\ UNCHANGED <<settings, lineup, record>>

Register_NoWait(t) ==
  /\ interrupt_enabled /\ pc[t] = "spawned"
  /\ LET found == in_flight[scope[t]] IN
       /\ previous' = [previous EXCEPT ![t] = found]
       /\ cancelled' = IF found = None THEN cancelled ELSE cancelled \cup {found}
       /\ Goto(t, "spawned", "start")
  /\ in_flight' = [in_flight EXCEPT ![scope[t]] = t]
  /\ rank' = [rank EXCEPT ![t] = registrations + 1]
  /\ registrations' = registrations + 1
  /\ UNCHANGED <<settings, scope, missed, record>>

\* The worker takes the place of the task it finds in the map and cancels it.
Register(t) ==
  /\ interrupt_enabled /\ pc[t] = "spawned"
  /\ LET found == in_flight[scope[t]] IN
       /\ previous' = [previous EXCEPT ![t] = found]
       /\ cancelled' = IF found = None THEN cancelled ELSE cancelled \cup {found}
       /\ Goto(t, "spawned", IF found = None THEN "start" ELSE "load")
  /\ in_flight' = [in_flight EXCEPT ![scope[t]] = t]
  /\ rank' = [rank EXCEPT ![t] = registrations + 1]
  /\ registrations' = registrations + 1
  /\ UNCHANGED <<settings, scope, missed, record>>

RunAtOnce(t) ==
  /\ ~interrupt_enabled /\ Goto(t, "spawned", "start")
  /\ UNCHANGED <<settings, scope, lineup, record>>

\* InFlightTaskCompletion::wait
LoadDone(t) ==
  /\ Goto(t, "load", IF pc[previous[t]] = "done" THEN "start" ELSE "create")
  /\ UNCHANGED <<settings, scope, lineup, record>>

Notified(t) ==
  /\ Goto(t, "create", "asleep")
  /\ UNCHANGED <<settings, scope, lineup, record>>

Unregister_AnyEntry(t) ==
  /\ Goto(t, "end", "mark")
  /\ in_flight' = IF interrupt_enabled THEN [in_flight EXCEPT ![scope[t]] = None]
                    ELSE in_flight
  /\ UNCHANGED <<settings, scope, previous, cancelled, rank, registrations, missed,
                 record>>

Unregister(t) ==
  /\ Goto(t, "end", "mark")
  /\ in_flight' = IF interrupt_enabled /\ in_flight[scope[t]] = t
                    THEN [in_flight EXCEPT ![scope[t]] = None] ELSE in_flight
  /\ UNCHANGED <<settings, scope, previous, cancelled, rank, registrations, missed,
                 record>>

MarkDone_NoNotify(t) ==
  /\ Goto(t, "mark", "done")
  /\ missed' = missed \cup {u \in Tasks : pc[u] = "create" /\ previous[u] = t}
  /\ UNCHANGED <<settings, scope, places, record>>

\* one Notify for the chat, not one per task
MarkDone_WakesChat(t) ==
  /\ pc[t] = "mark"
  /\ pc' = [u \in Tasks |-> IF u = t THEN "done"
                            ELSE IF pc[u] = "asleep" /\ scope[u] = scope[t] THEN "start"
                            ELSE pc[u]]
  /\ missed' = missed \cup {u \in Tasks : pc[u] = "create" /\ previous[u] = t}
  /\ UNCHANGED <<settings, scope, places, record>>

\* InFlightTaskCompletion::mark_done wakes the tasks that sleep; the permit is dropped.
MarkDone(t) ==
  /\ pc[t] = "mark"
  /\ pc' = [u \in Tasks |-> IF u = t THEN "done"
                            ELSE IF pc[u] = "asleep" /\ previous[u] = t THEN "start"
                            ELSE pc[u]]
  /\ missed' = missed \cup {u \in Tasks : pc[u] = "create" /\ previous[u] = t}
  /\ UNCHANGED <<settings, scope, places, record>>

-----------------------------------------------------------------------------
(* The histories.  A key without an entry has the empty history.           *)

UserTurn(t) == [role |-> "user", of |-> {t}]
AssistantTurn(t) == [role |-> "assistant", of |-> {t}]

Appended_NoCap(turns, turn) == Append(turns, turn)

Appended_KeepsOldest(turns, turn) ==
  SubSeq(Append(turns, turn), 1, Min({Len(turns) + 1, MAX_CHANNEL_HISTORY}))

\* append_sender_turn: at the cap the oldest turn goes
Appended(turns, turn) ==
  LET grown == Append(turns, turn) IN
  IF Len(grown) > MAX_CHANNEL_HISTORY THEN Tail(grown) ELSE grown

AppendTurn(k, turn) == histories' = [histories EXCEPT ![k] = Appended(@, turn)]

\* normalize_cached_channel_turns: the result starts with a user turn and alternates.  A
\* turn of the role that is there already is merged into it, so a group of the result is
\* a maximal stretch of turns of one role; a leading assistant stretch is dropped.
Starts(turns) ==
  {i \in DOMAIN turns : turns[i].role # IF i = 1 THEN "assistant" ELSE turns[i - 1].role}

Group(turns, i) == Cardinality({g \in Starts(turns) : g <= i})

normalize_cached_channel_turns(turns) ==
  [j \in 1..Cardinality(Starts(turns)) |->
     LET merged == {turns[i] : i \in {i \in DOMAIN turns : Group(turns, i) = j}} IN
     [role |-> IF \E turn \in merged : turn.role = "user" THEN "user" ELSE "assistant",
      of |-> UNION {turn.of : turn \in merged}]]

Compacted(turns) ==
  LET dropped == Len(turns) - CHANNEL_HISTORY_COMPACT_KEEP_MESSAGES IN
  normalize_cached_channel_turns(IF dropped > 0 THEN SubSeq(turns, dropped + 1, Len(turns))
                                 ELSE turns)

\* rollback_orphan_user_turn compares the text, so it may meet an equal message
CanRollBack(t) ==
  /\ histories[Key(t)] # <<>>
  /\ \E u \in Tasks : TextOf[u] = TextOf[t] /\ Last(histories[Key(t)]) = UserTurn(u)

-----------------------------------------------------------------------------
(* process_channel_message                                                 *)

\* "clear" stands for /new and for a switch of the model or the provider.
Begin(t) ==
  /\ \E step \in IF t \in cancelled THEN {"end"} ELSE {"clear", "append"} :
       Goto(t, "start", step)
  /\ UNCHANGED <<settings, scope, lineup, record>>

\* a hook drops the message, its provider does not start, it is forwarded, or the command
\* changes nothing
Dropped(t) ==
  /\ Goto(t, "start", "end")
  /\ UNCHANGED <<settings, scope, lineup, record>>

Clear(t) ==
  /\ Goto(t, "clear", "end")
  /\ histories' = [histories EXCEPT ![Key(t)] = <<>>]
  /\ UNCHANGED <<settings, scope, lineup, closed>>

AppendUserTurn(t) ==
  /\ Goto(t, "append", "read")
  /\ AppendTurn(Key(t), UserTurn(t))
  /\ UNCHANGED <<settings, scope, lineup, closed>>

\* the prompt is made of the history as it is now; the request goes out
ReadPrompt(t) ==
  /\ Goto(t, "read", "running")
  /\ UNCHANGED <<settings, scope, lineup, record>>

\* The request ends without a turn of its own: cancelled, or its answer suppressed by a hook.
EndSilently(t) ==
  /\ Goto(t, "running", "end")
  /\ UNCHANGED <<settings, scope, lineup, record>>

Close(t) ==
  /\ Goto(t, "running", "end")
  /\ AppendTurn(Key(t), AssistantTurn(t))
  /\ closed' = closed \cup {t}
  /\ UNCHANGED <<settings, scope, lineup>>

\* an answer, or the note that the request timed out
Answer(t) == Close(t)

\* an error of the model: a note closes the turn, or (no vision) the turn is taken back
Fail(t) ==
  /\ pc[t] = "running" /\ t \notin cancelled
  /\ \/ Close(t)
     \/ /\ CanRollBack(t) /\ Goto(t, "running", "end")
        /\ histories' = [histories EXCEPT ![Key(t)] = Front(@)]
        /\ UNCHANGED <<settings, scope, lineup, closed>>

Overflow(t) ==
  /\ t \notin cancelled /\ Goto(t, "running", "end")
  /\ histories' = [histories EXCEPT ![Key(t)] = Compacted(@)]
  /\ UNCHANGED <<settings, scope, lineup, closed>>

RequestEnds(t) == EndSilently(t) \/ Answer(t) \/ Fail(t) \/ Overflow(t)

Step(t) ==
  \/ Spawn(t) \/ Register(t) \/ RunAtOnce(t) \/ LoadDone(t) \/ Notified(t)
  \/ Begin(t) \/ Dropped(t) \/ Clear(t) \/ AppendUserTurn(t) \/ ReadPrompt(t)
  \/ RequestEnds(t) \/ Unregister(t) \/ MarkDone(t)

Next == \E t \in Tasks : Step(t) \/ Receive(t)

\* A model call has a budget of time, everything else a task waits for comes back: the
\* one thing that may keep a task for ever is the wait for the previous one.
Fairness == \A t \in Tasks : WF_vars(Step(t))

Spec == Init /\ [][Next]_vars
LiveSpec == Spec /\ Fairness
-----------------------------------------------------------------------------
(* Properties.                                                             *)

\* where a task stands in the line of its chat
PlaceOf(t) ==
  IF pc[t] \in {"none", "queued", "spawned"} THEN "outside"
  ELSE IF pc[t] \in Waiting THEN "waiting"
  ELSE IF pc[t] \in Working THEN "inside"
  ELSE "gone"

\* With interrupts, two messages of one sender in one chat are never in process together:
\* the new one waits until the old one has ended, whatever the number of messages and
\* the order in which their workers reach the map.
OnePerScope ==
  interrupt_enabled =>
    \A t, u \in Tasks :
      pc[t] \in Working /\ pc[u] \in Working /\ scope[t] = scope[u] => t = u

\* every message of t's history key came from t's chat
OneChat(t) == \A u \in Tasks : scope[u] # None /\ Key(u) = Key(t) => scope[u] = scope[t]

\* With interrupts and a single chat per history, the last turn of the history from
\* which a request is made is the message it answers, although the turn is appended
\* under one lock and the history read under another.
OwnTurnLast ==
  interrupt_enabled =>
    \A t \in Tasks : pc[t] = "read" /\ OneChat(t) =>
      /\ histories[Key(t)] # <<>>
      /\ histories[Key(t)][Len(histories[Key(t)])] = UserTurn(t)

\* "Close the orphan user turn so subsequent messages don't inherit this failed request":
\* a user turn whose task wrote its answer or its closing note has it after it, through
\* the cap, a compaction, a clear and the turns of other tasks.
EveryTurnClosed ==
  \A k \in Keys : \A i \in DOMAIN histories[k] : \A t \in histories[k][i].of \cap closed :
    histories[k][i].role = "user" =>
      \E j \in DOMAIN histories[k] :
        j > i /\ histories[k][j].role = "assistant" /\ t \in histories[k][j].of

\* Every message is handled to its end, unless a task of its chat missed the wakeup of
\* the one before it, or tasks that are stuck behind such a task hold every permit.
\* (The messages are finitely many and "done" is final, so this is every message.)
EveryMessageSettles ==
  <>[](\A t \in Tasks :
         \/ pc[t] \in {"none", "done"}
         \/ \E u \in missed : scope[u] = scope[t]
         \/ missed # {} /\ Cardinality(Permits) = max_in_flight_messages)

\* every message of history key k came from one chat
OneChatOf(k) ==
  \A t, u \in Tasks :
    /\ scope[t] # None /\ Key(t) = k
    /\ scope[u] # None /\ Key(u) = k
    => scope[t] = scope[u]

\* An answer stands in a session that does not hold the message it answers.  (A leading
\* answer is dropped when the prompt is made.)
StrayReply(k) ==
  \E i \in DOMAIN histories[k] : \E t \in histories[k][i].of :
    /\ i > 1 /\ histories[k][i].role = "assistant"
    /\ ~\E j \in 1..(i - 1) : histories[k][j].role = "user" /\ t \in histories[k][j].of

\* "/new - clear conversation history and start a fresh session": with interrupts and a
\* single chat per history no answer to a message of before the clear arrives after it,
\* and no roll-back, cap or compaction parts an answer from its message.
FreshSession == interrupt_enabled => \A k \in Keys : OneChatOf(k) => ~StrayReply(k)

\* the same without the two conditions, which the code does not fulfil
NoStrayReply == \A k \in Keys : ~StrayReply(k)

\* the line of each chat; without interrupts nobody stands in it
placeBar == [t \in Tasks |-> IF interrupt_enabled THEN PlaceOf(t) ELSE "outside"]
chatBar == [t \in Tasks |-> IF placeBar[t] = "outside" THEN None ELSE scope[t]]

Line == INSTANCE ServingLine WITH
  place <- placeBar, chat <- chatBar, number <- rank, given <- registrations

\* With interrupts, the messages of a chat are served like a queue, one at a time and in
\* the order in which their workers reached the map, whatever wakes a task that waits.
ServedInOrder == Line!Spec

\* The part of EveryMessageSettles that needs no fairness: a chat in which a task waits
\* has a task that can move, or one that missed its wakeup; its tasks never all wait for
\* one another, nor for one that has ended.
NoChatWaitsInVain ==
  interrupt_enabled =>
    \A t \in Tasks : pc[t] \in Waiting =>
      \E u \in Tasks :
        /\ scope[u] = scope[t]
        /\ pc[u] \in Working \cup {"end", "mark", "load", "create"} \/ u \in missed
=============================================================================
