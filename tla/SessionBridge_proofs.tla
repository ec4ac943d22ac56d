------------------------ MODULE SessionBridge_proofs ------------------------
(***************************************************************************)
(* Theorems about SessionBridge, for any number of conversations, handlers *)
(* and sessions, any cap and any width of the counter.                     *)
(***************************************************************************)
EXTENDS SessionBridge, FiniteSetTheorems, TLAPS

LEMMA CounterWraps == ASSUME NEW x \in Int PROVE x % UsizeValues \in 0..(UsizeValues - 1)
  BY BridgeAssumption

\* The conversation of a busy handler and of a session with a reader is a key.
LEMMA BusyHasKey ==
  ASSUME TypeOK, NEW h \in Handlers, pc[h] # "idle" PROVE conv[h] \in Keys
  BY DEF TypeOK

LEMMA ReaderHasKey ==
  ASSUME TypeOK, NEW s \in Sessions, reader[s] # "none" PROVE owner[s] \in Keys
  BY DEF TypeOK

LEMMA UnboundKeepsType ==
  ASSUME TypeOK, NEW k \in Keys, Unbound(k)
  PROVE  /\ bindings' \in [Keys -> {"free", "active", "stale"}]
         /\ disk' \subseteq Keys /\ unconfirmed' \subseteq Keys
  BY DEF TypeOK, Unbound

LEMMA ReleasedKeepsType ==
  ASSUME TypeOK, NEW S, Released(S)
  PROVE  /\ owner' \in [Sessions -> Keys \cup {None}] /\ reader' \in [Sessions -> ReaderStates]
         /\ \A s \in Sessions : owner'[s] = None <=> reader'[s] = "none"
         /\ pending' \in [Sessions -> 0..(UsizeValues - 1)]
         /\ unanswered' \in [Sessions -> 0..(STDIN_CHANNEL_BUFFER + PipeRoom)]
<1>1. 0 \in 0..(UsizeValues - 1) /\ 0 \in 0..(STDIN_CHANNEL_BUFFER + PipeRoom)
  BY BridgeAssumption
<1> QED
  BY <1>1 DEF TypeOK, Released, ReaderStates

LEMMA GotoKeepsType ==
  ASSUME TypeOK, NEW h \in Handlers, pc[h] # "idle", NEW step \in Steps \ {"idle"}, Goto(h, step)
  PROVE  /\ pc' \in [Handlers -> Steps] /\ conv' \in [Handlers -> Keys \cup {None}]
         /\ \A g \in Handlers : conv'[g] = None <=> pc'[g] = "idle"
  BY DEF TypeOK, Goto

LEMMA DoneKeepsType ==
  ASSUME TypeOK, NEW h \in Handlers, Done(h)
  PROVE  /\ pc' \in [Handlers -> Steps] /\ conv' \in [Handlers -> Keys \cup {None}]
         /\ \A g \in Handlers : conv'[g] = None <=> pc'[g] = "idle"
  BY DEF TypeOK, Done, Steps

LEMMA TakeKeepsType ==
  ASSUME TypeOK, NEW h \in Handlers, NEW k \in Keys, NEW step \in Steps \ {"idle"}, Take(h, k, step)
  PROVE  TypeOK'
<1>1. /\ pc' \in [Handlers -> Steps] /\ conv' \in [Handlers -> Keys \cup {None}]
      /\ \A g \in Handlers : conv'[g] = None <=> pc'[g] = "idle"
  BY BridgeAssumption DEF TypeOK, Take
<1> QED
  BY <1>1 DEF TypeOK, Take, table, children, pipe

\* Every reachable state is well typed.
THEOREM TypeCorrect == Spec => []TypeOK
<1>1. Init => TypeOK
  <2>1. 0 \in 0..(UsizeValues - 1) /\ 0 \in 0..(STDIN_CHANNEL_BUFFER + PipeRoom)
        /\ 0 \in 0..CRASH_COOLDOWN_MAX
    BY BridgeAssumption
  <2> QED
    BY <2>1 DEF Init, TypeOK, Steps, ReaderStates
<1>2. TypeOK /\ [Next]_vars => TypeOK'
  <2> SUFFICES ASSUME TypeOK, [Next]_vars PROVE TypeOK'
    OBVIOUS
  <2> USE DEF table, children, pipe, handlers
  <2>1. ASSUME NEW h \in Handlers, NEW k \in Keys,
               Connect(h, k) \/ Disconnect(h, k) \/ Message(h, k)
        PROVE  TypeOK'
    BY <2>1, TakeKeepsType DEF Connect, Disconnect, Message, Steps
  <2>2. ASSUME NEW h \in Handlers, CheckCooldown(h) \/ CheckMaxSessions(h) PROVE TypeOK'
    <3>1. pc[h] # "idle" /\ "count" \in Steps \ {"idle"} /\ "bind" \in Steps \ {"idle"}
      BY <2>2 DEF CheckCooldown, CheckMaxSessions, Steps
    <3>2. /\ pc' \in [Handlers -> Steps] /\ conv' \in [Handlers -> Keys \cup {None}]
          /\ \A g \in Handlers : conv'[g] = None <=> pc'[g] = "idle"
      BY <2>2, <3>1, GotoKeepsType, DoneKeepsType DEF CheckCooldown, CheckMaxSessions
    <3> QED
      BY <2>2, <3>2 DEF CheckCooldown, CheckMaxSessions, TypeOK
  <2>3. ASSUME NEW h \in Handlers, Bind(h) PROVE TypeOK'
    <3>1. pc[h] # "idle" /\ "spawn" \in Steps \ {"idle"} /\ conv[h] \in Keys
      BY <2>3, BusyHasKey DEF Bind, Steps
    <3>2. /\ pc' \in [Handlers -> Steps] /\ conv' \in [Handlers -> Keys \cup {None}]
          /\ \A g \in Handlers : conv'[g] = None <=> pc'[g] = "idle"
      BY <2>3, <3>1, GotoKeepsType, DoneKeepsType DEF Bind
    <3>3. /\ bindings' \in [Keys -> {"free", "active", "stale"}]
          /\ disk' \subseteq Keys /\ unconfirmed' \subseteq Keys
      BY <2>3, <3>1 DEF Bind, TypeOK
    <3> QED
      BY <2>3, <3>2, <3>3 DEF Bind, TypeOK
  <2>4. ASSUME NEW h \in Handlers, Spawn(h) PROVE TypeOK'
    <3>1. conv[h] \in Keys
      BY <2>4, BusyHasKey DEF Spawn
    <3>2. Done(h)
      BY <2>4 DEF Spawn, Started
    <3>3. /\ pc' \in [Handlers -> Steps] /\ conv' \in [Handlers -> Keys \cup {None}]
          /\ \A g \in Handlers : conv'[g] = None <=> pc'[g] = "idle"
      BY <3>2, DoneKeepsType
    <3>4. PICK s \in Sessions :
            /\ processes' = [processes EXCEPT ![conv[h]] = s]
            /\ owner' = [owner EXCEPT ![s] = conv[h]]
            /\ reader' = [reader EXCEPT ![s] = "reading"]
            /\ UNCHANGED <<table, pipe, crash_records>>
      BY <2>4 DEF Spawn, Started
    <3>5. /\ owner' \in [Sessions -> Keys \cup {None}] /\ reader' \in [Sessions -> ReaderStates]
          /\ \A t \in Sessions : owner'[t] = None <=> reader'[t] = "none"
      BY <3>1, <3>4, BridgeAssumption DEF TypeOK, ReaderStates
    <3> QED
      BY <3>1, <3>3, <3>4, <3>5 DEF TypeOK
  <2>5. ASSUME NEW h \in Handlers, SpawnFails(h) PROVE TypeOK'
    BY <2>5, GotoKeepsType DEF SpawnFails, Steps, TypeOK
  <2>6. ASSUME NEW h \in Handlers, Kill(h) PROVE TypeOK'
    <3>1. conv[h] \in Keys
      BY <2>6, BusyHasKey DEF Kill
    <3>2. /\ pc' \in [Handlers -> Steps] /\ conv' \in [Handlers -> Keys \cup {None}]
          /\ \A g \in Handlers : conv'[g] = None <=> pc'[g] = "idle"
      BY <2>6, GotoKeepsType DEF Kill, Steps
    <3> QED
      BY <2>6, <3>1, <3>2, ReleasedKeepsType DEF Kill, TypeOK
  <2>7. ASSUME NEW h \in Handlers, Route(h) PROVE TypeOK'
    <3>1. /\ pc' \in [Handlers -> Steps] /\ conv' \in [Handlers -> Keys \cup {None}]
          /\ \A g \in Handlers : conv'[g] = None <=> pc'[g] = "idle"
      BY <2>7, DoneKeepsType DEF Route
    <3>2. CASE UNCHANGED pipe
      BY <2>7, <3>1, <3>2 DEF Route, TypeOK
    <3>3. CASE /\ processes[conv[h]] # None
               /\ unanswered[processes[conv[h]]] < STDIN_CHANNEL_BUFFER + PipeRoom
               /\ unanswered' = [unanswered EXCEPT ![processes[conv[h]]] = @ + 1]
               /\ pending' = [pending EXCEPT ![processes[conv[h]]] = (@ + 1) % UsizeValues]
      <4> DEFINE s == processes[conv[h]]
      <4>1. conv[h] \in Keys
        BY <2>7, BusyHasKey DEF Route
      <4>2. s \in Sessions
        BY <3>3, <4>1 DEF TypeOK
      <4>3. (pending[s] + 1) % UsizeValues \in 0..(UsizeValues - 1)
        BY <4>2, CounterWraps DEF TypeOK
      <4>4. unanswered[s] + 1 \in 0..(STDIN_CHANNEL_BUFFER + PipeRoom)
        BY <3>3, <4>2, BridgeAssumption DEF TypeOK
      <4> QED
        BY <2>7, <3>1, <3>3, <4>2, <4>3, <4>4 DEF Route, TypeOK
    <3> QED
      BY <2>7, <3>2, <3>3 DEF Route
  <2>8. ASSUME NEW h \in Handlers, Unbind(h) PROVE TypeOK'
    <3>1. conv[h] \in Keys
      BY <2>8, BusyHasKey DEF Unbind
    <3> QED
      BY <2>8, <3>1, UnboundKeepsType, DoneKeepsType DEF Unbind, TypeOK
  <2>9. ASSUME NEW s \in Sessions, AssistantLine(s) PROVE TypeOK'
    <3>1. (pending[s] - 1) % UsizeValues \in 0..(UsizeValues - 1)
      BY CounterWraps DEF TypeOK
    <3> QED
      BY <2>9, <3>1 DEF AssistantLine, TypeOK
  <2>10. ASSUME NEW s \in Sessions, ResultLine(s) PROVE TypeOK'
    <3>1. (pending[s] - 1) % UsizeValues \in 0..(UsizeValues - 1)
      BY CounterWraps DEF TypeOK
    <3>2. unanswered[s] - 1 \in 0..(STDIN_CHANNEL_BUFFER + PipeRoom)
      BY <2>10, BridgeAssumption DEF ResultLine, TypeOK
    <3> QED
      BY <2>10, <3>1, <3>2 DEF ResultLine, TypeOK
  <2>11. ASSUME NEW s \in Sessions, OutputEnds(s) PROVE TypeOK'
    BY <2>11 DEF OutputEnds, TypeOK, ReaderStates
  <2>12. ASSUME NEW s \in Sessions, ReaderRemoves(s) PROVE TypeOK'
    <3>1. owner[s] \in Keys
      BY <2>12, ReaderHasKey DEF ReaderRemoves
    <3>2. \A n \in 0..CRASH_COOLDOWN_MAX :
            (IF n = CRASH_COOLDOWN_MAX THEN n ELSE n + 1) \in 0..CRASH_COOLDOWN_MAX
      BY BridgeAssumption
    <3>3. crash_records' \in [Keys -> 0..CRASH_COOLDOWN_MAX]
      BY <2>12, <3>1, <3>2 DEF ReaderRemoves, TypeOK
    <3> QED
      BY <2>12, <3>1, <3>3 DEF ReaderRemoves, TypeOK, ReaderStates
  <2>13. ASSUME NEW s \in Sessions, ReaderUnbinds(s) PROVE TypeOK'
    <3>1. owner[s] \in Keys
      BY <2>13, ReaderHasKey DEF ReaderUnbinds
    <3> QED
      BY <2>13, <3>1, UnboundKeepsType, ReleasedKeepsType DEF ReaderUnbinds, TypeOK
  <2>14. ASSUME NEW k \in Keys, CrashForgotten(k) PROVE TypeOK'
    <3>1. crash_records[k] - 1 \in 0..CRASH_COOLDOWN_MAX
      BY <2>14, BridgeAssumption DEF CrashForgotten, TypeOK
    <3> QED
      BY <2>14, <3>1 DEF CrashForgotten, TypeOK
  <2>15. CASE Restart
    <3>1. 0 \in 0..CRASH_COOLDOWN_MAX
      BY BridgeAssumption
    <3> QED
      BY <2>15, <3>1, ReleasedKeepsType DEF Restart, TypeOK, Steps
  <2>16. CASE UNCHANGED vars
    BY <2>16 DEF vars, TypeOK
  <2> QED
    BY <2>1, <2>2, <2>3, <2>4, <2>5, <2>6, <2>7, <2>8, <2>9, <2>10, <2>11, <2>12, <2>13,
       <2>14, <2>15, <2>16 DEF Next, Step
<1> QED
  BY <1>1, <1>2, PTL DEF Spec

-----------------------------------------------------------------------------
(* The entries of the process table.                                       *)

LEMMA EntriesKept ==
  ASSUME TypeOK, TypeOK', ReaderOwnsEntry, [Next]_vars
  PROVE  ReaderOwnsEntry'
<1> USE BridgeAssumption DEF TypeOK, ReaderOwnsEntry
<1>1. CASE UNCHANGED children
  BY <1>1 DEF children
<1>2. ASSUME NEW h \in Handlers, Spawn(h) PROVE ReaderOwnsEntry'
  <2>1. conv[h] \in Keys
    BY <1>2, BusyHasKey DEF Spawn
  <2>2. PICK s \in Sessions :
          /\ reader[s] = "none" /\ processes[conv[h]] = None
          /\ processes' = [processes EXCEPT ![conv[h]] = s]
          /\ owner' = [owner EXCEPT ![s] = conv[h]]
          /\ reader' = [reader EXCEPT ![s] = "reading"]
    BY <1>2 DEF Spawn, Started
  <2> QED
    BY <2>1, <2>2
<1>3. ASSUME NEW h \in Handlers, Kill(h) PROVE ReaderOwnsEntry'
  <2>1. conv[h] \in Keys
    BY <1>3, BusyHasKey DEF Kill
  <2>2. /\ processes' = [processes EXCEPT ![conv[h]] = None]
        /\ \A s \in Sessions : reader'[s] = IF s = processes[conv[h]] THEN "none" ELSE reader[s]
        /\ \A s \in Sessions : owner'[s] = IF s = processes[conv[h]] THEN None ELSE owner[s]
    BY <1>3 DEF Kill, Released
  <2> QED
    BY <2>1, <2>2
<1>4. ASSUME NEW s \in Sessions, OutputEnds(s) PROVE ReaderOwnsEntry'
  BY <1>4 DEF OutputEnds
<1>5. ASSUME NEW s \in Sessions, ReaderRemoves(s) PROVE ReaderOwnsEntry'
  <2>1. owner[s] \in Keys
    BY <1>5, ReaderHasKey DEF ReaderRemoves
  <2> QED
    BY <1>5, <2>1 DEF ReaderRemoves
<1>6. ASSUME NEW s \in Sessions, ReaderUnbinds(s) PROVE ReaderOwnsEntry'
  <2>1. /\ processes' = processes
        /\ \A t \in Sessions : reader'[t] = IF t = s THEN "none" ELSE reader[t]
        /\ \A t \in Sessions : owner'[t] = IF t = s THEN None ELSE owner[t]
        /\ reader[s] = "unbinding"
    BY <1>6 DEF ReaderUnbinds, Released
  <2> QED
    BY <2>1
<1>7. CASE Restart
  <2>1. /\ \A k \in Keys : processes'[k] = None
        /\ \A s \in Sessions : reader'[s] = "none"
    BY <1>7 DEF Restart, Released
  <2> QED
    BY <2>1
<1>8. ASSUME NEW h \in Handlers, NEW k \in Keys,
             Connect(h, k) \/ Disconnect(h, k) \/ Message(h, k)
      PROVE  UNCHANGED children
  BY <1>8 DEF Connect, Disconnect, Message, Take
<1>9. ASSUME NEW h \in Handlers,
             \/ CheckCooldown(h) \/ CheckMaxSessions(h) \/ Bind(h) \/ SpawnFails(h)
             \/ Route(h) \/ Unbind(h)
      PROVE  UNCHANGED children
  BY <1>9 DEF CheckCooldown, CheckMaxSessions, Bind, SpawnFails, Route, Unbind
<1>10. ASSUME NEW s \in Sessions, AssistantLine(s) \/ ResultLine(s) PROVE UNCHANGED children
  BY <1>10 DEF AssistantLine, ResultLine
<1>11. ASSUME NEW k \in Keys, CrashForgotten(k) PROVE UNCHANGED children
  BY <1>11 DEF CrashForgotten
<1>12. CASE UNCHANGED vars
  BY <1>1, <1>12 DEF vars
<1> QED
  BY <1>1, <1>2, <1>3, <1>4, <1>5, <1>6, <1>7, <1>8, <1>9, <1>10, <1>11, <1>12 DEF Next, Step

\* A reader that removes the entry of its key removes its own.
THEOREM EntriesOwned == Spec => []ReaderOwnsEntry
<1>1. Init => ReaderOwnsEntry
  BY BridgeAssumption DEF Init, ReaderOwnsEntry
<1>2. TypeOK /\ TypeOK' /\ ReaderOwnsEntry /\ [Next]_vars => ReaderOwnsEntry'
  BY EntriesKept
<1> QED
  BY <1>1, <1>2, TypeCorrect, PTL DEF Spec

\* No two children serve the same conversation.
THEOREM OneSession == Spec => []OneSessionPerKey
<1>1. TypeOK /\ ReaderOwnsEntry => OneSessionPerKey
  <2> SUFFICES ASSUME TypeOK, ReaderOwnsEntry, NEW s \in Sessions, NEW t \in Sessions,
                      reader[s] = "reading", reader[t] = "reading", owner[s] = owner[t]
               PROVE  s = t
    BY DEF OneSessionPerKey
  <2>1. owner[s] \in Keys
    BY ReaderHasKey
  <2> QED
    BY <2>1 DEF ReaderOwnsEntry
<1> QED
  BY <1>1, TypeCorrect, EntriesOwned, PTL
-----------------------------------------------------------------------------
(* The binding table and the process table.                                *)

BindingInv == StaleIsDead /\ BoundMeansServed

\* An action that changes neither table nor processes, and starts or ends no duty to
\* spawn or to unbind, keeps the invariant.
LEMMA DutiesKept ==
  ASSUME BindingInv, UNCHANGED <<table, processes>>,
         \A h \in Handlers, k \in Keys : Mover(h, k) => Mover(h, k)',
         \A h \in Handlers, k \in Keys :
           pc'[h] = "spawn" /\ conv'[h] = k => pc[h] = "spawn" /\ conv[h] = k,
         \A s \in Sessions, k \in Keys : Leaver(s, k) => Leaver(s, k)'
  PROVE  BindingInv'
  BY DEF BindingInv, StaleIsDead, BoundMeansServed, Active, table

LEMMA BindingsKept ==
  ASSUME TypeOK, TypeOK', ReaderOwnsEntry, BindingInv, [Next]_vars
  PROVE  BindingInv'
<1> USE BridgeAssumption
<1>1. ASSUME NEW h \in Handlers, NEW k \in Keys,
             Connect(h, k) \/ Disconnect(h, k) \/ Message(h, k)
      PROVE  BindingInv'
  <2>1. /\ pc[h] = "idle" /\ UNCHANGED <<table, children>>
        /\ \E step \in Steps \ {"spawn"} :
             pc' = [pc EXCEPT ![h] = step] /\ conv' = [conv EXCEPT ![h] = k]
    BY <1>1 DEF Connect, Disconnect, Message, Take, Steps
  <2> QED
    BY <2>1, DutiesKept DEF TypeOK, Mover, Leaver, children
<1>2. ASSUME NEW h \in Handlers, CheckCooldown(h) \/ CheckMaxSessions(h) \/ Route(h)
      PROVE  BindingInv'
  <2>1. /\ pc[h] \in {"cooldown", "count", "route"} /\ UNCHANGED <<table, children>>
        /\ \/ pc' = [pc EXCEPT ![h] = "idle"] /\ conv' = [conv EXCEPT ![h] = None]
           \/ conv' = conv /\ \E step \in {"count", "bind"} : pc' = [pc EXCEPT ![h] = step]
    BY <1>2 DEF CheckCooldown, CheckMaxSessions, Route, Goto, Done
  <2> QED
    BY <2>1, DutiesKept DEF TypeOK, Mover, Leaver, children
<1>3. ASSUME NEW h \in Handlers, Bind(h) PROVE BindingInv'
  <2>1. conv[h] \in Keys /\ pc[h] = "bind" /\ UNCHANGED children
    BY <1>3, BusyHasKey DEF Bind
  <2>2. CASE bindings[conv[h]] = "active" /\ Done(h) /\ UNCHANGED table
    BY <2>1, <2>2, DutiesKept DEF Done, TypeOK, Mover, Leaver, children
  <2>3. CASE /\ bindings[conv[h]] # "active"
             /\ bindings' = [bindings EXCEPT ![conv[h]] = "active"]
             /\ Goto(h, "spawn") /\ UNCHANGED unconfirmed
    <3>1. conv' = conv /\ pc' = [pc EXCEPT ![h] = "spawn"]
      BY <2>3 DEF Goto
    <3>2. StaleIsDead'
      BY <2>1, <2>3, <3>1 DEF BindingInv, StaleIsDead, TypeOK, children
    <3>3. BoundMeansServed'
      BY <2>1, <2>3, <3>1 DEF BindingInv, BoundMeansServed, Active, Mover, Leaver, TypeOK, children
    <3> QED
      BY <3>2, <3>3 DEF BindingInv
  <2>4. CASE /\ bindings[conv[h]] # "active"
             /\ bindings' = [bindings EXCEPT ![conv[h]] = "active"]
             /\ unconfirmed' = unconfirmed \cup {conv[h]}
             /\ Done(h)
    <3>1. conv' = [conv EXCEPT ![h] = None] /\ pc' = [pc EXCEPT ![h] = "idle"]
      BY <2>4 DEF Done
    <3>2. StaleIsDead'
      BY <2>1, <2>4, <3>1 DEF BindingInv, StaleIsDead, TypeOK, children
    <3>3. BoundMeansServed'
      BY <2>1, <2>4, <3>1 DEF BindingInv, BoundMeansServed, Active, Mover, Leaver, TypeOK, children
    <3> QED
      BY <3>2, <3>3 DEF BindingInv
  <2> QED
    BY <1>3, <2>2, <2>3, <2>4 DEF Bind
<1>4. ASSUME NEW h \in Handlers, Spawn(h) PROVE BindingInv'
  <2>1. conv[h] \in Keys /\ pc[h] = "spawn" /\ UNCHANGED table
    BY <1>4, BusyHasKey DEF Spawn, Started
  <2>2. conv' = [conv EXCEPT ![h] = None] /\ pc' = [pc EXCEPT ![h] = "idle"]
    BY <1>4 DEF Spawn, Started, Done
  <2>3. PICK s \in Sessions :
          /\ reader[s] = "none"
          /\ processes' = [processes EXCEPT ![conv[h]] = s]
          /\ owner' = [owner EXCEPT ![s] = conv[h]]
          /\ reader' = [reader EXCEPT ![s] = "reading"]
    BY <1>4 DEF Spawn, Started
  <2>4. StaleIsDead'
    BY <2>1, <2>2, <2>3 DEF BindingInv, StaleIsDead, TypeOK, table
  <2>5. BoundMeansServed'
    BY <2>1, <2>2, <2>3 DEF BindingInv, BoundMeansServed, Active, Mover, Leaver, TypeOK, table
  <2> QED
    BY <2>4, <2>5 DEF BindingInv
<1>5. ASSUME NEW h \in Handlers, SpawnFails(h) PROVE BindingInv'
  BY <1>5, DutiesKept DEF SpawnFails, Goto, TypeOK, Mover, Leaver, children
<1>6. ASSUME NEW h \in Handlers, Kill(h) PROVE BindingInv'
  <2>1. /\ conv[h] \in Keys /\ pc[h] = "kill" /\ UNCHANGED table
        /\ conv' = conv /\ pc' = [pc EXCEPT ![h] = "unbind"]
        /\ processes' = [processes EXCEPT ![conv[h]] = None]
    BY <1>6, BusyHasKey DEF Kill, Goto
  <2>2. \A s \in Sessions, k \in Keys : Leaver(s, k) => Leaver(s, k)'
    <3>1. \A s \in Sessions : reader[s] = "unbinding" => s # processes[conv[h]]
      BY <2>1 DEF ReaderOwnsEntry
    <3>2. \A s \in Sessions : /\ reader'[s] = IF s = processes[conv[h]] THEN "none" ELSE reader[s]
                              /\ owner'[s] = IF s = processes[conv[h]] THEN None ELSE owner[s]
      BY <1>6 DEF Kill, Released
    <3> QED
      BY <3>1, <3>2 DEF Leaver
  <2>3. StaleIsDead'
    BY <2>1 DEF BindingInv, StaleIsDead, TypeOK, table
  <2>4. BoundMeansServed'
    BY <2>1, <2>2 DEF BindingInv, BoundMeansServed, Active, Mover, TypeOK, table
  <2> QED
    BY <2>3, <2>4 DEF BindingInv
<1>7. ASSUME NEW h \in Handlers, Unbind(h) PROVE BindingInv'
  <2>1. /\ conv[h] \in Keys /\ UNCHANGED children
        /\ conv' = [conv EXCEPT ![h] = None] /\ pc' = [pc EXCEPT ![h] = "idle"]
        /\ bindings' = [bindings EXCEPT ![conv[h]] = "free"]
        /\ unconfirmed' = unconfirmed \ {conv[h]}
    BY <1>7, BusyHasKey DEF Unbind, Unbound, Done
  <2>2. StaleIsDead'
    BY <2>1 DEF BindingInv, StaleIsDead, TypeOK, children
  <2>3. BoundMeansServed'
    BY <2>1 DEF BindingInv, BoundMeansServed, Active, Mover, Leaver, TypeOK, children
  <2> QED
    BY <2>2, <2>3 DEF BindingInv
<1>8. ASSUME NEW s \in Sessions, AssistantLine(s) \/ ResultLine(s) PROVE BindingInv'
  BY <1>8, DutiesKept DEF AssistantLine, ResultLine, Mover, Leaver, children, handlers
<1>9. ASSUME NEW s \in Sessions, OutputEnds(s) PROVE BindingInv'
  BY <1>9, DutiesKept DEF OutputEnds, TypeOK, Mover, Leaver, handlers
<1>10. ASSUME NEW s \in Sessions, ReaderRemoves(s) PROVE BindingInv'
  <2>1. /\ owner[s] \in Keys /\ reader[s] = "eof" /\ UNCHANGED <<table, owner, handlers>>
        /\ processes' = [processes EXCEPT ![owner[s]] = None]
        /\ reader' = [reader EXCEPT ![s] = "unbinding"]
    BY <1>10, ReaderHasKey DEF ReaderRemoves
  <2>2. StaleIsDead'
    BY <2>1 DEF BindingInv, StaleIsDead, TypeOK, table, handlers
  <2>3. BoundMeansServed'
    BY <2>1 DEF BindingInv, BoundMeansServed, Active, Mover, Leaver, TypeOK, table, handlers
  <2> QED
    BY <2>2, <2>3 DEF BindingInv
<1>11. ASSUME NEW s \in Sessions, ReaderUnbinds(s) PROVE BindingInv'
  <2>1. /\ owner[s] \in Keys /\ UNCHANGED <<processes, handlers>>
        /\ bindings' = [bindings EXCEPT ![owner[s]] = "free"]
        /\ unconfirmed' = unconfirmed \ {owner[s]}
        /\ \A t \in Sessions : reader'[t] = IF t = s THEN "none" ELSE reader[t]
        /\ \A t \in Sessions : owner'[t] = IF t = s THEN None ELSE owner[t]
    BY <1>11, ReaderHasKey DEF ReaderUnbinds, Unbound, Released
  <2>2. StaleIsDead'
    BY <2>1 DEF BindingInv, StaleIsDead, TypeOK, handlers
  <2>3. BoundMeansServed'
    BY <2>1 DEF BindingInv, BoundMeansServed, Active, Mover, Leaver, TypeOK, handlers
  <2> QED
    BY <2>2, <2>3 DEF BindingInv
<1>12. ASSUME NEW k \in Keys, CrashForgotten(k) PROVE BindingInv'
  BY <1>12, DutiesKept DEF CrashForgotten, Mover, Leaver, children, handlers
<1>13. CASE Restart
  BY <1>13 DEF Restart, BindingInv, StaleIsDead, BoundMeansServed, Active
<1>14. CASE UNCHANGED vars
  BY <1>14, DutiesKept DEF vars, Mover, Leaver, children, handlers
<1> QED
  BY <1>1, <1>2, <1>3, <1>4, <1>5, <1>6, <1>7, <1>8, <1>9, <1>10, <1>11, <1>12, <1>13,
     <1>14 DEF Next, Step

\* The two tables agree: the invariant behind BoundIsServed and StaleStaysDead.
THEOREM BindingsAgree == Spec => []BindingInv
<1>1. Init => BindingInv
  BY DEF Init, BindingInv, StaleIsDead, BoundMeansServed, Active
<1>2. TypeOK /\ TypeOK' /\ ReaderOwnsEntry /\ BindingInv /\ [Next]_vars => BindingInv'
  BY BindingsKept
<1> QED
  BY <1>1, <1>2, TypeCorrect, EntriesOwned, PTL DEF Spec

\* An active binding has a child or somebody in charge of it, unless its save failed.
THEOREM BoundIsServed == Spec => []BoundMeansServed
<1>1. BindingInv => BoundMeansServed
  BY DEF BindingInv
<1> QED
  BY <1>1, BindingsAgree, PTL

\* No child serves a conversation whose binding is of an earlier run.
THEOREM StaleStaysDead == Spec => []StaleIsDead
<1>1. BindingInv => StaleIsDead
  BY DEF BindingInv
<1> QED
  BY <1>1, BindingsAgree, PTL
-----------------------------------------------------------------------------
(* What the documents claim holds as long as no removal meets a spawn.     *)

\* A child and a duty to remove its binding are never there together, and the one
\* connect that is about to start a child has the binding.
BoundInv ==
  /\ \A k \in Keys : processes[k] # None =>
       /\ bindings[k] = "active"
       /\ ~ \E h \in Handlers : Mover(h, k)
       /\ ~ \E s \in Sessions : Leaver(s, k)
  /\ \A h \in Handlers : pc[h] = "spawn" =>
       /\ bindings[conv[h]] = "active"
       /\ \A g \in Handlers : conv[g] = conv[h] /\ pc[g] = "spawn" => g = h

\* No binding, no entry and no duty changes, or a duty ends.
LEMMA QuietBound ==
  ASSUME BoundInv, UNCHANGED <<bindings, processes>>,
         \A h \in Handlers : pc'[h] \in {"spawn", "unbind"} =>
           pc'[h] = pc[h] /\ conv'[h] = conv[h],
         \A s \in Sessions, k \in Keys : Leaver(s, k)' => Leaver(s, k)
  PROVE  BoundInv'
<1>1. \A h \in Handlers, k \in Keys : Mover(h, k)' => Mover(h, k)  BY DEF Mover
<1> QED BY <1>1 DEF BoundInv

LEMMA BoundKept ==
  ASSUME TypeOK, TypeOK', ReaderOwnsEntry, StaleIsDead, BoundInv, NoRemovalMeetsSpawn,
         [Next]_vars
  PROVE  BoundInv'
<1> USE BridgeAssumption
<1>1. ASSUME NEW h \in Handlers, NEW k \in Keys,
             Connect(h, k) \/ Disconnect(h, k) \/ Message(h, k)
      PROVE  BoundInv'
  <2>1. /\ pc[h] = "idle" /\ UNCHANGED <<bindings, processes, owner, reader>>
        /\ \E step \in Steps \ {"spawn"} :
             /\ pc' = [pc EXCEPT ![h] = step] /\ conv' = [conv EXCEPT ![h] = k]
             /\ step = "unbind" => bindings[k] = "stale"
    BY <1>1 DEF Connect, Disconnect, Message, Take, Steps, table, children
  <2>2. \A g \in Handlers : g # h => pc'[g] = pc[g] /\ conv'[g] = conv[g]
    BY <2>1 DEF TypeOK
  <2>3. pc'[h] # "spawn" /\ conv'[h] = k /\ (pc'[h] = "unbind" => processes[k] = None)
    BY <2>1 DEF TypeOK, StaleIsDead
  <2> QED BY <2>1, <2>2, <2>3 DEF BoundInv, Mover, Leaver
<1>2. ASSUME NEW h \in Handlers, CheckCooldown(h) \/ CheckMaxSessions(h) \/ Route(h)
      PROVE  BoundInv'
  <2>1. /\ UNCHANGED <<bindings, processes, owner, reader>>
        /\ \/ pc' = [pc EXCEPT ![h] = "idle"] /\ conv' = [conv EXCEPT ![h] = None]
           \/ conv' = conv /\ \E step \in {"count", "bind"} : pc' = [pc EXCEPT ![h] = step]
    BY <1>2 DEF CheckCooldown, CheckMaxSessions, Route, Goto, Done, table, children
  <2> QED BY <2>1, QuietBound DEF TypeOK, Leaver
<1>3. ASSUME NEW h \in Handlers, Bind(h) PROVE BoundInv'
  <2>1. conv[h] \in Keys /\ pc[h] = "bind" /\ UNCHANGED <<processes, owner, reader>>
    BY <1>3, BusyHasKey DEF Bind, children
  <2>2. CASE Done(h) /\ UNCHANGED table
    BY <2>1, <2>2, QuietBound DEF Done, TypeOK, Leaver, table
  <2>3. CASE /\ bindings[conv[h]] # "active"
             /\ bindings' = [bindings EXCEPT ![conv[h]] = "active"]
             /\ Goto(h, "spawn") \/ Done(h)
    <3>1. /\ processes[conv[h]] = None
          /\ \A g \in Handlers : ~ (pc[g] = "spawn" /\ conv[g] = conv[h])
      BY <2>1, <2>3 DEF BoundInv
    <3>2. /\ \A g \in Handlers \ {h} : pc'[g] = pc[g] /\ conv'[g] = conv[g]
          /\ pc'[h] # "unbind" /\ (pc'[h] = "spawn" => conv'[h] = conv[h])
      BY <2>3 DEF Goto, Done, TypeOK
    <3>3. /\ bindings'[conv[h]] = "active"
          /\ \A k \in Keys \ {conv[h]} : bindings'[k] = bindings[k]
      BY <2>1, <2>3 DEF TypeOK
    <3>4. ASSUME NEW k \in Keys, processes[k] # None
          PROVE  bindings'[k] = "active" /\ (\A g \in Handlers : ~ Mover(g, k)')
                 /\ \A s \in Sessions : ~ Leaver(s, k)'
      <4>1. k # conv[h] /\ bindings[k] = "active"  BY <3>1, <3>4 DEF BoundInv
      <4> QED BY <2>1, <3>2, <3>3, <3>4, <4>1 DEF BoundInv, Mover, Leaver
    <3>5. ASSUME NEW g \in Handlers, pc'[g] = "spawn"
          PROVE  /\ bindings'[conv'[g]] = "active"
                 /\ \A f \in Handlers : conv'[f] = conv'[g] /\ pc'[f] = "spawn" => f = g
      <4>1. CASE g = h  BY <3>1, <3>2, <3>3, <3>5, <4>1
      <4>2. CASE g # h
        <5>1. pc[g] = "spawn" /\ conv'[g] = conv[g] /\ conv[g] # conv[h] /\ conv[g] \in Keys
          BY <3>1, <3>2, <3>5, <4>2, BusyHasKey
        <5> QED BY <3>2, <3>3, <3>5, <5>1 DEF BoundInv
      <4> QED BY <4>1, <4>2
    <3> QED BY <2>1, <3>4, <3>5 DEF BoundInv
  <2> QED BY <1>3, <2>2, <2>3 DEF Bind
<1>4. ASSUME NEW h \in Handlers, Spawn(h) PROVE BoundInv'
  <2>1. conv[h] \in Keys /\ pc[h] = "spawn" /\ UNCHANGED bindings /\ Done(h)
    BY <1>4, BusyHasKey DEF Spawn, Started, table
  <2>2. PICK s \in Sessions : /\ reader[s] = "none"
                              /\ processes' = [processes EXCEPT ![conv[h]] = s]
                              /\ owner' = [owner EXCEPT ![s] = conv[h]]
                              /\ reader' = [reader EXCEPT ![s] = "reading"]
    BY <1>4 DEF Spawn, Started
  <2>3. /\ \A g \in Handlers \ {h} : pc'[g] = pc[g] /\ conv'[g] = conv[g]
        /\ pc'[h] = "idle"
    BY <2>1 DEF Done, TypeOK
  <2>4. \A t \in Sessions, k \in Keys : Leaver(t, k)' => Leaver(t, k)
    BY <2>2 DEF Leaver, TypeOK
  <2>5. /\ bindings[conv[h]] = "active"
        /\ \A k \in Keys : k = conv[h] => /\ \A g \in Handlers : ~ Mover(g, k)'
                                        /\ \A t \in Sessions : ~ Leaver(t, k)'
    BY <2>1, <2>3, <2>4 DEF BoundInv, NoRemovalMeetsSpawn, Mover
  <2>6. \A k \in Keys \ {conv[h]} : processes'[k] = processes[k]  BY <2>2 DEF TypeOK
  <2>7. \A g \in Handlers, k \in Keys : Mover(g, k)' => Mover(g, k)  BY <2>3 DEF Mover
  <2>8. ASSUME NEW k \in Keys, processes'[k] # None
        PROVE  bindings[k] = "active" /\ (\A g \in Handlers : ~ Mover(g, k)')
               /\ \A t \in Sessions : ~ Leaver(t, k)'
    <3>1. CASE k = conv[h]  BY <2>5, <3>1
    <3>2. CASE k # conv[h]  BY <2>4, <2>6, <2>7, <2>8, <3>2 DEF BoundInv
    <3> QED BY <3>1, <3>2
  <2>9. ASSUME NEW g \in Handlers, pc'[g] = "spawn"
        PROVE  /\ bindings[conv'[g]] = "active"
               /\ \A f \in Handlers : conv'[f] = conv'[g] /\ pc'[f] = "spawn" => f = g
    BY <2>3, <2>9 DEF BoundInv
  <2> QED BY <2>1, <2>8, <2>9 DEF BoundInv
<1>5. ASSUME NEW h \in Handlers, SpawnFails(h) PROVE BoundInv'
  <2>1. /\ pc[h] = "spawn" /\ pc' = [pc EXCEPT ![h] = "unbind"] /\ conv' = conv
        /\ UNCHANGED <<bindings, processes, owner, reader>>
    BY <1>5 DEF SpawnFails, Goto, table, children
  <2>2. \A g \in Handlers : pc'[g] = IF g = h THEN "unbind" ELSE pc[g]
    BY <2>1 DEF TypeOK
  <2>3. \A g \in Handlers, k \in Keys : Mover(g, k)' <=> Mover(g, k)
    BY <2>1, <2>2 DEF Mover
  <2> QED BY <2>1, <2>2, <2>3 DEF BoundInv, Leaver
<1>6. ASSUME NEW h \in Handlers, Kill(h) PROVE BoundInv'
  <2>1. /\ conv[h] \in Keys /\ UNCHANGED <<bindings, conv>>
        /\ pc' = [pc EXCEPT ![h] = "unbind"]
        /\ processes' = [processes EXCEPT ![conv[h]] = None]
    BY <1>6, BusyHasKey DEF Kill, Goto, table
  <2>2. \A g \in Handlers : pc'[g] = IF g = h THEN "unbind" ELSE pc[g]
    BY <2>1 DEF TypeOK
  <2>3. \A t \in Sessions, k \in Keys : Leaver(t, k)' => Leaver(t, k)
    BY <1>6 DEF Kill, Released, Leaver, TypeOK
  <2>4. \A k \in Keys : processes'[k] # None => k # conv[h] /\ processes[k] # None
    BY <2>1 DEF TypeOK
  <2>5. \A g \in Handlers, k \in Keys : Mover(g, k)' => Mover(g, k) \/ k = conv[h]
    BY <2>1, <2>2 DEF Mover
  <2> QED BY <2>1, <2>2, <2>3, <2>4, <2>5 DEF BoundInv
<1>7. ASSUME NEW k \in Keys, bindings' = [bindings EXCEPT ![k] = "free"],
             processes' = processes, processes[k] = None,
             \A g \in Handlers : ~ (pc[g] = "spawn" /\ conv[g] = k),
             \A g \in Handlers : pc'[g] \in {"spawn", "unbind"} =>
               pc'[g] = pc[g] /\ conv'[g] = conv[g],
             \A t \in Sessions, j \in Keys : Leaver(t, j)' => Leaver(t, j)
      PROVE  BoundInv'
  <2>1. \A j \in Keys \ {k} : bindings'[j] = bindings[j]  BY <1>7 DEF TypeOK
  <2>2. \A g \in Handlers, j \in Keys : Mover(g, j)' => Mover(g, j)  BY <1>7 DEF Mover
  <2>3. ASSUME NEW g \in Handlers, pc'[g] = "spawn"
        PROVE  /\ bindings'[conv'[g]] = "active"
               /\ \A f \in Handlers : conv'[f] = conv'[g] /\ pc'[f] = "spawn" => f = g
    <3>1. pc[g] = "spawn" /\ conv'[g] = conv[g] /\ conv[g] \in Keys \ {k}
      BY <1>7, <2>3, BusyHasKey
    <3> QED BY <1>7, <2>1, <3>1 DEF BoundInv
  <2> QED BY <1>7, <2>1, <2>2, <2>3 DEF BoundInv
<1>8. ASSUME NEW h \in Handlers, Unbind(h) PROVE BoundInv'
  <2>1. /\ conv[h] \in Keys /\ pc[h] = "unbind" /\ Done(h)
        /\ bindings' = [bindings EXCEPT ![conv[h]] = "free"]
        /\ UNCHANGED <<processes, owner, reader>>
    BY <1>8, BusyHasKey DEF Unbind, Unbound, children
  <2>2. processes[conv[h]] = None  BY <2>1 DEF BoundInv, Mover
  <2>3. \A g \in Handlers : ~ (pc[g] = "spawn" /\ conv[g] = conv[h])
    BY <2>1 DEF NoRemovalMeetsSpawn
  <2>4. \A g \in Handlers : pc'[g] \in {"spawn", "unbind"} =>
          pc'[g] = pc[g] /\ conv'[g] = conv[g]
    BY <2>1 DEF Done, TypeOK
  <2>5. \A t \in Sessions, j \in Keys : Leaver(t, j)' => Leaver(t, j)  BY <2>1 DEF Leaver
  <2> QED BY <1>7, <2>1, <2>2, <2>3, <2>4, <2>5
<1>9. ASSUME NEW s \in Sessions, AssistantLine(s) \/ ResultLine(s) \/ OutputEnds(s)
      PROVE  BoundInv'
  BY <1>9, QuietBound
     DEF AssistantLine, ResultLine, OutputEnds, Leaver, TypeOK, table, children, handlers
<1>10. ASSUME NEW s \in Sessions, ReaderRemoves(s) PROVE BoundInv'
  <2>1. /\ owner[s] \in Keys /\ processes' = [processes EXCEPT ![owner[s]] = None]
        /\ reader' = [reader EXCEPT ![s] = "unbinding"]
        /\ UNCHANGED <<bindings, owner, pc, conv>>
    BY <1>10, ReaderHasKey DEF ReaderRemoves, table, handlers
  <2>2. \A k \in Keys : processes'[k] # None => k # owner[s] /\ processes[k] # None
    BY <2>1 DEF TypeOK
  <2>3. \A t \in Sessions, k \in Keys : Leaver(t, k)' => Leaver(t, k) \/ k = owner[s]
    BY <2>1 DEF Leaver, TypeOK
  <2> QED BY <2>1, <2>2, <2>3 DEF BoundInv, Mover
<1>11. ASSUME NEW s \in Sessions, ReaderUnbinds(s) PROVE BoundInv'
  <2>1. /\ owner[s] \in Keys /\ Leaver(s, owner[s])
        /\ bindings' = [bindings EXCEPT ![owner[s]] = "free"]
        /\ UNCHANGED <<processes, pc, conv>>
    BY <1>11, ReaderHasKey DEF ReaderUnbinds, Unbound, handlers, Leaver
  <2>2. processes[owner[s]] = None  BY <2>1 DEF BoundInv
  <2>3. \A g \in Handlers : ~ (pc[g] = "spawn" /\ conv[g] = owner[s])
    BY <2>1 DEF NoRemovalMeetsSpawn
  <2>4. \A t \in Sessions, j \in Keys : Leaver(t, j)' => Leaver(t, j)
    BY <1>11 DEF ReaderUnbinds, Released, Leaver, TypeOK
  <2> QED BY <1>7, <2>1, <2>2, <2>3, <2>4
<1>12. ASSUME NEW k \in Keys, CrashForgotten(k) PROVE BoundInv'
  BY <1>12, QuietBound DEF CrashForgotten, Leaver, table, children, handlers
<1>13. CASE Restart
  BY <1>13 DEF Restart, BoundInv
<1>14. CASE UNCHANGED vars
  BY <1>14, QuietBound DEF vars, Leaver, table, children, handlers
<1> QED
  BY <1>1, <1>2, <1>3, <1>4, <1>5, <1>6, <1>8, <1>9, <1>10, <1>11, <1>12, <1>13, <1>14
     DEF Next, Step

\* In a run in which no removal of a binding meets a spawn of its conversation, a
\* conversation that has a child is bound to it, through disconnects, failed spawns,
\* crashes, cleanups and restarts in any order: the window is the only flaw.
THEOREM ChildIsBoundOutsideTheWindow == Spec /\ []NoRemovalMeetsSpawn => []ChildIsBound
<1>1. Init => BoundInv
  BY DEF Init, BoundInv
<1>2. /\ TypeOK /\ TypeOK' /\ ReaderOwnsEntry /\ BindingInv /\ BoundInv
      /\ NoRemovalMeetsSpawn /\ [Next]_vars
      => BoundInv'
  BY BoundKept DEF BindingInv
<1>3. BoundInv => ChildIsBound
  BY DEF BoundInv, ChildIsBound
<1> QED
  BY <1>1, <1>2, <1>3, TypeCorrect, EntriesOwned, BindingsAgree, PTL DEF Spec
-----------------------------------------------------------------------------
(* The cap on sessions.                                                    *)

Binders == {h \in Handlers : pc[h] = "bind"}

LEMMA CapCounts ==
  /\ IsFiniteSet(Active) /\ Cardinality(Active) \in Nat
  /\ IsFiniteSet(Binders) /\ Cardinality(Binders) \in Nat
  /\ Cardinality(Binders) <= Cardinality(Handlers)
  /\ Cardinality(Handlers) \in Nat \ {0} /\ max_sessions \in Nat
<1>1. Active \in SUBSET Keys /\ Binders \in SUBSET Handlers
  BY DEF Active, Binders
<1>2. IsFiniteSet(Active) /\ IsFiniteSet(Binders) /\ Cardinality(Binders) <= Cardinality(Handlers)
  BY <1>1, FS_Subset, BridgeAssumption
<1>3. Cardinality(Active) \in Nat /\ Cardinality(Binders) \in Nat /\ Cardinality(Handlers) \in Nat
  BY <1>2, FS_CardinalityType, BridgeAssumption
<1>4. Cardinality(Handlers) # 0
  BY FS_EmptySet, BridgeAssumption
<1> QED
  BY <1>2, <1>3, <1>4, BridgeAssumption

\* A step that makes no binding active and admits no connect keeps the bound.
LEMMA CapShrinks ==
  ASSUME CapOvershoot, Active' \subseteq Active, Binders' \subseteq Binders
  PROVE  CapOvershoot'
<1>1. /\ Cardinality(Active') <= Cardinality(Active) /\ Cardinality(Active') \in Nat
      /\ Cardinality(Binders') <= Cardinality(Binders) /\ Cardinality(Binders') \in Nat
  BY CapCounts, FS_Subset, FS_CardinalityType
<1>2. Cardinality(Active') + Cardinality(Binders') <= Cardinality(Active) + Cardinality(Binders)
  BY <1>1, CapCounts
<1> QED
  BY <1>1, <1>2, CapCounts DEF CapOvershoot, Binders

LEMMA CapKept ==
  ASSUME TypeOK, CapOvershoot, [Next]_vars PROVE CapOvershoot'
<1>1. ASSUME NEW h \in Handlers, CheckMaxSessions(h) PROVE CapOvershoot'
  <2>1. CASE Cardinality(Active) >= max_sessions
    BY <1>1, <2>1, CapShrinks DEF CheckMaxSessions, Done, TypeOK, Active, Binders, table
  <2>2. CASE ~ (Cardinality(Active) >= max_sessions)
    <3>1. Active' = Active
      BY <1>1 DEF CheckMaxSessions, Active, table
    <3>2. Cardinality(Active') <= max_sessions - 1
      BY <2>2, <3>1, CapCounts
    <3>3. Binders' \in SUBSET Handlers
      BY DEF Binders
    <3>4. Cardinality(Binders') <= Cardinality(Handlers) /\ Cardinality(Binders') \in Nat
      BY <3>3, FS_Subset, FS_CardinalityType, BridgeAssumption
    <3> QED
      BY <3>1, <3>2, <3>4, CapCounts DEF CapOvershoot, Binders
  <2> QED
    BY <2>1, <2>2
<1>2. ASSUME NEW h \in Handlers, Bind(h) PROVE CapOvershoot'
  <2>1. Binders' = Binders \ {h} /\ h \in Binders
    BY <1>2 DEF Bind, Done, Goto, TypeOK, Binders
  <2>2. Active' = Active \/ Active' = Active \cup {conv[h]}
    BY <1>2, BusyHasKey DEF Bind, Active, TypeOK, table
  <2>3. /\ Cardinality(Binders') = Cardinality(Binders) - 1
        /\ Cardinality(Active') \in Nat /\ Cardinality(Active') <= Cardinality(Active) + 1
    <3>1. Cardinality(Binders') = Cardinality(Binders) - 1
      BY <2>1, CapCounts, FS_RemoveElement
    <3>2. CASE Active' = Active
      BY <3>1, <3>2, CapCounts
    <3>3. CASE Active' = Active \cup {conv[h]}
      <4>1. Cardinality(Active \cup {conv[h]})
              = IF conv[h] \in Active THEN Cardinality(Active) ELSE Cardinality(Active) + 1
        BY CapCounts, FS_AddElement
      <4> QED
        BY <3>1, <3>3, <4>1, CapCounts
    <3> QED
      BY <2>2, <3>2, <3>3
  <2> QED
    BY <2>3, CapCounts DEF CapOvershoot, Binders
<1>3. ASSUME NEW h \in Handlers, NEW k \in Keys,
             Connect(h, k) \/ Disconnect(h, k) \/ Message(h, k)
      PROVE  CapOvershoot'
  BY <1>3, CapShrinks DEF Connect, Disconnect, Message, Take, TypeOK, Active, Binders, table
<1>4. ASSUME NEW h \in Handlers,
             CheckCooldown(h) \/ Spawn(h) \/ SpawnFails(h) \/ Kill(h) \/ Route(h)
      PROVE  CapOvershoot'
  <2>1. /\ bindings' = bindings
        /\ \E step \in Steps \ {"bind"} : pc' = [pc EXCEPT ![h] = step]
    BY <1>4 DEF CheckCooldown, Spawn, Started, SpawnFails, Kill, Route, Goto, Done, table, Steps
  <2> QED
    BY <2>1, CapShrinks DEF TypeOK, Active, Binders
<1>5. ASSUME NEW h \in Handlers, Unbind(h) PROVE CapOvershoot'
  BY <1>5, CapShrinks, BusyHasKey DEF Unbind, Unbound, Done, TypeOK, Active, Binders
<1>6. ASSUME NEW s \in Sessions,
             AssistantLine(s) \/ ResultLine(s) \/ OutputEnds(s) \/ ReaderRemoves(s)
      PROVE  CapOvershoot'
  BY <1>6, CapShrinks DEF AssistantLine, ResultLine, OutputEnds, ReaderRemoves, Active,
     Binders, table, handlers
<1>7. ASSUME NEW s \in Sessions, ReaderUnbinds(s) PROVE CapOvershoot'
  BY <1>7, CapShrinks, ReaderHasKey DEF ReaderUnbinds, Unbound, TypeOK, Active, Binders, handlers
<1>8. ASSUME NEW k \in Keys, CrashForgotten(k) PROVE CapOvershoot'
  BY <1>8, CapShrinks DEF CrashForgotten, Active, Binders, table, handlers
<1>9. CASE Restart
  BY <1>9, CapShrinks DEF Restart, Active, Binders
<1>10. CASE UNCHANGED vars
  BY <1>10, CapShrinks DEF vars, Active, Binders, table, handlers
<1> QED
  BY <1>1, <1>2, <1>3, <1>4, <1>5, <1>6, <1>7, <1>8, <1>9, <1>10 DEF Next, Step

\* Connects that pass the check together exceed the cap by fewer than the messages in
\* flight, for any cap and any number of workers.
THEOREM CapIsBounded == Spec => []CapOvershoot
<1>1. Init => CapOvershoot
  <2> SUFFICES ASSUME Init PROVE CapOvershoot
    OBVIOUS
  <2>1. Active = {} /\ Binders = {}
    BY DEF Init, Active, Binders
  <2>2. Cardinality(Active) = 0 /\ Cardinality(Binders) = 0
    BY <2>1, FS_EmptySet
  <2> QED
    BY <2>2, CapCounts DEF CapOvershoot, Binders
<1>2. TypeOK /\ CapOvershoot /\ [Next]_vars => CapOvershoot'
  BY CapKept
<1> QED
  BY <1>1, <1>2, TypeCorrect, PTL DEF Spec
=============================================================================
