------------------------- MODULE ServingLine_proofs -------------------------
(***************************************************************************)
(* The in-flight map of ChannelDispatch implements ServingLine, for any    *)
(* number of messages, senders, chats and permits; and what keeps a chat   *)
(* from waiting for nobody.                                                *)
(***************************************************************************)
EXTENDS ChannelDispatch_proofs

USE DispatchAssumption DEF settings

\* Where a task stands, in the terms of the line's invariant.
PlacesOK ==
  \A t \in Tasks :
    /\ PlaceOf(t) \in {"outside", "waiting", "inside", "gone"}
    /\ PlaceOf(t) = "outside" <=> ~Registered(t)
    /\ PlaceOf(t) = "waiting" <=> pc[t] \in Waiting
    /\ PlaceOf(t) = "inside" <=> pc[t] \in Working
    /\ PlaceOf(t) = "gone" <=> Registered(t) /\ ~Live(t)
    /\ PastWait(t) <=> PlaceOf(t) \in {"inside", "gone"}

BarsOK ==
  interrupt_enabled =>
    /\ placeBar = [t \in Tasks |-> PlaceOf(t)]
    /\ chatBar = [t \in Tasks |-> IF Registered(t) THEN scope[t] ELSE None]

LEMMA Places == TypeOK => PlacesOK
BY DEF TypeOK, PlacesOK, PlaceOf, Registered, Live, PastWait, Waiting, Working, Steps

LEMMA Bars == TypeOK => BarsOK
BY Places DEF placeBar, chatBar, BarsOK, PlacesOK

LEMMA ScopesOfLine == TypeOK => \A t \in Tasks : Registered(t) => scope[t] \in Scopes
BY DEF TypeOK, Registered

\* A step in which nobody registers and at most one task leaves its place.
LEMMA LineMoves ==
  ASSUME TypeOK, TypeOK', LineInv', interrupt_enabled, interrupt_enabled',
         UNCHANGED <<rank, registrations>>,
         \A u \in Tasks : scope'[u] = scope[u] \/ ~Registered(u),
         NEW w \in Tasks, \A u \in Tasks \ {w} : PlaceOf(u)' = PlaceOf(u),
         \/ PlaceOf(w)' = PlaceOf(w)
         \/ PlaceOf(w) = "waiting" /\ PlaceOf(w)' = "inside"
         \/ PlaceOf(w) = "inside" /\ PlaceOf(w)' = "gone"
  PROVE  [Line!Next]_<<placeBar, chatBar, rank, registrations>>
<1>1. /\ placeBar = [t \in Tasks |-> PlaceOf(t)] /\ placeBar' = [t \in Tasks |-> PlaceOf(t)']
      /\ chatBar = [t \in Tasks |-> IF Registered(t) THEN scope[t] ELSE None]
      /\ chatBar' = [t \in Tasks |-> IF Registered(t)' THEN scope'[t] ELSE None]
  <2>1. BarsOK /\ BarsOK'  BY Bars, PTL
  <2> QED BY <2>1 DEF BarsOK
<1>2. PlacesOK /\ PlacesOK'  BY Places, PTL
<1>3. \A u \in Tasks : Registered(u)' <=> Registered(u)  BY <1>2 DEF PlacesOK
<1>4. chatBar' = chatBar  BY <1>1, <1>3
<1>5. CASE PlaceOf(w)' = PlaceOf(w)
  <2>1. placeBar' = placeBar  BY <1>1, <1>5
  <2> QED BY <1>4, <2>1
<1>6. CASE PlaceOf(w) = "waiting" /\ PlaceOf(w)' = "inside"
  <2>1. placeBar' = [placeBar EXCEPT ![w] = "inside"]
    <3>1. \A u \in Tasks : PlaceOf(u)' = IF u = w THEN "inside" ELSE PlaceOf(u)  BY <1>6
    <3>2. [placeBar EXCEPT ![w] = "inside"] =
            [u \in Tasks |-> IF u = w THEN "inside" ELSE PlaceOf(u)]
      BY <1>1
    <3> QED BY <1>1, <3>1, <3>2
  <2>2. ASSUME NEW u \in Tasks, chatBar[u] = chatBar[w], rank[u] < rank[w]
        PROVE  placeBar[u] = "gone"
    <3>1. Registered(w) /\ Registered(w)' /\ scope[w] \in Scopes /\ u # w
      <4>1. rank[w] \in Nat  BY DEF TypeOK
      <4>2. u # w  BY <2>2, <4>1
      <4>3. Registered(w) /\ Registered(w)'  BY <1>2, <1>3, <1>6 DEF PlacesOK
      <4> QED BY <4>2, <4>3, ScopesOfLine
    <3>2. Registered(u) /\ Registered(u)' /\ scope[u] = scope[w]
      <4>1. chatBar[w] = scope[w] /\ scope[w] # None  BY <1>1, <3>1
      <4> QED BY <1>1, <1>3, <2>2, <4>1
    <3>3. PastWait(w)' /\ Before(u, w)'
      <4>1. scope'[u] = scope'[w]  BY <3>1, <3>2
      <4>2. PastWait(w)'  BY <1>2, <1>6 DEF PlacesOK
      <4> QED BY <2>2, <4>1, <4>2 DEF Before
    <3>4. ~Live(u)'  BY <3>3 DEF LineInv, TurnOK
    <3>5. PlaceOf(u)' = "gone"  BY <1>2, <3>2, <3>4 DEF PlacesOK
    <3> QED BY <1>1, <3>1, <3>5
  <2>3. placeBar[w] = "waiting"  BY <1>1, <1>6
  <2>4. Line!Enter(w)  BY <1>4, <2>1, <2>2, <2>3 DEF Line!Enter
  <2> QED BY <2>4 DEF Line!Next
<1>7. CASE PlaceOf(w) = "inside" /\ PlaceOf(w)' = "gone"
  <2>1. placeBar' = [placeBar EXCEPT ![w] = "gone"] /\ placeBar[w] = "inside"
    BY <1>1, <1>7
  <2>2. Line!Leave(w)  BY <1>4, <2>1 DEF Line!Leave
  <2> QED BY <2>2 DEF Line!Next
<1> QED BY <1>5, <1>6, <1>7

\* Who registers arrives, and is served at once if nobody of its chat is in process.
LEMMA RegisterArrives ==
  ASSUME TypeOK, TypeOK', LineInv, NEW t \in Tasks, Register(t)
  PROVE  Line!Next
<1> DEFINE found == in_flight[scope[t]]
           next == IF found = None THEN "inside" ELSE "waiting"
<1>1. /\ interrupt_enabled /\ interrupt_enabled' /\ pc[t] = "spawned" /\ scope[t] \in Scopes
      /\ scope' = scope
      /\ pc' = [pc EXCEPT ![t] = IF found = None THEN "start" ELSE "load"]
      /\ rank' = [rank EXCEPT ![t] = registrations + 1]
      /\ registrations' = registrations + 1
  BY DEF Register, Goto, TypeOK
<1>2. PlaceOf(t) = "outside" /\ PlaceOf(t)' = next
  BY <1>1 DEF PlaceOf, TypeOK, Waiting, Working
<1>3. \A u \in Tasks \ {t} : PlaceOf(u)' = PlaceOf(u) /\ (Registered(u)' <=> Registered(u))
  BY <1>1 DEF PlaceOf, Registered, TypeOK
<1>4. Registered(t)' /\ ~Registered(t)  BY <1>1 DEF Registered, TypeOK
<1>5. /\ placeBar = [u \in Tasks |-> PlaceOf(u)] /\ placeBar' = [u \in Tasks |-> PlaceOf(u)']
      /\ chatBar = [u \in Tasks |-> IF Registered(u) THEN scope[u] ELSE None]
      /\ chatBar' = [u \in Tasks |-> IF Registered(u)' THEN scope'[u] ELSE None]
  <2>1. BarsOK /\ BarsOK'  BY Bars, PTL
  <2> QED BY <1>1, <2>1 DEF BarsOK
<1>6. /\ placeBar[t] = "outside" /\ placeBar' = [placeBar EXCEPT ![t] = next]
      /\ chatBar' = [chatBar EXCEPT ![t] = scope[t]]
  BY <1>1, <1>2, <1>3, <1>4, <1>5
<1>7. ASSUME next = "inside", NEW u \in Tasks, chatBar[u] = scope[t]
      PROVE  placeBar[u] = "gone"
  <2>1. found = None  BY <1>7
  <2>2. Registered(u) /\ scope[u] = scope[t]
    <3>1. chatBar[u] # None  BY <1>1, <1>7
    <3> QED BY <1>5, <1>7, <3>1
  <2>3. ~Live(u)  BY <1>1, <2>1, <2>2 DEF LineInv, EntryOK
  <2> QED BY <1>5, <2>2, <2>3, Places DEF PlacesOK
<1>8. next \in {"waiting", "inside"}  OBVIOUS
<1> HIDE DEF next, found
<1>9. Line!Arrive(t)  BY <1>1, <1>6, <1>7, <1>8 DEF Line!Arrive
<1> QED BY <1>9 DEF Line!Next

\* At most one task sleeps until a given one is done.
LEMMA OneSleeper ==
  ASSUME TypeOK, LineInv, interrupt_enabled, NEW t \in Tasks, pc[t] = "mark",
         NEW u \in Tasks, pc[u] = "asleep", previous[u] = t,
         NEW v \in Tasks, pc[v] = "asleep", previous[v] = t
  PROVE  u = v
<1>1. /\ Registered(u) /\ Live(u) /\ Registered(v) /\ Live(v) /\ Registered(t)
      /\ pc[u] \in Waiting /\ pc[v] \in Waiting
  BY DEF Registered, Live, Waiting
<1>2. Before(t, u) /\ Before(t, v)  BY <1>1 DEF LineInv, WaitOK
<1>3. rank[u] \in Nat /\ rank[v] \in Nat /\ rank[t] \in Nat  BY DEF TypeOK
<1>4. ~Before(u, v) /\ ~Before(v, u)
  BY <1>1, <1>2, <1>3 DEF LineInv, WaitOK, Before
<1>5. rank[u] = rank[v]  BY <1>2, <1>3, <1>4 DEF Before
<1> QED BY <1>1, <1>5 DEF LineInv, RanksOK

\* Every step is a step of the line, or none.
LEMMA StepServes ==
  ASSUME TypeOK, TypeOK', LineInv, LineInv', interrupt_enabled,
         NEW t \in Tasks, Step(t) \/ Receive(t)
  PROVE  [Line!Next]_<<placeBar, chatBar, rank, registrations>>
<1>1. CASE Register(t)  BY <1>1, RegisterArrives
<1>2. CASE MarkDone(t)
  <2>1. /\ pc[t] = "mark" /\ interrupt_enabled' /\ UNCHANGED <<rank, registrations, scope>>
        /\ pc' = [u \in Tasks |-> IF u = t THEN "done"
                                  ELSE IF pc[u] = "asleep" /\ previous[u] = t THEN "start"
                                  ELSE pc[u]]
    BY <1>2 DEF MarkDone, places
  <2>2. PlaceOf(t) = "gone" /\ PlaceOf(t)' = "gone"
    BY <2>1 DEF PlaceOf, Waiting, Working, TypeOK
  <2>3. \A u \in Tasks : ~(pc[u] = "asleep" /\ previous[u] = t) => PlaceOf(u)' = PlaceOf(u)
    BY <2>1, <2>2 DEF PlaceOf, TypeOK
  <2>4. CASE \E w \in Tasks : pc[w] = "asleep" /\ previous[w] = t
    <3>1. PICK w \in Tasks : pc[w] = "asleep" /\ previous[w] = t  BY <2>4
    <3>2. \A u \in Tasks \ {w} : PlaceOf(u)' = PlaceOf(u)  BY <2>1, <2>3, <3>1, OneSleeper
    <3>3. PlaceOf(w) = "waiting" /\ PlaceOf(w)' = "inside"
      BY <2>1, <3>1 DEF PlaceOf, Waiting, Working
    <3> QED BY <2>1, <3>2, <3>3, LineMoves
  <2>5. CASE ~\E w \in Tasks : pc[w] = "asleep" /\ previous[w] = t
    BY <2>1, <2>2, <2>3, <2>5, LineMoves
  <2> QED BY <2>4, <2>5
<1>3. CASE ~Register(t) /\ ~MarkDone(t)
  <2>1. /\ interrupt_enabled' /\ UNCHANGED <<rank, registrations>>
        /\ \A u \in Tasks : scope'[u] = scope[u] \/ ~Registered(u)
    BY <1>3 DEF Step, Receive, Spawn, RunAtOnce, LoadDone, Notified, Begin, Dropped, Clear,
       AppendUserTurn, ReadPrompt, RequestEnds, EndSilently, Answer, Close, Fail, Overflow,
       Unregister, lineup, places, Registered, Goto, TypeOK
  <2>2. \E to \in Steps :
          /\ pc' = [pc EXCEPT ![t] = to]
          /\ \/ {pc[t], to} \subseteq {"none", "queued", "spawned"}
             \/ {pc[t], to} \subseteq Waiting
             \/ {pc[t], to} \subseteq Working
             \/ {pc[t], to} \subseteq {"end", "mark", "done"}
             \/ pc[t] \in Waiting /\ to = "start"
             \/ pc[t] \in Working /\ to = "end"
    BY <1>3 DEF Step, Receive, Spawn, RunAtOnce, LoadDone, Notified, Begin, Dropped, Clear,
       AppendUserTurn, ReadPrompt, RequestEnds, EndSilently, Answer, Close, Fail, Overflow,
       Unregister, Goto, Waiting, Working, Steps
  <2>3. PICK to \in Steps :
          /\ pc' = [pc EXCEPT ![t] = to]
          /\ \/ {pc[t], to} \subseteq {"none", "queued", "spawned"}
             \/ {pc[t], to} \subseteq Waiting
             \/ {pc[t], to} \subseteq Working
             \/ {pc[t], to} \subseteq {"end", "mark", "done"}
             \/ pc[t] \in Waiting /\ to = "start"
             \/ pc[t] \in Working /\ to = "end"
    BY <2>2
  <2>4. pc'[t] = to /\ \A u \in Tasks \ {t} : PlaceOf(u)' = PlaceOf(u)
    BY <2>3 DEF TypeOK, PlaceOf
  <2>5. \/ PlaceOf(t)' = PlaceOf(t)
        \/ PlaceOf(t) = "waiting" /\ PlaceOf(t)' = "inside"
        \/ PlaceOf(t) = "inside" /\ PlaceOf(t)' = "gone"
    BY <2>3, <2>4 DEF PlaceOf, Waiting, Working
  <2> QED BY <2>1, <2>4, <2>5, LineMoves
<1> QED BY <1>1, <1>2, <1>3

\* Without interrupts nobody stands in a line.
LEMMA NobodyInLine ==
  ASSUME [Next]_vars, ~interrupt_enabled
  PROVE  UNCHANGED <<placeBar, chatBar, rank, registrations>>
<1>1. interrupt_enabled' = interrupt_enabled /\ UNCHANGED <<rank, registrations>>
  BY DEF Next, Step, Receive, Spawn, Register, RunAtOnce, LoadDone, Notified, Begin, Dropped,
     Clear, AppendUserTurn, ReadPrompt, RequestEnds, EndSilently, Answer, Close, Fail,
     Overflow, Unregister, MarkDone, vars, lineup, places
<1>2. placeBar' = placeBar  BY <1>1 DEF placeBar
<1>3. chatBar' = chatBar  BY <1>1, <1>2 DEF chatBar, placeBar
<1> QED BY <1>1, <1>2, <1>3

\* The in-flight map, its completions and their wakeups implement the serving line: one
\* message of a chat at a time, in the order in which their workers reached the map.
THEOREM MapServesInOrder == Spec => ServedInOrder
<1>1. Init => Line!Init
  BY DEF Init, Line!Init, placeBar, chatBar, PlaceOf
<1>2. TypeOK /\ TypeOK' /\ LineInv /\ LineInv' /\ [Next]_vars =>
        [Line!Next]_<<placeBar, chatBar, rank, registrations>>
  <2> SUFFICES ASSUME TypeOK, TypeOK', LineInv, LineInv', [Next]_vars
               PROVE  [Line!Next]_<<placeBar, chatBar, rank, registrations>>
    OBVIOUS
  <2>1. CASE ~interrupt_enabled  BY <2>1, NobodyInLine
  <2>2. CASE interrupt_enabled /\ Next  BY <2>2, StepServes DEF Next
  <2>3. CASE UNCHANGED vars
    BY <2>3 DEF vars, lineup, places, placeBar, chatBar, PlaceOf
  <2> QED BY <2>1, <2>2, <2>3
<1> QED BY <1>1, <1>2, TypeCorrect, LineInvariant, PTL DEF Spec, ServedInOrder, Line!Spec
-----------------------------------------------------------------------------
(* Nobody waits for nobody.                                                *)

\* A task that went past its look at `done' waits for one that is not done, or missed it.
WakeInv ==
  interrupt_enabled =>
    \A t \in Tasks : pc[t] \in {"create", "asleep"} /\ t \notin missed =>
      pc[previous[t]] # "done"

LEMMA WakeStep ==
  ASSUME TypeOK, LineInv, WakeInv, NEW t \in Tasks, Step(t) \/ Receive(t)
  PROVE  WakeInv'
<1> SUFFICES ASSUME interrupt_enabled', NEW u \in Tasks, pc'[u] \in {"create", "asleep"},
                    u \notin missed', pc'[previous'[u]] = "done"
             PROVE  FALSE
  BY DEF WakeInv
<1>1. interrupt_enabled
  BY DEF Step, Receive, Spawn, Register, RunAtOnce, LoadDone, Notified, Begin, Dropped,
     Clear, AppendUserTurn, ReadPrompt, RequestEnds, EndSilently, Answer, Close, Fail,
     Overflow, Unregister, MarkDone
<1>2. \A v \in Tasks : pc[v] \in Waiting => previous[v] \in Tasks /\ previous[v] # v
  BY <1>1 DEF LineInv, WaitOK, Before, TypeOK
<1>3. CASE MarkDone(t)
  <2>1. /\ pc[u] \in {"create", "asleep"} /\ previous'[u] = previous[u] /\ u \notin missed
        /\ previous[u] # t
    BY <1>3 DEF MarkDone, places
  <2>2. pc[previous[u]] = "done"  BY <1>2, <1>3, <2>1 DEF MarkDone, places, Waiting
  <2> QED BY <1>1, <2>1, <2>2 DEF WakeInv
<1>4. CASE ~MarkDone(t)
  <2>1. /\ missed' = missed
        /\ \A v \in Tasks \ {t} : previous'[v] = previous[v]
        /\ \E to \in Steps \ {"done"} : pc' = [pc EXCEPT ![t] = to]
    BY <1>4 DEF Step, Receive, Spawn, Register, RunAtOnce, LoadDone, Notified, Begin, Dropped,
       Clear, AppendUserTurn, ReadPrompt, RequestEnds, EndSilently, Answer, Close, Fail,
       Overflow, Unregister, lineup, places, Goto, Waiting, Working, Steps, TypeOK
  <2>2. \A v \in Tasks : pc'[v] = "done" => pc[v] = "done"  BY <2>1 DEF TypeOK
  <2>3. CASE u # t
    <3>1. pc[u] \in {"create", "asleep"} /\ previous'[u] = previous[u]
      BY <2>1, <2>3 DEF TypeOK
    <3> QED BY <1>1, <1>2, <2>1, <2>2, <3>1 DEF WakeInv, Waiting
  <2>4. CASE u = t
    <3>1. /\ previous' = previous
          /\ \/ pc[t] = "load" /\ pc[previous[t]] # "done"
             \/ pc[t] = "create"
      BY <1>4, <2>4 DEF Step, Receive, Spawn, Register, RunAtOnce, LoadDone, Notified, Begin,
         Dropped, Clear, AppendUserTurn, ReadPrompt, RequestEnds, EndSilently, Answer, Close,
         Fail, Overflow, Unregister, lineup, places, Goto, TypeOK
    <3> QED BY <1>1, <1>2, <2>1, <2>2, <2>4, <3>1 DEF WakeInv, Waiting
  <2> QED BY <2>3, <2>4
<1> QED BY <1>3, <1>4

\* The first of those that wait is not waiting for one that waits.
LEMMA FirstThatWaits ==
  ASSUME TypeOK, LineInv, interrupt_enabled, NEW t \in Tasks, pc[t] \in Waiting
  PROVE  \E m \in Tasks :
           /\ pc[m] \in Waiting /\ scope[m] = scope[t]
           /\ previous[m] \in Tasks /\ scope[previous[m]] = scope[t]
           /\ Registered(previous[m]) /\ pc[previous[m]] \notin Waiting
<1> DEFINE W == {u \in Tasks : pc[u] \in Waiting /\ scope[u] = scope[t]}
           R == {rank[u] : u \in W}
<1>1. R \in SUBSET Nat /\ R # {}
  <2>1. \A u \in Tasks : rank[u] \in Nat  BY DEF TypeOK
  <2>2. t \in W  OBVIOUS
  <2> QED BY <2>1, <2>2
<1> HIDE DEF R
<1>2. PICK r \in R : \A n \in R : r <= n  BY <1>1, Least
<1>3. PICK m \in W : rank[m] = r  BY <1>2 DEF R
<1>4. \A u \in W : rank[m] <= rank[u]
  <2>1. \A u \in W : rank[u] \in R  BY DEF R
  <2> QED BY <1>2, <1>3, <2>1
<1>5. m \in Tasks /\ pc[m] \in Waiting /\ scope[m] = scope[t]  BY <1>3
<1>6. previous[m] # None /\ Registered(previous[m]) /\ Before(previous[m], m)
  BY <1>5 DEF LineInv, WaitOK
<1>7. previous[m] \in Tasks  BY <1>5, <1>6 DEF TypeOK
<1>8. previous[m] \notin W
  <2>1. rank[previous[m]] < rank[m] /\ rank[m] \in Nat /\ rank[previous[m]] \in Nat
    BY <1>5, <1>6, <1>7 DEF Before, TypeOK
  <2> HIDE DEF W
  <2> QED BY <1>4, <2>1
<1> QED BY <1>5, <1>6, <1>7, <1>8 DEF Before

\* In a chat in which a task waits there is a task that can move, unless one of them was
\* missed by the wakeup: the wait for the previous one never closes to a cycle and never
\* is for a task that has ended.
THEOREM NobodyWaitsInVain == Spec => []NoChatWaitsInVain
<1>1. Init => WakeInv  BY DEF Init, WakeInv
<1>2. TypeOK /\ LineInv /\ WakeInv /\ [Next]_vars => WakeInv'
  <2> SUFFICES ASSUME TypeOK, LineInv, WakeInv, [Next]_vars PROVE WakeInv'  OBVIOUS
  <2>1. CASE Next  BY <2>1, WakeStep DEF Next
  <2>2. CASE UNCHANGED vars  BY <2>2 DEF WakeInv, vars, lineup, places
  <2> QED BY <2>1, <2>2
<1>3. TypeOK /\ LineInv /\ WakeInv => NoChatWaitsInVain
  <2> SUFFICES ASSUME TypeOK, LineInv, WakeInv, interrupt_enabled,
                      NEW t \in Tasks, pc[t] \in Waiting
               PROVE  \E u \in Tasks :
                        /\ scope[u] = scope[t]
                        /\ pc[u] \in Working \cup {"end", "mark", "load", "create"}
                           \/ u \in missed
    BY DEF NoChatWaitsInVain
  <2>1. PICK m \in Tasks :
          /\ pc[m] \in Waiting /\ scope[m] = scope[t]
          /\ previous[m] \in Tasks /\ scope[previous[m]] = scope[t]
          /\ Registered(previous[m]) /\ pc[previous[m]] \notin Waiting
    BY FirstThatWaits
  <2>2. pc[previous[m]] \in Working \cup {"end", "mark", "done"}
    BY <2>1 DEF Registered, TypeOK, Steps
  <2>3. pc[m] \in {"load", "create"} \/ m \in missed \/ pc[previous[m]] # "done"
    BY <2>1 DEF WakeInv, Waiting
  <2> QED BY <2>1, <2>2, <2>3
<1> QED BY <1>1, <1>2, <1>3, TypeCorrect, LineInvariant, PTL DEF Spec
=============================================================================
