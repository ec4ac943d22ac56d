----------------------- MODULE ChannelDispatch_proofs -----------------------
(***************************************************************************)
(* Proofs about ChannelDispatch, for any number of messages, senders,      *)
(* chats and histories, any caps and any number of permits.                *)
(***************************************************************************)
EXTENDS ChannelDispatch, FiniteSetTheorems, SequenceTheorems, WellFoundedInduction, TLAPS

USE DispatchAssumption DEF settings

(* What the operations on a history return.                                *)

LEMMA StartsFinite ==
  ASSUME NEW turns \in Seq(Turn)
  PROVE  /\ Starts(turns) \subseteq 1..Len(turns)
         /\ IsFiniteSet(Starts(turns))
         /\ Cardinality(Starts(turns)) \in Nat /\ Cardinality(Starts(turns)) <= Len(turns)
<1>1. Starts(turns) \subseteq 1..Len(turns)  BY DEF Starts
<1>2. Len(turns) \in Nat  OBVIOUS
<1>3. IsFiniteSet(1..Len(turns)) /\ Cardinality(1..Len(turns)) = Len(turns)
  <2> DEFINE n == Len(turns)
  <2>1. n \in Int /\ 1 \in Int /\ n >= 0  BY <1>2
  <2> HIDE DEF n
  <2>2. IsFiniteSet(1..n) /\ Cardinality(1..n) = IF 1 > n THEN 0 ELSE n - 1 + 1
    BY ONLY <2>1, FS_Interval
  <2>3. Cardinality(1..n) = n  BY <2>1, <2>2
  <2> QED BY <2>2, <2>3 DEF n
<1>4. Starts(turns) \in SUBSET (1..Len(turns))  BY <1>1
<1>5. /\ IsFiniteSet(Starts(turns))
      /\ Cardinality(Starts(turns)) <= Cardinality(1..Len(turns))
  BY ONLY <1>3, <1>4, FS_Subset
<1> QED BY <1>1, <1>3, <1>5, FS_CardinalityType

LEMMA NormalizeType ==
  ASSUME NEW turns \in Seq(Turn)
  PROVE  /\ normalize_cached_channel_turns(turns) \in Seq(Turn)
         /\ Len(normalize_cached_channel_turns(turns)) = Cardinality(Starts(turns))
<1> DEFINE merged(j) == {turns[i] : i \in {i \in DOMAIN turns : Group(turns, i) = j}}
           turn(j) == [role |-> IF \E u \in merged(j) : u.role = "user" THEN "user"
                                ELSE "assistant",
                       of |-> UNION {u.of : u \in merged(j)}]
<1>1. \A j : merged(j) \subseteq Turn  OBVIOUS
<1>2. \A j : UNION {u.of : u \in merged(j)} \subseteq Tasks
  <2> SUFFICES ASSUME NEW j, NEW u \in merged(j)  PROVE u.of \subseteq Tasks
    OBVIOUS
  <2>1. u \in Turn  BY <1>1
  <2> QED BY <2>1 DEF Turn
<1>3. \A j : turn(j) \in Turn
  <2> HIDE DEF merged
  <2> QED BY <1>2 DEF Turn
<1>4. normalize_cached_channel_turns(turns) = [j \in 1..Cardinality(Starts(turns)) |-> turn(j)]
  BY DEF normalize_cached_channel_turns
<1> HIDE DEF turn
<1> QED BY <1>3, <1>4, StartsFinite

\* a history as the type invariant bounds it
History(turns) == turns \in Seq(Turn) /\ Len(turns) <= MAX_CHANNEL_HISTORY

LEMMA AppendedType ==
  ASSUME NEW turns, History(turns), NEW turn \in Turn
  PROVE  History(Appended(turns, turn))
<1>1. Append(turns, turn) \in Seq(Turn) /\ Len(Append(turns, turn)) = Len(turns) + 1
  BY DEF History
<1>2. Tail(Append(turns, turn)) \in Seq(Turn) /\ Len(Tail(Append(turns, turn))) = Len(turns)
  BY <1>1, HeadTailProperties DEF History
<1> QED BY <1>1, <1>2 DEF Appended, History

LEMMA CompactedType ==
  ASSUME NEW turns, History(turns)
  PROVE  History(Compacted(turns))
<1> DEFINE dropped == Len(turns) - CHANNEL_HISTORY_COMPACT_KEEP_MESSAGES
           kept == IF dropped > 0 THEN SubSeq(turns, dropped + 1, Len(turns)) ELSE turns
<1>1. kept \in Seq(Turn) /\ Len(kept) <= Len(turns)
  BY SubSeqProperties DEF History
<1>2. Compacted(turns) = normalize_cached_channel_turns(kept)  BY DEF Compacted
<1> HIDE DEF kept
<1> QED BY <1>1, <1>2, NormalizeType, StartsFinite DEF History

LEMMA FrontType ==
  ASSUME NEW turns, History(turns), turns # <<>>
  PROVE  /\ History(Front(turns)) /\ Len(Front(turns)) = Len(turns) - 1
         /\ \A i \in 1..(Len(turns) - 1) : Front(turns)[i] = turns[i]
<1>1. Len(turns) \in Nat \ {0} /\ turns \in Seq(Turn)  BY DEF History
<1>2. Front(turns) = SubSeq(turns, 1, Len(turns) - 1)  BY DEF Front
<1>3. /\ Front(turns) \in Seq(Turn) /\ Len(Front(turns)) = Len(turns) - 1
      /\ \A i \in 1..(Len(turns) - 1) : Front(turns)[i] = turns[i]
  <2> DEFINE n == Len(turns)
  <2>1. \A i \in 1..(n - 1) : turns[i] \in Turn  BY <1>1
  <2>2. n \in Nat \ {0}  BY <1>1
  <2> HIDE DEF n
  <2>3. /\ SubSeq(turns, 1, n - 1) \in Seq(Turn)
        /\ Len(SubSeq(turns, 1, n - 1)) = IF 1 <= n - 1 THEN n - 1 - 1 + 1 ELSE 0
        /\ \A i \in 1..(n - 1 - 1 + 1) : SubSeq(turns, 1, n - 1)[i] = turns[1 + i - 1]
    <3>1. n - 1 \in Int /\ 1 \in Int  BY <2>2
    <3> QED BY ONLY <2>1, <3>1, SubSeqProperties
  <2>4. \A i \in 1..(n - 1) : i \in 1..(n - 1 - 1 + 1) /\ 1 + i - 1 = i  BY <2>2
  <2>5. \A i \in 1..(n - 1) : SubSeq(turns, 1, n - 1)[i] = turns[i]  BY <2>3, <2>4
  <2>6. Len(SubSeq(turns, 1, n - 1)) = n - 1  BY <2>2, <2>3
  <2> QED BY <1>2, <2>3, <2>5, <2>6 DEF n
<1> QED BY <1>1, <1>3 DEF History

-----------------------------------------------------------------------------
(* Type correctness.                                                       *)

\* Every variable stays in its range, for every value of the constants.
LEMMA InitType == Init => TypeOK
<1>1. <<>> \in Seq(Turn) /\ Len(<<>>) = 0  OBVIOUS
<1> QED BY <1>1 DEF Init, TypeOK, Steps

LEMMA HistoriesType ==
  ASSUME TypeOK, NEW k \in Keys
  PROVE  History(histories[k])
BY DEF TypeOK, History

LEMMA SetHistory ==
  ASSUME TypeOK, NEW k \in Keys, NEW turns, History(turns),
         histories' = [histories EXCEPT ![k] = turns]
  PROVE  /\ histories' \in [Keys -> Seq(Turn)]
         /\ \A j \in Keys : Len(histories'[j]) <= MAX_CHANNEL_HISTORY
BY DEF TypeOK, History

LEMMA KeyType ==
  ASSUME TypeOK, NEW t \in Tasks, pc[t] \notin {"none", "queued"}
  PROVE  Key(t) \in Keys /\ scope[t] \in Scopes
BY DEF TypeOK, Key

LEMMA TurnsType == \A t \in Tasks : UserTurn(t) \in Turn /\ AssistantTurn(t) \in Turn
BY DEF UserTurn, AssistantTurn, Turn

LEMMA CloseType ==
  ASSUME TypeOK, NEW t \in Tasks, Close(t)
  PROVE  TypeOK'
<1>1. pc[t] = "running"  BY DEF Close, Goto
<1>2. History(Appended(histories[Key(t)], AssistantTurn(t)))
  BY <1>1, KeyType, TurnsType, HistoriesType, AppendedType
<1>3. histories' = [histories EXCEPT ![Key(t)] = Appended(histories[Key(t)], AssistantTurn(t))]
  BY DEF Close, AppendTurn
<1>4. /\ histories' \in [Keys -> Seq(Turn)]
      /\ \A j \in Keys : Len(histories'[j]) <= MAX_CHANNEL_HISTORY
  BY <1>1, <1>2, <1>3, KeyType, SetHistory
<1> QED BY <1>1, <1>4 DEF Close, Goto, TypeOK, Steps, lineup, places

LEMMA StepType ==
  ASSUME TypeOK, NEW t \in Tasks, Step(t) \/ Receive(t)
  PROVE  TypeOK'
<1> USE DEF TypeOK, Goto, Steps, Waiting, Working, lineup, places, record
<1>1. CASE Receive(t)  BY <1>1 DEF Receive
<1>2. CASE Spawn(t)  BY <1>2 DEF Spawn
<1>3. CASE Register(t)
  <2>1. scope[t] \in Scopes  BY <1>3 DEF Register
  <2>2. in_flight[scope[t]] \in Tasks \cup {None}  BY <2>1
  <2>3. /\ previous' \in [Tasks -> Tasks \cup {None}]
        /\ in_flight' \in [Scopes -> Tasks \cup {None}]
    BY <1>3, <2>1, <2>2 DEF Register
  <2>4. cancelled' \subseteq Tasks /\ scope' = scope /\ histories' = histories
    BY <1>3, <2>2 DEF Register
  <2>5. pc' \in [Tasks -> Steps]
        /\ \A u \in Tasks : scope[u] = None <=> pc'[u] \in {"none", "queued"}
    BY <1>3, <2>1 DEF Register
  <2>6. rank' \in [Tasks -> Nat] /\ registrations' \in Nat
    BY <1>3 DEF Register
  <2> QED BY <1>3, <2>3, <2>4, <2>5, <2>6 DEF Register
<1>4. CASE RunAtOnce(t)  BY <1>4 DEF RunAtOnce
<1>5. CASE LoadDone(t)  BY <1>5 DEF LoadDone
<1>6. CASE Notified(t)  BY <1>6 DEF Notified
<1>7. CASE Begin(t)  BY <1>7 DEF Begin
<1>8. CASE Dropped(t)  BY <1>8 DEF Dropped
<1>9. CASE Clear(t)
  <2>1. Key(t) \in Keys  BY <1>9, KeyType DEF Clear
  <2>2. <<>> \in Seq(Turn) /\ Len(<<>>) = 0  OBVIOUS
  <2>3. History(<<>>)  BY <2>2 DEF History
  <2>4. /\ histories' \in [Keys -> Seq(Turn)]
        /\ \A j \in Keys : Len(histories'[j]) <= MAX_CHANNEL_HISTORY
    BY <1>9, <2>1, <2>3, SetHistory DEF Clear
  <2> QED BY <1>9, <2>4 DEF Clear
<1>10. CASE AppendUserTurn(t)
  <2>1. Key(t) \in Keys  BY <1>10, KeyType DEF AppendUserTurn
  <2>2. History(Appended(histories[Key(t)], UserTurn(t)))
    BY <2>1, TurnsType, HistoriesType, AppendedType
  <2>3. /\ histories' \in [Keys -> Seq(Turn)]
        /\ \A j \in Keys : Len(histories'[j]) <= MAX_CHANNEL_HISTORY
    BY <1>10, <2>1, <2>2, SetHistory DEF AppendUserTurn, AppendTurn
  <2> QED BY <1>10, <2>3 DEF AppendUserTurn
<1>11. CASE ReadPrompt(t)  BY <1>11 DEF ReadPrompt
<1>12. CASE EndSilently(t)  BY <1>12 DEF EndSilently
<1>13. CASE Close(t)  BY <1>13, CloseType
<1>14. CASE Fail(t) /\ ~Close(t)
  <2>1. Key(t) \in Keys /\ histories[Key(t)] # <<>>
    BY <1>14, KeyType DEF Fail, CanRollBack
  <2>2. History(Front(histories[Key(t)]))  BY <2>1, HistoriesType, FrontType
  <2>3. histories' = [histories EXCEPT ![Key(t)] = Front(histories[Key(t)])]
    BY <1>14 DEF Fail
  <2>4. /\ histories' \in [Keys -> Seq(Turn)]
        /\ \A j \in Keys : Len(histories'[j]) <= MAX_CHANNEL_HISTORY
    BY <2>1, <2>2, <2>3, SetHistory
  <2> QED BY <1>14, <2>4 DEF Fail
<1>15. CASE Overflow(t)
  <2>1. Key(t) \in Keys  BY <1>15, KeyType DEF Overflow
  <2>2. History(Compacted(histories[Key(t)]))  BY <2>1, HistoriesType, CompactedType
  <2>3. histories' = [histories EXCEPT ![Key(t)] = Compacted(histories[Key(t)])]
    BY <1>15 DEF Overflow
  <2>4. /\ histories' \in [Keys -> Seq(Turn)]
        /\ \A j \in Keys : Len(histories'[j]) <= MAX_CHANNEL_HISTORY
    BY <2>1, <2>2, <2>3, SetHistory
  <2> QED BY <1>15, <2>4 DEF Overflow
<1>16. CASE Unregister(t)  BY <1>16 DEF Unregister
<1>17. CASE MarkDone(t)  BY <1>17 DEF MarkDone
<1> QED
  BY <1>1, <1>2, <1>3, <1>4, <1>5, <1>6, <1>7, <1>8, <1>9, <1>10, <1>11, <1>12, <1>13,
     <1>14, <1>15, <1>16, <1>17 DEF Step, RequestEnds, Answer

\* Every variable stays in its range: no history outgrows the cap, through appends,
\* compactions and rollbacks.
THEOREM TypeCorrect == Spec => []TypeOK
<1>1. TypeOK /\ [Next]_vars => TypeOK'
  <2> SUFFICES ASSUME TypeOK, [Next]_vars PROVE TypeOK'  OBVIOUS
  <2>1. CASE Next  BY <2>1, StepType DEF Next
  <2>2. CASE UNCHANGED vars
    BY <2>2 DEF TypeOK, vars, lineup, places, record
  <2> QED BY <2>1, <2>2
<1> QED BY <1>1, InitType, PTL DEF Spec
-----------------------------------------------------------------------------
(* One request at a time in a chat.                                        *)

Live(t) == pc[t] \in Waiting \cup Working
Registered(t) == pc[t] \notin {"none", "queued", "spawned"}
PastWait(t) == Registered(t) /\ pc[t] \notin Waiting
Before(u, t) == scope[u] = scope[t] /\ rank[u] < rank[t]

\* Tasks of a scope stand in a line, in the order in which they registered.
RanksOK ==
  \A t \in Tasks : Registered(t) =>
    /\ rank[t] \in 1..registrations
    /\ \A u \in Tasks : Registered(u) /\ rank[u] = rank[t] => u = t

\* The entry of a scope is the last of those that are not past their request.
EntryOK ==
  /\ \A s \in Scopes : in_flight[s] # None =>
       Registered(in_flight[s]) /\ scope[in_flight[s]] = s
  /\ \A t \in Tasks : Live(t) =>
       in_flight[scope[t]] # None /\ rank[t] <= rank[in_flight[scope[t]]]

\* A task waits for the one just before it.
WaitOK ==
  \A t \in Tasks : pc[t] \in Waiting =>
    /\ previous[t] # None /\ Registered(previous[t]) /\ Before(previous[t], t)
    /\ \A u \in Tasks : Live(u) /\ Before(u, t) => rank[u] <= rank[previous[t]]

\* Who does not wait has nobody in process before it.
TurnOK == \A t, u \in Tasks : PastWait(t) /\ Before(u, t) => ~Live(u)

LineInv == interrupt_enabled => RanksOK /\ EntryOK /\ WaitOK /\ TurnOK

\* A step that registers nobody, after which whoever has ended its wait may do so.
LineKept ==
  /\ UNCHANGED <<previous, rank, registrations>>
  /\ \A u \in Tasks : scope'[u] = scope[u] \/ ~Registered(u)
  /\ \A u \in Tasks :
       /\ Registered(u)' <=> Registered(u)
       /\ Live(u)' => Live(u)
       /\ pc'[u] \in Waiting => pc[u] \in Waiting
       /\ PastWait(u)' => PastWait(u) \/ \A v \in Tasks : Before(v, u) => ~Live(v)
  /\ \A s \in Scopes :
       \/ in_flight'[s] = in_flight[s]
       \/ in_flight'[s] = None /\ \A u \in Tasks : scope[u] = s => ~Live(u)

LEMMA QuietLine ==
  ASSUME TypeOK, TypeOK', LineInv, interrupt_enabled, LineKept
  PROVE  LineInv'
<1> USE DEF LineKept
<1>1. \A u \in Tasks : Registered(u) => scope'[u] = scope[u] /\ scope[u] \in Scopes
  BY DEF Registered, TypeOK
<1>2. \A u \in Tasks : Live(u) => Registered(u)
  BY DEF Live, Registered, Waiting, Working
<1>3. RanksOK'
  BY DEF LineInv, RanksOK, Registered
<1>4. EntryOK'
  <2>1. ASSUME NEW s \in Scopes, in_flight'[s] # None
        PROVE  Registered(in_flight[s])' /\ scope'[in_flight'[s]] = s
    <3>1. in_flight'[s] = in_flight[s] /\ in_flight[s] \in Tasks
      BY <2>1 DEF TypeOK
    <3>2. Registered(in_flight[s]) /\ scope[in_flight[s]] = s
      BY <2>1, <3>1 DEF LineInv, EntryOK
    <3> QED BY <1>1, <3>1, <3>2 DEF Registered
  <2>2. ASSUME NEW t \in Tasks, Live(t)'
        PROVE  in_flight'[scope'[t]] # None /\ rank[t] <= rank[in_flight'[scope'[t]]]
    BY <1>1, <1>2, <2>2 DEF LineInv, EntryOK
  <2> QED BY <2>1, <2>2 DEF EntryOK
<1>5. WaitOK'
  <2> SUFFICES ASSUME NEW t \in Tasks, pc'[t] \in Waiting
               PROVE  /\ previous[t] # None /\ Registered(previous[t])'
                      /\ Before(previous[t], t)'
                      /\ \A u \in Tasks : Live(u)' /\ Before(u, t)' =>
                           rank[u] <= rank[previous[t]]
    BY DEF WaitOK, Waiting
  <2>1. pc[t] \in Waiting /\ Registered(t)  BY DEF Waiting, Registered
  <2>2. previous[t] \in Tasks  BY <2>1 DEF LineInv, WaitOK, TypeOK
  <2>3. previous[t] # None /\ Registered(previous[t]) /\ Before(previous[t], t)
    BY <2>1 DEF LineInv, WaitOK
  <2>4. Registered(previous[t])' /\ Before(previous[t], t)'
    BY <1>1, <2>1, <2>2, <2>3 DEF Registered, Before
  <2>5. ASSUME NEW u \in Tasks, Live(u)', Before(u, t)'
        PROVE  rank[u] <= rank[previous[t]]
    <3>1. Live(u) /\ Registered(u)  BY <1>2, <2>5
    <3>2. Before(u, t)  BY <1>1, <2>1, <2>5, <3>1 DEF Before
    <3> QED BY <2>1, <3>1, <3>2 DEF LineInv, WaitOK
  <2> QED BY <2>3, <2>4, <2>5
<1>6. TurnOK'
  <2> SUFFICES ASSUME NEW t \in Tasks, NEW u \in Tasks, PastWait(t)', Before(u, t)', Live(u)'
               PROVE  FALSE
    BY DEF TurnOK
  <2>1. Live(u) /\ Registered(u) /\ Registered(t)
    BY <1>2 DEF PastWait, Registered
  <2>2. Before(u, t)  BY <1>1, <2>1 DEF Before
  <2> QED BY <2>1, <2>2 DEF LineInv, TurnOK
<1> QED BY <1>3, <1>4, <1>5, <1>6 DEF LineInv

LEMMA RegisterLine ==
  ASSUME TypeOK, TypeOK', LineInv, NEW t \in Tasks, Register(t)
  PROVE  LineInv'
<1> DEFINE found == in_flight[scope[t]]
<1>1. /\ interrupt_enabled /\ pc[t] = "spawned" /\ scope[t] \in Scopes /\ scope' = scope
      /\ previous' = [previous EXCEPT ![t] = found]
      /\ in_flight' = [in_flight EXCEPT ![scope[t]] = t]
      /\ rank' = [rank EXCEPT ![t] = registrations + 1]
      /\ registrations' = registrations + 1
      /\ pc' = [pc EXCEPT ![t] = IF found = None THEN "start" ELSE "load"]
      /\ interrupt_enabled' = interrupt_enabled
  BY DEF Register, Goto, TypeOK
<1>2. /\ rank'[t] = registrations + 1 /\ previous'[t] = found /\ in_flight'[scope[t]] = t
      /\ pc'[t] = IF found = None THEN "start" ELSE "load"
  BY <1>1 DEF TypeOK
<1>3. \A u \in Tasks \ {t} :
        /\ rank'[u] = rank[u] /\ previous'[u] = previous[u] /\ pc'[u] = pc[u]
        /\ Registered(u)' <=> Registered(u)
        /\ Live(u)' <=> Live(u)
        /\ PastWait(u)' <=> PastWait(u)
        /\ Registered(u) => rank[u] \in Nat /\ rank[u] <= registrations
  BY <1>1 DEF TypeOK, Registered, Live, PastWait, LineInv, RanksOK
<1>4. ~Registered(t) /\ ~Live(t) /\ Registered(t)' /\ registrations \in Nat
  BY <1>1, <1>2 DEF Registered, Live, Waiting, Working, TypeOK
<1>5. \A u \in Tasks : Live(u) => Registered(u)
  BY DEF Live, Registered, Waiting, Working
<1>6. found = None \/ (found \in Tasks \ {t} /\ Registered(found) /\ scope[found] = scope[t])
  BY <1>1, <1>4 DEF TypeOK, LineInv, EntryOK
<1>7. RanksOK'
  <2> SUFFICES ASSUME NEW v \in Tasks, Registered(v)'
               PROVE  /\ rank'[v] \in 1..registrations'
                      /\ \A u \in Tasks : Registered(u)' /\ rank'[u] = rank'[v] => u = v
    BY DEF RanksOK
  <2>1. CASE v = t  BY <1>1, <1>2, <1>3, <1>4, <2>1
  <2>2. CASE v # t  BY <1>1, <1>2, <1>3, <1>4, <2>2 DEF LineInv, RanksOK
  <2> QED BY <2>1, <2>2
<1>8. EntryOK'
  <2>1. ASSUME NEW s \in Scopes, in_flight'[s] # None
        PROVE  Registered(in_flight[s])' /\ scope'[in_flight'[s]] = s
    <3>1. CASE s = scope[t]  BY <1>1, <1>2, <1>4, <3>1 DEF Registered
    <3>2. CASE s # scope[t]
      <4>1. in_flight'[s] = in_flight[s] /\ in_flight[s] \in Tasks
        BY <1>1, <2>1, <3>2 DEF TypeOK
      <4>2. Registered(in_flight[s]) /\ scope[in_flight[s]] = s
        BY <1>1, <2>1, <4>1 DEF LineInv, EntryOK
      <4> QED BY <1>1, <1>3, <1>4, <4>1, <4>2 DEF Registered
    <3> QED BY <3>1, <3>2
  <2>2. ASSUME NEW u \in Tasks, Live(u)'
        PROVE  in_flight'[scope'[u]] # None /\ rank'[u] <= rank'[in_flight'[scope'[u]]]
    <3>1. CASE scope[u] = scope[t]  BY <1>1, <1>2, <1>3, <1>4, <1>5, <2>2, <3>1
    <3>2. CASE scope[u] # scope[t]
      <4>1. u # t /\ Live(u)  BY <1>3, <2>2, <3>2
      <4>2. scope[u] \in Scopes  BY <1>5, <4>1 DEF Registered, TypeOK
      <4>3. in_flight[scope[u]] # None /\ rank[u] <= rank[in_flight[scope[u]]]
        BY <1>1, <4>1 DEF LineInv, EntryOK
      <4>4. in_flight'[scope'[u]] = in_flight[scope[u]] /\ in_flight[scope[u]] \in Tasks
        BY <1>1, <3>2, <4>2, <4>3 DEF TypeOK
      <4>5. in_flight[scope[u]] # t  BY <1>1, <1>4, <4>2, <4>3 DEF LineInv, EntryOK
      <4> QED BY <1>3, <4>1, <4>3, <4>4, <4>5
    <3> QED BY <3>1, <3>2
  <2> QED BY <2>1, <2>2 DEF EntryOK
<1>9. WaitOK'
  <2> SUFFICES ASSUME NEW v \in Tasks, pc'[v] \in Waiting
               PROVE  /\ previous'[v] # None /\ Registered(previous[v])'
                      /\ Before(previous[v], v)'
                      /\ \A u \in Tasks : Live(u)' /\ Before(u, v)' =>
                           rank'[u] <= rank'[previous'[v]]
    BY DEF WaitOK, Waiting
  <2>1. CASE v = t
    <3>1. found # None  BY <1>2, <2>1 DEF Waiting
    <3>2. found \in Tasks \ {t} /\ Registered(found) /\ scope[found] = scope[t]
      BY <1>6, <3>1
    <3>3. /\ rank'[found] = rank[found] /\ rank[found] <= registrations
          /\ rank[found] \in Nat /\ pc'[found] \notin {"none", "queued", "spawned"}
      BY <1>3, <3>2 DEF Registered
    <3>4. Registered(previous[t])' /\ Before(previous[t], t)'
      <4>1. rank'[found] < rank'[t]  BY <1>2, <1>4, <3>3
      <4> QED BY <1>1, <1>2, <3>2, <3>3, <4>1 DEF Registered, Before
    <3>5. ASSUME NEW u \in Tasks, Live(u)', Before(u, t)'
          PROVE  rank'[u] <= rank'[found]
      <4>1. u # t  BY <1>2, <1>4, <3>5 DEF Before
      <4>2. Live(u) /\ scope[u] = scope[t]  BY <1>1, <1>3, <3>5, <4>1 DEF Before
      <4> QED BY <1>1, <1>3, <3>3, <4>1, <4>2 DEF LineInv, EntryOK
    <3> QED BY <1>2, <2>1, <3>1, <3>4, <3>5
  <2>2. CASE v # t
    <3>1. pc[v] \in Waiting /\ Registered(v) /\ previous'[v] = previous[v]
      BY <1>3, <2>2 DEF Waiting, Registered
    <3>2. /\ previous[v] # None /\ Registered(previous[v]) /\ Before(previous[v], v)
          /\ \A u \in Tasks : Live(u) /\ Before(u, v) => rank[u] <= rank[previous[v]]
      BY <1>1, <3>1 DEF LineInv, WaitOK
    <3>3. previous[v] \in Tasks \ {t}  BY <1>4, <3>2 DEF TypeOK
    <3>4. Registered(previous[v])' /\ Before(previous[v], v)'
      BY <1>1, <1>3, <2>2, <3>1, <3>2, <3>3 DEF Registered, Before
    <3>5. ASSUME NEW u \in Tasks, Live(u)', Before(u, v)'
          PROVE  rank'[u] <= rank'[previous[v]]
      <4>1. u # t  BY <1>2, <1>3, <1>4, <2>2, <3>1, <3>5 DEF Before
      <4>2. Live(u) /\ Before(u, v)  BY <1>1, <1>3, <2>2, <3>5, <4>1 DEF Before
      <4> QED BY <1>3, <3>2, <3>3, <4>1, <4>2
    <3> QED BY <3>1, <3>2, <3>4, <3>5
  <2> QED BY <2>1, <2>2
<1>10. TurnOK'
  <2> SUFFICES ASSUME NEW v \in Tasks, NEW u \in Tasks, PastWait(v)', Before(u, v)', Live(u)'
               PROVE  FALSE
    BY DEF TurnOK
  <2>1. CASE v = t
    <3>1. found = None  BY <1>2, <2>1 DEF PastWait, Waiting
    <3>2. u # t  BY <1>2, <1>4, <2>1 DEF Before
    <3>3. Live(u) /\ scope[u] = scope[t]  BY <1>1, <1>3, <2>1, <3>2 DEF Before
    <3> QED BY <1>1, <3>1, <3>3 DEF LineInv, EntryOK
  <2>2. CASE v # t
    <3>1. PastWait(v) /\ Registered(v)  BY <1>3, <2>2 DEF PastWait, Registered
    <3>2. u # t  BY <1>2, <1>3, <1>4, <2>2, <3>1 DEF Before
    <3>3. Live(u) /\ Before(u, v)  BY <1>1, <1>3, <2>2, <3>2 DEF Before
    <3> QED BY <1>1, <3>1, <3>3 DEF LineInv, TurnOK
  <2> QED BY <2>1, <2>2
<1> QED BY <1>7, <1>8, <1>9, <1>10 DEF LineInv

\* A step of one task that is not the end of a wait.
LEMMA OneTaskMoves ==
  ASSUME TypeOK, NEW t \in Tasks, NEW to \in Steps, pc' = [pc EXCEPT ![t] = to],
         \/ {pc[t], to} \subseteq {"none", "queued", "spawned"}
         \/ {pc[t], to} \subseteq Waiting
         \/ pc[t] \in Working \cup {"end"} /\ to \in Working \cup {"end", "mark"}
            /\ (pc[t] = "end" => to = "mark")
  PROVE  \A u \in Tasks :
           /\ Registered(u)' <=> Registered(u)
           /\ Live(u)' => Live(u)
           /\ pc'[u] \in Waiting => pc[u] \in Waiting
           /\ PastWait(u)' => PastWait(u)
<1> SUFFICES ASSUME NEW u \in Tasks
             PROVE  /\ Registered(u)' <=> Registered(u)
                    /\ Live(u)' => Live(u)
                    /\ pc'[u] \in Waiting => pc[u] \in Waiting
                    /\ PastWait(u)' => PastWait(u)
  OBVIOUS
<1>1. CASE u # t
  <2>1. pc'[u] = pc[u]  BY <1>1 DEF TypeOK
  <2> QED BY <2>1 DEF Registered, Live, PastWait, Waiting
<1>2. CASE u = t
  <2>1. pc'[t] = to  BY DEF TypeOK
  <2> QED BY <1>2, <2>1 DEF Registered, Live, PastWait, Waiting, Working
<1> QED BY <1>1, <1>2

LEMMA StepLine ==
  ASSUME TypeOK, TypeOK', LineInv, NEW t \in Tasks, Step(t) \/ Receive(t)
  PROVE  LineInv'
<1> SUFFICES ASSUME interrupt_enabled' PROVE LineInv'
  BY DEF LineInv
<1>1. interrupt_enabled /\ \A u \in Tasks : ~Registered(u) => ~PastWait(u) /\ ~Live(u)
  BY DEF PastWait, Live, Registered, Waiting, Working, Step, Receive, Spawn, Register, RunAtOnce, LoadDone, Notified, Begin, Dropped, Clear,
     AppendUserTurn, ReadPrompt, RequestEnds, EndSilently, Answer, Close, Fail, Overflow,
     Unregister, MarkDone
<1>2. CASE Register(t)  BY <1>2, RegisterLine
<1>3. CASE Receive(t)
  <2>1. /\ pc[t] = "none" /\ pc' = [pc EXCEPT ![t] = "queued"] /\ "queued" \in Steps
        /\ UNCHANGED <<in_flight, previous, rank, registrations, scope>>
    BY <1>3 DEF Receive, Goto, lineup, places, Steps
  <2>2. {pc[t], "queued"} \subseteq {"none", "queued", "spawned"}  BY <2>1
  <2>3. \A u \in Tasks :
          /\ Registered(u)' <=> Registered(u)
          /\ Live(u)' => Live(u)
          /\ pc'[u] \in Waiting => pc[u] \in Waiting
          /\ PastWait(u)' => PastWait(u)
    BY <2>1, <2>2, OneTaskMoves
  <2>4. LineKept  BY <2>1, <2>3 DEF LineKept
  <2> QED BY <1>1, <2>4, QuietLine
<1>4. CASE Spawn(t)
  <2>1. /\ pc[t] = "queued" /\ pc' = [pc EXCEPT ![t] = "spawned"]
        /\ UNCHANGED <<in_flight, previous, rank, registrations>>
        /\ \A u \in Tasks \ {t} : scope'[u] = scope[u]
        /\ "spawned" \in Steps /\ ~Registered(t)
    BY <1>4 DEF Spawn, Goto, lineup, places, TypeOK, Steps, Registered
  <2>2. {pc[t], "spawned"} \subseteq {"none", "queued", "spawned"}  BY <2>1
  <2>3. \A u \in Tasks :
          /\ Registered(u)' <=> Registered(u)
          /\ Live(u)' => Live(u)
          /\ pc'[u] \in Waiting => pc[u] \in Waiting
          /\ PastWait(u)' => PastWait(u)
    BY <2>1, <2>2, OneTaskMoves
  <2>4. LineKept  BY <2>1, <2>3 DEF LineKept
  <2> QED BY <1>1, <2>4, QuietLine
<1>5. CASE LoadDone(t)
  <2> DEFINE next == IF pc[previous[t]] = "done" THEN "start" ELSE "create"
  <2>1. /\ pc[t] = "load" /\ pc' = [pc EXCEPT ![t] = next]
        /\ UNCHANGED <<in_flight, previous, rank, registrations, scope>>
    BY <1>5 DEF LoadDone, Goto, lineup, places
  <2>2. previous[t] \in Tasks /\ previous[t] # None /\ Before(previous[t], t)
    BY <1>1, <2>1 DEF LineInv, WaitOK, Waiting, TypeOK
  <2>3. ASSUME pc[previous[t]] = "done", NEW u \in Tasks, Before(u, t), Live(u)
        PROVE  FALSE
    <3>1. rank[u] <= rank[previous[t]]
      BY <1>1, <2>1, <2>3 DEF LineInv, WaitOK, Waiting
    <3>2. u # previous[t]  BY <2>3 DEF Live, Waiting, Working
    <3>3. Registered(u) /\ Registered(previous[t]) /\ PastWait(previous[t])
      BY <2>3 DEF Live, Registered, PastWait, Waiting, Working
    <3>4. rank[u] # rank[previous[t]] /\ rank[u] \in Nat /\ rank[previous[t]] \in Nat
      BY <1>1, <2>2, <3>2, <3>3 DEF LineInv, RanksOK, TypeOK
    <3>5. Before(u, previous[t])  BY <2>2, <2>3, <3>1, <3>4 DEF Before
    <3> QED BY <1>1, <2>2, <2>3, <3>3, <3>5 DEF LineInv, TurnOK
  <2>4. next \in {"start", "create"} /\ (next = "start" => pc[previous[t]] = "done")
    OBVIOUS
  <2>7. \A u \in Tasks : pc'[u] = IF u = t THEN next ELSE pc[u]
    BY <2>1 DEF TypeOK
  <2> HIDE DEF next
  <2>5. \A u \in Tasks : PastWait(u)' /\ ~PastWait(u) => \A v \in Tasks : Before(v, u) => ~Live(v)
    <3> SUFFICES ASSUME NEW u \in Tasks, PastWait(u)', ~PastWait(u), NEW v \in Tasks,
                        Before(v, u), Live(v)
                 PROVE  FALSE
      OBVIOUS
    <3>1. u = t /\ next = "start"
      BY <2>1, <2>4, <2>7 DEF PastWait, Registered, Waiting
    <3> QED BY <2>3, <2>4, <3>1
  <2>6. \A u \in Tasks :
          /\ Registered(u)' <=> Registered(u)
          /\ Live(u)' => Live(u)
          /\ pc'[u] \in Waiting => pc[u] \in Waiting
    BY <2>1, <2>4, <2>7 DEF Registered, Live, Waiting, Working
  <2>8. LineKept  BY <2>1, <2>5, <2>6 DEF LineKept
  <2> QED BY <1>1, <2>8, QuietLine
<1>6. CASE Notified(t)
  <2>1. /\ pc[t] = "create" /\ pc' = [pc EXCEPT ![t] = "asleep"] /\ "asleep" \in Steps
        /\ {"create", "asleep"} \subseteq Waiting
        /\ UNCHANGED <<in_flight, previous, rank, registrations, scope>>
    BY <1>6 DEF Notified, Goto, lineup, places, Steps, Waiting
  <2>2. {pc[t], "asleep"} \subseteq Waiting  BY <2>1
  <2>3. \A u \in Tasks :
          /\ Registered(u)' <=> Registered(u)
          /\ Live(u)' => Live(u)
          /\ pc'[u] \in Waiting => pc[u] \in Waiting
          /\ PastWait(u)' => PastWait(u)
    BY <2>1, <2>2, OneTaskMoves
  <2>4. LineKept  BY <2>1, <2>3 DEF LineKept
  <2> QED BY <1>1, <2>4, QuietLine
<1>7. CASE Begin(t) \/ Dropped(t) \/ Clear(t) \/ AppendUserTurn(t) \/ ReadPrompt(t)
           \/ RequestEnds(t)
  <2>1. UNCHANGED <<in_flight, previous, rank, registrations, scope>>
    BY <1>7 DEF Begin, Dropped, Clear, AppendUserTurn, ReadPrompt, RequestEnds, EndSilently,
       Answer, Close, Fail, Overflow, lineup, places
  <2>2. pc[t] \in Working /\ \E to \in Working \cup {"end"} : pc' = [pc EXCEPT ![t] = to]
    BY <1>7 DEF Begin, Dropped, Clear, AppendUserTurn, ReadPrompt, RequestEnds, EndSilently,
       Answer, Close, Fail, Overflow, Goto, Working
  <2>3. PICK to \in Working \cup {"end"} : pc' = [pc EXCEPT ![t] = to]
    BY <2>2
  <2>4. to \in Steps /\ pc[t] # "end"  BY <2>2 DEF Steps, Working
  <2>5. \A u \in Tasks :
          /\ Registered(u)' <=> Registered(u)
          /\ Live(u)' => Live(u)
          /\ pc'[u] \in Waiting => pc[u] \in Waiting
          /\ PastWait(u)' => PastWait(u)
    BY <2>2, <2>3, <2>4, OneTaskMoves
  <2>6. LineKept  BY <2>1, <2>5 DEF LineKept
  <2> QED BY <1>1, <2>6, QuietLine
<1>8. CASE Unregister(t)
  <2>1. /\ pc[t] = "end" /\ pc' = [pc EXCEPT ![t] = "mark"] /\ scope[t] \in Scopes
        /\ UNCHANGED <<previous, rank, registrations, scope>>
        /\ in_flight' = IF in_flight[scope[t]] = t THEN [in_flight EXCEPT ![scope[t]] = None]
                        ELSE in_flight
    BY <1>1, <1>8 DEF Unregister, Goto, TypeOK
  <2>2. ASSUME in_flight[scope[t]] = t, NEW u \in Tasks, scope[u] = scope[t], Live(u)
        PROVE  FALSE
    <3>1. rank[u] <= rank[t]  BY <1>1, <2>2 DEF LineInv, EntryOK
    <3>2. Registered(u) /\ Registered(t) /\ PastWait(t) /\ u # t
      BY <2>1, <2>2 DEF Live, Registered, PastWait, Waiting, Working
    <3>3. rank[u] # rank[t] /\ rank[u] \in Nat /\ rank[t] \in Nat
      BY <1>1, <3>2 DEF LineInv, RanksOK, TypeOK
    <3>4. Before(u, t)  BY <2>2, <3>1, <3>3 DEF Before
    <3> QED BY <1>1, <2>2, <3>2, <3>4 DEF LineInv, TurnOK
  <2>3. \A s \in Scopes :
          \/ in_flight'[s] = in_flight[s]
          \/ in_flight'[s] = None /\ \A u \in Tasks : scope[u] = s => ~Live(u)
    BY <2>1, <2>2 DEF TypeOK
  <2>4. \A u \in Tasks :
          /\ Registered(u)' <=> Registered(u)
          /\ Live(u)' => Live(u)
          /\ pc'[u] \in Waiting => pc[u] \in Waiting
          /\ PastWait(u)' => PastWait(u)
    <3>1. "mark" \in Steps  BY DEF Steps
    <3> QED BY <2>1, <3>1, OneTaskMoves
  <2>5. LineKept  BY <2>1, <2>3, <2>4 DEF LineKept
  <2> QED BY <1>1, <2>5, QuietLine
<1>9. CASE MarkDone(t)
  <2>1. /\ pc[t] = "mark" /\ UNCHANGED <<in_flight, previous, rank, registrations, scope>>
        /\ pc' = [u \in Tasks |-> IF u = t THEN "done"
                                  ELSE IF pc[u] = "asleep" /\ previous[u] = t THEN "start"
                                  ELSE pc[u]]
    BY <1>9 DEF MarkDone, places
  <2>2. \A u \in Tasks :
          /\ Registered(u)' <=> Registered(u)
          /\ Live(u)' => Live(u)
          /\ pc'[u] \in Waiting => pc[u] \in Waiting
          /\ PastWait(u)' /\ ~PastWait(u) => pc[u] = "asleep" /\ previous[u] = t
    <3> SUFFICES ASSUME NEW u \in Tasks
                 PROVE  /\ Registered(u)' <=> Registered(u)
                        /\ Live(u)' => Live(u)
                        /\ pc'[u] \in Waiting => pc[u] \in Waiting
                        /\ PastWait(u)' /\ ~PastWait(u) =>
                             pc[u] = "asleep" /\ previous[u] = t
      OBVIOUS
    <3>1. CASE u = t
      BY <2>1, <3>1 DEF Registered, Live, PastWait, Waiting, Working
    <3>2. CASE u # t /\ pc[u] = "asleep" /\ previous[u] = t
      <4>1. pc'[u] = "start"  BY <2>1, <3>2
      <4> QED BY <3>2, <4>1 DEF Registered, Live, PastWait, Waiting, Working
    <3>3. CASE u # t /\ ~(pc[u] = "asleep" /\ previous[u] = t)
      <4>1. pc'[u] = pc[u]  BY <2>1, <3>3
      <4> QED BY <4>1 DEF Registered, Live, PastWait, Waiting, Working
    <3> QED BY <3>1, <3>2, <3>3
  <2>3. ASSUME NEW u \in Tasks, pc[u] = "asleep", previous[u] = t,
               NEW v \in Tasks, Before(v, u), Live(v)
        PROVE  FALSE
    <3>1. Before(t, u) /\ rank[v] <= rank[t]
      BY <1>1, <2>3 DEF LineInv, WaitOK, Waiting
    <3>2. v # t /\ PastWait(t) /\ Registered(t) /\ Registered(v)
      BY <2>1, <2>3 DEF Live, Registered, PastWait, Waiting, Working
    <3>3. rank[v] # rank[t] /\ rank[v] \in Nat /\ rank[t] \in Nat
      BY <1>1, <3>2 DEF LineInv, RanksOK, TypeOK
    <3>4. Before(v, t)  BY <2>3, <3>1, <3>3 DEF Before
    <3> QED BY <1>1, <2>3, <3>2, <3>4 DEF LineInv, TurnOK
  <2>4. LineKept  BY <2>1, <2>2, <2>3 DEF LineKept
  <2> QED BY <1>1, <2>4, QuietLine
<1>10. ~RunAtOnce(t)  BY <1>1 DEF RunAtOnce
<1> QED BY <1>2, <1>3, <1>4, <1>5, <1>6, <1>7, <1>8, <1>9, <1>10 DEF Step

LEMMA LineInvariant == Spec => []LineInv
<1>1. Init => LineInv
  BY DEF Init, LineInv, RanksOK, EntryOK, WaitOK, TurnOK, Registered, PastWait, Live, Waiting,
     Working
<1>2. TypeOK /\ TypeOK' /\ LineInv /\ [Next]_vars => LineInv'
  <2> SUFFICES ASSUME TypeOK, TypeOK', LineInv, [Next]_vars PROVE LineInv'  OBVIOUS
  <2>1. CASE Next  BY <2>1, StepLine DEF Next
  <2>2. CASE UNCHANGED vars
    BY <2>2 DEF LineInv, RanksOK, EntryOK, WaitOK, TurnOK, Registered, PastWait, Live, Before,
       vars, lineup, places
  <2> QED BY <2>1, <2>2
<1> QED BY <1>1, <1>2, TypeCorrect, PTL DEF Spec

LEMMA LineGivesOne == TypeOK /\ LineInv => OnePerScope
<1> SUFFICES ASSUME TypeOK, LineInv, interrupt_enabled, NEW t \in Tasks, NEW u \in Tasks,
                    pc[t] \in Working, pc[u] \in Working, scope[t] = scope[u], t # u
             PROVE  FALSE
  BY DEF OnePerScope
<1>1. /\ Registered(t) /\ PastWait(t) /\ Live(t)
      /\ Registered(u) /\ PastWait(u) /\ Live(u)
  BY DEF Registered, PastWait, Live, Waiting, Working
<1>2. rank[t] \in Nat /\ rank[u] \in Nat /\ rank[t] # rank[u]
  BY <1>1 DEF LineInv, RanksOK, TypeOK
<1>3. Before(t, u) \/ Before(u, t)  BY <1>2 DEF Before
<1> QED BY <1>1, <1>3 DEF LineInv, TurnOK

\* With interrupts, no two messages of one sender in one chat are in process together.
THEOREM OneRequestPerChat == Spec => []OnePerScope
BY TypeCorrect, LineInvariant, LineGivesOne, PTL

-----------------------------------------------------------------------------
(* The turns of a history.                                                 *)

LEMMA AppendedShape ==
  ASSUME NEW turns, History(turns), NEW turn \in Turn
  PROVE  LET g == Appended(turns, turn) IN
         /\ g # <<>> /\ Len(g) \in Nat \ {0} /\ g[Len(g)] = turn
         /\ \E d \in {0, 1} :
              /\ Len(g) = Len(turns) + 1 - d
              /\ \A i \in 1..(Len(g) - 1) : i + d \in 1..Len(turns) /\ g[i] = turns[i + d]
<1> DEFINE a == Append(turns, turn)
<1>1. /\ a \in Seq(Turn) /\ Len(a) = Len(turns) + 1 /\ Len(turns) \in Nat
      /\ a[Len(turns) + 1] = turn /\ \A i \in 1..Len(turns) : a[i] = turns[i]
  BY DEF History
<1>2. CASE Len(a) > MAX_CHANNEL_HISTORY
  <2>1. Appended(turns, turn) = Tail(a)  BY <1>2 DEF Appended
  <2>2. Len(turns) >= 1  BY <1>1, <1>2 DEF History
  <2>3. Len(Tail(a)) = Len(turns) /\ \A i \in 1..Len(turns) : Tail(a)[i] = a[i + 1]
    BY <1>1
  <2>4. Tail(a) # <<>> /\ Tail(a)[Len(turns)] = turn  BY <1>1, <2>2, <2>3
  <2>5. \A i \in 1..(Len(turns) - 1) :
          i + 1 \in 1..Len(turns) /\ Tail(a)[i] = turns[i + 1]
    BY <1>1, <2>3
  <2> DEFINE g == Tail(a)
  <2>6. /\ g # <<>> /\ Len(g) \in Nat \ {0} /\ g[Len(g)] = turn
        /\ Len(g) = Len(turns) + 1 - 1
        /\ \A i \in 1..(Len(g) - 1) : i + 1 \in 1..Len(turns) /\ g[i] = turns[i + 1]
    BY <1>1, <2>2, <2>3, <2>4, <2>5
  <2> HIDE DEF a, g
  <2>7. \E d \in {0, 1} :
          /\ Len(g) = Len(turns) + 1 - d
          /\ \A i \in 1..(Len(g) - 1) : i + d \in 1..Len(turns) /\ g[i] = turns[i + d]
    <3> WITNESS 1 \in {0, 1}
    <3> QED BY <2>6
  <2> QED BY <2>1, <2>6, <2>7 DEF g
<1>3. CASE ~(Len(a) > MAX_CHANNEL_HISTORY)
  <2>1. Appended(turns, turn) = a  BY <1>3 DEF Appended
  <2>2. \A i \in 1..(Len(a) - 1) : i + 0 \in 1..Len(turns) /\ a[i] = turns[i + 0]
    BY <1>1
  <2>3. a # <<>> /\ a[Len(a)] = turn /\ Len(a) \in Nat \ {0} /\ Len(a) = Len(turns) + 1 - 0
    BY <1>1
  <2> HIDE DEF a
  <2>4. \E d \in {0, 1} :
          /\ Len(a) = Len(turns) + 1 - d
          /\ \A i \in 1..(Len(a) - 1) : i + d \in 1..Len(turns) /\ a[i] = turns[i + d]
    <3> WITNESS 0 \in {0, 1}
    <3> QED BY <2>2, <2>3
  <2> QED BY <2>1, <2>3, <2>4
<1> QED BY <1>2, <1>3

\* What a step does to the histories.
LEMMA HistoryStep ==
  ASSUME TypeOK, NEW t \in Tasks, Step(t) \/ Receive(t)
  PROVE  \/ histories' = histories
         \/ /\ pc[t] \in {"clear", "append", "running"} /\ scope' = scope
            /\ Key(t) \in Keys
            /\ \A k \in Keys \ {Key(t)} : histories'[k] = histories[k]
<1>1. CASE Clear(t) \/ AppendUserTurn(t) \/ Close(t) \/ Fail(t) \/ Overflow(t)
  <2>1. /\ pc[t] \in {"clear", "append", "running"} /\ scope' = scope
        /\ \E new : histories' = [histories EXCEPT ![Key(t)] = new]
    BY <1>1 DEF Clear, AppendUserTurn, Close, Fail, Overflow, AppendTurn, Goto
  <2>2. Key(t) \in Keys  BY <2>1, KeyType
  <2> QED BY <2>1, <2>2 DEF TypeOK
<1>2. CASE ~(Clear(t) \/ AppendUserTurn(t) \/ Close(t) \/ Fail(t) \/ Overflow(t))
  BY <1>2 DEF Step, RequestEnds, Answer, Receive, Spawn, Register, RunAtOnce, LoadDone,
     Notified, Begin, Dropped, ReadPrompt, EndSilently, Unregister, MarkDone, record
<1> QED BY <1>1, <1>2

LEMMA ReadStep ==
  ASSUME TypeOK, NEW t \in Tasks, Step(t) \/ Receive(t), ~AppendUserTurn(t),
         NEW v \in Tasks, pc'[v] = "read"
  PROVE  pc[v] = "read" /\ (scope' = scope \/ scope'[v] = scope[v])
<1>1. CASE MarkDone(t)  BY <1>1 DEF MarkDone, TypeOK
<1>2. CASE ~MarkDone(t)
  <2>1. \E to \in Steps \ {"read"} : pc' = [pc EXCEPT ![t] = to]
    BY <1>2 DEF Step, RequestEnds, Answer, Close, Fail, Overflow, Clear, Receive, Spawn,
       Register, RunAtOnce, LoadDone, Notified, Begin, Dropped, ReadPrompt, EndSilently,
       Unregister, Goto, Steps, Waiting, Working
  <2>2. v # t /\ pc[v] = "read"  BY <2>1 DEF TypeOK
  <2>3. scope' = scope \/ scope'[v] = scope[v]
    BY <1>2, <2>2 DEF Step, RequestEnds, Answer, Close, Fail, Overflow, Clear, Receive, Spawn,
       Register, RunAtOnce, LoadDone, Notified, Begin, Dropped, ReadPrompt, EndSilently,
       Unregister, TypeOK
  <2> QED BY <2>2, <2>3
<1> QED BY <1>1, <1>2

\* Between the append of a message and the read of the history nobody else of the key is
\* in process, because all its messages stand in one line.
LEMMA OwnTurnStep ==
  ASSUME TypeOK, TypeOK', OnePerScope, OwnTurnLast, NEW t \in Tasks, Step(t) \/ Receive(t)
  PROVE  OwnTurnLast'
<1> SUFFICES ASSUME interrupt_enabled', NEW v \in Tasks, pc'[v] = "read", OneChat(v)'
             PROVE  /\ histories'[Key(v)'] # <<>>
                    /\ histories'[Key(v)'][Len(histories'[Key(v)'])] = UserTurn(v)
  BY DEF OwnTurnLast, UserTurn
<1>1. interrupt_enabled
  BY DEF Step, Receive, Spawn, Register, RunAtOnce, LoadDone, Notified, Begin, Dropped, Clear,
     AppendUserTurn, ReadPrompt, RequestEnds, EndSilently, Answer, Close, Fail, Overflow,
     Unregister, MarkDone
<1>2. CASE AppendUserTurn(t) /\ v = t
  <2>1. pc[t] = "append" /\ scope' = scope  BY <1>2 DEF AppendUserTurn, Goto
  <2>2. Key(t) \in Keys /\ Key(t)' = Key(t)  BY <2>1, KeyType DEF Key
  <2>3. histories'[Key(t)] = Appended(histories[Key(t)], UserTurn(t))
    BY <1>2, <2>2 DEF AppendUserTurn, AppendTurn, TypeOK
  <2> DEFINE after == Appended(histories[Key(t)], UserTurn(t))
  <2>4. History(histories[Key(t)]) /\ UserTurn(t) \in Turn
    BY <2>2, HistoriesType, TurnsType
  <2>5. after # <<>> /\ after[Len(after)] = UserTurn(t)  BY <2>4, AppendedShape
  <2> QED BY <1>2, <2>2, <2>3, <2>5
<1>3. CASE ~(AppendUserTurn(t) /\ v = t)
  <2>1. pc[v] = "read" /\ (scope' = scope \/ scope'[v] = scope[v])
    <3>1. CASE AppendUserTurn(t)
      BY <1>3, <3>1 DEF AppendUserTurn, Goto, TypeOK
    <3>2. CASE ~AppendUserTurn(t)  BY <3>2, ReadStep
    <3> QED BY <3>1, <3>2
  <2>2. Key(v)' = Key(v) /\ Key(v) \in Keys /\ scope[v] \in Scopes
    BY <2>1, KeyType DEF Key
  <2>3. OneChat(v)
    <3>1. \A u \in Tasks : scope[u] # None => scope'[u] = scope[u]
      BY DEF Step, Receive, Spawn, Register, RunAtOnce, LoadDone, Notified, Begin, Dropped,
         Clear, AppendUserTurn, ReadPrompt, RequestEnds, EndSilently, Answer, Close, Fail,
         Overflow, Unregister, MarkDone, TypeOK, Goto
    <3> QED BY <2>2, <3>1 DEF OneChat, Key
  <2>4. /\ histories[Key(v)] # <<>>
        /\ histories[Key(v)][Len(histories[Key(v)])] = UserTurn(v)
    BY <1>1, <2>1, <2>3 DEF OwnTurnLast
  <2>5. histories'[Key(v)] = histories[Key(v)]
    <3>1. CASE histories' = histories  BY <3>1
    <3>2. CASE /\ pc[t] \in {"clear", "append", "running"} /\ scope' = scope
               /\ Key(t) \in Keys
               /\ \A k \in Keys \ {Key(t)} : histories'[k] = histories[k]
      <4>1. CASE Key(t) = Key(v)
        <5>1. scope[t] # None  BY <3>2 DEF TypeOK
        <5>2. scope[t] = scope[v]  BY <2>3, <4>1, <5>1 DEF OneChat
        <5>3. pc[t] \in Working /\ pc[v] \in Working /\ t # v  BY <2>1, <3>2 DEF Working
        <5> QED BY <1>1, <5>2, <5>3 DEF OnePerScope
      <4>2. CASE Key(t) # Key(v)  BY <2>2, <3>2, <4>2
      <4> QED BY <4>1, <4>2
    <3> QED BY <3>1, <3>2, HistoryStep
  <2> QED BY <2>2, <2>4, <2>5
<1> QED BY <1>2, <1>3

\* With interrupts and one chat per history, a request is made from a history whose last
\* turn is its message.
THEOREM RequestIsItsMessage == Spec => []OwnTurnLast
<1>1. Init => OwnTurnLast  BY DEF Init, OwnTurnLast
<1>2. TypeOK /\ TypeOK' /\ OnePerScope /\ OwnTurnLast /\ [Next]_vars => OwnTurnLast'
  <2> SUFFICES ASSUME TypeOK, TypeOK', OnePerScope, OwnTurnLast, [Next]_vars
               PROVE  OwnTurnLast'
    OBVIOUS
  <2>1. CASE Next  BY <2>1, OwnTurnStep DEF Next
  <2>2. CASE UNCHANGED vars
    BY <2>2 DEF OwnTurnLast, OneChat, Key, UserTurn, vars, lineup, record
  <2> QED BY <2>1, <2>2
<1> QED BY <1>1, <1>2, TypeCorrect, OneRequestPerChat, PTL DEF Spec

-----------------------------------------------------------------------------
(* No turn is left open by a task that closed it.                          *)

\* EveryTurnClosed of one history
ClosedIn(turns, done) ==
  \A i \in DOMAIN turns : \A t \in turns[i].of \cap done :
    turns[i].role = "user" =>
      \E j \in DOMAIN turns : j > i /\ turns[j].role = "assistant" /\ t \in turns[j].of

\* A history is made of the turns of its own key.
OwnedBy(turns, k) ==
  \A i \in DOMAIN turns : \A t \in turns[i].of : scope[t] # None /\ Key(t) = k

LEMMA ClosedByParts == EveryTurnClosed <=> \A k \in Keys : ClosedIn(histories[k], closed)
BY DEF EveryTurnClosed, ClosedIn

LEMMA AppendedClosed ==
  ASSUME NEW turns, History(turns), NEW turn \in Turn, NEW done, ClosedIn(turns, done),
         NEW more, turn.role = "user" => turn.of \cap done = {} /\ more = {},
         turn.role = "assistant" => more \subseteq turn.of
  PROVE  ClosedIn(Appended(turns, turn), done \cup more)
<1> DEFINE g == Appended(turns, turn)
<1>1. /\ g # <<>> /\ Len(g) \in Nat \ {0} /\ g[Len(g)] = turn /\ g \in Seq(Turn)
      /\ \E d \in {0, 1} :
           /\ Len(g) = Len(turns) + 1 - d
           /\ \A i \in 1..(Len(g) - 1) : i + d \in 1..Len(turns) /\ g[i] = turns[i + d]
  <2>1. g \in Seq(Turn)  BY AppendedType DEF History
  <2> QED BY <2>1, AppendedShape
<1> HIDE DEF g
<1>2. PICK d \in {0, 1} :
        /\ Len(g) = Len(turns) + 1 - d
        /\ \A i \in 1..(Len(g) - 1) : i + d \in 1..Len(turns) /\ g[i] = turns[i + d]
  BY <1>1
<1>3. DOMAIN g = 1..Len(g) /\ DOMAIN turns = 1..Len(turns) /\ Len(turns) \in Nat
  BY <1>1 DEF History
<1> SUFFICES ASSUME NEW i \in 1..Len(g), NEW t \in g[i].of \cap (done \cup more),
                    g[i].role = "user"
             PROVE  \E j \in 1..Len(g) : j > i /\ g[j].role = "assistant" /\ t \in g[j].of
  BY <1>3 DEF ClosedIn, g
<1>4. CASE i = Len(g)
  <2>1. turn.role = "user" /\ t \in turn.of  BY <1>1, <1>4
  <2> QED BY <2>1
<1>5. CASE i # Len(g)
  <2>1. i \in 1..(Len(g) - 1) /\ g[i] = turns[i + d] /\ i + d \in 1..Len(turns)
    BY <1>1, <1>2, <1>5
  <2>2. CASE t \in done
    <3>1. PICK j \in 1..Len(turns) :
            j > i + d /\ turns[j].role = "assistant" /\ t \in turns[j].of
      BY <1>3, <2>1, <2>2 DEF ClosedIn
    <3>2. j - d \in 1..(Len(g) - 1) /\ j - d > i /\ (j - d) + d = j
      BY <1>2, <1>3, <3>1
    <3>3. g[j - d] = turns[j]  BY <1>2, <3>2
    <3> DEFINE m == j - d
    <3>4. m \in 1..Len(g) /\ m > i /\ g[m] = turns[j]  BY <1>1, <3>2, <3>3
    <3> HIDE DEF m
    <3> QED BY <3>1, <3>4
  <2>3. CASE t \in more
    <3>1. turn.role = "assistant" /\ t \in turn.of  BY <2>3 DEF Turn
    <3>2. Len(g) \in 1..Len(g) /\ Len(g) > i  BY <1>1, <2>1
    <3> QED BY <1>1, <3>1, <3>2
  <2> QED BY <2>2, <2>3
<1> QED BY <1>4, <1>5

LEMMA AppendedOwned ==
  ASSUME NEW turns, History(turns), NEW turn \in Turn, NEW k, OwnedBy(turns, k),
         \A t \in turn.of : scope[t] # None /\ Key(t) = k
  PROVE  OwnedBy(Appended(turns, turn), k)
<1> DEFINE g == Appended(turns, turn)
<1>1. /\ Len(g) \in Nat \ {0} /\ g[Len(g)] = turn /\ g \in Seq(Turn)
      /\ \E d \in {0, 1} :
           /\ Len(g) = Len(turns) + 1 - d
           /\ \A i \in 1..(Len(g) - 1) : i + d \in 1..Len(turns) /\ g[i] = turns[i + d]
  <2>1. g \in Seq(Turn)  BY AppendedType DEF History
  <2> QED BY <2>1, AppendedShape
<1> HIDE DEF g
<1>2. PICK d \in {0, 1} :
        \A i \in 1..(Len(g) - 1) : i + d \in 1..Len(turns) /\ g[i] = turns[i + d]
  BY <1>1
<1>3. DOMAIN g = 1..Len(g) /\ DOMAIN turns = 1..Len(turns)
  BY <1>1 DEF History
<1> SUFFICES ASSUME NEW i \in 1..Len(g), NEW t \in g[i].of
             PROVE  scope[t] # None /\ Key(t) = k
  BY <1>3 DEF OwnedBy, g
<1>4. CASE i = Len(g)  BY <1>1, <1>4
<1>5. CASE i # Len(g)
  <2>1. i \in 1..(Len(g) - 1)  BY <1>1, <1>5
  <2> QED BY <1>2, <1>3, <2>1 DEF OwnedBy
<1> QED BY <1>4, <1>5

LEMMA FrontKept ==
  ASSUME NEW turns, History(turns), turns # <<>>, NEW done, NEW k,
         ClosedIn(turns, done), OwnedBy(turns, k), turns[Len(turns)].role = "user"
  PROVE  ClosedIn(Front(turns), done) /\ OwnedBy(Front(turns), k)
<1> DEFINE g == Front(turns)
<1>1. /\ g \in Seq(Turn) /\ Len(g) = Len(turns) - 1 /\ Len(turns) \in Nat
      /\ \A i \in 1..(Len(turns) - 1) : g[i] = turns[i]
  BY FrontType DEF History
<1> HIDE DEF g
<1>2. DOMAIN g = 1..(Len(turns) - 1) /\ DOMAIN turns = 1..Len(turns)
  BY <1>1 DEF History
<1>3. ASSUME NEW i \in DOMAIN g, NEW t \in g[i].of \cap done, g[i].role = "user"
      PROVE  \E j \in DOMAIN g : j > i /\ g[j].role = "assistant" /\ t \in g[j].of
  <2>1. i \in DOMAIN turns /\ g[i] = turns[i]  BY <1>1, <1>2, <1>3
  <2>2. PICK j \in DOMAIN turns : j > i /\ turns[j].role = "assistant" /\ t \in turns[j].of
    BY <1>3, <2>1 DEF ClosedIn
  <2>3. j # Len(turns)  BY <2>2
  <2>4. j \in DOMAIN g /\ g[j] = turns[j]  BY <1>1, <1>2, <2>2, <2>3
  <2> QED BY <2>2, <2>4
<1>4. OwnedBy(g, k)
  <2> SUFFICES ASSUME NEW i \in DOMAIN g, NEW t \in g[i].of
               PROVE  scope[t] # None /\ Key(t) = k
    BY DEF OwnedBy
  <2>1. i \in DOMAIN turns /\ g[i] = turns[i]  BY <1>1, <1>2
  <2> QED BY <2>1 DEF OwnedBy
<1> QED BY <1>3, <1>4 DEF ClosedIn, g

\* The normal form keeps the order of turns of different roles.

LEMMA Least ==
  ASSUME NEW S \in SUBSET Nat, S # {}
  PROVE  \E m \in S : \A n \in S : m <= n
<1>1. PICK m \in S : \A n \in S : ~(<<n, m>> \in OpToRel(<, Nat))
  BY NatLessThanWellFounded, WFMin
<1>2. \A n \in S : ~(n < m)  BY <1>1 DEF OpToRel
<1> QED BY <1>2

LEMMA GroupsGrow ==
  ASSUME NEW turns \in Seq(Turn), NEW i \in 1..Len(turns), NEW j \in 1..Len(turns), i <= j
  PROVE  /\ Group(turns, i) \in 0..Cardinality(Starts(turns))
         /\ Group(turns, i) <= Group(turns, j)
         /\ turns[i].role # turns[j].role => Group(turns, i) < Group(turns, j)
<1> DEFINE upto(n) == {g \in Starts(turns) : g <= n}
<1>1. Starts(turns) \subseteq 1..Len(turns) /\ IsFiniteSet(Starts(turns)) /\ Len(turns) \in Nat
  BY StartsFinite
<1>2. /\ upto(i) \in SUBSET upto(j) /\ upto(j) \in SUBSET Starts(turns)
      /\ upto(i) \in SUBSET Starts(turns)
  BY <1>1
<1>3. Group(turns, i) = Cardinality(upto(i)) /\ Group(turns, j) = Cardinality(upto(j))
  BY DEF Group
<1>4. turns[i].role # turns[j].role => \E k \in Starts(turns) : k > i /\ k <= j
  <2> SUFFICES ASSUME turns[i].role # turns[j].role
               PROVE  \E k \in Starts(turns) : k > i /\ k <= j
    OBVIOUS
  <2> DEFINE other == {k \in 1..Len(turns) : k > i /\ turns[k].role # turns[i].role}
  <2>1. j \in other /\ other \in SUBSET Nat  BY <1>1
  <2>2. PICK k \in other : \A n \in other : k <= n  BY <2>1, Least
  <2>3. k - 1 \in 1..Len(turns) /\ k # 1 /\ k - 1 >= i  BY <1>1, <2>2
  <2>4. k - 1 \notin other  BY <1>1, <2>2, <2>3
  <2>5. turns[k - 1].role = turns[i].role  BY <2>3, <2>4
  <2>6. k \in Starts(turns)  BY <1>1, <2>2, <2>3, <2>5 DEF Starts
  <2>7. k <= j  BY <2>1, <2>2
  <2> QED BY <2>2, <2>6, <2>7
<1>5. turns[i].role # turns[j].role => upto(i) # upto(j)
  BY <1>1, <1>4
<1> HIDE DEF upto
<1>6. IsFiniteSet(upto(i)) /\ IsFiniteSet(upto(j))  BY <1>1, <1>2, FS_Subset
<1>7. /\ Cardinality(upto(i)) <= Cardinality(upto(j))
      /\ Cardinality(upto(i)) = Cardinality(upto(j)) => upto(i) = upto(j)
      /\ Cardinality(upto(i)) <= Cardinality(Starts(turns))
  BY <1>1, <1>2, <1>6, FS_Subset
<1>8. /\ Cardinality(upto(i)) \in Nat /\ Cardinality(upto(j)) \in Nat
      /\ Cardinality(Starts(turns)) \in Nat
  BY <1>1, <1>6, FS_CardinalityType
<1> QED BY <1>3, <1>5, <1>7, <1>8

LEMMA SameGroupSameRole ==
  ASSUME NEW turns \in Seq(Turn), NEW i \in 1..Len(turns), NEW j \in 1..Len(turns),
         Group(turns, i) = Group(turns, j)
  PROVE  turns[i].role = turns[j].role
<1>1. CASE i <= j  BY <1>1, GroupsGrow
<1>2. CASE j <= i  BY <1>2, GroupsGrow
<1> QED BY <1>1, <1>2

\* A turn of the normal form stands for turns of its role, of one group.
LEMMA NormalizeShape ==
  ASSUME NEW turns \in Seq(Turn)
  PROVE  LET n == normalize_cached_channel_turns(turns)
             size == Cardinality(Starts(turns)) IN
         /\ DOMAIN n = 1..size /\ size \in Nat
         /\ \A j \in 1..size : \A t \in n[j].of :
              \E i \in 1..Len(turns) : Group(turns, i) = j /\ t \in turns[i].of
         /\ \A i \in 1..Len(turns) : Group(turns, i) \in 1..size =>
              /\ turns[i].of \subseteq n[Group(turns, i)].of
              /\ turns[i].role = n[Group(turns, i)].role
<1> DEFINE n == normalize_cached_channel_turns(turns)
           size == Cardinality(Starts(turns))
           merged(j) == {turns[i] : i \in {i \in DOMAIN turns : Group(turns, i) = j}}
<1>1. /\ DOMAIN n = 1..size /\ size \in Nat
      /\ \A j \in 1..size :
           /\ n[j].role = IF \E u \in merged(j) : u.role = "user" THEN "user" ELSE "assistant"
           /\ n[j].of = UNION {u.of : u \in merged(j)}
  BY StartsFinite DEF normalize_cached_channel_turns
<1>2. DOMAIN turns = 1..Len(turns) /\ \A i \in 1..Len(turns) : turns[i] \in Turn
  OBVIOUS
<1>3. \A j \in 1..size : \A t \in n[j].of :
        \E i \in 1..Len(turns) : Group(turns, i) = j /\ t \in turns[i].of
  BY <1>1, <1>2
<1>4. \A i \in 1..Len(turns) : Group(turns, i) \in 1..size =>
        /\ turns[i].of \subseteq n[Group(turns, i)].of
        /\ turns[i].role = n[Group(turns, i)].role
  <2> SUFFICES ASSUME NEW i \in 1..Len(turns), Group(turns, i) \in 1..size
               PROVE  /\ turns[i].of \subseteq n[Group(turns, i)].of
                      /\ turns[i].role = n[Group(turns, i)].role
    OBVIOUS
  <2>1. turns[i] \in merged(Group(turns, i))  BY <1>2
  <2>2. \A u \in merged(Group(turns, i)) : u.role = turns[i].role
    BY <1>2, SameGroupSameRole
  <2>3. turns[i].role \in {"user", "assistant"}  BY <1>2 DEF Turn
  <2> HIDE DEF merged, n, size
  <2> QED BY <1>1, <2>1, <2>2, <2>3
<1> HIDE DEF n, size
<1> QED BY <1>1, <1>3, <1>4 DEF n, size

LEMMA NormalizeClosed ==
  ASSUME NEW turns \in Seq(Turn), NEW done, NEW k, ClosedIn(turns, done), OwnedBy(turns, k)
  PROVE  /\ ClosedIn(normalize_cached_channel_turns(turns), done)
         /\ OwnedBy(normalize_cached_channel_turns(turns), k)
<1> DEFINE n == normalize_cached_channel_turns(turns)
           size == Cardinality(Starts(turns))
<1>1. DOMAIN n = 1..size /\ size \in Nat  BY NormalizeShape
<1>2. DOMAIN turns = 1..Len(turns) /\ \A i \in 1..Len(turns) : turns[i] \in Turn
  OBVIOUS
<1>3. \A j \in 1..size : \A t \in n[j].of :
        \E i \in 1..Len(turns) : Group(turns, i) = j /\ t \in turns[i].of
  BY NormalizeShape
<1>4. \A i \in 1..Len(turns) : Group(turns, i) \in 1..size =>
        /\ turns[i].of \subseteq n[Group(turns, i)].of
        /\ turns[i].role = n[Group(turns, i)].role
  BY NormalizeShape
<1> HIDE DEF n
<1>5. ASSUME NEW j \in 1..size, NEW t \in n[j].of \cap done, n[j].role = "user"
      PROVE  \E m \in 1..size : m > j /\ n[m].role = "assistant" /\ t \in n[m].of
  <2>1. PICK i \in 1..Len(turns) : Group(turns, i) = j /\ t \in turns[i].of
    BY <1>3, <1>5
  <2>2. turns[i].role = "user"  BY <1>4, <1>5, <2>1
  <2>3. PICK l \in 1..Len(turns) :
          l > i /\ turns[l].role = "assistant" /\ t \in turns[l].of
    BY <1>2, <1>5, <2>1, <2>2 DEF ClosedIn
  <2>4. Group(turns, l) \in 0..size /\ j < Group(turns, l)
    <3>1. i <= l /\ turns[i].role # turns[l].role  BY <2>2, <2>3
    <3>2. Group(turns, i) < Group(turns, l)  BY <3>1, GroupsGrow
    <3>3. Group(turns, l) \in 0..size  BY GroupsGrow
    <3> QED BY <2>1, <3>2, <3>3
  <2>5. Group(turns, l) \in 1..size  BY <1>1, <2>4
  <2>6. t \in n[Group(turns, l)].of /\ n[Group(turns, l)].role = "assistant"
    BY <1>4, <2>3, <2>5
  <2> QED BY <2>4, <2>5, <2>6
<1>6. ASSUME NEW j \in 1..size, NEW t \in n[j].of
      PROVE  scope[t] # None /\ Key(t) = k
  BY <1>2, <1>3, <1>6 DEF OwnedBy
<1> QED BY <1>1, <1>5, <1>6 DEF ClosedIn, OwnedBy, n

LEMMA SuffixShape ==
  ASSUME NEW turns \in Seq(Turn), NEW d \in 1..Len(turns)
  PROVE  LET g == SubSeq(turns, d + 1, Len(turns)) IN
         /\ g \in Seq(Turn) /\ Len(g) = Len(turns) - d
         /\ \A i \in 1..(Len(turns) - d) : g[i] = turns[d + i]
         /\ DOMAIN g = 1..(Len(turns) - d) /\ DOMAIN turns = 1..Len(turns)
         /\ Len(turns) \in Nat
<1> DEFINE g == SubSeq(turns, d + 1, Len(turns))
<1>1. /\ g \in Seq(Turn) /\ Len(g) = Len(turns) - d
      /\ \A i \in 1..(Len(turns) - d) : g[i] = turns[d + i]
  <2> DEFINE n == Len(turns)
  <2>1. n \in Nat /\ d \in 1..n /\ \A i \in 1..n : turns[i] \in Turn  OBVIOUS
  <2> HIDE DEF n
  <2>2. d + 1 \in Int /\ n \in Int /\ \A i \in (d + 1)..n : turns[i] \in Turn  BY <2>1
  <2>3. /\ SubSeq(turns, d + 1, n) \in Seq(Turn)
        /\ Len(SubSeq(turns, d + 1, n)) = IF d + 1 <= n THEN n - (d + 1) + 1 ELSE 0
        /\ \A i \in 1..(n - (d + 1) + 1) : SubSeq(turns, d + 1, n)[i] = turns[d + 1 + i - 1]
    BY ONLY <2>2, SubSeqProperties
  <2>4. \A i \in 1..(n - d) : i \in 1..(n - (d + 1) + 1) /\ d + 1 + i - 1 = d + i
    BY <2>1
  <2>5. \A i \in 1..(n - d) : SubSeq(turns, d + 1, n)[i] = turns[d + i]  BY <2>3, <2>4
  <2>6. Len(SubSeq(turns, d + 1, n)) = n - d  BY <2>1, <2>3
  <2> QED BY <2>3, <2>5, <2>6 DEF n
<1> HIDE DEF g
<1>2. DOMAIN g = 1..(Len(turns) - d) /\ DOMAIN turns = 1..Len(turns) /\ Len(turns) \in Nat
  BY <1>1
<1> QED BY <1>1, <1>2 DEF g

LEMMA SuffixKept ==
  ASSUME NEW turns \in Seq(Turn), NEW d \in 1..Len(turns), NEW done, NEW k,
         ClosedIn(turns, done), OwnedBy(turns, k)
  PROVE  /\ ClosedIn(SubSeq(turns, d + 1, Len(turns)), done)
         /\ OwnedBy(SubSeq(turns, d + 1, Len(turns)), k)
<1> DEFINE g == SubSeq(turns, d + 1, Len(turns))
<1>1. /\ DOMAIN g = 1..(Len(turns) - d) /\ DOMAIN turns = 1..Len(turns)
      /\ Len(turns) \in Nat /\ \A i \in 1..(Len(turns) - d) : g[i] = turns[d + i]
  BY SuffixShape
<1> HIDE DEF g
<1>3. ASSUME NEW i \in DOMAIN g, NEW t \in g[i].of \cap done, g[i].role = "user"
      PROVE  \E j \in DOMAIN g : j > i /\ g[j].role = "assistant" /\ t \in g[j].of
  <2>1. d + i \in DOMAIN turns /\ g[i] = turns[d + i] /\ i \in Nat  BY <1>1
  <2>2. PICK j \in DOMAIN turns :
          j > d + i /\ turns[j].role = "assistant" /\ t \in turns[j].of
    BY <1>3, <2>1 DEF ClosedIn
  <2> DEFINE m == j - d
  <2>3. m \in 1..(Len(turns) - d) /\ m > i /\ d + m = j  BY <1>1, <2>1, <2>2
  <2> HIDE DEF m
  <2>4. m \in DOMAIN g /\ g[m] = turns[j]  BY <1>1, <2>3
  <2> QED BY <2>2, <2>3, <2>4
<1>4. OwnedBy(g, k)
  <2> SUFFICES ASSUME NEW i \in DOMAIN g, NEW t \in g[i].of
               PROVE  scope[t] # None /\ Key(t) = k
    BY DEF OwnedBy
  <2>1. i \in 1..(Len(turns) - d) /\ i \in Nat /\ d \in Nat  BY <1>1
  <2>2. d + i \in DOMAIN turns /\ g[i] = turns[d + i]  BY <1>1, <2>1
  <2> QED BY <2>2 DEF OwnedBy
<1> QED BY <1>3, <1>4 DEF ClosedIn, g

LEMMA CompactedKept ==
  ASSUME NEW turns, History(turns), NEW done, NEW k, ClosedIn(turns, done), OwnedBy(turns, k)
  PROVE  ClosedIn(Compacted(turns), done) /\ OwnedBy(Compacted(turns), k)
<1> DEFINE dropped == Len(turns) - CHANNEL_HISTORY_COMPACT_KEEP_MESSAGES
           kept == IF dropped > 0 THEN SubSeq(turns, dropped + 1, Len(turns)) ELSE turns
<1>1. kept \in Seq(Turn)  BY SubSeqProperties DEF History
<1>2. ClosedIn(kept, done) /\ OwnedBy(kept, k)
  <2>1. CASE dropped > 0
    <3>1. dropped \in 1..Len(turns) /\ turns \in Seq(Turn)  BY <2>1 DEF History
    <3> HIDE DEF dropped
    <3> QED BY <2>1, <3>1, SuffixKept
  <2>2. CASE ~(dropped > 0)  BY <2>2
  <2> QED BY <2>1, <2>2
<1>3. Compacted(turns) = normalize_cached_channel_turns(kept)  BY DEF Compacted
<1> HIDE DEF kept
<1> QED BY <1>1, <1>2, <1>3, NormalizeClosed

\* What is closed has ended its request, a history holds the turns of its key, and every
\* turn that was closed has its closing turn after it.
TurnsInv ==
  /\ \A t \in closed : pc[t] \in {"end", "mark", "done"}
  /\ \A k \in Keys : OwnedBy(histories[k], k)
  /\ \A k \in Keys : ClosedIn(histories[k], closed)

LEMMA TurnsInvNext ==
  ASSUME \A t \in closed' : pc'[t] \in {"end", "mark", "done"},
         \A k \in Keys : \A i \in DOMAIN histories'[k] : \A t \in histories'[k][i].of :
           scope'[t] # None /\ KeyOf[scope'[t]] = k,
         \A k \in Keys : ClosedIn(histories'[k], closed')
  PROVE  TurnsInv'
BY DEF TurnsInv, OwnedBy, Key, ClosedIn

\* A step that leaves the histories alone.
LEMMA TurnsKept ==
  ASSUME TypeOK, TurnsInv, UNCHANGED <<histories, closed>>,
         \A u \in Tasks : scope[u] # None => scope'[u] = scope[u],
         \A u \in closed : pc'[u] \in {"end", "mark", "done"}
  PROVE  TurnsInv'
<1>1. \A u \in closed' : pc'[u] \in {"end", "mark", "done"}  OBVIOUS
<1>2. ASSUME NEW k \in Keys, NEW i \in DOMAIN histories'[k], NEW u \in histories'[k][i].of
      PROVE  scope'[u] # None /\ KeyOf[scope'[u]] = k
  <2>1. histories[k] \in Seq(Turn) /\ i \in DOMAIN histories[k] /\ u \in histories[k][i].of
    BY <1>2 DEF TypeOK
  <2>2. histories[k][i] \in Turn  BY <2>1
  <2>3. u \in Tasks  BY <2>1, <2>2 DEF Turn
  <2>4. scope[u] # None /\ KeyOf[scope[u]] = k  BY <2>1 DEF TurnsInv, OwnedBy, Key
  <2> QED BY <2>3, <2>4
<1>3. ASSUME NEW k \in Keys  PROVE ClosedIn(histories'[k], closed')
  <2>1. ClosedIn(histories[k], closed)  BY DEF TurnsInv
  <2> QED BY <2>1
<1> QED BY <1>1, <1>2, <1>3, TurnsInvNext

\* A step that writes the history of its task's key.
LEMMA TurnsWritten ==
  ASSUME TypeOK, TurnsInv, NEW t \in Tasks, NEW turns, Key(t) \in Keys,
         pc' = [pc EXCEPT ![t] = "end"] \/ (pc' = [pc EXCEPT ![t] = "read"] /\ t \notin closed'),
         scope' = scope, histories' = [histories EXCEPT ![Key(t)] = turns],
         closed' = closed \/ closed' = closed \cup {t},
         ClosedIn(turns, closed'), OwnedBy(turns, Key(t))
  PROVE  TurnsInv'
<1>1. ASSUME NEW u \in closed'  PROVE pc'[u] \in {"end", "mark", "done"}
  <2>1. pc \in [Tasks -> Steps] /\ closed \subseteq Tasks  BY DEF TypeOK
  <2>2. u # t => u \in closed /\ pc[u] \in {"end", "mark", "done"}  BY <1>1 DEF TurnsInv
  <2> QED BY <1>1, <2>1, <2>2
<1>2. ASSUME NEW k \in Keys
      PROVE  OwnedBy(histories'[k], k) /\ ClosedIn(histories'[k], closed')
  <2>1. CASE k = Key(t)
    <3>1. histories'[k] = turns  BY <2>1 DEF TypeOK
    <3> QED BY <2>1, <3>1
  <2>2. CASE k # Key(t)
    <3>1. histories'[k] = histories[k]  BY <2>2 DEF TypeOK
    <3>2. OwnedBy(histories[k], k) /\ ClosedIn(histories[k], closed)  BY DEF TurnsInv
    <3>3. \A i \in DOMAIN histories[k] : t \notin histories[k][i].of
      BY <2>2, <3>2 DEF OwnedBy
    <3>4. ClosedIn(histories[k], closed')  BY <3>2, <3>3 DEF ClosedIn
    <3> QED BY <3>1, <3>2, <3>4
  <2> QED BY <2>1, <2>2
<1>3. ASSUME NEW k \in Keys, NEW i \in DOMAIN histories'[k], NEW u \in histories'[k][i].of
      PROVE  scope'[u] # None /\ KeyOf[scope'[u]] = k
  BY <1>2, <1>3 DEF OwnedBy, Key
<1> QED BY <1>1, <1>2, <1>3, TurnsInvNext

\* A turn of a task that has closed none of its own yet.
LEMMA OwnTurn ==
  ASSUME TypeOK, TurnsInv, NEW t \in Tasks,
         pc[t] \notin {"none", "queued", "end", "mark", "done"}
  PROVE  /\ t \notin closed /\ scope[t] # None /\ Key(t) \in Keys
         /\ History(histories[Key(t)]) /\ UserTurn(t) \in Turn /\ AssistantTurn(t) \in Turn
         /\ OwnedBy(histories[Key(t)], Key(t)) /\ ClosedIn(histories[Key(t)], closed)
<1>1. t \notin closed  BY DEF TurnsInv
<1>2. scope[t] # None  BY DEF TypeOK
<1>3. Key(t) \in Keys  BY <1>2, KeyType DEF Key
<1> QED BY <1>1, <1>2, <1>3, HistoriesType, TurnsType DEF TurnsInv

LEMMA CloseKeepsTurns ==
  ASSUME TypeOK, TurnsInv, NEW t \in Tasks, Close(t)
  PROVE  TurnsInv'
<1>1. /\ pc[t] = "running" /\ pc' = [pc EXCEPT ![t] = "end"] /\ scope' = scope
      /\ closed' = closed \cup {t}
      /\ histories' = [histories EXCEPT ![Key(t)] = Appended(@, AssistantTurn(t))]
  BY DEF Close, Goto, AppendTurn
<1> DEFINE old == histories[Key(t)]
           turns == Appended(old, AssistantTurn(t))
<1>2. /\ t \notin closed /\ scope[t] # None /\ Key(t) \in Keys
      /\ History(old) /\ AssistantTurn(t) \in Turn
      /\ OwnedBy(old, Key(t)) /\ ClosedIn(old, closed)
  BY <1>1, OwnTurn
<1>3. /\ AssistantTurn(t).role = "assistant" /\ AssistantTurn(t).of = {t}
  BY DEF AssistantTurn
<1>4. histories' = [histories EXCEPT ![Key(t)] = turns]  BY <1>1
<1> HIDE DEF old
<1>5. ClosedIn(turns, closed \cup {t})  BY <1>2, <1>3, AppendedClosed
<1>6. OwnedBy(turns, Key(t))  BY <1>2, <1>3, AppendedOwned
<1> HIDE DEF turns
<1> QED BY <1>1, <1>2, <1>4, <1>5, <1>6, TurnsWritten

LEMMA UserTurnKeepsTurns ==
  ASSUME TypeOK, TurnsInv, NEW t \in Tasks, AppendUserTurn(t)
  PROVE  TurnsInv'
<1>1. /\ pc[t] = "append" /\ pc' = [pc EXCEPT ![t] = "read"] /\ scope' = scope
      /\ closed' = closed
      /\ histories' = [histories EXCEPT ![Key(t)] = Appended(@, UserTurn(t))]
  BY DEF AppendUserTurn, Goto, AppendTurn
<1> DEFINE old == histories[Key(t)]
           turns == Appended(old, UserTurn(t))
<1>2. /\ t \notin closed /\ scope[t] # None /\ Key(t) \in Keys
      /\ History(old) /\ UserTurn(t) \in Turn
      /\ OwnedBy(old, Key(t)) /\ ClosedIn(old, closed)
  BY <1>1, OwnTurn
<1>3. UserTurn(t).role = "user" /\ UserTurn(t).of = {t}  BY DEF UserTurn
<1>4. histories' = [histories EXCEPT ![Key(t)] = turns]  BY <1>1
<1> HIDE DEF old
<1>5. ClosedIn(turns, closed \cup {})  BY <1>2, <1>3, AppendedClosed
<1>6. OwnedBy(turns, Key(t))  BY <1>2, <1>3, AppendedOwned
<1>7. closed \cup {} = closed  OBVIOUS
<1> HIDE DEF turns
<1> QED BY <1>1, <1>2, <1>4, <1>5, <1>6, <1>7, TurnsWritten

LEMMA RollBackKeepsTurns ==
  ASSUME TypeOK, TurnsInv, NEW t \in Tasks, CanRollBack(t), Goto(t, "running", "end"),
         histories' = [histories EXCEPT ![Key(t)] = Front(@)],
         scope' = scope, closed' = closed
  PROVE  TurnsInv'
<1>1. pc[t] = "running" /\ pc' = [pc EXCEPT ![t] = "end"]  BY DEF Goto
<1> DEFINE old == histories[Key(t)]
<1>2. /\ Key(t) \in Keys /\ History(old)
      /\ OwnedBy(old, Key(t)) /\ ClosedIn(old, closed)
  BY <1>1, OwnTurn
<1>3. old # <<>> /\ old[Len(old)].role = "user"
  BY DEF CanRollBack, UserTurn, Last
<1>4. histories' = [histories EXCEPT ![Key(t)] = Front(old)]  OBVIOUS
<1> HIDE DEF old
<1>5. ClosedIn(Front(old), closed) /\ OwnedBy(Front(old), Key(t))
  BY <1>2, <1>3, FrontKept
<1> QED BY <1>1, <1>2, <1>4, <1>5, TurnsWritten

LEMMA OverflowKeepsTurns ==
  ASSUME TypeOK, TurnsInv, NEW t \in Tasks, Overflow(t)
  PROVE  TurnsInv'
<1>1. /\ pc[t] = "running" /\ pc' = [pc EXCEPT ![t] = "end"] /\ scope' = scope
      /\ closed' = closed
  BY DEF Overflow, Goto
<1> DEFINE old == histories[Key(t)]
<1>2. /\ Key(t) \in Keys /\ History(old)
      /\ OwnedBy(old, Key(t)) /\ ClosedIn(old, closed)
  BY <1>1, OwnTurn
<1>3. histories' = [histories EXCEPT ![Key(t)] = Compacted(old)]  BY DEF Overflow
<1> HIDE DEF old
<1>4. ClosedIn(Compacted(old), closed) /\ OwnedBy(Compacted(old), Key(t))
  BY <1>2, CompactedKept
<1> QED BY <1>1, <1>2, <1>3, <1>4, TurnsWritten

LEMMA ClearKeepsTurns ==
  ASSUME TypeOK, TurnsInv, NEW t \in Tasks, Clear(t)
  PROVE  TurnsInv'
<1>1. /\ pc[t] = "clear" /\ pc' = [pc EXCEPT ![t] = "end"] /\ scope' = scope
      /\ closed' = closed /\ histories' = [histories EXCEPT ![Key(t)] = <<>>]
  BY DEF Clear, Goto
<1>2. Key(t) \in Keys  BY <1>1, OwnTurn
<1>3. ClosedIn(<<>>, closed) /\ OwnedBy(<<>>, Key(t))  BY DEF ClosedIn, OwnedBy
<1> QED BY <1>1, <1>2, <1>3, TurnsWritten

LEMMA TurnsStep ==
  ASSUME TypeOK, TypeOK', TurnsInv, NEW t \in Tasks, Step(t) \/ Receive(t)
  PROVE  TurnsInv'
<1>1. CASE AppendUserTurn(t)  BY <1>1, UserTurnKeepsTurns
<1>2. CASE Clear(t)  BY <1>2, ClearKeepsTurns
<1>3. CASE Close(t)  BY <1>3, CloseKeepsTurns
<1>4. CASE Overflow(t)  BY <1>4, OverflowKeepsTurns
<1>5. CASE /\ CanRollBack(t) /\ Goto(t, "running", "end")
           /\ histories' = [histories EXCEPT ![Key(t)] = Front(@)]
           /\ UNCHANGED <<settings, scope, lineup, closed>>
  BY <1>5, RollBackKeepsTurns
<1>6. CASE \/ Spawn(t) \/ Register(t) \/ RunAtOnce(t) \/ LoadDone(t) \/ Notified(t)
           \/ Begin(t) \/ Dropped(t) \/ ReadPrompt(t) \/ EndSilently(t)
           \/ Unregister(t) \/ MarkDone(t) \/ Receive(t)
  <2>1. UNCHANGED <<histories, closed>>
    BY <1>6 DEF Spawn, Register, RunAtOnce, LoadDone, Notified, Begin, Dropped, ReadPrompt,
       EndSilently, Unregister, MarkDone, Receive, record
  <2>2. \A u \in Tasks : scope[u] # None => scope'[u] = scope[u]
    BY <1>6 DEF Spawn, Register, RunAtOnce, LoadDone, Notified, Begin, Dropped, ReadPrompt,
       EndSilently, Unregister, MarkDone, Receive, TypeOK, Goto, First
  <2>3. ASSUME NEW u \in closed  PROVE pc'[u] \in {"end", "mark", "done"}
    <3>1. pc[u] \in {"end", "mark", "done"} /\ u \in Tasks /\ pc \in [Tasks -> Steps]
      BY DEF TurnsInv, TypeOK
    <3> QED
      BY <1>6, <3>1 DEF Spawn, Register, RunAtOnce, LoadDone, Notified, Begin, Dropped,
         ReadPrompt, EndSilently, Unregister, MarkDone, Receive, Goto
  <2> QED BY <2>1, <2>2, <2>3, TurnsKept
<1> QED BY <1>1, <1>2, <1>3, <1>4, <1>5, <1>6 DEF Step, RequestEnds, Answer, Fail

\* A user turn whose task wrote its answer or its closing note has it after it, whatever
\* the caps, the number of keys and the texts.
THEOREM TurnsStayClosed == Spec => []EveryTurnClosed
<1>1. Init => TurnsInv  BY DEF Init, TurnsInv, OwnedBy, ClosedIn
<1>2. TypeOK /\ TypeOK' /\ TurnsInv /\ [Next]_vars => TurnsInv'
  <2> SUFFICES ASSUME TypeOK, TypeOK', TurnsInv, [Next]_vars  PROVE TurnsInv'
    OBVIOUS
  <2>1. CASE Next  BY <2>1, TurnsStep DEF Next
  <2>2. CASE UNCHANGED vars
    <3>1. UNCHANGED <<histories, closed, scope, pc>>  BY <2>2 DEF vars, lineup, record
    <3> QED BY <3>1, TurnsKept DEF TurnsInv
  <2> QED BY <2>1, <2>2
<1>3. TurnsInv => EveryTurnClosed  BY ClosedByParts DEF TurnsInv
<1> QED BY <1>1, <1>2, <1>3, TypeCorrect, PTL DEF Spec
-----------------------------------------------------------------------------
(* An answer follows its message.                                          *)

\* Behind a turn of another role stands the answer to that very turn, or a message.
Paired(turns) ==
  \A i \in DOMAIN turns : \A t \in turns[i].of :
    i > 1 /\ turns[i].role = "assistant" =>
      turns[i - 1].role = "user" /\ t \in turns[i - 1].of

\* From its append to the end of its request a message is the last turn.
LastTurnIs(t) ==
  /\ histories[Key(t)] # <<>>
  /\ histories[Key(t)][Len(histories[Key(t)])] = UserTurn(t)

SessionInv ==
  interrupt_enabled =>
    /\ \A k \in Keys : OneChatOf(k) => Paired(histories[k])
    /\ \A t \in Tasks : pc[t] \in {"read", "running"} /\ OneChatOf(Key(t)) => LastTurnIs(t)

LEMMA AppendedPaired ==
  ASSUME NEW turns, History(turns), Paired(turns), NEW turn \in Turn,
         turn.role = "assistant" =>
           /\ turns # <<>>
           /\ turns[Len(turns)].role = "user" /\ turn.of \subseteq turns[Len(turns)].of
  PROVE  Paired(Appended(turns, turn))
<1> DEFINE g == Appended(turns, turn)
<1>1. /\ Len(g) \in Nat \ {0} /\ g[Len(g)] = turn /\ g \in Seq(Turn)
      /\ \E d \in {0, 1} :
           /\ Len(g) = Len(turns) + 1 - d
           /\ \A i \in 1..(Len(g) - 1) : i + d \in 1..Len(turns) /\ g[i] = turns[i + d]
  <2>1. g \in Seq(Turn)  BY AppendedType DEF History
  <2> QED BY <2>1, AppendedShape
<1> HIDE DEF g
<1>2. PICK d \in {0, 1} :
        /\ Len(g) = Len(turns) + 1 - d
        /\ \A i \in 1..(Len(g) - 1) : i + d \in 1..Len(turns) /\ g[i] = turns[i + d]
  BY <1>1
<1>3. DOMAIN g = 1..Len(g) /\ DOMAIN turns = 1..Len(turns) /\ Len(turns) \in Nat
  BY <1>1 DEF History
<1> SUFFICES ASSUME NEW i \in 1..Len(g), NEW t \in g[i].of, i > 1, g[i].role = "assistant"
             PROVE  g[i - 1].role = "user" /\ t \in g[i - 1].of
  BY <1>3 DEF Paired, g
<1> DEFINE m == i - 1
<1>4. m \in 1..(Len(g) - 1) /\ m + d \in 1..Len(turns) /\ g[m] = turns[m + d]
  BY <1>1, <1>2
<1>5. CASE i = Len(g)
  <2>1. m + d = Len(turns)  BY <1>2, <1>3, <1>5
  <2>2. turn.role = "assistant" /\ t \in turn.of  BY <1>1, <1>5
  <2> QED BY <1>4, <2>1, <2>2
<1>6. CASE i # Len(g)
  <2>1. i \in 1..(Len(g) - 1) /\ i + d \in 1..Len(turns) /\ g[i] = turns[i + d]
    BY <1>1, <1>2, <1>6
  <2>2. i + d > 1 /\ (i + d) - 1 = m + d  BY <1>2
  <2>3. turns[m + d].role = "user" /\ t \in turns[m + d].of
    BY <1>3, <2>1, <2>2 DEF Paired
  <2> QED BY <1>4, <2>3
<1> QED BY <1>5, <1>6

LEMMA FrontPaired ==
  ASSUME NEW turns, History(turns), turns # <<>>, Paired(turns)
  PROVE  Paired(Front(turns))
<1> DEFINE g == Front(turns)
<1>1. /\ g \in Seq(Turn) /\ Len(g) = Len(turns) - 1 /\ Len(turns) \in Nat
      /\ \A i \in 1..(Len(turns) - 1) : g[i] = turns[i]
  BY FrontType DEF History
<1> HIDE DEF g
<1>2. DOMAIN g = 1..(Len(turns) - 1) /\ DOMAIN turns = 1..Len(turns)
  BY <1>1 DEF History
<1> SUFFICES ASSUME NEW i \in DOMAIN g, NEW t \in g[i].of, i > 1, g[i].role = "assistant"
             PROVE  g[i - 1].role = "user" /\ t \in g[i - 1].of
  BY DEF Paired, g
<1>3. i \in DOMAIN turns /\ g[i] = turns[i] /\ i - 1 \in 1..(Len(turns) - 1)
  BY <1>1, <1>2
<1> QED BY <1>1, <1>3 DEF Paired

LEMMA SuffixPaired ==
  ASSUME NEW turns \in Seq(Turn), NEW d \in 1..Len(turns), Paired(turns)
  PROVE  Paired(SubSeq(turns, d + 1, Len(turns)))
<1> DEFINE g == SubSeq(turns, d + 1, Len(turns))
<1>1. /\ DOMAIN g = 1..(Len(turns) - d) /\ DOMAIN turns = 1..Len(turns)
      /\ Len(turns) \in Nat /\ \A i \in 1..(Len(turns) - d) : g[i] = turns[d + i]
  BY SuffixShape
<1> HIDE DEF g
<1> SUFFICES ASSUME NEW i \in DOMAIN g, NEW t \in g[i].of, i > 1, g[i].role = "assistant"
             PROVE  g[i - 1].role = "user" /\ t \in g[i - 1].of
  BY DEF Paired, g
<1>2. /\ d + i \in DOMAIN turns /\ g[i] = turns[d + i] /\ d + i > 1
      /\ i - 1 \in 1..(Len(turns) - d) /\ d + (i - 1) = (d + i) - 1
  BY <1>1
<1>3. g[i - 1] = turns[(d + i) - 1]  BY <1>1, <1>2
<1> QED BY <1>2, <1>3 DEF Paired

\* The turn before one that starts a group is in the group before.
LEMMA GroupBefore ==
  ASSUME NEW turns \in Seq(Turn), NEW i \in 2..Len(turns),
         turns[i].role # turns[i - 1].role
  PROVE  Group(turns, i - 1) = Group(turns, i) - 1
<1> DEFINE upto(n) == {g \in Starts(turns) : g <= n}
<1>1. Starts(turns) \subseteq 1..Len(turns) /\ IsFiniteSet(Starts(turns)) /\ Len(turns) \in Nat
  BY StartsFinite
<1>2. i \in Starts(turns)  BY <1>1 DEF Starts
<1>3. upto(i) = upto(i - 1) \cup {i} /\ i \notin upto(i - 1)  BY <1>1, <1>2
<1>4. upto(i - 1) \in SUBSET Starts(turns)  OBVIOUS
<1>5. Group(turns, i) = Cardinality(upto(i)) /\ Group(turns, i - 1) = Cardinality(upto(i - 1))
  BY DEF Group
<1> HIDE DEF upto
<1>6. IsFiniteSet(upto(i - 1)) /\ Cardinality(upto(i - 1)) \in Nat
  BY <1>1, <1>4, FS_Subset, FS_CardinalityType
<1>7. Cardinality(upto(i)) = Cardinality(upto(i - 1)) + 1
  BY <1>3, <1>6, FS_AddElement
<1> QED BY <1>5, <1>6, <1>7

LEMMA NormalizePaired ==
  ASSUME NEW turns \in Seq(Turn), Paired(turns)
  PROVE  Paired(normalize_cached_channel_turns(turns))
<1> DEFINE n == normalize_cached_channel_turns(turns)
           size == Cardinality(Starts(turns))
<1>1. DOMAIN n = 1..size /\ size \in Nat
  BY StartsFinite DEF normalize_cached_channel_turns
<1>2. DOMAIN turns = 1..Len(turns) /\ Len(turns) \in Nat
      /\ \A i \in 1..Len(turns) : turns[i] \in Turn
  OBVIOUS
<1>3. /\ \A j \in 1..size : \A t \in n[j].of :
           \E i \in 1..Len(turns) : Group(turns, i) = j /\ t \in turns[i].of
      /\ \A i \in 1..Len(turns) : Group(turns, i) \in 1..size =>
           /\ turns[i].of \subseteq n[Group(turns, i)].of
           /\ turns[i].role = n[Group(turns, i)].role
  BY NormalizeShape
<1> HIDE DEF n, size
<1> SUFFICES ASSUME NEW j \in 1..size, NEW t \in n[j].of, j > 1, n[j].role = "assistant"
             PROVE  n[j - 1].role = "user" /\ t \in n[j - 1].of
  BY <1>1 DEF Paired, n
<1>4. PICK i \in 1..Len(turns) : Group(turns, i) = j /\ t \in turns[i].of  BY <1>3
<1>5. turns[i].role = "assistant"  BY <1>3, <1>4
<1>6. i # 1
  <2> SUFFICES ASSUME i = 1 PROVE FALSE  OBVIOUS
  <2>1. 1 \notin Starts(turns)  BY <1>5 DEF Starts
  <2>2. {g \in Starts(turns) : g <= 1} = {}  BY <1>2, <2>1, StartsFinite
  <2>3. Group(turns, 1) = 0  BY <2>2, FS_EmptySet DEF Group
  <2> QED BY <1>4, <2>3
<1>7. i \in 2..Len(turns) /\ i - 1 \in 1..Len(turns)  BY <1>2, <1>6
<1>8. turns[i - 1].role = "user" /\ t \in turns[i - 1].of
  <2>1. i \in DOMAIN turns /\ i > 1  BY <1>2, <1>7
  <2> QED BY <1>4, <1>5, <2>1 DEF Paired
<1>9. Group(turns, i - 1) = j - 1 /\ j - 1 \in 1..size
  BY <1>1, <1>4, <1>5, <1>7, <1>8, GroupBefore
<1> QED BY <1>3, <1>7, <1>8, <1>9

LEMMA CompactedPaired ==
  ASSUME NEW turns, History(turns), Paired(turns)
  PROVE  Paired(Compacted(turns))
<1> DEFINE dropped == Len(turns) - CHANNEL_HISTORY_COMPACT_KEEP_MESSAGES
           kept == IF dropped > 0 THEN SubSeq(turns, dropped + 1, Len(turns)) ELSE turns
<1>1. kept \in Seq(Turn)  BY SubSeqProperties DEF History
<1>2. Paired(kept)
  <2>1. CASE dropped > 0
    <3>1. dropped \in 1..Len(turns) /\ turns \in Seq(Turn)  BY <2>1 DEF History
    <3> HIDE DEF dropped
    <3> QED BY <2>1, <3>1, SuffixPaired
  <2>2. CASE ~(dropped > 0)  BY <2>2
  <2> QED BY <2>1, <2>2
<1>3. Compacted(turns) = normalize_cached_channel_turns(kept)  BY DEF Compacted
<1> HIDE DEF kept
<1> QED BY <1>1, <1>2, <1>3, NormalizePaired

LEMMA OneChatNext ==
  ASSUME \A u \in Tasks : scope[u] # None => scope'[u] = scope[u], NEW k \in Keys,
         OneChatOf(k)'
  PROVE  OneChatOf(k)
BY DEF OneChatOf, Key

\* What a step of t changes: scopes are given once, a task that is at its request was so
\* before unless it is t, and t writes the history of its own key only.
LEMMA SessionFrame ==
  ASSUME TypeOK, NEW t \in Tasks, Step(t) \/ Receive(t)
  PROVE  /\ interrupt_enabled' = interrupt_enabled
         /\ \A u \in Tasks : scope[u] # None => scope'[u] = scope[u]
         /\ \A u \in Tasks \ {t} : pc'[u] \in {"read", "running"} => pc'[u] = pc[u]
         /\ histories' = histories \/
              /\ pc[t] \in {"clear", "append", "running"} /\ Key(t) \in Keys
              /\ \A k \in Keys \ {Key(t)} : histories'[k] = histories[k]
<1>1. interrupt_enabled' = interrupt_enabled
  BY DEF Step, Receive, Spawn, Register, RunAtOnce, LoadDone, Notified, Begin, Dropped, Clear,
     AppendUserTurn, ReadPrompt, RequestEnds, EndSilently, Answer, Close, Fail, Overflow,
     Unregister, MarkDone
<1>2. \A u \in Tasks : scope[u] # None => scope'[u] = scope[u]
  BY DEF Step, Receive, Spawn, Register, RunAtOnce, LoadDone, Notified, Begin, Dropped,
     Clear, AppendUserTurn, ReadPrompt, RequestEnds, EndSilently, Answer, Close, Fail,
     Overflow, Unregister, MarkDone, TypeOK, Goto
<1>3. \A u \in Tasks \ {t} : pc'[u] \in {"read", "running"} => pc'[u] = pc[u]
  <2>1. CASE MarkDone(t)  BY <2>1 DEF MarkDone, TypeOK
  <2>2. CASE ~MarkDone(t)
    BY <2>2 DEF Step, Receive, Spawn, Register, RunAtOnce, LoadDone, Notified, Begin, Dropped,
     Clear, AppendUserTurn, ReadPrompt, RequestEnds, EndSilently, Answer, Close, Fail,
     Overflow, Unregister, TypeOK, Goto
  <2> QED BY <2>1, <2>2
<1> QED BY <1>1, <1>2, <1>3, HistoryStep

\* Nobody else of a key with one chat is at its request while t writes the history.
LEMMA AloneInKey ==
  ASSUME TypeOK, OnePerScope, interrupt_enabled, NEW t \in Tasks, pc[t] \in Working,
         NEW u \in Tasks \ {t}, pc[u] \in Working, Key(u) = Key(t)
  PROVE  ~OneChatOf(Key(t))
<1>1. scope[t] # None /\ scope[u] # None  BY DEF TypeOK, Working
<1> QED BY <1>1 DEF OneChatOf, OnePerScope

LEMMA SessionStep ==
  ASSUME TypeOK, TypeOK', OnePerScope, SessionInv, NEW t \in Tasks, Step(t) \/ Receive(t)
  PROVE  SessionInv'
<1> SUFFICES ASSUME interrupt_enabled'
             PROVE  /\ \A k \in Keys : OneChatOf(k)' => Paired(histories'[k])
                    /\ \A u \in Tasks : pc'[u] \in {"read", "running"} /\ OneChatOf(Key(u))' =>
                         LastTurnIs(u)'
  BY DEF SessionInv, Paired
<1>1. /\ interrupt_enabled
      /\ \A u \in Tasks : scope[u] # None => scope'[u] = scope[u]
      /\ \A u \in Tasks \ {t} : pc'[u] \in {"read", "running"} => pc'[u] = pc[u]
      /\ histories' = histories \/
           /\ pc[t] \in {"clear", "append", "running"} /\ Key(t) \in Keys
           /\ \A k \in Keys \ {Key(t)} : histories'[k] = histories[k]
  BY SessionFrame
<1>2. ASSUME NEW k \in Keys, OneChatOf(k)'
      PROVE  OneChatOf(k) /\ Paired(histories[k])
  BY <1>1, <1>2, OneChatNext DEF SessionInv
<1>3. ASSUME histories' # histories, NEW k \in Keys, k = Key(t), OneChatOf(k)'
      PROVE  Paired(histories'[k])
  <2>1. pc[t] \in {"clear", "append", "running"}  BY <1>1, <1>3
  <2> DEFINE old == histories[k]
  <2>2. OneChatOf(k) /\ Paired(old)  BY <1>2, <1>3
  <2>2a. /\ History(old)
         /\ UserTurn(t) \in Turn /\ AssistantTurn(t) \in Turn
         /\ UserTurn(t).role = "user" /\ AssistantTurn(t).role = "assistant"
         /\ UserTurn(t).of = {t} /\ AssistantTurn(t).of = {t}
    BY HistoriesType, TurnsType DEF UserTurn, AssistantTurn
  <2>3. pc[t] = "running" => old # <<>> /\ old[Len(old)] = UserTurn(t)
    BY <1>1, <1>3, <2>2 DEF SessionInv, LastTurnIs
  <2>4. \/ pc[t] = "clear" /\ histories'[k] = <<>>
        \/ pc[t] = "append" /\ histories'[k] = Appended(old, UserTurn(t))
        \/ pc[t] = "running" /\ histories'[k] = Appended(old, AssistantTurn(t))
        \/ pc[t] = "running" /\ old # <<>> /\ histories'[k] = Front(old)
        \/ pc[t] = "running" /\ histories'[k] = Compacted(old)
    <3>1. Clear(t) \/ AppendUserTurn(t) \/ Close(t) \/ Fail(t) \/ Overflow(t)
      BY <1>3 DEF Step, RequestEnds, Answer, Receive, Spawn, Register, RunAtOnce, LoadDone,
         Notified, Begin, Dropped, ReadPrompt, EndSilently, Unregister, MarkDone, record
    <3>2. DOMAIN histories = Keys  BY DEF TypeOK
    <3>3. CASE Clear(t)  BY <1>3, <3>2, <3>3 DEF Clear, Goto
    <3>4. CASE AppendUserTurn(t)  BY <1>3, <3>2, <3>4 DEF AppendUserTurn, AppendTurn, Goto
    <3>5. CASE Close(t)  BY <1>3, <3>2, <3>5 DEF Close, AppendTurn, Goto
    <3>6. CASE Fail(t)
      BY <1>3, <3>2, <3>6 DEF Fail, Close, AppendTurn, Goto, CanRollBack
    <3>7. CASE Overflow(t)  BY <1>3, <3>2, <3>7 DEF Overflow, Goto
    <3> QED BY <3>1, <3>3, <3>4, <3>5, <3>6, <3>7
  <2>5. Paired(<<>>)  BY DEF Paired
  <2> HIDE DEF old
  <2> QED BY <2>2, <2>2a, <2>3, <2>4, <2>5, AppendedPaired, FrontPaired, CompactedPaired
<1>4. ASSUME NEW k \in Keys, OneChatOf(k)'  PROVE Paired(histories'[k])
  <2>1. CASE histories'[k] = histories[k]  BY <1>2, <1>4, <2>1
  <2>2. CASE histories'[k] # histories[k]
    <3>1. histories' # histories /\ k = Key(t)  BY <1>1, <2>2
    <3> QED BY <1>3, <1>4, <3>1
  <2> QED BY <2>1, <2>2
<1>5. ASSUME NEW u \in Tasks, pc'[u] \in {"read", "running"}, OneChatOf(Key(u))'
      PROVE  LastTurnIs(u)'
  <2>1. CASE AppendUserTurn(t) /\ u = t
    <3>1. pc[t] = "append" /\ scope' = scope  BY <2>1 DEF AppendUserTurn, Goto
    <3>2. Key(t) \in Keys /\ Key(t)' = Key(t)  BY <3>1, KeyType DEF Key
    <3>3. histories'[Key(t)] = Appended(histories[Key(t)], UserTurn(t))
      BY <2>1, <3>2 DEF AppendUserTurn, AppendTurn, TypeOK
    <3>4. UserTurn(t)' = UserTurn(t)  BY DEF UserTurn
    <3> QED BY <2>1, <3>2, <3>3, <3>4, HistoriesType, TurnsType, AppendedShape DEF LastTurnIs
  <2>2. CASE ~(AppendUserTurn(t) /\ u = t)
    <3>1. pc[u] \in {"read", "running"}
      <4>1. CASE u # t  BY <1>1, <1>5, <4>1
      <4>2. CASE u = t
        BY <1>5, <2>2, <4>2 DEF Step, RequestEnds, Answer, Close, Fail, Overflow, Clear,
           Receive, Spawn, Register, RunAtOnce, LoadDone, Notified, Begin, Dropped,
           ReadPrompt, EndSilently, Unregister, MarkDone, AppendUserTurn, Goto, TypeOK
      <4> QED BY <4>1, <4>2
    <3>2. scope[u] # None  BY <3>1 DEF TypeOK
    <3>3. Key(u)' = Key(u) /\ Key(u) \in Keys  BY <1>1, <3>1, <3>2, KeyType DEF Key
    <3>4. OneChatOf(Key(u)) /\ LastTurnIs(u)
      BY <1>1, <1>2, <1>5, <3>1, <3>3 DEF SessionInv
    <3>5. histories'[Key(u)] = histories[Key(u)]
      <4> SUFFICES ASSUME histories' # histories, Key(t) = Key(u)  PROVE FALSE
        BY <1>1, <3>3
      <4>1. pc[t] \in {"clear", "append", "running"}  BY <1>1
      <4>2. CASE u = t
        <5>1. pc[t] = "running" /\ pc'[t] \in {"read", "running"}  BY <1>5, <3>1, <4>1, <4>2
        <5>2. pc'[t] = "end"
          BY <5>1 DEF Step, RequestEnds, Answer, Close, Fail, Overflow, Clear,
           Receive, Spawn, Register, RunAtOnce, LoadDone, Notified, Begin, Dropped,
           ReadPrompt, EndSilently, Unregister, MarkDone, AppendUserTurn, Goto, TypeOK
        <5> QED BY <5>1, <5>2
      <4>3. CASE u # t
        BY <1>1, <3>1, <3>4, <4>1, <4>3, AloneInKey DEF Working
      <4> QED BY <4>2, <4>3
    <3> QED BY <3>3, <3>4, <3>5 DEF LastTurnIs, UserTurn
  <2> QED BY <2>1, <2>2
<1> QED BY <1>4, <1>5

\* With interrupts and one chat per history, no answer stands in a session that does not
\* hold its message: nothing of before a /new comes after it.
THEOREM SessionsAreFresh == Spec => []FreshSession
<1>1. Init => SessionInv  BY DEF Init, SessionInv, Paired
<1>2. TypeOK /\ TypeOK' /\ OnePerScope /\ SessionInv /\ [Next]_vars => SessionInv'
  <2> SUFFICES ASSUME TypeOK, TypeOK', OnePerScope, SessionInv, [Next]_vars
               PROVE  SessionInv'
    OBVIOUS
  <2>1. CASE Next  BY <2>1, SessionStep DEF Next
  <2>2. CASE UNCHANGED vars
    <3>1. /\ interrupt_enabled' = interrupt_enabled /\ pc' = pc /\ scope' = scope
          /\ histories' = histories
      BY <2>2 DEF vars, record
    <3>2. \A k : OneChatOf(k)' <=> OneChatOf(k)  BY <3>1 DEF OneChatOf, Key
    <3>3. \A u \in Tasks : /\ Key(u)' = Key(u)
                           /\ OneChatOf(Key(u))' <=> OneChatOf(Key(u))
                           /\ LastTurnIs(u)' <=> LastTurnIs(u)
      BY <3>1 DEF LastTurnIs, UserTurn, Key, OneChatOf
    <3> QED BY <3>1, <3>2, <3>3 DEF SessionInv, Paired
  <2> QED BY <2>1, <2>2
<1>3. TypeOK /\ SessionInv => FreshSession
  <2> SUFFICES ASSUME TypeOK, SessionInv, interrupt_enabled, NEW k \in Keys, OneChatOf(k),
                      NEW i \in DOMAIN histories[k], NEW t \in histories[k][i].of,
                      i > 1, histories[k][i].role = "assistant"
               PROVE  \E j \in 1..(i - 1) :
                        histories[k][j].role = "user" /\ t \in histories[k][j].of
    BY DEF FreshSession, StrayReply
  <2>1. histories[k][i - 1].role = "user" /\ t \in histories[k][i - 1].of
    BY DEF SessionInv, Paired
  <2>2. i \in Nat /\ i - 1 \in 1..(i - 1)  BY DEF TypeOK
  <2> QED BY <2>1, <2>2
<1> QED BY <1>1, <1>2, <1>3, TypeCorrect, OneRequestPerChat, PTL DEF Spec

=============================================================================
