----------------------------- MODULE ServingLine -----------------------------
(***************************************************************************)
(* What the in-flight map of the channel dispatch promises: the messages   *)
(* of a chat are served like customers with numbers.  Who arrives takes    *)
(* the next number; who is served has nobody of its chat before it that is *)
(* not done; chats do not wait for one another.  No tokens, no wakeups.    *)
(***************************************************************************)
EXTENDS Naturals

CONSTANTS Tasks, Scopes,
          None         \* not a scope

VARIABLES place,       \* outside, waiting, inside (served), or gone
          chat,        \* the scope in whose line a task stands or stood
          number,      \* the number it took
          given        \* the numbers given so far

Init ==
  /\ place = [t \in Tasks |-> "outside"] /\ chat = [t \in Tasks |-> None]
  /\ number = [t \in Tasks |-> 0] /\ given = 0

\* Who finds the line of its chat empty is served at once.
Arrive(t) ==
  /\ place[t] = "outside"
  /\ \E s \in Scopes, next \in {"waiting", "inside"} :
       /\ next = "inside" => \A u \in Tasks : chat[u] = s => place[u] = "gone"
       /\ place' = [place EXCEPT ![t] = next] /\ chat' = [chat EXCEPT ![t] = s]
  /\ given' = given + 1 /\ number' = [number EXCEPT ![t] = given + 1]

Enter(t) ==
  /\ place[t] = "waiting"
  /\ \A u \in Tasks : chat[u] = chat[t] /\ number[u] < number[t] => place[u] = "gone"
  /\ place' = [place EXCEPT ![t] = "inside"] /\ UNCHANGED <<chat, number, given>>

Leave(t) ==
  /\ place[t] = "inside"
  /\ place' = [place EXCEPT ![t] = "gone"] /\ UNCHANGED <<chat, number, given>>

Next == \E t \in Tasks : Arrive(t) \/ Enter(t) \/ Leave(t)

Spec == Init /\ [][Next]_<<place, chat, number, given>>
=============================================================================
