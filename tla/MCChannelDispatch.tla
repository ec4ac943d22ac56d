-------------------------- MODULE MCChannelDispatch --------------------------
(* Instances of ChannelDispatch for TLC. *)
EXTENDS ChannelDispatch

\* one sender in two chats: two scopes, one history
SameKey == [s \in Scopes |-> "k1"]

\* the first two messages have the same text
FirstTwoAlike == [t \in Tasks |-> IF t <= 2 THEN "x" ELSE "y"]

AllDifferent == [t \in Tasks |-> t]

\* The loop of normalize_cached_channel_turns, a turn at a time: what is expected next is
\* the other role than the last turn's, at first a user's.
Merged(turns, turn) ==
  IF turns = <<>> THEN IF turn.role = "user" THEN <<turn>> ELSE <<>>
  ELSE IF Last(turns).role = turn.role
    THEN [turns EXCEPT ![Len(turns)].of = @ \cup turn.of]
    ELSE Append(turns, turn)

\* The groups of ChannelDispatch are what the loop computes.
ASSUME LoopAgrees ==
  \A n \in 0..5 : \A roles \in [1..n -> {"user", "assistant"}] :
    LET turns == [i \in 1..n |-> [role |-> roles[i], of |-> {i}]] IN
    normalize_cached_channel_turns(turns) = FoldLeft(Merged, <<>>, turns)
=============================================================================
