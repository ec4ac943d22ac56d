------------------------- MODULE AuthProfiles_proofs -------------------------
(***************************************************************************)
(* Proofs about AuthProfiles, for any number of processes, workers and     *)
(* profiles, any calls and any limits.                                     *)
(***************************************************************************)
EXTENDS AuthProfiles, FiniteSetTheorems, TLAPS

USE ProfilesAssumption

(* The parts of the inductive invariant.                                   *)

\* TypeOK in two parts: the locals of the workers and the rest
WorkTypes ==
  /\ kind \in [Workers -> Kind \cup {None}]
  /\ profile \in [Workers -> Profiles \cup {None}]
  /\ stage \in [Workers -> Stages]
  /\ where \in [Workers -> {"outside", "inside", "leaving"}]
  /\ data \in [Workers -> Store \cup {None}]
  /\ refresh_token \in [Workers -> Ids \cup {0}]
  /\ tokens \in [Workers -> TokenSet \cup {None}]
  /\ attempts \in [Workers -> 0..(OAUTH_REFRESH_MAX_ATTEMPTS - 1)]

OtherTypes ==
  /\ file \in Store /\ lock \in Workers \cup {None}
  /\ refresh_lock \in [Processes \X Profiles -> Workers \cup {None}]
  /\ backoffs \subseteq Processes \X Profiles
  /\ issued \in 0..MaxIssued /\ expiring \subseteq Ids /\ rotates \in BOOLEAN
  /\ spent \subseteq Processes \X Ids /\ lost \subseteq Ids
  /\ late \in [Workers -> Store \cup {None}] /\ loose \in BOOLEAN

Refreshing(w) == stage[w] \in {"recheck", "send"} \/ (stage[w] = "save" /\ kind[w] = "token")

\* what the locals of a worker are worth at its stage
LocalsOf(w) ==
  /\ stage[w] \in {"check", "mutex", "recheck", "send"} => kind[w] = "token"
  /\ stage[w] = "look" => kind[w] = "activate"
  /\ stage[w] = "save" => kind[w] \in Kind
  /\ stage[w] \in {"look", "mutex", "recheck", "send", "save"} => profile[w] \in Profiles
  /\ where[w] # "outside" => stage[w] \in Loading \cup {"save"}
  /\ where[w] = "inside" => data[w] \in Store
  /\ where[w] = "leaving" => stage[w] = "save"
  /\ stage[w] = "send" => data[w] \in Store /\ Present(data[w], profile[w])
  /\ stage[w] = "mutex" \/ Refreshing(w) => refresh_token[w] \in Ids
  /\ stage[w] \in {"idle", "check", "look"} \cup Ended => refresh_token[w] = 0
  /\ stage[w] = "save" /\ kind[w] \in {"token", "login"} => tokens[w] \in TokenSet
  /\ stage[w] # "save" => tokens[w] = None

Locals == \A w \in Workers : LocalsOf(w)

Types == WorkTypes /\ OtherTypes /\ Locals

\* a refresh holds the mutex of its process and profile
MutexHeld == \A w \in Workers : Refreshing(w) => refresh_lock[Slot(w)] = w

\* whoever is at the store made the lock file, and has loaded what is in it
LockHeld ==
  /\ \A w \in Workers : where[w] # "outside" => lock = w
  /\ ~loose => \A w \in Workers : where[w] = "inside" => data[w] = file

NothingLate == ~loose => \A w \in Workers : late[w] = None

\* The refresh tokens that are known for a profile.
InStore(store, p, n) == store # None /\ store.profiles[p] # None /\ store.profiles[p].refresh = n
InTokens(w, n) == tokens[w] # None /\ tokens[w].refresh = n

Knows(p, n) ==
  \/ InStore(file, p, n)
  \/ \E w \in Workers : InStore(data[w], p, n)
  \/ \E w \in Workers : profile[w] = p /\ (refresh_token[w] = n \/ InTokens(w, n))

\* A refresh token belongs to one profile and has been given out.
OneOwner ==
  ~loose =>
    \A n \in Ids :
      /\ \A p \in Profiles : Knows(p, n) => n <= issued
      /\ \A p, q \in Profiles : Knows(p, n) /\ Knows(q, n) => p = q

\* the workers with a token set that is not in the store yet
Holds(w) == stage[w] = "save" /\ kind[w] \in {"token", "login"} /\ where[w] # "leaving"
HoldsNew(w) == Holds(w) /\ (rotates \/ kind[w] = "login") /\ tokens[w].refresh # 0

InUse(n) ==
  \/ n \in Spent
  \/ \E p \in Profiles : InStore(file, p, n)
  \/ \E p \in Profiles, w \in Workers : InStore(data[w], p, n)
  \/ \E w \in Workers : refresh_token[w] = n

\* Nobody else has a refresh token that its worker has not saved.
NewIsUnknown ==
  ~loose =>
    \A w \in Workers :
      HoldsNew(w) =>
        /\ ~InUse(tokens[w].refresh)
        /\ \A v \in Workers : v # w /\ Holds(v) => tokens[v].refresh # tokens[w].refresh

\* A refresh token is exchanged once, by the worker that holds its successor, if any does.
SpentOnce ==
  ~loose =>
    /\ ~rotates => spent = {}
    /\ \A x \in spent : x[2] <= issued
    /\ \A x, y \in spent : x[2] = y[2] => x = y
    /\ rotates => \A w \in Workers : stage[w] = "save" /\ kind[w] = "token"
                                       => <<ProcessOf[w], refresh_token[w]>> \in spent

-----------------------------------------------------------------------------
(* What the steps do to the locals.                                        *)

SameLocals(v) ==
  /\ stage'[v] = stage[v] /\ where'[v] = where[v] /\ kind'[v] = kind[v]
  /\ profile'[v] = profile[v] /\ data'[v] = data[v] /\ tokens'[v] = tokens[v]
  /\ refresh_token'[v] = refresh_token[v]

HasEnded(v) ==
  /\ stage'[v] \in Ended /\ where'[v] = "outside" /\ kind'[v] = None
  /\ profile'[v] = None /\ data'[v] = None /\ tokens'[v] = None /\ refresh_token'[v] = 0

\* the operation ends, and only the locals of its workers are gone
LEMMA EndsLocals ==
  ASSUME Types, NEW W \in SUBSET Workers, NEW how \in Ended, NEW gone \in SUBSET Ids,
         Ends(W, how, gone)
  PROVE  /\ WorkTypes' /\ Locals'
         /\ \A v \in Workers : IF v \in W THEN HasEnded(v) ELSE SameLocals(v)
         /\ refresh_lock' = Freed(W)
         /\ refresh_lock' \in [Processes \X Profiles -> Workers \cup {None}]
         /\ lost' = lost \cup gone /\ lost' \in SUBSET Ids
<1>1. WorkTypes /\ OtherTypes /\ Locals  BY DEF Types
<1>2. WorkTypes'  BY <1>1 DEF WorkTypes, Ends, Stages
<1>3. \A v \in Workers : IF v \in W THEN HasEnded(v) ELSE SameLocals(v)
  BY DEF Ends, HasEnded, SameLocals
<1>4. Locals'
  <2> SUFFICES ASSUME NEW v \in Workers PROVE LocalsOf(v)'
    BY DEF Locals
  <2>1. CASE v \in W
    BY <1>3, <2>1 DEF HasEnded, LocalsOf, Refreshing, Ended, Loading
  <2>2. CASE v \notin W
    BY <1>1, <1>3, <2>2 DEF Locals, LocalsOf, SameLocals, Refreshing
  <2> QED BY <2>1, <2>2
<1>5. refresh_lock' = Freed(W) /\ lost' = lost \cup gone  BY DEF Ends
<1>6. refresh_lock' \in [Processes \X Profiles -> Workers \cup {None}]
  BY <1>1, <1>5 DEF Freed, OtherTypes
<1> QED BY <1>1, <1>2, <1>3, <1>4, <1>5, <1>6 DEF OtherTypes

(* The types, action by action.                                            *)

LEMMA KeptLocals ==
  ASSUME Types, NEW v \in Workers, SameLocals(v)
  PROVE  LocalsOf(v)' /\ (Refreshing(v)' <=> Refreshing(v))
BY DEF Types, Locals, LocalsOf, SameLocals, Refreshing

\* an action of one worker that goes on
LEMMA OneGoesOn ==
  ASSUME Types, NEW w \in Workers, \A v \in Workers : v # w => SameLocals(v), LocalsOf(w)'
  PROVE  Locals'
<1>1. ASSUME NEW v \in Workers, v # w PROVE LocalsOf(v)'  BY <1>1, KeptLocals
<1> QED BY <1>1 DEF Locals

LEMMA ChangedType ==
  ASSUME Types, NEW w \in Workers, NEW store \in Store, stage[w] = "save", Applies(w, store)
  PROVE  Changed(w, store) \in Store
<1>1. profile[w] \in Profiles /\ kind[w] \in Kind  BY DEF Types, WorkTypes, Locals, LocalsOf
<1>2. kind[w] \in {"token", "login"} => tokens[w] \in TokenSet  BY DEF Types, WorkTypes, Locals, LocalsOf
<1>3. CASE kind[w] = "login"  BY <1>1, <1>2, <1>3 DEF Changed, Store
<1>4. CASE kind[w] = "token"  BY <1>1, <1>2, <1>4 DEF Changed, Store
<1>5. CASE kind[w] = "remove"  BY <1>1, <1>5 DEF Changed, Store
<1>6. CASE kind[w] = "activate"  BY <1>1, <1>6 DEF Changed, Store
<1> QED BY <1>1, <1>3, <1>4, <1>5, <1>6 DEF Kind

LEMMA ForgottenType ==
  ASSUME Types, NEW W \in SUBSET Workers
  PROVE  Forgotten(W) \in SUBSET Ids
BY DEF Types, WorkTypes, Locals, LocalsOf, Refreshing, Forgotten

LEMMA FinishLocals ==
  ASSUME Types, NEW w \in Workers, Finish(w)
  PROVE  /\ WorkTypes' /\ Locals'
         /\ \A v \in Workers : IF v = w THEN HasEnded(v) ELSE SameLocals(v)
         /\ refresh_lock' = Freed({w})
         /\ refresh_lock' \in [Processes \X Profiles -> Workers \cup {None}]
         /\ lost' = lost \cup Forgotten({w}) /\ lost' \in SUBSET Ids
<1>1. Forgotten({w}) \in SUBSET Ids  BY ForgottenType
<1>2. {w} \in SUBSET Workers /\ "done" \in Ended  BY DEF Ended
<1>3. Ends({w}, "done", Forgotten({w}))  BY DEF Finish
<1> HIDE DEF Ended
<1>4. \A v \in Workers : IF v \in {w} THEN HasEnded(v) ELSE SameLocals(v)
  BY <1>1, <1>2, <1>3, EndsLocals
<1> QED BY <1>1, <1>2, <1>3, <1>4, EndsLocals

LEMMA InitTypes == Init => Types
<1> SUFFICES ASSUME Init PROVE Types  OBVIOUS
<1>1. PICK present \in SUBSET Profiles, number \in [Profiles -> Ids] :
        /\ {number[p] : p \in present} = 1..Cardinality(present)
        /\ issued = Cardinality(present)
        /\ file = [profiles |-> [p \in Profiles |->
                                  IF p \in present THEN Fresh(number[p], number[p]) ELSE None],
                   active |-> None]
  BY DEF Init
<1>2. issued \in Nat
  <2>1. IsFiniteSet(present)  BY FS_Subset
  <2> QED BY <1>1, <2>1, FS_CardinalityType
<1>3. 1..issued \subseteq Ids  BY <1>1
<1>4. issued \in 0..MaxIssued  BY <1>2, <1>3 DEF Ids
<1>5. file \in Store
  <2>1. \A p \in Profiles : Fresh(number[p], number[p]) \in TokenSet
    BY DEF Fresh, TokenSet
  <2> QED BY <1>1, <2>1 DEF Store
<1>6. WorkTypes /\ Locals
  BY DEF Init, WorkTypes, Locals, LocalsOf, Refreshing, Stages, Loading, Ended
<1>7. OtherTypes  BY <1>3, <1>4, <1>5 DEF Init, OtherTypes
<1> QED BY <1>6, <1>7 DEF Types

LEMMA StartTypes ==
  ASSUME Types, NEW w \in Workers, Start(w)
  PROVE  Types'
<1>1. WorkTypes /\ OtherTypes /\ Locals  BY DEF Types
<1>2. PICK call \in Calls[w] :
        /\ call[2] = None => call[1] = "token"
        /\ kind' = [kind EXCEPT ![w] = call[1]] /\ profile' = [profile EXCEPT ![w] = call[2]]
        /\ stage' = [stage EXCEPT ![w] = CASE call[1] = "token" -> "check"
                                          [] call[1] = "activate" -> "look" [] OTHER -> "save"]
        /\ IF call[1] = "login"
             THEN /\ issued < MaxIssued /\ issued' = issued + 1
                  /\ \E refresh \in {0, issued + 1} :
                       tokens' = [tokens EXCEPT ![w] = Fresh(issued + 1, refresh)]
             ELSE UNCHANGED <<issued, tokens>>
  BY DEF Start
<1>3. call[1] \in Kind /\ call[2] \in Profiles \cup {None}  OBVIOUS
<1>4. UNCHANGED <<file, lock, where, data, refresh_token, attempts, refresh_lock, backoffs,
                  expiring, rotates, spent, late, loose, lost>> /\ stage[w] = "idle"
  BY DEF Start
<1>5. issued' \in 0..MaxIssued /\ tokens' \in [Workers -> TokenSet \cup {None}]
  BY <1>1, <1>2 DEF OtherTypes, WorkTypes, TokenSet, Fresh, Ids
<1>6. call[1] = "login" => tokens'[w] \in TokenSet
  BY <1>1, <1>2 DEF OtherTypes, WorkTypes, TokenSet, Fresh, Ids
<1>7. WorkTypes'
  BY <1>1, <1>2, <1>3, <1>4, <1>5 DEF WorkTypes, Stages, Loading
<1>8. OtherTypes'  BY <1>1, <1>4, <1>5 DEF OtherTypes
<1>9. ASSUME NEW v \in Workers PROVE LocalsOf(v)'
  <2>1. CASE v = w
    <3>1. stage'[w] \in {"check", "look", "save"} /\ kind'[w] = call[1]
          /\ profile'[w] = call[2]
      BY <1>1, <1>2 DEF WorkTypes
    <3>2. stage'[w] = "check" <=> call[1] = "token"
      BY <1>1, <1>2 DEF WorkTypes
    <3>3. stage'[w] = "look" <=> call[1] = "activate"
      BY <1>1, <1>2 DEF WorkTypes
    <3>4. LocalsOf(w)  BY <1>1 DEF Locals
    <3>5. where[w] = "outside" /\ refresh_token[w] = 0 /\ tokens[w] = None
      BY <1>1, <1>4, <3>4 DEF LocalsOf, WorkTypes, Loading
    <3>6. call[1] # "login" => tokens'[w] = None  BY <1>2, <3>5
    <3> QED BY <1>2, <1>3, <1>4, <1>6, <2>1, <3>1, <3>2, <3>3, <3>5, <3>6
            DEF LocalsOf, Refreshing, Kind, Loading, Ended
  <2>2. CASE v # w
    <3>1. SameLocals(v)  BY <1>1, <1>2, <1>4, <2>2 DEF WorkTypes, SameLocals
    <3> QED BY <3>1, KeptLocals
  <2> QED BY <2>1, <2>2
<1>10. Locals'  BY <1>9 DEF Locals
<1> QED BY <1>7, <1>8, <1>10 DEF Types

LEMMA EnterTypes ==
  ASSUME Types, NEW w \in Workers, Enter(w)
  PROVE  Types'
<1>1. WorkTypes /\ OtherTypes /\ LocalsOf(w)  BY DEF Types, Locals
<1>2. WorkTypes'  BY <1>1 DEF Enter, WorkTypes, OtherTypes
<1>3. OtherTypes'  BY <1>1 DEF Enter, OtherTypes, provider
<1>4. \A v \in Workers : v # w => SameLocals(v)  BY <1>1 DEF Enter, WorkTypes, SameLocals
<1>5. stage[w] \in Loading \cup {"save"} /\ where'[w] = "inside" /\ data'[w] = file
  BY <1>1 DEF Enter, Wants, WorkTypes
<1>6. LocalsOf(w)'
  BY <1>1, <1>5 DEF Enter, LocalsOf, Refreshing, OtherTypes, Loading
<1> QED BY <1>2, <1>3, <1>4, <1>6, OneGoesOn DEF Types

LEMMA FinishTypes ==
  ASSUME Types, NEW w \in Workers, Finish(w),
         file' \in Store, lock' \in Workers \cup {None}, backoffs' \subseteq Processes \X Profiles,
         UNCHANGED provider, late' \in [Workers -> Store \cup {None}], loose' \in BOOLEAN
  PROVE  Types'
BY FinishLocals DEF Types, OtherTypes, provider

LEMMA CommitTypes ==
  ASSUME Types, NEW w \in Workers, Commit(w)
  PROVE  Types'
<1>1. WorkTypes /\ OtherTypes /\ LocalsOf(w)  BY DEF Types, Locals
<1>2. data[w] \in Store  BY <1>1 DEF Commit, LocalsOf
<1>3. Changed(w, data[w]) \in Store  BY <1>2, ChangedType DEF Commit
<1>4. WorkTypes'  BY <1>1 DEF Commit, Forgets, WorkTypes
<1>5. OtherTypes'  BY <1>1, <1>3 DEF Commit, OtherTypes, provider
<1>6. \A v \in Workers : v # w => SameLocals(v)  BY <1>1 DEF Commit, Forgets, WorkTypes, SameLocals
<1>7. where'[w] = "leaving" /\ stage[w] = "save"  BY <1>1 DEF Commit, WorkTypes
<1>8. LocalsOf(w)'  BY <1>1, <1>7 DEF Commit, LocalsOf, Refreshing, Ended
<1> QED BY <1>4, <1>5, <1>6, <1>8, OneGoesOn DEF Types

LEMMA LeaveLookTypes ==
  ASSUME Types, NEW w \in Workers, LeaveLook(w)
  PROVE  Types'
<1>1. WorkTypes /\ OtherTypes /\ LocalsOf(w)  BY DEF Types, Locals
<1>2. CASE Present(data[w], profile[w])
  <2>1. /\ stage' = [stage EXCEPT ![w] = "save"] /\ where' = [where EXCEPT ![w] = "outside"]
        /\ data' = [data EXCEPT ![w] = None]
        /\ UNCHANGED <<kind, tokens, attempts, profile, refresh_token, refresh_lock, lost>>
    BY <1>2 DEF LeaveLook, GoesOn, Forgets
  <2>2. WorkTypes'  BY <1>1, <2>1 DEF WorkTypes, Stages
  <2>3. OtherTypes'  BY <1>1, <2>1 DEF LeaveLook, OtherTypes, provider
  <2>4. \A v \in Workers : v # w => SameLocals(v)  BY <1>1, <2>1 DEF WorkTypes, SameLocals
  <2>5. stage'[w] = "save" /\ where'[w] = "outside" /\ kind'[w] = "activate"
    BY <1>1, <2>1 DEF LeaveLook, WorkTypes, LocalsOf
  <2>6. LocalsOf(w)'
    BY <1>1, <2>1, <2>5 DEF LeaveLook, LocalsOf, Refreshing, Ended, Kind
  <2> QED BY <2>2, <2>3, <2>4, <2>6, OneGoesOn DEF Types
<1>3. CASE ~Present(data[w], profile[w])
  BY <1>1, <1>3, FinishTypes DEF LeaveLook, OtherTypes
<1> QED BY <1>2, <1>3

LEMMA LeaveCheckTypes ==
  ASSUME Types, NEW w \in Workers, LeaveCheck(w)
  PROVE  Types'
<1>1. WorkTypes /\ OtherTypes /\ LocalsOf(w)  BY DEF Types, Locals
<1> DEFINE p == IF profile[w] # None THEN profile[w] ELSE Selected(data[w])
           must == /\ p # None /\ Present(data[w], p)
                   /\ data[w].profiles[p].access \in expiring /\ data[w].profiles[p].refresh # 0
<1>2. CASE must
  <2>1. data[w] \in Store  BY <1>1 DEF LeaveCheck, LocalsOf
  <2>2. p \in Profiles
    BY <1>1, <1>2, <2>1 DEF WorkTypes, Selected, Store
  <2>3. data[w].profiles[p].refresh \in Ids
    BY <1>2, <2>1, <2>2 DEF Store, TokenSet, Present
  <2>4. /\ stage' = [stage EXCEPT ![w] = "mutex"] /\ where' = [where EXCEPT ![w] = "outside"]
        /\ data' = [data EXCEPT ![w] = None]
        /\ profile' = [profile EXCEPT ![w] = p]
        /\ refresh_token' = [refresh_token EXCEPT ![w] = data[w].profiles[p].refresh]
        /\ UNCHANGED <<kind, tokens, attempts, refresh_lock, lost>>
    BY <1>2 DEF LeaveCheck, GoesOn, Forgets
  <2> HIDE DEF p, must
  <2>5. WorkTypes'  BY <1>1, <2>2, <2>3, <2>4 DEF WorkTypes, Stages
  <2>6. OtherTypes'  BY <1>1, <2>4 DEF LeaveCheck, OtherTypes, provider
  <2>7. \A v \in Workers : v # w => SameLocals(v)  BY <1>1, <2>4 DEF WorkTypes, SameLocals
  <2>8. /\ stage'[w] = "mutex" /\ where'[w] = "outside" /\ kind'[w] = "token"
        /\ profile'[w] \in Profiles /\ refresh_token'[w] \in Ids /\ tokens'[w] = None
    BY <1>1, <2>2, <2>3, <2>4 DEF LeaveCheck, WorkTypes, LocalsOf
  <2>9. LocalsOf(w)'
    BY <2>8 DEF LocalsOf, Refreshing, Ended
  <2> QED BY <2>5, <2>6, <2>7, <2>9, OneGoesOn DEF Types
<1>3. CASE ~must
  BY <1>1, <1>3, FinishTypes DEF LeaveCheck, OtherTypes
<1> QED BY <1>2, <1>3

LEMMA SlotType ==
  ASSUME Types, NEW w \in Workers, stage[w] \in {"mutex", "recheck", "send", "save"}
  PROVE  Slot(w) \in Processes \X Profiles
BY DEF Types, Locals, LocalsOf, Slot

LEMMA LockMutexTypes ==
  ASSUME Types, NEW w \in Workers, LockMutex(w)
  PROVE  Types'
<1>1. WorkTypes /\ OtherTypes /\ LocalsOf(w)  BY DEF Types, Locals
<1>2. WorkTypes'  BY <1>1 DEF LockMutex, WorkTypes, Stages, Loading
<1>3. OtherTypes'  BY <1>1 DEF LockMutex, OtherTypes, provider
<1>4. \A v \in Workers : v # w => SameLocals(v)  BY <1>1 DEF LockMutex, WorkTypes, SameLocals
<1>5. stage'[w] = "recheck" /\ stage[w] = "mutex"  BY <1>1 DEF LockMutex, WorkTypes
<1>6. LocalsOf(w)'  BY <1>1, <1>5 DEF LockMutex, LocalsOf, Refreshing, Loading, Ended
<1> QED BY <1>2, <1>3, <1>4, <1>6, OneGoesOn DEF Types

LEMMA LeaveRecheckTypes ==
  ASSUME Types, NEW w \in Workers, LeaveRecheck(w)
  PROVE  Types'
<1>1. WorkTypes /\ OtherTypes /\ LocalsOf(w)  BY DEF Types, Locals
<1> DEFINE latest == data[w].profiles[profile[w]]
           must == latest # None /\ latest.access \in expiring /\ Slot(w) \notin backoffs
<1>2. CASE must
  <2>1. stage[w] = "recheck" /\ data[w] \in Store /\ profile[w] \in Profiles
    BY <1>1 DEF LeaveRecheck, LocalsOf
  <2>2. latest \in TokenSet  BY <1>2, <2>1 DEF Store
  <2>3. PICK r \in Ids : refresh_token' = [refresh_token EXCEPT ![w] = r]
    <3>1. refresh_token[w] \in Ids  BY <1>1, <2>1 DEF LocalsOf, Refreshing
    <3>2. refresh_token' = [refresh_token EXCEPT ![w] =
                              IF latest.refresh # 0 THEN latest.refresh ELSE refresh_token[w]]
      BY <1>2 DEF LeaveRecheck
    <3> QED BY <2>2, <3>1, <3>2 DEF TokenSet
  <2>4. /\ stage' = [stage EXCEPT ![w] = "send"] /\ where' = [where EXCEPT ![w] = "outside"]
        /\ UNCHANGED <<kind, data, tokens, attempts, profile, refresh_lock, lost>>
    BY <1>2 DEF LeaveRecheck, GoesOn
  <2>5. WorkTypes'  BY <1>1, <2>3, <2>4 DEF WorkTypes, Stages
  <2>6. OtherTypes'  BY <1>1, <2>4 DEF LeaveRecheck, OtherTypes, provider
  <2>7. \A v \in Workers : v # w => SameLocals(v)
    BY <1>1, <2>3, <2>4 DEF WorkTypes, SameLocals
  <2>8. /\ stage'[w] = "send" /\ where'[w] = "outside" /\ kind'[w] = "token"
        /\ refresh_token'[w] \in Ids /\ tokens'[w] = None
        /\ Present(data[w], profile[w])
    BY <1>1, <1>2, <2>1, <2>3, <2>4 DEF WorkTypes, LocalsOf, Present
  <2>9. LocalsOf(w)'
    BY <2>1, <2>4, <2>8 DEF LocalsOf, Refreshing, Ended, Present
  <2> QED BY <2>5, <2>6, <2>7, <2>9, OneGoesOn DEF Types
<1>3. CASE ~must
  BY <1>1, <1>3, FinishTypes DEF LeaveRecheck, OtherTypes
<1> QED BY <1>2, <1>3

LEMMA ExchangedType ==
  ASSUME Types, NEW w \in Workers, Refreshing(w)
  PROVE  Exchanged(w) \subseteq Processes \X Ids
BY DEF Types, OtherTypes, Locals, LocalsOf, Exchanged

\* the token set of an answer
Answer(w) ==
  Fresh(issued + 1, IF rotates THEN issued + 1 ELSE data[w].profiles[profile[w]].refresh)

LEMMA AnswerType ==
  ASSUME Types, NEW w \in Workers, Answered(w)
  PROVE  Answer(w) \in TokenSet /\ issued + 1 \in Ids
<1>1. OtherTypes /\ LocalsOf(w)  BY DEF Types, Locals
<1>2. data[w].profiles[profile[w]] \in TokenSet
  BY <1>1 DEF Answered, LocalsOf, Present, Store
<1>3. issued + 1 \in Ids  BY <1>1 DEF Answered, OtherTypes, Ids
<1> QED BY <1>1, <1>2, <1>3 DEF Answer, Fresh, TokenSet, OtherTypes

LEMMA AnsweredTypes ==
  ASSUME Types, NEW w \in Workers, Answered(w)
  PROVE  Types' /\ \A v \in Workers : v # w => SameLocals(v)
<1>1. WorkTypes /\ OtherTypes /\ LocalsOf(w)  BY DEF Types, Locals
<1>2. stage[w] = "send" /\ Refreshing(w)  BY DEF Answered, Refreshing
<1>3. tokens' = [tokens EXCEPT ![w] = Answer(w)]  BY DEF Answered, Answer
<1>4. Answer(w) \in TokenSet /\ issued' \in Ids  BY AnswerType DEF Answered
<1> HIDE DEF Answer
<1>5. WorkTypes'  BY <1>1, <1>3, <1>4 DEF Answered, Forgets, WorkTypes, Stages
<1>6. spent' \subseteq Processes \X Ids  BY <1>2, ExchangedType DEF Answered
<1>7. OtherTypes'
  BY <1>1, <1>4, <1>6 DEF Answered, OtherTypes, Ids
<1>8. \A v \in Workers : v # w => SameLocals(v)
  BY <1>1, <1>3 DEF Answered, Forgets, WorkTypes, SameLocals
<1>9. /\ stage'[w] = "save" /\ where'[w] = where[w] /\ kind'[w] = "token"
      /\ profile'[w] = profile[w] /\ refresh_token'[w] = refresh_token[w]
      /\ tokens'[w] \in TokenSet
  BY <1>1, <1>2, <1>3, <1>4 DEF Answered, WorkTypes, LocalsOf
<1>10. LocalsOf(w)'
  BY <1>1, <1>2, <1>9 DEF LocalsOf, Refreshing, Loading, Ended, Kind
<1> QED BY <1>5, <1>7, <1>8, <1>10, OneGoesOn DEF Types

\* an attempt that fails: the next one, or the end
LEMMA FailsTypes ==
  ASSUME Types, NEW w \in Workers, NEW gone \in SUBSET Ids, stage[w] = "send", Fails(w, gone),
         UNCHANGED <<file, lock, issued, expiring, rotates, late, loose>>,
         spent' \subseteq Processes \X Ids
  PROVE  Types'
<1>1. WorkTypes /\ OtherTypes /\ Locals  BY DEF Types
<1>2. CASE AnotherAttempt(w)
  <2>1. /\ attempts' = [attempts EXCEPT ![w] = attempts[w] + 1] /\ lost' = lost \cup gone
        /\ UNCHANGED <<kind, profile, stage, where, data, refresh_token, tokens, refresh_lock,
                       backoffs>>
    BY <1>2 DEF Fails
  <2>2. WorkTypes'  BY <1>1, <1>2, <2>1 DEF WorkTypes, AnotherAttempt
  <2>3. OtherTypes'  BY <1>1, <2>1 DEF OtherTypes
  <2>4. \A v \in Workers : SameLocals(v)  BY <2>1 DEF SameLocals
  <2>5. Locals'  BY <2>4, KeptLocals DEF Locals
  <2> QED BY <2>2, <2>3, <2>5 DEF Types
<1>3. CASE ~AnotherAttempt(w)
  <2>1. Ends({w}, "done", gone) /\ backoffs' = backoffs \cup {Slot(w)}
    BY <1>3 DEF Fails
  <2>2. {w} \in SUBSET Workers /\ "done" \in Ended  BY DEF Ended
  <2>3. Slot(w) \in Processes \X Profiles  BY SlotType
  <2>4. /\ WorkTypes' /\ Locals' /\ lost' \in SUBSET Ids
        /\ refresh_lock' \in [Processes \X Profiles -> Workers \cup {None}]
    BY <2>1, <2>2, EndsLocals
  <2> QED BY <1>1, <2>1, <2>3, <2>4 DEF Types, OtherTypes
<1> QED BY <1>2, <1>3

LEMMA ExchangeTypes ==
  ASSUME Types, NEW w \in Workers, Exchange(w)
  PROVE  Types'
<1>1. CASE Answered(w)  BY <1>1, AnsweredTypes
<1>2. CASE Refused(w)
  BY <1>2, FailsTypes DEF Refused, provider, Types, OtherTypes
<1>3. CASE AnswerLost(w)
  <2>1. Refreshing(w) /\ stage[w] = "send"  BY <1>3 DEF AnswerLost, Refreshing
  <2>2. {refresh_token[w]} \in SUBSET Ids  BY <2>1 DEF Types, Locals, LocalsOf
  <2> QED BY <1>3, <2>1, <2>2, ExchangedType, FailsTypes DEF AnswerLost
<1> QED BY <1>1, <1>2, <1>3 DEF Exchange

LEMMA AbandonTypes ==
  ASSUME Types, NEW w \in Workers, Abandon(w)
  PROVE  Types'
<1>1. OtherTypes /\ LocalsOf(w)  BY DEF Types, Locals
<1>2. Finish(w) /\ UNCHANGED <<file, backoffs, provider>>  BY DEF Abandon
<1>3. lock' \in Workers \cup {None} /\ loose' \in BOOLEAN
  BY <1>1 DEF Abandon, OtherTypes
<1>4. late' \in [Workers -> Store \cup {None}]
  <2>1. CASE late' = late  BY <1>1, <2>1 DEF OtherTypes
  <2>2. CASE /\ stage[w] = "save" /\ where[w] = "inside" /\ Applies(w, data[w])
             /\ late' = [late EXCEPT ![w] = Changed(w, data[w])]
    <3>1. data[w] \in Store  BY <1>1, <2>2 DEF LocalsOf
    <3>2. Changed(w, data[w]) \in Store  BY <2>2, <3>1, ChangedType
    <3> QED BY <1>1, <2>2, <3>2 DEF OtherTypes
  <2> QED BY <2>1, <2>2 DEF Abandon
<1> QED BY <1>1, <1>2, <1>3, <1>4, FinishTypes DEF OtherTypes

LEMMA CrashTypes ==
  ASSUME Types, NEW process \in Processes, Crash(process)
  PROVE  Types'
<1> DEFINE W == {w \in Workers : ProcessOf[w] = process /\ Running(w)}
<1>1. W \in SUBSET Workers /\ "dead" \in Ended /\ Forgotten(W) \in SUBSET Ids
  BY ForgottenType DEF Ended
<1>2. Ends(W, "dead", Forgotten(W))  BY DEF Crash
<1> HIDE DEF W
<1>3. /\ WorkTypes' /\ Locals' /\ lost' \in SUBSET Ids
      /\ refresh_lock' \in [Processes \X Profiles -> Workers \cup {None}]
  BY <1>1, <1>2, EndsLocals
<1>4. /\ UNCHANGED <<file, lock, provider, loose>> /\ backoffs' \subseteq backoffs
      /\ late' = [w \in Workers |-> IF ProcessOf[w] = process THEN None ELSE late[w]]
  BY DEF Crash
<1> QED BY <1>3, <1>4 DEF Types, OtherTypes, provider

\* what happens around the workers
Surroundings ==
  \/ \E w \in Workers : LateWrite(w)
  \/ \E n \in Ids : Expires(n)
  \/ \E x \in Processes \X Profiles : BackoffEnds(x)
  \/ UNCHANGED vars

LEMMA SurroundingsTypes ==
  ASSUME Types, Surroundings
  PROVE  Types' /\ UNCHANGED <<refresh_lock, lock, spent, lost>> /\ \A v \in Workers : SameLocals(v)
<1>1. UNCHANGED work /\ UNCHANGED <<refresh_lock, lock, spent, lost>>
  BY DEF Surroundings, LateWrite, Expires, BackoffEnds, provider, vars
<1>2. \A v \in Workers : SameLocals(v)  BY <1>1 DEF work, SameLocals
<1>3. WorkTypes' /\ Locals'
  <2>1. WorkTypes'  BY <1>1 DEF work, Types, WorkTypes
  <2>2. Locals'  BY <1>2, KeptLocals DEF Locals
  <2> QED BY <2>1, <2>2
<1>4. CASE \E w \in Workers : LateWrite(w)
  BY <1>1, <1>2, <1>3, <1>4 DEF LateWrite, Types, OtherTypes, provider
<1>5. CASE \E n \in Ids : Expires(n)
  BY <1>1, <1>2, <1>3, <1>5 DEF Expires, Types, OtherTypes, Ids
<1>6. CASE \E x \in Processes \X Profiles : BackoffEnds(x)
  BY <1>1, <1>2, <1>3, <1>6 DEF BackoffEnds, Types, OtherTypes, provider
<1>7. CASE UNCHANGED vars
  BY <1>1, <1>2, <1>3, <1>7 DEF vars, Types, OtherTypes, provider
<1> QED BY <1>4, <1>5, <1>6, <1>7 DEF Surroundings

LEMMA NextCases ==
  ASSUME [Next]_vars
  PROVE  \/ \E w \in Workers : Start(w) \/ Step(w) \/ Exchange(w) \/ Abandon(w)
         \/ \E process \in Processes : Crash(process)
         \/ Surroundings
BY DEF Next, Surroundings

LEMMA NextTypes == Types /\ [Next]_vars => Types'
<1> SUFFICES ASSUME Types, [Next]_vars PROVE Types'  OBVIOUS
<1>1. ASSUME NEW w \in Workers, Start(w) PROVE Types'  BY <1>1, StartTypes
<1>2. ASSUME NEW w \in Workers, Step(w) PROVE Types'
  <2>1. CASE Enter(w)  BY <2>1, EnterTypes
  <2>2. CASE TimeOut(w) \/ LeaveWithError(w) \/ LeaveSaved(w)
    BY <2>2, FinishTypes DEF TimeOut, LeaveWithError, LeaveSaved, Types, OtherTypes
  <2>3. CASE Commit(w)  BY <2>3, CommitTypes
  <2>4. CASE LeaveLook(w)  BY <2>4, LeaveLookTypes
  <2>5. CASE LeaveCheck(w)  BY <2>5, LeaveCheckTypes
  <2>6. CASE LockMutex(w)  BY <2>6, LockMutexTypes
  <2>7. CASE LeaveRecheck(w)  BY <2>7, LeaveRecheckTypes
  <2> QED BY <1>2, <2>1, <2>2, <2>3, <2>4, <2>5, <2>6, <2>7 DEF Step
<1>3. ASSUME NEW w \in Workers, Exchange(w) PROVE Types'  BY <1>3, ExchangeTypes
<1>4. ASSUME NEW w \in Workers, Abandon(w) PROVE Types'  BY <1>4, AbandonTypes
<1>5. ASSUME NEW process \in Processes, Crash(process) PROVE Types'  BY <1>5, CrashTypes
<1>6. CASE Surroundings  BY <1>6, SurroundingsTypes
<1> QED BY <1>1, <1>2, <1>3, <1>4, <1>5, <1>6, NextCases

\* The store, the token sets and the locals keep their types, at every stage.
\* (auth/profiles.rs, auth/mod.rs)
THEOREM TypeCorrect == Spec => []TypeOK
<1>1. Types => TypeOK  BY DEF Types, WorkTypes, OtherTypes, TypeOK
<1> QED BY <1>1, InitTypes, NextTypes, PTL DEF Spec

-----------------------------------------------------------------------------
(* What each action does, worker by worker.                                *)

OnlyLocals(w) == \A v \in Workers : v # w => SameLocals(v)

GuardsDropped(W) ==
  /\ \A v \in Workers : IF v \in W THEN HasEnded(v) ELSE SameLocals(v)
  /\ refresh_lock' = Freed(W)

StartedAs(w, k, p) ==
  /\ kind'[w] = k /\ profile'[w] = p /\ where'[w] = "outside" /\ where[w] = "outside"
  /\ stage'[w] = CASE k = "token" -> "check" [] k = "activate" -> "look" [] OTHER -> "save"
  /\ data'[w] = data[w] /\ refresh_token'[w] = 0
  /\ IF k = "login"
       THEN /\ issued' = issued + 1 /\ issued + 1 \in Ids
            /\ \E refresh \in {0, issued + 1} : tokens'[w] = Fresh(issued + 1, refresh)
       ELSE issued' = issued /\ tokens'[w] = None

LEMMA StartEffect ==
  ASSUME Types, NEW w \in Workers, Start(w)
  PROVE  /\ OnlyLocals(w) /\ \E k \in Kind, p \in Profiles \cup {None} : StartedAs(w, k, p)
         /\ UNCHANGED <<file, lock, refresh_lock, backoffs, rotates, spent, late, loose, lost>>
<1>1. WorkTypes /\ OtherTypes /\ LocalsOf(w)  BY DEF Types, Locals
<1>2. PICK call \in Calls[w] :
        /\ kind' = [kind EXCEPT ![w] = call[1]] /\ profile' = [profile EXCEPT ![w] = call[2]]
        /\ stage' = [stage EXCEPT ![w] = CASE call[1] = "token" -> "check"
                                          [] call[1] = "activate" -> "look" [] OTHER -> "save"]
        /\ IF call[1] = "login"
             THEN /\ issued < MaxIssued /\ issued' = issued + 1
                  /\ \E refresh \in {0, issued + 1} :
                       tokens' = [tokens EXCEPT ![w] = Fresh(issued + 1, refresh)]
             ELSE UNCHANGED <<issued, tokens>>
  BY DEF Start
<1>3. call[1] \in Kind /\ call[2] \in Profiles \cup {None}  OBVIOUS
<1>4. UNCHANGED <<file, lock, where, data, refresh_token, refresh_lock, backoffs,
                  rotates, spent, late, loose, lost>> /\ stage[w] = "idle"
  BY DEF Start
<1>5. where[w] = "outside" /\ refresh_token[w] = 0 /\ tokens[w] = None
  BY <1>1, <1>4 DEF LocalsOf, WorkTypes, Loading
<1>6. OnlyLocals(w)  BY <1>1, <1>2, <1>4 DEF WorkTypes, OnlyLocals, SameLocals
<1>7. CASE call[1] = "login"
  <2>1. issued + 1 \in Ids  BY <1>1, <1>2, <1>7 DEF OtherTypes, Ids
  <2>2. StartedAs(w, call[1], call[2])
    BY <1>1, <1>2, <1>4, <1>5, <1>7, <2>1 DEF StartedAs, WorkTypes
  <2> QED BY <1>3, <1>4, <1>6, <2>2
<1>8. CASE call[1] # "login"
  <2>1. StartedAs(w, call[1], call[2])
    BY <1>1, <1>2, <1>4, <1>5, <1>8 DEF StartedAs, WorkTypes
  <2> QED BY <1>3, <1>4, <1>6, <2>1
<1> QED BY <1>7, <1>8

LEMMA FinishEffect ==
  ASSUME Types, NEW w \in Workers, Finish(w)
  PROVE  GuardsDropped({w}) /\ lost' = lost \cup Forgotten({w})
BY FinishLocals DEF GuardsDropped

LEMMA EnterEffect ==
  ASSUME Types, NEW w \in Workers, Enter(w)
  PROVE  /\ OnlyLocals(w) /\ lock = None /\ lock' = w /\ stage[w] \in Loading \cup {"save"}
         /\ where[w] = "outside" /\ where'[w] = "inside" /\ data'[w] = file
         /\ stage'[w] = stage[w] /\ kind'[w] = kind[w] /\ profile'[w] = profile[w]
         /\ refresh_token'[w] = refresh_token[w] /\ tokens'[w] = tokens[w]
         /\ UNCHANGED <<file, refresh_lock, backoffs, issued, rotates, spent, late, loose, lost>>
BY DEF Types, WorkTypes, OnlyLocals, SameLocals, Enter, Wants, provider

LEMMA CommitEffect ==
  ASSUME Types, NEW w \in Workers, Commit(w)
  PROVE  /\ OnlyLocals(w) /\ stage[w] = "save" /\ where[w] = "inside"
         /\ where'[w] = "leaving" /\ data'[w] = None
         /\ Applies(w, data[w]) /\ file' = Changed(w, data[w])
         /\ stage'[w] = stage[w] /\ kind'[w] = kind[w] /\ profile'[w] = profile[w]
         /\ refresh_token'[w] = refresh_token[w] /\ tokens'[w] = tokens[w]
         /\ UNCHANGED <<lock, refresh_lock, backoffs, issued, rotates, spent, late, loose, lost>>
BY DEF Types, WorkTypes, OnlyLocals, SameLocals, Commit, Forgets, provider

\* what the three ways of leaving the store for more have in common
Leaves(w) ==
  /\ OnlyLocals(w) /\ where[w] = "inside" /\ where'[w] = "outside" /\ lock' = None
  /\ kind'[w] = kind[w] /\ tokens'[w] = tokens[w] /\ stage[w] # "save"
  /\ UNCHANGED <<file, refresh_lock, backoffs, issued, rotates, spent, late, loose, lost>>

LEMMA LeaveLookEffect ==
  ASSUME Types, NEW w \in Workers, LeaveLook(w)
  PROVE  \/ Finish(w)
         \/ /\ Leaves(w) /\ stage'[w] = "save" /\ kind[w] = "activate" /\ data'[w] = None
            /\ profile'[w] = profile[w] /\ refresh_token'[w] = refresh_token[w]
<1>1. WorkTypes /\ LocalsOf(w)  BY DEF Types, Locals
<1>2. CASE Present(data[w], profile[w])
  BY <1>1, <1>2
     DEF WorkTypes, LocalsOf, OnlyLocals, SameLocals, Leaves, LeaveLook, GoesOn, Forgets, provider
<1> QED BY <1>2 DEF LeaveLook

LEMMA LeaveCheckEffect ==
  ASSUME Types, NEW w \in Workers, LeaveCheck(w)
  PROVE  \/ Finish(w)
         \/ /\ Leaves(w) /\ stage[w] = "check" /\ stage'[w] = "mutex" /\ data'[w] = None
            /\ profile'[w] \in Profiles /\ Present(data[w], profile'[w])
            /\ refresh_token'[w] = data[w].profiles[profile'[w]].refresh
<1>1. WorkTypes /\ LocalsOf(w)  BY DEF Types, Locals
<1> DEFINE p == IF profile[w] # None THEN profile[w] ELSE Selected(data[w])
           must == /\ p # None /\ Present(data[w], p)
                   /\ data[w].profiles[p].access \in expiring /\ data[w].profiles[p].refresh # 0
<1>2. CASE must
  <2>1. data[w] \in Store  BY <1>1 DEF LeaveCheck, LocalsOf
  <2>2. p \in Profiles
    BY <1>1, <1>2, <2>1 DEF WorkTypes, Selected, Store
  <2>3. /\ stage' = [stage EXCEPT ![w] = "mutex"] /\ where' = [where EXCEPT ![w] = "outside"]
        /\ data' = [data EXCEPT ![w] = None]
        /\ profile' = [profile EXCEPT ![w] = p]
        /\ refresh_token' = [refresh_token EXCEPT ![w] = data[w].profiles[p].refresh]
        /\ UNCHANGED <<kind, tokens, refresh_lock, lost>>
    BY <1>2 DEF LeaveCheck, GoesOn, Forgets
  <2>4. Present(data[w], p)  BY <1>2
  <2> HIDE DEF p, must
  <2>5. OnlyLocals(w)  BY <1>1, <2>3 DEF WorkTypes, OnlyLocals, SameLocals
  <2>6. Leaves(w)  BY <1>1, <2>3, <2>5 DEF WorkTypes, Leaves, LeaveCheck, provider
  <2> QED BY <1>1, <2>2, <2>3, <2>4, <2>6 DEF WorkTypes, LeaveCheck
<1> QED BY <1>2 DEF LeaveCheck

LEMMA LockMutexEffect ==
  ASSUME Types, NEW w \in Workers, LockMutex(w)
  PROVE  /\ OnlyLocals(w) /\ stage[w] = "mutex" /\ stage'[w] = "recheck"
         /\ refresh_lock[Slot(w)] = None
         /\ refresh_lock' = [refresh_lock EXCEPT ![Slot(w)] = w]
         /\ where'[w] = where[w] /\ kind'[w] = kind[w] /\ profile'[w] = profile[w]
         /\ data'[w] = data[w] /\ refresh_token'[w] = refresh_token[w] /\ tokens'[w] = tokens[w]
         /\ UNCHANGED <<file, lock, backoffs, issued, rotates, spent, late, loose, lost>>
BY DEF Types, WorkTypes, OnlyLocals, SameLocals, LockMutex, provider

LEMMA LeaveRecheckEffect ==
  ASSUME Types, NEW w \in Workers, LeaveRecheck(w)
  PROVE  \/ Finish(w)
         \/ /\ Leaves(w) /\ stage[w] = "recheck" /\ stage'[w] = "send" /\ data'[w] = data[w]
            /\ profile'[w] = profile[w] /\ Slot(w) \notin backoffs
            /\ data[w] \in Store /\ profile[w] \in Profiles
            /\ data[w].profiles[profile[w]] \in TokenSet
            /\ refresh_token'[w] = IF data[w].profiles[profile[w]].refresh # 0
                                     THEN data[w].profiles[profile[w]].refresh
                                     ELSE refresh_token[w]
<1>1. WorkTypes /\ LocalsOf(w)  BY DEF Types, Locals
<1> DEFINE latest == data[w].profiles[profile[w]]
           must == latest # None /\ latest.access \in expiring /\ Slot(w) \notin backoffs
<1>2. CASE must
  <2>1. stage[w] = "recheck" /\ data[w] \in Store /\ profile[w] \in Profiles
    BY <1>1 DEF LeaveRecheck, LocalsOf
  <2>2. latest \in TokenSet  BY <1>2, <2>1 DEF Store
  <2>3. /\ stage' = [stage EXCEPT ![w] = "send"] /\ where' = [where EXCEPT ![w] = "outside"]
        /\ refresh_token' = [refresh_token EXCEPT ![w] =
                               IF latest.refresh # 0 THEN latest.refresh ELSE refresh_token[w]]
        /\ UNCHANGED <<kind, data, tokens, profile, refresh_lock, lost>>
    BY <1>2 DEF LeaveRecheck, GoesOn
  <2>4. OnlyLocals(w)  BY <1>1, <2>3 DEF WorkTypes, OnlyLocals, SameLocals
  <2>5. Leaves(w)  BY <1>1, <2>3, <2>4 DEF WorkTypes, Leaves, LeaveRecheck, provider
  <2> QED BY <1>1, <1>2, <2>1, <2>2, <2>3, <2>5 DEF WorkTypes
<1> QED BY <1>2 DEF LeaveRecheck

LEMMA AnsweredEffect ==
  ASSUME Types, NEW w \in Workers, Answered(w)
  PROVE  /\ OnlyLocals(w) /\ stage[w] = "send" /\ stage'[w] = "save" /\ kind[w] = "token"
         /\ data'[w] = None /\ tokens'[w] = Answer(w) /\ where[w] = "outside"
         /\ issued' = issued + 1 /\ spent' = Exchanged(w) /\ Valid(w)
         /\ where'[w] = where[w] /\ kind'[w] = kind[w] /\ profile'[w] = profile[w]
         /\ refresh_token'[w] = refresh_token[w] /\ backoffs' \subseteq backoffs
         /\ UNCHANGED <<file, lock, refresh_lock, rotates, late, loose, lost>>
<1>1. WorkTypes /\ LocalsOf(w)  BY DEF Types, Locals
<1>2. tokens' = [tokens EXCEPT ![w] = Answer(w)]  BY DEF Answered, Answer
<1>3. stage[w] = "send"  BY DEF Answered
<1>4. kind[w] = "token" /\ where[w] = "outside"  BY <1>1, <1>3 DEF LocalsOf, Loading, WorkTypes
<1>5. OnlyLocals(w)  BY <1>1, <1>2 DEF Answered, Forgets, WorkTypes, OnlyLocals, SameLocals
<1> QED BY <1>1, <1>2, <1>3, <1>4, <1>5 DEF Answered, Forgets, WorkTypes

\* what each action leaves of the guards
LEMMA CrashEffect ==
  ASSUME Types, NEW process \in Processes, Crash(process)
  PROVE  \E W \in SUBSET Workers :
           /\ GuardsDropped(W) /\ lost' = lost \cup Forgotten(W)
           /\ backoffs' \subseteq backoffs
           /\ \A v \in Workers : late'[v] \in {late[v], None}
           /\ UNCHANGED <<file, lock, issued, rotates, spent, loose>>
<1> DEFINE W == {w \in Workers : ProcessOf[w] = process /\ Running(w)}
<1>1. W \in SUBSET Workers /\ "dead" \in Ended /\ Forgotten(W) \in SUBSET Ids
  BY ForgottenType DEF Ended
<1>2. /\ Ends(W, "dead", Forgotten(W))
      /\ UNCHANGED <<file, lock, issued, rotates, spent, loose>> /\ backoffs' \subseteq backoffs
      /\ \A v \in Workers : late'[v] \in {late[v], None}
  BY DEF Crash, provider
<1> HIDE DEF W
<1>3. GuardsDropped(W) /\ lost' = lost \cup Forgotten(W)
  BY <1>1, <1>2, EndsLocals DEF GuardsDropped
<1> QED BY <1>1, <1>2, <1>3

\* the last attempt of a refresh, or one before it
LEMMA FailsEffect ==
  ASSUME Types, NEW w \in Workers, NEW gone \in SUBSET Ids, stage[w] = "send", Fails(w, gone)
  PROVE  /\ lost' = lost \cup gone
         /\ \/ /\ UNCHANGED <<refresh_lock, backoffs>> /\ \A v \in Workers : SameLocals(v)
            \/ GuardsDropped({w}) /\ backoffs' = backoffs \cup {Slot(w)}
<1>1. CASE AnotherAttempt(w)  BY <1>1 DEF Fails, SameLocals
<1>2. CASE ~AnotherAttempt(w)
  <2>1. {w} \in SUBSET Workers /\ "done" \in Ended  BY DEF Ended
  <2>2. GuardsDropped({w}) /\ lost' = lost \cup gone
    BY <1>2, <2>1, EndsLocals DEF Fails, GuardsDropped
  <2> QED BY <1>2, <2>2 DEF Fails
<1> QED BY <1>1, <1>2

-----------------------------------------------------------------------------
(* The mutex of a refresh, and the backoff it is asked for under the mutex. *)

MutexInv == MutexHeld /\ BackoffRespected

LEMMA RefreshingHasSlot ==
  ASSUME Types, NEW w \in Workers, Refreshing(w)
  PROVE  Slot(w) \in Processes \X Profiles
BY SlotType DEF Refreshing

LEMMA GuardsDroppedMutex ==
  ASSUME Types, MutexHeld, NEW W \in SUBSET Workers, GuardsDropped(W)
  PROVE  MutexHeld'
<1> SUFFICES ASSUME NEW v \in Workers, Refreshing(v)' PROVE (refresh_lock[Slot(v)] = v)'
  BY DEF MutexHeld
<1>1. v \notin W /\ SameLocals(v)
  BY DEF GuardsDropped, HasEnded, Refreshing, Ended
<1>2. Refreshing(v) /\ Slot(v)' = Slot(v)  BY <1>1 DEF SameLocals, Refreshing, Slot
<1>3. Slot(v) \in DOMAIN refresh_lock /\ refresh_lock[Slot(v)] = v
  BY <1>2, RefreshingHasSlot DEF MutexHeld, Types, OtherTypes
<1> QED BY <1>1, <1>2, <1>3 DEF GuardsDropped, Freed

LEMMA SameSlotsMutex ==
  ASSUME Types, MutexHeld, UNCHANGED refresh_lock,
         \A v \in Workers : Refreshing(v)' => Refreshing(v) /\ profile'[v] = profile[v]
  PROVE  MutexHeld'
BY DEF MutexHeld, Slot

LEMMA OneRefreshPerSlot ==
  ASSUME MutexHeld, NEW v \in Workers, NEW w \in Workers, Refreshing(v), Refreshing(w),
         Slot(v) = Slot(w)
  PROVE  v = w
BY DEF MutexHeld

LEMMA GuardsDroppedBackoff ==
  ASSUME BackoffRespected, NEW W \in SUBSET Workers, GuardsDropped(W), backoffs' \subseteq backoffs
  PROVE  BackoffRespected'
<1> SUFFICES ASSUME NEW v \in Workers, stage'[v] = "send" PROVE Slot(v)' \notin backoffs
  BY DEF BackoffRespected
<1>1. SameLocals(v)  BY DEF GuardsDropped, HasEnded, Ended
<1> QED BY <1>1 DEF BackoffRespected, SameLocals, Slot

LEMMA SameSlotsBackoff ==
  ASSUME BackoffRespected, backoffs' \subseteq backoffs,
         \A v \in Workers : stage'[v] = "send" => stage[v] = "send" /\ profile'[v] = profile[v]
  PROVE  BackoffRespected'
BY DEF BackoffRespected, Slot

LEMMA SameLocalsMutex ==
  ASSUME Types, MutexInv, \A v \in Workers : SameLocals(v), UNCHANGED refresh_lock,
         backoffs' \subseteq backoffs
  PROVE  MutexInv'
<1>1. MutexHeld'  BY SameSlotsMutex DEF MutexInv, SameLocals, Refreshing
<1>2. BackoffRespected'  BY SameSlotsBackoff DEF MutexInv, SameLocals
<1> QED BY <1>1, <1>2 DEF MutexInv

LEMMA FinishMutex ==
  ASSUME Types, MutexInv, NEW w \in Workers, Finish(w), UNCHANGED backoffs
  PROVE  MutexInv'
<1>1. GuardsDropped({w}) /\ {w} \in SUBSET Workers  BY FinishEffect
<1> QED BY <1>1, GuardsDroppedMutex, GuardsDroppedBackoff DEF MutexInv

\* an action of one worker that is no part of a refresh afterwards, or was as much before
LEMMA OneWorkerMutex ==
  ASSUME Types, MutexInv, NEW w \in Workers, OnlyLocals(w), UNCHANGED refresh_lock,
         backoffs' \subseteq backoffs,
         Refreshing(w)' => Refreshing(w) /\ profile'[w] = profile[w],
         stage'[w] = "send" => stage[w] = "send"
  PROVE  MutexInv'
<1>1. \A v \in Workers : Refreshing(v)' => Refreshing(v) /\ profile'[v] = profile[v]
  BY DEF OnlyLocals, SameLocals, Refreshing
<1>2. \A v \in Workers : stage'[v] = "send" => stage[v] = "send" /\ profile'[v] = profile[v]
  BY <1>1 DEF OnlyLocals, SameLocals, Refreshing
<1> QED BY <1>1, <1>2, SameSlotsMutex, SameSlotsBackoff DEF MutexInv

LEMMA MutexStep ==
  ASSUME Types, MutexInv, NEW w \in Workers, Step(w)
  PROVE  MutexInv'
<1>1. CASE Enter(w)
  BY <1>1, EnterEffect, OneWorkerMutex DEF Refreshing
<1>2. CASE TimeOut(w) \/ LeaveWithError(w) \/ LeaveSaved(w)
  BY <1>2, FinishMutex DEF TimeOut, LeaveWithError, LeaveSaved
<1>3. CASE Commit(w)
  BY <1>3, CommitEffect, OneWorkerMutex DEF Refreshing
<1>4. CASE LeaveLook(w)
  <2>1. CASE Finish(w)  BY <1>4, <2>1, FinishMutex DEF LeaveLook
  <2>2. CASE Leaves(w) /\ stage'[w] = "save" /\ kind[w] = "activate"
    BY <2>2, OneWorkerMutex DEF Leaves, Refreshing
  <2> QED BY <1>4, <2>1, <2>2, LeaveLookEffect
<1>5. CASE LeaveCheck(w)
  <2>1. CASE Finish(w)  BY <1>5, <2>1, FinishMutex DEF LeaveCheck
  <2>2. CASE Leaves(w) /\ stage'[w] = "mutex"
    BY <2>2, OneWorkerMutex DEF Leaves, Refreshing
  <2> QED BY <1>5, <2>1, <2>2, LeaveCheckEffect
<1>6. CASE LockMutex(w)
  <2>1. Slot(w) \in Processes \X Profiles /\ OnlyLocals(w) /\ Slot(w)' = Slot(w)
        /\ refresh_lock' = [refresh_lock EXCEPT ![Slot(w)] = w] /\ refresh_lock[Slot(w)] = None
        /\ UNCHANGED backoffs /\ stage'[w] = "recheck"
    BY <1>6, LockMutexEffect, SlotType DEF Slot
  <2>2. MutexHeld'
    <3> SUFFICES ASSUME NEW v \in Workers, Refreshing(v)' PROVE (refresh_lock[Slot(v)] = v)'
      BY DEF MutexHeld
    <3>1. CASE v = w  BY <2>1, <3>1 DEF Types, OtherTypes
    <3>2. CASE v # w
      <4>1. Refreshing(v) /\ Slot(v)' = Slot(v)
        BY <2>1, <3>2 DEF OnlyLocals, SameLocals, Refreshing, Slot
      <4>2. refresh_lock[Slot(v)] = v /\ v # None  BY <4>1 DEF MutexInv, MutexHeld
      <4>3. Slot(v) \in Processes \X Profiles  BY <4>1, RefreshingHasSlot
      <4> QED BY <2>1, <4>1, <4>2, <4>3 DEF Types, OtherTypes
    <3> QED BY <3>1, <3>2
  <2>3. BackoffRespected'
    <3>1. \A v \in Workers : stage'[v] = "send" => stage[v] = "send" /\ profile'[v] = profile[v]
      BY <2>1 DEF OnlyLocals, SameLocals
    <3> QED BY <2>1, <3>1, SameSlotsBackoff DEF MutexInv
  <2> QED BY <2>2, <2>3 DEF MutexInv
<1>7. CASE LeaveRecheck(w)
  <2>1. CASE Finish(w)  BY <1>7, <2>1, FinishMutex DEF LeaveRecheck
  <2>2. CASE /\ Leaves(w) /\ stage[w] = "recheck" /\ stage'[w] = "send"
             /\ profile'[w] = profile[w] /\ Slot(w) \notin backoffs
    <3>1. \A v \in Workers : Refreshing(v)' => Refreshing(v) /\ profile'[v] = profile[v]
      BY <2>2 DEF Leaves, OnlyLocals, SameLocals, Refreshing
    <3>2. MutexHeld'  BY <2>2, <3>1, SameSlotsMutex DEF Leaves, MutexInv
    <3>3. BackoffRespected'
      BY <2>2 DEF BackoffRespected, MutexInv, Leaves, OnlyLocals, SameLocals, Slot
    <3> QED BY <3>2, <3>3 DEF MutexInv
  <2> QED BY <1>7, <2>1, <2>2, LeaveRecheckEffect
<1> QED BY <1>1, <1>2, <1>3, <1>4, <1>5, <1>6, <1>7 DEF Step

LEMMA MutexFails ==
  ASSUME Types, MutexInv, NEW w \in Workers, NEW gone \in SUBSET Ids, stage[w] = "send",
         Fails(w, gone)
  PROVE  MutexInv'
<1>1. CASE UNCHANGED <<refresh_lock, backoffs>> /\ \A v \in Workers : SameLocals(v)
  BY <1>1, SameLocalsMutex
<1>2. CASE GuardsDropped({w}) /\ backoffs' = backoffs \cup {Slot(w)}
  <2>1. MutexHeld'
    <3>1. {w} \in SUBSET Workers  OBVIOUS
    <3> QED BY <1>2, <3>1, GuardsDroppedMutex DEF MutexInv
  <2>2. ASSUME NEW v \in Workers, stage'[v] = "send" PROVE (Slot(v) \notin backoffs)'
    <3>1. v # w /\ SameLocals(v)  BY <1>2, <2>2 DEF GuardsDropped, HasEnded, Ended
    <3>2. stage[v] = "send" /\ Slot(v)' = Slot(v)  BY <2>2, <3>1 DEF SameLocals, Slot
    <3>3. Slot(v) # Slot(w)
      BY <3>1, <3>2, OneRefreshPerSlot DEF Refreshing, MutexInv
    <3> QED BY <1>2, <3>2, <3>3 DEF MutexInv, BackoffRespected
  <2>3. BackoffRespected'  BY <2>2 DEF BackoffRespected
  <2> QED BY <2>1, <2>3 DEF MutexInv
<1> QED BY <1>1, <1>2, FailsEffect

LEMMA MutexNext == Types /\ MutexInv /\ [Next]_vars => MutexInv'
<1> SUFFICES ASSUME Types, MutexInv, [Next]_vars PROVE MutexInv'  OBVIOUS
<1>1. ASSUME NEW w \in Workers, Start(w) PROVE MutexInv'
  <2>1. PICK k \in Kind, p \in Profiles \cup {None} : StartedAs(w, k, p)
    BY <1>1, StartEffect
  <2>2. stage'[w] # "send" /\ ~Refreshing(w)'
    BY <2>1 DEF StartedAs, Refreshing, Kind
  <2> QED BY <1>1, <2>2, StartEffect, OneWorkerMutex
<1>2. ASSUME NEW w \in Workers, Step(w) PROVE MutexInv'  BY <1>2, MutexStep
<1>3. ASSUME NEW w \in Workers, Exchange(w) PROVE MutexInv'
  <2>1. CASE Answered(w)
    BY <2>1, AnsweredEffect, OneWorkerMutex DEF Refreshing
  <2>2. CASE Refused(w)  BY <2>2, MutexFails DEF Refused
  <2>3. CASE AnswerLost(w)
    <3>1. {refresh_token[w]} \in SUBSET Ids /\ stage[w] = "send"
      BY <2>3 DEF AnswerLost, Types, Locals, LocalsOf, Refreshing
    <3> QED BY <2>3, <3>1, MutexFails DEF AnswerLost
  <2> QED BY <1>3, <2>1, <2>2, <2>3 DEF Exchange
<1>4. ASSUME NEW w \in Workers, Abandon(w) PROVE MutexInv'
  BY <1>4, FinishMutex DEF Abandon
<1>5. ASSUME NEW process \in Processes, Crash(process) PROVE MutexInv'
  <2>1. PICK W \in SUBSET Workers : GuardsDropped(W) /\ backoffs' \subseteq backoffs
    BY <1>5, CrashEffect
  <2> QED BY <2>1, GuardsDroppedMutex, GuardsDroppedBackoff DEF MutexInv
<1>6. CASE Surroundings
  <2>1. backoffs' \subseteq backoffs
    BY <1>6 DEF Surroundings, LateWrite, Expires, BackoffEnds, vars
  <2> QED BY <1>6, <2>1, SurroundingsTypes, SameLocalsMutex
<1> QED BY <1>1, <1>2, <1>3, <1>4, <1>5, <1>6, NextCases

LEMMA InitMutex == Init => MutexInv
BY DEF Init, MutexInv, MutexHeld, BackoffRespected, Refreshing

\* No task asks the provider while the backoff of its process and profile runs, for any
\* number of tasks that wait for one another: the backoff is looked at under the mutex.
\* (get_valid_openai_access_token, set_refresh_backoff)
THEOREM BackoffIsRespected == Spec => []BackoffRespected
<1>1. Init => Types /\ MutexInv  BY InitTypes, InitMutex
<1>2. Types /\ MutexInv /\ [Next]_vars => Types' /\ MutexInv'  BY NextTypes, MutexNext
<1>3. MutexInv => BackoffRespected  BY DEF MutexInv
<1> QED BY <1>1, <1>2, <1>3, PTL DEF Spec

-----------------------------------------------------------------------------
(* The lock file and the store.                                            *)

LockInv == LockHeld /\ NothingLate

LEMMA NobodyElseInside ==
  ASSUME LockHeld, NEW w \in Workers, lock \in {w, None}
  PROVE  \A v \in Workers : v # w => where[v] = "outside" \/ lock = v
BY DEF LockHeld

\* nobody is at the store after the step
LEMMA NobodyInside ==
  ASSUME LockInv, \A v \in Workers : where'[v] = "outside", NothingLate'
  PROVE  LockInv'
BY DEF LockInv, LockHeld

\* operations end, and whoever stays at the store still has the lock file
LEMMA GuardsDroppedLock ==
  ASSUME Types, LockInv, NEW W \in SUBSET Workers, GuardsDropped(W), UNCHANGED <<file, lock, loose>>,
         \A v \in Workers : late'[v] \in {late[v], None}
  PROVE  LockInv'
<1>1. \A v \in Workers : where'[v] # "outside" => SameLocals(v)
  BY DEF GuardsDropped, HasEnded
<1>2. LockHeld'  BY <1>1 DEF LockInv, LockHeld, SameLocals
<1>3. NothingLate'  BY DEF LockInv, NothingLate
<1> QED BY <1>2, <1>3 DEF LockInv

\* the holder of the lock file removes it as it ends
LEMMA HolderEnds ==
  ASSUME Types, LockInv, NEW w \in Workers, where[w] # "outside", GuardsDropped({w}), NothingLate'
  PROVE  LockInv'
<1>1. \A v \in Workers : v # w => where[v] = "outside"
  BY DEF LockInv, LockHeld
<1>2. \A v \in Workers : where'[v] = "outside"
  BY <1>1 DEF GuardsDropped, HasEnded, SameLocals
<1> QED BY <1>2, NobodyInside

\* the holder of the lock file removes it and goes on
LEMMA LeavesLock ==
  ASSUME Types, LockInv, NEW w \in Workers, Leaves(w)
  PROVE  LockInv'
<1>1. \A v \in Workers : v # w => where[v] = "outside"
  BY DEF LockInv, LockHeld, Leaves
<1>2. \A v \in Workers : where'[v] = "outside"
  BY <1>1 DEF Leaves, OnlyLocals, SameLocals
<1>3. NothingLate'  BY DEF Leaves, LockInv, NothingLate
<1> QED BY <1>2, <1>3, NobodyInside

\* an action of one worker that stays on its side of the lock file
LEMMA OneWorkerLock ==
  ASSUME Types, LockInv, NEW w \in Workers, OnlyLocals(w), where'[w] = where[w],
         where[w] = "inside" => data'[w] = data[w],
         UNCHANGED <<file, lock, loose, late>>
  PROVE  LockInv'
BY DEF LockInv, LockHeld, NothingLate, OnlyLocals, SameLocals

LEMMA LockStep ==
  ASSUME Types, LockInv, NEW w \in Workers, Step(w)
  PROVE  LockInv'
<1>1. CASE Enter(w)
  <2>1. /\ OnlyLocals(w) /\ lock = None /\ lock' = w /\ data'[w] = file
        /\ UNCHANGED <<file, late, loose>>
    BY <1>1, EnterEffect
  <2>2. \A v \in Workers : where[v] = "outside"
    BY <2>1 DEF LockInv, LockHeld
  <2>3. \A v \in Workers : v # w => where'[v] = "outside"
    BY <2>1, <2>2 DEF OnlyLocals, SameLocals
  <2> QED BY <2>1, <2>3 DEF LockInv, LockHeld, NothingLate
<1>2. CASE TimeOut(w)
  <2>1. GuardsDropped({w}) /\ {w} \in SUBSET Workers /\ UNCHANGED <<file, lock, late, loose>>
    BY <1>2, FinishEffect DEF TimeOut
  <2> QED BY <2>1, GuardsDroppedLock
<1>3. CASE LeaveWithError(w) \/ LeaveSaved(w)
  <2>1. GuardsDropped({w}) /\ where[w] # "outside" /\ UNCHANGED <<late, loose>>
    BY <1>3, FinishEffect DEF LeaveWithError, LeaveSaved
  <2>2. NothingLate'  BY <2>1 DEF LockInv, NothingLate
  <2> QED BY <2>1, <2>2, HolderEnds
<1>4. CASE Commit(w)
  <2>1. /\ OnlyLocals(w) /\ where[w] = "inside" /\ where'[w] = "leaving"
        /\ UNCHANGED <<lock, late, loose>>
    BY <1>4, CommitEffect
  <2>2. \A v \in Workers : v # w => where'[v] = "outside"
    BY <2>1 DEF LockInv, LockHeld, OnlyLocals, SameLocals
  <2> QED BY <2>1, <2>2 DEF LockInv, LockHeld, NothingLate
<1>5. CASE LeaveLook(w) \/ LeaveCheck(w) \/ LeaveRecheck(w)
  <2>1. CASE Leaves(w)  BY <2>1, LeavesLock
  <2>2. CASE Finish(w)
    <3>1. GuardsDropped({w}) /\ where[w] # "outside" /\ UNCHANGED <<late, loose>>
      BY <1>5, <2>2, FinishEffect DEF LeaveLook, LeaveCheck, LeaveRecheck
    <3>2. NothingLate'  BY <3>1 DEF LockInv, NothingLate
    <3> QED BY <3>1, <3>2, HolderEnds
  <2> QED BY <1>5, <2>1, <2>2, LeaveLookEffect, LeaveCheckEffect, LeaveRecheckEffect
<1>6. CASE LockMutex(w)
  BY <1>6, LockMutexEffect, OneWorkerLock
<1> QED BY <1>1, <1>2, <1>3, <1>4, <1>5, <1>6 DEF Step

LEMMA LockAbandon ==
  ASSUME Types, LockInv, NEW w \in Workers, Abandon(w)
  PROVE  LockInv'
<1>1. GuardsDropped({w}) /\ {w} \in SUBSET Workers /\ file' = file
  BY FinishEffect DEF Abandon
<1>2. CASE lock' = (IF where[w] # "outside" THEN None ELSE lock) /\ UNCHANGED <<late, loose>>
  <2>1. NothingLate'  BY <1>2 DEF LockInv, NothingLate
  <2>2. CASE where[w] # "outside"  BY <1>1, <2>1, <2>2, HolderEnds
  <2>3. CASE where[w] = "outside"  BY <1>1, <1>2, <2>3, GuardsDroppedLock
  <2> QED BY <2>2, <2>3
<1>3. CASE Wants(w) /\ lock = None /\ UNCHANGED <<late, loose>>
  <2>1. \A v \in Workers : where[v] = "outside"  BY <1>3 DEF LockInv, LockHeld
  <2>2. \A v \in Workers : where'[v] = "outside"
    BY <1>1, <2>1 DEF GuardsDropped, HasEnded, SameLocals
  <2>3. NothingLate'  BY <1>3 DEF LockInv, NothingLate
  <2> QED BY <2>2, <2>3, NobodyInside
<1>4. CASE where[w] = "inside" /\ loose' = TRUE
  <2>1. NothingLate'  BY <1>4 DEF NothingLate
  <2> QED BY <1>1, <1>4, <2>1, HolderEnds
<1> QED BY <1>2, <1>3, <1>4 DEF Abandon

LEMMA LockNext == Types /\ LockInv /\ [Next]_vars => LockInv'
<1> SUFFICES ASSUME Types, LockInv, [Next]_vars PROVE LockInv'  OBVIOUS
<1>1. ASSUME NEW w \in Workers, Start(w) PROVE LockInv'
  <2>1. PICK k \in Kind, p \in Profiles \cup {None} : StartedAs(w, k, p)
    BY <1>1, StartEffect
  <2> QED BY <1>1, <2>1, StartEffect, OneWorkerLock DEF StartedAs
<1>2. ASSUME NEW w \in Workers, Step(w) PROVE LockInv'  BY <1>2, LockStep
<1>3. ASSUME NEW w \in Workers, Exchange(w) PROVE LockInv'
  <2>1. CASE Answered(w)
    BY <2>1, AnsweredEffect, OneWorkerLock
  <2>2. ASSUME NEW gone \in SUBSET Ids, stage[w] = "send", Fails(w, gone),
               UNCHANGED <<file, lock, late, loose>>
        PROVE  LockInv'
    <3>1. CASE \A v \in Workers : SameLocals(v)
      BY <2>2, <3>1 DEF LockInv, LockHeld, NothingLate, SameLocals
    <3>2. CASE GuardsDropped({w})
      <4>1. {w} \in SUBSET Workers  OBVIOUS
      <4> QED BY <2>2, <3>2, <4>1, GuardsDroppedLock
    <3> QED BY <2>2, <3>1, <3>2, FailsEffect
  <2>3. CASE Refused(w)  BY <2>2, <2>3 DEF Refused
  <2>4. CASE AnswerLost(w)
    <3>1. {refresh_token[w]} \in SUBSET Ids /\ stage[w] = "send"
      BY <2>4 DEF AnswerLost, Types, Locals, LocalsOf, Refreshing
    <3> QED BY <2>2, <2>4, <3>1 DEF AnswerLost
  <2> QED BY <1>3, <2>1, <2>3, <2>4 DEF Exchange
<1>4. ASSUME NEW w \in Workers, Abandon(w) PROVE LockInv'  BY <1>4, LockAbandon
<1>5. ASSUME NEW process \in Processes, Crash(process) PROVE LockInv'
  BY <1>5, CrashEffect, GuardsDroppedLock
<1>6. CASE Surroundings
  <2>1. UNCHANGED lock /\ \A v \in Workers : SameLocals(v)  BY <1>6, SurroundingsTypes
  <2>2. CASE \E w \in Workers : LateWrite(w)
    <3>1. PICK w \in Workers : LateWrite(w)  BY <2>2
    <3>2. late[w] # None /\ loose' = loose  BY <3>1 DEF LateWrite
    <3>3. loose  BY <3>2 DEF LockInv, NothingLate, Types, OtherTypes
    <3> QED BY <2>1, <3>2, <3>3 DEF LockInv, LockHeld, NothingLate, SameLocals
  <2>3. CASE UNCHANGED <<file, late, loose>>
    BY <2>1, <2>3 DEF LockInv, LockHeld, NothingLate, SameLocals
  <2> QED BY <1>6, <2>2, <2>3 DEF Surroundings, Expires, BackoffEnds, vars
<1> QED BY <1>1, <1>2, <1>3, <1>4, <1>5, <1>6, NextCases

LEMMA InitLock == Init => LockInv
BY DEF Init, LockInv, LockHeld, NothingLate

\* A step changes the store as one operation on what is in it.
ChangesWhole ==
  file' # file /\ ~loose =>
    \E w \in Workers :
      stage[w] = "save" /\ where[w] = "inside" /\ Applies(w, file) /\ file' = Changed(w, file)

LEMMA StepChangesWhole == Types /\ LockInv /\ [Next]_vars => ChangesWhole
<1> SUFFICES ASSUME Types, LockInv, [Next]_vars, file' # file, ~loose
             PROVE  \E w \in Workers : /\ stage[w] = "save" /\ where[w] = "inside"
                                        /\ Applies(w, file) /\ file' = Changed(w, file)
  BY DEF ChangesWhole
<1>1. PICK w \in Workers : Commit(w) \/ LateWrite(w)
  BY DEF Next, Start, Step, Exchange, Abandon, Crash, Expires, BackoffEnds, vars, Enter, TimeOut,
         LeaveSaved, LeaveLook, LeaveCheck, LockMutex, LeaveRecheck, LeaveWithError, Answered,
         Refused, AnswerLost
<1>2. ~LateWrite(w)  BY DEF LateWrite, LockInv, NothingLate
<1>3. data[w] = file /\ stage[w] = "save" /\ where[w] = "inside" /\ Applies(w, data[w])
      /\ file' = Changed(w, data[w])
  BY <1>1, <1>2 DEF Commit, LockInv, LockHeld
<1> QED BY <1>3

\* Until a dropped request leaves a write behind, the store is changed by one operation at
\* a time, applied to what is in it, for any number of processes that are killed anywhere.
\* (acquire_lock, load_locked, save_locked)
THEOREM OperationsAreSerialised == Spec => Serialised
<1>1. Init => Types /\ LockInv  BY InitTypes, InitLock
<1>2. Types /\ LockInv /\ [Next]_vars => Types' /\ LockInv'  BY NextTypes, LockNext
<1>3. Types /\ LockInv /\ [Next]_vars =>
        [file' # file /\ ~loose =>
           \E w \in Workers :
             /\ stage[w] = "save" /\ where[w] = "inside"
             /\ Applies(w, file) /\ file' = Changed(w, file)]_vars
  BY StepChangesWhole DEF ChangesWhole
<1> QED BY <1>1, <1>2, <1>3, PTL DEF Spec, Serialised

-----------------------------------------------------------------------------
(* The refresh tokens.                                                     *)

KnowInv == OneOwner /\ NewIsUnknown /\ SpentOnce

NothingLearnt ==
  /\ \A p \in Profiles, n \in Ids : Knows(p, n)' => Knows(p, n)
  /\ \A n \in Ids : InUse(n)' => InUse(n)
  /\ \A v \in Workers : Holds(v)' => Holds(v) /\ tokens'[v] = tokens[v] /\ kind'[v] = kind[v]

\* a worker is at one profile while it has a refresh token or a token set to save
LEMMA HasProfile ==
  ASSUME Types, NEW w \in Workers, refresh_token[w] # 0 \/ Holds(w)
  PROVE  profile[w] \in Profiles
<1>1. LocalsOf(w) /\ stage[w] \in Stages  BY DEF Types, Locals, WorkTypes
<1> QED BY <1>1 DEF LocalsOf, Stages, Ended, Loading, Holds

LEMMA HeldIsTyped ==
  ASSUME Types, NEW w \in Workers, Holds(w)
  PROVE  tokens[w] \in TokenSet /\ profile[w] \in Profiles /\ tokens[w] # None
<1>1. LocalsOf(w)  BY DEF Types, Locals
<1>2. tokens[w] \in TokenSet /\ profile[w] \in Profiles  BY <1>1 DEF LocalsOf, Holds
<1> QED BY <1>2, <1>1 DEF Holds

\* what is in use has been given out
LEMMA InUseIsIssued ==
  ASSUME Types, OneOwner, SpentOnce, ~loose, NEW n \in Ids, InUse(n)
  PROVE  n <= issued
<1>1. CASE n \in Spent  BY <1>1 DEF Spent, SpentOnce
<1>2. CASE \E p \in Profiles : InStore(file, p, n)  BY <1>2 DEF OneOwner, Knows
<1>3. CASE \E p \in Profiles, w \in Workers : InStore(data[w], p, n)  BY <1>3 DEF OneOwner, Knows
<1>4. CASE \E w \in Workers : refresh_token[w] = n
  <2>1. PICK w \in Workers : refresh_token[w] = n  BY <1>4
  <2>2. profile[w] \in Profiles  BY <2>1, HasProfile DEF Ids
  <2> QED BY <2>1, <2>2 DEF OneOwner, Knows
<1> QED BY <1>1, <1>2, <1>3, <1>4 DEF InUse

\* no new refresh token, none at a new place
LEMMA OwnersKept ==
  ASSUME Types, OneOwner, NewIsUnknown, NothingLearnt, UNCHANGED <<issued, rotates>>,
         ~loose' => ~loose
  PROVE  OneOwner' /\ NewIsUnknown'
<1>1. OneOwner'  BY DEF OneOwner, NothingLearnt
<1>2. NewIsUnknown'
  <2> SUFFICES ASSUME ~loose', NEW w \in Workers, HoldsNew(w)'
               PROVE  (/\ ~InUse(tokens[w].refresh)
                       /\ \A v \in Workers : v # w /\ Holds(v) => tokens[v].refresh # tokens[w].refresh)'
    BY DEF NewIsUnknown
  <2>1. Holds(w) /\ tokens'[w] = tokens[w] /\ kind'[w] = kind[w]  BY DEF NothingLearnt, HoldsNew
  <2>2. HoldsNew(w)  BY <2>1 DEF HoldsNew
  <2>3. tokens[w].refresh \in Ids  BY <2>1, <2>2, HeldIsTyped DEF HoldsNew, TokenSet
  <2>4. ~InUse(tokens[w].refresh)'
    <3>1. ~InUse(tokens[w].refresh)  BY <2>2 DEF NewIsUnknown
    <3> QED BY <2>1, <2>3, <3>1 DEF NothingLearnt
  <2> QED BY <2>1, <2>2, <2>4 DEF NewIsUnknown, NothingLearnt
<1> QED BY <1>1, <1>2

\* no worker comes by a token set from an exchange, and nothing is exchanged
LEMMA SpentKept ==
  ASSUME SpentOnce, UNCHANGED <<issued, rotates, spent>>, ~loose' => ~loose,
         \A v \in Workers : stage'[v] = "save" /\ kind'[v] = "token" =>
           stage[v] = "save" /\ kind[v] = "token" /\ refresh_token'[v] = refresh_token[v]
  PROVE  SpentOnce'
BY DEF SpentOnce

\* the provider makes an exchange
LEMMA SpentGrows ==
  ASSUME Types, OneOwner, SpentOnce, NEW w \in Workers, stage[w] = "send", Valid(w),
         spent' = Exchanged(w), issued' \in {issued, issued + 1}, UNCHANGED <<rotates, loose>>,
         refresh_token'[w] = refresh_token[w] \/ stage'[w] # "save",
         \A v \in Workers : v # w /\ stage'[v] = "save" /\ kind'[v] = "token" =>
           stage[v] = "save" /\ kind[v] = "token" /\ refresh_token'[v] = refresh_token[v]
  PROVE  SpentOnce'
<1> SUFFICES ASSUME ~loose PROVE SpentOnce'  BY DEF SpentOnce
<1>1. LocalsOf(w) /\ issued \in Nat  BY DEF Types, Locals, OtherTypes
<1>2. refresh_token[w] \in Ids  BY <1>1 DEF LocalsOf, Refreshing
<1>3. InUse(refresh_token[w])  BY DEF InUse
<1>4. refresh_token[w] <= issued  BY <1>2, <1>3, InUseIsIssued
<1>5. CASE ~rotates  BY <1>5 DEF SpentOnce, Exchanged
<1>6. CASE rotates
  <2>1. spent' = spent \cup {<<ProcessOf[w], refresh_token[w]>>}  BY <1>6 DEF Exchanged
  <2>2. \A x \in spent : x[2] # refresh_token[w]  BY DEF Valid, Spent
  <2>3. \A x \in spent' : x[2] <= issued'
    <3>1. \A x \in spent : x[2] \in Ids /\ x[2] <= issued  BY DEF SpentOnce, Types, OtherTypes
    <3> QED BY <1>1, <1>2, <1>4, <2>1, <3>1 DEF Ids
  <2>4. \A x, y \in spent' : x[2] = y[2] => x = y  BY <2>1, <2>2 DEF SpentOnce
  <2>5. \A v \in Workers : stage'[v] = "save" /\ kind'[v] = "token"
                             => <<ProcessOf[v], refresh_token'[v]>> \in spent'
    BY <1>6, <2>1 DEF SpentOnce
  <2> QED BY <1>6, <2>3, <2>4, <2>5 DEF SpentOnce
<1> QED BY <1>5, <1>6

\* operations end, or nothing happens but that an exchange is lost
Dropped(W) ==
  /\ \A v \in Workers : IF v \in W THEN HasEnded(v) ELSE SameLocals(v)
  /\ UNCHANGED <<file, issued, rotates>> /\ (~loose' => ~loose)
  /\ lost \cup Forgotten(W) \subseteq lost'

LEMMA DroppedOwners ==
  ASSUME Types, KnowInv, NEW W \in SUBSET Workers, Dropped(W),
         \/ spent' = spent
         \/ \E w \in Workers : /\ stage[w] = "send" /\ Valid(w) /\ spent' = Exchanged(w)
                               /\ loose' = loose
  PROVE  KnowInv'
<1>1. UNCHANGED <<file, issued, rotates>> /\ (~loose' => ~loose)
      /\ \A v \in Workers : IF v \in W THEN HasEnded(v) ELSE SameLocals(v)
  BY DEF Dropped
<1>2. \A p \in Profiles, n \in Ids : Knows(p, n)' => Knows(p, n)
  BY <1>1 DEF HasEnded, SameLocals, Knows, InStore, InTokens
<1>3. \A n \in Ids : InUse(n)' => InUse(n)
  <2> SUFFICES ASSUME NEW n \in Ids, InUse(n)' PROVE InUse(n)  OBVIOUS
  <2>1. CASE n \in Spent'
    <3>1. n \in Spent \/ \E w \in Workers : refresh_token[w] = n
      BY <2>1 DEF Spent, Exchanged
    <3> QED BY <3>1 DEF InUse
  <2>2. CASE n \notin Spent'
    <3>1. CASE (\E p \in Profiles : InStore(file, p, n))'  BY <1>1, <3>1 DEF InUse
    <3>2. CASE (\E p \in Profiles, w \in Workers : InStore(data[w], p, n))'
      BY <1>1, <3>2 DEF InUse, InStore, HasEnded, SameLocals
    <3>3. CASE (\E w \in Workers : refresh_token[w] = n)'
      BY <1>1, <3>3 DEF InUse, HasEnded, SameLocals, Ids
    <3> QED BY <2>2, <3>1, <3>2, <3>3 DEF InUse
  <2> QED BY <2>1, <2>2
<1>4. \A v \in Workers : Holds(v)' => Holds(v) /\ tokens'[v] = tokens[v] /\ kind'[v] = kind[v]
  BY <1>1 DEF HasEnded, SameLocals, Holds, Ended
<1>5. NothingLearnt  BY <1>2, <1>3, <1>4 DEF NothingLearnt
<1>6. \A v \in Workers : stage'[v] = "save" /\ kind'[v] = "token" =>
        stage[v] = "save" /\ kind[v] = "token" /\ refresh_token'[v] = refresh_token[v]
  BY <1>1 DEF HasEnded, SameLocals, Ended
<1>7. SpentOnce'
  <2>1. CASE spent' = spent  BY <1>1, <1>6, <2>1, SpentKept DEF KnowInv
  <2>2. ASSUME NEW w \in Workers, stage[w] = "send", Valid(w), spent' = Exchanged(w), loose' = loose
        PROVE  SpentOnce'
    <3>1. stage'[w] # "save"  BY <1>1, <2>2 DEF HasEnded, SameLocals, Ended
    <3> QED BY <1>1, <1>6, <2>2, <3>1, SpentGrows DEF KnowInv
  <2> QED BY <2>1, <2>2
<1> QED BY <1>1, <1>5, <1>7, OwnersKept DEF KnowInv

\* an action of one worker, with the store as it was, that brings it no refresh token but
\* one of the store as it has loaded it, or loads it
LEMMA OneWorkerOwners ==
  ASSUME Types, KnowInv, NEW w \in Workers, OnlyLocals(w),
         UNCHANGED <<file, issued, rotates, spent, loose>>,
         data'[w] \in {data[w], file, None},
         /\ tokens'[w] = tokens[w]
         /\ profile'[w] = profile[w] \/ tokens[w] = None,
         \/ refresh_token'[w] = 0
         \/ refresh_token'[w] = refresh_token[w] /\ profile'[w] = profile[w]
         \/ profile'[w] \in Profiles /\ InStore(data[w], profile'[w], refresh_token'[w]),
         stage'[w] = "save" =>
           \/ kind'[w] \notin {"token", "login"}
           \/ /\ kind'[w] = kind[w] /\ stage[w] = "save" /\ where[w] # "leaving"
              /\ refresh_token'[w] = refresh_token[w]
  PROVE  KnowInv'
<1>1. \A p \in Profiles, n \in Ids : Knows(p, n)' => Knows(p, n)
  <2> SUFFICES ASSUME NEW p \in Profiles, NEW n \in Ids, Knows(p, n)' PROVE Knows(p, n)  OBVIOUS
  <2>1. CASE InStore(file, p, n)'  BY <2>1 DEF Knows, InStore
  <2>2. CASE (\E v \in Workers : InStore(data[v], p, n))'
    BY <2>2 DEF Knows, InStore, OnlyLocals, SameLocals
  <2>3. ASSUME NEW v \in Workers, (profile[v] = p /\ refresh_token[v] = n)' PROVE Knows(p, n)
    BY <2>3 DEF Knows, OnlyLocals, SameLocals, Ids
  <2>4. ASSUME NEW v \in Workers, (profile[v] = p /\ InTokens(v, n))' PROVE Knows(p, n)
    BY <2>4 DEF Knows, InTokens, OnlyLocals, SameLocals
  <2> QED BY <2>1, <2>2, <2>3, <2>4 DEF Knows
<1>2. \A n \in Ids : InUse(n)' => InUse(n)
  <2> SUFFICES ASSUME NEW n \in Ids, InUse(n)' PROVE InUse(n)  OBVIOUS
  <2>1. CASE (n \in Spent)'  BY <2>1 DEF InUse, Spent
  <2>2. CASE (\E p \in Profiles : InStore(file, p, n))'  BY <2>2 DEF InUse, InStore
  <2>3. CASE (\E p \in Profiles, v \in Workers : InStore(data[v], p, n))'
    BY <2>3 DEF InUse, InStore, OnlyLocals, SameLocals
  <2>4. CASE (\E v \in Workers : refresh_token[v] = n)'
    BY <2>4 DEF InUse, OnlyLocals, SameLocals, Ids
  <2> QED BY <2>1, <2>2, <2>3, <2>4 DEF InUse
<1>3. \A v \in Workers : Holds(v)' => Holds(v) /\ tokens'[v] = tokens[v] /\ kind'[v] = kind[v]
  BY DEF Holds, OnlyLocals, SameLocals
<1>4. NothingLearnt  BY <1>1, <1>2, <1>3 DEF NothingLearnt
<1>5. SpentOnce'
  <2>1. \A v \in Workers : stage'[v] = "save" /\ kind'[v] = "token" =>
          stage[v] = "save" /\ kind[v] = "token" /\ refresh_token'[v] = refresh_token[v]
    BY DEF OnlyLocals, SameLocals
  <2> QED BY <2>1, SpentKept DEF KnowInv
<1> QED BY <1>4, <1>5, OwnersKept DEF KnowInv

LEMMA CommitOwners ==
  ASSUME Types, LockInv, KnowInv, NEW w \in Workers, Commit(w)
  PROVE  KnowInv'
<1>1. /\ OnlyLocals(w) /\ stage[w] = "save" /\ where[w] = "inside" /\ where'[w] = "leaving"
      /\ data'[w] = None /\ file' = Changed(w, data[w])
      /\ stage'[w] = stage[w] /\ kind'[w] = kind[w] /\ profile'[w] = profile[w]
      /\ refresh_token'[w] = refresh_token[w] /\ tokens'[w] = tokens[w]
      /\ UNCHANGED <<issued, rotates, spent, loose>>
  BY CommitEffect
<1>2. data[w] \in Store /\ profile[w] \in Profiles /\ kind[w] \in Kind
  BY <1>1 DEF Types, Locals, LocalsOf
<1>3. \A p \in Profiles, n \in Ids :
        InStore(file', p, n) => \/ InStore(data[w], p, n)
                                \/ p = profile[w] /\ Holds(w) /\ tokens[w].refresh = n
  <2> SUFFICES ASSUME NEW p \in Profiles, NEW n \in Ids, InStore(file', p, n)
               PROVE  \/ InStore(data[w], p, n)
                      \/ p = profile[w] /\ Holds(w) /\ tokens[w].refresh = n
    OBVIOUS
  <2>1. data[w] # None /\ DOMAIN data[w].profiles = Profiles  BY <1>2 DEF Store
  <2>2. CASE kind[w] \in {"token", "login"}
    <3>1. Holds(w)  BY <1>1, <2>2 DEF Holds
    <3>2. file'.profiles = [data[w].profiles EXCEPT ![profile[w]] = tokens[w]]
      BY <1>1, <1>2, <2>2 DEF Changed, Store
    <3> QED BY <1>2, <2>1, <3>1, <3>2 DEF InStore
  <2>3. CASE kind[w] = "remove"
    <3>1. file'.profiles = [data[w].profiles EXCEPT ![profile[w]] = None]
      BY <1>1, <1>2, <2>3 DEF Changed, Store
    <3> QED BY <1>2, <2>1, <3>1 DEF InStore
  <2>4. CASE kind[w] = "activate"
    <3>1. file'.profiles = data[w].profiles  BY <1>1, <1>2, <2>4 DEF Changed, Store
    <3> QED BY <2>1, <3>1 DEF InStore
  <2> QED BY <1>2, <2>2, <2>3, <2>4 DEF Kind
<1>4. \A v \in Workers : Holds(v)' => v # w /\ SameLocals(v) /\ Holds(v)
  BY <1>1 DEF Holds, OnlyLocals, SameLocals
<1>5. OneOwner'
  <2>1. \A p \in Profiles, n \in Ids : Knows(p, n)' => Knows(p, n)
    <3> SUFFICES ASSUME NEW p \in Profiles, NEW n \in Ids, Knows(p, n)' PROVE Knows(p, n)  OBVIOUS
    <3>1. CASE InStore(file, p, n)'
      <4>1. CASE InStore(data[w], p, n)  BY <4>1 DEF Knows
      <4>2. CASE p = profile[w] /\ Holds(w) /\ tokens[w].refresh = n
        BY <4>2, HeldIsTyped DEF Knows, InTokens
      <4> QED BY <1>3, <3>1, <4>1, <4>2 DEF InStore
    <3>2. CASE (\E v \in Workers : InStore(data[v], p, n))'
      BY <1>1, <3>2 DEF Knows, InStore, OnlyLocals, SameLocals
    <3>3. CASE (\E v \in Workers : profile[v] = p /\ (refresh_token[v] = n \/ InTokens(v, n)))'
      BY <1>1, <3>3 DEF Knows, InTokens, OnlyLocals, SameLocals
    <3> QED BY <3>1, <3>2, <3>3 DEF Knows
  <2> QED BY <1>1, <2>1 DEF OneOwner, KnowInv
<1>6. NewIsUnknown'
  <2> SUFFICES ASSUME ~loose, NEW v \in Workers, HoldsNew(v)'
               PROVE  (/\ ~InUse(tokens[v].refresh)
                       /\ \A u \in Workers : u # v /\ Holds(u) => tokens[u].refresh # tokens[v].refresh)'
    BY <1>1 DEF NewIsUnknown
  <2>1. Holds(v) /\ v # w /\ SameLocals(v)  BY <1>4 DEF HoldsNew
  <2>2. HoldsNew(v)  BY <1>1, <2>1 DEF HoldsNew, SameLocals
  <2>3. tokens[v].refresh \in Ids  BY <2>1, <2>2, HeldIsTyped DEF HoldsNew, TokenSet
  <2>4. ~InUse(tokens[v].refresh)
        /\ \A u \in Workers : u # v /\ Holds(u) => tokens[u].refresh # tokens[v].refresh
    BY <2>2 DEF NewIsUnknown, KnowInv
  <2>5. ~InUse(tokens[v].refresh)'
    <3> DEFINE n == tokens[v].refresh
    <3>1. tokens'[v].refresh = n /\ n \in Ids /\ ~InUse(n)  BY <2>1, <2>3, <2>4 DEF SameLocals
    <3>2. \A u \in Workers : u # v /\ Holds(u) => tokens[u].refresh # n  BY <2>4
    <3> HIDE DEF n
    <3>3. n \notin Spent'  BY <1>1, <3>1 DEF InUse, Spent
    <3>4. ~\E p \in Profiles : InStore(file', p, n)  BY <1>3, <2>1, <3>1, <3>2 DEF InUse
    <3>5. ~\E p \in Profiles, u \in Workers : InStore(data'[u], p, n)
      BY <1>1, <3>1 DEF InUse, InStore, OnlyLocals, SameLocals
    <3>6. ~\E u \in Workers : refresh_token'[u] = n
      BY <1>1, <3>1 DEF InUse, OnlyLocals, SameLocals
    <3> QED BY <3>1, <3>3, <3>4, <3>5, <3>6 DEF InUse, InStore
  <2> QED BY <1>4, <2>1, <2>4, <2>5 DEF SameLocals
<1>7. SpentOnce'
  <2>1. \A v \in Workers : stage'[v] = "save" /\ kind'[v] = "token" =>
          stage[v] = "save" /\ kind[v] = "token" /\ refresh_token'[v] = refresh_token[v]
    BY <1>1 DEF OnlyLocals, SameLocals
  <2> QED BY <1>1, <2>1, SpentKept DEF KnowInv
<1> QED BY <1>5, <1>6, <1>7 DEF KnowInv

\* A token set the provider has just given out: nobody has it, and nobody else gets it.
LEMMA NewTokens ==
  ASSUME Types, KnowInv, NEW w \in Workers, OnlyLocals(w), ~Holds(w),
         issued' = issued + 1, issued + 1 \in Ids, UNCHANGED <<file, rotates, loose>>,
         data'[w] \in {data[w], None},
         refresh_token'[w] \in {0, refresh_token[w]},
         refresh_token'[w] = 0 \/ profile'[w] = profile[w],
         spent' = spent \/ (spent' = Exchanged(w)),
         \/ tokens'[w].refresh \in {0, issued + 1}
         \/ /\ ~rotates /\ kind'[w] = "token"
            /\ profile'[w] = profile[w] /\ profile[w] \in Profiles
            /\ InStore(data[w], profile[w], tokens'[w].refresh)
  PROVE  OneOwner' /\ NewIsUnknown'
<1>1. issued \in Nat
  BY DEF Types, OtherTypes
<1>2. \A p \in Profiles, n \in Ids :
        Knows(p, n)' => Knows(p, n) \/ (p = profile'[w] /\ n = issued + 1)
  <2> SUFFICES ASSUME NEW p \in Profiles, NEW n \in Ids, Knows(p, n)'
               PROVE  Knows(p, n) \/ (p = profile'[w] /\ n = issued + 1)
    OBVIOUS
  <2>1. CASE InStore(file, p, n)'  BY <2>1 DEF Knows, InStore
  <2>2. CASE (\E v \in Workers : InStore(data[v], p, n))'
    BY <2>2 DEF Knows, InStore, OnlyLocals, SameLocals
  <2>3. ASSUME NEW v \in Workers, (profile[v] = p /\ refresh_token[v] = n)' PROVE Knows(p, n)
    BY <2>3 DEF Knows, OnlyLocals, SameLocals, Ids
  <2>4. ASSUME NEW v \in Workers, (profile[v] = p /\ InTokens(v, n))', v # w PROVE Knows(p, n)
    BY <2>4 DEF Knows, InTokens, OnlyLocals, SameLocals
  <2>5. ASSUME (profile[w] = p /\ InTokens(w, n))'
        PROVE  Knows(p, n) \/ (p = profile'[w] /\ n = issued + 1)
    BY <2>5 DEF Knows, InTokens, Ids
  <2> QED BY <2>1, <2>2, <2>3, <2>4, <2>5 DEF Knows
<1>3. OneOwner'
  <2> SUFFICES ASSUME ~loose, NEW n \in Ids
               PROVE  (/\ \A p \in Profiles : Knows(p, n) => n <= issued
                       /\ \A p, q \in Profiles : Knows(p, n) /\ Knows(q, n) => p = q)'
    BY DEF OneOwner
  <2>1. \A p \in Profiles : Knows(p, n) => n <= issued  BY DEF KnowInv, OneOwner
  <2>2. \A p, q \in Profiles : Knows(p, n) /\ Knows(q, n) => p = q  BY DEF KnowInv, OneOwner
  <2>3. \A p \in Profiles : Knows(p, n)' => n <= issued'  BY <1>1, <1>2, <2>1 DEF Ids
  <2>4. CASE n = issued + 1
    BY <1>1, <1>2, <2>1, <2>3, <2>4
  <2>5. CASE n # issued + 1  BY <1>2, <2>2, <2>3, <2>5
  <2> QED BY <2>4, <2>5
<1>4. \A n \in Ids : InUse(n)' => InUse(n)
  <2> SUFFICES ASSUME NEW n \in Ids, InUse(n)' PROVE InUse(n)  OBVIOUS
  <2>1. CASE n \in Spent'
    <3>1. n \in Spent \/ refresh_token[w] = n  BY <2>1 DEF Spent, Exchanged
    <3> QED BY <3>1 DEF InUse
  <2>2. CASE (\E p \in Profiles : InStore(file, p, n))'  BY <2>2 DEF InUse, InStore
  <2>3. CASE (\E p \in Profiles, v \in Workers : InStore(data[v], p, n))'
    BY <2>3 DEF InUse, InStore, OnlyLocals, SameLocals
  <2>4. CASE (\E v \in Workers : refresh_token[v] = n)'
    BY <2>4 DEF InUse, OnlyLocals, SameLocals, Ids
  <2> QED BY <2>1, <2>2, <2>3, <2>4 DEF InUse
<1>5. NewIsUnknown'
  <2> SUFFICES ASSUME ~loose, NEW v \in Workers, HoldsNew(v)'
               PROVE  (/\ ~InUse(tokens[v].refresh)
                       /\ \A u \in Workers : u # v /\ Holds(u) => tokens[u].refresh # tokens[v].refresh)'
    BY DEF NewIsUnknown
  <2>1. \A u \in Workers : u # w =>
          /\ Holds(u)' <=> Holds(u)
          /\ HoldsNew(u)' <=> HoldsNew(u)
          /\ tokens'[u] = tokens[u]
    BY DEF OnlyLocals, SameLocals, Holds, HoldsNew
  <2>2. \A u \in Workers : Holds(u) /\ tokens[u].refresh \in Ids =>
          tokens[u].refresh <= issued
    <3> SUFFICES ASSUME NEW u \in Workers, Holds(u), tokens[u].refresh \in Ids
                 PROVE  tokens[u].refresh <= issued
      OBVIOUS
    <3>1. Knows(profile[u], tokens[u].refresh) /\ profile[u] \in Profiles
      BY HeldIsTyped DEF Knows, InTokens
    <3> QED BY <3>1 DEF KnowInv, OneOwner
  <2>3. CASE v = w
    <3>1. tokens'[w].refresh = issued + 1  BY <2>3 DEF HoldsNew
    <3>2. PICK n \in Ids : n = issued + 1  OBVIOUS
    <3>3. ~InUse(n)'  BY <1>1, <1>4, <3>2, InUseIsIssued DEF KnowInv
    <3>4. ~InUse(tokens[w].refresh)'  BY <3>1, <3>2, <3>3 DEF InUse, InStore
    <3>5. ASSUME NEW u \in Workers, u # w, Holds(u)' PROVE tokens'[u].refresh # issued + 1
      <4>1. Holds(u) /\ tokens'[u] = tokens[u]  BY <2>1, <3>5
      <4>2. tokens[u].refresh \in Ids => tokens[u].refresh <= issued  BY <2>2, <4>1
      <4> QED BY <1>1, <4>1, <4>2
    <3> QED BY <2>3, <3>1, <3>4, <3>5
  <2>4. CASE v # w
    <3>1. HoldsNew(v) /\ tokens'[v] = tokens[v]  BY <2>1, <2>4
    <3>2. tokens[v].refresh \in Ids
      BY <3>1, HeldIsTyped DEF HoldsNew, TokenSet
    <3>3. ~InUse(tokens[v].refresh)
          /\ \A u \in Workers : u # v /\ Holds(u) => tokens[u].refresh # tokens[v].refresh
      BY <3>1 DEF NewIsUnknown, KnowInv
    <3>4. ~InUse(tokens[v].refresh)'
      <4>1. PICK n \in Ids : n = tokens[v].refresh  BY <3>2
      <4>2. ~InUse(n)'  BY <1>4, <3>3, <4>1
      <4> QED BY <3>1, <4>1, <4>2 DEF InUse, InStore
    <3>5. tokens'[w].refresh # tokens[v].refresh
      <4>1. CASE tokens'[w].refresh \in {0, issued + 1}
        <5>1. tokens[v].refresh <= issued  BY <2>2, <3>1, <3>2 DEF HoldsNew
        <5> QED BY <1>1, <3>2, <4>1, <5>1 DEF Ids
      <4>2. CASE InStore(data[w], profile[w], tokens'[w].refresh) /\ profile[w] \in Profiles
        BY <3>3, <4>2 DEF InUse
      <4> QED BY <4>1, <4>2
    <3>6. ASSUME NEW u \in Workers, u # v, Holds(u)' PROVE tokens'[u].refresh # tokens[v].refresh
      <4>1. CASE u = w  BY <3>5, <4>1
      <4>2. CASE u # w  BY <2>1, <3>3, <3>6, <4>2
      <4> QED BY <4>1, <4>2
    <3> QED BY <3>1, <3>4, <3>6
  <2> QED BY <2>3, <2>4
<1> QED BY <1>3, <1>5

LEMMA StartOwners ==
  ASSUME Types, KnowInv, NEW w \in Workers, Start(w)
  PROVE  KnowInv'
<1>1. PICK k \in Kind, p \in Profiles \cup {None} : StartedAs(w, k, p)
  BY StartEffect
<1>2. OnlyLocals(w) /\ UNCHANGED <<file, rotates, spent, loose>> /\ stage[w] = "idle"
  BY StartEffect DEF Start
<1>3. refresh_token[w] = 0 /\ tokens[w] = None
  BY <1>2 DEF Types, Locals, LocalsOf
<1>4. CASE k = "login"
  <2>1. /\ issued' = issued + 1 /\ issued + 1 \in Ids /\ tokens'[w].refresh \in {0, issued + 1}
        /\ data'[w] = data[w] /\ refresh_token'[w] = 0 /\ kind'[w] = "login"
    BY <1>1, <1>4 DEF StartedAs, Fresh
  <2>2. OneOwner' /\ NewIsUnknown'  BY <1>2, <2>1, NewTokens DEF Holds
  <2>3. \A v \in Workers : stage'[v] = "save" /\ kind'[v] = "token" =>
          stage[v] = "save" /\ kind[v] = "token" /\ refresh_token'[v] = refresh_token[v]
    BY <1>2, <2>1 DEF OnlyLocals, SameLocals
  <2>4. SpentOnce'
    BY <1>2, <2>1, <2>3 DEF SpentOnce, KnowInv, Types, OtherTypes, Ids
  <2> QED BY <2>2, <2>4 DEF KnowInv
<1>5. CASE k # "login"
  <2>1. /\ issued' = issued /\ tokens'[w] = None /\ data'[w] = data[w] /\ refresh_token'[w] = 0
        /\ stage'[w] = "save" => kind'[w] \notin {"token", "login"}
    BY <1>1, <1>5 DEF StartedAs, Kind
  <2> QED BY <1>2, <1>3, <2>1, OneWorkerOwners
<1> QED BY <1>4, <1>5

LEMMA AnsweredOwners ==
  ASSUME Types, KnowInv, NEW w \in Workers, Answered(w)
  PROVE  KnowInv'
<1>1. /\ OnlyLocals(w) /\ stage[w] = "send" /\ stage'[w] = "save" /\ kind[w] = "token"
      /\ data'[w] = None /\ tokens'[w] = Answer(w)
      /\ issued' = issued + 1 /\ spent' = Exchanged(w) /\ Valid(w)
      /\ kind'[w] = kind[w] /\ profile'[w] = profile[w]
      /\ refresh_token'[w] = refresh_token[w]
      /\ UNCHANGED <<file, rotates, loose>> /\ issued + 1 \in Ids
  BY AnsweredEffect, AnswerType
<1>2. data[w] \in Store /\ Present(data[w], profile[w]) /\ profile[w] \in Profiles
  BY <1>1 DEF Types, Locals, LocalsOf
<1>3. \/ tokens'[w].refresh = issued + 1
      \/ ~rotates /\ InStore(data[w], profile[w], tokens'[w].refresh)
  BY <1>1, <1>2 DEF Answer, Fresh, InStore, Present
<1>4. OneOwner' /\ NewIsUnknown'  BY <1>1, <1>2, <1>3, NewTokens DEF Holds
<1>5. SpentOnce'  BY <1>1, SpentGrows DEF KnowInv, OnlyLocals, SameLocals
<1> QED BY <1>4, <1>5 DEF KnowInv

\* the steps that bring a worker something, and the others
Moves ==
  \/ \E w \in Workers : Start(w) \/ Enter(w) \/ Commit(w) \/ LockMutex(w) \/ Answered(w)
  \/ \E w \in Workers : (LeaveLook(w) \/ LeaveCheck(w) \/ LeaveRecheck(w)) /\ ~Finish(w)
  \/ \E w \in Workers : LateWrite(w)
Drops == \E W \in SUBSET Workers : Dropped(W) /\ spent' = spent
Loses == \E w \in Workers : \E W \in SUBSET {w} : AnswerLost(w) /\ Dropped(W)

LEMMA MovesOrDrops ==
  ASSUME Types, [Next]_vars
  PROVE  Moves \/ Drops \/ Loses
<1>1. ASSUME NEW w \in Workers, Finish(w), UNCHANGED <<file, provider>>, ~loose' => ~loose
      PROVE  Dropped({w}) /\ spent' = spent /\ {w} \in SUBSET Workers
  BY <1>1, FinishEffect DEF Dropped, GuardsDropped, provider
<1>2. ASSUME NEW w \in Workers, Step(w)
      PROVE  \/ Enter(w) \/ Commit(w) \/ LockMutex(w)
             \/ (LeaveLook(w) \/ LeaveCheck(w) \/ LeaveRecheck(w)) /\ ~Finish(w)
             \/ Dropped({w}) /\ spent' = spent
  <2>1. CASE TimeOut(w) \/ LeaveSaved(w) \/ LeaveWithError(w)
    BY <1>1, <2>1 DEF TimeOut, LeaveSaved, LeaveWithError
  <2>2. CASE (LeaveLook(w) \/ LeaveCheck(w) \/ LeaveRecheck(w)) /\ Finish(w)
    BY <1>1, <2>2 DEF LeaveLook, LeaveCheck, LeaveRecheck
  <2> QED BY <1>2, <2>1, <2>2 DEF Step
<1>3. ASSUME NEW w \in Workers, NEW gone \in SUBSET Ids, stage[w] = "send", Fails(w, gone),
             UNCHANGED <<file, issued, rotates, loose>>
      PROVE  \E W \in SUBSET {w} : Dropped(W)
  <2>1. CASE \A v \in Workers : SameLocals(v)
    <3>1. Forgotten({}) = {}  BY DEF Forgotten
    <3>2. Dropped({})  BY <1>3, <2>1, <3>1, FailsEffect DEF Dropped
    <3> QED BY <3>2
  <2>2. CASE GuardsDropped({w})
    <3>1. Forgotten({w}) = {}  BY <1>3 DEF Forgotten
    <3>2. Dropped({w})  BY <1>3, <2>2, <3>1, FailsEffect DEF Dropped, GuardsDropped
    <3> QED BY <3>2
  <2> QED BY <1>3, <2>1, <2>2, FailsEffect
<1>4. ASSUME NEW w \in Workers, Exchange(w)
      PROVE  \/ Answered(w)
             \/ \E W \in SUBSET {w} : Dropped(W) /\ (spent' = spent \/ AnswerLost(w))
  <2>1. CASE Refused(w)
    BY <1>3, <2>1 DEF Refused, provider
  <2>2. CASE AnswerLost(w)
    <3>1. {refresh_token[w]} \in SUBSET Ids /\ stage[w] = "send"
      BY <2>2 DEF AnswerLost, Types, Locals, LocalsOf, Refreshing
    <3> QED BY <1>3, <2>2, <3>1 DEF AnswerLost
  <2> QED BY <1>4, <2>1, <2>2 DEF Exchange
<1>5. ASSUME NEW w \in Workers, Abandon(w)
      PROVE  Dropped({w}) /\ spent' = spent /\ {w} \in SUBSET Workers
  <2>1. Finish(w) /\ UNCHANGED <<file, provider>> /\ (~loose' => ~loose)
    BY <1>5 DEF Abandon
  <2> QED BY <1>1, <2>1
<1>6. ASSUME NEW process \in Processes, Crash(process)
      PROVE  \E W \in SUBSET Workers : Dropped(W) /\ spent' = spent
  BY <1>6, CrashEffect DEF Dropped, GuardsDropped
<1>7. ASSUME Surroundings
      PROVE  (\E w \in Workers : LateWrite(w)) \/ (Dropped({}) /\ spent' = spent)
  <2>1. CASE \E w \in Workers : LateWrite(w)  BY <2>1
  <2>2. CASE UNCHANGED <<file, issued, rotates, loose>>
    <3>1. Forgotten({}) = {}  BY DEF Forgotten
    <3>2. Dropped({}) /\ spent' = spent
      BY <1>7, <2>2, <3>1, SurroundingsTypes DEF Dropped
    <3> QED BY <3>2
  <2> QED BY <1>7, <2>1, <2>2 DEF Surroundings, Expires, BackoffEnds, vars, provider
<1>8. ASSUME NEW w \in Workers, Start(w) \/ Step(w) PROVE Moves \/ Drops
  <2>1. {w} \in SUBSET Workers  OBVIOUS
  <2> QED BY <1>2, <1>8, <2>1 DEF Moves, Drops
<1>9. ASSUME NEW w \in Workers, Exchange(w) PROVE Moves \/ Drops \/ Loses
  BY <1>4, <1>9 DEF Moves, Drops, Loses
<1>10. ASSUME NEW w \in Workers, Abandon(w) PROVE Drops  BY <1>5, <1>10 DEF Drops
<1>11. ASSUME NEW process \in Processes, Crash(process) PROVE Drops  BY <1>6, <1>11 DEF Drops
<1>12. CASE Surroundings
  <2>1. {} \in SUBSET Workers  OBVIOUS
  <2> QED BY <1>7, <1>12, <2>1 DEF Moves, Drops
<1> QED BY <1>8, <1>9, <1>10, <1>11, <1>12, NextCases

LEMMA KnowNext ==
  ASSUME Types, LockInv, KnowInv, [Next]_vars
  PROVE  KnowInv'
<1>1. ASSUME NEW w \in Workers, Enter(w) \/ LockMutex(w) PROVE KnowInv'
  <2>1. /\ OnlyLocals(w) /\ data'[w] \in {data[w], file} /\ tokens'[w] = tokens[w]
        /\ profile'[w] = profile[w] /\ refresh_token'[w] = refresh_token[w]
        /\ kind'[w] = kind[w] /\ UNCHANGED <<file, issued, rotates, spent, loose>>
    BY <1>1, EnterEffect, LockMutexEffect
  <2>2. stage'[w] = "save" => stage[w] = "save" /\ where[w] # "leaving"
    BY <1>1, EnterEffect, LockMutexEffect
  <2> QED BY <2>1, <2>2, OneWorkerOwners
<1>2. ASSUME NEW w \in Workers, LeaveLook(w) \/ LeaveCheck(w) \/ LeaveRecheck(w), ~Finish(w)
      PROVE  KnowInv'
  <2>1. LocalsOf(w)  BY DEF Types, Locals
  <2>2. Leaves(w)  BY <1>2, LeaveLookEffect, LeaveCheckEffect, LeaveRecheckEffect
  <2>3. /\ OnlyLocals(w) /\ tokens'[w] = tokens[w] /\ kind'[w] = kind[w] /\ tokens[w] = None
        /\ UNCHANGED <<file, issued, rotates, spent, loose>>
    BY <2>1, <2>2 DEF Leaves, LocalsOf
  <2>4. CASE LeaveLook(w)
    <3>1. /\ kind[w] = "activate" /\ data'[w] = None /\ profile'[w] = profile[w]
          /\ refresh_token'[w] = refresh_token[w]
      BY <1>2, <2>4, LeaveLookEffect
    <3> QED BY <2>3, <3>1, OneWorkerOwners
  <2>5. CASE LeaveCheck(w)
    <3>1. /\ stage'[w] = "mutex" /\ data'[w] = None /\ profile'[w] \in Profiles
          /\ Present(data[w], profile'[w])
          /\ refresh_token'[w] = data[w].profiles[profile'[w]].refresh
      BY <1>2, <2>5, LeaveCheckEffect
    <3>2. data[w] \in Store  BY <2>1, <2>2 DEF Leaves, LocalsOf
    <3>3. InStore(data[w], profile'[w], refresh_token'[w])
      BY <3>1, <3>2 DEF InStore, Present
    <3> QED BY <2>3, <3>1, <3>3, OneWorkerOwners
  <2>6. CASE LeaveRecheck(w)
    <3>1. /\ stage'[w] = "send" /\ data'[w] = data[w] /\ profile'[w] = profile[w]
          /\ data[w] \in Store /\ profile[w] \in Profiles
          /\ data[w].profiles[profile[w]] \in TokenSet
          /\ refresh_token'[w] \in {data[w].profiles[profile[w]].refresh, refresh_token[w]}
      BY <1>2, <2>6, LeaveRecheckEffect
    <3>2. \/ refresh_token'[w] = refresh_token[w]
          \/ InStore(data[w], profile'[w], refresh_token'[w])
      BY <3>1 DEF InStore
    <3> QED BY <2>3, <3>1, <3>2, OneWorkerOwners
  <2> QED BY <1>2, <2>4, <2>5, <2>6
<1>3. ASSUME NEW w \in Workers, LateWrite(w) PROVE KnowInv'
  <2>1. loose /\ loose' = loose
    BY <1>3 DEF LateWrite, LockInv, NothingLate, Types, OtherTypes
  <2> QED BY <2>1 DEF KnowInv, OneOwner, NewIsUnknown, SpentOnce
<1>4. CASE Moves
  BY <1>1, <1>2, <1>3, <1>4, StartOwners, CommitOwners, AnsweredOwners DEF Moves
<1>5. CASE Drops  BY <1>5, DroppedOwners DEF Drops
<1>6. CASE Loses
  <2>1. PICK w \in Workers, W \in SUBSET Workers : AnswerLost(w) /\ Dropped(W)
    BY <1>6 DEF Loses
  <2>2. stage[w] = "send" /\ Valid(w) /\ spent' = Exchanged(w) /\ loose' = loose
    BY <2>1 DEF AnswerLost
  <2> QED BY <2>1, <2>2, DroppedOwners
<1> QED BY <1>4, <1>5, <1>6, MovesOrDrops

LEMMA InitKnow == Init => KnowInv
<1> SUFFICES ASSUME Init PROVE KnowInv  OBVIOUS
<1>1. Types /\ LockInv  BY InitTypes, InitLock
<1>2. PICK present \in SUBSET Profiles, number \in [Profiles -> Ids] :
        /\ \A p, q \in present : number[p] = number[q] => p = q
        /\ {number[p] : p \in present} = 1..Cardinality(present)
        /\ issued = Cardinality(present)
        /\ file = [profiles |-> [p \in Profiles |->
                                  IF p \in present THEN Fresh(number[p], number[p]) ELSE None],
                   active |-> None]
  BY DEF Init
<1>3. \A w \in Workers : stage[w] = "idle" /\ data[w] = None /\ tokens[w] = None
                         /\ refresh_token[w] = 0
  BY DEF Init
<1>4. spent = {}  BY DEF Init
<1>5. \A p \in Profiles, n \in Ids : Knows(p, n) => p \in present /\ n = number[p]
  BY <1>2, <1>3 DEF Knows, InStore, InTokens, Fresh, Ids
<1>6. OneOwner
  <2>1. \A p \in present : number[p] <= issued  BY <1>2, <1>1 DEF Types, OtherTypes
  <2> QED BY <1>2, <1>5, <2>1 DEF OneOwner
<1>7. NewIsUnknown /\ SpentOnce
  BY <1>3, <1>4 DEF NewIsUnknown, HoldsNew, Holds, SpentOnce
<1> QED BY <1>6, <1>7 DEF KnowInv

-----------------------------------------------------------------------------
(* The stored tokens, and the refreshes.                                   *)

Saver(w, p, n) ==
  /\ stage[w] = "save" /\ kind[w] = "token" /\ where[w] # "leaving"
  /\ profile[w] = p /\ refresh_token[w] = n

Live == StoredTokenIsLive /\ NoDuplicateRefresh

LEMMA Saving ==
  ASSUME StoredTokenIsLive, ~loose, NEW p \in Profiles, NEW n,
         file.profiles[p] # None, file.profiles[p].refresh = n, n \in Spent, n \notin lost
  PROVE  \E w \in Workers : Saver(w, p, n)
BY DEF StoredTokenIsLive, Saver

LEMMA DroppedLive ==
  ASSUME Types, KnowInv, Live, NEW W \in SUBSET Workers, Dropped(W),
         \A x \in spent' : x \in spent \/ x[2] \in lost'
  PROVE  Live'
<1>1. UNCHANGED <<file, rotates>> /\ (~loose' => ~loose) /\ lost \subseteq lost'
      /\ \A v \in Workers : IF v \in W THEN HasEnded(v) ELSE SameLocals(v)
  BY DEF Dropped
<1>2. StoredTokenIsLive'
  <2> SUFFICES ASSUME ~loose', NEW p \in Profiles, file'.profiles[p] # None,
                      file'.profiles[p].refresh \in Spent' \ lost'
               PROVE  \E w \in Workers : Saver(w, p, file.profiles[p].refresh)'
    BY DEF StoredTokenIsLive, Saver
  <2>1. PICK n : n = file.profiles[p].refresh  OBVIOUS
  <2>2. n \in Spent /\ n \notin lost /\ n \notin lost'  BY <1>1, <2>1 DEF Spent
  <2>3. PICK w \in Workers : Saver(w, p, n)  BY <1>1, <2>1, <2>2, Saving DEF Live
  <2>4. w \notin W
    <3>1. rotates  BY <1>1, <2>2 DEF KnowInv, SpentOnce, Spent
    <3>2. w \in W => n \in Forgotten(W)  BY <2>3, <3>1 DEF Saver, Forgotten
    <3> QED BY <2>2, <3>2 DEF Dropped
  <2> QED BY <1>1, <2>1, <2>3, <2>4 DEF Saver, SameLocals
<1>3. NoDuplicateRefresh'
  <2> SUFFICES ASSUME ~loose', NEW w \in Workers, stage'[w] = "send", refresh_token'[w] \notin lost',
                      data'[w].profiles[profile'[w]].refresh # 0
               PROVE  <<ProcessOf[w], refresh_token'[w]>> \notin spent'
    BY DEF NoDuplicateRefresh
  <2>1. SameLocals(w)  BY <1>1 DEF HasEnded, Ended
  <2> QED BY <1>1, <2>1 DEF Live, NoDuplicateRefresh, SameLocals
<1> QED BY <1>2, <1>3 DEF Live

\* an action of one worker that had nothing to save, with the store as it was
LEMMA OneWorkerSaved ==
  ASSUME StoredTokenIsLive, NEW w \in Workers, OnlyLocals(w),
         UNCHANGED <<file, spent, lost, loose>>,
         \/ stage[w] # "save"
         \/ /\ stage'[w] = stage[w] /\ kind'[w] = kind[w] /\ where'[w] # "leaving"
            /\ profile'[w] = profile[w] /\ refresh_token'[w] = refresh_token[w]
  PROVE  StoredTokenIsLive'
<1> SUFFICES ASSUME ~loose, NEW p \in Profiles, file.profiles[p] # None,
                    file.profiles[p].refresh \in Spent \ lost
             PROVE  \E v \in Workers : Saver(v, p, file.profiles[p].refresh)'
  BY DEF StoredTokenIsLive, Saver, Spent
<1>1. PICK v \in Workers : Saver(v, p, file.profiles[p].refresh)  BY Saving
<1> QED BY <1>1 DEF Saver, OnlyLocals, SameLocals

LEMMA OneWorkerLive ==
  ASSUME Live, NEW w \in Workers, OnlyLocals(w), UNCHANGED <<file, spent, lost, loose>>,
         stage'[w] # "send",
         \/ stage[w] # "save"
         \/ /\ stage'[w] = stage[w] /\ kind'[w] = kind[w] /\ where'[w] # "leaving"
            /\ profile'[w] = profile[w] /\ refresh_token'[w] = refresh_token[w]
  PROVE  Live'
<1>1. NoDuplicateRefresh'  BY DEF Live, NoDuplicateRefresh, OnlyLocals, SameLocals
<1> QED BY <1>1, OneWorkerSaved DEF Live

LEMMA CommitLive ==
  ASSUME Types, LockInv, KnowInv, Live, NEW w \in Workers, Commit(w)
  PROVE  Live'
<1>1. /\ OnlyLocals(w) /\ stage[w] = "save" /\ where[w] = "inside" /\ stage'[w] = stage[w]
      /\ file' = Changed(w, data[w]) /\ UNCHANGED <<spent, lost, loose>>
  BY CommitEffect
<1>2. data[w] \in Store /\ profile[w] \in Profiles /\ kind[w] \in Kind
  BY <1>1 DEF Types, Locals, LocalsOf
<1>3. NoDuplicateRefresh'  BY <1>1 DEF Live, NoDuplicateRefresh, OnlyLocals, SameLocals
<1>4. StoredTokenIsLive'
  <2> SUFFICES ASSUME ~loose, NEW p \in Profiles, file'.profiles[p] # None,
                      file'.profiles[p].refresh \in Spent \ lost
               PROVE  \E v \in Workers : Saver(v, p, file.profiles[p].refresh)'
    BY <1>1 DEF StoredTokenIsLive, Saver, Spent
  <2>1. data[w] = file  BY <1>1 DEF LockInv, LockHeld
  <2>2. kind[w] \in {"token", "login"} => p # profile[w]
    <3> SUFFICES ASSUME kind[w] \in {"token", "login"}, p = profile[w] PROVE FALSE  OBVIOUS
    <3>1. file'.profiles[p] = tokens[w]  BY <1>1, <1>2 DEF Changed, Store
    <3>2. Holds(w)  BY <1>1 DEF Holds
    <3>3. tokens[w].refresh # 0  BY <3>1 DEF Spent, Types, OtherTypes, Ids
    <3>4. rotates  BY DEF KnowInv, SpentOnce, Spent
    <3>5. ~InUse(tokens[w].refresh)  BY <3>2, <3>3, <3>4 DEF HoldsNew, NewIsUnknown, KnowInv
    <3> QED BY <3>1, <3>5 DEF InUse
  <2>3. file'.profiles[p] = file.profiles[p]
    BY <1>1, <1>2, <2>1, <2>2 DEF Changed, Store, Kind
  <2>4. PICK v \in Workers : Saver(v, p, file.profiles[p].refresh)
    BY <2>3, Saving DEF Live
  <2>5. v # w  BY <2>2, <2>4 DEF Saver
  <2> QED BY <1>1, <2>3, <2>4, <2>5 DEF Saver, OnlyLocals, SameLocals
<1> QED BY <1>3, <1>4 DEF Live

LEMMA AnsweredLive ==
  ASSUME Types, MutexInv, KnowInv, Live, NEW w \in Workers, Answered(w)
  PROVE  Live'
<1>1. /\ OnlyLocals(w) /\ stage[w] = "send" /\ stage'[w] = "save" /\ kind[w] = "token"
      /\ where[w] = "outside" /\ spent' = Exchanged(w)
      /\ where'[w] = where[w] /\ kind'[w] = kind[w] /\ profile'[w] = profile[w]
      /\ refresh_token'[w] = refresh_token[w] /\ UNCHANGED <<file, rotates, loose, lost>>
  BY AnsweredEffect
<1>2. profile[w] \in Profiles /\ refresh_token[w] \in Ids
  BY <1>1 DEF Types, Locals, LocalsOf, Refreshing
<1>3. StoredTokenIsLive'
  <2> SUFFICES ASSUME ~loose, NEW p \in Profiles, file.profiles[p] # None,
                      file.profiles[p].refresh \in Spent' \ lost
               PROVE  \E v \in Workers : Saver(v, p, file.profiles[p].refresh)'
    BY <1>1 DEF StoredTokenIsLive, Saver
  <2>1. PICK n : n = file.profiles[p].refresh  OBVIOUS
  <2>2. CASE n \in Spent
    <3>1. PICK v \in Workers : Saver(v, p, n)  BY <2>1, <2>2, Saving DEF Live
    <3>2. v # w  BY <1>1, <3>1 DEF Saver
    <3> QED BY <1>1, <2>1, <3>1, <3>2 DEF Saver, OnlyLocals, SameLocals
  <2>3. CASE n \notin Spent
    <3>1. n = refresh_token[w]  BY <1>1, <2>1, <2>3 DEF Spent, Exchanged
    <3>2. Knows(p, n) /\ Knows(profile[w], n)
      <4>1. file # None  BY DEF Types, OtherTypes
      <4> QED BY <2>1, <3>1, <4>1 DEF Knows, InStore
    <3>3. p = profile[w]  BY <1>2, <3>1, <3>2 DEF KnowInv, OneOwner
    <3>4. Saver(w, p, n)'  BY <1>1, <3>1, <3>3 DEF Saver
    <3> QED BY <1>1, <2>1, <3>4 DEF Saver
  <2> QED BY <2>2, <2>3
<1>4. NoDuplicateRefresh'
  <2> SUFFICES ASSUME ~loose, NEW v \in Workers, stage'[v] = "send",
                      refresh_token'[v] \notin lost, data'[v].profiles[profile'[v]].refresh # 0,
                      <<ProcessOf[v], refresh_token'[v]>> \in spent'
               PROVE  FALSE
    BY <1>1 DEF NoDuplicateRefresh
  <2>1. v # w /\ SameLocals(v) /\ stage[v] = "send"
    BY <1>1 DEF OnlyLocals, SameLocals
  <2>2. <<ProcessOf[v], refresh_token[v]>> \notin spent
    BY <2>1 DEF Live, NoDuplicateRefresh, SameLocals
  <2>3. ProcessOf[v] = ProcessOf[w] /\ refresh_token[v] = refresh_token[w]
    BY <1>1, <2>1, <2>2 DEF Exchanged, SameLocals
  <2>4. profile[v] \in Profiles  BY <2>1 DEF Types, Locals, LocalsOf
  <2>5. profile[v] = profile[w]
    <3>1. Knows(profile[v], refresh_token[w]) /\ Knows(profile[w], refresh_token[w])
      BY <2>3 DEF Knows
    <3> QED BY <1>2, <2>4, <3>1 DEF KnowInv, OneOwner
  <2> QED BY <1>1, <2>1, <2>3, <2>5, OneRefreshPerSlot DEF MutexInv, Refreshing, Slot
<1> QED BY <1>3, <1>4 DEF Live

LEMMA LeaveRecheckLive ==
  ASSUME Types, MutexInv, LockInv, KnowInv, Live, NEW w \in Workers, LeaveRecheck(w), ~Finish(w)
  PROVE  Live'
<1>1. /\ Leaves(w) /\ stage[w] = "recheck" /\ stage'[w] = "send" /\ data'[w] = data[w]
      /\ profile'[w] = profile[w] /\ data[w] \in Store /\ profile[w] \in Profiles
      /\ data[w].profiles[profile[w]] \in TokenSet
      /\ refresh_token'[w] = IF data[w].profiles[profile[w]].refresh # 0
                               THEN data[w].profiles[profile[w]].refresh
                               ELSE refresh_token[w]
  BY LeaveRecheckEffect
<1>2. OnlyLocals(w) /\ where[w] = "inside" /\ UNCHANGED <<file, spent, lost, loose, rotates>>
  BY <1>1 DEF Leaves
<1>3. StoredTokenIsLive'  BY <1>1, <1>2, OneWorkerSaved DEF Live
<1>4. NoDuplicateRefresh'
  <2> SUFFICES ASSUME ~loose, NEW v \in Workers, stage'[v] = "send",
                      refresh_token'[v] \notin lost, data'[v].profiles[profile'[v]].refresh # 0,
                      <<ProcessOf[v], refresh_token'[v]>> \in spent
               PROVE  FALSE
    BY <1>2 DEF NoDuplicateRefresh
  <2>1. CASE v # w
    BY <1>2, <2>1 DEF Live, NoDuplicateRefresh, OnlyLocals, SameLocals
  <2>2. CASE v = w
    <3>1. data[w] = file  BY <1>2 DEF LockInv, LockHeld
    <3>2. refresh_token'[w] = file.profiles[profile[w]].refresh /\ file.profiles[profile[w]] # None
      BY <1>1, <2>2, <3>1
    <3>3. PICK n : n = refresh_token'[w] /\ n \in Spent /\ n \notin lost
                   /\ <<ProcessOf[w], n>> \in spent
      BY <2>2 DEF Spent
    <3>4. PICK u \in Workers : Saver(u, profile[w], n)
      BY <1>1, <3>2, <3>3, Saving DEF Live
    <3>5. <<ProcessOf[u], n>> \in spent
      <4>1. rotates  BY <3>3 DEF KnowInv, SpentOnce
      <4> QED BY <3>4, <4>1 DEF KnowInv, SpentOnce, Saver
    <3>6. ProcessOf[u] = ProcessOf[w]  BY <3>3, <3>5 DEF KnowInv, SpentOnce
    <3>7. Refreshing(u) /\ Refreshing(w) /\ Slot(u) = Slot(w)
      BY <1>1, <3>4, <3>6 DEF Saver, Refreshing, Slot
    <3> QED BY <1>1, <3>4, <3>7, OneRefreshPerSlot DEF MutexInv, Saver
  <2> QED BY <2>1, <2>2
<1> QED BY <1>3, <1>4 DEF Live

LEMMA LiveNext ==
  ASSUME Types, MutexInv, LockInv, KnowInv, Live, [Next]_vars
  PROVE  Live'
<1>1. ASSUME NEW w \in Workers, Start(w) PROVE Live'
  <2>1. PICK k \in Kind, p \in Profiles \cup {None} : StartedAs(w, k, p)
    BY <1>1, StartEffect
  <2>2. OnlyLocals(w) /\ UNCHANGED <<file, spent, lost, loose>> /\ stage[w] = "idle"
    BY <1>1, StartEffect DEF Start
  <2>3. stage'[w] # "send"  BY <2>1 DEF StartedAs, Kind
  <2> QED BY <2>2, <2>3, OneWorkerLive
<1>2. ASSUME NEW w \in Workers, Enter(w) \/ LockMutex(w) PROVE Live'
  BY <1>2, EnterEffect, LockMutexEffect, OneWorkerLive DEF Loading
<1>3. ASSUME NEW w \in Workers, LeaveLook(w) \/ LeaveCheck(w), ~Finish(w) PROVE Live'
  BY <1>3, LeaveLookEffect, LeaveCheckEffect, OneWorkerLive DEF Leaves
<1>4. ASSUME NEW w \in Workers, LateWrite(w) PROVE Live'
  <2>1. loose /\ loose' = loose
    BY <1>4 DEF LateWrite, LockInv, NothingLate, Types, OtherTypes
  <2> QED BY <2>1 DEF Live, StoredTokenIsLive, NoDuplicateRefresh
<1>5. CASE Moves
  BY <1>1, <1>2, <1>3, <1>4, <1>5, CommitLive, AnsweredLive, LeaveRecheckLive DEF Moves
<1>6. CASE Drops  BY <1>6, DroppedLive DEF Drops
<1>7. CASE Loses
  <2>1. PICK w \in Workers, W \in SUBSET Workers : AnswerLost(w) /\ Dropped(W)
    BY <1>7 DEF Loses
  <2>2. {refresh_token[w]} \in SUBSET Ids /\ stage[w] = "send" /\ spent' = Exchanged(w)
        /\ Fails(w, {refresh_token[w]})
    BY <2>1 DEF AnswerLost, Types, Locals, LocalsOf, Refreshing
  <2>3. refresh_token[w] \in lost'  BY <2>2 DEF Fails, Ends
  <2> QED BY <2>1, <2>2, <2>3, DroppedLive DEF Exchanged
<1> QED BY <1>5, <1>6, <1>7, MovesOrDrops

LEMMA InitLive == Init => Live
BY DEF Init, Live, StoredTokenIsLive, NoDuplicateRefresh, Spent

\* The refresh token of every profile in the store can be used, or its successor is about
\* to be saved or was lost, for any number of processes and of tasks that refresh, log in
\* and remove at the same time.  (get_valid_openai_access_token, update_profile)
THEOREM StoredTokensAreLive == Spec => []StoredTokenIsLive
<1>1. Init => Types /\ MutexInv /\ LockInv /\ KnowInv /\ Live
  BY InitTypes, InitMutex, InitLock, InitKnow, InitLive
<1>2. Types /\ MutexInv /\ LockInv /\ KnowInv /\ Live /\ [Next]_vars =>
        Types' /\ MutexInv' /\ LockInv' /\ KnowInv' /\ Live'
  BY NextTypes, MutexNext, LockNext, KnowNext, LiveNext
<1>3. Live => StoredTokenIsLive  BY DEF Live
<1> QED BY <1>1, <1>2, <1>3, PTL DEF Spec

\* No task of a process sends a refresh token that a task of the process has exchanged,
\* for any number of tasks: the second load under the mutex sees what the first one
\* saved.  (get_valid_openai_access_token: "avoid duplicate refreshes")
THEOREM RefreshesAreNotRepeated == Spec => []NoDuplicateRefresh
<1>1. Init => Types /\ MutexInv /\ LockInv /\ KnowInv /\ Live
  BY InitTypes, InitMutex, InitLock, InitKnow, InitLive
<1>2. Types /\ MutexInv /\ LockInv /\ KnowInv /\ Live /\ [Next]_vars =>
        Types' /\ MutexInv' /\ LockInv' /\ KnowInv' /\ Live'
  BY NextTypes, MutexNext, LockNext, KnowNext, LiveNext
<1>3. Live => NoDuplicateRefresh  BY DEF Live
<1> QED BY <1>1, <1>2, <1>3, PTL DEF Spec

-----------------------------------------------------------------------------
(* The accounts.  Nothing here depends on `loose'.                         *)

HasToken(set, n) == set # None /\ n \in {set.access, set.refresh}
Has(store, p, n) == store # None /\ HasToken(store.profiles[p], n)
Near(w, p, n) == profile[w] = p /\ (refresh_token[w] = n \/ HasToken(tokens[w], n))

Belongs(p, n) ==
  \/ Has(file, p, n)
  \/ \E w \in Workers : Has(data[w], p, n) \/ Has(late[w], p, n) \/ Near(w, p, n)

\* A token belongs to one profile, wherever a copy of it is, and has been given out.
Accounts ==
  \A n \in Ids :
    /\ \A p \in Profiles : Belongs(p, n) => n <= issued
    /\ \A p, q \in Profiles : Belongs(p, n) /\ Belongs(q, n) => p = q

Quiet(v) == SameLocals(v) \/ HasEnded(v)

LEMMA QuietBelongs ==
  ASSUME NEW v \in Workers, Quiet(v), NEW p \in Profiles, NEW n \in Ids,
         Has(data'[v], p, n) \/ Near(v, p, n)'
  PROVE  Belongs(p, n)
<1>1. 0 \notin Ids  BY DEF Ids
<1>2. None \notin Profiles  BY ProfilesAssumption
<1>3. CASE SameLocals(v)  BY <1>3 DEF SameLocals, Belongs, Near
<1>4. CASE HasEnded(v)  BY <1>2, <1>4 DEF HasEnded, Has, Near
<1> QED BY <1>3, <1>4 DEF Quiet

\* no token comes to a profile
LEMMA NothingGiven ==
  ASSUME Types, Accounts, issued' = issued,
         \A p \in Profiles, n \in Ids : Has(file', p, n) => Belongs(p, n),
         \A v \in Workers, p \in Profiles, n \in Ids : Has(late'[v], p, n) => Belongs(p, n),
         \A v \in Workers, p \in Profiles, n \in Ids :
           Has(data'[v], p, n) \/ Near(v, p, n)' => Belongs(p, n)
  PROVE  Accounts'
<1>1. \A p \in Profiles, n \in Ids : Belongs(p, n)' => Belongs(p, n)
  BY DEF Belongs, Has, HasToken
<1> QED BY <1>1 DEF Accounts

\* the provider gives out a token set, for the profile p0
LEMMA OneGiven ==
  ASSUME Types, Accounts, issued' = issued + 1, NEW p0,
         \A p \in Profiles, n \in Ids : Belongs(p, n)' => Belongs(p, n) \/ (p = p0 /\ n = issued + 1)
  PROVE  Accounts'
<1>1. issued \in Nat  BY DEF Types, OtherTypes
<1>2. \A n \in Ids : n \in Nat  BY DEF Ids
<1>3. \A p \in Profiles : Belongs(p, issued + 1) /\ issued + 1 \in Ids => FALSE
  BY <1>1 DEF Accounts
<1> QED BY <1>1, <1>2, <1>3 DEF Accounts

\* What an operation makes of a store has the tokens of the store and of its worker.
LEMMA ChangedHas ==
  ASSUME Types, NEW w \in Workers, NEW store \in Store, stage[w] = "save",
         NEW p \in Profiles, NEW n \in Ids, Has(Changed(w, store), p, n)
  PROVE  Has(store, p, n) \/ Near(w, p, n)
<1>1. profile[w] \in Profiles /\ kind[w] \in Kind  BY DEF Types, Locals, LocalsOf
<1>2. store # None /\ store.profiles \in [Profiles -> TokenSet \cup {None}]
  BY ProfilesAssumption DEF Store
<1>3. CASE kind[w] \in {"token", "login"}
  <2>1. Changed(w, store).profiles = [store.profiles EXCEPT ![profile[w]] = tokens[w]]
    BY <1>1, <1>3 DEF Changed, Store
  <2> QED BY <1>1, <1>2, <2>1 DEF Has, HasToken, Near
<1>4. CASE kind[w] = "remove"
  <2>1. Changed(w, store).profiles = [store.profiles EXCEPT ![profile[w]] = None]
    BY <1>1, <1>4 DEF Changed, Store
  <2> QED BY <1>1, <1>2, <2>1 DEF Has, HasToken
<1>5. CASE kind[w] = "activate"
  <2>1. Changed(w, store).profiles = store.profiles  BY <1>1, <1>5 DEF Changed, Store
  <2> QED BY <1>2, <2>1 DEF Has
<1> QED BY <1>1, <1>3, <1>4, <1>5 DEF Kind

\* the operations that end, with what they leave behind
LEMMA DroppedAccounts ==
  ASSUME Types, Accounts, UNCHANGED <<file, issued>>, \A v \in Workers : Quiet(v),
         \A v \in Workers, p \in Profiles, n \in Ids : Has(late'[v], p, n) => Belongs(p, n)
  PROVE  Accounts'
<1>1. \A p \in Profiles, n \in Ids : Has(file', p, n) => Belongs(p, n)  BY DEF Belongs
<1>2. \A v \in Workers, p \in Profiles, n \in Ids :
        Has(data'[v], p, n) \/ Near(v, p, n)' => Belongs(p, n)
  BY QuietBelongs
<1> QED BY <1>1, <1>2, NothingGiven

\* One worker goes on, with the store as it was or as it has changed it, and gets no token
\* but one of its copy of the store.
LEMMA MovesAccounts ==
  ASSUME Types, Accounts, NEW w \in Workers, OnlyLocals(w), UNCHANGED <<issued, late>>,
         file' = file \/ \A p \in Profiles, n \in Ids : Has(file', p, n) => Belongs(p, n),
         data'[w] \in {data[w], file, None}, tokens'[w] = tokens[w],
         profile'[w] = profile[w] \/ tokens[w] = None,
         \/ refresh_token'[w] = refresh_token[w] /\ profile'[w] = profile[w]
         \/ refresh_token'[w] = 0
         \/ Has(data[w], profile'[w], refresh_token'[w])
  PROVE  Accounts'
<1>1. \A p \in Profiles, n \in Ids : Has(file', p, n) => Belongs(p, n)  BY DEF Belongs
<1>2. \A v \in Workers, p \in Profiles, n \in Ids : Has(late'[v], p, n) => Belongs(p, n)
  BY DEF Belongs
<1>3. ASSUME NEW v \in Workers, NEW p \in Profiles, NEW n \in Ids,
             Has(data'[v], p, n) \/ Near(v, p, n)'
      PROVE  Belongs(p, n)
  <2>1. CASE v # w  BY <1>3, <2>1, QuietBelongs DEF OnlyLocals, Quiet
  <2>2. CASE v = w /\ Has(data'[w], p, n)
    BY <2>2 DEF Belongs, Has
  <2>3. CASE v = w /\ Near(w, p, n)'
    <3>1. n # 0  BY DEF Ids
    <3> QED BY <2>3, <3>1 DEF Belongs, Near, HasToken
  <2> QED BY <1>3, <2>1, <2>2, <2>3
<1> QED BY <1>1, <1>2, <1>3, NothingGiven

LEMMA StartAccounts ==
  ASSUME Types, Accounts, NEW w \in Workers, Start(w)
  PROVE  Accounts'
<1>1. PICK k \in Kind, p0 \in Profiles \cup {None} : StartedAs(w, k, p0)
  BY StartEffect
<1>2. OnlyLocals(w) /\ UNCHANGED <<file, late>> /\ stage[w] = "idle"
  BY StartEffect DEF Start
<1>3. tokens[w] = None  BY <1>2 DEF Types, Locals, LocalsOf
<1>4. CASE k = "login"
  <2>1. issued' = issued + 1  BY <1>1, <1>4 DEF StartedAs
  <2>2. ASSUME NEW p \in Profiles, NEW n \in Ids, Belongs(p, n)'
        PROVE  Belongs(p, n) \/ (p = p0 /\ n = issued + 1)
    <3>1. CASE Has(file', p, n)  BY <1>2, <3>1 DEF Belongs
    <3>2. ASSUME NEW v \in Workers, Has(late'[v], p, n) PROVE Belongs(p, n)
      BY <1>2, <3>2 DEF Belongs
    <3>3. ASSUME NEW v \in Workers, v # w, Has(data'[v], p, n) \/ Near(v, p, n)' PROVE Belongs(p, n)
      BY <1>2, <3>3, QuietBelongs DEF OnlyLocals, Quiet
    <3>4. CASE Has(data'[w], p, n)  BY <1>1, <3>4 DEF StartedAs, Belongs
    <3>5. CASE Near(w, p, n)'
      <4>1. profile'[w] = p0 /\ refresh_token'[w] = 0
            /\ \E refresh \in {0, issued + 1} : tokens'[w] = Fresh(issued + 1, refresh)
        BY <1>1, <1>4 DEF StartedAs
      <4>2. n # 0  BY DEF Ids
      <4> QED BY <3>5, <4>1, <4>2 DEF Near, HasToken, Fresh
    <3> QED BY <2>2, <3>1, <3>2, <3>3, <3>4, <3>5 DEF Belongs, Has, HasToken
  <2> QED BY <2>1, <2>2, OneGiven
<1>5. CASE k # "login"
  <2>1. issued' = issued /\ tokens'[w] = None /\ data'[w] = data[w] /\ refresh_token'[w] = 0
    BY <1>1, <1>5 DEF StartedAs
  <2> QED BY <1>2, <1>3, <2>1, MovesAccounts
<1> QED BY <1>4, <1>5

LEMMA AnsweredAccounts ==
  ASSUME Types, Accounts, NEW w \in Workers, Answered(w)
  PROVE  Accounts'
<1>1. /\ OnlyLocals(w) /\ stage[w] = "send" /\ data'[w] = None /\ tokens'[w] = Answer(w)
      /\ issued' = issued + 1 /\ profile'[w] = profile[w]
      /\ refresh_token'[w] = refresh_token[w] /\ UNCHANGED <<file, late>>
  BY AnsweredEffect
<1>2. data[w] \in Store /\ Present(data[w], profile[w])
  BY <1>1 DEF Types, Locals, LocalsOf
<1>3. ASSUME NEW p \in Profiles, NEW n \in Ids, Belongs(p, n)'
      PROVE  Belongs(p, n) \/ (p = profile[w] /\ n = issued + 1)
  <2>1. CASE Has(file', p, n)  BY <1>1, <2>1 DEF Belongs
  <2>2. ASSUME NEW v \in Workers, Has(late'[v], p, n) PROVE Belongs(p, n)
    BY <1>1, <2>2 DEF Belongs
  <2>3. ASSUME NEW v \in Workers, v # w, Has(data'[v], p, n) \/ Near(v, p, n)' PROVE Belongs(p, n)
    BY <1>1, <2>3, QuietBelongs DEF OnlyLocals, Quiet
  <2>4. ~Has(data'[w], p, n)  BY <1>1 DEF Has
  <2>5. CASE Near(w, p, n)'
    <3>1. CASE refresh_token'[w] = n  BY <1>1, <2>5, <3>1 DEF Near, Belongs
    <3>2. CASE HasToken(tokens'[w], n)
      <4>1. n = issued + 1 \/ n = data[w].profiles[profile[w]].refresh
        BY <1>1, <3>2 DEF HasToken, Answer, Fresh
      <4>2. data[w] # None  BY <1>2, ProfilesAssumption
      <4>3. n = data[w].profiles[profile[w]].refresh => Has(data[w], profile[w], n)
        BY <1>2, <4>2 DEF Has, HasToken, Present
      <4> QED BY <1>1, <2>5, <4>1, <4>3 DEF Near, Belongs
    <3> QED BY <2>5, <3>1, <3>2 DEF Near
  <2> QED BY <1>3, <2>1, <2>2, <2>3, <2>4, <2>5 DEF Belongs, Has, HasToken
<1> QED BY <1>1, <1>3, OneGiven

LEMMA CommitAccounts ==
  ASSUME Types, Accounts, NEW w \in Workers, Commit(w)
  PROVE  Accounts'
<1>1. /\ OnlyLocals(w) /\ stage[w] = "save" /\ where[w] = "inside" /\ data'[w] = None
      /\ file' = Changed(w, data[w]) /\ profile'[w] = profile[w]
      /\ refresh_token'[w] = refresh_token[w] /\ tokens'[w] = tokens[w]
      /\ UNCHANGED <<issued, late>>
  BY CommitEffect
<1>2. data[w] \in Store  BY <1>1 DEF Types, Locals, LocalsOf
<1>3. \A p \in Profiles, n \in Ids : Has(file', p, n) => Belongs(p, n)
  BY <1>1, <1>2, ChangedHas DEF Belongs
<1> QED BY <1>1, <1>3, MovesAccounts

\* The write a dropped request leaves behind has the tokens of the store it had loaded.
LEMMA AbandonAccounts ==
  ASSUME Types, Accounts, NEW w \in Workers, Abandon(w)
  PROVE  Accounts'
<1>1. Finish(w) /\ UNCHANGED <<file, issued>>  BY DEF Abandon, provider
<1>2. \A v \in Workers : Quiet(v)  BY <1>1, FinishLocals DEF Quiet
<1>3. ASSUME NEW v \in Workers, NEW p \in Profiles, NEW n \in Ids, Has(late'[v], p, n)
      PROVE  Belongs(p, n)
  <2>1. CASE late'[v] = late[v]  BY <1>3, <2>1 DEF Belongs
  <2>2. CASE late'[v] # late[v]
    <3>1. /\ stage[w] = "save" /\ where[w] = "inside"
          /\ late' = [late EXCEPT ![w] = Changed(w, data[w])]
      BY <2>2 DEF Abandon
    <3>2. late'[v] = Changed(w, data[w])  BY <2>2, <3>1 DEF Types, OtherTypes
    <3>3. data[w] \in Store  BY <3>1 DEF Types, Locals, LocalsOf
    <3> QED BY <1>3, <3>1, <3>2, <3>3, ChangedHas DEF Belongs
  <2> QED BY <2>1, <2>2
<1> QED BY <1>1, <1>2, <1>3, DroppedAccounts

LEMMA StepAccounts ==
  ASSUME Types, Accounts, NEW w \in Workers, Step(w)
  PROVE  Accounts'
<1>1. ASSUME Finish(w), UNCHANGED <<file, late, issued>> PROVE Accounts'
  <2>1. \A v \in Workers : Quiet(v)  BY <1>1, FinishLocals DEF Quiet
  <2> QED BY <1>1, <2>1, DroppedAccounts DEF Belongs
<1>2. CASE TimeOut(w) \/ LeaveSaved(w) \/ LeaveWithError(w)
  BY <1>1, <1>2 DEF TimeOut, LeaveSaved, LeaveWithError, provider
<1>3. CASE Enter(w) \/ LockMutex(w)
  BY <1>3, EnterEffect, LockMutexEffect, MovesAccounts
<1>4. CASE Commit(w)  BY <1>4, CommitAccounts
<1>5. CASE (LeaveLook(w) \/ LeaveCheck(w) \/ LeaveRecheck(w)) /\ Finish(w)
  BY <1>1, <1>5 DEF LeaveLook, LeaveCheck, LeaveRecheck, provider
<1>6. CASE (LeaveLook(w) \/ LeaveCheck(w) \/ LeaveRecheck(w)) /\ ~Finish(w)
  <2>1. LocalsOf(w)  BY DEF Types, Locals
  <2>2. Leaves(w)  BY <1>6, LeaveLookEffect, LeaveCheckEffect, LeaveRecheckEffect
  <2>3. /\ OnlyLocals(w) /\ tokens'[w] = tokens[w] /\ tokens[w] = None
        /\ UNCHANGED <<file, issued, late>>
    BY <2>1, <2>2 DEF Leaves, LocalsOf
  <2>4. data[w] \in Store /\ data[w] # None
    BY <2>1, <2>2, ProfilesAssumption DEF Leaves, LocalsOf
  <2>5. CASE LeaveLook(w)
    BY <1>6, <2>3, <2>5, LeaveLookEffect, MovesAccounts
  <2>6. CASE LeaveCheck(w)
    <3>1. /\ data'[w] = None /\ Present(data[w], profile'[w])
          /\ refresh_token'[w] = data[w].profiles[profile'[w]].refresh
      BY <1>6, <2>6, LeaveCheckEffect
    <3>2. Has(data[w], profile'[w], refresh_token'[w])
      BY <2>4, <3>1 DEF Has, HasToken, Present
    <3> QED BY <2>3, <3>1, <3>2, MovesAccounts
  <2>7. CASE LeaveRecheck(w)
    <3>1. /\ data'[w] = data[w] /\ profile'[w] = profile[w]
          /\ data[w].profiles[profile[w]] \in TokenSet
          /\ refresh_token'[w] \in {data[w].profiles[profile[w]].refresh, refresh_token[w]}
      BY <1>6, <2>7, LeaveRecheckEffect
    <3>2. \/ refresh_token'[w] = refresh_token[w]
          \/ Has(data[w], profile'[w], refresh_token'[w])
      BY <2>4, <3>1, ProfilesAssumption DEF Has, HasToken
    <3> QED BY <2>3, <3>1, <3>2, MovesAccounts
  <2> QED BY <1>6, <2>5, <2>6, <2>7
<1> QED BY <1>2, <1>3, <1>4, <1>5, <1>6 DEF Step

LEMMA ExchangeAccounts ==
  ASSUME Types, Accounts, NEW w \in Workers, Exchange(w)
  PROVE  Accounts'
<1>1. CASE Answered(w)  BY <1>1, AnsweredAccounts
<1>2. CASE Refused(w) \/ AnswerLost(w)
  <2>1. PICK gone \in SUBSET Ids : stage[w] = "send" /\ Fails(w, gone)
    <3>1. {} \in SUBSET Ids  OBVIOUS
    <3>2. stage[w] = "send" => {refresh_token[w]} \in SUBSET Ids
      BY DEF Types, Locals, LocalsOf, Refreshing
    <3> QED BY <1>2, <3>1, <3>2 DEF Refused, AnswerLost
  <2>2. \A v \in Workers : Quiet(v)  BY <2>1, FailsEffect DEF GuardsDropped, Quiet
  <2>3. UNCHANGED <<file, issued, late>>  BY <1>2 DEF Refused, AnswerLost, provider
  <2> QED BY <2>2, <2>3, DroppedAccounts DEF Belongs
<1> QED BY <1>1, <1>2 DEF Exchange

LEMMA SurroundingsAccounts ==
  ASSUME Types, Accounts, Surroundings
  PROVE  Accounts'
<1>1. \A v \in Workers : Quiet(v)  BY SurroundingsTypes DEF Quiet
<1>2. \A v \in Workers, p \in Profiles, n \in Ids :
        Has(data'[v], p, n) \/ Near(v, p, n)' => Belongs(p, n)
  BY <1>1, QuietBelongs
<1>3. issued' = issued /\ \A v \in Workers : late'[v] \in {late[v], None}
  BY DEF Surroundings, LateWrite, Expires, BackoffEnds, vars, provider, Types, OtherTypes
<1>4. file' = file \/ \E w \in Workers : file' = late[w]
  BY DEF Surroundings, LateWrite, Expires, BackoffEnds, vars
<1>5. \A p \in Profiles, n \in Ids : Has(file', p, n) => Belongs(p, n)  BY <1>4 DEF Belongs
<1>6. \A v \in Workers, p \in Profiles, n \in Ids : Has(late'[v], p, n) => Belongs(p, n)
  BY <1>3 DEF Belongs, Has
<1> QED BY <1>2, <1>3, <1>5, <1>6, NothingGiven

LEMMA AccountsNext == Types /\ Accounts /\ [Next]_vars => Accounts'
<1> SUFFICES ASSUME Types, Accounts, [Next]_vars PROVE Accounts'  OBVIOUS
<1>1. ASSUME NEW process \in Processes, Crash(process) PROVE Accounts'
  <2>1. PICK W \in SUBSET Workers :
          /\ GuardsDropped(W) /\ UNCHANGED <<file, issued>>
          /\ \A v \in Workers : late'[v] \in {late[v], None}
    BY <1>1, CrashEffect
  <2>2. \A v \in Workers : Quiet(v)  BY <2>1 DEF GuardsDropped, Quiet
  <2>3. \A v \in Workers, p \in Profiles, n \in Ids : Has(late'[v], p, n) => Belongs(p, n)
    BY <2>1 DEF Belongs, Has
  <2> QED BY <2>1, <2>2, <2>3, DroppedAccounts
<1> QED
  BY <1>1, NextCases, StartAccounts, StepAccounts, ExchangeAccounts, AbandonAccounts,
     SurroundingsAccounts

LEMMA InitAccounts == Init => Accounts
<1> SUFFICES ASSUME Init PROVE Accounts  OBVIOUS
<1>1. Types  BY InitTypes
<1>2. PICK present \in SUBSET Profiles, number \in [Profiles -> Ids] :
        /\ \A p, q \in present : number[p] = number[q] => p = q
        /\ {number[p] : p \in present} = 1..Cardinality(present)
        /\ issued = Cardinality(present)
        /\ file = [profiles |-> [p \in Profiles |->
                                  IF p \in present THEN Fresh(number[p], number[p]) ELSE None],
                   active |-> None]
  BY DEF Init
<1>3. \A w \in Workers : data[w] = None /\ tokens[w] = None /\ refresh_token[w] = 0
                         /\ late[w] = None
  BY DEF Init
<1>4. \A p \in Profiles, n \in Ids : Belongs(p, n) => p \in present /\ n = number[p]
  BY <1>2, <1>3 DEF Belongs, Has, HasToken, Near, Fresh, Ids
<1>5. \A p \in present : number[p] <= issued  BY <1>2, <1>1 DEF Types, OtherTypes
<1> QED BY <1>2, <1>4, <1>5 DEF Accounts

\* The tokens of different accounts stay apart in every reachable state, also after a
\* dropped request has left a late write, for any number of processes and operations.
\* (update_profile and upsert_profile change the profile they were asked for, in whatever
\* store they have loaded)
THEOREM AccountsStayApart == Spec => []AccountsNotMixed
<1>1. Types /\ Accounts => AccountsNotMixed
  <2> SUFFICES ASSUME Types, Accounts, NEW p \in Profiles, NEW q \in Profiles, p # q
               PROVE  /\ Numbers(file.profiles[p]) \cap Numbers(file.profiles[q]) = {}
                      /\ \A w \in Workers : profile[w] = p =>
                           ({refresh_token[w]} \cup Numbers(tokens[w]))
                             \cap Numbers(file.profiles[q]) = {}
    BY DEF AccountsNotMixed
  <2>1. file # None  BY ProfilesAssumption DEF Types, OtherTypes
  <2>2. \A r \in Profiles : \A n \in Numbers(file.profiles[r]) : n \in Ids /\ Belongs(r, n)
    <3> SUFFICES ASSUME NEW r \in Profiles, NEW n \in Numbers(file.profiles[r])
                 PROVE  n \in Ids /\ Belongs(r, n)
      OBVIOUS
    <3>1. file.profiles[r] \in TokenSet /\ file.profiles[r] # None
      BY DEF Numbers, Types, OtherTypes, Store
    <3> QED BY <2>1, <3>1 DEF Numbers, TokenSet, Belongs, Has, HasToken
  <2>3. ASSUME NEW w \in Workers, profile[w] = p, NEW n \in {refresh_token[w]} \cup Numbers(tokens[w]),
               n \in Ids
        PROVE  Belongs(p, n)
    BY <2>3 DEF Numbers, Belongs, Near, HasToken
  <2> QED BY <2>2, <2>3 DEF Accounts
<1> QED BY <1>1, InitTypes, NextTypes, InitAccounts, AccountsNext, PTL DEF Spec
=============================================================================
