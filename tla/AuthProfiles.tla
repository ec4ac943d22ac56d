---------------------------- MODULE AuthProfiles ----------------------------
(***************************************************************************)
(* The store of the authentication profiles (auth/profiles.rs) and the     *)
(* refresh of OAuth tokens over it (auth/mod.rs).  The profiles of a       *)
(* provider are in one file, which several processes (the daemon, commands *)
(* on the terminal) read and replace under a lock file.  A refresh also    *)
(* holds a mutex of its process and profile from before its second load    *)
(* until it has saved.                                                     *)
(*                                                                         *)
(* A worker is one call of AuthService: a request that needs a token, or a *)
(* login, a removal, a choice of the active profile.  Only the holder of   *)
(* the lock file touches the store, so its load is one step with the       *)
(* creation of the lock file; so is a look at a store that is only read.   *)
(* Encryption and its migration, which rewrites the same profiles,         *)
(* metadata and dates are left out, and so are profiles without OAuth      *)
(* tokens and clear_active_profile, which nobody calls.  Time is abstract: *)
(* a token expires and a backoff ends at any moment.                       *)
(***************************************************************************)
EXTENDS Integers, FiniteSets

CONSTANTS
  Processes, Workers,
  ProcessOf,             \* the process of a worker
  Profiles, DefaultProfile,
  Calls,                 \* what a worker may be asked for, and for which profile (None: the
                         \* selected one)
  MaxIssued,             \* bound: the token sets the provider gives out
  OAUTH_REFRESH_MAX_ATTEMPTS,
  None

Kind == {"token", "login", "remove", "activate"}

Ids == 1..MaxIssued
\* a token set: the number of its access token and its refresh token (0: it has none)
TokenSet == [access : Ids, refresh : Ids \cup {0}]
Store == [profiles : [Profiles -> TokenSet \cup {None}], active : Profiles \cup {None}]

ASSUME ProfilesAssumption ==
  /\ IsFiniteSet(Profiles)
  /\ ProcessOf \in [Workers -> Processes]
  /\ Calls \in [Workers -> SUBSET (Kind \X (Profiles \cup {None}))]
  /\ DefaultProfile \in Profiles
  /\ MaxIssued \in Nat /\ OAUTH_REFRESH_MAX_ATTEMPTS \in Nat \ {0}
  /\ None \notin Profiles \cup Workers /\ None \notin TokenSet /\ None \notin Store

VARIABLES
  file,                  \* the persisted profiles and the active one
  lock,                  \* the worker that created the lock file, or None
  kind, profile,         \* what a worker does, and for which profile
  stage,                 \* the part of the operation it is in
  where,                 \* outside or inside the lock file, or inside and done
  data,                  \* the store as it loaded it last
  refresh_token,         \* the refresh token it sends
  tokens,                \* the token set it has to save
  attempts,              \* of the refresh, so far
  refresh_lock,          \* the holder of the mutex of a process and a profile, or None
  backoffs,              \* the processes and profiles in backoff
  issued, expiring,      \* how many token sets there are, and which are about to expire
  rotates,               \* the provider's policy: a refresh token is good for one refresh
  spent,                 \* the refresh tokens that were exchanged, with the process
  late,                  \* a write that goes on although its worker was dropped, or None
  loose,                 \* auxiliary: such a write has been left behind
  lost                   \* auxiliary: spent tokens whose successor nobody has or will save

work == <<kind, profile, stage, where, data, refresh_token, tokens, attempts>>
provider == <<issued, expiring, rotates, spent>>
vars == <<file, lock, work, refresh_lock, backoffs, provider, late, loose, lost>>

Loading == {"check", "recheck", "look"}
Ended == {"done", "dead"}
Stages == {"idle", "mutex", "send", "save"} \cup Loading \cup Ended

TypeOK ==
  /\ file \in Store /\ lock \in Workers \cup {None}
  /\ kind \in [Workers -> Kind \cup {None}]
  /\ profile \in [Workers -> Profiles \cup {None}]
  /\ stage \in [Workers -> Stages]
  /\ where \in [Workers -> {"outside", "inside", "leaving"}]
  /\ data \in [Workers -> Store \cup {None}]
  /\ refresh_token \in [Workers -> Ids \cup {0}]
  /\ tokens \in [Workers -> TokenSet \cup {None}]
  /\ attempts \in [Workers -> 0..(OAUTH_REFRESH_MAX_ATTEMPTS - 1)]
  /\ refresh_lock \in [Processes \X Profiles -> Workers \cup {None}]
  /\ backoffs \subseteq Processes \X Profiles
  /\ issued \in 0..MaxIssued /\ expiring \subseteq Ids /\ rotates \in BOOLEAN
  /\ spent \subseteq Processes \X Ids /\ lost \subseteq Ids
  /\ late \in [Workers -> Store \cup {None}] /\ loose \in BOOLEAN

Fresh(n, refresh) == [access |-> n, refresh |-> refresh]

\* one or two logins were made before; their tokens may be about to expire
Init ==
  /\ \E present \in SUBSET Profiles, number \in [Profiles -> Ids] :
       /\ \A p, q \in present : number[p] = number[q] => p = q
       /\ {number[p] : p \in present} = 1..Cardinality(present)
       /\ issued = Cardinality(present)
       /\ file = [profiles |-> [p \in Profiles |->
                                  IF p \in present THEN Fresh(number[p], number[p]) ELSE None],
                  active |-> None]
  /\ lock = None
  /\ kind = [w \in Workers |-> None] /\ profile = [w \in Workers |-> None]
  /\ stage = [w \in Workers |-> "idle"] /\ where = [w \in Workers |-> "outside"]
  /\ data = [w \in Workers |-> None] /\ tokens = [w \in Workers |-> None]
  /\ refresh_token = [w \in Workers |-> 0] /\ attempts = [w \in Workers |-> 0]
  /\ refresh_lock = [x \in Processes \X Profiles |-> None] /\ backoffs = {}
  /\ expiring = 1..issued /\ rotates \in BOOLEAN /\ spent = {}
  /\ late = [w \in Workers |-> None] /\ loose = FALSE /\ lost = {}

Slot(w) == <<ProcessOf[w], profile[w]>>

-----------------------------------------------------------------------------
(* The end of an operation, with or without success: the guards are        *)
(* dropped.                                                                *)

\* what is lost with the workers W: the successors they have received and not saved
Forgotten(W) ==
  {refresh_token[w] : w \in {w \in W : stage[w] = "save" /\ kind[w] = "token"
                                       /\ where[w] # "leaving" /\ rotates}}

Freed(W) ==
  [x \in DOMAIN refresh_lock |-> IF refresh_lock[x] \in W THEN None ELSE refresh_lock[x]]

\* the locals of a worker are gone when it ends
Ends(W, how, gone) ==
  /\ stage' = [w \in Workers |-> IF w \in W THEN how ELSE stage[w]]
  /\ kind' = [w \in Workers |-> IF w \in W THEN None ELSE kind[w]]
  /\ profile' = [w \in Workers |-> IF w \in W THEN None ELSE profile[w]]
  /\ where' = [w \in Workers |-> IF w \in W THEN "outside" ELSE where[w]]
  /\ data' = [w \in Workers |-> IF w \in W THEN None ELSE data[w]]
  /\ tokens' = [w \in Workers |-> IF w \in W THEN None ELSE tokens[w]]
  /\ refresh_token' = [w \in Workers |-> IF w \in W THEN 0 ELSE refresh_token[w]]
  /\ attempts' = [w \in Workers |-> IF w \in W THEN 0 ELSE attempts[w]]
  /\ refresh_lock' = Freed(W)
  /\ lost' = lost \cup gone

Finish(w) == Ends({w}, "done", Forgotten({w}))

GoesOn(w, next) ==
  /\ stage' = [stage EXCEPT ![w] = next] /\ where' = [where EXCEPT ![w] = "outside"]
  /\ UNCHANGED <<kind, tokens, attempts, lost>>

Forgets(w) == data' = [data EXCEPT ![w] = None]

-----------------------------------------------------------------------------
(* The lock file.                                                          *)

Wants(w) == stage[w] \in Loading \cup {"save"} /\ where[w] = "outside"

Enter_IgnoresLock(w) ==
  /\ Wants(w)
  /\ lock' = w
  /\ data' = [data EXCEPT ![w] = file] /\ where' = [where EXCEPT ![w] = "inside"]
  /\ UNCHANGED <<file, kind, profile, stage, refresh_token, tokens, attempts, refresh_lock,
                 backoffs, provider, late, loose, lost>>

\* acquire_lock, then load_locked
Enter(w) ==
  /\ Wants(w) /\ lock = None
  /\ lock' = w
  /\ data' = [data EXCEPT ![w] = file] /\ where' = [where EXCEPT ![w] = "inside"]
  /\ UNCHANGED <<file, kind, profile, stage, refresh_token, tokens, attempts, refresh_lock,
                 backoffs, provider, late, loose, lost>>

TimeOut_Never(w) == FALSE /\ Wants(w) /\ UNCHANGED vars

\* acquire_lock gives up after LOCK_TIMEOUT_MS; nobody looks at who made the lock file
TimeOut(w) ==
  /\ Wants(w) /\ lock # None
  /\ Finish(w)
  /\ UNCHANGED <<file, lock, backoffs, provider, late, loose>>

Present(store, p) == store.profiles[p] # None

Applies(w, store) == kind[w] # "login" => Present(store, profile[w])

\* upsert_profile, update_profile, remove_profile, set_active_profile
Changed(w, store) ==
  LET p == profile[w] IN
  CASE kind[w] = "login" ->
         [profiles |-> [store.profiles EXCEPT ![p] = tokens[w]], active |-> p]
    [] kind[w] = "token" -> [store EXCEPT !.profiles[p] = tokens[w]]
    [] kind[w] = "remove" ->
         [profiles |-> [store.profiles EXCEPT ![p] = None],
          active |-> IF store.active = p THEN None ELSE store.active]
    [] OTHER -> [store EXCEPT !.active = p]

\* save_locked replaces the file in one rename
Commit(w) ==
  /\ stage[w] = "save" /\ where[w] = "inside" /\ Applies(w, data[w])
  /\ file' = Changed(w, data[w]) /\ where' = [where EXCEPT ![w] = "leaving"]
  /\ Forgets(w)
  /\ UNCHANGED <<lock, kind, profile, stage, refresh_token, tokens, attempts,
                 refresh_lock, backoffs, provider, late, loose, lost>>

\* the profile is not there, or the store cannot be read, parsed or written
LeaveWithError(w) ==
  /\ where[w] = "inside" /\ lock' = None
  /\ Finish(w)
  /\ UNCHANGED <<file, backoffs, provider, late, loose>>

LeaveSaved(w) ==
  /\ where[w] = "leaving" /\ lock' = None
  /\ Finish(w)
  /\ UNCHANGED <<file, backoffs, provider, late, loose>>

\* AuthService::set_active_profile looks for the profile before it asks the store
LeaveLook(w) ==
  /\ stage[w] = "look" /\ where[w] = "inside" /\ lock' = None
  /\ IF Present(data[w], profile[w])
       THEN GoesOn(w, "save") /\ Forgets(w) /\ UNCHANGED <<profile, refresh_token, refresh_lock>>
       ELSE Finish(w)
  /\ UNCHANGED <<file, backoffs, provider, late, loose>>

-----------------------------------------------------------------------------
(* get_valid_openai_access_token, get_valid_gemini_access_token            *)

\* select_profile_id without an override: the active profile, the default one, any other
Selected(store) ==
  LET present == {p \in Profiles : Present(store, p)} IN
  IF store.active \in present THEN store.active
  ELSE IF DefaultProfile \in present THEN DefaultProfile
  ELSE IF present # {} THEN CHOOSE p \in present : TRUE
  ELSE None

\* the first load: the token is good, cannot be refreshed, or has to be refreshed
LeaveCheck(w) ==
  /\ stage[w] = "check" /\ where[w] = "inside" /\ lock' = None
  /\ LET p == IF profile[w] # None THEN profile[w] ELSE Selected(data[w]) IN
     IF /\ p # None /\ Present(data[w], p)
        /\ data[w].profiles[p].access \in expiring /\ data[w].profiles[p].refresh # 0
       THEN /\ GoesOn(w, "mutex") /\ Forgets(w)
            /\ profile' = [profile EXCEPT ![w] = p]
            /\ refresh_token' = [refresh_token EXCEPT ![w] = data[w].profiles[p].refresh]
            /\ UNCHANGED refresh_lock
       ELSE Finish(w)
  /\ UNCHANGED <<file, backoffs, provider, late, loose>>

LockMutex(w) ==
  /\ stage[w] = "mutex" /\ refresh_lock[Slot(w)] = None
  /\ refresh_lock' = [refresh_lock EXCEPT ![Slot(w)] = w]
  /\ stage' = [stage EXCEPT ![w] = "recheck"]
  /\ UNCHANGED <<file, lock, kind, profile, where, data, refresh_token, tokens, attempts,
                 backoffs, provider, late, loose, lost>>

LeaveRecheck_FirstLoad(w) ==
  /\ stage[w] = "recheck" /\ where[w] = "inside" /\ lock' = None
  /\ LET latest == data[w].profiles[profile[w]] IN
     IF latest # None /\ Slot(w) \notin backoffs
       THEN /\ GoesOn(w, "send") /\ UNCHANGED data
            /\ UNCHANGED <<profile, refresh_token, refresh_lock>>
       ELSE Finish(w)
  /\ UNCHANGED <<file, backoffs, provider, late, loose>>

LeaveRecheck_NoBackoff(w) ==
  /\ stage[w] = "recheck" /\ where[w] = "inside" /\ lock' = None
  /\ LET latest == data[w].profiles[profile[w]] IN
     IF latest # None /\ latest.access \in expiring
       THEN /\ GoesOn(w, "send") /\ UNCHANGED data
            /\ refresh_token' = [refresh_token EXCEPT ![w] =
                                   IF latest.refresh # 0 THEN latest.refresh ELSE @]
            /\ UNCHANGED <<profile, refresh_lock>>
       ELSE Finish(w)
  /\ UNCHANGED <<file, backoffs, provider, late, loose>>

\* "Re-load after waiting for lock to avoid duplicate refreshes."
LeaveRecheck(w) ==
  /\ stage[w] = "recheck" /\ where[w] = "inside" /\ lock' = None
  /\ LET latest == data[w].profiles[profile[w]] IN
     IF latest # None /\ latest.access \in expiring /\ Slot(w) \notin backoffs
       THEN /\ GoesOn(w, "send") /\ UNCHANGED data
            /\ refresh_token' = [refresh_token EXCEPT ![w] =
                                   IF latest.refresh # 0 THEN latest.refresh ELSE @]
            /\ UNCHANGED <<profile, refresh_lock>>
       ELSE Finish(w)
  /\ UNCHANGED <<file, backoffs, provider, late, loose>>

Spent == {x[2] : x \in spent}
Valid(w) == refresh_token[w] \notin Spent
Exchanged(w) == IF rotates THEN spent \cup {<<ProcessOf[w], refresh_token[w]>>} ELSE spent

Answered_KeepsRefreshToken(w) ==
  /\ stage[w] = "send" /\ Valid(w) /\ issued < MaxIssued
  /\ issued' = issued + 1 /\ spent' = Exchanged(w)
  /\ tokens' = [tokens EXCEPT ![w] =
       Fresh(issued + 1, data[w].profiles[profile[w]].refresh)]
  /\ backoffs' = backoffs \ {Slot(w)} /\ stage' = [stage EXCEPT ![w] = "save"]
  /\ Forgets(w)
  /\ UNCHANGED <<file, lock, kind, profile, where, refresh_token, attempts,
                 refresh_lock, expiring, rotates, late, loose, lost>>

\* A provider that does not rotate gives no refresh token: that of the store is kept.
Answered(w) ==
  /\ stage[w] = "send" /\ Valid(w) /\ issued < MaxIssued
  /\ issued' = issued + 1 /\ spent' = Exchanged(w)
  /\ tokens' = [tokens EXCEPT ![w] =
       Fresh(issued + 1, IF rotates THEN issued + 1
                         ELSE data[w].profiles[profile[w]].refresh)]
  /\ backoffs' = backoffs \ {Slot(w)} /\ stage' = [stage EXCEPT ![w] = "save"]
  /\ Forgets(w)
  /\ UNCHANGED <<file, lock, kind, profile, where, refresh_token, attempts,
                 refresh_lock, expiring, rotates, late, loose, lost>>

AnotherAttempt_OffByOne(w) == attempts[w] + 1 <= OAUTH_REFRESH_MAX_ATTEMPTS

\* refresh_*_access_token_with_retries sends the same token again
AnotherAttempt(w) == attempts[w] + 1 < OAUTH_REFRESH_MAX_ATTEMPTS

Fails(w, gone) ==
  IF AnotherAttempt(w)
    THEN /\ attempts' = [attempts EXCEPT ![w] = @ + 1] /\ lost' = lost \cup gone
         /\ UNCHANGED <<kind, profile, stage, where, data, refresh_token, tokens,
                        refresh_lock, backoffs>>
    ELSE /\ Ends({w}, "done", gone)
         /\ backoffs' = backoffs \cup {Slot(w)}

\* the request does not get through, or the provider refuses the token
Refused(w) ==
  /\ stage[w] = "send" /\ Fails(w, {})
  /\ UNCHANGED <<file, lock, provider, late, loose>>

\* the provider makes the exchange, and its answer does not arrive
AnswerLost(w) ==
  /\ stage[w] = "send" /\ Valid(w) /\ rotates
  /\ Fails(w, {refresh_token[w]})
  /\ spent' = Exchanged(w)
  /\ UNCHANGED <<file, lock, issued, expiring, rotates, late, loose>>

-----------------------------------------------------------------------------
(* The calls, and what happens to them.                                    *)

\* A login has its tokens from the provider before it asks the store to keep them.
Start(w) ==
  /\ stage[w] = "idle"
  /\ \E call \in Calls[w] : LET k == call[1]  p == call[2] IN
       /\ p = None => k = "token"
       /\ kind' = [kind EXCEPT ![w] = k] /\ profile' = [profile EXCEPT ![w] = p]
       /\ stage' = [stage EXCEPT ![w] =
            CASE k = "token" -> "check" [] k = "activate" -> "look" [] OTHER -> "save"]
       /\ IF k = "login"
            THEN /\ issued < MaxIssued /\ issued' = issued + 1
                 /\ \E refresh \in {0, issued + 1} :
                      tokens' = [tokens EXCEPT ![w] = Fresh(issued + 1, refresh)]
            ELSE UNCHANGED <<issued, tokens>>
  /\ UNCHANGED <<file, lock, where, data, refresh_token, attempts, refresh_lock, backoffs,
                 expiring, rotates, spent, late, loose, lost>>

Running(w) == stage[w] \notin {"idle"} \cup Ended

\* The future of a request is dropped at an await (the message was interrupted or ran out
\* of time).  The guards are dropped at once, but an operation on a file that has begun
\* runs to its end on another thread: a lock file may be made that no guard removes, and
\* a write may replace the store after its lock has been released.
Abandon(w) ==
  /\ Running(w) /\ kind[w] = "token"
  /\ \/ /\ lock' = IF where[w] # "outside" THEN None ELSE lock
        /\ UNCHANGED <<late, loose>>
     \/ /\ Wants(w) /\ lock = None /\ lock' = w
        /\ UNCHANGED <<late, loose>>
     \/ /\ stage[w] = "save" /\ where[w] = "inside" /\ Applies(w, data[w])
        /\ lock' = None /\ loose' = TRUE
        /\ late' = [late EXCEPT ![w] = Changed(w, data[w])]
  /\ Finish(w)
  /\ UNCHANGED <<file, backoffs, provider>>

LateWrite(w) ==
  /\ late[w] # None
  /\ file' = late[w] /\ late' = [late EXCEPT ![w] = None]
  /\ UNCHANGED <<lock, work, refresh_lock, backoffs, provider, loose, lost>>

\* A process is killed: what it had in memory is gone, its lock file is not.
Crash(process) ==
  LET W == {w \in Workers : ProcessOf[w] = process /\ Running(w)} IN
  /\ W # {}
  /\ Ends(W, "dead", Forgotten(W))
  /\ backoffs' = {x \in backoffs : x[1] # process}
  /\ late' = [w \in Workers |-> IF ProcessOf[w] = process THEN None ELSE late[w]]
  /\ UNCHANGED <<file, lock, provider, loose>>

Expires(n) ==
  /\ n \in 1..issued \ expiring /\ expiring' = expiring \cup {n}
  /\ UNCHANGED <<file, lock, work, refresh_lock, backoffs, issued, rotates, spent, late,
                 loose, lost>>

BackoffEnds(x) ==
  /\ x \in backoffs /\ backoffs' = backoffs \ {x}
  /\ UNCHANGED <<file, lock, work, refresh_lock, provider, late, loose, lost>>

\* what a worker does by itself; the answer of the provider is not: the client that asks
\* for it has no timeout
Step(w) ==
  \/ Enter(w) \/ TimeOut(w) \/ Commit(w) \/ LeaveSaved(w) \/ LeaveLook(w)
  \/ LeaveCheck(w) \/ LockMutex(w) \/ LeaveRecheck(w) \/ LeaveWithError(w)

Exchange(w) == Answered(w) \/ Refused(w) \/ AnswerLost(w)

Next ==
  \/ \E w \in Workers : Start(w) \/ Step(w) \/ Exchange(w) \/ Abandon(w) \/ LateWrite(w)
  \/ \E process \in Processes : Crash(process)
  \/ \E n \in Ids : Expires(n)
  \/ \E x \in Processes \X Profiles : BackoffEnds(x)

Spec == Init /\ [][Next]_vars
LiveSpec == Spec /\ \A w \in Workers : WF_vars(Step(w))
-----------------------------------------------------------------------------
(* Properties.                                                             *)

\* Whatever the number of processes, a change of the store is one operation applied to
\* the store as it is: no operation writes back a profile, a removal or an active profile
\* that it read before another one changed it, and a refresh never brings a removed
\* profile back.  (Until a dropped request leaves a write behind.)
Serialised ==
  [][file' # file /\ ~loose =>
       \E w \in Workers :
         /\ stage[w] = "save" /\ where[w] = "inside"
         /\ Applies(w, file) /\ file' = Changed(w, file)]_vars

\* The refresh token in the store can be used, unless a worker has its successor and will
\* save it, or the successor was lost on its way.  (The provider takes a token once.)
StoredTokenIsLive ==
  ~loose =>
    \A p \in Profiles :
      /\ file.profiles[p] # None
      /\ file.profiles[p].refresh \in Spent \ lost
      => \E w \in Workers : /\ stage[w] = "save" /\ kind[w] = "token" /\ where[w] # "leaving"
                            /\ profile[w] = p /\ refresh_token[w] = file.profiles[p].refresh

\* "avoid duplicate refreshes": no task sends a refresh token that its process has
\* exchanged, unless the successor was lost, or a login in between left no refresh token
\* in the store, so that the one of the first load is sent.
NoDuplicateRefresh ==
  ~loose =>
    \A w \in Workers :
      /\ stage[w] = "send" /\ refresh_token[w] \notin lost
      /\ data[w].profiles[profile[w]].refresh # 0
      => <<ProcessOf[w], refresh_token[w]>> \notin spent

\* After a failure no task of the process asks for tokens of the profile until the
\* backoff has ended, whatever it checked before it waited for the others.
BackoffRespected == \A w \in Workers : stage[w] = "send" => Slot(w) \notin backoffs

\* Every operation ends, also when a process died with the lock file or a dropped request
\* left one, unless it waits for a request of its process that waits for the provider.
EveryOperationEnds ==
  <>[](\A w \in Workers :
         \/ ~Running(w)
         \/ \E u \in Workers : stage[u] = "send" /\ Slot(u) = Slot(w))

Numbers(set) == IF set = None THEN {} ELSE {set.access, set.refresh} \ {0}

\* The tokens of one account never get into the profile of another, and no refresh spends
\* or replaces those of another: whatever is killed, dropped, overwritten with an older
\* store or written late.  (The active profile may change while a refresh is under way.)
AccountsNotMixed ==
  \A p, q \in Profiles : p # q =>
    /\ Numbers(file.profiles[p]) \cap Numbers(file.profiles[q]) = {}
    /\ \A w \in Workers : profile[w] = p =>
         ({refresh_token[w]} \cup Numbers(tokens[w])) \cap Numbers(file.profiles[q]) = {}
=============================================================================
