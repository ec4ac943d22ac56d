------------------------------- MODULE Pairing -------------------------------
(***************************************************************************)
(* How clients get in: the one-time codes of PairingGuard                  *)
(* (security/pairing.rs) at the two doors that use it, POST /pair of the   *)
(* gateway and /bind of the Telegram channel, and config.toml, where both  *)
(* doors keep whom they let in.  PUT /api/config and the tools that change *)
(* other settings replace that file as a whole, too.                       *)
(*                                                                         *)
(* A worker is one request, message or tool call.  A guard takes its locks *)
(* one after the other: a step is what is done under one of them.  A       *)
(* client is a rate key of the gateway, or a chat with one account.        *)
(* Tokens and their hashes are the client they were given to; config.toml  *)
(* is the set of its grants.  Time is abstract: a lockout may be over, and *)
(* a record old enough to be pruned, whenever the code looks.  Pairing is  *)
(* required, and the Telegram section is present.                          *)
(***************************************************************************)
EXTENDS Integers, FiniteSets

CONSTANTS
  Clients, Workers,
  Visitors,              \* the clients that come to a door
  DoorOf,                \* the door a worker serves, or which other writer it is
  MAX_PAIR_ATTEMPTS, MAX_TRACKED_CLIENTS,
  MaxRestarts,           \* bound: restarts of the daemon
  None

Doors == {"gateway", "telegram"}
Writers == {"api", "tools"}

ASSUME PairingAssumption ==
  /\ IsFiniteSet(Workers) /\ IsFiniteSet(Clients)
  /\ Visitors \in [Doors -> SUBSET Clients]
  /\ DoorOf \in [Workers -> Doors \cup Writers]
  /\ MAX_PAIR_ATTEMPTS \in Nat \ {0} /\ MAX_TRACKED_CLIENTS \in Nat \ {0}
  /\ MaxRestarts \in Nat
  /\ None \notin Clients

VARIABLES
  guarded,               \* the doors with a guard
  code,                  \* the doors whose code was printed and not used
  admitted,              \* paired_tokens of the gateway, allowed_users of Telegram
  attempts,              \* failed_attempts of a guard: the count of a client, or 0
                         \* without a record; there is a lockout from MAX_PAIR_ATTEMPTS on
  disk,                  \* config.toml
  memory,                \* the configuration of the gateway (AppState.config)
  client, right,         \* of a worker: whom it lets in (None: it changes other settings),
                         \* and whether it brings the code
  stage, copy,           \* the part it is in, and the configuration it is about to save
  dropped,               \* the requests whose handler is gone while try_pair goes on
  restarts,
  admissions,            \* auxiliary: how many clients were let in since the daemon started
  saved                  \* auxiliary: the grants that were confirmed as saved

guard == <<guarded, code, admitted, attempts>>
request == <<client, right, stage, copy, dropped>>
vars == <<guard, disk, memory, request, restarts, admissions, saved>>

Grants == Doors \X Clients
Counts == 0..(MAX_PAIR_ATTEMPTS - 1 + Cardinality(Workers))
Stages == {"idle", "compare", "count", "load", "save", "install"}

Tracked(d) == {c \in Clients : attempts[d][c] # 0}

TypeOK ==
  /\ guarded \subseteq Doors /\ code \subseteq guarded
  /\ admitted \in [Doors -> SUBSET Clients]
  /\ attempts \in [Doors -> [Clients -> Counts]]
  /\ \A d \in Doors : Cardinality(Tracked(d)) <= MAX_TRACKED_CLIENTS
  /\ disk \subseteq Grants /\ memory \subseteq Grants
  /\ client \in [Workers -> Clients \cup {None}]
  /\ right \in [Workers -> BOOLEAN]
  /\ stage \in [Workers -> Stages]
  /\ copy \in [Workers -> SUBSET Grants]
  /\ dropped \subseteq Workers
  /\ restarts \in 0..MaxRestarts
  /\ admissions \in [Doors -> Nat]
  /\ saved \subseteq Grants

GrantedAt(d, config) == {c \in Clients : <<d, c>> \in config}
Closed(config) == {d \in Doors : GrantedAt(d, config) = {}}
NoRecords == [d \in Doors |-> [c \in Clients |-> 0]]

\* nobody has paired yet
Init ==
  /\ guarded = Doors /\ code = Doors
  /\ admitted = [d \in Doors |-> {}] /\ attempts = NoRecords
  /\ disk = {} /\ memory = {}
  /\ client = [w \in Workers |-> None]
  /\ right = [w \in Workers |-> FALSE] /\ stage = [w \in Workers |-> "idle"]
  /\ copy = [w \in Workers |-> {}] /\ dropped = {}
  /\ restarts = 0
  /\ admissions = [d \in Doors |-> 0]
  /\ saved = {}

Ends(w) ==
  /\ client' = [client EXCEPT ![w] = None]
  /\ right' = [right EXCEPT ![w] = FALSE] /\ stage' = [stage EXCEPT ![w] = "idle"]
  /\ copy' = [copy EXCEPT ![w] = {}] /\ dropped' = dropped \ {w}

\* What code it brought matters until it is compared.
GoesOn(w, next) ==
  /\ stage' = [stage EXCEPT ![w] = next] /\ right' = [right EXCEPT ![w] = FALSE]
  /\ UNCHANGED <<client, copy, dropped>>

-----------------------------------------------------------------------------
(* try_pair_blocking.                                                      *)

Locked_OffByOne(d, c) == attempts[d][c] > MAX_PAIR_ATTEMPTS

Locked(d, c) == attempts[d][c] >= MAX_PAIR_ATTEMPTS

Without(gone, counts) == [c \in Clients |-> IF c \in gone THEN 0 ELSE counts[c]]

Remove(d, gone) == attempts' = [attempts EXCEPT ![d] = Without(gone, @)]

\* An account that Telegram lets in is never asked for a code.
MayTry(d, c) == d \in guarded /\ c \in Visitors[d] /\ (d = "telegram" => c \notin admitted[d])

Attempt_KeepsLockout(w, c, withCode) ==
  LET d == DoorOf[w] IN
  /\ stage[w] = "idle" /\ MayTry(d, c) /\ ~Locked(d, c)
  /\ \E old \in SUBSET Tracked(d) : Remove(d, old)
  /\ client' = [client EXCEPT ![w] = c] /\ right' = [right EXCEPT ![w] = withCode]
  /\ stage' = [stage EXCEPT ![w] = "compare"]
  /\ UNCHANGED <<guarded, code, admitted, disk, memory, copy, dropped, restarts,
                 admissions, saved>>

\* the sweep, which may be due, and the check of the lockout; one that is over is reset
Attempt(w, c, withCode) ==
  LET d == DoorOf[w] IN
  /\ stage[w] = "idle" /\ MayTry(d, c)
  /\ \E old \in SUBSET Tracked(d) : Remove(d, old \cup {x \in {c} : Locked(d, x)})
  /\ client' = [client EXCEPT ![w] = c] /\ right' = [right EXCEPT ![w] = withCode]
  /\ stage' = [stage EXCEPT ![w] = "compare"]
  /\ UNCHANGED <<guarded, code, admitted, disk, memory, copy, dropped, restarts,
                 admissions, saved>>

\* a client that is locked out; the sweep may remove the records of others
SentAway(w, c) ==
  LET d == DoorOf[w] IN
  /\ stage[w] = "idle" /\ MayTry(d, c) /\ Locked(d, c)
  /\ \E old \in SUBSET (Tracked(d) \ {c}) : Remove(d, old)
  /\ UNCHANGED <<guarded, code, admitted, disk, memory, request, restarts, admissions,
                 saved>>

\* A dropped request has its client admitted, and nobody left to save and to tell it.
AfterAdmission(w) == IF w \in dropped THEN Ends(w) ELSE GoesOn(w, "load")

CodeMatches_KeepsCode(w) ==
  LET d == DoorOf[w] IN
  /\ stage[w] = "compare" /\ right[w] /\ d \in code
  /\ Remove(d, {client[w]})
  /\ admitted' = [admitted EXCEPT ![d] = @ \cup {client[w]}]
  /\ admissions' = [admissions EXCEPT ![d] = @ + 1]
  /\ AfterAdmission(w)
  /\ UNCHANGED <<guarded, code, disk, memory, restarts, saved>>

\* under the lock of the code: the record is removed, the token kept, the code consumed
CodeMatches(w) ==
  LET d == DoorOf[w] IN
  /\ stage[w] = "compare" /\ right[w] /\ d \in code
  /\ code' = code \ {d}
  /\ Remove(d, {client[w]})
  /\ admitted' = [admitted EXCEPT ![d] = @ \cup {client[w]}]
  /\ admissions' = [admissions EXCEPT ![d] = @ + 1]
  /\ AfterAdmission(w)
  /\ UNCHANGED <<guarded, disk, memory, restarts, saved>>

\* The code is consumed and nothing tells whose account it is: nobody is let in.
Unidentified(w) ==
  LET d == DoorOf[w] IN
  /\ stage[w] = "compare" /\ right[w] /\ d \in code /\ d = "telegram"
  /\ code' = code \ {d}
  /\ Remove(d, {client[w]})
  /\ Ends(w)
  /\ UNCHANGED <<guarded, admitted, disk, memory, restarts, admissions, saved>>

\* another code, or one that was used
CodeDiffers(w) ==
  LET d == DoorOf[w] IN
  /\ stage[w] = "compare" /\ ~(right[w] /\ d \in code)
  /\ GoesOn(w, "count")
  /\ UNCHANGED <<guard, disk, memory, restarts, admissions, saved>>

Evictions_OffByOne(d) ==
  IF Cardinality(Tracked(d)) <= MAX_TRACKED_CLIENTS THEN {{}}
  ELSE {gone \in SUBSET Tracked(d) : gone # {}}

\* what is removed when the map is full: what is old, and if that is nothing, one record
Evictions(d) ==
  IF Cardinality(Tracked(d)) < MAX_TRACKED_CLIENTS THEN {{}}
  ELSE {gone \in SUBSET Tracked(d) : gone # {}}

Counted(d, c, gone) == [Without(gone, attempts[d]) EXCEPT ![c] = @ + 1]

CountFailure(w) ==
  LET d == DoorOf[w] IN
  /\ stage[w] = "count"
  /\ \E gone \in Evictions(d) :
       attempts' = [attempts EXCEPT ![d] = Counted(d, client[w], gone)]
  /\ Ends(w)
  /\ UNCHANGED <<guarded, code, admitted, disk, memory, restarts, admissions, saved>>

-----------------------------------------------------------------------------
(* The writers of config.toml.                                             *)

\* The gateway starts from its configuration in memory, Telegram from the file.
Granted(w) ==
  IF DoorOf[w] = "gateway"
    THEN (memory \ ({"gateway"} \X Clients)) \cup ({"gateway"} \X admitted["gateway"])
    ELSE disk \cup {<<"telegram", client[w]>>}

Load(w) ==
  /\ stage[w] = "load"
  /\ copy' = [copy EXCEPT ![w] = Granted(w)] /\ stage' = [stage EXCEPT ![w] = "save"]
  /\ UNCHANGED <<guard, disk, memory, client, right, dropped, restarts, admissions, saved>>

\* A writer that changes other settings: a tool starts from the file, PUT /api/config from
\* what one who is let in has read of the configuration in memory.
Edit(w) ==
  /\ stage[w] = "idle" /\ stage' = [stage EXCEPT ![w] = "save"]
  /\ \/ DoorOf[w] = "tools" /\ copy' = [copy EXCEPT ![w] = disk]
     \/ DoorOf[w] = "api" /\ admitted["gateway"] # {} /\ copy' = [copy EXCEPT ![w] = memory]
  /\ UNCHANGED <<guard, disk, memory, client, right, dropped, restarts, admissions, saved>>

\* What a worker grants is confirmed when it ends.
Confirmed(w) == saved \cup ({<<DoorOf[w], client[w]>>} \cap Grants)

\* Config::save puts the new file in the place of the old one in one rename.
Save(w) ==
  /\ stage[w] = "save"
  /\ disk' = copy[w]
  /\ IF DoorOf[w] \in {"gateway", "api"}
       THEN GoesOn(w, "install") /\ UNCHANGED saved
       ELSE Ends(w) /\ saved' = Confirmed(w)
  /\ UNCHANGED <<guard, memory, restarts, admissions>>

\* the gateway keeps what it saved
Install(w) ==
  /\ stage[w] = "install"
  /\ memory' = copy[w] /\ saved' = Confirmed(w)
  /\ Ends(w)
  /\ UNCHANGED <<guard, disk, restarts, admissions>>

\* The load or the save fails, before or after the rename; the client is told so.
Fails(w) ==
  /\ stage[w] \in {"load", "save"}
  /\ disk' \in IF stage[w] = "save" THEN {disk, copy[w]} ELSE {disk}
  /\ Ends(w)
  /\ UNCHANGED <<guard, memory, restarts, admissions, saved>>

\* The client hangs up, or the request runs out of time: the handler is dropped.  What
\* try_pair has begun on its own thread goes on (without the code that is of no effect),
\* and so does the rename.
Drop(w) ==
  /\ DoorOf[w] # "telegram"
  /\ IF stage[w] = "compare"
       THEN /\ right[w] /\ w \notin dropped /\ dropped' = dropped \cup {w}
            /\ UNCHANGED <<disk, client, right, stage, copy>>
       ELSE /\ stage[w] \in {"load", "save", "install"}
            /\ disk' \in IF stage[w] = "save" THEN {disk, copy[w]} ELSE {disk}
            /\ Ends(w)
  /\ UNCHANGED <<guard, memory, restarts, admissions, saved>>

\* The daemon stops at any moment and starts from config.toml: a door to which nobody
\* has a grant gets a new code, and Telegram has a guard only then.
Restart ==
  /\ restarts < MaxRestarts /\ restarts' = restarts + 1
  /\ code' = Closed(disk) /\ guarded' = {"gateway"} \cup Closed(disk)
  /\ admitted' = [d \in Doors |-> GrantedAt(d, disk)] /\ attempts' = NoRecords
  /\ memory' = disk
  /\ client' = [w \in Workers |-> None]
  /\ right' = [w \in Workers |-> FALSE] /\ stage' = [w \in Workers |-> "idle"]
  /\ copy' = [w \in Workers |-> {}] /\ dropped' = {}
  /\ admissions' = [d \in Doors |-> 0]
  /\ UNCHANGED <<disk, saved>>

-----------------------------------------------------------------------------
Step(w) ==
  \/ CodeMatches(w) \/ Unidentified(w) \/ CodeDiffers(w) \/ CountFailure(w)
  \/ Load(w) \/ Save(w) \/ Install(w)

\* some client of the door comes with the code while no lockout of it runs
Tries(d) == \E w \in Workers, c \in Clients : DoorOf[w] = d /\ Attempt(w, c, TRUE)

Next ==
  \/ \E w \in Workers : Step(w) \/ Edit(w) \/ Fails(w) \/ Drop(w)
  \/ \E w \in Workers, c \in Clients :
       (\E withCode \in BOOLEAN : Attempt(w, c, withCode)) \/ SentAway(w, c)
  \/ Restart

Spec == Init /\ [][Next]_vars

\* Requests make progress, and some client of each door who has read the code tries again
\* when its lockout is over; the answer tells it when that is.
LiveSpec ==
  /\ Spec
  /\ \A w \in Workers : WF_vars(Step(w))
  /\ \A d \in Doors : SF_vars(Tries(d))
-----------------------------------------------------------------------------
(* Properties.                                                             *)

Handlers(d) == {w \in Workers : DoorOf[w] = d}

\* the codes a client has had compared in vain under its record: those counted in it and
\* those that are about to be
Guesses(d, c) ==
  attempts[d][c]
    + Cardinality({w \in Handlers(d) : client[w] = c /\ stage[w] = "count"})

\* A client compares at most MAX_PAIR_ATTEMPTS codes before it is locked out, and one more
\* for each further request that passed the check before the last failure was counted:
\* on Telegram, where one message is handled at a time, there is none.
GuessesBounded ==
  \A d \in Doors, c \in Clients :
    Guesses(d, c) <= MAX_PAIR_ATTEMPTS - 1 + Cardinality(Handlers(d))

\* From one start of the daemon to the next a door lets one client in, and none if it
\* started with a grant, whatever attempts run together and whatever requests are dropped.
OneAdmissionPerStart ==
  \A d \in Doors :
    /\ admissions[d] + Cardinality(code \cap {d}) <= 1
    /\ admissions[d] = 1 => Cardinality(admitted[d]) = 1

\* A client who has the code and keeps trying is let in, whatever others try: no failure
\* and no lockout shuts a door for good.
CodesAreUsed == <>[](code = {})

\* "Already-paired tokens are persisted in config so restarts don't require re-pairing."
NoRepairing == \A d \in code : ~\E c \in Clients : <<d, c>> \in saved
=============================================================================
