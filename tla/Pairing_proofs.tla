--------------------------- MODULE Pairing_proofs ---------------------------
(***************************************************************************)
(* Proofs about Pairing, for any number of clients and requests, any       *)
(* assignment of requests to doors and any limits.                         *)
(***************************************************************************)
EXTENDS Pairing, FiniteSetTheorems, TLAPS

USE PairingAssumption

(* The parts of the inductive invariant.                                   *)

\* a worker that lets somebody in has a client and serves a door
Asks(s) == s \in {"compare", "count", "load"}
Serves(w) == client[w] \in Clients /\ DoorOf[w] \in Doors

\* TypeOK without the bounds of the counts, and who asks is served
Types ==
  /\ guarded \subseteq Doors /\ code \subseteq guarded
  /\ admitted \in [Doors -> SUBSET Clients]
  /\ attempts \in [Doors -> [Clients -> Nat]]
  /\ disk \subseteq Grants /\ memory \subseteq Grants
  /\ client \in [Workers -> Clients \cup {None}]
  /\ right \in [Workers -> BOOLEAN]
  /\ stage \in [Workers -> Stages]
  /\ \A w \in Workers : Asks(stage[w]) => Serves(w)
  /\ copy \in [Workers -> SUBSET Grants]
  /\ dropped \subseteq Workers
  /\ restarts \in 0..MaxRestarts
  /\ admissions \in [Doors -> Nat]
  /\ saved \subseteq Grants

\* the requests of a client that passed the check and are not counted yet
Passed(d, c) ==
  {w \in Handlers(d) : client[w] = c /\ stage[w] \in {"compare", "count"}}

\* what a record counts, with what is on its way to it
CountsBounded ==
  \A d \in Doors, c \in Clients :
    attempts[d][c] + Cardinality(Passed(d, c))
      <= MAX_PAIR_ATTEMPTS - 1 + Cardinality(Handlers(d))

MapBounded == \A d \in Doors : Cardinality(Tracked(d)) <= MAX_TRACKED_CLIENTS

\* a code that was not used has let nobody in; one that was has let one client in
CodeOnce ==
  \A d \in Doors :
    /\ d \in code => admissions[d] = 0 /\ admitted[d] = {}
    /\ admissions[d] \in {0, 1}
    /\ admissions[d] = 1 => \E c \in Clients : admitted[d] = {c}

Inv == Types /\ CountsBounded /\ MapBounded /\ CodeOnce

-----------------------------------------------------------------------------
(* Types.                                                                  *)

LEMMA WithoutType ==
  ASSUME NEW counts \in [Clients -> Nat], NEW gone
  PROVE  /\ Without(gone, counts) \in [Clients -> Nat]
         /\ \A c \in Clients : Without(gone, counts)[c] = IF c \in gone THEN 0 ELSE counts[c]
BY DEF Without

LEMMA RemoveTypes ==
  ASSUME Types, NEW d \in Doors, NEW gone, Remove(d, gone)
  PROVE  /\ attempts' \in [Doors -> [Clients -> Nat]]
         /\ \A e \in Doors, c \in Clients :
              attempts'[e][c] = IF e = d /\ c \in gone THEN 0 ELSE attempts[e][c]
<1>1. attempts \in [Doors -> [Clients -> Nat]]  BY DEF Types
<1>2. attempts' = [attempts EXCEPT ![d] = Without(gone, attempts[d])]  BY DEF Remove
<1>3. Without(gone, attempts[d]) \in [Clients -> Nat]  BY <1>1, WithoutType
<1>4. \A c \in Clients : Without(gone, attempts[d])[c] = IF c \in gone THEN 0 ELSE attempts[d][c]
  BY <1>1, WithoutType
<1> QED BY <1>1, <1>2, <1>3, <1>4

CountedOnce(d, c, gone) ==
  \A e \in Doors, x \in Clients :
    attempts'[e][x] = IF e = d THEN (IF x \in gone THEN 0 ELSE attempts[e][x])
                                     + (IF x = c THEN 1 ELSE 0)
                      ELSE attempts[e][x]

LEMMA CountTypes ==
  ASSUME Types, NEW d \in Doors, NEW c \in Clients, NEW gone,
         attempts' = [attempts EXCEPT ![d] = Counted(d, c, gone)]
  PROVE  attempts' \in [Doors -> [Clients -> Nat]] /\ CountedOnce(d, c, gone)
<1>1. attempts \in [Doors -> [Clients -> Nat]]  BY DEF Types
<1> DEFINE rest == Without(gone, attempts[d])
<1>2. rest \in [Clients -> Nat]  BY <1>1, WithoutType
<1>3. \A x \in Clients : rest[x] = IF x \in gone THEN 0 ELSE attempts[d][x]
  BY <1>1, WithoutType
<1>4. attempts' = [attempts EXCEPT ![d] = [rest EXCEPT ![c] = rest[c] + 1]]  BY DEF Counted
<1> HIDE DEF rest
<1>5. [rest EXCEPT ![c] = rest[c] + 1] \in [Clients -> Nat]  BY <1>2
<1>6. \A x \in Clients : [rest EXCEPT ![c] = rest[c] + 1][x] = rest[x] + (IF x = c THEN 1 ELSE 0)
  BY <1>2
<1>7. attempts' \in [Doors -> [Clients -> Nat]]  BY <1>1, <1>4, <1>5
<1>8. ASSUME NEW e \in Doors, NEW x \in Clients
      PROVE  attempts'[e][x] = IF e = d THEN (IF x \in gone THEN 0 ELSE attempts[e][x])
                                               + (IF x = c THEN 1 ELSE 0)
                               ELSE attempts[e][x]
  <2>1. CASE e = d
    <3>1. attempts'[e] = [rest EXCEPT ![c] = rest[c] + 1]  BY <1>1, <1>4, <2>1
    <3> QED BY <3>1, <1>3, <1>6, <2>1
  <2>2. CASE e # d  BY <1>1, <1>4, <2>2
  <2> QED BY <2>1, <2>2
<1> QED BY <1>7, <1>8 DEF CountedOnce

\* the locals of the requests when one of them ends
LEMMA EndsTypes ==
  ASSUME Types, NEW w \in Workers, Ends(w)
  PROVE  /\ client' \in [Workers -> Clients \cup {None}]
         /\ right' \in [Workers -> BOOLEAN]
         /\ stage' \in [Workers -> Stages]
         /\ \A x \in Workers : Asks(stage'[x]) => Serves(x)'
         /\ copy' \in [Workers -> SUBSET Grants]
         /\ dropped' \subseteq Workers
         /\ \A x \in Workers : x # w => stage'[x] = stage[x] /\ client'[x] = client[x]
         /\ stage'[w] = "idle"
BY DEF Types, Ends, Stages, Asks, Serves

LEMMA GoesOnTypes ==
  ASSUME Types, NEW w \in Workers, NEW next \in Stages, Asks(next) => Serves(w), GoesOn(w, next)
  PROVE  /\ client' \in [Workers -> Clients \cup {None}]
         /\ right' \in [Workers -> BOOLEAN]
         /\ stage' \in [Workers -> Stages]
         /\ \A x \in Workers : Asks(stage'[x]) => Serves(x)'
         /\ copy' \in [Workers -> SUBSET Grants]
         /\ dropped' \subseteq Workers
         /\ \A x \in Workers : x # w => stage'[x] = stage[x] /\ client'[x] = client[x]
         /\ stage'[w] = next /\ client'[w] = client[w]
BY DEF Types, GoesOn, Serves

LEMMA GrantedType ==
  ASSUME Types, NEW w \in Workers
  PROVE  /\ stage[w] = "load" => Granted(w) \subseteq Grants
         /\ Confirmed(w) \subseteq Grants
BY DEF Types, Granted, Confirmed, Grants, Doors, Asks, Serves

\* Who tries or asks does so at a door.
LEMMA AtADoor ==
  ASSUME Types, NEW w \in Workers
  PROVE  /\ \A c \in Clients : MayTry(DoorOf[w], c) => DoorOf[w] \in Doors
         /\ Asks(stage[w]) => DoorOf[w] \in Doors /\ client[w] \in Clients
BY DEF Types, MayTry, Serves

LEMMA InitTypes == Init => Types
BY DEF Init, Types, NoRecords, Stages, Asks

LEMMA AttemptTypes ==
  ASSUME Types, NEW w \in Workers, NEW c \in Clients, NEW withCode \in BOOLEAN,
         Attempt(w, c, withCode)
  PROVE  Types'
<1> DEFINE d == DoorOf[w]
<1>1. d \in Doors  BY AtADoor DEF Attempt
<1>2. PICK gone : Remove(d, gone)  BY DEF Attempt
<1>3. attempts' \in [Doors -> [Clients -> Nat]]  BY <1>1, <1>2, RemoveTypes
<1>4. /\ client' = [client EXCEPT ![w] = c] /\ right' = [right EXCEPT ![w] = withCode]
      /\ stage' = [stage EXCEPT ![w] = "compare"]
      /\ UNCHANGED <<guarded, code, admitted, disk, memory, copy, dropped, restarts,
                     admissions, saved>>
  BY DEF Attempt
<1>5. /\ client' \in [Workers -> Clients \cup {None}] /\ right' \in [Workers -> BOOLEAN]
      /\ stage' \in [Workers -> Stages]
      /\ \A x \in Workers : Asks(stage'[x]) => Serves(x)'
  BY <1>1, <1>4 DEF Types, Stages, Asks, Serves
<1> QED BY <1>3, <1>4, <1>5 DEF Types

LEMMA MatchTypes ==
  ASSUME Types, NEW w \in Workers, CodeMatches(w)
  PROVE  Types'
<1> DEFINE d == DoorOf[w]
<1>1. d \in Doors  BY AtADoor DEF CodeMatches, Asks
<1>2. /\ stage[w] = "compare" /\ client[w] \in Clients /\ code' = code \ {d}
      /\ Remove(d, {client[w]})
      /\ admitted' = [admitted EXCEPT ![d] = @ \cup {client[w]}]
      /\ admissions' = [admissions EXCEPT ![d] = @ + 1]
      /\ AfterAdmission(w)
      /\ UNCHANGED <<guarded, disk, memory, restarts, saved>>
  BY AtADoor DEF CodeMatches, Asks
<1>3. attempts' \in [Doors -> [Clients -> Nat]]  BY <1>1, <1>2, RemoveTypes
<1>4. admitted' \in [Doors -> SUBSET Clients] /\ admissions' \in [Doors -> Nat]
  BY <1>1, <1>2 DEF Types
<1>5. Ends(w) \/ GoesOn(w, "load")  BY <1>2 DEF AfterAdmission
<1>6. /\ client' \in [Workers -> Clients \cup {None}] /\ right' \in [Workers -> BOOLEAN]
      /\ stage' \in [Workers -> Stages]
      /\ \A x \in Workers : Asks(stage'[x]) => Serves(x)'
      /\ copy' \in [Workers -> SUBSET Grants] /\ dropped' \subseteq Workers
  <2>1. CASE Ends(w)  BY <2>1, EndsTypes
  <2>2. CASE GoesOn(w, "load")
    <3>1. "load" \in Stages /\ Serves(w)  BY <1>1, <1>2 DEF Stages, Serves
    <3> QED BY <2>2, <3>1, GoesOnTypes
  <2> QED BY <1>5, <2>1, <2>2
<1> QED BY <1>2, <1>3, <1>4, <1>6 DEF Types

LEMMA UnidentifiedTypes ==
  ASSUME Types, NEW w \in Workers, Unidentified(w)
  PROVE  Types'
<1>1. PICK e \in Doors : e = DoorOf[w]  BY AtADoor DEF Unidentified, Asks
<1>2. Remove(e, {client[w]}) /\ Ends(w) /\ code' \subseteq code
  BY <1>1 DEF Unidentified
<1>3. attempts' \in [Doors -> [Clients -> Nat]]
  <2>1. PICK gone : gone = {client[w]}  OBVIOUS
  <2> QED BY <1>2, <2>1, RemoveTypes
<1> QED BY <1>2, <1>3, EndsTypes DEF Unidentified, Types

LEMMA NextTypes ==
  ASSUME Types, [Next]_vars
  PROVE  Types'
<1>1. ASSUME NEW w \in Workers, NEW c \in Clients, NEW withCode \in BOOLEAN,
             Attempt(w, c, withCode)
      PROVE  Types'
  BY <1>1, AttemptTypes
<1>2. ASSUME NEW w \in Workers, NEW c \in Clients, SentAway(w, c)
      PROVE  Types'
  <2>0. PICK e \in Doors : e = DoorOf[w]  BY <1>2, AtADoor DEF SentAway
  <2>1. PICK gone : Remove(e, gone)  BY <1>2, <2>0 DEF SentAway
  <2>2. attempts' \in [Doors -> [Clients -> Nat]]  BY <2>1, RemoveTypes
  <2> QED BY <1>2, <2>2 DEF SentAway, Types, request, Serves
<1>3. ASSUME NEW w \in Workers, CodeMatches(w)  PROVE Types'
  BY <1>3, MatchTypes
<1>4. ASSUME NEW w \in Workers, CodeDiffers(w)  PROVE Types'
  <2>1. Serves(w) /\ "count" \in Stages /\ GoesOn(w, "count")
    BY <1>4 DEF CodeDiffers, Stages, Types, Asks
  <2> QED BY <1>4, <2>1, GoesOnTypes DEF CodeDiffers, Types, guard
<1>5. ASSUME NEW w \in Workers, CountFailure(w)  PROVE Types'
  <2>0. PICK e \in Doors, c \in Clients : e = DoorOf[w] /\ c = client[w]
    BY <1>5, AtADoor DEF CountFailure, Asks
  <2>1. Ends(w)  BY <1>5 DEF CountFailure
  <2>2. PICK gone : attempts' = [attempts EXCEPT ![e] = Counted(e, c, gone)]
    BY <1>5, <2>0 DEF CountFailure
  <2>3. attempts' \in [Doors -> [Clients -> Nat]]  BY <2>1, <2>2, CountTypes
  <2> QED BY <1>5, <2>1, <2>3, EndsTypes DEF CountFailure, Types
<1>6. ASSUME NEW w \in Workers, Load(w)  PROVE Types'
  <2>1. Granted(w) \subseteq Grants  BY <1>6, GrantedType DEF Load
  <2>2. /\ copy' = [copy EXCEPT ![w] = Granted(w)] /\ stage' = [stage EXCEPT ![w] = "save"]
        /\ UNCHANGED <<client, right, dropped>>
    BY <1>6 DEF Load
  <2>3. copy' \in [Workers -> SUBSET Grants]  BY <2>1, <2>2 DEF Types
  <2>4. /\ stage' \in [Workers -> Stages]
        /\ \A x \in Workers : Asks(stage'[x]) => Serves(x)'
    BY <2>2 DEF Types, Stages, Asks, Serves
  <2> QED BY <1>6, <2>3, <2>4 DEF Load, Types, guard
<1>7. ASSUME NEW w \in Workers, Save(w)  PROVE Types'
  <2>1. /\ stage[w] = "save" /\ "install" \in Stages /\ ~ Asks("install")
        /\ Confirmed(w) \subseteq Grants
    BY <1>7, GrantedType DEF Save, Stages, Asks
  <2>2. disk' \subseteq Grants  BY <1>7 DEF Save, Types
  <2>3. CASE GoesOn(w, "install") /\ UNCHANGED saved
    BY <1>7, <2>1, <2>2, <2>3, GoesOnTypes DEF Save, Types, guard
  <2>4. CASE Ends(w) /\ saved' = Confirmed(w)
    BY <1>7, <2>1, <2>2, <2>4, EndsTypes DEF Save, Types, guard
  <2> QED BY <1>7, <2>3, <2>4 DEF Save
<1>8. ASSUME NEW w \in Workers, Install(w)  PROVE Types'
  <2>1. stage[w] = "install" /\ Ends(w) /\ Confirmed(w) \subseteq Grants
    BY <1>8, GrantedType DEF Install
  <2>2. memory' \subseteq Grants /\ saved' \subseteq Grants  BY <1>8, <2>1 DEF Install, Types
  <2> QED BY <1>8, <2>1, <2>2, EndsTypes DEF Install, Types, guard
<1>9. ASSUME NEW w \in Workers, Fails(w)  PROVE Types'
  <2>1. disk' \subseteq Grants  BY <1>9 DEF Fails, Types
  <2> QED BY <1>9, <2>1, EndsTypes DEF Fails, Types, guard
<1>10. ASSUME NEW w \in Workers, Drop(w)  PROVE Types'
  <2>1. CASE stage[w] = "compare"
    BY <1>10, <2>1 DEF Drop, Types, guard, Serves
  <2>2. CASE stage[w] # "compare"
    <3>1. disk' \subseteq Grants /\ Ends(w)  BY <1>10, <2>2 DEF Drop, Types
    <3> QED BY <1>10, <3>1, EndsTypes DEF Drop, Types, guard
  <2> QED BY <2>1, <2>2
<1>11. CASE Restart
  <2>1. attempts' \in [Doors -> [Clients -> Nat]]  BY <1>11 DEF Restart, NoRecords
  <2>2. /\ admitted' \in [Doors -> SUBSET Clients] /\ admissions' \in [Doors -> Nat]
        /\ code' \subseteq guarded' /\ guarded' \subseteq Doors
    BY <1>11 DEF Restart, GrantedAt, Closed, Doors
  <2>3. restarts' \in 0..MaxRestarts  BY <1>11 DEF Restart, Types
  <2> QED BY <1>11, <2>1, <2>2, <2>3 DEF Restart, Types, Stages, Asks
<1>12. CASE UNCHANGED vars
  BY <1>12 DEF vars, Types, guard, request, Serves
<1>13. ASSUME NEW w \in Workers, Unidentified(w)  PROVE Types'
  BY <1>13, UnidentifiedTypes
<1>14. ASSUME NEW w \in Workers, Edit(w)  PROVE Types'
  <2>1. /\ copy' \in [Workers -> SUBSET Grants] /\ stage' = [stage EXCEPT ![w] = "save"]
        /\ UNCHANGED <<client, right, dropped>>
    BY <1>14 DEF Edit, Types
  <2>2. /\ stage' \in [Workers -> Stages]
        /\ \A x \in Workers : Asks(stage'[x]) => Serves(x)'
    BY <2>1 DEF Types, Stages, Asks, Serves
  <2> QED BY <1>14, <2>1, <2>2 DEF Edit, Types, guard
<1> QED BY <1>1, <1>2, <1>3, <1>4, <1>5, <1>6, <1>7, <1>8, <1>9, <1>10, <1>11, <1>12, <1>13, <1>14
        DEF Next, Step

-----------------------------------------------------------------------------
(* The counts.                                                             *)

LEMMA HandlersFinite ==
  ASSUME NEW d \in Doors
  PROVE  IsFiniteSet(Handlers(d)) /\ Cardinality(Handlers(d)) \in Nat
<1>1. Handlers(d) \in SUBSET Workers /\ IsFiniteSet(Workers)  BY DEF Handlers
<1>2. IsFiniteSet(Handlers(d))  BY ONLY <1>1, FS_Subset
<1> QED BY <1>2, FS_CardinalityType

LEMMA SubsetSize ==
  ASSUME NEW S, IsFiniteSet(S), NEW T \in SUBSET S
  PROVE  IsFiniteSet(T) /\ Cardinality(T) \in Nat /\ Cardinality(T) <= Cardinality(S)
<1>1. IsFiniteSet(T) /\ Cardinality(T) <= Cardinality(S)  BY ONLY FS_Subset, IsFiniteSet(S), T \in SUBSET S
<1> QED BY <1>1, FS_CardinalityType

LEMMA PassedSize ==
  ASSUME NEW d \in Doors, NEW c
  PROVE  /\ IsFiniteSet(Passed(d, c)) /\ Cardinality(Passed(d, c)) \in Nat
         /\ Cardinality(Passed(d, c)) <= Cardinality(Handlers(d))
BY HandlersFinite, SubsetSize DEF Passed

LEMMA PassedSizeNext ==
  ASSUME NEW d \in Doors, NEW c
  PROVE  /\ IsFiniteSet(Passed(d, c)') /\ Cardinality(Passed(d, c)') \in Nat
         /\ Cardinality(Passed(d, c)') <= Cardinality(Handlers(d))
<1>1. Passed(d, c)' \in SUBSET Handlers(d)  BY DEF Passed, Handlers
<1> QED BY <1>1, HandlersFinite, SubsetSize

Within(d, c) ==
  attempts[d][c] + Cardinality(Passed(d, c))
    <= MAX_PAIR_ATTEMPTS - 1 + Cardinality(Handlers(d))

\* nothing is counted, and nothing is on its way that was not
LEMMA CountFalls ==
  ASSUME Types, NEW d \in Doors, NEW c \in Clients, Within(d, c),
         attempts'[d][c] \in Nat, attempts'[d][c] <= attempts[d][c],
         Passed(d, c)' \subseteq Passed(d, c)
  PROVE  Within(d, c)'
<1>1. attempts[d][c] \in Nat  BY DEF Types
<1>2. /\ IsFiniteSet(Passed(d, c)) /\ Cardinality(Passed(d, c)) \in Nat
      /\ Cardinality(Handlers(d)) \in Nat
  BY PassedSize, HandlersFinite
<1>3. /\ Cardinality(Passed(d, c)') \in Nat
      /\ Cardinality(Passed(d, c)') <= Cardinality(Passed(d, c))
  BY <1>2, SubsetSize
<1>4. Handlers(d)' = Handlers(d)  BY DEF Handlers
<1>5. attempts[d][c] + Cardinality(Passed(d, c))
        <= MAX_PAIR_ATTEMPTS - 1 + Cardinality(Handlers(d))
  BY DEF Within
<1>6. attempts'[d][c] + Cardinality(Passed(d, c)')
        <= MAX_PAIR_ATTEMPTS - 1 + Cardinality(Handlers(d))
  BY <1>1, <1>2, <1>3, <1>5
<1> QED BY <1>4, <1>6 DEF Within

LEMMA AttemptCounts ==
  ASSUME Types, CountsBounded, NEW w \in Workers, NEW x \in Clients,
         NEW withCode \in BOOLEAN, Attempt(w, x, withCode),
         NEW d \in Doors, NEW c \in Clients
  PROVE  Within(d, c)'
<1>0. DoorOf[w] \in Doors  BY AtADoor DEF Attempt
<1>1. PICK old : Remove(DoorOf[w], old \cup {y \in {x} : Locked(DoorOf[w], y)})
  BY DEF Attempt
<1> DEFINE gone == old \cup {y \in {x} : Locked(DoorOf[w], y)}
<1>2. /\ attempts' \in [Doors -> [Clients -> Nat]]
      /\ attempts'[d][c] = IF d = DoorOf[w] /\ c \in gone THEN 0 ELSE attempts[d][c]
  BY <1>0, <1>1, RemoveTypes
<1>3. attempts[d][c] \in Nat /\ attempts'[d][c] \in Nat  BY <1>2 DEF Types
<1>4. CASE d = DoorOf[w] /\ c = x
  <2>1. attempts'[d][c] <= MAX_PAIR_ATTEMPTS - 1
    <3>1. CASE Locked(d, c)  BY <3>1, <1>2, <1>4
    <3>2. CASE ~Locked(d, c)
      BY <3>2, <1>2, <1>3 DEF Locked
    <3> QED BY <3>1, <3>2
  <2>2. /\ Cardinality(Passed(d, c)') \in Nat /\ Cardinality(Handlers(d)) \in Nat
        /\ Cardinality(Passed(d, c)') <= Cardinality(Handlers(d))
    BY PassedSizeNext, HandlersFinite
  <2>3. Handlers(d)' = Handlers(d)  BY DEF Handlers
  <2>4. attempts'[d][c] + Cardinality(Passed(d, c)')
          <= MAX_PAIR_ATTEMPTS - 1 + Cardinality(Handlers(d))
    BY <1>3, <2>1, <2>2
  <2> QED BY <2>3, <2>4 DEF Within
<1>5. CASE ~(d = DoorOf[w] /\ c = x)
  <2>1. /\ stage' = [stage EXCEPT ![w] = "compare"] /\ client' = [client EXCEPT ![w] = x]
        /\ stage \in [Workers -> Stages] /\ client \in [Workers -> Clients \cup {None}]
    BY DEF Attempt, Types
  <2>2. Passed(d, c)' \subseteq Passed(d, c)
    <3> SUFFICES ASSUME NEW u \in Workers, DoorOf[u] = d, client'[u] = c,
                        stage'[u] \in {"compare", "count"}
                 PROVE  client[u] = c /\ stage[u] \in {"compare", "count"}
      BY DEF Passed, Handlers
    <3>1. u # w  BY <2>1, <1>5
    <3> QED BY <2>1, <3>1
  <2>3. attempts'[d][c] <= attempts[d][c]  BY <1>2, <1>3
  <2>4. Within(d, c)  BY DEF CountsBounded, Within
  <2> QED BY <1>3, <2>2, <2>3, <2>4, CountFalls
<1> QED BY <1>4, <1>5

LEMMA FailureCounts ==
  ASSUME Types, CountsBounded, NEW w \in Workers, CountFailure(w),
         NEW d \in Doors, NEW c \in Clients
  PROVE  Within(d, c)'
<1>1. stage[w] = "count" /\ client[w] \in Clients /\ Ends(w)
  BY AtADoor DEF CountFailure, Asks
<1>2. PICK gone : attempts' = [attempts EXCEPT ![DoorOf[w]] =
                                 Counted(DoorOf[w], client[w], gone)]
  BY DEF CountFailure
<1>3. DoorOf[w] \in Doors  BY AtADoor DEF CountFailure, Asks
<1>4. /\ attempts' \in [Doors -> [Clients -> Nat]]
      /\ attempts'[d][c] = IF d = DoorOf[w] THEN (IF c \in gone THEN 0 ELSE attempts[d][c])
                                               + (IF c = client[w] THEN 1 ELSE 0)
                           ELSE attempts[d][c]
  <2>1. PICK x \in Clients : x = client[w]  BY <1>1
  <2>2. PICK e \in Doors : e = DoorOf[w]  BY <1>3
  <2>3. attempts' = [attempts EXCEPT ![e] = Counted(e, x, gone)]  BY <1>2, <2>1, <2>2
  <2>4. /\ attempts' \in [Doors -> [Clients -> Nat]]
        /\ attempts'[d][c] = IF d = e THEN (IF c \in gone THEN 0 ELSE attempts[d][c])
                                             + (IF c = x THEN 1 ELSE 0)
                             ELSE attempts[d][c]
    <3>1. attempts' \in [Doors -> [Clients -> Nat]] /\ CountedOnce(e, x, gone)
      BY <2>3, CountTypes
    <3> QED BY <3>1 DEF CountedOnce
  <2> QED BY <2>1, <2>2, <2>4
<1>5. attempts[d][c] \in Nat /\ attempts'[d][c] \in Nat  BY <1>4 DEF Types
<1>6. /\ \A u \in Workers : u # w => stage'[u] = stage[u] /\ client'[u] = client[u]
      /\ stage'[w] = "idle"
  BY <1>1, EndsTypes
<1>7. Passed(d, c)' = Passed(d, c) \ {w}  BY <1>6 DEF Passed, Handlers
<1>8. Within(d, c)  BY DEF CountsBounded, Within
<1>9. CASE d = DoorOf[w] /\ c = client[w]
  <2>1. w \in Passed(d, c)  BY <1>1, <1>9 DEF Passed, Handlers
  <2>2. IsFiniteSet(Passed(d, c)) /\ Cardinality(Passed(d, c)) \in Nat  BY PassedSize
  <2>3. Cardinality(Passed(d, c) \ {w}) = Cardinality(Passed(d, c)) - 1
    BY <2>1, <2>2, FS_RemoveElement
  <2>4. attempts'[d][c] <= attempts[d][c] + 1  BY <1>4, <1>5, <1>9
  <2>5. Handlers(d)' = Handlers(d) /\ Cardinality(Handlers(d)) \in Nat
    BY HandlersFinite DEF Handlers
  <2>6. attempts'[d][c] + Cardinality(Passed(d, c)')
          <= MAX_PAIR_ATTEMPTS - 1 + Cardinality(Handlers(d))
    BY <1>5, <1>7, <1>8, <2>2, <2>3, <2>4, <2>5 DEF Within
  <2> QED BY <2>5, <2>6 DEF Within
<1>10. CASE ~(d = DoorOf[w] /\ c = client[w])
  <2>1. attempts'[d][c] <= attempts[d][c]  BY <1>4, <1>5, <1>10
  <2> QED BY <1>5, <1>7, <1>8, <2>1, CountFalls
<1> QED BY <1>9, <1>10

LEMMA MatchCounts ==
  ASSUME Types, CountsBounded, NEW w \in Workers, CodeMatches(w),
         NEW d \in Doors, NEW c \in Clients
  PROVE  Within(d, c)'
<1>1. PICK e \in Doors : e = DoorOf[w]  BY AtADoor DEF CodeMatches, Asks
<1>2. Remove(e, {client[w]}) /\ stage[w] = "compare" /\ AfterAdmission(w)
  BY <1>1 DEF CodeMatches
<1>3. PICK gone : gone = {client[w]}  OBVIOUS
<1>4. attempts' \in [Doors -> [Clients -> Nat]] /\ attempts'[d][c] <= attempts[d][c]
  <2>1. /\ attempts' \in [Doors -> [Clients -> Nat]]
        /\ attempts'[d][c] = IF d = e /\ c \in gone THEN 0 ELSE attempts[d][c]
    BY <1>2, <1>3, RemoveTypes
  <2>2. attempts[d][c] \in Nat  BY DEF Types
  <2> QED BY <2>1, <2>2
<1>5. Ends(w) \/ GoesOn(w, "load")  BY <1>2 DEF AfterAdmission
<1>6. /\ \A u \in Workers : u # w => stage'[u] = stage[u] /\ client'[u] = client[u]
      /\ stage'[w] \in {"idle", "load"}
  <2>1. CASE Ends(w)  BY <2>1, EndsTypes
  <2>2. CASE GoesOn(w, "load")
    <3>1. "load" \in Stages /\ Serves(w)  BY <1>2 DEF Stages, Types, Asks
    <3> QED BY <2>2, <3>1, GoesOnTypes
  <2> QED BY <1>5, <2>1, <2>2
<1>7. Passed(d, c)' \subseteq Passed(d, c)  BY <1>6 DEF Passed, Handlers
<1>8. Within(d, c)  BY DEF CountsBounded, Within
<1> QED BY <1>4, <1>7, <1>8, CountFalls

\* the steps that leave the records alone
LEMMA QuietCounts ==
  ASSUME Types, CountsBounded, UNCHANGED attempts, NEW d \in Doors, NEW c \in Clients,
         \A w \in Workers :
           stage'[w] \in {"compare", "count"} /\ client'[w] \in Clients
             => stage[w] \in {"compare", "count"} /\ client'[w] = client[w]
  PROVE  Within(d, c)'
<1>1. attempts'[d][c] \in Nat /\ attempts'[d][c] <= attempts[d][c]  BY DEF Types
<1>2. Passed(d, c)' \subseteq Passed(d, c)  BY DEF Passed, Handlers
<1>3. Within(d, c)  BY DEF CountsBounded, Within
<1> QED BY <1>1, <1>2, <1>3, CountFalls

LEMMA EndsQuiet ==
  ASSUME Types, CountsBounded, UNCHANGED attempts, NEW w \in Workers, Ends(w),
         NEW d \in Doors, NEW c \in Clients
  PROVE  Within(d, c)'
BY EndsTypes, QuietCounts

LEMMA NextCounts ==
  ASSUME Types, CountsBounded, [Next]_vars
  PROVE  CountsBounded'
<1> SUFFICES ASSUME NEW d \in Doors, NEW c \in Clients  PROVE Within(d, c)'
  BY DEF CountsBounded, Within
<1>1. ASSUME NEW w \in Workers, NEW x \in Clients, NEW withCode \in BOOLEAN,
             Attempt(w, x, withCode)
      PROVE  Within(d, c)'
  BY <1>1, AttemptCounts
<1>2. ASSUME NEW w \in Workers, NEW x \in Clients, SentAway(w, x)
      PROVE  Within(d, c)'
  <2>1. PICK e \in Doors : e = DoorOf[w]  BY <1>2, AtADoor DEF SentAway
  <2>2. PICK gone : Remove(e, gone)  BY <1>2, <2>1 DEF SentAway
  <2>3. /\ attempts' \in [Doors -> [Clients -> Nat]]
        /\ attempts'[d][c] = IF d = e /\ c \in gone THEN 0 ELSE attempts[d][c]
    BY <2>2, RemoveTypes
  <2>4. attempts[d][c] \in Nat  BY DEF Types
  <2>5. attempts'[d][c] \in Nat /\ attempts'[d][c] <= attempts[d][c]  BY <2>3, <2>4
  <2>6. Passed(d, c)' \subseteq Passed(d, c)  BY <1>2 DEF SentAway, request, Passed, Handlers
  <2>7. Within(d, c)  BY DEF CountsBounded, Within
  <2> QED BY <2>5, <2>6, <2>7, CountFalls
<1>3. ASSUME NEW w \in Workers, CodeMatches(w)  PROVE Within(d, c)'
  BY <1>3, MatchCounts
<1>4. ASSUME NEW w \in Workers, CodeDiffers(w)  PROVE Within(d, c)'
  <2>1. stage[w] = "compare" /\ GoesOn(w, "count") /\ UNCHANGED attempts
    BY <1>4 DEF CodeDiffers, guard
  <2>2. "count" \in Stages /\ Serves(w)  BY <2>1 DEF Stages, Types, Asks
  <2>3. /\ \A x \in Workers : x # w => stage'[x] = stage[x] /\ client'[x] = client[x]
        /\ stage'[w] = "count" /\ client'[w] = client[w]
    BY <2>1, <2>2, GoesOnTypes
  <2> QED BY <2>1, <2>3, QuietCounts
<1>5. ASSUME NEW w \in Workers, CountFailure(w)  PROVE Within(d, c)'
  BY <1>5, FailureCounts
<1>6. ASSUME NEW w \in Workers, Load(w)  PROVE Within(d, c)'
  <2>1. \A x \in Workers : stage'[x] \in {"compare", "count"} => stage'[x] = stage[x]
    BY <1>6 DEF Load, Types
  <2> QED BY <1>6, <2>1, QuietCounts DEF Load, guard
<1>7. ASSUME NEW w \in Workers, Save(w)  PROVE Within(d, c)'
  <2>1. stage[w] = "save" /\ UNCHANGED attempts /\ (Ends(w) \/ GoesOn(w, "install"))
    BY <1>7 DEF Save, guard
  <2>2. CASE Ends(w)  BY <2>1, <2>2, EndsQuiet
  <2>3. CASE GoesOn(w, "install")
    <3>1. \A x \in Workers :
            stage'[x] \in {"compare", "count"} => stage'[x] = stage[x] /\ client'[x] = client[x]
      BY <2>3 DEF GoesOn, Types
    <3> QED BY <2>1, <3>1, QuietCounts
  <2> QED BY <2>1, <2>2, <2>3
<1>8. ASSUME NEW w \in Workers, Install(w)  PROVE Within(d, c)'
  BY <1>8, EndsQuiet DEF Install, guard
<1>9. ASSUME NEW w \in Workers, Fails(w)  PROVE Within(d, c)'
  BY <1>9, EndsQuiet DEF Fails, guard
<1>10. ASSUME NEW w \in Workers, Drop(w)  PROVE Within(d, c)'
  <2>1. CASE stage[w] = "compare"  BY <1>10, <2>1, QuietCounts DEF Drop, guard
  <2>2. CASE stage[w] # "compare"  BY <1>10, <2>2, EndsQuiet DEF Drop, guard
  <2> QED BY <2>1, <2>2
<1>11. CASE Restart
  <2>1. attempts'[d][c] = 0  BY <1>11 DEF Restart, NoRecords
  <2>2. Passed(d, c)' = {}  BY <1>11 DEF Restart, Passed, Handlers
  <2>3. Cardinality(Passed(d, c)') = 0  BY <2>2, FS_EmptySet
  <2>4. Handlers(d)' = Handlers(d) /\ Cardinality(Handlers(d)) \in Nat
    BY HandlersFinite DEF Handlers
  <2>5. attempts'[d][c] + Cardinality(Passed(d, c)')
          <= MAX_PAIR_ATTEMPTS - 1 + Cardinality(Handlers(d))
    BY <2>1, <2>3, <2>4
  <2> QED BY <2>4, <2>5 DEF Within
<1>12. CASE UNCHANGED vars
  <2>1. UNCHANGED <<attempts, stage, client>>  BY <1>12 DEF vars, guard, request
  <2> QED BY <2>1, QuietCounts
<1>13. ASSUME NEW w \in Workers, Unidentified(w)  PROVE Within(d, c)'
  <2>1. PICK e \in Doors : e = DoorOf[w]  BY <1>13, AtADoor DEF Unidentified, Asks
  <2>2. PICK gone : gone = {client[w]}  OBVIOUS
  <2>3. Remove(e, gone) /\ Ends(w)  BY <1>13, <2>1, <2>2 DEF Unidentified
  <2>4. /\ attempts' \in [Doors -> [Clients -> Nat]]
        /\ attempts'[d][c] = IF d = e /\ c \in gone THEN 0 ELSE attempts[d][c]
    BY <2>3, RemoveTypes
  <2>5. attempts'[d][c] \in Nat /\ attempts'[d][c] <= attempts[d][c]  BY <2>4 DEF Types
  <2>6. Passed(d, c)' \subseteq Passed(d, c)  BY <2>3, EndsTypes DEF Passed, Handlers
  <2>7. Within(d, c)  BY DEF CountsBounded, Within
  <2> QED BY <2>5, <2>6, <2>7, CountFalls
<1>14. ASSUME NEW w \in Workers, Edit(w)  PROVE Within(d, c)'
  <2>1. \A x \in Workers : stage'[x] \in {"compare", "count"} => stage'[x] = stage[x]
    BY <1>14 DEF Edit, Types
  <2> QED BY <1>14, <2>1, QuietCounts DEF Edit, guard
<1> QED BY <1>1, <1>2, <1>3, <1>4, <1>5, <1>6, <1>7, <1>8, <1>9, <1>10, <1>11, <1>12, <1>13, <1>14
        DEF Next, Step

LEMMA InitCounts == Init => CountsBounded
<1> SUFFICES ASSUME Init, NEW d \in Doors, NEW c \in Clients
             PROVE  attempts[d][c] + Cardinality(Passed(d, c))
                      <= MAX_PAIR_ATTEMPTS - 1 + Cardinality(Handlers(d))
  BY DEF CountsBounded
<1>1. attempts[d][c] = 0  BY DEF Init, NoRecords
<1>2. Passed(d, c) = {}  BY DEF Init, Passed, Handlers
<1>3. Cardinality(Passed(d, c)) = 0  BY <1>2, FS_EmptySet
<1> QED BY <1>1, <1>3, HandlersFinite

-----------------------------------------------------------------------------
(* The size of the map.                                                    *)

LEMMA TrackedFinite ==
  ASSUME NEW d \in Doors
  PROVE  IsFiniteSet(Tracked(d)) /\ Cardinality(Tracked(d)) \in Nat
<1>1. Tracked(d) \in SUBSET Clients  BY DEF Tracked
<1> QED BY <1>1, SubsetSize

LEMMA TrackedFalls ==
  ASSUME MapBounded, NEW d \in Doors, Tracked(d)' \subseteq Tracked(d)
  PROVE  Cardinality(Tracked(d)') <= MAX_TRACKED_CLIENTS
<1>1. Cardinality(Tracked(d)') \in Nat /\ Cardinality(Tracked(d)') <= Cardinality(Tracked(d))
  BY TrackedFinite, SubsetSize
<1>2. Cardinality(Tracked(d)) \in Nat /\ Cardinality(Tracked(d)) <= MAX_TRACKED_CLIENTS
  BY TrackedFinite DEF MapBounded
<1> QED BY <1>1, <1>2

LEMMA RemoveMap ==
  ASSUME Types, MapBounded, NEW e \in Doors, NEW gone, Remove(e, gone)
  PROVE  MapBounded'
<1> SUFFICES ASSUME NEW d \in Doors
             PROVE  Cardinality(Tracked(d)') <= MAX_TRACKED_CLIENTS
  BY DEF MapBounded
<1>1. \A c \in Clients :
        attempts'[d][c] = IF d = e /\ c \in gone THEN 0 ELSE attempts[d][c]
  BY RemoveTypes
<1>2. Tracked(d)' \subseteq Tracked(d)  BY <1>1 DEF Tracked
<1> QED BY <1>2, TrackedFalls

LEMMA FailureMap ==
  ASSUME Types, MapBounded, NEW w \in Workers, CountFailure(w)
  PROVE  MapBounded'
<1> SUFFICES ASSUME NEW d \in Doors
             PROVE  Cardinality(Tracked(d)') <= MAX_TRACKED_CLIENTS
  BY DEF MapBounded
<1>1. PICK e \in Doors : e = DoorOf[w]  BY AtADoor DEF CountFailure, Asks
<1>2. PICK c \in Clients : c = client[w]  BY AtADoor DEF CountFailure, Asks
<1>3. PICK gone \in Evictions(e) : attempts' = [attempts EXCEPT ![e] = Counted(e, c, gone)]
  BY <1>1, <1>2 DEF CountFailure
<1>4. attempts' \in [Doors -> [Clients -> Nat]] /\ CountedOnce(e, c, gone)
  BY <1>3, CountTypes
<1>5. CASE d # e
  <2>1. \A x \in Clients : attempts'[d][x] = attempts[d][x]  BY <1>4, <1>5 DEF CountedOnce
  <2>2. Tracked(d)' \subseteq Tracked(d)  BY <2>1 DEF Tracked
  <2> QED BY <2>2, TrackedFalls
<1>6. CASE d = e
  <2> DEFINE kept == Tracked(d) \ gone
  <2>1. \A x \in Clients : x # c => attempts'[d][x] = IF x \in gone THEN 0 ELSE attempts[d][x]
    <3> SUFFICES ASSUME NEW x \in Clients, x # c
                 PROVE  attempts'[d][x] = IF x \in gone THEN 0 ELSE attempts[d][x]
      OBVIOUS
    <3>1. attempts'[d][x] = (IF x \in gone THEN 0 ELSE attempts[d][x]) + 0
      BY <1>4, <1>6 DEF CountedOnce
    <3>2. attempts[d][x] \in Nat  BY DEF Types
    <3> QED BY <3>1, <3>2
  <2>2. Tracked(d)' \in SUBSET (kept \cup {c})  BY <2>1 DEF Tracked
  <2>3. IsFiniteSet(Tracked(d)) /\ Cardinality(Tracked(d)) \in Nat
        /\ Cardinality(Tracked(d)) <= MAX_TRACKED_CLIENTS
    BY TrackedFinite DEF MapBounded
  <2>4. /\ IsFiniteSet(kept) /\ Cardinality(kept) \in Nat
        /\ Cardinality(kept) <= Cardinality(Tracked(d))
    BY <2>3, SubsetSize
  <2>5. Cardinality(kept) < MAX_TRACKED_CLIENTS
    <3>1. CASE Cardinality(Tracked(d)) < MAX_TRACKED_CLIENTS  BY <3>1, <2>3, <2>4
    <3>2. CASE ~(Cardinality(Tracked(d)) < MAX_TRACKED_CLIENTS)
      <4>1. gone \in SUBSET Tracked(d) /\ gone # {}
        <5>1. gone \in Evictions(d)  BY <1>3, <1>6
        <5>2. Evictions(d) = {x \in SUBSET Tracked(d) : x # {}}  BY <3>2 DEF Evictions
        <5> QED BY <5>1, <5>2
      <4>2. kept # Tracked(d)  BY <4>1
      <4>3. kept \in SUBSET Tracked(d)  OBVIOUS
      <4> HIDE DEF kept
      <4>4. Cardinality(Tracked(d)) = Cardinality(kept) => Tracked(d) = kept
        BY ONLY <2>3, <4>3, FS_Subset
      <4> QED BY <2>3, <2>4, <4>2, <4>4
    <3> QED BY <3>1, <3>2
  <2> HIDE DEF kept
  <2>6. IsFiniteSet(kept \cup {c}) /\ Cardinality(kept \cup {c}) <= Cardinality(kept) + 1
    <3>1. /\ IsFiniteSet(kept \cup {c})
          /\ Cardinality(kept \cup {c}) = IF c \in kept THEN Cardinality(kept)
                                          ELSE Cardinality(kept) + 1
      BY ONLY <2>4, FS_AddElement
    <3> QED BY <2>4, <3>1
  <2>7. Cardinality(kept \cup {c}) \in Nat  BY <2>6, FS_CardinalityType
  <2>8. /\ Cardinality(Tracked(d)') \in Nat
        /\ Cardinality(Tracked(d)') <= Cardinality(kept \cup {c})
    BY <2>2, <2>6, SubsetSize
  <2> QED BY <2>3, <2>4, <2>5, <2>6, <2>7, <2>8
<1> QED BY <1>5, <1>6

LEMMA NextMap ==
  ASSUME Types, MapBounded, [Next]_vars
  PROVE  MapBounded'
<1>1. ASSUME NEW w \in Workers, NEW c \in Clients, NEW withCode \in BOOLEAN,
             Attempt(w, c, withCode) \/ SentAway(w, c)
      PROVE  MapBounded'
  <2>1. PICK e \in Doors : e = DoorOf[w]  BY <1>1, AtADoor DEF Attempt, SentAway
  <2>2. PICK gone : Remove(e, gone)  BY <1>1, <2>1 DEF Attempt, SentAway
  <2> QED BY <2>2, RemoveMap
<1>2. ASSUME NEW w \in Workers, CodeMatches(w) \/ Unidentified(w)  PROVE MapBounded'
  <2>1. PICK e \in Doors : e = DoorOf[w]  BY <1>2, AtADoor DEF CodeMatches, Unidentified, Asks
  <2>2. PICK gone : Remove(e, gone)  BY <1>2, <2>1 DEF CodeMatches, Unidentified
  <2> QED BY <2>2, RemoveMap
<1>3. ASSUME NEW w \in Workers, CountFailure(w)  PROVE MapBounded'
  BY <1>3, FailureMap
<1>4. ASSUME UNCHANGED attempts  PROVE MapBounded'
  <2>1. \A d \in Doors : Tracked(d)' \subseteq Tracked(d)  BY <1>4 DEF Tracked
  <2> QED BY <2>1, TrackedFalls DEF MapBounded
<1>5. ASSUME NEW w \in Workers,
             \/ CodeDiffers(w) \/ Load(w) \/ Edit(w) \/ Save(w) \/ Install(w)
             \/ Fails(w) \/ Drop(w)
      PROVE  UNCHANGED attempts
  BY <1>5 DEF CodeDiffers, Load, Edit, Save, Install, Fails, Drop, guard
<1>6. CASE Restart
  <2>1. \A d \in Doors : Tracked(d)' \subseteq Tracked(d)
    BY <1>6 DEF Restart, Tracked, NoRecords
  <2> QED BY <2>1, TrackedFalls DEF MapBounded
<1>7. UNCHANGED vars => UNCHANGED attempts  BY DEF vars, guard
<1> QED BY <1>1, <1>2, <1>3, <1>4, <1>5, <1>6, <1>7 DEF Next, Step

LEMMA InitMap == Init => MapBounded
<1> SUFFICES ASSUME Init, NEW d \in Doors  PROVE Cardinality(Tracked(d)) <= MAX_TRACKED_CLIENTS
  BY DEF MapBounded
<1>1. Tracked(d) = {}  BY DEF Init, NoRecords, Tracked
<1>2. Cardinality(Tracked(d)) = 0  BY <1>1, FS_EmptySet
<1> QED BY <1>2

-----------------------------------------------------------------------------
(* The code.                                                               *)

LEMMA InitCode == Init => CodeOnce
BY DEF Init, CodeOnce

LEMMA NextCode ==
  ASSUME Types, CodeOnce, [Next]_vars
  PROVE  CodeOnce'
<1>1. ASSUME NEW w \in Workers, CodeMatches(w)  PROVE CodeOnce'
  <2>1. PICK e \in Doors : e = DoorOf[w]  BY <1>1, AtADoor DEF CodeMatches, Asks
  <2>2. PICK c \in Clients : c = client[w]  BY <1>1, AtADoor DEF CodeMatches, Asks
  <2>3. /\ e \in code /\ code' = code \ {e}
        /\ admitted' = [admitted EXCEPT ![e] = @ \cup {c}]
        /\ admissions' = [admissions EXCEPT ![e] = @ + 1]
    BY <1>1, <2>1, <2>2 DEF CodeMatches
  <2>4. admissions[e] = 0 /\ admitted[e] = {}  BY <2>3 DEF CodeOnce
  <2>5. /\ admitted'[e] = {c} /\ admissions'[e] = 1
        /\ \A d \in Doors : d # e => admitted'[d] = admitted[d] /\ admissions'[d] = admissions[d]
    BY <2>3, <2>4 DEF Types
  <2> QED BY <2>3, <2>5 DEF CodeOnce
<1>2. ASSUME UNCHANGED <<code, admitted, admissions>>  PROVE CodeOnce'
  BY <1>2 DEF CodeOnce
<1>3. ASSUME NEW w \in Workers,
             \/ CodeDiffers(w) \/ CountFailure(w) \/ Load(w) \/ Edit(w) \/ Save(w) \/ Install(w)
             \/ Fails(w) \/ Drop(w)
      PROVE  UNCHANGED <<code, admitted, admissions>>
  BY <1>3 DEF CodeDiffers, CountFailure, Load, Edit, Save, Install, Fails, Drop, guard
<1>4. ASSUME NEW w \in Workers, NEW c \in Clients, NEW withCode \in BOOLEAN,
             Attempt(w, c, withCode) \/ SentAway(w, c)
      PROVE  UNCHANGED <<code, admitted, admissions>>
  BY <1>4 DEF Attempt, SentAway
<1>5. CASE Restart
  BY <1>5 DEF Restart, Closed, CodeOnce
<1>6. UNCHANGED vars => UNCHANGED <<code, admitted, admissions>>  BY DEF vars, guard
<1>7. ASSUME NEW w \in Workers, Unidentified(w)  PROVE CodeOnce'
  BY <1>7 DEF Unidentified, CodeOnce
<1> QED BY <1>1, <1>2, <1>3, <1>4, <1>5, <1>6, <1>7 DEF Next, Step

-----------------------------------------------------------------------------
(* The theorems.                                                           *)

\* The invariant is inductive: types, the count of each record with what is on its way to
\* it, the size of the map and the use of the code.
THEOREM Invariance == Spec => []Inv
<1>1. Init => Inv  BY InitTypes, InitCounts, InitMap, InitCode DEF Inv
<1>2. Inv /\ [Next]_vars => Inv'
  BY NextTypes, NextCounts, NextMap, NextCode DEF Inv
<1> QED BY <1>1, <1>2, PTL DEF Spec

\* The records, the configuration on disk and in memory and the locals of the requests
\* keep their types; a count stays within the limit and the requests in flight, and the
\* map within its capacity.
THEOREM TypeCorrect == Spec => []TypeOK
<1>1. Inv => TypeOK
  <2> SUFFICES ASSUME Inv  PROVE TypeOK
    OBVIOUS
  <2>1. ASSUME NEW d \in Doors, NEW c \in Clients  PROVE attempts[d][c] \in Counts
    <3>1. attempts[d][c] \in Nat /\ Cardinality(Passed(d, c)) \in Nat
      BY PassedSize DEF Inv, Types
    <3>2. attempts[d][c] + Cardinality(Passed(d, c))
            <= MAX_PAIR_ATTEMPTS - 1 + Cardinality(Handlers(d))
      BY DEF Inv, CountsBounded
    <3>3. Handlers(d) \in SUBSET Workers /\ IsFiniteSet(Workers)  BY DEF Handlers
    <3>4. Cardinality(Handlers(d)) \in Nat /\ Cardinality(Handlers(d)) <= Cardinality(Workers)
      BY <3>3, SubsetSize
    <3>5. Cardinality(Workers) \in Nat  BY FS_CardinalityType
    <3> QED BY <3>1, <3>2, <3>4, <3>5 DEF Counts
  <2>2. attempts \in [Doors -> [Clients -> Counts]]
    <3>1. attempts \in [Doors -> [Clients -> Nat]]  BY DEF Inv, Types
    <3>2. ASSUME NEW d \in Doors  PROVE attempts[d] \in [Clients -> Counts]
      BY <2>1, <3>1
    <3> QED BY <3>1, <3>2
  <2> QED BY <2>2 DEF Inv, Types, MapBounded, TypeOK
<1> QED BY <1>1, Invariance, PTL

\* However the checks, comparisons and counts of concurrent attempts interleave, a client
\* has no more codes compared under one record than the limit and the attempts in flight
\* allow.
THEOREM GuessesAreBounded == Spec => []GuessesBounded
<1>1. Inv => GuessesBounded
  <2> SUFFICES ASSUME Inv, NEW d \in Doors, NEW c \in Clients
               PROVE  Guesses(d, c) <= MAX_PAIR_ATTEMPTS - 1 + Cardinality(Handlers(d))
    BY DEF GuessesBounded
  <2> DEFINE counting == {w \in Handlers(d) : client[w] = c /\ stage[w] = "count"}
  <2>1. counting \in SUBSET Passed(d, c)  BY DEF Passed
  <2>2. IsFiniteSet(Passed(d, c)) /\ Cardinality(Passed(d, c)) \in Nat  BY PassedSize
  <2>3. Cardinality(counting) \in Nat /\ Cardinality(counting) <= Cardinality(Passed(d, c))
    BY <2>1, <2>2, SubsetSize
  <2>4. /\ attempts[d][c] \in Nat /\ Cardinality(Handlers(d)) \in Nat
        /\ attempts[d][c] + Cardinality(Passed(d, c))
             <= MAX_PAIR_ATTEMPTS - 1 + Cardinality(Handlers(d))
    BY HandlersFinite DEF Inv, Types, CountsBounded
  <2>5. Guesses(d, c) = attempts[d][c] + Cardinality(counting)  BY DEF Guesses
  <2> HIDE DEF counting
  <2> QED BY <2>2, <2>3, <2>4, <2>5
<1> QED BY <1>1, Invariance, PTL

\* A code is used once: from one start of the daemon to the next a door lets in at most
\* one client.
THEOREM OneAdmission == Spec => []OneAdmissionPerStart
<1>1. Inv => OneAdmissionPerStart
  <2> SUFFICES ASSUME Inv, NEW d \in Doors
               PROVE  /\ admissions[d] + Cardinality(code \cap {d}) <= 1
                      /\ admissions[d] = 1 => Cardinality(admitted[d]) = 1
    BY DEF OneAdmissionPerStart
  <2>1. /\ d \in code => admissions[d] = 0
        /\ admissions[d] \in {0, 1}
        /\ admissions[d] = 1 => \E c \in Clients : admitted[d] = {c}
    BY DEF Inv, CodeOnce
  <2>2. admissions[d] = 1 => Cardinality(admitted[d]) = 1  BY <2>1, FS_Singleton
  <2>3. CASE d \in code
    <3>1. code \cap {d} = {d}  BY <2>3
    <3>2. Cardinality(code \cap {d}) = 1  BY <3>1, FS_Singleton
    <3> QED BY <2>1, <2>2, <2>3, <3>2
  <2>4. CASE d \notin code
    <3>1. code \cap {d} = {}  BY <2>4
    <3>2. Cardinality(code \cap {d}) = 0  BY <3>1, FS_EmptySet
    <3> QED BY <2>1, <2>2, <3>2
  <2> QED BY <2>3, <2>4
<1> QED BY <1>1, Invariance, PTL

-----------------------------------------------------------------------------
(* What loses a confirmed grant.                                           *)

\* Somebody loads a configuration that is going to be out of date when it is saved, or is
\* already: another writer is between its load and its save, or the configuration is that
\* in memory and the file has grants that are not in it.
StaleLoad ==
  \E w \in Workers :
    /\ stage[w] # "save" /\ stage'[w] = "save"
    /\ \/ \E v \in Workers \ {w} : stage[v] = "save"
       \/ DoorOf[w] \in {"gateway", "api"} /\ ~(disk \subseteq memory)

\* what a worker is about to grant; nothing, if it changes other settings
Own(w) == {<<DoorOf[w], client[w]>>} \cap Grants

\* A configuration grants nothing at a door that waits for its code, and only what the
\* gateway knows at the gateway.
Fits(config) ==
  /\ \A d \in code : GrantedAt(d, config) = {}
  /\ GrantedAt("gateway", config) \subseteq admitted["gateway"]

\* The worker's part: who is about to save has all that is on disk, and its own grant.
KeepsGrants(w) ==
  /\ Fits(copy[w])
  /\ stage[w] = "load" => client[w] \in admitted[DoorOf[w]]
  /\ stage[w] = "save" => disk \cup Own(w) \subseteq copy[w]
  /\ stage[w] = "install" => Own(w) \subseteq disk

GrantsInv ==
  /\ saved \subseteq disk
  /\ Fits(disk) /\ Fits(memory)
  /\ \A w \in Workers : KeepsGrants(w)
  /\ \A v, w \in Workers : stage[v] = "save" /\ stage[w] = "save" => v = w

SameWorker(x) == stage'[x] = stage[x] /\ client'[x] = client[x] /\ copy'[x] = copy[x]

\* a worker that is not, or no longer, about to save
GoneBy(x) ==
  /\ stage'[x] \in {"idle", "compare", "count"}
  /\ copy'[x] = copy[x] \/ copy'[x] = {}

\* What fits goes on to fit while codes are used up and clients are let in.
LEMMA StillFits ==
  ASSUME code' \subseteq code, admitted["gateway"] \subseteq admitted'["gateway"],
         NEW config, Fits(config)
  PROVE  /\ \A d \in code' : GrantedAt(d, config) = {}
         /\ GrantedAt("gateway", config) \subseteq admitted'["gateway"]
BY DEF Fits

LEMMA EndsGone ==
  ASSUME Types, NEW w \in Workers, Ends(w)
  PROVE  GoneBy(w) /\ \A x \in Workers \ {w} : SameWorker(x)
BY DEF Types, Ends, GoneBy, SameWorker

LEMMA GoesOnSame ==
  ASSUME Types, NEW w \in Workers, NEW next \in Stages, GoesOn(w, next)
  PROVE  /\ stage'[w] = next /\ client'[w] = client[w] /\ copy'[w] = copy[w]
         /\ \A x \in Workers \ {w} : SameWorker(x)
BY DEF Types, GoesOn, SameWorker

\* The file stays, and nobody comes to save.
LEMMA FileStays ==
  ASSUME Types, GrantsInv, code' \subseteq code,
         \A d \in Doors : admitted[d] \subseteq admitted'[d],
         disk' = disk, memory' = memory, saved' \subseteq disk,
         \A x \in Workers : SameWorker(x) \/ GoneBy(x)
  PROVE  GrantsInv'
<1>1. admitted["gateway"] \subseteq admitted'["gateway"]  BY DEF Doors
<1>2. Fits(disk)' /\ Fits(memory)'
  BY <1>1, StillFits DEF GrantsInv, Fits, GrantedAt
<1>3. ASSUME NEW x \in Workers  PROVE KeepsGrants(x)'
  <2>1. KeepsGrants(x)  BY DEF GrantsInv
  <2>2. CASE SameWorker(x)
    <3>1. Fits(copy[x])'
      BY <1>1, <2>1, <2>2, StillFits DEF KeepsGrants, SameWorker, Fits, GrantedAt
    <3>2. stage'[x] = "load" => client'[x] \in admitted'[DoorOf[x]]
      BY <2>1, <2>2, AtADoor DEF KeepsGrants, SameWorker, Asks
    <3> QED BY <2>1, <2>2, <3>1, <3>2 DEF KeepsGrants, SameWorker, Own
  <2>3. CASE GoneBy(x)
    <3>1. Fits(copy[x])'
      BY <1>1, <2>1, <2>3, StillFits DEF KeepsGrants, GoneBy, Fits, GrantedAt
    <3> QED BY <2>3, <3>1 DEF KeepsGrants, GoneBy
  <2> QED BY <2>2, <2>3
<1>4. \A v, w \in Workers : stage'[v] = "save" /\ stage'[w] = "save" => v = w
  BY DEF GrantsInv, SameWorker, GoneBy
<1> QED BY <1>2, <1>3, <1>4 DEF GrantsInv

\* The file is replaced by the one worker that is about to save.
LEMMA FileReplaced ==
  ASSUME Types, GrantsInv, NEW w \in Workers, stage[w] = "save", disk' = copy[w],
         UNCHANGED <<code, admitted, memory>>, saved' \subseteq saved \cup Own(w),
         GoneBy(w) \/ (stage'[w] = "install" /\ client'[w] = client[w] /\ copy'[w] = copy[w]),
         \A x \in Workers \ {w} : SameWorker(x)
  PROVE  GrantsInv'
<1>1. /\ disk \subseteq disk' /\ Own(w) \subseteq disk' /\ Fits(copy[w]) /\ Fits({})
  BY DEF GrantsInv, KeepsGrants, Fits, GrantedAt
<1>2. saved' \subseteq disk'  BY <1>1 DEF GrantsInv
<1>3. Fits(disk)' /\ Fits(memory)'  BY <1>1 DEF GrantsInv, Fits, GrantedAt
<1>4. ASSUME NEW x \in Workers  PROVE KeepsGrants(x)'
  <2>1. CASE x = w
    <3>1. Fits(copy[w])'  BY <1>1 DEF GoneBy, Fits, GrantedAt
    <3> QED BY <1>1, <2>1, <3>1 DEF KeepsGrants, GoneBy, Own
  <2>2. CASE x # w
    <3>1. KeepsGrants(x) /\ stage[x] # "save" /\ SameWorker(x)  BY <2>2 DEF GrantsInv
    <3>2. Fits(copy[x])'  BY <3>1 DEF KeepsGrants, SameWorker, Fits, GrantedAt
    <3> QED BY <1>1, <3>1, <3>2 DEF KeepsGrants, SameWorker, Own
  <2> QED BY <2>1, <2>2
<1>5. \A x \in Workers : stage'[x] # "save"  BY DEF GrantsInv, SameWorker, GoneBy
<1> QED BY <1>2, <1>3, <1>4, <1>5 DEF GrantsInv

\* Somebody comes to save a configuration that has all that is on disk and its own grant.
LEMMA Loaded ==
  ASSUME Types, GrantsInv, NEW w \in Workers, stage[w] # "save", NEW config,
         disk \cup Own(w) \subseteq config, Fits(config),
         copy' = [copy EXCEPT ![w] = config], stage' = [stage EXCEPT ![w] = "save"],
         UNCHANGED <<code, admitted, disk, memory, saved, client>>,
         ~ StaleLoad
  PROVE  GrantsInv'
<1>1. /\ copy'[w] = config /\ stage'[w] = "save"
      /\ \A x \in Workers \ {w} : SameWorker(x)
  BY DEF Types, SameWorker
<1>2. \A x \in Workers \ {w} : stage[x] # "save"  BY <1>1 DEF StaleLoad
<1>3. Fits(disk)' /\ Fits(memory)'  BY DEF GrantsInv, Fits, GrantedAt
<1>4. ASSUME NEW x \in Workers  PROVE KeepsGrants(x)'
  <2>1. CASE x = w
    <3>1. Fits(copy[w])'  BY <1>1 DEF Fits, GrantedAt
    <3> QED BY <1>1, <2>1, <3>1 DEF KeepsGrants, Own
  <2>2. CASE x # w
    <3>1. KeepsGrants(x) /\ SameWorker(x)  BY <1>1, <2>2 DEF GrantsInv
    <3>2. Fits(copy[x])'  BY <3>1 DEF KeepsGrants, SameWorker, Fits, GrantedAt
    <3> QED BY <3>1, <3>2 DEF KeepsGrants, SameWorker, Own
  <2> QED BY <2>1, <2>2
<1>5. \A u, v \in Workers : stage'[u] = "save" /\ stage'[v] = "save" => u = v
  BY <1>1, <1>2 DEF SameWorker
<1> QED BY <1>3, <1>4, <1>5 DEF GrantsInv

LEMMA LoadKeeps ==
  ASSUME Types, CodeOnce, GrantsInv, NEW w \in Workers, Load(w), ~ StaleLoad
  PROVE  GrantsInv'
<1>1. /\ stage[w] = "load" /\ copy' = [copy EXCEPT ![w] = Granted(w)]
      /\ stage' = [stage EXCEPT ![w] = "save"]
      /\ UNCHANGED <<code, admitted, disk, memory, saved, client>>
  BY DEF Load, guard
<1>2. stage'[w] = "save"  BY <1>1 DEF Types
<1>3. PICK d \in Doors : d = DoorOf[w]  BY <1>1, AtADoor DEF Asks
<1>4. PICK c \in Clients : c = client[w]  BY <1>1, AtADoor DEF Asks
<1>5. c \in admitted[d] /\ d \notin code
  BY <1>1, <1>3, <1>4 DEF GrantsInv, KeepsGrants, CodeOnce
<1>6. Own(w) = {<<d, c>>}  BY <1>3, <1>4 DEF Own, Grants
<1>7. disk \cup Own(w) \subseteq Granted(w) /\ Fits(Granted(w))
  <2>1. CASE d = "gateway"
    <3>1. disk \subseteq memory  BY <1>1, <1>2, <1>3, <2>1 DEF StaleLoad
    <3>2. Granted(w) = (memory \ ({"gateway"} \X Clients)) \cup ({"gateway"} \X admitted["gateway"])
      BY <1>3, <2>1 DEF Granted
    <3>3. disk \subseteq Granted(w)
      <4> SUFFICES ASSUME NEW g \in disk  PROVE g \in Granted(w)
        OBVIOUS
      <4>1. PICK e \in Doors, x \in Clients : g = <<e, x>>  BY DEF Types, Grants
      <4>2. CASE e = "gateway"
        <5>1. x \in admitted["gateway"]  BY <4>1, <4>2 DEF GrantsInv, Fits, GrantedAt
        <5> QED BY <3>2, <4>1, <4>2, <5>1
      <4>3. CASE e # "gateway"  BY <3>1, <3>2, <4>1, <4>3
      <4> QED BY <4>2, <4>3
    <3>4. Fits(Granted(w))
      <4>1. GrantedAt("gateway", Granted(w)) \subseteq admitted["gateway"]
        BY <3>2 DEF GrantedAt
      <4>2. ASSUME NEW e \in code  PROVE GrantedAt(e, Granted(w)) = {}
        <5>1. e # "gateway" /\ GrantedAt(e, memory) = {}
          BY <1>5, <2>1 DEF GrantsInv, Fits
        <5> QED BY <3>2, <5>1 DEF GrantedAt
      <4> QED BY <4>1, <4>2 DEF Fits
    <3> QED BY <1>5, <1>6, <2>1, <3>2, <3>3, <3>4
  <2>2. CASE d = "telegram"
    <3>1. Granted(w) = disk \cup {<<"telegram", c>>}  BY <1>3, <1>4, <2>2 DEF Granted
    <3>2. Fits(Granted(w))  BY <1>5, <2>2, <3>1 DEF GrantsInv, Fits, GrantedAt
    <3> QED BY <1>6, <2>2, <3>1, <3>2
  <2> QED BY <2>1, <2>2 DEF Doors
<1>8. stage[w] # "save"  BY <1>1
<1>9. PICK config : config = Granted(w)  OBVIOUS
<1> QED BY <1>1, <1>7, <1>8, <1>9, Loaded

LEMMA EditKeeps ==
  ASSUME Types, GrantsInv, NEW w \in Workers, Edit(w), ~ StaleLoad
  PROVE  GrantsInv'
<1>1. /\ stage[w] = "idle" /\ stage' = [stage EXCEPT ![w] = "save"]
      /\ UNCHANGED <<code, admitted, disk, memory, saved, client>>
  BY DEF Edit, guard
<1>2. stage'[w] = "save"  BY <1>1 DEF Types
<1>3. PICK config \in {disk, memory} :
        /\ copy' = [copy EXCEPT ![w] = config]
        /\ config = memory => config = disk \/ DoorOf[w] = "api"
  BY DEF Edit
<1>4. DoorOf[w] \notin Doors  BY DEF Edit, Doors
<1>5. Own(w) = {}  BY <1>4 DEF Own, Grants
<1>6. disk \subseteq config  BY <1>1, <1>2, <1>3 DEF StaleLoad
<1>7. Fits(config)  BY <1>3 DEF GrantsInv
<1> QED BY <1>1, <1>3, <1>5, <1>6, <1>7, Loaded

LEMMA NextKeeps ==
  ASSUME Types, CodeOnce, GrantsInv, [Next]_vars, ~ StaleLoad
  PROVE  GrantsInv'
<1>1. ASSUME NEW w \in Workers, NEW c \in Clients, NEW withCode \in BOOLEAN,
             Attempt(w, c, withCode)
      PROVE  GrantsInv'
  <2>1. /\ UNCHANGED <<code, admitted, disk, memory, saved, copy>>
        /\ GoneBy(w) /\ \A x \in Workers \ {w} : SameWorker(x)
    BY <1>1 DEF Attempt, Types, GoneBy, SameWorker
  <2> QED BY <2>1, FileStays DEF GrantsInv
<1>2. ASSUME UNCHANGED <<code, admitted, disk, memory, saved, client, copy, stage>>
      PROVE  GrantsInv'
  BY <1>2, FileStays DEF GrantsInv, SameWorker
<1>3. ASSUME NEW w \in Workers, CodeMatches(w)  PROVE GrantsInv'
  <2>1. PICK e \in Doors : e = DoorOf[w]  BY <1>3, AtADoor DEF CodeMatches, Asks
  <2>2. PICK c \in Clients : c = client[w]  BY <1>3, AtADoor DEF CodeMatches, Asks
  <2>3. /\ code' \subseteq code /\ admitted' = [admitted EXCEPT ![e] = @ \cup {c}]
        /\ UNCHANGED <<disk, memory, saved>> /\ AfterAdmission(w)
    BY <1>3, <2>1, <2>2 DEF CodeMatches
  <2>4. /\ \A d \in Doors : admitted[d] \subseteq admitted'[d]
        /\ c \in admitted'[e]
    BY <2>3 DEF Types
  <2>5. CASE Ends(w)
    BY <2>3, <2>4, <2>5, EndsGone, FileStays DEF GrantsInv
  <2>6. CASE GoesOn(w, "load")
    <3>1. /\ stage'[w] = "load" /\ client'[w] = client[w] /\ copy'[w] = copy[w]
          /\ \A x \in Workers \ {w} : SameWorker(x)
      BY <2>6, GoesOnSame DEF Stages
    <3>2. admitted["gateway"] \subseteq admitted'["gateway"]  BY <2>4 DEF Doors
    <3>3. Fits(disk)' /\ Fits(memory)'
      BY <2>3, <3>2, StillFits DEF GrantsInv, Fits, GrantedAt
    <3>4. ASSUME NEW x \in Workers  PROVE KeepsGrants(x)'
      <4>1. KeepsGrants(x)  BY DEF GrantsInv
      <4>2. Fits(copy[x])'
        BY <2>3, <3>1, <3>2, <4>1, StillFits DEF KeepsGrants, SameWorker, Fits, GrantedAt
      <4>3. CASE x = w
        BY <2>1, <2>2, <2>4, <3>1, <4>2, <4>3 DEF KeepsGrants
      <4>4. CASE x # w
        <5>1. SameWorker(x)  BY <3>1, <4>4
        <5>2. stage'[x] = "load" => client'[x] \in admitted'[DoorOf[x]]
          BY <2>4, <4>1, <5>1, AtADoor DEF KeepsGrants, SameWorker, Asks
        <5> QED BY <2>3, <4>1, <4>2, <5>1, <5>2 DEF KeepsGrants, SameWorker, Own
      <4> QED BY <4>3, <4>4
    <3>5. \A u, v \in Workers : stage'[u] = "save" /\ stage'[v] = "save" => u = v
      BY <3>1 DEF GrantsInv, SameWorker
    <3> QED BY <2>3, <3>3, <3>4, <3>5 DEF GrantsInv
  <2> QED BY <2>3, <2>5, <2>6 DEF AfterAdmission
<1>4. ASSUME NEW w \in Workers, CodeDiffers(w)  PROVE GrantsInv'
  <2>1. /\ GoesOn(w, "count") /\ "count" \in Stages
        /\ UNCHANGED <<code, admitted, disk, memory, saved>>
    BY <1>4 DEF CodeDiffers, guard, Stages
  <2>2. GoneBy(w) /\ \A x \in Workers \ {w} : SameWorker(x)
    BY <2>1, GoesOnSame DEF GoneBy
  <2> QED BY <2>1, <2>2, FileStays DEF GrantsInv
<1>5. ASSUME NEW w \in Workers, CountFailure(w) \/ Unidentified(w)  PROVE GrantsInv'
  <2>1. /\ Ends(w) /\ code' \subseteq code /\ UNCHANGED <<admitted, disk, memory, saved>>
    BY <1>5 DEF CountFailure, Unidentified
  <2> QED BY <2>1, EndsGone, FileStays DEF GrantsInv
<1>6. ASSUME NEW w \in Workers, Load(w) \/ Edit(w)  PROVE GrantsInv'
  BY <1>6, LoadKeeps, EditKeeps
<1>7. ASSUME NEW w \in Workers, Save(w)  PROVE GrantsInv'
  <2>1. /\ stage[w] = "save" /\ disk' = copy[w] /\ UNCHANGED <<code, admitted, memory>>
    BY <1>7 DEF Save, guard
  <2>2. CASE GoesOn(w, "install") /\ UNCHANGED saved
    <3>1. /\ stage'[w] = "install" /\ client'[w] = client[w] /\ copy'[w] = copy[w]
          /\ \A x \in Workers \ {w} : SameWorker(x)
      BY <2>2, GoesOnSame DEF Stages
    <3> QED BY <2>1, <2>2, <3>1, FileReplaced
  <2>3. CASE Ends(w) /\ saved' = Confirmed(w)
    <3>1. saved' \subseteq saved \cup Own(w)  BY <2>3 DEF Confirmed, Own
    <3> QED BY <2>1, <2>3, <3>1, EndsGone, FileReplaced
  <2> QED BY <1>7, <2>2, <2>3 DEF Save
<1>8. ASSUME NEW w \in Workers, Install(w)  PROVE GrantsInv'
  <2>1. /\ Ends(w) /\ stage[w] = "install" /\ memory' = copy[w] /\ saved' = saved \cup Own(w)
        /\ UNCHANGED <<code, admitted, disk>>
    BY <1>8 DEF Install, guard, Confirmed, Own
  <2>2. Own(w) \subseteq disk /\ Fits(copy[w]) /\ Fits({})
    BY <2>1 DEF GrantsInv, KeepsGrants, Fits, GrantedAt
  <2>3. GoneBy(w) /\ \A x \in Workers \ {w} : SameWorker(x)  BY <2>1, EndsGone
  <2>4. saved' \subseteq disk' /\ Fits(disk)' /\ Fits(memory)'
    BY <2>1, <2>2 DEF GrantsInv, Fits, GrantedAt
  <2>5. ASSUME NEW x \in Workers  PROVE KeepsGrants(x)'
    <3>1. CASE x = w
      <4>1. Fits(copy[w])'  BY <2>1, <2>2, <2>3 DEF GoneBy, Fits, GrantedAt
      <4> QED BY <2>3, <3>1, <4>1 DEF KeepsGrants, GoneBy
    <3>2. CASE x # w
      <4>1. KeepsGrants(x) /\ SameWorker(x)  BY <2>3, <3>2 DEF GrantsInv
      <4>2. Fits(copy[x])'  BY <2>1, <4>1 DEF KeepsGrants, SameWorker, Fits, GrantedAt
      <4> QED BY <2>1, <4>1, <4>2 DEF KeepsGrants, SameWorker, Own
    <3> QED BY <3>1, <3>2
  <2>6. \A u, v \in Workers : stage'[u] = "save" /\ stage'[v] = "save" => u = v
    BY <2>3 DEF GrantsInv, SameWorker, GoneBy
  <2> QED BY <2>4, <2>5, <2>6 DEF GrantsInv
<1>9. ASSUME NEW w \in Workers, Ends(w),
             disk' \in IF stage[w] = "save" THEN {disk, copy[w]} ELSE {disk},
             UNCHANGED <<code, admitted, memory, saved>>
      PROVE  GrantsInv'
  <2>1. GoneBy(w) /\ \A x \in Workers \ {w} : SameWorker(x)  BY <1>9, EndsGone
  <2>2. CASE disk' = disk  BY <1>9, <2>1, <2>2, FileStays DEF GrantsInv
  <2>3. CASE stage[w] = "save" /\ disk' = copy[w]  BY <1>9, <2>1, <2>3, FileReplaced
  <2> QED BY <1>9, <2>2, <2>3
<1>10. ASSUME NEW w \in Workers, Fails(w)  PROVE GrantsInv'
  BY <1>9, <1>10 DEF Fails, guard
<1>11. ASSUME NEW w \in Workers, Drop(w)  PROVE GrantsInv'
  <2>1. CASE stage[w] = "compare"  BY <1>2, <1>11, <2>1 DEF Drop, guard
  <2>2. CASE stage[w] # "compare"  BY <1>9, <1>11, <2>2 DEF Drop, guard
  <2> QED BY <2>1, <2>2
<1>12. CASE Restart
  <2>1. /\ \A x \in Workers : stage'[x] = "idle" /\ copy'[x] = {}
        /\ code' = Closed(disk) /\ UNCHANGED <<disk, saved>> /\ memory' = disk
        /\ admitted' = [d \in Doors |-> GrantedAt(d, disk)]
    BY <1>12 DEF Restart
  <2>2. admitted'["gateway"] = GrantedAt("gateway", disk)  BY <2>1 DEF Doors
  <2>3. Fits(disk)' /\ Fits(memory)' /\ \A x \in Workers : Fits(copy[x])'
    BY <2>1, <2>2 DEF Fits, Closed, GrantedAt
  <2> QED BY <2>1, <2>3 DEF GrantsInv, KeepsGrants
<1>13. ASSUME NEW w \in Workers, NEW c \in Clients, SentAway(w, c)  PROVE GrantsInv'
  BY <1>2, <1>13 DEF SentAway, request
<1>14. CASE UNCHANGED vars  BY <1>2, <1>14 DEF vars, guard, request
<1> QED BY <1>1, <1>3, <1>4, <1>5, <1>6, <1>7, <1>8, <1>10, <1>11, <1>12, <1>13, <1>14
        DEF Next, Step

\* Whoever was told that its pairing is saved has to pair again only after a stale load: of
\* all the writers of config.toml, with their failures, dropped requests and restarts,
\* nothing else brings back a code.
THEOREM GrantsAreLostByStaleLoads == Spec /\ [][~ StaleLoad]_vars => []NoRepairing
<1>1. Init => GrantsInv
  BY DEF Init, GrantsInv, KeepsGrants, Fits, GrantedAt
<1>2. Types /\ CodeOnce /\ GrantsInv /\ [Next]_vars /\ [~ StaleLoad]_vars => GrantsInv'
  <2>1. UNCHANGED vars => ~ StaleLoad
    BY DEF vars, request, StaleLoad
  <2> QED BY <2>1, NextKeeps
<1>3. GrantsInv => NoRepairing
  BY DEF GrantsInv, Fits, GrantedAt, NoRepairing
<1>4. Spec => [](Types /\ CodeOnce)
  <2>1. Inv => Types /\ CodeOnce  BY DEF Inv
  <2> QED BY <2>1, Invariance, PTL
<1> QED BY <1>1, <1>2, <1>3, <1>4, PTL DEF Spec
=============================================================================
