---------------------------- MODULE ServicesProofs ----------------------------
(***************************************************************************)
(* Proofs about the services that share no state, for any constants: each  *)
(* has an inductive invariant of its own, which holds of the behaviours    *)
(* that are this service's and says nothing of the others.                 *)
(***************************************************************************)
EXTENDS Services, FiniteSetTheorems, TLAPS

-----------------------------------------------------------------------------
(* The service of a behaviour moves, or nothing does.                      *)

\* Each step leaves the choice of the service alone and is a step of it.
LEMMA Turn ==
  ASSUME [Next]_vars
  PROVE  /\ on' = on
         /\ on = "keys" => Keys!Next \/ UNCHANGED keyVars
         /\ on = "staff" => Staff!Next \/ UNCHANGED staffVars
         /\ on = "floor" => Floor!Next \/ UNCHANGED floorVars
         /\ on = "stock" => Stock!Next \/ UNCHANGED stockVars
         /\ on = "login" => Login!Next \/ UNCHANGED loginVars
         /\ on = "counter" => Counter!Next \/ UNCHANGED counterVars
         /\ on = "notices" => Notices!Next \/ UNCHANGED noticeVars
         /\ on = "card" => Card!Next \/ UNCHANGED cardVars
         /\ on = "paper" => Paper!Next \/ UNCHANGED paperVars
         /\ on = "kitchen" => Kitchen!Next \/ UNCHANGED kitchenVars
         /\ on = "analyst" => Analyst!Next \/ UNCHANGED analystVars
         /\ on = "tools" => Tools!Next \/ UNCHANGED toolVars
         /\ on = "config" => Config!Next \/ UNCHANGED configVars
         /\ on = "prices" => Prices!Next \/ UNCHANGED priceVars
         /\ on = "books" => Books!Next \/ UNCHANGED bookVars
BY DEF Next, vars, KeysStep, FloorStep, StockStep, LoginStep, StaffStep, CounterStep,
       NoticesStep, CardStep, PaperStep, AnalystStep, ToolsStep, ConfigStep,
       PricesStep, BooksStep, KitchenStep

-----------------------------------------------------------------------------
(* Idempotent requests.  A call holds the insert of the key exactly while  *)
(* it is in its operation, and no row is committed meanwhile; so the call  *)
(* that commits is the first to have an effect since the key was free.     *)

KeysCall ==
  [pc : {"idle"}, retries : Nat]
    \cup [pc : {"find", "transaction", "insert", "operation", "collision", "refused", "failed"},
          payload : Payloads, retries : Nat]
    \cup [pc : {"answered"}, payload : Payloads, response : Keys!Effect]

KeysTypes ==
  /\ keyRow \in {Keys!NoKey} \cup [status : {"COMPLETED"}, requestHash : Payloads,
                                     response : Keys!Effect]
  /\ keyHolder \in Calls \cup {NoCall}
  /\ keyCall \in [Calls -> KeysCall]
  /\ keyEffects \in Seq(Keys!Effect)
  /\ keyKept \in BOOLEAN
  /\ keyPurged \in Nat

KeysInv ==
  /\ KeysTypes
  /\ \A c \in Calls : keyHolder = c <=> Keys!At(c, "operation")
  /\ keyHolder # NoCall => ~Keys!Exists
  /\ Keys!EffectOncePerKey

\* Nothing was sent.
LEMMA KeysStart == Keys!Init => KeysInv
<1> SUFFICES ASSUME Keys!Init PROVE KeysInv
  OBVIOUS
<1>1. KeysTypes
  BY DEF Keys!Init, KeysTypes, KeysCall, Keys!NoKey, Keys!IdleCall
<1>2. \A c \in Calls : keyCall[c].pc = "idle"
  BY DEF Keys!Init, Keys!IdleCall
<1>3. Len(keyEffects) = 0 /\ ~Keys!Exists
  BY DEF Keys!Init, Keys!NoKey, Keys!Exists
<1>. QED
  BY <1>1, <1>2, <1>3, ServicesConstants
  DEF KeysInv, Keys!Init, Keys!At, Keys!EffectOncePerKey, Keys!Pc

\* The fields of a call by its place in the code.
LEMMA KeysFields ==
  ASSUME KeysTypes, NEW c \in Calls
  PROVE  /\ keyCall[c].pc \in Keys!Pc
         /\ keyCall[c].pc \notin {"idle", "answered"} =>
              keyCall[c] \in [pc : {"find", "transaction", "insert", "operation",
                                    "collision", "refused", "failed"},
                              payload : Payloads, retries : Nat]
         /\ keyCall[c].pc = "answered" =>
              keyCall[c] \in [pc : {"answered"}, payload : Payloads, response : Keys!Effect]
  BY DEF KeysTypes, KeysCall, Keys!Pc

\* A step of one call that commits nothing: it keeps its place among the
\* calls, and an answer it is given is that of the row.
LEMMA KeysCallStep ==
  ASSUME KeysInv, NEW c \in Calls, NEW k \in KeysCall,
         keyCall' = [keyCall EXCEPT ![c] = k],
         UNCHANGED <<keyRow, keyEffects, keyKept, keyPurged>>,
         \/ /\ keyHolder' = keyHolder
            /\ k.pc = "operation" <=> keyHolder = c
         \/ /\ keyHolder' = c /\ keyHolder = NoCall /\ ~Keys!Exists /\ k.pc = "operation"
         \/ /\ keyHolder' = NoCall /\ keyHolder = c /\ k.pc # "operation",
         k.pc = "answered" => /\ k.response.payload = k.payload
                              /\ Keys!Exists /\ k.response = keyRow.response
  PROVE  KeysInv'
<1>1. /\ keyCall'[c] = k /\ \A d \in Calls \ {c} : keyCall'[d] = keyCall[d]
      /\ keyCall' \in [Calls -> KeysCall]
  BY DEF KeysInv, KeysTypes
<1>2. KeysTypes'
  BY <1>1 DEF KeysInv, KeysTypes
<1>3. \A d \in Calls : keyHolder' = d <=> Keys!At(d, "operation")'
  BY <1>1, ServicesConstants DEF KeysInv, Keys!At
<1>4. keyHolder' # NoCall => ~Keys!Exists'
  BY DEF KeysInv, Keys!Exists
<1>5. Keys!EffectOncePerKey'
  <2>1. Keys!Exists => keyRow = Keys!Stored(keyEffects[Len(keyEffects)]) /\ Len(keyEffects) # 0
    BY DEF KeysInv, Keys!EffectOncePerKey, KeysTypes
  <2>2. k.pc = "answered" => \E n \in DOMAIN keyEffects : keyEffects[n] = k.response
    <3> SUFFICES ASSUME k.pc = "answered" PROVE \E n \in DOMAIN keyEffects : keyEffects[n] = k.response
      OBVIOUS
    <3>1. k.response = keyEffects[Len(keyEffects)] /\ Len(keyEffects) # 0
      BY <2>1 DEF Keys!Stored
    <3>2. Len(keyEffects) \in DOMAIN keyEffects
      BY <3>1 DEF KeysInv, KeysTypes
    <3>. QED BY <3>1, <3>2
  <2>3. k.pc \in Keys!Pc
    BY DEF KeysCall, Keys!Pc
  <2>. QED
    BY <1>1, <2>2, <2>3 DEF KeysInv, Keys!EffectOncePerKey, Keys!At, Keys!Exists
<1>. QED BY <1>2, <1>3, <1>4, <1>5 DEF KeysInv

\* replay answers with the effect of the caller's own body.
LEMMA KeysReplay ==
  ASSUME KeysInv, NEW c \in Calls, Keys!Exists, Keys!Replay(c),
         keyCall[c].pc \in {"find", "transaction", "collision"},
         UNCHANGED <<keyRow, keyHolder, keyEffects, keyKept, keyPurged>>
  PROVE  KeysInv'
<1>1. keyCall[c] \in [pc : {"find", "transaction", "insert", "operation",
                            "collision", "refused", "failed"},
                      payload : Payloads, retries : Nat]
  BY KeysFields, Zenon DEF KeysInv
<1>2. keyHolder # c
  BY DEF KeysInv, Keys!At
<1>3. CASE keyRow.requestHash # keyCall[c].payload \/ keyRow.status # "COMPLETED"
  <2> DEFINE k == [keyCall[c] EXCEPT !.pc = "refused"]
  <2>1. k \in KeysCall /\ k.pc = "refused"
    BY <1>1 DEF KeysCall
  <2>2. keyCall' = [keyCall EXCEPT ![c] = k]
    BY <1>3 DEF Keys!Replay, Keys!Goto
  <2>. QED BY <1>2, <2>1, <2>2, KeysCallStep
<1>4. CASE keyRow.requestHash = keyCall[c].payload /\ keyRow.status = "COMPLETED"
  <2> DEFINE k == [pc |-> "answered", payload |-> keyCall[c].payload,
                   response |-> keyRow.response]
  <2>1. keyRow \in [status : {"COMPLETED"}, requestHash : Payloads, response : Keys!Effect]
    BY DEF KeysInv, KeysTypes, Keys!Exists, Keys!NoKey
  <2>2. k \in KeysCall /\ k.pc = "answered"
    BY <1>1, <2>1 DEF KeysCall
  <2>3. keyCall' = [keyCall EXCEPT ![c] = k]
    BY <1>4 DEF Keys!Replay, KeysInv, KeysTypes
  <2>4. keyRow.response.payload = keyRow.requestHash
    BY <2>1 DEF KeysInv, Keys!EffectOncePerKey, Keys!Stored
  <2>. QED BY <1>2, <1>4, <2>2, <2>3, <2>4, KeysCallStep
<1>. QED BY <1>3, <1>4

\* Every step of the requests and of the housekeeping.
LEMMA KeysNext ==
  ASSUME KeysInv, Keys!Next PROVE KeysInv'
<1> USE DEF Keys!At
<1>0. ASSUME NEW c \in Calls, keyCall[c].pc \notin {"idle", "answered"}
      PROVE  keyCall[c] \in [pc : {"find", "transaction", "insert", "operation",
                                  "collision", "refused", "failed"},
                            payload : Payloads, retries : Nat]
  BY <1>0, KeysFields, Zenon DEF KeysInv
<1>1. ASSUME NEW c \in Calls, NEW pc \in Keys!Pc, Keys!Goto(c, pc),
             keyCall[c].pc \notin {"idle", "answered"}, pc \notin {"idle", "answered"}
      PROVE  \E k \in KeysCall : k.pc = pc /\ keyCall' = [keyCall EXCEPT ![c] = k]
  <2> DEFINE k == [keyCall[c] EXCEPT !.pc = pc]
  <2>1. keyCall' = [keyCall EXCEPT ![c] = k]
    BY <1>1 DEF Keys!Goto
  <2>2. k \in KeysCall /\ k.pc = pc
    BY <1>0, <1>1 DEF KeysCall, Keys!Pc
  <2>. QED BY <2>1, <2>2
<1>2. ASSUME NEW c \in Calls, NEW p \in Payloads, Keys!Send(c, p) PROVE KeysInv'
  <2> DEFINE k == [pc |-> "find", payload |-> p, retries |-> 1]
  <2>1. /\ keyCall' = [keyCall EXCEPT ![c] = k] /\ k \in KeysCall /\ k.pc = "find"
        /\ keyCall[c].pc = "idle"
        /\ UNCHANGED <<keyRow, keyHolder, keyEffects, keyKept, keyPurged>>
    BY <1>2 DEF Keys!Send, KeysCall
  <2>2. keyHolder # c
    BY <2>1 DEF KeysInv
  <2>. QED BY <2>1, <2>2, KeysCallStep
<1>3. ASSUME NEW c \in Calls,
             Keys!FindExisting(c) \/ Keys!FindUnique(c) \/ Keys!Collided(c)
      PROVE  KeysInv'
  <2>1. /\ keyCall[c].pc \in {"find", "transaction", "collision"}
        /\ UNCHANGED <<keyRow, keyHolder, keyEffects, keyKept, keyPurged>>
        /\ \/ Keys!Exists /\ Keys!Replay(c)
           \/ \E pc \in {"transaction", "insert", "failed"} : Keys!Goto(c, pc)
    BY <1>3 DEF Keys!FindExisting, Keys!FindUnique, Keys!Collided
  <2>2. CASE Keys!Exists /\ Keys!Replay(c)
    BY <2>1, <2>2, KeysReplay
  <2>3. ASSUME NEW pc \in {"transaction", "insert", "failed"}, Keys!Goto(c, pc)
        PROVE  KeysInv'
    <3>1. PICK k \in KeysCall : k.pc = pc /\ keyCall' = [keyCall EXCEPT ![c] = k]
      BY <1>1, <2>1, <2>3 DEF Keys!Pc
    <3>2. keyHolder # c
      BY <2>1 DEF KeysInv
    <3>. QED BY <2>1, <2>3, <3>1, <3>2, KeysCallStep
  <2>. QED BY <2>1, <2>2, <2>3
<1>4. ASSUME NEW c \in Calls, Keys!CreateRow(c) PROVE KeysInv'
  <2>1. /\ keyCall[c].pc = "insert" /\ keyHolder = NoCall /\ ~Keys!Exists /\ keyHolder' = c
        /\ Keys!Goto(c, "operation") /\ UNCHANGED <<keyRow, keyEffects, keyKept, keyPurged>>
    BY <1>4 DEF Keys!CreateRow, Keys!MayCreate
  <2>2. PICK k \in KeysCall : k.pc = "operation" /\ keyCall' = [keyCall EXCEPT ![c] = k]
    BY <1>1, <2>1 DEF Keys!Pc
  <2>. QED BY <2>1, <2>2, KeysCallStep
<1>5. ASSUME NEW c \in Calls, Keys!UniqueViolation(c) PROVE KeysInv'
  <2>1. /\ keyCall[c].pc = "insert" /\ Keys!Goto(c, "collision")
        /\ UNCHANGED <<keyRow, keyHolder, keyEffects, keyKept, keyPurged>>
    BY <1>5 DEF Keys!UniqueViolation
  <2>2. PICK k \in KeysCall : k.pc = "collision" /\ keyCall' = [keyCall EXCEPT ![c] = k]
    BY <1>1, <2>1 DEF Keys!Pc
  <2>3. keyHolder # c
    BY <2>1 DEF KeysInv
  <2>. QED BY <2>1, <2>2, <2>3, KeysCallStep
<1>6. ASSUME NEW c \in Calls, Keys!Conflict(c) PROVE KeysInv'
  <2> DEFINE pc == IF keyCall[c].retries < MaxRetries THEN "transaction" ELSE "failed"
             n == IF keyCall[c].retries < MaxRetries THEN keyCall[c].retries + 1
                  ELSE keyCall[c].retries
             k == [keyCall[c] EXCEPT !.pc = pc, !.retries = n]
  <2>1. /\ keyCall[c].pc \in {"insert", "operation"}
        /\ keyHolder' = IF keyHolder = c THEN NoCall ELSE keyHolder
        /\ UNCHANGED <<keyRow, keyEffects, keyKept, keyPurged>>
        /\ keyCall' = [keyCall EXCEPT ![c] = k]
    BY <1>6 DEF Keys!Conflict, KeysInv, KeysTypes
  <2>2. k \in KeysCall /\ k.pc \in {"transaction", "failed"}
    <3>1. keyCall[c] \in [pc : {"find", "transaction", "insert", "operation",
                                "collision", "refused", "failed"},
                          payload : Payloads, retries : Nat]
      BY <1>0, <2>1
    <3>2. n \in Nat /\ pc \in {"transaction", "failed"}
      BY <3>1
    <3> HIDE DEF n, pc
    <3>. QED BY <3>1, <3>2 DEF KeysCall
  <2> HIDE DEF k
  <2>. QED BY <2>1, <2>2, KeysCallStep
<1>7. ASSUME NEW c \in Calls, Keys!Abort(c) PROVE KeysInv'
  <2>1. /\ keyCall[c].pc \notin {"idle", "answered"} /\ Keys!Goto(c, "failed")
        /\ keyHolder' = IF keyHolder = c THEN NoCall ELSE keyHolder
        /\ UNCHANGED <<keyRow, keyEffects, keyKept, keyPurged>>
    BY <1>7 DEF Keys!Abort
  <2>2. PICK k \in KeysCall : k.pc = "failed" /\ keyCall' = [keyCall EXCEPT ![c] = k]
    BY <1>1, <2>1 DEF Keys!Pc
  <2>. QED BY <2>1, <2>2, KeysCallStep
<1>8. ASSUME NEW c \in Calls, Keys!Commit(c) PROVE KeysInv'
  <2> DEFINE e == [payload |-> keyCall[c].payload, by |-> c]
             k == [pc |-> "answered", payload |-> keyCall[c].payload, response |-> e]
  <2>1. /\ keyCall[c].pc = "operation" /\ keyEffects' = Append(keyEffects, e)
        /\ keyRow' = Keys!Stored(e) /\ keyCall' = [keyCall EXCEPT ![c] = k]
        /\ keyHolder' = IF keyHolder = c THEN NoCall ELSE keyHolder
        /\ keyKept' = keyKept /\ keyPurged' = keyPurged
    BY <1>8 DEF Keys!Commit
  <2>2. /\ keyHolder = c /\ ~Keys!Exists
    BY <2>1, ServicesConstants DEF KeysInv
  <2>3. e \in Keys!Effect /\ k \in KeysCall /\ e.payload = keyCall[c].payload
          /\ k.pc = "answered" /\ k.payload = e.payload /\ k.response = e
    BY <1>0, <2>1 DEF KeysCall, Keys!Effect
  <2> HIDE DEF e, k
  <2>4. /\ keyCall' \in [Calls -> KeysCall] /\ keyCall'[c] = k
        /\ \A d \in Calls \ {c} : keyCall'[d] = keyCall[d]
    BY <2>1, <2>3 DEF KeysInv, KeysTypes
  <2>5. /\ keyEffects \in Seq(Keys!Effect) /\ keyEffects' \in Seq(Keys!Effect)
        /\ Len(keyEffects') = Len(keyEffects) + 1 /\ keyEffects'[Len(keyEffects')] = e
        /\ \A n \in DOMAIN keyEffects : n \in DOMAIN keyEffects' /\ keyEffects'[n] = keyEffects[n]
        /\ Len(keyEffects') \in DOMAIN keyEffects'
    BY <2>1, <2>3 DEF KeysInv, KeysTypes
  <2>6. KeysTypes'
    BY <2>1, <2>2, <2>3, <2>4, <2>5, ServicesConstants
    DEF KeysInv, KeysTypes, Keys!Stored, Keys!Effect
  <2>7. keyHolder' = NoCall /\ \A d \in Calls : keyCall'[d].pc # "operation"
    BY <2>1, <2>2, <2>3, <2>4, ServicesConstants DEF KeysInv
  <2>8. Keys!Exists'
    BY <2>1 DEF Keys!Exists, Keys!Stored
  <2>9. Keys!EffectOncePerKey'
    <3>1. Len(keyEffects) = keyPurged /\ keyPurged \in Nat
      BY <2>2 DEF KeysInv, KeysTypes, Keys!EffectOncePerKey
    <3>2. /\ keyKept' => keyPurged' = 0
          /\ Len(keyEffects') = keyPurged' + (IF Keys!Exists' THEN 1 ELSE 0)
          /\ keyRow' = Keys!Stored(keyEffects'[Len(keyEffects')])
      BY <2>1, <2>5, <2>8, <3>1 DEF KeysInv, Keys!EffectOncePerKey
    <3>3. ASSUME NEW d \in Calls
          PROVE  /\ keyCall'[d].pc = "answered" =>
                      /\ keyCall'[d].response.payload = keyCall'[d].payload
                      /\ \E n \in DOMAIN keyEffects' : keyEffects'[n] = keyCall'[d].response
                 /\ keyCall'[d].pc \in Keys!Pc
      <4>1. CASE d = c
        BY <2>3, <2>4, <2>5, <4>1 DEF Keys!Pc
      <4>2. CASE d # c
        BY <2>4, <2>5, <4>2 DEF KeysInv, Keys!EffectOncePerKey
      <4>. QED BY <4>1, <4>2
    <3>. QED BY <3>2, <3>3 DEF Keys!EffectOncePerKey
  <2>. QED BY <2>6, <2>7, <2>9, ServicesConstants DEF KeysInv
<1>9. CASE Keys!DeleteExpired
  <2>1. /\ Keys!Exists /\ ~keyKept /\ keyRow' = Keys!NoKey /\ keyPurged' = keyPurged + 1
        /\ UNCHANGED <<keyHolder, keyCall, keyEffects, keyKept>>
    BY <1>9 DEF Keys!DeleteExpired
  <2>2. ~Keys!Exists'
    BY <2>1 DEF Keys!Exists, Keys!NoKey
  <2>3. KeysTypes'
    BY <2>1 DEF KeysInv, KeysTypes
  <2>4. Keys!EffectOncePerKey'
    BY <2>1, <2>2 DEF KeysInv, KeysTypes, Keys!EffectOncePerKey
  <2>. QED BY <2>1, <2>2, <2>3, <2>4 DEF KeysInv
<1>. QED
  BY <1>2, <1>3, <1>4, <1>5, <1>6, <1>7, <1>8, <1>9, Zenon DEF Keys!Next

\* The service does not move while another does.
LEMMA KeysStay ==
  ASSUME KeysInv, UNCHANGED keyVars PROVE KeysInv'
<1>1. UNCHANGED <<keyRow, keyHolder, keyCall, keyEffects, keyKept, keyPurged>>
  BY DEF keyVars
<1>. QED
  BY <1>1 DEF KeysInv, KeysTypes, Keys!At, Keys!Exists, Keys!EffectOncePerKey

\* The requests that carry a key have the effect of its operation once, for
\* any number of requests, bodies and retries.  (IdempotencyService.execute.)
THEOREM EffectsOncePerKey == Spec => []EffectOncePerKey
<1> DEFINE I == on = "keys" => KeysInv
<1>1. Init => I
  BY KeysStart DEF Init
<1>2. I /\ [Next]_vars => I'
  <2> SUFFICES ASSUME I, [Next]_vars, on' = "keys" PROVE KeysInv'
    OBVIOUS
  <2>1. on = "keys" /\ (Keys!Next \/ UNCHANGED keyVars)
    BY Turn
  <2>. QED BY <2>1, KeysNext, KeysStay
<1>3. I => EffectOncePerKey
  BY DEF EffectOncePerKey, KeysInv
<1>. QED BY <1>1, <1>2, <1>3, PTL DEF Spec

-----------------------------------------------------------------------------
(* Roles and employees.  AccessSound is inductive but for the type of the  *)
(* positions: whoever may remove an owner looks, in the transaction that   *)
(* does it, for another one.                                               *)

StaffInv ==
  /\ Staff!AccessSound
  /\ position \in [Positions -> Staff!Row] /\ DOMAIN request = People

\* What the seed creates.
LEMMA StaffStart == Staff!Init => StaffInv
<1> SUFFICES ASSUME Staff!Init PROVE StaffInv
  OBVIOUS
<1>1. Staff!FirstPosition \in Positions
  BY ServicesConstants DEF Staff!FirstPosition
<1>2. /\ "OWNER" \in Staff!SystemRoles /\ Founder \in People
  BY ServicesConstants DEF Staff!SystemRoles, Staff!SystemGrants
<1>3. staff \in [People -> Staff!Person] /\ role \in [CustomRoles -> Staff!Role]
  BY <1>1, <1>2
  DEF Staff!Init, Staff!Person, Staff!Role, Staff!Row, Staff!NoPerson, Staff!Roles
<1>4. Staff!IsOwner(Founder)
  BY <1>2 DEF Staff!Init, Staff!IsOwner, Staff!Active, Staff!NoPerson
<1>5. ASSUME NEW e \in People
      PROVE  /\ staff[e].roles \subseteq Staff!LiveRoles
             /\ position[staff[e].position] = "LIVE"
             /\ staff[e].row # "DELETED"
  BY <1>1, <1>2 DEF Staff!Init, Staff!NoPerson, Staff!LiveRoles
<1>6. position \in [Positions -> Staff!Row] /\ DOMAIN request = People
  BY DEF Staff!Init, Staff!Row
<1>. QED BY <1>2, <1>3, <1>4, <1>5, <1>6 DEF StaffInv, Staff!AccessSound

\* A step on one employee row that leaves an owner, and gives the employee
\* roles and a position that exist.
LEMMA StaffEmployee ==
  ASSUME Staff!AccessSound, NEW e \in People, NEW p \in Staff!Person,
         staff' = [staff EXCEPT ![e] = p], UNCHANGED <<role, position>>,
         p.roles \subseteq Staff!LiveRoles,
         p.row \in {"ACTIVE", "INACTIVE"} => position[p.position] = "LIVE",
         p.row = "DELETED" => p.roles = {},
         \/ \E o \in People \ {e} : Staff!IsOwner(o)
         \/ p.row = "ACTIVE" /\ "OWNER" \in p.roles
         \/ ~Staff!IsOwner(e)
  PROVE  Staff!AccessSound'
<1>1. /\ staff' \in [People -> Staff!Person] /\ staff'[e] = p
      /\ \A o \in People \ {e} : staff'[o] = staff[o]
  BY DEF Staff!AccessSound
<1>2. Staff!LiveRoles' = Staff!LiveRoles
  BY DEF Staff!LiveRoles
<1>3. \E o \in People : Staff!IsOwner(o)'
  <2>1. CASE \E o \in People \ {e} : Staff!IsOwner(o)
    BY <1>1, <2>1 DEF Staff!IsOwner, Staff!Active
  <2>2. CASE p.row = "ACTIVE" /\ "OWNER" \in p.roles
    BY <1>1, <2>2 DEF Staff!IsOwner, Staff!Active
  <2>3. CASE ~Staff!IsOwner(e)
    BY <2>1, <2>3 DEF Staff!AccessSound
  <2>. QED BY <2>1, <2>2, <2>3
<1>4. ASSUME NEW o \in People
      PROVE  /\ staff'[o].roles \subseteq Staff!LiveRoles
             /\ Staff!Exists(o)' => position[staff'[o].position] = "LIVE"
             /\ staff'[o].row = "DELETED" => staff'[o].roles = {}
  <2>1. CASE o = e
    BY <1>1, <2>1 DEF Staff!Exists
  <2>2. CASE o # e
    BY <1>1, <2>2 DEF Staff!AccessSound, Staff!Exists
  <2>. QED BY <2>1, <2>2
<1>. QED BY <1>1, <1>2, <1>3, <1>4 DEF Staff!AccessSound

\* A step on roles that takes none away from anybody.
LEMMA StaffRole ==
  ASSUME Staff!AccessSound, NEW r \in CustomRoles, NEW q \in Staff!Role,
         role' = [role EXCEPT ![r] = q], UNCHANGED <<staff, position>>,
         q.row = "LIVE" \/ \A e \in People : r \notin staff[e].roles
  PROVE  Staff!AccessSound'
<1>1. /\ role' \in [CustomRoles -> Staff!Role] /\ role'[r] = q
      /\ \A s \in CustomRoles \ {r} : role'[s] = role[s]
  BY DEF Staff!AccessSound
<1>2. \A e \in People : staff[e].roles \subseteq Staff!LiveRoles'
  BY <1>1 DEF Staff!AccessSound, Staff!LiveRoles
<1>. QED BY <1>1, <1>2 DEF Staff!AccessSound, Staff!IsOwner, Staff!Active, Staff!Exists

\* Every handler, the guard and the sign-up.
LEMMA StaffNext ==
  ASSUME StaffInv, Staff!Next PROVE StaffInv'
<1> USE DEF StaffInv
<1>0. /\ staff \in [People -> Staff!Person] /\ role \in [CustomRoles -> Staff!Role]
      /\ \A e \in People : /\ staff[e] \in Staff!Person
                           /\ staff[e].roles \subseteq Staff!LiveRoles
                           /\ Staff!Exists(e) => position[staff[e].position] = "LIVE"
                           /\ staff[e].row = "DELETED" => staff[e].roles = {}
      /\ Staff!FirstPosition \in Positions
      /\ "OWNER" \in Staff!LiveRoles /\ "WAITER" \in Staff!LiveRoles
      /\ Staff!LiveRoles \subseteq Staff!Roles
  BY ServicesConstants
  DEF Staff!AccessSound, Staff!FirstPosition, Staff!LiveRoles, Staff!SystemRoles,
      Staff!SystemGrants, Staff!Roles
<1>1. ASSUME UNCHANGED <<staff, role, position>> PROVE Staff!AccessSound'
  BY <1>1 DEF Staff!AccessSound, Staff!IsOwner, Staff!Active, Staff!Exists, Staff!LiveRoles
<1>2. ASSUME NEW a \in People, NEW key \in {"ROLES", "EMPLOYEES"},
             Staff!Admit(a, key) \/ Staff!Refused(a)
      PROVE  Staff!AccessSound'
  BY <1>1, <1>2 DEF Staff!Admit, Staff!Refused
<1>3. ASSUME NEW a \in People, NEW r \in CustomRoles,
             \/ \E template \in Staff!Roles \cup {"none"} : Staff!CreateRole(a, r, template)
             \/ \E keys \in SUBSET Staff!Keys : Staff!ReplaceRolePermissions(a, r, keys)
             \/ Staff!DeleteRole(a, r)
      PROVE  Staff!AccessSound'
  <2>1. \A q \in Staff!LiveRoles : Staff!Grants(q) \in SUBSET Staff!Keys
    BY <1>0 DEF Staff!LiveRoles, Staff!Grants, Staff!SystemRoles, Staff!SystemGrants,
                Staff!Role, Staff!Keys
  <2>2. ASSUME NEW template \in Staff!Roles \cup {"none"}, Staff!CreateRole(a, r, template)
        PROVE  Staff!AccessSound'
    <3> DEFINE q == [row |-> "LIVE", grants |-> IF template \in Staff!LiveRoles
                                              THEN Staff!Grants(template) ELSE {}]
    <3>1. /\ role' = [role EXCEPT ![r] = q] /\ UNCHANGED <<staff, position>>
          /\ q \in Staff!Role /\ q.row = "LIVE"
      BY <2>1, <2>2 DEF Staff!CreateRole, Staff!Role, Staff!Row
    <3>. QED BY <3>1, StaffRole
  <2>3. ASSUME NEW keys \in SUBSET Staff!Keys, Staff!ReplaceRolePermissions(a, r, keys)
        PROVE  Staff!AccessSound'
    <3> DEFINE q == [role[r] EXCEPT !.grants = keys]
    <3>1. /\ role' = [role EXCEPT ![r] = q] /\ UNCHANGED <<staff, position>>
          /\ q \in Staff!Role /\ q.row = "LIVE"
      BY <1>0, <2>3 DEF Staff!ReplaceRolePermissions, Staff!ManagesRole, Staff!Role
    <3>. QED BY <3>1, StaffRole
  <2>4. CASE Staff!DeleteRole(a, r)
    <3> DEFINE q == [row |-> "DELETED", grants |-> {}]
    <3>1. /\ role' = [role EXCEPT ![r] = q] /\ UNCHANGED <<staff, position>>
          /\ q \in Staff!Role /\ \A e \in People : r \notin staff[e].roles
      BY <2>4 DEF Staff!DeleteRole, Staff!Role, Staff!Row
    <3>. QED BY <3>1, StaffRole
  <2>. QED BY <1>3, <2>2, <2>3, <2>4
<1>4. ASSUME NEW a \in People, NEW e \in People,
             \/ \E p \in Positions : Staff!CreateEmployee(a, e, p) \/ Staff!Move(a, e, p)
             \/ Staff!Activate(a, e) \/ Staff!Deactivate(a, e) \/ Staff!DeleteEmployee(a, e)
             \/ \E roles \in Staff!RoleSets : Staff!ReplaceEmployeeRoles(a, e, roles)
      PROVE  Staff!AccessSound'
  <2>1. ASSUME NEW p \in Positions, Staff!CreateEmployee(a, e, p)
        PROVE  Staff!AccessSound'
    <3> DEFINE q == [row |-> "ACTIVE", roles |-> {}, position |-> p]
    <3>1. /\ staff' = [staff EXCEPT ![e] = q] /\ UNCHANGED <<role, position>>
          /\ q \in Staff!Person /\ staff[e].row = "NONE" /\ position[p] = "LIVE"
      BY <2>1 DEF Staff!CreateEmployee, Staff!Person
    <3>2. ~Staff!IsOwner(e)
      BY <3>1 DEF Staff!IsOwner, Staff!Active
    <3>. QED BY <3>1, <3>2, StaffEmployee
  <2>2. ASSUME NEW p \in Positions, Staff!Move(a, e, p)
        PROVE  Staff!AccessSound'
    <3> DEFINE q == [staff[e] EXCEPT !.position = p]
    <3>1. /\ staff' = [staff EXCEPT ![e] = q] /\ UNCHANGED <<role, position>>
          /\ position[p] = "LIVE"
      BY <2>2 DEF Staff!Move
    <3>2. /\ q \in Staff!Person /\ q.row = staff[e].row /\ q.roles = staff[e].roles
          /\ q.position = p
      BY <1>0 DEF Staff!Person
    <3> HIDE DEF q
    <3>3. (q.row = "ACTIVE" /\ "OWNER" \in q.roles) \/ ~Staff!IsOwner(e)
      BY <3>2 DEF Staff!IsOwner, Staff!Active
    <3>. QED BY <1>0, <3>1, <3>2, <3>3, StaffEmployee
  <2>3. CASE Staff!Activate(a, e)
    <3> DEFINE q == [staff[e] EXCEPT !.row = "ACTIVE"]
    <3>1. /\ staff' = [staff EXCEPT ![e] = q] /\ UNCHANGED <<role, position>>
          /\ Staff!Exists(e) /\ ~Staff!Active(e)
      BY <2>3 DEF Staff!Activate, Staff!ManagesEmployee
    <3>2. /\ q \in Staff!Person /\ q.row = "ACTIVE" /\ q.roles = staff[e].roles
          /\ q.position = staff[e].position
      BY <1>0 DEF Staff!Person
    <3> HIDE DEF q
    <3>3. ~Staff!IsOwner(e)
      BY <3>1 DEF Staff!IsOwner
    <3>. QED BY <1>0, <3>1, <3>2, <3>3, StaffEmployee
  <2>4. CASE Staff!Deactivate(a, e)
    <3> DEFINE q == [staff[e] EXCEPT !.row = "INACTIVE"]
    <3>1. /\ staff' = [staff EXCEPT ![e] = q] /\ UNCHANGED <<role, position>>
          /\ Staff!Exists(e) /\ Staff!AssertOwnerRemains(e)
      BY <2>4 DEF Staff!Deactivate, Staff!ManagesEmployee
    <3>2. /\ q \in Staff!Person /\ q.row = "INACTIVE" /\ q.roles = staff[e].roles
          /\ q.position = staff[e].position
      BY <1>0 DEF Staff!Person
    <3> HIDE DEF q
    <3>3. (\E o \in People \ {e} : Staff!IsOwner(o)) \/ ~Staff!IsOwner(e)
      BY <3>1 DEF Staff!AssertOwnerRemains
    <3>. QED BY <1>0, <3>1, <3>2, <3>3, StaffEmployee
  <2>5. CASE Staff!DeleteEmployee(a, e)
    <3> DEFINE q == [staff[e] EXCEPT !.row = "DELETED", !.roles = {}]
    <3>1. /\ staff' = [staff EXCEPT ![e] = q] /\ UNCHANGED <<role, position>>
          /\ Staff!AssertOwnerRemains(e)
      BY <2>5 DEF Staff!DeleteEmployee
    <3>2. /\ q \in Staff!Person /\ q.row = "DELETED" /\ q.roles = {}
      BY <1>0 DEF Staff!Person
    <3> HIDE DEF q
    <3>3. (\E o \in People \ {e} : Staff!IsOwner(o)) \/ ~Staff!IsOwner(e)
      BY <3>1 DEF Staff!AssertOwnerRemains
    <3>. QED BY <1>0, <3>1, <3>2, <3>3, StaffEmployee
  <2>6. ASSUME NEW roles \in Staff!RoleSets, Staff!ReplaceEmployeeRoles(a, e, roles)
        PROVE  Staff!AccessSound'
    <3> DEFINE q == [staff[e] EXCEPT !.roles = roles]
    <3>1. /\ staff' = [staff EXCEPT ![e] = q] /\ UNCHANGED <<role, position>>
          /\ Staff!Active(e) /\ roles \subseteq Staff!LiveRoles
          /\ "OWNER" \notin roles => Staff!AssertOwnerRemains(e)
      BY <2>6 DEF Staff!ReplaceEmployeeRoles
    <3>2. /\ q \in Staff!Person /\ q.row = "ACTIVE" /\ q.roles = roles
          /\ q.position = staff[e].position
      BY <1>0, <3>1 DEF Staff!Person, Staff!Active
    <3> HIDE DEF q
    <3>3. \/ \E o \in People \ {e} : Staff!IsOwner(o)
          \/ q.row = "ACTIVE" /\ "OWNER" \in q.roles
          \/ ~Staff!IsOwner(e)
      BY <3>1, <3>2 DEF Staff!AssertOwnerRemains
    <3>4. position[q.position] = "LIVE"
      BY <1>0, <3>1, <3>2 DEF Staff!Exists, Staff!Active
    <3>. QED BY <3>1, <3>2, <3>3, <3>4, StaffEmployee
  <2>. QED BY <1>4, <2>1, <2>2, <2>3, <2>4, <2>5, <2>6
<1>5. ASSUME NEW a \in People, NEW p \in Positions,
             Staff!CreatePosition(a, p) \/ Staff!DeletePosition(a, p)
      PROVE  Staff!AccessSound'
  <2>1. /\ UNCHANGED <<staff, role>>
        /\ \/ \E s : position' = [position EXCEPT ![p] = s] /\ s = "LIVE"
           \/ /\ position' = [position EXCEPT ![p] = "DELETED"]
              /\ \A e \in People : Staff!Exists(e) => staff[e].position # p
    BY <1>5 DEF Staff!CreatePosition, Staff!DeletePosition
  <2>2. \A e \in People : Staff!Exists(e) => position'[staff[e].position] = "LIVE"
    BY <1>0, <2>1 DEF Staff!Person
  <2>. QED
    BY <2>1, <2>2 DEF Staff!AccessSound, Staff!IsOwner, Staff!Active, Staff!Exists, Staff!LiveRoles
<1>6. ASSUME NEW e \in People, Staff!SignUp(e) PROVE Staff!AccessSound'
  <2> DEFINE q == [row |-> "ACTIVE", roles |-> {"WAITER"}, position |-> Staff!FirstPosition]
  <2>1. /\ staff' = [staff EXCEPT ![e] = q] /\ UNCHANGED <<role, position>>
        /\ staff[e].row = "NONE" /\ position[Staff!FirstPosition] = "LIVE"
    BY <1>6 DEF Staff!SignUp
  <2>2. /\ q \in Staff!Person /\ q.roles \subseteq Staff!LiveRoles
    BY <1>0 DEF Staff!Person
  <2>3. ~Staff!IsOwner(e)
    BY <2>1 DEF Staff!IsOwner, Staff!Active
  <2>. QED BY <2>1, <2>2, <2>3, StaffEmployee
<1>7. Staff!AccessSound'
  BY <1>2, <1>3, <1>4, <1>5, <1>6, Zenon DEF Staff!Next
<1>8. position' \in [Positions -> Staff!Row]
  BY DEF Staff!Next, Staff!Admit, Staff!Refused, Staff!CreateRole, Staff!DeleteRole,
         Staff!ReplaceRolePermissions, Staff!CreateEmployee, Staff!Move, Staff!Activate,
         Staff!Deactivate, Staff!DeleteEmployee, Staff!ReplaceEmployeeRoles, Staff!SignUp,
         Staff!CreatePosition, Staff!DeletePosition, Staff!Row
<1>9. DOMAIN request' = People
  <2>1. ASSUME NEW a, NEW key, Staff!Answer(a, key) PROVE DOMAIN request' = People
    BY <2>1 DEF Staff!Answer
  <2>2. ASSUME NEW a, \/ \E key : Staff!Admit(a, key)
                      \/ Staff!SignUp(a)
        PROVE  DOMAIN request' = People
    BY <2>2 DEF Staff!Admit, Staff!SignUp
  <2>. QED
    BY <2>1, <2>2
    DEF Staff!Next, Staff!Refused, Staff!CreateRole, Staff!DeleteRole,
        Staff!ReplaceRolePermissions, Staff!CreateEmployee, Staff!Move, Staff!Activate,
        Staff!Deactivate, Staff!DeleteEmployee, Staff!ReplaceEmployeeRoles,
        Staff!CreatePosition, Staff!DeletePosition
<1>. QED BY <1>7, <1>8, <1>9

\* The invariant holds in every behaviour of the service.
LEMMA StaffAlways == Spec => [](on = "staff" => StaffInv)
<1> DEFINE I == on = "staff" => StaffInv
<1>1. Init => I
  BY StaffStart DEF Init
<1>2. I /\ [Next]_vars => I'
  <2> SUFFICES ASSUME I, [Next]_vars, on' = "staff" PROVE StaffInv'
    OBVIOUS
  <2>1. StaffInv /\ (Staff!Next \/ UNCHANGED staffVars)
    BY Turn
  <2>2. ASSUME UNCHANGED staffVars PROVE StaffInv'
    BY <2>1, <2>2 DEF staffVars, StaffInv, Staff!AccessSound, Staff!IsOwner,
                      Staff!Active, Staff!Exists, Staff!LiveRoles
  <2>. QED BY <2>1, <2>2, StaffNext
<1>. QED BY <1>1, <1>2, PTL DEF Spec

\* Whatever two administrators do to each other, an active owner remains.
\* (assertOwnerRemains, deleteRole, deleteEmployee, deletePosition.)
THEOREM AccessIsSound == Spec => []AccessSound
<1>1. (on = "staff" => StaffInv) => AccessSound
  BY DEF StaffInv, AccessSound
<1>. QED BY <1>1, StaffAlways, PTL

-----------------------------------------------------------------------------
(* Reservations.  A row two screens edit keeps a legal length because the  *)
(* write that finds the revision it read is the change it validated; the   *)
(* tables of the guests who are seated are occupied, which is what keeps   *)
(* a second party from being checked in.                                   *)

BookingRow ==
  [status : {"PENDING", "ARRIVED", "CANCELLED", "NO_SHOW"}, tableId : Tables,
   startsAt : Int, endsAt : Int, updatedAt : Nat, at : Int,
   session : {"none", "ACTIVE", "ENDED"}]
AskedRow ==
  [status : {"PENDING", "APPROVED", "REJECTED", "CANCELLED", "EXPIRED"},
   startsAt : Int, endsAt : Int, reservationId : Bookings \cup {Floor!Absent}]

FloorTypes ==
  /\ now \in Int
  /\ table \in [Tables -> {"EMPTY", "OCCUPIED", "DELETED"}]
  /\ asked \in [BookingRequests -> {Floor!NotAsked} \cup AskedRow]
  /\ booking \in [Bookings -> {Floor!NoBooking} \cup BookingRow]
  /\ edit \in [Bookings -> SUBSET [dto : Floor!Changes, seen : Nat]]

Legal(row) == row.endsAt - row.startsAt \in MinDuration..MaxDuration
FairRow(row) ==
  /\ Legal(row)
  /\ row.status = "ARRIVED" =>
       /\ row.session # "none"
       /\ row.at \in row.startsAt - CheckInEarly..row.startsAt + Grace - 1
  /\ row.status # "ARRIVED" => row.session = "none"
  /\ row.status = "NO_SHOW" => row.at >= row.startsAt + Grace
Live(b) == Floor!Is(b, {"PENDING", "ARRIVED"})
Approved(q) == asked[q].status = "APPROVED"

SlotsApart == \A b \in Bookings : Live(b) => Floor!SlotFree(b, booking[b])
RowsFair == \A b \in Bookings : ~Floor!Is(b, {"NONE"}) => FairRow(booking[b])
RequestsAnswered ==
  /\ \A q \in BookingRequests :
       /\ Approved(q) => /\ asked[q].reservationId \in Bookings
                         /\ ~Floor!Is(asked[q].reservationId, {"NONE"})
       /\ asked[q].status \notin {"NONE", "APPROVED"} => asked[q].reservationId = Floor!Absent
  /\ \A p, q \in BookingRequests :
       Approved(p) /\ Approved(q) /\ asked[p].reservationId = asked[q].reservationId => p = q
EditsLegal ==
  \A b \in Bookings : \A e \in edit[b] :
    /\ ~Floor!Is(b, {"NONE"})
    /\ e.seen <= booking[b].updatedAt
    /\ Floor!Unmodified(b, e) => Legal(Floor!Changed(booking[b], e.dto))
SeatsTaken ==
  /\ \A b \in Bookings : Floor!Seated(b) => table[booking[b].tableId] = "OCCUPIED"
  /\ \A b, c \in Bookings :
       Floor!Seated(b) /\ Floor!Seated(c) /\ booking[b].tableId = booking[c].tableId => b = c
FloorInv ==
  FloorTypes /\ SlotsApart /\ RowsFair /\ RequestsAnswered /\ EditsLegal /\ SeatsTaken

\* No reservation and no request.
LEMMA FloorStart == Floor!Init => FloorInv
<1> SUFFICES ASSUME Floor!Init PROVE FloorInv
  OBVIOUS
<1> USE DEF Floor!Init, Floor!NotAsked, Floor!NoBooking, Floor!Is
<1>1. FloorTypes
  BY DEF FloorTypes
<1>2. SlotsApart /\ RowsFair /\ RequestsAnswered /\ EditsLegal /\ SeatsTaken
  BY DEF SlotsApart, RowsFair, RequestsAnswered, EditsLegal, SeatsTaken, Live, Floor!Seated, Approved
<1>. QED BY <1>1, <1>2 DEF FloorInv

\* What the run checks is what the invariant says.
LEMMA FloorHonoured == FloorInv => Floor!BookingsHonoured
<1> SUFFICES ASSUME FloorInv PROVE Floor!BookingsHonoured
  OBVIOUS
<1>1. \A b \in Bookings : Floor!Is(b, {"PENDING", "ARRIVED"}) => Floor!SlotFree(b, booking[b])
  BY DEF FloorInv, SlotsApart, Live
<1>2. \A b \in Bookings : ~Floor!Is(b, {"NONE"}) =>
        booking[b].endsAt - booking[b].startsAt \in MinDuration..MaxDuration
  BY DEF FloorInv, RowsFair, FairRow, Legal
<1>3. \A q \in BookingRequests : asked[q].status \in Floor!AskedStatus
  BY DEF FloorInv, FloorTypes, AskedRow, Floor!NotAsked, Floor!AskedStatus
<1>4. \A q \in BookingRequests :
        /\ asked[q].status = "APPROVED" =>
             /\ ~Floor!Is(asked[q].reservationId, {"NONE"})
             /\ \A p \in BookingRequests \ {q} :
                  asked[p].status = "APPROVED" => asked[p].reservationId # asked[q].reservationId
        /\ asked[q].status \notin {"NONE", "APPROVED"} => asked[q].reservationId = Floor!Absent
  BY DEF FloorInv, RequestsAnswered, Approved
<1>5. \A b \in Bookings :
        /\ Floor!Is(b, {"ARRIVED"}) =>
             /\ booking[b].session # "none"
             /\ booking[b].at \in booking[b].startsAt - CheckInEarly
                                    ..booking[b].startsAt + Grace - 1
        /\ Floor!Is(b, {"PENDING", "CANCELLED", "NO_SHOW"}) => booking[b].session = "none"
        /\ Floor!Is(b, {"NO_SHOW"}) => booking[b].at >= booking[b].startsAt + Grace
  BY DEF FloorInv, RowsFair, FairRow, Floor!Is
<1>. QED
  BY <1>1, <1>2, <1>3, <1>4, <1>5 DEF Floor!BookingsHonoured, FloorInv, SeatsTaken

\* The reservations that stand stay apart when one row changes.
LEMMA FloorRow ==
  ASSUME FloorInv, NEW b \in Bookings, NEW row \in BookingRow,
         booking' = [booking EXCEPT ![b] = row],
         row.status \in {"PENDING", "ARRIVED"} =>
           \/ Floor!SlotFree(b, row)
           \/ /\ Live(b) /\ row.tableId = booking[b].tableId
              /\ row.startsAt = booking[b].startsAt /\ row.endsAt = booking[b].endsAt,
         FairRow(row)
  PROVE  /\ booking' \in [Bookings -> {Floor!NoBooking} \cup BookingRow]
         /\ booking'[b] = row /\ \A c \in Bookings \ {b} : booking'[c] = booking[c]
         /\ SlotsApart' /\ RowsFair'
<1>1. /\ booking' \in [Bookings -> {Floor!NoBooking} \cup BookingRow]
      /\ booking'[b] = row /\ \A c \in Bookings \ {b} : booking'[c] = booking[c]
  BY DEF FloorInv, FloorTypes
<1>2. RowsFair'
  BY <1>1 DEF FloorInv, RowsFair, Floor!Is
<1>3. row.status \in {"PENDING", "ARRIVED"} => Floor!SlotFree(b, row)
  BY DEF FloorInv, SlotsApart, Floor!SlotFree, Floor!Overlap
<1>4. ASSUME NEW c \in Bookings, Live(c)' PROVE Floor!SlotFree(c, booking[c])'
  <2>1. CASE c = b
    BY <1>1, <1>3, <1>4, <2>1 DEF Live, Floor!SlotFree, Floor!Overlap, Floor!Is
  <2>2. CASE c # b
    BY <1>1, <1>3, <1>4, <2>2
    DEF FloorInv, SlotsApart, Live, Floor!SlotFree, Floor!Overlap, Floor!Is
  <2>. QED BY <2>1, <2>2
<1>. QED BY <1>1, <1>2, <1>4 DEF SlotsApart

\* What is said of the reservations alone stays with them.
LEMMA FloorSame ==
  ASSUME FloorInv, UNCHANGED booking
  PROVE  /\ SlotsApart' /\ RowsFair'
         /\ UNCHANGED edit => EditsLegal'
         /\ UNCHANGED table => SeatsTaken'
         /\ UNCHANGED asked => RequestsAnswered'
<1>1. /\ \A b \in Bookings : Live(b)' = Live(b) /\ Floor!Seated(b)' = Floor!Seated(b)
      /\ \A b \in Bookings : \A S : Floor!Is(b, S)' = Floor!Is(b, S)
      /\ UNCHANGED asked => \A q \in BookingRequests : Approved(q)' = Approved(q)
  BY DEF Live, Floor!Seated, Floor!Is, Approved
<1>2. SlotsApart' /\ RowsFair'
  BY DEF FloorInv, SlotsApart, RowsFair, Live, Floor!Is, Floor!SlotFree, Floor!Overlap,
         FairRow, Legal
<1>3. UNCHANGED edit => EditsLegal'
  BY DEF FloorInv, EditsLegal, Floor!Is, Floor!Unmodified, Floor!Changed, Legal
<1>4. UNCHANGED table => SeatsTaken'
  BY DEF FloorInv, SeatsTaken, Floor!Seated, Floor!Is
<1>5. UNCHANGED asked => RequestsAnswered'
  BY DEF FloorInv, RequestsAnswered, Approved, Floor!Is
<1>. QED BY <1>2, <1>3, <1>4, <1>5

\* The edits of a row stay legal when it is another row that changes, or when
\* the row no longer waits for them.
LEMMA FloorEdits ==
  ASSUME FloorInv, UNCHANGED edit,
         \A b \in Bookings : \/ booking'[b] = booking[b]
                            \/ Floor!Is(b, {"NONE"})
                            \/ /\ ~Floor!Is(b, {"NONE"})'
                               /\ ~Floor!Is(b, {"PENDING"})'
                               /\ booking'[b].updatedAt = booking[b].updatedAt
  PROVE  EditsLegal'
<1> SUFFICES ASSUME NEW b \in Bookings, NEW e \in edit[b]
             PROVE  /\ ~Floor!Is(b, {"NONE"})'
                    /\ e.seen <= booking'[b].updatedAt
                    /\ Floor!Unmodified(b, e)' => Legal(Floor!Changed(booking[b], e.dto))'
  BY DEF EditsLegal
<1>1. /\ ~Floor!Is(b, {"NONE"}) /\ e.seen <= booking[b].updatedAt
      /\ Floor!Unmodified(b, e) => Legal(Floor!Changed(booking[b], e.dto))
  BY DEF FloorInv, EditsLegal
<1>2. CASE booking'[b] = booking[b]
  <2>1. Floor!Changed(booking[b], e.dto)' = Floor!Changed(booking[b], e.dto)
    BY <1>2 DEF Floor!Changed
  <2>. QED BY <1>1, <1>2, <2>1 DEF Floor!Is, Floor!Unmodified, Legal
<1>3. CASE booking'[b] # booking[b]
  BY <1>1, <1>3 DEF Floor!Unmodified
<1>. QED BY <1>2, <1>3

\* A request that is not approved by the step.
LEMMA FloorRequest ==
  ASSUME FloorInv, NEW q \in BookingRequests, NEW row \in AskedRow,
         asked' = [asked EXCEPT ![q] = row], UNCHANGED <<now, table, booking, edit>>,
         row.status # "APPROVED", row.reservationId = Floor!Absent
  PROVE  FloorInv'
<1>1. /\ asked' \in [BookingRequests -> {Floor!NotAsked} \cup AskedRow]
      /\ asked'[q] = row /\ \A p \in BookingRequests \ {q} : asked'[p] = asked[p]
  BY DEF FloorInv, FloorTypes
<1>2. RequestsAnswered'
  BY <1>1 DEF FloorInv, RequestsAnswered, Approved, Floor!Is
<1>. QED BY <1>1, <1>2, FloorSame DEF FloorInv, FloorTypes

\* A row that was free is taken.
LEMMA FloorCreate ==
  ASSUME FloorInv, NEW b \in Bookings, NEW t \in Tables,
         NEW start \in Int, NEW end \in Int,
         Floor!Is(b, {"NONE"}),
         Floor!SlotFree(b, Floor!NewBooking(t, [startsAt |-> start, endsAt |-> end])),
         end - start \in MinDuration..MaxDuration,
         booking' = [booking EXCEPT ![b] =
                       Floor!NewBooking(t, [startsAt |-> start, endsAt |-> end])],
         UNCHANGED <<now, table, edit>>
  PROVE  /\ SlotsApart' /\ RowsFair' /\ EditsLegal' /\ SeatsTaken'
         /\ booking' \in [Bookings -> {Floor!NoBooking} \cup BookingRow]
         /\ booking'[b].status = "PENDING"
         /\ \A c \in Bookings \ {b} : booking'[c] = booking[c]
         /\ UNCHANGED asked => RequestsAnswered'
<1> DEFINE row == Floor!NewBooking(t, [startsAt |-> start, endsAt |-> end])
<1>1. row \in BookingRow /\ row.status = "PENDING"
  BY DEF Floor!NewBooking, BookingRow
<1>2. FairRow(row)
  BY DEF Floor!NewBooking, FairRow, Legal
<1>3. booking' = [booking EXCEPT ![b] = row] /\ Floor!SlotFree(b, row)
  OBVIOUS
<1> HIDE DEF row
<1>4. /\ booking' \in [Bookings -> {Floor!NoBooking} \cup BookingRow]
      /\ booking'[b] = row /\ \A c \in Bookings \ {b} : booking'[c] = booking[c]
      /\ SlotsApart' /\ RowsFair'
  BY <1>1, <1>2, <1>3, FloorRow
<1>5. EditsLegal'
  BY <1>4, FloorEdits
<1>6. SeatsTaken'
  BY <1>1, <1>4 DEF FloorInv, SeatsTaken, Floor!Seated, Floor!Is
<1>7. UNCHANGED asked => RequestsAnswered'
  BY <1>1, <1>4 DEF FloorInv, RequestsAnswered, Approved, Floor!Is
<1>. QED BY <1>1, <1>4, <1>5, <1>6, <1>7

\* What a guarded write stores: the revision its reader validated, or nothing.
LEMMA FloorWrite ==
  ASSUME FloorInv, NEW b \in Bookings, NEW e \in edit[b], Floor!WriteUpdate(b, e)
  PROVE  FloorInv'
<1> DEFINE row == [Floor!Changed(booking[b], e.dto) EXCEPT !.updatedAt = @ + 1]
<1>1. /\ edit' = [edit EXCEPT ![b] = @ \ {e}]
      /\ \/ /\ Floor!Unmodified(b, e) /\ Floor!SlotFree(b, row)
            /\ booking' = [booking EXCEPT ![b] = row]
         \/ UNCHANGED booking
      /\ UNCHANGED <<now, table, asked>>
  BY DEF Floor!WriteUpdate
<1>2. /\ edit' \in [Bookings -> SUBSET [dto : Floor!Changes, seen : Nat]]
      /\ edit'[b] = edit[b] \ {e} /\ \A c \in Bookings \ {b} : edit'[c] = edit[c]
  BY <1>1 DEF FloorInv, FloorTypes
<1>3. CASE UNCHANGED booking
  <2>1. EditsLegal'
    BY <1>2, <1>3
    DEF FloorInv, EditsLegal, Floor!Is, Floor!Unmodified, Floor!Changed, Legal
  <2>2. FloorTypes'
    BY <1>1, <1>2, <1>3 DEF FloorInv, FloorTypes
  <2>. QED BY <1>1, <1>3, <2>1, <2>2, FloorSame DEF FloorInv
<1>4. CASE /\ Floor!Unmodified(b, e) /\ Floor!SlotFree(b, row)
           /\ booking' = [booking EXCEPT ![b] = row]
  <2>1. /\ booking[b] \in BookingRow /\ booking[b].status = "PENDING"
        /\ booking[b].updatedAt = e.seen /\ e.dto \in Floor!Changes
    BY <1>4 DEF FloorInv, FloorTypes, Floor!Unmodified, Floor!Is, Floor!NoBooking
  <2>2. Legal(Floor!Changed(booking[b], e.dto))
    BY <1>4 DEF FloorInv, EditsLegal
  <2> DEFINE new == Floor!Changed(booking[b], e.dto)
  <2>3. /\ new \in BookingRow /\ new.status = "PENDING" /\ new.session = booking[b].session
        /\ new.updatedAt = booking[b].updatedAt
    <3>1. CASE e.dto \in [startsAt : Starts]
      BY <2>1, <3>1, ServicesConstants DEF BookingRow, Floor!Changed
    <3>2. CASE e.dto \in [endsAt : Ends]
      BY <2>1, <3>2, ServicesConstants DEF BookingRow, Floor!Changed
    <3>3. CASE e.dto \in [tableId : Tables]
      BY <2>1, <3>3 DEF BookingRow, Floor!Changed
    <3>. QED BY <2>1, <3>1, <3>2, <3>3 DEF Floor!Changes
  <2>4. row = [new EXCEPT !.updatedAt = @ + 1]
    OBVIOUS
  <2> HIDE DEF new, row
  <2>5. /\ row \in BookingRow /\ row.status = "PENDING" /\ row.session = booking[b].session
        /\ row.updatedAt = booking[b].updatedAt + 1
        /\ row.endsAt = new.endsAt /\ row.startsAt = new.startsAt
    BY <2>3, <2>4 DEF BookingRow
  <2>6. FairRow(row)
    <3>1. booking[b].session = "none"
      BY <2>1 DEF FloorInv, RowsFair, FairRow, Floor!Is
    <3>2. Legal(new)
      BY <2>2 DEF new
    <3>. QED BY <2>5, <3>1, <3>2 DEF FairRow, Legal
  <2>7. /\ booking' \in [Bookings -> {Floor!NoBooking} \cup BookingRow]
        /\ booking'[b] = row /\ \A c \in Bookings \ {b} : booking'[c] = booking[c]
        /\ SlotsApart' /\ RowsFair'
    BY <1>4, <2>5, <2>6, FloorRow
  <2>8. EditsLegal'
    <3>1. ASSUME NEW f \in edit'[b]
          PROVE  ~Floor!Is(b, {"NONE"})' /\ f.seen < booking'[b].updatedAt
      <4>1. f \in edit[b] /\ f.seen \in Nat /\ f.seen <= booking[b].updatedAt
        BY <1>2 DEF FloorInv, FloorTypes, EditsLegal
      <4>. QED BY <2>1, <2>5, <2>7, <4>1 DEF BookingRow, Floor!Is
    <3>2. ASSUME NEW f \in edit'[b] PROVE f.seen \in Nat /\ booking'[b].updatedAt \in Nat
      BY <1>2, <2>5, <2>7 DEF FloorInv, FloorTypes, BookingRow
    <3>3. \A f \in edit'[b] : ~Floor!Unmodified(b, f)' /\ f.seen <= booking'[b].updatedAt
      BY <3>1, <3>2 DEF Floor!Unmodified
    <3>. QED
      BY <1>2, <2>7, <3>1, <3>3
      DEF FloorInv, EditsLegal, Floor!Is, Floor!Unmodified, Floor!Changed, Legal
  <2>9. SeatsTaken' /\ RequestsAnswered'
    BY <1>1, <2>5, <2>7 DEF FloorInv, SeatsTaken, Floor!Seated, Floor!Is, RequestsAnswered, Approved
  <2>. QED BY <1>1, <1>2, <2>7, <2>8, <2>9 DEF FloorInv, FloorTypes
<1>. QED BY <1>1, <1>3, <1>4

\* A reservation that waited is closed, or its guests are seated.
LEMMA FloorSettle ==
  ASSUME FloorInv, NEW b \in Bookings, NEW row \in BookingRow,
         booking[b].status = "PENDING", row.status # "PENDING",
         row.tableId = booking[b].tableId, row.startsAt = booking[b].startsAt,
         row.endsAt = booking[b].endsAt, row.updatedAt = booking[b].updatedAt,
         FairRow(row), booking' = [booking EXCEPT ![b] = row],
         \/ row.session = "none" /\ UNCHANGED table
         \/ /\ table[row.tableId] = "EMPTY"
            /\ table' = [table EXCEPT ![row.tableId] = "OCCUPIED"],
         UNCHANGED <<now, asked, edit>>
  PROVE  FloorInv'
<1>1. /\ booking' \in [Bookings -> {Floor!NoBooking} \cup BookingRow]
      /\ booking'[b] = row /\ \A c \in Bookings \ {b} : booking'[c] = booking[c]
      /\ SlotsApart' /\ RowsFair'
  BY FloorRow DEF Live, Floor!Is
<1>2. row.status # "NONE" /\ row.tableId \in Tables
  BY DEF BookingRow
<1>3. EditsLegal'
  BY <1>1, <1>2, FloorEdits DEF Floor!Is
<1>4. RequestsAnswered'
  BY <1>1, <1>2 DEF FloorInv, RequestsAnswered, Approved, Floor!Is
<1>5. /\ table' \in [Tables -> {"EMPTY", "OCCUPIED", "DELETED"}]
      /\ \A t \in Tables : table[t] = "OCCUPIED" => table'[t] = "OCCUPIED"
      /\ row.session # "none" => table[row.tableId] = "EMPTY" /\ table'[row.tableId] = "OCCUPIED"
  BY <1>2 DEF FloorInv, FloorTypes
<1>6. \A c \in Bookings \ {b} : Floor!Seated(c)' => Floor!Seated(c) /\ booking[c].tableId \in Tables
  BY <1>1 DEF Floor!Seated, Floor!Is, FloorInv, FloorTypes, BookingRow, Floor!NoBooking
<1>7. Floor!Seated(b)' => row.session # "none"
  BY <1>1 DEF Floor!Seated
<1>8. SeatsTaken'
  BY <1>1, <1>5, <1>6, <1>7 DEF FloorInv, SeatsTaken
<1>. QED BY <1>1, <1>3, <1>4, <1>5, <1>8 DEF FloorInv, FloorTypes

\* Several reservations are closed, or several parties leave, in one step.
LEMMA FloorMany ==
  ASSUME FloorInv, UNCHANGED <<now, asked, edit>>,
         booking' \in [Bookings -> {Floor!NoBooking} \cup BookingRow],
         table' \in [Tables -> {"EMPTY", "OCCUPIED", "DELETED"}],
         \A b \in Bookings :
           \/ booking'[b] = booking[b]
           \/ /\ booking[b] \in BookingRow /\ booking'[b] \in BookingRow
              /\ booking'[b].tableId = booking[b].tableId
              /\ booking'[b].startsAt = booking[b].startsAt
              /\ booking'[b].endsAt = booking[b].endsAt
              /\ \/ booking[b].status = "PENDING" /\ booking'[b].status = "NO_SHOW"
                 \/ booking[b].status = "ARRIVED" /\ booking'[b].status = "ARRIVED"
              /\ booking'[b].session # "ACTIVE"
              /\ booking'[b].updatedAt = booking[b].updatedAt
              /\ FairRow(booking'[b]),
         \A b \in Bookings : Floor!Seated(b)' => table'[booking[b].tableId] = table[booking[b].tableId]
  PROVE  FloorInv'
<1>1. FloorTypes'
  BY DEF FloorInv, FloorTypes
<1>2. \A b \in Bookings : Live(b)' =>
        /\ Live(b) /\ booking'[b].tableId = booking[b].tableId
        /\ booking'[b].startsAt = booking[b].startsAt
        /\ booking'[b].endsAt = booking[b].endsAt
  BY DEF Live, Floor!Is
<1>3. SlotsApart'
  BY <1>2 DEF FloorInv, SlotsApart, Live, Floor!SlotFree, Floor!Overlap
<1>4. RowsFair'
  <2> SUFFICES ASSUME NEW b \in Bookings, ~Floor!Is(b, {"NONE"})' PROVE FairRow(booking'[b])
    BY DEF RowsFair, FairRow, Legal
  <2>. QED BY DEF FloorInv, RowsFair, Floor!Is
<1>5. \A b \in Bookings : Floor!Is(b, {"NONE"})' = Floor!Is(b, {"NONE"})
  BY DEF BookingRow, Floor!Is
<1>6. RequestsAnswered'
  BY <1>5 DEF FloorInv, RequestsAnswered, Approved
<1>7. EditsLegal'
  BY FloorEdits DEF Floor!Is, BookingRow
<1>8. \A b \in Bookings : Floor!Seated(b)' => Floor!Seated(b) /\ booking'[b].tableId = booking[b].tableId
  BY DEF Floor!Seated, Floor!Is
<1>9. SeatsTaken'
  BY <1>8 DEF FloorInv, SeatsTaken
<1>. QED BY <1>1, <1>3, <1>4, <1>6, <1>7, <1>9 DEF FloorInv

\* Every handler, the sweep, the floor and the clock.
LEMMA FloorNext ==
  ASSUME FloorInv, Floor!Next PROVE FloorInv'
<1>0. FloorTypes
  BY DEF FloorInv
<1>1. ASSUME NEW q \in BookingRequests,
             \/ \E w \in Floor!Window : Floor!CreatePublicRequest(q, w)
             \/ Floor!CancelPublicRequest(q) \/ Floor!RejectRequest(q)
      PROVE  FloorInv'
  <2>1. ASSUME NEW w \in Floor!Window, Floor!CreatePublicRequest(q, w) PROVE FloorInv'
    <3> DEFINE row == [status |-> "PENDING", startsAt |-> w.startsAt,
                       endsAt |-> w.endsAt, reservationId |-> Floor!Absent]
    <3>1. /\ row \in AskedRow /\ row.status # "APPROVED"
          /\ row.reservationId = Floor!Absent
      BY ServicesConstants DEF Floor!Window, AskedRow
    <3>2. asked' = [asked EXCEPT ![q] = row] /\ UNCHANGED <<now, table, booking, edit>>
      BY <2>1 DEF Floor!CreatePublicRequest
    <3>. QED BY <3>1, <3>2, FloorRequest
  <2>2. ASSUME NEW s \in {"CANCELLED", "REJECTED"}, asked[q].status = "PENDING",
               asked' = [asked EXCEPT ![q].status = s],
               UNCHANGED <<now, table, booking, edit>>
        PROVE  FloorInv'
    <3> DEFINE row == [asked[q] EXCEPT !.status = s]
    <3>1. asked[q] \in AskedRow /\ asked[q].reservationId = Floor!Absent
      BY <1>0, <2>2 DEF FloorTypes, Floor!NotAsked, FloorInv, RequestsAnswered
    <3>2. /\ row \in AskedRow /\ row.status # "APPROVED"
          /\ row.reservationId = Floor!Absent
      BY <3>1 DEF AskedRow
    <3>3. asked' = [asked EXCEPT ![q] = row]
      BY <2>2
    <3>. QED BY <2>2, <3>2, <3>3, FloorRequest
  <2>. QED BY <1>1, <2>1, <2>2 DEF Floor!CancelPublicRequest, Floor!RejectRequest
<1>2. ASSUME NEW q \in BookingRequests, NEW t \in Tables, NEW b \in Bookings,
             Floor!ApproveRequest(q, t, b)
      PROVE  FloorInv'
  <2>1. /\ asked[q].status = "PENDING" /\ Floor!assertValidWindow(asked[q], TRUE)
        /\ Floor!Is(b, {"NONE"}) /\ UNCHANGED <<now, table, edit>>
        /\ asked' = [asked EXCEPT ![q].status = "APPROVED", ![q].reservationId = b]
    BY <1>2 DEF Floor!ApproveRequest
  <2>2. asked[q] \in AskedRow
    BY <1>0, <2>1 DEF FloorTypes, Floor!NotAsked
  <2> DEFINE start == asked[q].startsAt
             end == asked[q].endsAt
             row == [asked[q] EXCEPT !.status = "APPROVED", !.reservationId = b]
  <2>3. /\ start \in Int /\ end \in Int /\ end - start \in MinDuration..MaxDuration
        /\ row \in AskedRow /\ row.status = "APPROVED" /\ row.reservationId = b
    BY <2>1, <2>2 DEF AskedRow, Floor!assertValidWindow
  <2>4. Floor!NewBooking(t, asked[q])
          = Floor!NewBooking(t, [startsAt |-> start, endsAt |-> end])
    BY DEF Floor!NewBooking
  <2>5. /\ Floor!SlotFree(b, Floor!NewBooking(t, [startsAt |-> start, endsAt |-> end]))
        /\ booking' = [booking EXCEPT ![b] =
                         Floor!NewBooking(t, [startsAt |-> start, endsAt |-> end])]
    BY <1>2, <2>4 DEF Floor!ApproveRequest
  <2>6. asked' = [asked EXCEPT ![q] = row]
    BY <2>1
  <2> HIDE DEF start, end, row
  <2>7. /\ SlotsApart' /\ RowsFair' /\ EditsLegal' /\ SeatsTaken'
        /\ booking' \in [Bookings -> {Floor!NoBooking} \cup BookingRow]
        /\ booking'[b].status = "PENDING"
        /\ \A c \in Bookings \ {b} : booking'[c] = booking[c]
    BY <2>1, <2>3, <2>5, FloorCreate
  <2>8. /\ asked' \in [BookingRequests -> {Floor!NotAsked} \cup AskedRow]
        /\ asked'[q] = row /\ \A p \in BookingRequests \ {q} : asked'[p] = asked[p]
    BY <1>0, <2>3, <2>6 DEF FloorTypes
  <2>9. RequestsAnswered'
    <3>1. \A p \in BookingRequests : Approved(p) => asked[p].reservationId # b
      BY <2>1 DEF FloorInv, RequestsAnswered
    <3>2. \A c \in Bookings : ~Floor!Is(c, {"NONE"}) => ~Floor!Is(c, {"NONE"})'
      BY <2>7 DEF Floor!Is
    <3>3. ~Floor!Is(b, {"NONE"})'
      BY <2>7 DEF Floor!Is
    <3>. QED BY <2>3, <2>8, <3>1, <3>2, <3>3 DEF FloorInv, RequestsAnswered, Approved
  <2>. QED BY <1>0, <2>1, <2>7, <2>8, <2>9 DEF FloorInv, FloorTypes
<1>3. ASSUME NEW b \in Bookings, NEW t \in Tables, NEW w \in Floor!Window,
             Floor!Create(b, t, w)
      PROVE  FloorInv'
  <2> DEFINE start == w.startsAt
             end == w.endsAt
  <2>1. /\ start \in Int /\ end \in Int /\ end - start \in MinDuration..MaxDuration
        /\ w = [startsAt |-> start, endsAt |-> end]
    BY ServicesConstants DEF Floor!Window
  <2>2. /\ Floor!Is(b, {"NONE"}) /\ UNCHANGED <<now, table, edit>> /\ UNCHANGED asked
        /\ Floor!SlotFree(b, Floor!NewBooking(t, [startsAt |-> start, endsAt |-> end]))
        /\ booking' = [booking EXCEPT ![b] =
                         Floor!NewBooking(t, [startsAt |-> start, endsAt |-> end])]
    BY <1>3, <2>1 DEF Floor!Create
  <2> HIDE DEF start, end
  <2>3. /\ SlotsApart' /\ RowsFair' /\ EditsLegal' /\ SeatsTaken'
        /\ booking' \in [Bookings -> {Floor!NoBooking} \cup BookingRow]
        /\ RequestsAnswered'
    BY <2>1, <2>2, FloorCreate
  <2>. QED BY <1>0, <2>2, <2>3 DEF FloorInv, FloorTypes
<1>4. ASSUME NEW b \in Bookings, NEW dto \in Floor!Changes, Floor!ReadForUpdate(b, dto)
      PROVE  FloorInv'
  <2> DEFINE e == [dto |-> dto, seen |-> booking[b].updatedAt]
             start == IF "startsAt" \in DOMAIN dto THEN dto.startsAt ELSE booking[b].startsAt
             end == IF "endsAt" \in DOMAIN dto THEN dto.endsAt ELSE booking[b].endsAt
  <2>1. /\ booking[b].status = "PENDING" /\ UNCHANGED <<now, table, asked, booking>>
        /\ edit' = [edit EXCEPT ![b] = @ \cup {e}]
        /\ end - start \in MinDuration..MaxDuration
    BY <1>4 DEF Floor!ReadForUpdate, Floor!assertValidWindow, Floor!Is
  <2>2. booking[b] \in BookingRow
    BY <1>0, <2>1 DEF FloorTypes, Floor!NoBooking
  <2>3. Legal(Floor!Changed(booking[b], dto))
    BY <2>1, <2>2 DEF Legal, Floor!Changed, BookingRow
  <2>4. e \in [dto : Floor!Changes, seen : Nat] /\ e.dto = dto /\ e.seen = booking[b].updatedAt
    BY <2>2 DEF BookingRow
  <2> HIDE DEF e
  <2>5. /\ edit' \in [Bookings -> SUBSET [dto : Floor!Changes, seen : Nat]]
        /\ edit'[b] = edit[b] \cup {e} /\ \A c \in Bookings \ {b} : edit'[c] = edit[c]
    BY <1>0, <2>1, <2>4 DEF FloorTypes
  <2>6. EditsLegal'
    <3>1. e.seen <= booking[b].updatedAt /\ ~Floor!Is(b, {"NONE"})
      BY <2>1, <2>2, <2>4 DEF BookingRow, Floor!Is
    <3>. QED
      BY <2>1, <2>3, <2>4, <2>5, <3>1
      DEF FloorInv, EditsLegal, Floor!Is, Floor!Unmodified, Floor!Changed, Legal
  <2>. QED BY <1>0, <2>1, <2>5, <2>6, FloorSame DEF FloorInv, FloorTypes
<1>5. ASSUME NEW b \in Bookings, Floor!Cancel(b) PROVE FloorInv'
  <2> DEFINE row == [booking[b] EXCEPT !.status = "CANCELLED"]
  <2>1. /\ booking[b].status = "PENDING" /\ UNCHANGED <<now, table, asked, edit>>
        /\ booking' = [booking EXCEPT ![b] = row]
    BY <1>5 DEF Floor!Cancel, Floor!Is
  <2>2. booking[b] \in BookingRow /\ FairRow(booking[b])
    BY <1>0, <2>1 DEF FloorTypes, Floor!NoBooking, FloorInv, RowsFair, Floor!Is
  <2>3. /\ row \in BookingRow /\ row.status = "CANCELLED"
        /\ row.tableId = booking[b].tableId /\ row.startsAt = booking[b].startsAt
        /\ row.endsAt = booking[b].endsAt /\ row.updatedAt = booking[b].updatedAt
        /\ row.session = booking[b].session
    BY <2>2 DEF BookingRow
  <2> HIDE DEF row
  <2>4. FairRow(row) /\ row.session = "none"
    BY <2>1, <2>2, <2>3 DEF FairRow, Legal
  <2>. QED BY <2>1, <2>3, <2>4, FloorSettle
<1>6. ASSUME NEW b \in Bookings, Floor!CheckIn(b) PROVE FloorInv'
  <2> DEFINE row == [booking[b] EXCEPT !.status = "ARRIVED", !.at = now, !.session = "ACTIVE"]
  <2>1. /\ booking[b].status = "PENDING" /\ UNCHANGED <<now, asked, edit>>
        /\ now >= booking[b].startsAt - CheckInEarly
        /\ now < booking[b].startsAt + Grace
        /\ table[booking[b].tableId] = "EMPTY"
        /\ table' = [table EXCEPT ![booking[b].tableId] = "OCCUPIED"]
        /\ booking' = [booking EXCEPT ![b] = row]
    BY <1>6 DEF Floor!CheckIn, Floor!Is
  <2>2. booking[b] \in BookingRow /\ FairRow(booking[b])
    BY <1>0, <2>1 DEF FloorTypes, Floor!NoBooking, FloorInv, RowsFair, Floor!Is
  <2>3. now \in Int
    BY <1>0 DEF FloorTypes
  <2>4. /\ row \in BookingRow /\ row.status = "ARRIVED"
        /\ row.tableId = booking[b].tableId /\ row.startsAt = booking[b].startsAt
        /\ row.endsAt = booking[b].endsAt /\ row.updatedAt = booking[b].updatedAt
        /\ row.session = "ACTIVE" /\ row.at = now
    BY <2>2, <2>3 DEF BookingRow
  <2> HIDE DEF row
  <2>5. FairRow(row)
    <3>1. now \in row.startsAt - CheckInEarly..row.startsAt + Grace - 1
      BY <2>1, <2>2, <2>3, <2>4, ServicesConstants DEF BookingRow
    <3>2. Legal(row)
      BY <2>2, <2>4 DEF FairRow, Legal
    <3>. QED BY <2>4, <3>1, <3>2 DEF FairRow
  <2>. QED BY <2>1, <2>4, <2>5, FloorSettle
<1>7. CASE Floor!MarkOverdueNoShows
  <2> DEFINE overdue == {b \in Bookings : Floor!Is(b, {"PENDING"})
                                            /\ booking[b].startsAt <= now - Grace}
             row(b) == [booking[b] EXCEPT !.status = "NO_SHOW", !.at = now]
  <2>1. /\ booking' = [b \in Bookings |-> IF b \in overdue THEN row(b) ELSE booking[b]]
        /\ UNCHANGED <<now, table, asked, edit>>
    BY <1>7 DEF Floor!MarkOverdueNoShows
  <2>2. ASSUME NEW b \in Bookings, b \in overdue
        PROVE  /\ booking[b] \in BookingRow /\ booking[b].status = "PENDING"
               /\ row(b) \in BookingRow
               /\ row(b).tableId = booking[b].tableId
               /\ row(b).startsAt = booking[b].startsAt
               /\ row(b).endsAt = booking[b].endsAt
               /\ row(b).status = "NO_SHOW" /\ row(b).session # "ACTIVE"
               /\ row(b).updatedAt = booking[b].updatedAt
               /\ FairRow(row(b))
    <3>1. /\ booking[b] \in BookingRow /\ booking[b].status = "PENDING"
          /\ booking[b].startsAt <= now - Grace
      BY <1>0, <2>2 DEF FloorTypes, Floor!NoBooking, Floor!Is
    <3>2. FairRow(booking[b]) /\ now \in Int
      BY <1>0, <3>1 DEF FloorInv, RowsFair, Floor!Is, FloorTypes
    <3>3. /\ row(b) \in BookingRow /\ row(b).status = "NO_SHOW"
          /\ row(b).tableId = booking[b].tableId /\ row(b).startsAt = booking[b].startsAt
          /\ row(b).endsAt = booking[b].endsAt /\ row(b).updatedAt = booking[b].updatedAt
          /\ row(b).session = booking[b].session /\ row(b).at = now
      BY <3>1, <3>2 DEF BookingRow
    <3> HIDE DEF row
    <3>4. now >= row(b).startsAt + Grace
      BY <3>1, <3>2, <3>3, ServicesConstants DEF BookingRow
    <3>5. FairRow(row(b)) /\ row(b).session # "ACTIVE"
      BY <3>1, <3>2, <3>3, <3>4 DEF FairRow, Legal
    <3>. QED BY <3>1, <3>3, <3>5
  <2> HIDE DEF overdue, row
  <2>3. booking' \in [Bookings -> {Floor!NoBooking} \cup BookingRow]
    BY <1>0, <2>1, <2>2 DEF FloorTypes
  <2>4. \A b \in Bookings : booking'[b] = IF b \in overdue THEN row(b) ELSE booking[b]
    BY <2>1
  <2>5. table' \in [Tables -> {"EMPTY", "OCCUPIED", "DELETED"}]
    BY <1>0, <2>1 DEF FloorTypes
  <2>. QED BY <2>1, <2>2, <2>3, <2>4, <2>5, FloorMany
<1>8. CASE Floor!MarkExpiredPublicRequests
  <2> DEFINE expired == {q \in BookingRequests : asked[q].status = "PENDING"
                                                   /\ asked[q].startsAt <= now}
             row(q) == [asked[q] EXCEPT !.status = "EXPIRED"]
  <2>1. /\ asked' = [q \in BookingRequests |-> IF q \in expired THEN row(q) ELSE asked[q]]
        /\ UNCHANGED <<now, table, booking, edit>>
    BY <1>8 DEF Floor!MarkExpiredPublicRequests
  <2>2. ASSUME NEW q \in BookingRequests, q \in expired
        PROVE  /\ asked[q].status = "PENDING" /\ row(q) \in AskedRow
               /\ row(q).status = "EXPIRED" /\ row(q).reservationId = Floor!Absent
    <3>1. asked[q] \in AskedRow /\ asked[q].status = "PENDING"
      BY <1>0, <2>2 DEF FloorTypes, Floor!NotAsked
    <3>2. asked[q].reservationId = Floor!Absent
      BY <3>1 DEF FloorInv, RequestsAnswered
    <3>. QED BY <3>1, <3>2 DEF AskedRow
  <2> HIDE DEF expired, row
  <2>3. asked' \in [BookingRequests -> {Floor!NotAsked} \cup AskedRow]
    BY <1>0, <2>1, <2>2 DEF FloorTypes
  <2>4. \A q \in BookingRequests : asked'[q] = IF q \in expired THEN row(q) ELSE asked[q]
    BY <2>1
  <2>5. RequestsAnswered'
    BY <2>1, <2>2, <2>4 DEF FloorInv, RequestsAnswered, Approved, Floor!Is
  <2>. QED BY <1>0, <2>1, <2>3, <2>5, FloorSame DEF FloorInv, FloorTypes
<1>9. ASSUME NEW t \in Tables, Floor!SeatWalkIn(t) \/ Floor!DeleteTable(t) PROVE FloorInv'
  <2>1. /\ table[t] = "EMPTY" /\ UNCHANGED <<now, asked, booking, edit>>
        /\ \E s \in {"OCCUPIED", "DELETED"} : table' = [table EXCEPT ![t] = s]
    BY <1>9 DEF Floor!SeatWalkIn, Floor!DeleteTable
  <2>2. /\ table' \in [Tables -> {"EMPTY", "OCCUPIED", "DELETED"}]
        /\ \A u \in Tables : table[u] = "OCCUPIED" => table'[u] = "OCCUPIED"
    BY <1>0, <2>1 DEF FloorTypes
  <2>3. \A b \in Bookings : Floor!Seated(b) => booking[b].tableId \in Tables
    BY <1>0 DEF FloorTypes, Floor!Seated, Floor!Is, BookingRow, Floor!NoBooking
  <2>4. SeatsTaken'
    BY <2>1, <2>2, <2>3 DEF FloorInv, SeatsTaken, Floor!Seated, Floor!Is
  <2>. QED BY <1>0, <2>1, <2>2, <2>4, FloorSame DEF FloorInv, FloorTypes
<1>10. ASSUME NEW t \in Tables, Floor!EndSession(t) PROVE FloorInv'
  <2> DEFINE leaves(b) == Floor!Is(b, {"ARRIVED"}) /\ booking[b].tableId = t
             row(b) == [booking[b] EXCEPT !.session = "ENDED"]
  <2>1. /\ booking' = [b \in Bookings |-> IF leaves(b) THEN row(b) ELSE booking[b]]
        /\ table' = [table EXCEPT ![t] = "EMPTY"]
        /\ UNCHANGED <<now, asked, edit>>
    BY <1>10 DEF Floor!EndSession
  <2>2. ASSUME NEW b \in Bookings, leaves(b)
        PROVE  /\ booking[b] \in BookingRow /\ booking[b].status = "ARRIVED"
               /\ row(b) \in BookingRow
               /\ row(b).tableId = booking[b].tableId
               /\ row(b).startsAt = booking[b].startsAt
               /\ row(b).endsAt = booking[b].endsAt
               /\ row(b).status = "ARRIVED" /\ row(b).session = "ENDED"
               /\ row(b).updatedAt = booking[b].updatedAt
               /\ FairRow(row(b))
    <3>1. booking[b] \in BookingRow /\ booking[b].status = "ARRIVED"
      BY <1>0, <2>2 DEF FloorTypes, Floor!NoBooking, Floor!Is
    <3>2. FairRow(booking[b])
      BY <3>1 DEF FloorInv, RowsFair, Floor!Is
    <3>3. /\ row(b) \in BookingRow /\ row(b).status = "ARRIVED"
          /\ row(b).tableId = booking[b].tableId /\ row(b).startsAt = booking[b].startsAt
          /\ row(b).endsAt = booking[b].endsAt /\ row(b).updatedAt = booking[b].updatedAt
          /\ row(b).session = "ENDED" /\ row(b).at = booking[b].at
      BY <3>1 DEF BookingRow
    <3> HIDE DEF row
    <3>4. FairRow(row(b))
      BY <3>1, <3>2, <3>3 DEF FairRow, Legal
    <3>. QED BY <3>1, <3>3, <3>4
  <2>3. ASSUME NEW b \in Bookings, Floor!Seated(b)'
        PROVE  ~leaves(b) /\ booking[b].tableId # t
    <3>1. booking'[b] = IF leaves(b) THEN row(b) ELSE booking[b]
      BY <2>1
    <3>2. ~leaves(b)
      <4> HIDE DEF leaves, row
      <4>. QED BY <2>2, <2>3, <3>1 DEF Floor!Seated
    <3>. QED BY <2>3, <3>1, <3>2 DEF Floor!Seated, Floor!Is
  <2> HIDE DEF leaves, row
  <2>4. booking' \in [Bookings -> {Floor!NoBooking} \cup BookingRow]
    BY <1>0, <2>1, <2>2 DEF FloorTypes
  <2>5. \A b \in Bookings : booking'[b] = IF leaves(b) THEN row(b) ELSE booking[b]
    BY <2>1
  <2>6. /\ table' \in [Tables -> {"EMPTY", "OCCUPIED", "DELETED"}]
        /\ \A b \in Bookings : Floor!Seated(b)' => table'[booking[b].tableId] = table[booking[b].tableId]
    BY <1>0, <2>1, <2>3 DEF FloorTypes
  <2>. QED BY <2>1, <2>2, <2>4, <2>5, <2>6, FloorMany
<1>11. CASE Floor!TimePasses
  <2>1. now' \in Int /\ UNCHANGED <<table, asked, booking, edit>>
    BY <1>0, <1>11 DEF Floor!TimePasses, FloorTypes
  <2>. QED BY <1>0, <2>1, FloorSame DEF FloorInv, FloorTypes
<1>. QED
  BY <1>1, <1>2, <1>3, <1>4, <1>5, <1>6, <1>7, <1>8, <1>9, <1>10, <1>11, FloorWrite, Zenon
  DEF Floor!Next

\* The invariant holds in every behaviour of the service.
LEMMA FloorAlways == Spec => [](on = "floor" => FloorInv)
<1> DEFINE I == on = "floor" => FloorInv
<1>1. Init => I
  BY FloorStart DEF Init
<1>2. I /\ [Next]_vars => I'
  <2> SUFFICES ASSUME I, [Next]_vars, on' = "floor" PROVE FloorInv'
    OBVIOUS
  <2>1. FloorInv /\ (Floor!Next \/ UNCHANGED floorVars)
    BY Turn
  <2>2. ASSUME UNCHANGED floorVars PROVE FloorInv'
    BY <2>1, <2>2, FloorSame DEF floorVars, FloorInv, FloorTypes
  <2>. QED BY <2>1, <2>2, FloorNext
<1>. QED BY <1>1, <1>2, PTL DEF Spec

\* No two parties are promised or given one table at one time, and whatever
\* is edited, approved, checked in or missed is so by the rules, for any
\* number of tables, reservations and screens and any opening hours.
\* (approveRequest, update, checkInReservation and the sweep.)
THEOREM BookingsAreHonoured == Spec => []BookingsHonoured
<1>1. (on = "floor" => FloorInv) => BookingsHonoured
  BY FloorHonoured DEF BookingsHonoured
<1>. QED BY <1>1, FloorAlways, PTL

-----------------------------------------------------------------------------
(* Stock documents.  A count posted over a stock that has not moved since  *)
(* the snapshot finds missing exactly what is: what was counted and what   *)
(* the count found missing are, together, the stock of the snapshot.       *)

ItemRow == [row : {"NONE", "ACTIVE", "DELETED"}, stock : Int, reserved : Int]
Counting(S) ==
  [status : {"DRAFT"}, expected : [S -> Int], lines : [S -> Int], since : [S -> Int],
   found : [S -> Int]]
TakeRow ==
  [status : {"NONE", "POSTED", "CANCELLED"}] \cup UNION {Counting(S) : S \in SUBSET Items}
ReceiptRow ==
  [status : {"NONE", "CANCELLED"}]
    \cup [status : {"DRAFT"}, lines : Stock!ReceiptLines, updatedAt : Nat]
    \cup [status : {"POSTED"}, lines : Stock!ReceiptLines]

ItemTypes ==
  /\ item \in [Items -> ItemRow]
  /\ ledger \in [Items -> Int] /\ shelf \in [Items -> Int]
  /\ missing \in [Items -> Int] /\ moves \in [Items -> Int]
DocumentTypes ==
  /\ stocktake \in [Stocktakes -> TakeRow]
  /\ receipt \in [Receipts -> ReceiptRow]
  /\ reviewed \in [Receipts ->
       {Stock!Unread} \cup [updatedAt : Nat, lines : Stock!ReceiptLines]]

Balanced(i) ==
  /\ ledger[i] = item[i].stock
  /\ item[i].reserved \in 0..item[i].stock
  /\ i \notin cameBack => item[i].stock - shelf[i] = missing[i]
  /\ item[i].row # "ACTIVE" => item[i].stock = 0
  /\ item[i].row = "NONE" => shelf[i] = 0 /\ missing[i] = 0
ItemsBalanced == \A i \in Items : Balanced(i)
DraftsLive == \A i \in Items : item[i].row # "ACTIVE" => ~Stock!DraftLines(i)
CountTrue(k, i) ==
  /\ stocktake[k].since[i] <= moves[i]
  /\ /\ stocktake[k].since[i] = moves[i] /\ i \notin cameBack
     /\ stocktake[k].lines[i] # Stock!NotCounted
     => stocktake[k].lines[i] + stocktake[k].found[i] = item[i].stock
CountsTrue ==
  \A k \in Stocktakes : Stock!Draft(stocktake[k]) =>
    \A i \in Stock!LinesOf(stocktake[k]) : CountTrue(k, i)
ReceiptsReviewed ==
  \A d \in Receipts :
    /\ receipt[d].status = "NONE" => reviewed[d] = Stock!Unread
    /\ receipt[d].status = "POSTED" => receipt[d].lines = reviewed[d].lines
    /\ Stock!Draft(receipt[d]) /\ reviewed[d] # Stock!Unread =>
         /\ reviewed[d].updatedAt <= receipt[d].updatedAt
         /\ reviewed[d].updatedAt = receipt[d].updatedAt => reviewed[d].lines = receipt[d].lines
    /\ Stock!Draft(receipt[d]) => supplier
StockInv ==
  ItemTypes /\ DocumentTypes /\ ItemsBalanced /\ DraftsLive /\ CountsTrue /\ ReceiptsReviewed

\* Nothing is in stock, and no document is written.
LEMMA StockStart == Stock!Init => StockInv
<1> SUFFICES ASSUME Stock!Init PROVE StockInv
  OBVIOUS
<1> USE DEF Stock!Init, Stock!NoDocument, Stock!Unread, Stock!Draft
<1>1. ItemTypes
  BY DEF ItemTypes, ItemRow
<1>2. DocumentTypes
  BY DEF DocumentTypes, TakeRow, ReceiptRow
<1>3. ItemsBalanced /\ DraftsLive /\ CountsTrue /\ ReceiptsReviewed
  BY DEF ItemsBalanced, Balanced, DraftsLive, CountsTrue, ReceiptsReviewed, Stock!DraftLines
<1>. QED BY <1>1, <1>2, <1>3 DEF StockInv

\* What the run checks is what the invariant says.
LEMMA StockIsAccounted == StockInv => Stock!StockAccounted
<1> SUFFICES ASSUME StockInv PROVE Stock!StockAccounted
  OBVIOUS
<1>1. \A i \in Items :
        /\ item[i].row \in {"NONE", "ACTIVE", "DELETED"}
        /\ ledger[i] = item[i].stock
        /\ item[i].reserved \in 0..item[i].stock
        /\ i \notin cameBack => item[i].stock - shelf[i] = missing[i]
        /\ item[i].row # "ACTIVE" => ~Stock!DraftLines(i) /\ item[i].stock = 0
  BY DEF StockInv, ItemTypes, ItemRow, ItemsBalanced, Balanced, DraftsLive
<1>2. \A d \in Receipts :
        /\ receipt[d].status \in Stock!Document
        /\ receipt[d].status = "POSTED" => receipt[d].lines = reviewed[d].lines
        /\ Stock!Draft(receipt[d]) => supplier
  BY DEF StockInv, DocumentTypes, ReceiptRow, ReceiptsReviewed, Stock!Document
<1>. QED BY <1>1, <1>2 DEF Stock!StockAccounted

\* A step on the items that leaves the documents: whatever changes the stock
\* of an item is a movement of it, and no draft names an item that goes.
LEMMA StockItems ==
  ASSUME StockInv, ItemTypes', UNCHANGED <<stocktake, receipt, reviewed, supplier, cameBack>>,
         \A i \in Items :
           /\ Balanced(i)'
           /\ moves[i] <= moves'[i]
           /\ item[i].row = "ACTIVE" /\ moves'[i] = moves[i] => item'[i].stock = item[i].stock
           /\ item[i].row = "ACTIVE" /\ item'[i].row # "ACTIVE" => ~Stock!DraftLines(i)
           /\ item[i].row # "ACTIVE" => item'[i].row = "ACTIVE" \/ item'[i].row = item[i].row
  PROVE  StockInv'
<1>1. DocumentTypes' /\ ReceiptsReviewed' /\ ItemsBalanced'
  BY DEF StockInv, DocumentTypes, ReceiptsReviewed, ItemsBalanced
<1>2. \A i : Stock!DraftLines(i)' = Stock!DraftLines(i)
  BY DEF Stock!DraftLines
<1>3. DraftsLive'
  BY <1>2 DEF StockInv, DraftsLive
<1>4. CountsTrue'
  <2> SUFFICES ASSUME NEW k \in Stocktakes, Stock!Draft(stocktake[k]),
                      NEW i \in Stock!LinesOf(stocktake[k])
               PROVE  CountTrue(k, i)'
    BY DEF CountsTrue
  <2>1. PICK S \in SUBSET Items : stocktake[k] \in Counting(S)
    BY DEF StockInv, DocumentTypes, TakeRow, Stock!Draft
  <2>2. i \in Items /\ stocktake[k].since[i] \in Int
    BY <2>1 DEF Counting, Stock!LinesOf
  <2>3. Stock!DraftLines(i) /\ CountTrue(k, i)
    BY DEF Stock!DraftLines, StockInv, CountsTrue
  <2>4. item[i].row = "ACTIVE"
    BY <2>2, <2>3 DEF StockInv, DraftsLive
  <2>5. moves[i] \in Int /\ moves'[i] \in Int
    BY <2>2 DEF StockInv, ItemTypes
  <2>. QED BY <2>2, <2>3, <2>4, <2>5 DEF CountTrue
<1>. QED BY <1>1, <1>3, <1>4 DEF StockInv

\* What the items are is not touched by a step on the documents.
LEMMA StockSame ==
  ASSUME StockInv, UNCHANGED <<item, ledger, shelf, missing, moves, cameBack>>
  PROVE  ItemTypes' /\ ItemsBalanced'
BY DEF StockInv, ItemTypes, ItemsBalanced, Balanced

\* A stocktake is closed, or one whose lines are of items in stock is written.
LEMMA StockTake ==
  ASSUME StockInv, NEW k \in Stocktakes, NEW row \in TakeRow,
         stocktake' = [stocktake EXCEPT ![k] = row],
         UNCHANGED <<item, ledger, shelf, missing, moves, cameBack, receipt, reviewed, supplier>>,
         row.status = "DRAFT" =>
           \A i \in Stock!LinesOf(row) : item[i].row = "ACTIVE" /\ CountTrue(k, i)'
  PROVE  StockInv'
<1>1. /\ stocktake' \in [Stocktakes -> TakeRow] /\ stocktake'[k] = row
      /\ \A j \in Stocktakes \ {k} : stocktake'[j] = stocktake[j]
  BY DEF StockInv, DocumentTypes
<1>2. DocumentTypes' /\ ReceiptsReviewed'
  BY <1>1 DEF StockInv, DocumentTypes, ReceiptsReviewed
<1>3. DraftsLive'
  BY <1>1 DEF StockInv, DraftsLive, Stock!DraftLines, Stock!Draft
<1>4. CountsTrue'
  BY <1>1 DEF StockInv, CountsTrue, CountTrue, Stock!Draft
<1>. QED BY <1>2, <1>3, <1>4, StockSame DEF StockInv

\* A receipt is written, or closed.
LEMMA StockReceipt ==
  ASSUME StockInv, NEW d \in Receipts, NEW row \in ReceiptRow,
         receipt' = [receipt EXCEPT ![d] = row],
         UNCHANGED <<item, ledger, shelf, missing, moves, cameBack, stocktake, reviewed, supplier>>,
         \/ row.status = "CANCELLED"
         \/ /\ row.status = "DRAFT" /\ supplier
            /\ \A i \in Stock!LinesOf(row) : item[i].row = "ACTIVE"
            /\ \/ receipt[d].status = "NONE"
               \/ receipt[d].status = "DRAFT" /\ receipt[d].updatedAt < row.updatedAt
  PROVE  StockInv'
<1>1. /\ receipt' \in [Receipts -> ReceiptRow] /\ receipt'[d] = row
      /\ \A e \in Receipts \ {d} : receipt'[e] = receipt[e]
  BY DEF StockInv, DocumentTypes
<1>2. DocumentTypes'
  BY <1>1 DEF StockInv, DocumentTypes
<1>3. DraftsLive'
  BY <1>1 DEF StockInv, DraftsLive, Stock!DraftLines, Stock!Draft
<1>4. CountsTrue'
  BY DEF StockInv, CountsTrue, CountTrue
<1>5. ReceiptsReviewed'
  <2>1. row.status = "DRAFT" /\ reviewed[d] # Stock!Unread => reviewed[d].updatedAt < row.updatedAt
    <3> SUFFICES ASSUME row.status = "DRAFT", reviewed[d] # Stock!Unread
                 PROVE  reviewed[d].updatedAt < row.updatedAt
      OBVIOUS
    <3>1. receipt[d].status = "DRAFT" /\ receipt[d].updatedAt < row.updatedAt
      BY DEF StockInv, ReceiptsReviewed
    <3>2. /\ receipt[d].updatedAt \in Nat /\ row.updatedAt \in Nat
          /\ reviewed[d].updatedAt \in Nat
      BY <3>1 DEF StockInv, DocumentTypes, ReceiptRow
    <3>3. reviewed[d].updatedAt <= receipt[d].updatedAt
      BY <3>1 DEF StockInv, ReceiptsReviewed, Stock!Draft
    <3>. QED BY <3>1, <3>2, <3>3
  <2>2. row.status = "DRAFT" /\ reviewed[d] # Stock!Unread =>
          row.updatedAt \in Nat /\ reviewed[d].updatedAt \in Nat
    BY DEF StockInv, DocumentTypes, ReceiptRow
  <2>. QED BY <1>1, <2>1, <2>2 DEF StockInv, ReceiptsReviewed, Stock!Draft
<1>. QED BY <1>2, <1>3, <1>4, <1>5, StockSame DEF StockInv

\* A movement adds to stock, ledger and shelf alike.
LEMMA StockMove ==
  ASSUME StockInv, NEW D \in SUBSET Items, NEW delta \in [D -> Int],
         Stock!Move(delta), Stock!Put(delta), UNCHANGED missing,
         UNCHANGED cameBack,
         \A i \in D : item[i].row = "ACTIVE" /\ item[i].stock + delta[i] >= item[i].reserved
  PROVE  /\ ItemTypes'
         /\ \A i \in Items :
              /\ Balanced(i)'
              /\ moves[i] <= moves'[i]
              /\ moves'[i] = moves[i] => item'[i].stock = item[i].stock
              /\ item'[i].row = item[i].row
<1>0. DOMAIN delta = D
  OBVIOUS
<1>1. /\ item' = [i \in Items |->
           IF i \in D THEN [item[i] EXCEPT !.stock = @ + delta[i]] ELSE item[i]]
      /\ ledger' = [i \in Items |-> IF i \in D THEN ledger[i] + delta[i] ELSE ledger[i]]
      /\ moves' = [i \in Items |->
           IF i \in D /\ delta[i] # 0 THEN moves[i] + 1 ELSE moves[i]]
      /\ shelf' = [i \in Items |-> IF i \in D THEN shelf[i] + delta[i] ELSE shelf[i]]
  BY <1>0 DEF Stock!Move, Stock!Put
<1>2. ASSUME NEW i \in Items
      PROVE  /\ item[i] \in ItemRow /\ item[i].stock \in Int /\ item[i].reserved \in Int
             /\ ledger[i] \in Int /\ moves[i] \in Int /\ shelf[i] \in Int /\ missing[i] \in Int
             /\ Balanced(i)
  BY DEF StockInv, ItemTypes, ItemRow, ItemsBalanced
<1>3. ASSUME NEW i \in Items, i \in D
      PROVE  /\ item'[i] \in ItemRow /\ item'[i].stock = item[i].stock + delta[i]
             /\ item'[i].reserved = item[i].reserved /\ item'[i].row = item[i].row
             /\ ledger'[i] = ledger[i] + delta[i] /\ shelf'[i] = shelf[i] + delta[i]
             /\ moves'[i] = IF delta[i] = 0 THEN moves[i] ELSE moves[i] + 1
             /\ delta[i] \in Int
  <2>1. delta[i] \in Int
    BY <1>3
  <2>2. item'[i] = [item[i] EXCEPT !.stock = @ + delta[i]]
    BY <1>1, <1>3
  <2>3. /\ ledger'[i] = ledger[i] + delta[i] /\ shelf'[i] = shelf[i] + delta[i]
        /\ moves'[i] = IF delta[i] = 0 THEN moves[i] ELSE moves[i] + 1
    BY <1>1, <1>3
  <2>. QED BY <1>2, <2>1, <2>2, <2>3 DEF ItemRow
<1>4. ASSUME NEW i \in Items, i \notin D
      PROVE  item'[i] = item[i] /\ ledger'[i] = ledger[i] /\ shelf'[i] = shelf[i]
               /\ moves'[i] = moves[i]
  BY <1>1, <1>4
<1>5. ItemTypes'
  <2>1. ASSUME NEW i \in Items
        PROVE  item'[i] \in ItemRow /\ ledger'[i] \in Int /\ shelf'[i] \in Int /\ moves'[i] \in Int
    BY <1>2, <1>3, <1>4
  <2>2. missing' \in [Items -> Int]
    BY DEF StockInv, ItemTypes
  <2>. QED BY <1>1, <2>1, <2>2 DEF ItemTypes
<1>6. ASSUME NEW i \in Items, i \in D
      PROVE  Balanced(i)'
  BY <1>2, <1>3, <1>6 DEF Balanced
<1>7. ASSUME NEW i \in Items, i \notin D
      PROVE  Balanced(i)'
  BY <1>2, <1>4, <1>7 DEF Balanced
<1>8. ASSUME NEW i \in Items
      PROVE  /\ moves[i] <= moves'[i]
             /\ moves'[i] = moves[i] => item'[i].stock = item[i].stock
             /\ item'[i].row = item[i].row
  BY <1>2, <1>3, <1>4
<1>. QED BY <1>5, <1>6, <1>7, <1>8

\* What happens to one item.
LEMMA StockItem ==
  ASSUME StockInv, NEW i \in Items,
         \/ \E q \in Quantities : Stock!CreateItem(i, q) \/ Stock!ImportItem(i, q)
                                    \/ Stock!ExportItem(i, q)
         \/ Stock!RemoveItem(i) \/ Stock!Reserve(i) \/ Stock!Release(i)
         \/ Stock!Consume(i) \/ Stock!Spoil(i)
  PROVE  StockInv'
<1>0. /\ item[i] \in ItemRow /\ item[i].stock \in Int /\ item[i].reserved \in Int
      /\ ledger[i] \in Int /\ moves[i] \in Int /\ shelf[i] \in Int /\ missing[i] \in Int
  BY DEF StockInv, ItemTypes, ItemRow
<1>1. \A j \in Items : Balanced(j) /\ moves[j] \in Int
  BY DEF StockInv, ItemsBalanced, ItemTypes
<1>2. ASSUME NEW q \in Quantities, Stock!CreateItem(i, q) PROVE StockInv'
  <2> DEFINE row == [row |-> "ACTIVE", stock |-> q, reserved |-> 0]
  <2>1. /\ item[i].row = "NONE" /\ item' = [item EXCEPT ![i] = row]
        /\ ledger' = [ledger EXCEPT ![i] = q] /\ shelf' = [shelf EXCEPT ![i] = q]
        /\ UNCHANGED <<missing, moves>>
        /\ UNCHANGED <<stocktake, receipt, reviewed, supplier, cameBack>>
    BY <1>2 DEF Stock!CreateItem, Stock!documents
  <2>2. /\ row \in ItemRow /\ q \in Nat /\ row.stock = q /\ row.reserved = 0
        /\ row.row = "ACTIVE"
    BY ServicesConstants DEF ItemRow
  <2> HIDE DEF row
  <2>3. ItemTypes'
    BY <2>1, <2>2 DEF StockInv, ItemTypes
  <2>4. /\ item'[i] = row /\ ledger'[i] = q /\ shelf'[i] = q
        /\ \A j \in Items \ {i} : item'[j] = item[j] /\ ledger'[j] = ledger[j]
                                    /\ shelf'[j] = shelf[j]
    BY <2>1 DEF StockInv, ItemTypes
  <2>5. Balanced(i)'
    <3>1. missing[i] = 0
      BY <1>0, <1>1, <2>1 DEF Balanced
    <3>. QED BY <1>0, <2>1, <2>2, <2>4, <3>1 DEF Balanced
  <2>6. \A j \in Items \ {i} : Balanced(j)'
    BY <1>1, <2>1, <2>4 DEF Balanced
  <2>. QED BY <1>1, <2>1, <2>2, <2>3, <2>4, <2>5, <2>6, StockItems
<1>3. ASSUME NEW q \in Quantities, Stock!ImportItem(i, q) \/ Stock!ExportItem(i, q)
      PROVE  StockInv'
  <2>1. PICK n \in {q, -q} :
          /\ item[i].row = "ACTIVE" /\ item[i].stock + n >= item[i].reserved
          /\ Stock!Move([j \in {i} |-> n]) /\ Stock!Put([j \in {i} |-> n])
          /\ UNCHANGED missing /\ UNCHANGED cameBack
          /\ UNCHANGED <<stocktake, receipt, reviewed, supplier, cameBack>>
    <3>1. q \in Nat
      BY ServicesConstants
    <3>2. item[i].stock >= item[i].reserved
      BY <1>0, <1>1 DEF Balanced
    <3>3. CASE Stock!ImportItem(i, q)
      BY <1>0, <3>1, <3>2, <3>3 DEF Stock!ImportItem, Stock!Active, Stock!documents
    <3>4. CASE Stock!ExportItem(i, q)
      BY <1>0, <3>1, <3>2, <3>4 DEF Stock!ExportItem, Stock!Active, Stock!documents
    <3>. QED BY <1>3, <3>3, <3>4
  <2> DEFINE D == {i}
             delta == [j \in D |-> n]
  <2>2. D \in SUBSET Items /\ delta \in [D -> Int] /\ \A j \in D : j = i /\ delta[j] = n
    BY ServicesConstants
  <2>3. Stock!Move(delta) /\ Stock!Put(delta)
    BY <2>1
  <2> HIDE DEF D, delta
  <2>4. \A j \in D : item[j].row = "ACTIVE" /\ item[j].stock + delta[j] >= item[j].reserved
    BY <2>1, <2>2
  <2>5. /\ ItemTypes'
        /\ \A j \in Items :
             /\ Balanced(j)'
             /\ moves[j] <= moves'[j]
             /\ moves'[j] = moves[j] => item'[j].stock = item[j].stock
             /\ item'[j].row = item[j].row
    BY <2>1, <2>2, <2>3, <2>4, StockMove
  <2>. QED BY <2>1, <2>5, StockItems
<1>4. ASSUME NEW row \in ItemRow, item' = [item EXCEPT ![i] = row],
             UNCHANGED <<ledger, shelf, missing, moves>>,
             UNCHANGED <<stocktake, receipt, reviewed, supplier, cameBack>>,
             row.stock = item[i].stock, row.reserved \in 0..row.stock,
             \/ row.row = item[i].row
             \/ row.row = "DELETED" /\ row.stock = 0 /\ ~Stock!DraftLines(i)
                  /\ item[i].row = "ACTIVE"
      PROVE  StockInv'
  <2>1. /\ ItemTypes' /\ item'[i] = row /\ \A j \in Items \ {i} : item'[j] = item[j]
    BY <1>4 DEF StockInv, ItemTypes
  <2>2. Balanced(i)'
    BY <1>0, <1>1, <1>4, <2>1 DEF Balanced
  <2>3. \A j \in Items \ {i} : Balanced(j)'
    BY <1>1, <1>4, <2>1 DEF Balanced
  <2>. QED BY <1>1, <1>4, <2>1, <2>2, <2>3, StockItems
<1>5. CASE Stock!RemoveItem(i)
  <2> DEFINE row == [item[i] EXCEPT !.row = "DELETED"]
  <2>1. /\ item' = [item EXCEPT ![i] = row] /\ UNCHANGED <<ledger, shelf, missing, moves>>
        /\ UNCHANGED <<stocktake, receipt, reviewed, supplier, cameBack>>
        /\ item[i].stock = 0 /\ item[i].reserved = 0 /\ ~Stock!DraftLines(i)
        /\ item[i].row = "ACTIVE"
    BY <1>5 DEF Stock!RemoveItem, Stock!documents, Stock!Active
  <2>2. /\ row \in ItemRow /\ row.stock = 0 /\ row.reserved = 0 /\ row.row = "DELETED"
    BY <1>0, <2>1 DEF ItemRow
  <2> HIDE DEF row
  <2>3. row.stock = item[i].stock /\ row.reserved \in 0..row.stock
    BY <2>1, <2>2
  <2>. QED BY <1>4, <2>1, <2>2, <2>3
<1>6. CASE Stock!Reserve(i) \/ Stock!Release(i)
  <2>1. PICK n \in {1, -1} :
          /\ item' = [item EXCEPT ![i].reserved = @ + n]
          /\ UNCHANGED <<ledger, shelf, missing, moves>>
          /\ UNCHANGED <<stocktake, receipt, reviewed, supplier, cameBack>>
          /\ item[i].reserved + n \in 0..item[i].stock
    <3>1. item[i].reserved \in 0..item[i].stock
      BY <1>1 DEF Balanced
    <3>2. CASE Stock!Reserve(i)
      BY <1>0, <3>1, <3>2 DEF Stock!Reserve, Stock!documents
    <3>3. CASE Stock!Release(i)
      <4>1. item[i].reserved - 1 = item[i].reserved + (-1)
        BY <1>0
      <4>2. item' = [item EXCEPT ![i].reserved = @ + (-1)]
        BY <1>0, <3>3, <4>1 DEF Stock!Release
      <4>3. item[i].reserved + (-1) \in 0..item[i].stock
        BY <1>0, <3>1, <3>3 DEF Stock!Release
      <4>4. /\ UNCHANGED <<ledger, shelf, missing, moves>>
            /\ UNCHANGED <<stocktake, receipt, reviewed, supplier, cameBack>>
        BY <3>3 DEF Stock!Release, Stock!documents
      <4>. QED BY <4>2, <4>3, <4>4
    <3>. QED BY <1>6, <3>2, <3>3
  <2> DEFINE row == [item[i] EXCEPT !.reserved = @ + n]
  <2>2. item' = [item EXCEPT ![i] = row]
    BY <2>1
  <2>3. /\ row \in ItemRow /\ row.stock = item[i].stock /\ row.reserved = item[i].reserved + n
        /\ row.row = item[i].row
    BY <1>0 DEF ItemRow
  <2> HIDE DEF row
  <2>. QED BY <1>4, <2>1, <2>2, <2>3
<1>7. CASE Stock!Consume(i)
  <2> DEFINE fewer == item[i].reserved - 1
             less == item[i].stock - 1
             row == [item[i] EXCEPT !.reserved = fewer, !.stock = less]
  <2>1. /\ item' = [item EXCEPT ![i] = row] /\ ledger' = [ledger EXCEPT ![i] = @ - 1]
        /\ moves' = [moves EXCEPT ![i] = @ + 1] /\ Stock!Put([j \in {i} |-> -1])
        /\ UNCHANGED missing /\ item[i].reserved > 0
        /\ UNCHANGED <<stocktake, receipt, reviewed, supplier, cameBack>>
    BY <1>7 DEF Stock!Consume, Stock!documents
  <2>2. /\ row \in ItemRow /\ row.stock = item[i].stock - 1
        /\ row.reserved = item[i].reserved - 1 /\ row.row = item[i].row
    <3>1. fewer \in Int /\ less \in Int
      BY <1>0
    <3> HIDE DEF fewer, less
    <3>2. row \in ItemRow /\ row.stock = less /\ row.reserved = fewer /\ row.row = item[i].row
      BY <1>0, <3>1 DEF ItemRow
    <3>. QED BY <3>2 DEF fewer, less
  <2>3. shelf' = [j \in Items |-> IF j \in {i} THEN shelf[j] + (-1) ELSE shelf[j]]
    BY <2>1 DEF Stock!Put
  <2> HIDE DEF row
  <2>4. /\ shelf' \in [Items -> Int] /\ shelf'[i] = shelf[i] - 1
        /\ \A j \in Items \ {i} : shelf'[j] = shelf[j]
    BY <1>0, <2>3 DEF StockInv, ItemTypes
  <2>5. /\ ItemTypes' /\ item'[i] = row /\ \A j \in Items \ {i} : item'[j] = item[j]
        /\ ledger'[i] = ledger[i] - 1 /\ \A j \in Items \ {i} : ledger'[j] = ledger[j]
        /\ moves'[i] = moves[i] + 1 /\ \A j \in Items \ {i} : moves'[j] = moves[j]
    <3>1. item' \in [Items -> ItemRow] /\ item'[i] = row /\ \A j \in Items \ {i} : item'[j] = item[j]
      BY <2>1, <2>2 DEF StockInv, ItemTypes
    <3>2. /\ ledger' \in [Items -> Int] /\ ledger'[i] = ledger[i] - 1
          /\ \A j \in Items \ {i} : ledger'[j] = ledger[j]
      BY <1>0, <2>1 DEF StockInv, ItemTypes
    <3>3. /\ moves' \in [Items -> Int] /\ moves'[i] = moves[i] + 1
          /\ \A j \in Items \ {i} : moves'[j] = moves[j]
      BY <1>0, <2>1 DEF StockInv, ItemTypes
    <3>4. missing' \in [Items -> Int]
      BY <2>1 DEF StockInv, ItemTypes
    <3>. QED BY <2>4, <3>1, <3>2, <3>3, <3>4 DEF ItemTypes
  <2>6. Balanced(i)'
    <3>1. Balanced(i)
      BY <1>1
    <3>. QED BY <1>0, <2>1, <2>2, <2>4, <2>5, <3>1 DEF Balanced
  <2>7. \A j \in Items \ {i} : Balanced(j)'
    BY <1>1, <2>1, <2>4, <2>5 DEF Balanced
  <2>8. \A j \in Items : moves[j] <= moves'[j] /\ item'[j].row = item[j].row
    BY <1>1, <2>2, <2>5
  <2>9. \A j \in Items : moves'[j] = moves[j] => item'[j].stock = item[j].stock
    BY <1>0, <2>5
  <2>. QED BY <2>1, <2>5, <2>6, <2>7, <2>8, <2>9, StockItems
<1>8. CASE Stock!Spoil(i)
  <2>1. /\ shelf' = [shelf EXCEPT ![i] = @ - 1] /\ missing' = [missing EXCEPT ![i] = @ + 1]
        /\ UNCHANGED <<item, ledger, moves>> /\ shelf[i] > 0
        /\ UNCHANGED <<stocktake, receipt, reviewed, supplier, cameBack>>
    BY <1>8 DEF Stock!Spoil, Stock!documents
  <2>2. /\ ItemTypes' /\ shelf'[i] = shelf[i] - 1 /\ missing'[i] = missing[i] + 1
        /\ \A j \in Items \ {i} : shelf'[j] = shelf[j] /\ missing'[j] = missing[j]
    BY <1>0, <2>1 DEF StockInv, ItemTypes
  <2>3. Balanced(i)'
    <3>1. Balanced(i)
      BY <1>1
    <3>. QED BY <1>0, <2>1, <2>2, <3>1 DEF Balanced
  <2>4. \A j \in Items \ {i} : Balanced(j)'
    BY <1>1, <2>1, <2>2 DEF Balanced
  <2>. QED BY <1>1, <2>1, <2>2, <2>3, <2>4, StockItems
<1>. QED BY <1>2, <1>3, <1>5, <1>6, <1>7, <1>8

\* A count is posted: the stock becomes what was counted.
LEMMA StockPost ==
  ASSUME StockInv, NEW k \in Stocktakes, Stock!PostStocktake(k) PROVE StockInv'
<1> DEFINE doc == stocktake[k]
           difference == [i \in Stock!LinesOf(doc) |-> doc.lines[i] - doc.expected[i]]
           D == Stock!LinesOf(doc)
           row == [status |-> "POSTED"]
<1>1. /\ Stock!Draft(doc) /\ Stock!Postable(k)
      /\ item' = [i \in Items |->
           IF i \in D THEN [item[i] EXCEPT !.stock = doc.lines[i]] ELSE item[i]]
      /\ ledger' = [i \in Items |-> IF i \in D THEN ledger[i] + difference[i] ELSE ledger[i]]
      /\ moves' = [i \in Items |->
           IF i \in D /\ difference[i] # 0 THEN moves[i] + 1 ELSE moves[i]]
      /\ missing' = [i \in Items |-> IF i \in D THEN missing[i] - doc.found[i] ELSE missing[i]]
      /\ cameBack' = cameBack \cup {i \in D : doc.since[i] # moves[i]}
      /\ stocktake' = [stocktake EXCEPT ![k] = row]
      /\ UNCHANGED <<shelf, receipt, reviewed, supplier>>
  BY DEF Stock!PostStocktake
<1>2. PICK S \in SUBSET Items : doc \in Counting(S)
  BY <1>1 DEF StockInv, DocumentTypes, TakeRow, Stock!Draft
<1>3. D = S
  BY <1>2 DEF Counting, Stock!LinesOf
<1>4. ASSUME NEW i \in Items
      PROVE  /\ item[i] \in ItemRow /\ item[i].stock \in Int /\ item[i].reserved \in Int
             /\ ledger[i] \in Int /\ moves[i] \in Int /\ shelf[i] \in Int /\ missing[i] \in Int
             /\ Balanced(i)
  BY DEF StockInv, ItemTypes, ItemRow, ItemsBalanced
<1>5. ASSUME NEW i \in Items, i \in D
      PROVE  /\ doc.lines[i] \in Int /\ doc.expected[i] \in Int /\ doc.since[i] \in Int
             /\ doc.found[i] \in Int /\ difference[i] = doc.lines[i] - item[i].stock
             /\ item[i].stock = doc.expected[i] /\ item[i].row = "ACTIVE"
             /\ doc.lines[i] >= item[i].reserved
             /\ doc.since[i] = moves[i] /\ i \notin cameBack =>
                  doc.lines[i] + doc.found[i] = item[i].stock
  <2>1. /\ doc.lines[i] # Stock!NotCounted /\ item[i].row = "ACTIVE"
        /\ item[i].stock = doc.expected[i] /\ doc.lines[i] >= item[i].reserved
    BY <1>1, <1>5 DEF Stock!Postable, Stock!Active
  <2>2. CountTrue(k, i)
    BY <1>1, <1>5 DEF StockInv, CountsTrue
  <2>3. /\ doc.lines[i] \in Int /\ doc.expected[i] \in Int /\ doc.since[i] \in Int
        /\ doc.found[i] \in Int
    BY <1>2, <1>3, <1>5 DEF Counting
  <2>4. difference[i] = doc.lines[i] - doc.expected[i]
    BY <1>5
  <2>. QED BY <2>1, <2>2, <2>3, <2>4 DEF CountTrue
<1> HIDE DEF doc, difference, D, row
<1>6. ASSUME NEW i \in Items, i \in D
      PROVE  /\ item'[i] \in ItemRow /\ item'[i].stock = doc.lines[i]
             /\ item'[i].reserved = item[i].reserved /\ item'[i].row = item[i].row
             /\ ledger'[i] = ledger[i] + difference[i]
             /\ missing'[i] = missing[i] - doc.found[i]
             /\ moves'[i] = IF difference[i] = 0 THEN moves[i] ELSE moves[i] + 1
  <2>1. item'[i] = [item[i] EXCEPT !.stock = doc.lines[i]]
    BY <1>1, <1>6
  <2>2. /\ ledger'[i] = ledger[i] + difference[i]
        /\ missing'[i] = missing[i] - doc.found[i]
        /\ moves'[i] = IF difference[i] = 0 THEN moves[i] ELSE moves[i] + 1
    BY <1>1, <1>6
  <2>. QED BY <1>4, <1>5, <1>6, <2>1, <2>2 DEF ItemRow
<1>7. ASSUME NEW i \in Items, i \notin D
      PROVE  item'[i] = item[i] /\ ledger'[i] = ledger[i] /\ missing'[i] = missing[i]
               /\ moves'[i] = moves[i]
  BY <1>1, <1>7
<1>8. ItemTypes'
  <2>1. ASSUME NEW i \in Items
        PROVE  item'[i] \in ItemRow /\ ledger'[i] \in Int /\ missing'[i] \in Int /\ moves'[i] \in Int
    BY <1>4, <1>5, <1>6, <1>7
  <2>2. shelf' \in [Items -> Int]
    BY <1>1 DEF StockInv, ItemTypes
  <2>. QED BY <1>1, <2>1, <2>2 DEF ItemTypes
<1>9. ASSUME NEW i \in Items, i \in D
      PROVE  Balanced(i)'
  <2>1. i \notin cameBack' => i \notin cameBack /\ doc.since[i] = moves[i]
    BY <1>1, <1>9
  <2>. QED BY <1>1, <1>4, <1>5, <1>6, <1>9, <2>1 DEF Balanced
<1>10. ASSUME NEW i \in Items, i \notin D
       PROVE  Balanced(i)'
  <2>1. i \in cameBack => i \in cameBack'
    BY <1>1
  <2>. QED BY <1>1, <1>4, <1>7, <1>10, <2>1 DEF Balanced
<1>11. ASSUME NEW i \in Items
       PROVE  /\ moves[i] <= moves'[i]
              /\ moves'[i] = moves[i] => item'[i].stock = item[i].stock
              /\ item'[i].row = item[i].row
              /\ i \in cameBack => i \in cameBack'
  <2>1. i \in cameBack => i \in cameBack'
    BY <1>1
  <2>2. CASE i \in D
    <3>1. /\ difference[i] = doc.lines[i] - item[i].stock /\ item[i].stock \in Int
          /\ doc.lines[i] \in Int /\ moves[i] \in Int
      BY <1>4, <1>5, <2>2
    <3>2. /\ item'[i].stock = doc.lines[i] /\ item'[i].row = item[i].row
          /\ moves'[i] = IF difference[i] = 0 THEN moves[i] ELSE moves[i] + 1
      BY <1>6, <2>2
    <3>. QED BY <2>1, <3>1, <3>2
  <2>3. CASE i \notin D
    BY <1>4, <1>7, <2>1, <2>3
  <2>. QED BY <2>2, <2>3
<1>12. /\ stocktake' \in [Stocktakes -> TakeRow] /\ stocktake'[k] = row /\ row.status = "POSTED"
       /\ \A j \in Stocktakes \ {k} : stocktake'[j] = stocktake[j]
  BY <1>1 DEF StockInv, DocumentTypes, TakeRow, row
<1>13. DocumentTypes' /\ ReceiptsReviewed' /\ ItemsBalanced'
  BY <1>1, <1>9, <1>10, <1>12 DEF StockInv, DocumentTypes, ReceiptsReviewed, ItemsBalanced
<1>14. DraftsLive'
  BY <1>1, <1>11, <1>12 DEF StockInv, DraftsLive, Stock!DraftLines, Stock!Draft
<1>15. CountsTrue'
  <2> SUFFICES ASSUME NEW j \in Stocktakes, Stock!Draft(stocktake[j])',
                      NEW i \in Stock!LinesOf(stocktake[j])'
               PROVE  CountTrue(j, i)'
    BY DEF CountsTrue
  <2>1. j # k /\ stocktake'[j] = stocktake[j] /\ Stock!Draft(stocktake[j])
        /\ i \in Stock!LinesOf(stocktake[j])
    BY <1>12 DEF Stock!Draft
  <2>2. PICK T \in SUBSET Items : stocktake[j] \in Counting(T)
    BY <2>1 DEF StockInv, DocumentTypes, TakeRow, Stock!Draft
  <2>3. i \in Items /\ stocktake[j].since[i] \in Int
    BY <2>1, <2>2 DEF Counting, Stock!LinesOf
  <2>4. CountTrue(j, i)
    BY <2>1 DEF StockInv, CountsTrue
  <2>5. moves[i] \in Int /\ moves'[i] \in Int
    BY <1>4, <1>8, <2>3 DEF ItemTypes
  <2>. QED BY <1>11, <2>1, <2>3, <2>4, <2>5 DEF CountTrue
<1>. QED BY <1>8, <1>13, <1>14, <1>15 DEF StockInv

\* The goods of a receipt are what its poster reviewed.
LEMMA StockPostReceipt ==
  ASSUME StockInv, NEW d \in Receipts, Stock!PostReceipt(d) PROVE StockInv'
<1> DEFINE goods == receipt[d].lines
           row == [status |-> "POSTED", lines |-> goods]
           D == DOMAIN goods
<1>1. /\ reviewed[d] # Stock!Unread /\ Stock!AsReviewed(d)
      /\ \A i \in D : item[i].row = "ACTIVE"
      /\ Stock!Move(goods) /\ Stock!Put(goods)
      /\ receipt' = [receipt EXCEPT ![d] = row]
      /\ UNCHANGED missing /\ UNCHANGED cameBack /\ UNCHANGED <<stocktake, reviewed, supplier>>
  BY DEF Stock!PostReceipt, Stock!LinesOf, Stock!Active
<1>2. receipt[d].status = "DRAFT" /\ goods \in Stock!ReceiptLines
  BY <1>1 DEF Stock!AsReviewed, Stock!Draft, StockInv, DocumentTypes, ReceiptRow
<1>3. PICK S \in SUBSET Items : goods \in [S -> Quantities]
  BY <1>2 DEF Stock!ReceiptLines
<1>4. D \in SUBSET Items /\ goods \in [D -> Int] /\ \A i \in D : goods[i] \in Nat
  <2>1. D = S
    BY <1>3
  <2>2. \A i \in S : goods[i] \in Nat
    BY <1>3, ServicesConstants
  <2>3. goods \in [S -> Int]
    BY <1>3, <2>2
  <2>. QED BY <2>1, <2>2, <2>3
<1>5. row \in ReceiptRow /\ row.status = "POSTED" /\ row.lines = goods
  BY <1>2 DEF ReceiptRow
<1>6. goods = reviewed[d].lines
  BY <1>1, <1>2 DEF Stock!AsReviewed, StockInv, ReceiptsReviewed
<1> HIDE DEF goods, row, D
<1>7. \A i \in D : item[i].row = "ACTIVE" /\ item[i].stock + goods[i] >= item[i].reserved
  <2> SUFFICES ASSUME NEW i \in D PROVE item[i].stock + goods[i] >= item[i].reserved
    BY <1>1
  <2>1. i \in Items /\ goods[i] \in Nat
    BY <1>4
  <2>2. item[i].stock \in Int /\ item[i].reserved \in 0..item[i].stock
    BY <2>1 DEF StockInv, ItemTypes, ItemRow, ItemsBalanced, Balanced
  <2>. QED BY <2>1, <2>2
<1>8. /\ ItemTypes'
      /\ \A i \in Items :
           /\ Balanced(i)'
           /\ moves[i] <= moves'[i]
           /\ moves'[i] = moves[i] => item'[i].stock = item[i].stock
           /\ item'[i].row = item[i].row
  BY <1>1, <1>4, <1>7, StockMove
<1>9. /\ receipt' \in [Receipts -> ReceiptRow] /\ receipt'[d] = row
      /\ \A e \in Receipts \ {d} : receipt'[e] = receipt[e]
  BY <1>1, <1>5 DEF StockInv, DocumentTypes
<1>10. DocumentTypes' /\ ReceiptsReviewed' /\ ItemsBalanced'
  BY <1>1, <1>5, <1>6, <1>8, <1>9
  DEF StockInv, DocumentTypes, ReceiptsReviewed, ItemsBalanced, Stock!Draft
<1>11. DraftsLive'
  BY <1>1, <1>5, <1>8, <1>9 DEF StockInv, DraftsLive, Stock!DraftLines, Stock!Draft
<1>12. CountsTrue'
  <2> SUFFICES ASSUME NEW k \in Stocktakes, Stock!Draft(stocktake[k]),
                      NEW i \in Stock!LinesOf(stocktake[k])
               PROVE  CountTrue(k, i)'
    BY <1>1 DEF CountsTrue
  <2>1. PICK T \in SUBSET Items : stocktake[k] \in Counting(T)
    BY DEF StockInv, DocumentTypes, TakeRow, Stock!Draft
  <2>2. i \in Items /\ stocktake[k].since[i] \in Int
    BY <2>1 DEF Counting, Stock!LinesOf
  <2>3. CountTrue(k, i)
    BY DEF StockInv, CountsTrue
  <2>4. moves[i] \in Int /\ moves'[i] \in Int
    BY <1>8, <2>2 DEF StockInv, ItemTypes
  <2>. QED BY <1>1, <1>8, <2>2, <2>3, <2>4 DEF CountTrue
<1>. QED BY <1>8, <1>10, <1>11, <1>12 DEF StockInv

\* Every movement and every document.
LEMMA StockNext ==
  ASSUME StockInv, Stock!Next PROVE StockInv'
<1>1. ASSUME NEW k \in Stocktakes, NEW i \in Items, Stock!UpdateCount(k, i) PROVE StockInv'
  <2> DEFINE doc == stocktake[k]
             row == [doc EXCEPT !.lines[i] = shelf[i], !.found[i] = missing[i]]
  <2>1. /\ Stock!Draft(doc) /\ i \in Stock!LinesOf(doc)
        /\ stocktake' = [stocktake EXCEPT ![k] = row]
        /\ UNCHANGED <<item, ledger, shelf, missing, moves, cameBack, receipt, reviewed, supplier>>
    BY <1>1 DEF Stock!UpdateCount
  <2>2. PICK S \in SUBSET Items : doc \in Counting(S)
    BY <2>1 DEF StockInv, DocumentTypes, TakeRow, Stock!Draft
  <2>3. shelf[i] \in Int /\ missing[i] \in Int /\ item[i].stock \in Int
    BY DEF StockInv, ItemTypes, ItemRow
  <2>4. /\ row \in Counting(S) /\ DOMAIN doc.lines = S /\ DOMAIN row.lines = S
        /\ row.lines[i] = shelf[i] /\ row.found[i] = missing[i] /\ row.since = doc.since
        /\ \A j \in S \ {i} : row.lines[j] = doc.lines[j] /\ row.found[j] = doc.found[j]
    BY <2>1, <2>2, <2>3 DEF Counting, Stock!LinesOf
  <2>5. row \in TakeRow
    BY <2>4 DEF TakeRow
  <2>6. \A j \in S : item[j].row = "ACTIVE" /\ CountTrue(k, j)
    BY <2>1, <2>4 DEF StockInv, DraftsLive, Stock!DraftLines, CountsTrue, Stock!LinesOf
  <2> HIDE DEF doc, row
  <2>7. stocktake'[k] = row
    BY <2>1 DEF StockInv, DocumentTypes
  <2>8. ASSUME NEW j \in S PROVE CountTrue(k, j)'
    <3>1. CASE j = i
      <4>1. Balanced(i) /\ CountTrue(k, i)
        BY <2>6, <3>1 DEF StockInv, ItemsBalanced
      <4>2. i \notin cameBack => shelf[i] + missing[i] = item[i].stock
        BY <2>3, <4>1 DEF Balanced
      <4>. QED BY <2>1, <2>4, <2>7, <3>1, <4>1, <4>2 DEF CountTrue, doc
    <3>2. CASE j # i
      <4>1. CountTrue(k, j)
        BY <2>6
      <4>. QED BY <2>1, <2>4, <2>7, <3>2, <4>1 DEF CountTrue, doc
    <3>. QED BY <3>1, <3>2
  <2>9. \A j \in Stock!LinesOf(row) : item[j].row = "ACTIVE" /\ CountTrue(k, j)'
    BY <2>4, <2>6, <2>8 DEF Stock!LinesOf
  <2>. QED BY <2>1, <2>5, <2>9, StockTake
<1>2. ASSUME NEW k \in Stocktakes, NEW S \in SUBSET Items, Stock!CreateStocktake(k, S)
      PROVE  StockInv'
  <2> DEFINE row == [status |-> "DRAFT", expected |-> [i \in S |-> item[i].stock],
                     lines |-> [i \in S |-> Stock!NotCounted],
                     since |-> [i \in S |-> moves[i]], found |-> [i \in S |-> 0]]
  <2>1. /\ stocktake' = [stocktake EXCEPT ![k] = row]
        /\ \A i \in S : item[i].row = "ACTIVE"
        /\ UNCHANGED <<item, ledger, shelf, missing, moves, cameBack, receipt, reviewed, supplier>>
    BY <1>2 DEF Stock!CreateStocktake, Stock!Active
  <2>2. \A i \in S : item[i].stock \in Int /\ moves[i] \in Int
    BY DEF StockInv, ItemTypes, ItemRow
  <2>3. row \in Counting(S)
    BY <2>2 DEF Counting, Stock!NotCounted
  <2>4. row \in TakeRow /\ Stock!LinesOf(row) = S
    BY <2>3 DEF TakeRow, Stock!LinesOf
  <2>5. \A i \in S : row.since[i] = moves[i] /\ row.lines[i] = Stock!NotCounted
    OBVIOUS
  <2> HIDE DEF row
  <2>6. stocktake'[k] = row
    BY <2>1, <2>4 DEF StockInv, DocumentTypes
  <2>7. \A i \in S : CountTrue(k, i)'
    BY <2>1, <2>2, <2>5, <2>6 DEF CountTrue
  <2>. QED BY <2>1, <2>4, <2>7, StockTake
<1>3. ASSUME NEW k \in Stocktakes, Stock!CancelStocktake(k) PROVE StockInv'
  <2> DEFINE row == [status |-> "CANCELLED"]
  <2>1. /\ stocktake' = [stocktake EXCEPT ![k] = row] /\ row \in TakeRow /\ row.status # "DRAFT"
        /\ UNCHANGED <<item, ledger, shelf, missing, moves, cameBack, receipt, reviewed, supplier>>
    BY <1>3 DEF Stock!CancelStocktake, TakeRow
  <2>. QED BY <2>1, StockTake
<1>4. ASSUME NEW d \in Receipts, NEW goods \in Stock!ReceiptLines, Stock!CreateReceipt(d, goods)
      PROVE  StockInv'
  <2> DEFINE row == [status |-> "DRAFT", lines |-> goods, updatedAt |-> 0]
  <2>1. /\ receipt[d].status = "NONE" /\ supplier
        /\ \A i \in Stock!LinesOf(row) : item[i].row = "ACTIVE"
        /\ receipt' = [receipt EXCEPT ![d] = row]
        /\ UNCHANGED <<item, ledger, shelf, missing, moves, cameBack, stocktake, reviewed, supplier>>
    BY <1>4 DEF Stock!CreateReceipt, Stock!Active, Stock!LinesOf
  <2>2. row \in ReceiptRow /\ row.status = "DRAFT"
    BY DEF ReceiptRow
  <2>. QED BY <2>1, <2>2, StockReceipt
<1>5. ASSUME NEW d \in Receipts, NEW goods \in Stock!ReceiptLines, Stock!UpdateReceipt(d, goods)
      PROVE  StockInv'
  <2> DEFINE n == receipt[d].updatedAt + 1
             row == [receipt[d] EXCEPT !.lines = goods, !.updatedAt = n]
  <2>1. /\ receipt[d].status = "DRAFT"
        /\ \A i \in DOMAIN goods : item[i].row = "ACTIVE"
        /\ receipt' = [receipt EXCEPT ![d] = row]
        /\ UNCHANGED <<item, ledger, shelf, missing, moves, cameBack, stocktake, reviewed, supplier>>
    BY <1>5 DEF Stock!UpdateReceipt, Stock!Active, Stock!Draft
  <2>2. receipt[d] \in [status : {"DRAFT"}, lines : Stock!ReceiptLines, updatedAt : Nat]
    BY <2>1 DEF StockInv, DocumentTypes, ReceiptRow
  <2>3. n \in Nat /\ receipt[d].updatedAt < n
    BY <2>2
  <2> HIDE DEF n
  <2>4. /\ row \in ReceiptRow /\ row.status = "DRAFT" /\ row.updatedAt = n /\ row.lines = goods
    BY <2>2, <2>3 DEF ReceiptRow
  <2> HIDE DEF row
  <2>5. \A i \in Stock!LinesOf(row) : item[i].row = "ACTIVE"
    BY <2>1, <2>4 DEF Stock!LinesOf
  <2>6. supplier
    BY <2>1 DEF StockInv, ReceiptsReviewed, Stock!Draft
  <2>. QED BY <2>1, <2>3, <2>4, <2>5, <2>6, StockReceipt
<1>6. ASSUME NEW d \in Receipts, Stock!CancelReceipt(d) PROVE StockInv'
  <2> DEFINE row == [status |-> "CANCELLED"]
  <2>1. /\ receipt' = [receipt EXCEPT ![d] = row] /\ row \in ReceiptRow
        /\ row.status = "CANCELLED"
        /\ UNCHANGED <<item, ledger, shelf, missing, moves, cameBack, stocktake, reviewed, supplier>>
    BY <1>6 DEF Stock!CancelReceipt, ReceiptRow
  <2>. QED BY <2>1, StockReceipt
<1>7. ASSUME NEW d \in Receipts, Stock!Review(d) PROVE StockInv'
  <2> DEFINE row == [updatedAt |-> receipt[d].updatedAt, lines |-> receipt[d].lines]
  <2>1. /\ receipt[d].status = "DRAFT" /\ reviewed' = [reviewed EXCEPT ![d] = row]
        /\ UNCHANGED <<item, ledger, shelf, missing, moves, cameBack>>
        /\ UNCHANGED <<stocktake, receipt, supplier>>
    BY <1>7 DEF Stock!Review, Stock!Draft
  <2>2. receipt[d].updatedAt \in Nat /\ receipt[d].lines \in Stock!ReceiptLines
    BY <2>1 DEF StockInv, DocumentTypes, ReceiptRow
  <2>3. /\ reviewed' \in [Receipts ->
              {Stock!Unread} \cup [updatedAt : Nat, lines : Stock!ReceiptLines]]
        /\ reviewed'[d] = row /\ \A e \in Receipts \ {d} : reviewed'[e] = reviewed[e]
    BY <2>1, <2>2 DEF StockInv, DocumentTypes
  <2>4. ReceiptsReviewed'
    BY <2>1, <2>2, <2>3 DEF StockInv, ReceiptsReviewed, Stock!Draft
  <2>5. DocumentTypes' /\ DraftsLive' /\ CountsTrue'
    BY <2>1, <2>3
    DEF StockInv, DocumentTypes, DraftsLive, Stock!DraftLines, CountsTrue, CountTrue
  <2>. QED BY <2>1, <2>4, <2>5, StockSame DEF StockInv
<1>8. CASE Stock!RemoveSupplier
  <2>1. /\ UNCHANGED <<item, ledger, shelf, missing, moves, cameBack>>
        /\ UNCHANGED <<stocktake, receipt, reviewed>>
        /\ \A d \in Receipts : ~Stock!Draft(receipt[d])
    BY <1>8 DEF Stock!RemoveSupplier
  <2>2. DocumentTypes' /\ DraftsLive' /\ CountsTrue' /\ ReceiptsReviewed'
    BY <2>1
    DEF StockInv, DocumentTypes, DraftsLive, Stock!DraftLines, CountsTrue, CountTrue,
        ReceiptsReviewed
  <2>. QED BY <2>1, <2>2, StockSame DEF StockInv
<1>. QED
  BY <1>1, <1>2, <1>3, <1>4, <1>5, <1>6, <1>7, <1>8, StockItem, StockPost, StockPostReceipt,
     Zenon
  DEF Stock!Next

\* The invariant holds in every behaviour of the service.
LEMMA StockAlways == Spec => [](on = "stock" => StockInv)
<1> DEFINE I == on = "stock" => StockInv
<1>1. Init => I
  BY StockStart DEF Init
<1>2. I /\ [Next]_vars => I'
  <2> SUFFICES ASSUME I, [Next]_vars, on' = "stock" PROVE StockInv'
    OBVIOUS
  <2>1. StockInv /\ (Stock!Next \/ UNCHANGED stockVars)
    BY Turn
  <2>2. ASSUME UNCHANGED stockVars PROVE StockInv'
    <3>1. /\ UNCHANGED <<item, ledger, shelf, missing, moves, cameBack>>
          /\ UNCHANGED <<stocktake, receipt, reviewed, supplier>>
      BY <2>2 DEF stockVars
    <3>2. DocumentTypes' /\ DraftsLive' /\ CountsTrue' /\ ReceiptsReviewed'
      BY <2>1, <3>1
      DEF StockInv, DocumentTypes, DraftsLive, Stock!DraftLines, CountsTrue, CountTrue,
          ReceiptsReviewed
    <3>. QED BY <2>1, <3>1, <3>2, StockSame DEF StockInv
  <2>. QED BY <2>1, <2>2, StockNext
<1>. QED BY <1>1, <1>2, PTL DEF Spec

\* Stock, ledger and shelf agree whatever is counted, received, moved and
\* posted, for any number of items, documents and movements.
\* (StocktakeService.post, PurchaseReceiptService.post and the movements.)
THEOREM StockAgrees == Spec => []StockAccounted
<1>1. (on = "stock" => StockInv) => StockAccounted
  BY StockIsAccounted DEF StockAccounted
<1>. QED BY <1>1, StockAlways, PTL

-----------------------------------------------------------------------------
(* Sign-in and sessions.  What lets a session live is that whoever changes *)
(* a credential ends every family it can see, and what it cannot see is    *)
(* either not opened or rotating; a rotating family has no other session.  *)

LinkStates == {"NONE", "ASKED", "USABLE", "EXPIRED", "USED"}
LoginTypes ==
  /\ employee \in Login!Employee
  /\ family \in [Families -> [via : Login!Via \cup {"none"}, proof : Nat]]
  /\ live \in [Families -> SUBSET Nat]
  /\ issued \in [Families -> Nat] /\ rotating \in [Families -> Nat]
  /\ ended \subseteq Families /\ overlapped \subseteq Families /\ reused \subseteq Families
  /\ signingIn \subseteq [via : Login!Via, proof : Nat]
  /\ admin \in {Login!NoChange}
                 \cup [kind : {"password", "INACTIVE", "ACTIVE", "DELETED"},
                       seen : SUBSET Families, links : SUBSET (1..MaxTokens)]
  /\ resetToken \in [1..MaxTokens -> LinkStates] /\ missed \subseteq 1..MaxTokens

FamilyFair(f) ==
  /\ \A g, h \in live[f] : g = h
  /\ rotating[f] # 0 => live[f] = {rotating[f]}
  /\ f \in ended /\ f \notin overlapped => live[f] = {}
  /\ live[f] # {} /\ f \notin overlapped => Login!Active /\ Login!Proven(f)
  /\ family[f].via = "google" => family[f].proof % 2 = 1
  /\ Login!Fresh(f) => /\ live[f] = {} /\ issued[f] = 0
                       /\ f \notin ended /\ f \notin reused
FamiliesFair == \A f \in Families : FamilyFair(f)
SignInsFair == \A s \in signingIn : s.via = "google" => s.proof % 2 = 1
ChangeFair ==
  admin # Login!NoChange =>
    /\ employee.row \in {"ACTIVE", "INACTIVE"}
    /\ admin.seen \subseteq Login!Opened
    /\ admin.kind = "password" => employee.password < MaxCredentials
    /\ \A t \in admin.links : resetToken[t] \notin {"NONE", "ASKED"}
TokensFair ==
  /\ \A t, u \in 1..MaxTokens : Login!Usable(t) /\ Login!Usable(u) => t = u
  /\ \A t \in 1..MaxTokens :
       resetToken[t] \in {"ASKED", "USABLE"} /\ t \notin missed => Login!Active
LoginInv == LoginTypes /\ FamiliesFair /\ SignInsFair /\ ChangeFair /\ TokensFair

\* Nobody has signed up.
LEMMA LoginStart == Login!Init => LoginInv
<1> SUFFICES ASSUME Login!Init PROVE LoginInv
  OBVIOUS
<1> USE DEF Login!Init, Login!NotOpened, Login!NoChange
<1>1. LoginTypes
  BY ServicesConstants DEF LoginTypes, Login!Employee, LinkStates
<1>2. FamiliesFair /\ SignInsFair /\ ChangeFair /\ TokensFair
  BY DEF FamiliesFair, FamilyFair, SignInsFair, ChangeFair, TokensFair, Login!Usable, Login!Fresh
<1>. QED BY <1>1, <1>2 DEF LoginInv

\* What the run checks is what the invariant says.
LEMMA LoginEntitled == LoginInv => Login!SessionsEntitled
<1> SUFFICES ASSUME LoginInv PROVE Login!SessionsEntitled
  OBVIOUS
<1>1. employee \in Login!Employee /\ DOMAIN resetToken = 1..MaxTokens
  BY DEF LoginInv, LoginTypes
<1>. QED
  BY <1>1 DEF LoginInv, FamiliesFair, FamilyFair, TokensFair, Login!SessionsEntitled, Login!Usable

\* A step that leaves the credentials and the open families: one family at
\* most changes, and stays fair.
LEMMA LoginFamily ==
  ASSUME LoginInv, NEW f \in Families, LoginTypes', FamilyFair(f)',
         UNCHANGED <<employee, resetToken, missed, admin>>,
         \A h \in Families \ {f} :
           /\ live'[h] = live[h] /\ rotating'[h] = rotating[h] /\ issued'[h] = issued[h]
           /\ family'[h] = family[h]
           /\ h \in ended' <=> h \in ended
           /\ h \in overlapped' <=> h \in overlapped
           /\ h \in reused' <=> h \in reused,
         ~Login!Fresh(f) => ~Login!Fresh(f)',
         signingIn' \subseteq signingIn
  PROVE  LoginInv'
<1>1. \A h \in Families \ {f} : FamilyFair(h)'
  BY DEF LoginInv, FamiliesFair, FamilyFair, Login!Active, Login!Proven, Login!Fresh
<1>2. FamiliesFair'
  BY <1>1 DEF FamiliesFair
<1>3. SignInsFair'
  BY DEF LoginInv, SignInsFair
<1>4. Login!Opened \subseteq Login!Opened'
  BY DEF Login!Opened, Login!Fresh
<1>5. ChangeFair'
  BY <1>4 DEF LoginInv, ChangeFair
<1>6. TokensFair'
  BY DEF LoginInv, TokensFair, Login!Usable, Login!Active
<1>. QED BY <1>2, <1>3, <1>5, <1>6 DEF LoginInv

\* A step that leaves the families.
LEMMA LoginAround ==
  ASSUME LoginInv, UNCHANGED <<family, live, issued, ended, overlapped, rotating, reused>>,
         LoginTypes',
         Login!Active => Login!Active',
         employee'.password = employee.password \/ ~Login!Active,
         employee'.google = employee.google \/ ~Login!Linked \/ ~Login!Active,
         SignInsFair', ChangeFair', TokensFair'
  PROVE  LoginInv'
<1>1. ASSUME NEW f \in Families PROVE FamilyFair(f)'
  <2>1. FamilyFair(f)
    BY DEF LoginInv, FamiliesFair
  <2>2. Login!Fresh(f)' = Login!Fresh(f)
    BY DEF Login!Fresh
  <2>3. ASSUME live[f] # {}, f \notin overlapped PROVE Login!Active' /\ Login!Proven(f)'
    <3>1. Login!Active /\ Login!Proven(f)
      BY <2>1, <2>3 DEF FamilyFair
    <3>2. family[f].via = "google" => Login!Linked
      BY <2>1, <3>1 DEF FamilyFair, Login!Proven, Login!Linked
    <3>. QED BY <3>1, <3>2 DEF Login!Proven
  <2>. QED BY <2>1, <2>2, <2>3 DEF FamilyFair
<1>. QED BY <1>1 DEF LoginInv, FamiliesFair

\* A change of credentials: the families it ends, and those it overlaps, are
\* all that are open.
LEMMA LoginRevoked ==
  ASSUME LoginInv, NEW seen, Login!Revoke(seen), seen \subseteq Login!Opened,
         LoginTypes', UNCHANGED <<family, issued, rotating, reused, signingIn>>,
         \A f \in seen : rotating[f] = 0,
         overlapped \subseteq overlapped', Login!Opened \subseteq seen \cup overlapped',
         ChangeFair', TokensFair'
  PROVE  LoginInv'
<1>1. ASSUME NEW f \in Families PROVE FamilyFair(f)'
  <2>1. FamilyFair(f)
    BY DEF LoginInv, FamiliesFair
  <2>2. Login!Fresh(f)' = Login!Fresh(f)
    BY DEF Login!Fresh
  <2>3. live'[f] = IF f \in seen THEN {} ELSE live[f]
    BY DEF Login!Revoke
  <2>4. ended' = ended \cup seen
    BY DEF Login!Revoke
  <2>5. f \notin seen /\ f \notin overlapped' => Login!Fresh(f)
    BY DEF Login!Opened
  <2>6. Login!Fresh(f) => f \notin seen
    BY DEF Login!Opened
  <2>. QED BY <2>1, <2>2, <2>3, <2>4, <2>5, <2>6 DEF FamilyFair
<1>2. SignInsFair'
  BY DEF LoginInv, SignInsFair
<1>. QED BY <1>1, <1>2 DEF LoginInv, FamiliesFair

\* Sessions of one family: sign-in, rotation, reuse, logout.
LEMMA LoginSessions ==
  ASSUME LoginInv, NEW f \in Families,
         \/ \E s \in signingIn : Login!CreateSession(s, f)
         \/ \E g \in 1..MaxSessions : Login!ConsumeToken(f, g) \/ Login!ReuseToken(f, g)
         \/ Login!CommitRotation(f) \/ Login!AbortRotation(f)
         \/ Login!RevokeFamily(f) \/ Login!RevocationLost(f) \/ Login!Logout(f)
  PROVE  LoginInv'
<1>0. /\ LoginTypes /\ FamilyFair(f) /\ SignInsFair
      /\ live[f] \in SUBSET Nat /\ issued[f] \in Nat /\ rotating[f] \in Nat
  BY DEF LoginInv, FamiliesFair, LoginTypes
<1>1. ASSUME NEW s \in signingIn, Login!CreateSession(s, f) PROVE LoginInv'
  <2>1. /\ Login!Fresh(f) /\ Login!StillProven(s)
        /\ family' = [family EXCEPT ![f] = s]
        /\ live' = [live EXCEPT ![f] = {1}] /\ issued' = [issued EXCEPT ![f] = 1]
        /\ signingIn' = signingIn \ {s}
        /\ overlapped' = IF s.via = "signUp" /\ ~(Login!Active /\ s.proof = employee.password)
                         THEN overlapped \cup {f} ELSE overlapped
        /\ UNCHANGED <<employee, ended, rotating, reused, admin, resetToken, missed>>
    BY <1>1 DEF Login!CreateSession, Login!resets
  <2>2. s \in [via : Login!Via, proof : Nat]
    BY <1>0 DEF LoginTypes
  <2>3. /\ family' \in [Families -> [via : Login!Via \cup {"none"}, proof : Nat]]
        /\ live' \in [Families -> SUBSET Nat] /\ issued' \in [Families -> Nat]
        /\ family'[f] = s /\ live'[f] = {1} /\ issued'[f] = 1
        /\ \A h \in Families \ {f} : family'[h] = family[h] /\ live'[h] = live[h]
                                      /\ issued'[h] = issued[h]
    BY <1>0, <2>1, <2>2 DEF LoginTypes
  <2>4. LoginTypes'
    BY <1>0, <2>1, <2>3 DEF LoginTypes
  <2>5. rotating[f] = 0 /\ f \notin ended
    BY <1>0, <2>1 DEF FamilyFair
  <2>6. f \notin overlapped' => Login!Active' /\ Login!Proven(f)'
    BY <2>1, <2>2, <2>3 DEF Login!StillProven, Login!Active, Login!Proven, Login!Via
  <2>7. ~Login!Fresh(f)'
    BY <2>2, <2>3 DEF Login!Fresh, Login!NotOpened, Login!Via
  <2>8. FamilyFair(f)'
    BY <1>0, <2>1, <2>3, <2>5, <2>6, <2>7 DEF FamilyFair, SignInsFair
  <2>. QED BY <2>1, <2>3, <2>4, <2>7, <2>8, LoginFamily
<1>2. ASSUME NEW g \in 1..MaxSessions, Login!ConsumeToken(f, g) PROVE LoginInv'
  <2>1. /\ rotating[f] = 0 /\ g \in live[f]
        /\ rotating' = [rotating EXCEPT ![f] = g]
        /\ UNCHANGED <<employee, family, live, issued, ended, overlapped, reused,
                       signingIn, admin, resetToken, missed>>
    BY <1>2 DEF Login!ConsumeToken, Login!TokenValid, Login!resets
  <2>2. /\ LoginTypes' /\ rotating'[f] = g
        /\ \A h \in Families \ {f} : rotating'[h] = rotating[h]
    BY <1>0, <2>1 DEF LoginTypes
  <2>3. FamilyFair(f)'
    BY <1>0, <2>1, <2>2 DEF FamilyFair, Login!Active, Login!Proven, Login!Fresh
  <2>4. Login!Fresh(f)' = Login!Fresh(f)
    BY <2>1 DEF Login!Fresh
  <2>. QED BY <2>1, <2>2, <2>3, <2>4, LoginFamily
<1>3. ASSUME NEW g \in 1..MaxSessions, Login!ReuseToken(f, g) PROVE LoginInv'
  <2>1. /\ issued[f] # 0 /\ reused' = reused \cup {f}
        /\ UNCHANGED <<employee, family, live, issued, ended, overlapped, rotating,
                       signingIn, admin, resetToken, missed>>
    BY <1>0, <1>3 DEF Login!ReuseToken, Login!resets
  <2>2. LoginTypes'
    BY <1>0, <2>1 DEF LoginTypes
  <2>3. FamilyFair(f)'
    BY <1>0, <2>1 DEF FamilyFair, Login!Active, Login!Proven, Login!Fresh
  <2>4. Login!Fresh(f)' = Login!Fresh(f)
    BY <2>1 DEF Login!Fresh
  <2>. QED BY <2>1, <2>2, <2>3, <2>4, LoginFamily
<1>4. CASE Login!CommitRotation(f)
  <2> DEFINE next == issued[f] + 1
             S == (live[f] \ {rotating[f]}) \cup {next}
  <2>1. /\ rotating[f] # 0 /\ issued' = [issued EXCEPT ![f] = next]
        /\ live' = [live EXCEPT ![f] = S] /\ rotating' = [rotating EXCEPT ![f] = 0]
        /\ UNCHANGED <<employee, family, ended, overlapped, reused, signingIn, admin, resetToken, missed>>
    BY <1>4 DEF Login!CommitRotation, Login!resets
  <2>2. live[f] = {rotating[f]} /\ next \in Nat
    BY <1>0, <2>1 DEF FamilyFair
  <2>3. S = {next}
    BY <2>2
  <2> HIDE DEF S, next
  <2>4. /\ LoginTypes' /\ live'[f] = {next} /\ issued'[f] = next /\ rotating'[f] = 0
        /\ \A h \in Families \ {f} : live'[h] = live[h] /\ issued'[h] = issued[h]
                                      /\ rotating'[h] = rotating[h]
    <3>1. /\ live' \in [Families -> SUBSET Nat] /\ live'[f] = {next}
          /\ \A h \in Families \ {f} : live'[h] = live[h]
      BY <1>0, <2>1, <2>2, <2>3 DEF LoginTypes
    <3>2. /\ issued' \in [Families -> Nat] /\ issued'[f] = next
          /\ \A h \in Families \ {f} : issued'[h] = issued[h]
      BY <1>0, <2>1, <2>2 DEF LoginTypes
    <3>3. /\ rotating' \in [Families -> Nat] /\ rotating'[f] = 0
          /\ \A h \in Families \ {f} : rotating'[h] = rotating[h]
      BY <1>0, <2>1 DEF LoginTypes
    <3>. QED BY <1>0, <2>1, <3>1, <3>2, <3>3 DEF LoginTypes
  <2>5. Login!Fresh(f)' = Login!Fresh(f) /\ ~Login!Fresh(f)
    BY <1>0, <2>1, <2>2 DEF FamilyFair, Login!Fresh
  <2>6. FamilyFair(f)'
    BY <1>0, <2>1, <2>2, <2>4, <2>5 DEF FamilyFair, Login!Active, Login!Proven
  <2>. QED BY <2>1, <2>4, <2>5, <2>6, LoginFamily
<1>5. CASE Login!AbortRotation(f)
  <2>1. /\ rotating' = [rotating EXCEPT ![f] = 0]
        /\ live' = [live EXCEPT ![f] = IF f \in overlapped THEN {} ELSE @]
        /\ UNCHANGED <<employee, family, issued, ended, overlapped, reused, signingIn,
                       admin, resetToken, missed>>
    BY <1>5 DEF Login!AbortRotation, Login!resets
  <2>2. /\ LoginTypes' /\ rotating'[f] = 0 /\ live'[f] \subseteq live[f]
        /\ \A h \in Families \ {f} : live'[h] = live[h] /\ rotating'[h] = rotating[h]
    BY <1>0, <2>1 DEF LoginTypes
  <2>3. Login!Fresh(f)' = Login!Fresh(f)
    BY <2>1 DEF Login!Fresh
  <2>4. FamilyFair(f)'
    BY <1>0, <2>1, <2>2, <2>3 DEF FamilyFair, Login!Active, Login!Proven
  <2>. QED BY <2>1, <2>2, <2>3, <2>4, LoginFamily
<1>6. CASE Login!RevokeFamily(f) \/ Login!Logout(f)
  <2>1. /\ ~Login!Fresh(f) /\ rotating[f] = 0
        /\ live' = [live EXCEPT ![f] = {}] /\ ended' = ended \cup {f}
        /\ reused' \in {reused, reused \ {f}}
        /\ UNCHANGED <<employee, family, issued, overlapped, rotating, signingIn, admin, resetToken, missed>>
    BY <1>0, <1>6 DEF Login!RevokeFamily, Login!Logout, Login!resets, FamilyFair
  <2>2. /\ LoginTypes' /\ live'[f] = {}
        /\ \A h \in Families \ {f} : live'[h] = live[h]
    BY <1>0, <2>1 DEF LoginTypes
  <2>3. Login!Fresh(f)' = Login!Fresh(f)
    BY <2>1 DEF Login!Fresh
  <2>4. FamilyFair(f)'
    BY <1>0, <2>1, <2>2, <2>3 DEF FamilyFair
  <2>. QED BY <2>1, <2>2, <2>3, <2>4, LoginFamily
<1>7. CASE Login!RevocationLost(f)
  <2>1. /\ reused' = reused \ {f}
        /\ UNCHANGED <<employee, family, live, issued, ended, overlapped, rotating,
                       signingIn, admin, resetToken, missed>>
    BY <1>7 DEF Login!RevocationLost, Login!resets
  <2>2. LoginTypes'
    BY <1>0, <2>1 DEF LoginTypes
  <2>3. Login!Fresh(f)' = Login!Fresh(f)
    BY <2>1 DEF Login!Fresh
  <2>4. FamilyFair(f)'
    BY <1>0, <2>1, <2>3 DEF FamilyFair, Login!Active, Login!Proven
  <2>. QED BY <2>1, <2>2, <2>3, <2>4, LoginFamily
<1>. QED BY <1>1, <1>2, <1>3, <1>4, <1>5, <1>6, <1>7

\* Links that are marked: what was not is as it was.
LEMMA LoginMarked ==
  ASSUME LoginInv, NEW S
  PROVE  /\ Login!UsedUp(S) \in [1..MaxTokens -> LinkStates]
         /\ \A u \in 1..MaxTokens :
              /\ Login!UsedUp(S)[u] \in {resetToken[u], "USED"}
              /\ u \in S /\ Login!Unused(u) => Login!UsedUp(S)[u] = "USED"
              /\ resetToken[u] \in {"NONE", "ASKED"} => Login!UsedUp(S)[u] = resetToken[u]
  BY DEF LoginInv, LoginTypes, LinkStates, Login!UsedUp, Login!Unused

\* A reset link is good for one use, by an employee who is active unless a
\* deactivation could not see it.
LEMMA LoginTokens ==
  ASSUME LoginInv, NEW t \in 1..MaxTokens,
         \/ Login!Active /\ resetToken[t] = "NONE"
              /\ resetToken' = [resetToken EXCEPT ![t] = "ASKED"]
         \/ resetToken[t] = "ASKED"
              /\ resetToken' = [Login!UsedUp(DOMAIN resetToken) EXCEPT ![t] = "USABLE"]
         \/ resetToken' = [resetToken EXCEPT ![t] = "EXPIRED"]
         \/ resetToken' = [resetToken EXCEPT ![t] = "USED"],
         missed' = missed, Login!Active' = Login!Active
  PROVE  /\ resetToken' \in [1..MaxTokens -> LinkStates] /\ TokensFair'
         /\ \A u \in 1..MaxTokens : resetToken[u] \notin {"NONE", "ASKED"} =>
              resetToken'[u] \notin {"NONE", "ASKED"}
<1>1. DOMAIN resetToken = 1..MaxTokens /\ resetToken \in [1..MaxTokens -> LinkStates]
  BY DEF LoginInv, LoginTypes
<1>2. TokensFair
  BY DEF LoginInv
<1>3. CASE /\ resetToken[t] = "ASKED"
           /\ resetToken' = [Login!UsedUp(DOMAIN resetToken) EXCEPT ![t] = "USABLE"]
  <2> DEFINE marked == Login!UsedUp(1..MaxTokens)
  <2>1. /\ marked \in [1..MaxTokens -> LinkStates]
        /\ \A u \in 1..MaxTokens :
             /\ marked[u] \in {resetToken[u], "USED"}
             /\ Login!Unused(u) => marked[u] = "USED"
    BY LoginMarked
  <2>2. resetToken' = [marked EXCEPT ![t] = "USABLE"]
    BY <1>1, <1>3
  <2> HIDE DEF marked
  <2>3. /\ resetToken' \in [1..MaxTokens -> LinkStates] /\ resetToken'[t] = "USABLE"
        /\ \A u \in (1..MaxTokens) \ {t} : resetToken'[u] = marked[u]
    BY <2>1, <2>2 DEF LinkStates
  <2>4. \A u \in (1..MaxTokens) \ {t} : resetToken'[u] # "USABLE"
    BY <2>1, <2>3 DEF Login!Unused
  <2>5. \A u \in 1..MaxTokens : resetToken'[u] \in {"ASKED", "USABLE"} =>
          resetToken[u] \in {"ASKED", "USABLE"}
    BY <1>3, <2>1, <2>3
  <2>6. TokensFair'
    BY <1>2, <2>4, <2>5 DEF TokensFair, Login!Usable
  <2>. QED BY <1>3, <2>1, <2>3, <2>6
<1>4. CASE resetToken' = [resetToken EXCEPT ![t] = "ASKED"] /\ Login!Active
             /\ resetToken[t] = "NONE"
  BY <1>1, <1>2, <1>4 DEF LinkStates, TokensFair, Login!Usable
<1>5. CASE resetToken' \in {[resetToken EXCEPT ![t] = "EXPIRED"],
                            [resetToken EXCEPT ![t] = "USED"]}
  BY <1>1, <1>2, <1>5 DEF LinkStates, TokensFair, Login!Usable
<1>. QED BY <1>3, <1>4, <1>5

\* Every transaction of the employee, of the administrator and of the reset.
LEMMA LoginNext ==
  ASSUME LoginInv, Login!Next PROVE LoginInv'
<1>0. /\ LoginTypes /\ DOMAIN resetToken = 1..MaxTokens /\ employee \in Login!Employee
      /\ SignInsFair /\ ChangeFair /\ TokensFair
  BY DEF LoginInv, LoginTypes
<1>1. CASE Login!SignUp
  <2> DEFINE row == [employee EXCEPT !.row = "ACTIVE", !.password = 1]
  <2>1. /\ employee.row = "NONE" /\ employee' = row
        /\ signingIn' = {[via |-> "signUp", proof |-> 1]}
        /\ UNCHANGED <<family, live, issued, ended, overlapped, rotating, reused>>
        /\ UNCHANGED <<admin, resetToken, missed>>
    BY <1>1 DEF Login!SignUp, Login!sessions, Login!resets
  <2>2. row \in Login!Employee /\ row.row = "ACTIVE" /\ row.google = employee.google
    <3>1. 1 \in 0..MaxCredentials
      BY ServicesConstants
    <3>. QED BY <1>0, <3>1 DEF Login!Employee
  <2> HIDE DEF row
  <2>3. LoginTypes' /\ SignInsFair'
    BY <1>0, <2>1, <2>2 DEF LoginTypes, SignInsFair, Login!Via
  <2>4. ChangeFair' /\ TokensFair'
    BY <1>0, <2>1, <2>2 DEF ChangeFair, TokensFair, Login!Usable, Login!Active
  <2>5. ~Login!Active /\ Login!Active'
    BY <2>1, <2>2 DEF Login!Active
  <2>. QED BY <2>1, <2>3, <2>4, <2>5, LoginAround
<1>2. CASE Login!VerifyPassword \/ Login!VerifyGoogle
  <2>1. PICK s \in [via : Login!Via, proof : Nat] :
          /\ signingIn' = signingIn \cup {s}
          /\ s.via = "google" => s.proof % 2 = 1
          /\ UNCHANGED <<family, live, issued, ended, overlapped, rotating, reused>>
          /\ UNCHANGED <<employee, admin, resetToken, missed>>
    <3>1. CASE Login!VerifyPassword
      <4> DEFINE s == [via |-> "password", proof |-> employee.password]
      <4>1. s \in [via : Login!Via, proof : Nat] /\ s.via = "password"
        BY <1>0 DEF Login!Via, Login!Employee
      <4>. QED BY <3>1, <4>1 DEF Login!VerifyPassword, Login!sessions, Login!resets
    <3>2. CASE Login!VerifyGoogle
      <4> DEFINE s == [via |-> "google", proof |-> employee.google]
      <4>1. s \in [via : Login!Via, proof : Nat] /\ s.proof % 2 = 1
        BY <1>0, <3>2 DEF Login!Via, Login!Employee, Login!VerifyGoogle, Login!Linked
      <4>. QED BY <3>2, <4>1 DEF Login!VerifyGoogle, Login!sessions, Login!resets
    <3>. QED BY <1>2, <3>1, <3>2
  <2>2. LoginTypes' /\ SignInsFair'
    BY <1>0, <2>1 DEF LoginTypes, SignInsFair
  <2>3. ChangeFair' /\ TokensFair'
    BY <1>0, <2>1 DEF ChangeFair, TokensFair, Login!Usable, Login!Active, Login!Opened, Login!Fresh
  <2>4. Login!Active' = Login!Active
    BY <2>1 DEF Login!Active
  <2>. QED BY <2>1, <2>2, <2>3, <2>4, LoginAround
<1>3. ASSUME NEW s \in signingIn, Login!SignInRefused(s) PROVE LoginInv'
  <2>1. /\ signingIn' = signingIn \ {s}
        /\ UNCHANGED <<family, live, issued, ended, overlapped, rotating, reused>>
        /\ UNCHANGED <<employee, admin, resetToken, missed>>
    BY <1>3 DEF Login!SignInRefused, Login!sessions, Login!resets
  <2>2. LoginTypes' /\ SignInsFair'
    BY <1>0, <2>1 DEF LoginTypes, SignInsFair
  <2>3. ChangeFair' /\ TokensFair'
    BY <1>0, <2>1 DEF ChangeFair, TokensFair, Login!Usable, Login!Active, Login!Opened, Login!Fresh
  <2>4. Login!Active' = Login!Active
    BY <2>1 DEF Login!Active
  <2>. QED BY <2>1, <2>2, <2>3, <2>4, LoginAround
<1>4. ASSUME NEW t \in DOMAIN resetToken,
             Login!RequestReset(t) \/ Login!IssueReset(t) \/ Login!TokenExpires(t)
      PROVE  LoginInv'
  <2>1. /\ \/ Login!Active /\ resetToken[t] = "NONE"
                /\ resetToken' = [resetToken EXCEPT ![t] = "ASKED"]
           \/ resetToken[t] = "ASKED"
                /\ resetToken' = [Login!UsedUp(DOMAIN resetToken) EXCEPT ![t] = "USABLE"]
           \/ resetToken' = [resetToken EXCEPT ![t] = "EXPIRED"]
        /\ UNCHANGED <<family, live, issued, ended, overlapped, rotating, reused>>
        /\ UNCHANGED <<employee, signingIn, missed>>
        /\ admin' \in {admin, Login!NoChange}
    BY <1>4 DEF Login!RequestReset, Login!IssueReset, Login!TokenExpires, Login!sessions
  <2>2. Login!Active' = Login!Active
    BY <2>1 DEF Login!Active
  <2>3. /\ resetToken' \in [1..MaxTokens -> LinkStates] /\ TokensFair'
        /\ \A u \in 1..MaxTokens : resetToken[u] \notin {"NONE", "ASKED"} =>
             resetToken'[u] \notin {"NONE", "ASKED"}
    BY <1>0, <2>1, <2>2, LoginTokens
  <2>4. LoginTypes' /\ SignInsFair'
    BY <1>0, <2>1, <2>3 DEF LoginTypes, SignInsFair
  <2>5. ChangeFair'
    BY <1>0, <2>1, <2>3 DEF LoginTypes, ChangeFair, Login!Opened, Login!Fresh
  <2>. QED BY <2>1, <2>2, <2>3, <2>4, <2>5, LoginAround
<1>5. CASE Login!LinkGoogle
  <2> DEFINE n == employee.google + 1
             row == [employee EXCEPT !.google = n]
  <2>1. /\ Login!Active /\ ~Login!Linked /\ employee.google < MaxCredentials
        /\ employee' = row /\ admin' = Login!NoChange
        /\ UNCHANGED <<family, live, issued, ended, overlapped, rotating, reused>>
        /\ UNCHANGED <<signingIn, resetToken, missed>>
    BY <1>5 DEF Login!LinkGoogle, Login!sessions, Login!resets
  <2>2. n \in 0..MaxCredentials
    BY <1>0, <2>1, ServicesConstants DEF Login!Employee
  <2> HIDE DEF n
  <2>3. row \in Login!Employee /\ row.row = employee.row /\ row.password = employee.password
    BY <1>0, <2>2 DEF Login!Employee
  <2> HIDE DEF row
  <2>4. LoginTypes' /\ SignInsFair'
    BY <1>0, <2>1, <2>3 DEF LoginTypes, SignInsFair
  <2>5. Login!Active' = Login!Active /\ ChangeFair' /\ TokensFair'
    BY <1>0, <2>1, <2>3 DEF ChangeFair, TokensFair, Login!Usable, Login!Active
  <2>. QED BY <2>1, <2>3, <2>4, <2>5, LoginAround
<1>6. ASSUME Login!RevokeCommitted, LoginTypes',
             UNCHANGED <<family, issued, rotating, reused, signingIn>>,
             ChangeFair', TokensFair'
      PROVE  LoginInv'
  <2> DEFINE seen == Login!Opened \ Login!Rotating
  <2>1. Login!Revoke(seen) /\ overlapped' = overlapped \cup Login!Rotating
    BY <1>6 DEF Login!RevokeCommitted
  <2>2. /\ seen \subseteq Login!Opened /\ \A f \in seen : rotating[f] = 0
        /\ Login!Opened \subseteq seen \cup overlapped' /\ overlapped \subseteq overlapped'
    BY <2>1 DEF Login!Opened, Login!Rotating
  <2> HIDE DEF seen
  <2>. QED BY <1>6, <2>1, <2>2, LoginRevoked
<1>7. ASSUME Login!Revoke(Login!Opened \ Login!Rotating)
      PROVE  live' \in [Families -> SUBSET Nat] /\ ended' \subseteq Families
  BY <1>0, <1>7 DEF Login!Revoke, Login!Opened, LoginTypes
<1>8. ASSUME NEW t \in DOMAIN resetToken, Login!ResetPassword(t) PROVE LoginInv'
  <2> DEFINE n == employee.password + 1
             row == [employee EXCEPT !.password = n]
  <2>1. /\ employee.password < MaxCredentials /\ employee' = row /\ admin' = Login!NoChange
        /\ Login!RevokeCommitted
        /\ UNCHANGED <<family, issued, rotating, reused, signingIn, missed>>
        /\ resetToken' = [resetToken EXCEPT ![t] = "USED"]
    BY <1>8 DEF Login!ResetPassword
  <2>2. n \in 0..MaxCredentials
    BY <1>0, <2>1, ServicesConstants DEF Login!Employee
  <2> HIDE DEF n
  <2>3. row \in Login!Employee /\ row.row = employee.row
    BY <1>0, <2>2 DEF Login!Employee
  <2> HIDE DEF row
  <2>4. Login!Active' = Login!Active
    BY <2>1, <2>3 DEF Login!Active
  <2>5. resetToken' \in [1..MaxTokens -> LinkStates] /\ TokensFair'
    BY <1>0, <2>1, <2>4, LoginTokens
  <2>6. live' \in [Families -> SUBSET Nat] /\ ended' \subseteq Families
          /\ overlapped' \subseteq Families
    BY <1>0, <1>7, <2>1 DEF Login!RevokeCommitted, Login!Rotating, LoginTypes
  <2>7. LoginTypes' /\ ChangeFair'
    BY <1>0, <2>1, <2>3, <2>5, <2>6 DEF LoginTypes, ChangeFair
  <2>. QED BY <1>6, <2>1, <2>5, <2>7
<1>9. CASE Login!UnlinkGoogle
  <2> DEFINE n == employee.google + 1
             row == [employee EXCEPT !.google = n]
  <2>1. /\ employee.google < MaxCredentials /\ employee' = row /\ admin' = Login!NoChange
        /\ Login!RevokeCommitted
        /\ UNCHANGED <<family, issued, rotating, reused, signingIn, resetToken, missed>>
    BY <1>9 DEF Login!UnlinkGoogle, Login!resets
  <2>2. n \in 0..MaxCredentials
    BY <1>0, <2>1, ServicesConstants DEF Login!Employee
  <2> HIDE DEF n
  <2>3. row \in Login!Employee /\ row.row = employee.row
    BY <1>0, <2>2 DEF Login!Employee
  <2> HIDE DEF row
  <2>4. TokensFair'
    BY <1>0, <2>1, <2>3 DEF TokensFair, Login!Usable, Login!Active
  <2>5. live' \in [Families -> SUBSET Nat] /\ ended' \subseteq Families
          /\ overlapped' \subseteq Families
    BY <1>0, <1>7, <2>1 DEF Login!RevokeCommitted, Login!Rotating, LoginTypes
  <2>6. LoginTypes' /\ ChangeFair'
    BY <1>0, <2>1, <2>3, <2>5 DEF LoginTypes, ChangeFair
  <2>. QED BY <1>6, <2>1, <2>4, <2>6
<1>10. ASSUME NEW kind \in {"password", "INACTIVE", "ACTIVE", "DELETED"},
              Login!BeginChange(kind)
       PROVE  LoginInv'
  <2> DEFINE change0 == [kind |-> kind, seen |-> Login!Opened, links |-> Login!Stored]
  <2>1. /\ employee.row \in {"ACTIVE", "INACTIVE"}
        /\ kind = "password" => employee.password < MaxCredentials
        /\ admin' = change0
        /\ UNCHANGED <<family, live, issued, ended, overlapped, rotating, reused>>
        /\ UNCHANGED <<employee, signingIn, resetToken, missed>>
    BY <1>10 DEF Login!BeginChange, Login!sessions, Login!resets
  <2>2. /\ change0 \in [kind : {"password", "INACTIVE", "ACTIVE", "DELETED"},
                        seen : SUBSET Families, links : SUBSET (1..MaxTokens)]
        /\ change0.kind = kind /\ change0.seen = Login!Opened
        /\ \A t \in change0.links : resetToken[t] \notin {"NONE", "ASKED"}
    BY <1>0 DEF Login!Opened, Login!Stored
  <2> HIDE DEF change0
  <2>3. LoginTypes' /\ SignInsFair'
    BY <1>0, <2>1, <2>2 DEF LoginTypes, SignInsFair
  <2>4. ChangeFair' /\ TokensFair' /\ Login!Active' = Login!Active
    BY <1>0, <2>1, <2>2
    DEF ChangeFair, TokensFair, Login!Usable, Login!Active, Login!Opened, Login!Fresh
  <2>. QED BY <2>1, <2>3, <2>4, LoginAround
<1>11. CASE Login!CommitChange
  <2> DEFINE n == employee.password + 1
             row == IF admin.kind = "password" THEN [employee EXCEPT !.password = n]
                    ELSE [employee EXCEPT !.row = admin.kind]
  <2>1. /\ admin # Login!NoChange /\ Login!Rotating = {} /\ employee' = row
        /\ admin' = Login!NoChange
        /\ UNCHANGED <<family, issued, rotating, reused, signingIn>>
    BY <1>11 DEF Login!CommitChange
  <2>2. /\ admin.kind \in {"password", "INACTIVE", "ACTIVE", "DELETED"}
        /\ admin.seen \subseteq Login!Opened
        /\ admin.kind = "password" => employee.password < MaxCredentials
    BY <1>0, <2>1 DEF LoginTypes, ChangeFair
  <2>3. admin.kind = "password" => n \in 0..MaxCredentials
    BY <1>0, <2>2, ServicesConstants DEF Login!Employee
  <2> HIDE DEF n
  <2>4. /\ row \in Login!Employee
        /\ admin.kind = "password" => row.row = employee.row
        /\ admin.kind # "password" => /\ row.row = admin.kind
                                      /\ row.password = employee.password
                                      /\ row.google = employee.google
    BY <1>0, <2>2, <2>3 DEF Login!Employee
  <2> HIDE DEF row
  <2>5. ChangeFair'
    BY <2>1 DEF ChangeFair
  <2>6. CASE admin.kind = "ACTIVE"
    <3>1. UNCHANGED <<live, ended, overlapped, resetToken, missed>>
      BY <1>11, <2>6 DEF Login!CommitChange, Login!resets
    <3>2. Login!Active'
      BY <2>1, <2>4, <2>6 DEF Login!Active
    <3>3. LoginTypes' /\ SignInsFair'
      BY <1>0, <2>1, <2>4, <3>1 DEF LoginTypes, SignInsFair
    <3>4. TokensFair'
      BY <1>0, <3>1, <3>2 DEF TokensFair, Login!Usable
    <3>. QED BY <2>1, <2>4, <2>5, <2>6, <3>1, <3>2, <3>3, <3>4, LoginAround
  <2>7. CASE admin.kind # "ACTIVE"
    <3> DEFINE seen == admin.seen
    <3>1. /\ Login!Revoke(seen) /\ resetToken' = Login!UsedUp(admin.links)
          /\ overlapped' = overlapped \cup (Login!Opened \ seen)
          /\ missed' = IF admin.kind = "password" THEN missed ELSE missed \cup Login!Unseen
      BY <1>11, <2>7 DEF Login!CommitChange
    <3>2. /\ seen \subseteq Login!Opened /\ \A f \in seen : rotating[f] = 0
          /\ Login!Opened \subseteq seen \cup overlapped' /\ overlapped \subseteq overlapped'
      BY <2>1, <2>2, <3>1 DEF Login!Opened, Login!Rotating
    <3>3. /\ resetToken' \in [1..MaxTokens -> LinkStates] /\ missed' \subseteq 1..MaxTokens
          /\ missed \subseteq missed'
          /\ \A t \in 1..MaxTokens :
               /\ resetToken'[t] \in {resetToken[t], "USED"}
               /\ t \in admin.links /\ Login!Unused(t) => resetToken'[t] = "USED"
      BY <1>0, <3>1, LoginMarked DEF LoginTypes, Login!Unseen
    <3>4. TokensFair'
      <4>1. \A t \in 1..MaxTokens : resetToken'[t] \in {"ASKED", "USABLE"} =>
              /\ resetToken[t] = resetToken'[t]
              /\ t \notin admin.links
        BY <1>0, <2>1, <3>3 DEF ChangeFair, Login!Unused
      <4>2. CASE admin.kind = "password"
        <5>1. Login!Active' = Login!Active
          BY <1>0, <2>1, <2>4, <4>2 DEF Login!Active
        <5>. QED BY <1>0, <3>1, <4>1, <4>2, <5>1 DEF TokensFair, Login!Usable
      <4>3. CASE admin.kind # "password"
        <5>1. \A t \in 1..MaxTokens : resetToken'[t] \in {"ASKED", "USABLE"} => t \in missed'
          BY <1>0, <3>1, <4>1, <4>3 DEF Login!Unseen, Login!Unused
        <5>2. \A t \in 1..MaxTokens : Login!Usable(t)' => Login!Usable(t)
          BY <4>1 DEF Login!Usable
        <5>. QED BY <1>0, <5>1, <5>2 DEF TokensFair
      <4>. QED BY <4>2, <4>3
    <3>5. live' \in [Families -> SUBSET Nat] /\ ended' \subseteq Families
            /\ overlapped' \subseteq Families
      BY <1>0, <3>1, <3>2 DEF Login!Revoke, Login!Opened, LoginTypes
    <3>6. LoginTypes'
      BY <1>0, <2>1, <2>4, <3>3, <3>5 DEF LoginTypes
    <3> HIDE DEF seen
    <3>. QED BY <2>1, <2>5, <3>1, <3>2, <3>4, <3>6, LoginRevoked
  <2>. QED BY <2>6, <2>7
<1>. QED
  BY <1>1, <1>2, <1>3, <1>4, <1>5, <1>8, <1>9, <1>10, <1>11, LoginSessions, Zenon
  DEF Login!Next

\* The invariant holds in every behaviour of the service.
LEMMA LoginAlways == Spec => [](on = "login" => LoginInv)
<1> DEFINE I == on = "login" => LoginInv
<1>1. Init => I
  BY LoginStart DEF Init
<1>2. I /\ [Next]_vars => I'
  <2> SUFFICES ASSUME I, [Next]_vars, on' = "login" PROVE LoginInv'
    OBVIOUS
  <2>1. LoginInv /\ (Login!Next \/ UNCHANGED loginVars)
    BY Turn
  <2>2. ASSUME UNCHANGED loginVars PROVE LoginInv'
    <3>1. /\ UNCHANGED <<family, live, issued, ended, overlapped, rotating, reused>>
          /\ UNCHANGED <<employee, signingIn, admin, resetToken, missed>>
      BY <2>2 DEF loginVars
    <3>2. /\ LoginTypes' /\ SignInsFair' /\ ChangeFair' /\ TokensFair'
          /\ Login!Active' = Login!Active
      BY <2>1, <3>1
      DEF LoginInv, LoginTypes, SignInsFair, ChangeFair, TokensFair, Login!Usable,
          Login!Active, Login!Opened, Login!Fresh
    <3>. QED BY <2>1, <3>1, <3>2, LoginAround
  <2>. QED BY <2>1, <2>2, LoginNext
<1>. QED BY <1>1, <1>2, PTL DEF Spec

\* Whoever has a session is active and has shown a credential that is valid
\* now, and one reset link at most is good, for an active employee, save for
\* the overlaps that the model names (a sign-in, a rotation or a reset link
\* under way at the revocation), for any number of sign-ins, rotations, reset
\* links and changes of credentials.
\* (createSession, rotate, revoke, requestReset, resetPassword, updateEmployee.)
THEOREM SessionsAreEntitled == Spec => []SessionsEntitled
<1>1. (on = "login" => LoginInv) => SessionsEntitled
  BY LoginEntitled DEF SessionsEntitled
<1>. QED BY <1>1, LoginAlways, PTL

-----------------------------------------------------------------------------
(* Telegram messages.  What a linked customer is owed is said, or a chat   *)
(* an acknowledgement or a dead letter missed, or still on its way: as an  *)
(* acknowledgement that has yet to look, or as an event that no handler    *)
(* has read for another chat.  The remakes that a handler saw were made:   *)
(* while READY was queued for all that there are, none is being made.      *)

Chat == Chats \cup {Notices!NoChat}
Says == {"unread", "PENDING", "ACCEPTED", "READY", "CHANGED"}
LineStates == {"NONE", "COOKING", "READY", "SERVED", "TAKEN", "CANCELLED"}
NoticeTypes ==
  /\ order \in Notices!Status
  /\ drink \in [Notices!Lines -> LineStates]
  /\ chat \in Chat /\ readyQueued \subseteq SUBSET Remakes
  /\ event \subseteq Notices!Event
  /\ handler \subseteq [of : Notices!Event, to : Chats \cup {Notices!StaffChat},
                        made : SUBSET Remakes]
  /\ ack \subseteq [to : Chats, says : Says]
  /\ told \subseteq (Chats \cup {Notices!StaffChat}) \X (Notices!Event \cup Says)

\* A line that no handler can see cooking (again).
Finished(d) == drink[d] \notin {"NONE", "COOKING"}
Made == \A d \in Drinks : drink[d] # "COOKING"
HandlersSound ==
  /\ \A h \in handler : /\ h.of \in event
                        /\ h.of = "STAFF" => h.to = Notices!StaffChat
                        /\ h.of # "STAFF" => h.to \in Chats
  /\ \A h, k \in handler : h.of = k.of => h = k
EventsTrue ==
  /\ \A d \in Notices!Lines : d \in event => Finished(d)
  /\ "READY" \in event => readyQueued # {}
  /\ \A status \in {"REJECTED", "CANCELLED"} : status \in event => order = status
  /\ order = "PENDING" => \A d \in Notices!Lines : drink[d] # "READY"
NothingEarly ==
  /\ readyQueued # {} => Made
  /\ \A h \in handler : h.of \in Notices!Lines => Made
  /\ \A a \in ack : a.says = "READY" => Made
  /\ \A c \in Chats : <<c, "READY">> \in told => Made
\* The remakes that a handler saw, or that were seen when READY was queued.
SeenFinished ==
  /\ \A made \in readyQueued : \A k \in made : Finished(k)
  /\ \A h \in handler : h.of \in Notices!Lines => \A k \in h.made : Finished(k)

\* e has yet to be handled for c.
Awaited(e, c) == e \in event /\ \A h \in handler : h.of = e => h.to = c
ReadyComes(c) ==
  \/ Notices!Said(c, "READY")
  \/ \E a \in ack : a.to = c /\ a.says \in {"unread", "READY"}
  \/ Awaited("READY", c)
  \/ readyQueued = {} /\ \E d \in Notices!Lines : Awaited(d, c)
Reached == windowOpen /\ chat # Notices!NoChat
ReadyPromised ==
  Reached /\ order = "ACCEPTED" /\ Notices!AllReady /\ Notices!Announced => ReadyComes(chat)
EndPromised ==
  Reached /\ order \in {"REJECTED", "CANCELLED"} =>
    Notices!Said(chat, order) \/ Awaited(order, chat)
StaffPromised ==
  order = "PENDING" =>
    Notices!Said(Notices!StaffChat, "STAFF") \/ Awaited("STAFF", Notices!StaffChat)
NoticesInv ==
  /\ NoticeTypes /\ HandlersSound /\ EventsTrue /\ NothingEarly /\ SeenFinished
  /\ ReadyPromised /\ EndPromised /\ StaffPromised

\* The order was placed, and its event waits for the staff.
LEMMA NoticesStart == Notices!Init => NoticesInv
<1> SUFFICES ASSUME Notices!Init PROVE NoticesInv
  OBVIOUS
<1> USE DEF Notices!Init
<1>1. NoticeTypes
  BY DEF NoticeTypes, Notices!Status, Notices!Event, Chat, LineStates
<1>2. HandlersSound /\ EventsTrue /\ NothingEarly /\ SeenFinished
  BY ServicesConstants DEF HandlersSound, EventsTrue, NothingEarly, SeenFinished, Notices!Lines
<1>3. ReadyPromised /\ EndPromised /\ StaffPromised
  BY DEF ReadyPromised, EndPromised, StaffPromised, Reached, Awaited
<1>. QED BY <1>1, <1>2, <1>3 DEF NoticesInv

\* When nothing is on its way, what is promised was said.
LEMMA NoticesTell == NoticesInv => Notices!CustomerIsTold
<1> SUFFICES ASSUME NoticesInv PROVE Notices!CustomerIsTold
  OBVIOUS
<1>1. order \in Notices!Status /\ event \subseteq Notices!Event
  BY DEF NoticesInv, NoticeTypes
<1>2. Notices!Quiet /\ windowOpen /\ chat # Notices!NoChat =>
        /\ order = "ACCEPTED" /\ Notices!AllReady /\ Notices!Announced =>
             Notices!Said(chat, "READY")
        /\ order \in {"REJECTED", "CANCELLED"} => Notices!Said(chat, order)
  BY DEF NoticesInv, ReadyPromised, EndPromised, ReadyComes, Awaited, Reached, Notices!Quiet
<1>3. Notices!Quiet /\ order = "PENDING" => Notices!Said(Notices!StaffChat, "STAFF")
  BY DEF NoticesInv, StaffPromised, Awaited, Notices!Quiet
<1>4. (\E c \in Chats : <<c, "READY">> \in told) => \A d \in Drinks : drink[d] # "COOKING"
  BY DEF NoticesInv, NothingEarly, Made
<1>. QED BY <1>1, <1>2, <1>3, <1>4, Zenon DEF Notices!CustomerIsTold

\* A step of the lines: what was finished stays so, what is finished may put
\* its event into the outbox, and the promise of READY is kept.
LEMMA NoticesLines ==
  ASSUME NoticesInv, event \subseteq event',
         \A e \in event' \ event : e \in Notices!Lines /\ Finished(e)',
         drink' \in [Notices!Lines -> LineStates],
         UNCHANGED <<order, chat, readyQueued, windowOpen, handler, ack, told, unlucky>>,
         \A d \in Notices!Lines : Finished(d) => Finished(d)',
         \A d \in Drinks : drink[d] # "COOKING" => drink'[d] # "COOKING",
         order = "PENDING" => \A d \in Notices!Lines : drink'[d] = "READY" => drink[d] = "READY",
         ReadyPromised'
  PROVE  NoticesInv'
<1> USE DEF NoticesInv
<1>1. \A e \in event' \ event :
        e \notin {"STAFF", "ACCEPTED", "REJECTED", "CANCELLED", "READY"}
  BY ServicesConstants DEF Notices!Lines
<1>2. NoticeTypes'
  BY DEF NoticeTypes, Notices!Event
<1>3. HandlersSound'
  BY DEF HandlersSound
<1>4. EventsTrue'
  BY <1>1 DEF EventsTrue
<1>5. NothingEarly'
  BY DEF NothingEarly, Made
<1>6. SeenFinished'
  <2>1. Remakes \subseteq Notices!Lines
    BY DEF Notices!Lines
  <2>2. readyQueued \subseteq SUBSET Remakes /\ \A h \in handler : h.made \subseteq Remakes
    BY DEF NoticeTypes
  <2>. QED BY <2>1, <2>2 DEF SeenFinished
<1>7. EndPromised' /\ StaffPromised'
  BY <1>1 DEF EndPromised, StaffPromised, Reached, Awaited, Notices!Said, HandlersSound
<1>. QED BY <1>2, <1>3, <1>4, <1>5, <1>6, <1>7

\* The order is decided, its lines are finished, collected and remade.
LEMMA NoticesOrder ==
  ASSUME NoticesInv,
         \/ Notices!Decide \/ Notices!Collect \/ \E d \in Notices!Lines : Notices!Finish(d)
         \/ \E k \in Remakes : \/ Notices!RemakeItem(k) \/ Notices!HandOver(k)
                               \/ Notices!CancelRemake(k)
  PROVE  NoticesInv'
<1> USE DEF NoticesInv
<1>0. drink \in [Notices!Lines -> LineStates] /\ Remakes \subseteq Notices!Lines
        /\ Drinks \subseteq Notices!Lines
  BY DEF NoticeTypes, Notices!Lines
<1>1. ASSUME NEW status \in Notices!Status \ {"PENDING"}, NEW events \in SUBSET {status},
             Notices!Becomes(status, events),
             \/ order = "PENDING" /\ status # "CANCELLED"
                  /\ (status \in {"ACCEPTED", "REJECTED"} => events = {status})
                  /\ (status \notin {"ACCEPTED", "REJECTED"} => events = {})
             \/ order = "ACCEPTED" /\ status = "CANCELLED" /\ events = {status}
      PROVE  NoticesInv'
  <2>1. /\ order' = status /\ event' = event \cup events
        /\ UNCHANGED <<drink, chat, linkToken, readyQueued, windowOpen, handler, ack, told,
                       unlucky>>
    BY <1>1 DEF Notices!Becomes
  <2>2. events \subseteq {"ACCEPTED", "REJECTED", "CANCELLED"} /\ events \subseteq Notices!Event
          /\ events \cap Notices!Lines = {}
    BY <1>1, ServicesConstants DEF Notices!Event, Notices!Status, Notices!Lines
  <2>3. NoticeTypes'
    BY <1>1, <2>1, <2>2 DEF NoticeTypes
  <2>4. HandlersSound'
    BY <2>1 DEF HandlersSound
  <2>5. EventsTrue'
    BY <1>1, <2>1, <2>2 DEF EventsTrue, Finished
  <2>6. NothingEarly' /\ SeenFinished'
    BY <2>1 DEF NothingEarly, Made, SeenFinished, Finished
  <2>7. status = "ACCEPTED" => ~Notices!AllReady'
    BY <1>1, <2>1 DEF EventsTrue, Notices!AllReady
  <2>8. ReadyPromised' /\ StaffPromised'
    BY <1>1, <2>1, <2>7 DEF ReadyPromised, StaffPromised
  <2>9. status \in {"REJECTED", "CANCELLED"} => Awaited(status, chat)'
    BY <1>1, <2>1 DEF Awaited, HandlersSound, EventsTrue
  <2>10. EndPromised'
    BY <2>1, <2>9 DEF EndPromised
  <2>. QED BY <2>3, <2>4, <2>5, <2>6, <2>8, <2>10
<1>2. CASE Notices!Decide
  BY <1>1, <1>2 DEF Notices!Decide, Notices!Status
<1>3. ASSUME NEW d \in Notices!Lines, Notices!Finish(d) PROVE NoticesInv'
  <2>1. /\ order = "ACCEPTED" /\ drink[d] = "COOKING"
        /\ drink' = [drink EXCEPT ![d] = "READY"] /\ event' = event \cup {d}
        /\ UNCHANGED <<order, chat, linkToken, readyQueued, windowOpen, handler, ack, told,
                       unlucky>>
    BY <1>3 DEF Notices!Finish
  <2>2. /\ drink' \in [Notices!Lines -> LineStates] /\ drink'[d] = "READY"
        /\ \A f \in Notices!Lines \ {d} : drink'[f] = drink[f]
    BY <1>0, <2>1 DEF LineStates
  <2>3. ReadyPromised'
    <3>1. Awaited(d, chat)'
      BY <2>1 DEF Awaited, HandlersSound, EventsTrue, Finished
    <3>2. ASSUME readyQueued # {}, Notices!Announced' PROVE FALSE
      <4>1. d \notin Drinks
        BY <2>1, <3>2 DEF NothingEarly, Made
      <4>2. d \in Notices!Remade'
        BY <2>2, <4>1 DEF Notices!Remade, Notices!Lines
      <4>3. Notices!Remade' \in readyQueued
        BY <2>1, <3>2 DEF Notices!Announced
      <4>. QED BY <2>1, <4>2, <4>3 DEF SeenFinished, Finished
    <3>. QED BY <2>1, <3>1, <3>2 DEF ReadyPromised, ReadyComes
  <2>5. /\ \A f \in Notices!Lines : Finished(f) => Finished(f)'
        /\ \A f \in Drinks : drink[f] # "COOKING" => drink'[f] # "COOKING"
        /\ event \subseteq event'
        /\ \A e \in event' \ event : e \in Notices!Lines /\ Finished(e)'
        /\ order = "PENDING" =>
             \A f \in Notices!Lines : drink'[f] = "READY" => drink[f] = "READY"
    BY <1>0, <2>1, <2>2 DEF Finished
  <2>. QED BY <2>1, <2>2, <2>3, <2>5, NoticesLines
<1>4. CASE Notices!Collect
  <2>1. /\ order = "ACCEPTED" /\ \A d \in Drinks : drink[d] = "READY"
        /\ drink' = [d \in Notices!Lines |-> IF d \in Drinks THEN "SERVED" ELSE drink[d]]
        /\ UNCHANGED <<order, chat, linkToken, readyQueued, windowOpen, event, handler, ack, told,
                       unlucky>>
    BY <1>4 DEF Notices!Collect
  <2>2. /\ drink' \in [Notices!Lines -> LineStates]
        /\ \A d \in Notices!Lines : /\ d \in Drinks => drink'[d] = "SERVED"
                                    /\ d \notin Drinks => drink'[d] = drink[d]
    BY <1>0, <2>1 DEF LineStates
  <2>3. ReadyPromised'
    <3>1. Notices!AllReady' => Notices!AllReady
      BY <1>0, <2>1, <2>2 DEF Notices!AllReady
    <3>2. Notices!Announced' => Notices!Announced
      <4>1. Notices!Remade' = Notices!Remade
        BY <1>0, <2>1, <2>2, ServicesConstants DEF Notices!Remade
      <4>2. \A k \in Remakes : drink'[k] = drink[k]
        BY <1>0, <2>2, ServicesConstants
      <4>. QED BY <2>1, <4>1, <4>2 DEF Notices!Announced
    <3>3. ReadyComes(chat) => ReadyComes(chat)'
      BY <2>1 DEF ReadyComes, Awaited, Notices!Said
    <3>. QED BY <2>1, <3>1, <3>2, <3>3 DEF ReadyPromised, Reached
  <2>5. /\ \A f \in Notices!Lines : Finished(f) => Finished(f)'
        /\ \A f \in Drinks : drink[f] # "COOKING" => drink'[f] # "COOKING"
        /\ event \subseteq event'
        /\ \A e \in event' \ event : e \in Notices!Lines /\ Finished(e)'
        /\ order = "PENDING" =>
             \A f \in Notices!Lines : drink'[f] = "READY" => drink[f] = "READY"
    BY <1>0, <2>1, <2>2 DEF Finished
  <2>. QED BY <2>1, <2>2, <2>3, <2>5, NoticesLines
<1>5. ASSUME NEW k \in Remakes, Notices!RemakeItem(k) PROVE NoticesInv'
  <2>1. /\ drink[k] = "NONE" /\ drink' = [drink EXCEPT ![k] = "COOKING"]
        /\ UNCHANGED <<order, chat, linkToken, readyQueued, windowOpen, event, handler, ack, told,
                       unlucky>>
    BY <1>5 DEF Notices!RemakeItem
  <2>2. /\ drink' \in [Notices!Lines -> LineStates] /\ drink'[k] = "COOKING"
        /\ \A f \in Notices!Lines \ {k} : drink'[f] = drink[f]
    BY <1>0, <2>1 DEF LineStates
  <2>3. ReadyPromised'
    BY <1>0, <2>2 DEF ReadyPromised, Notices!AllReady, Notices!Served
  <2>4. k \notin Drinks
    BY ServicesConstants
  <2>5. /\ \A f \in Notices!Lines : Finished(f) => Finished(f)'
        /\ \A f \in Drinks : drink[f] # "COOKING" => drink'[f] # "COOKING"
        /\ event \subseteq event'
        /\ \A e \in event' \ event : e \in Notices!Lines /\ Finished(e)'
        /\ order = "PENDING" =>
             \A f \in Notices!Lines : drink'[f] = "READY" => drink[f] = "READY"
    BY <1>0, <2>1, <2>2, <2>4 DEF Finished
  <2>. QED BY <2>1, <2>2, <2>3, <2>5, NoticesLines
<1>6. ASSUME NEW k \in Remakes, Notices!HandOver(k) PROVE NoticesInv'
  <2>1. /\ drink[k] \in {"COOKING", "READY"}
        /\ drink' = [drink EXCEPT ![k] = IF drink[k] = "READY" THEN "SERVED" ELSE "TAKEN"]
        /\ UNCHANGED <<order, chat, linkToken, readyQueued, windowOpen, event, handler, ack, told,
                       unlucky>>
    BY <1>0, <1>6 DEF Notices!HandOver
  <2>2. /\ drink' \in [Notices!Lines -> LineStates]
        /\ drink'[k] = IF drink[k] = "READY" THEN "SERVED" ELSE "TAKEN"
        /\ \A f \in Notices!Lines \ {k} : drink'[f] = drink[f]
    BY <1>0, <2>1 DEF LineStates
  <2>3. ReadyPromised'
    <3>1. CASE drink[k] = "COOKING"
      BY <2>2, <3>1 DEF ReadyPromised, Notices!Announced
    <3>2. CASE drink[k] = "READY"
      <4>1. Notices!AllReady' => Notices!AllReady
        BY <1>0, <2>2, <3>2 DEF Notices!AllReady, Notices!Served
      <4>2. Notices!Remade' = Notices!Remade
        BY <1>0, <2>2, <3>2 DEF Notices!Remade
      <4>3. Notices!Announced' => Notices!Announced
        BY <1>0, <2>1, <2>2, <3>2, <4>2 DEF Notices!Announced
      <4>4. ReadyComes(chat) => ReadyComes(chat)'
        BY <2>1 DEF ReadyComes, Awaited, Notices!Said
      <4>. QED BY <2>1, <4>1, <4>3, <4>4 DEF ReadyPromised, Reached
    <3>. QED BY <2>1, <3>1, <3>2
  <2>5. /\ \A f \in Notices!Lines : Finished(f) => Finished(f)'
        /\ \A f \in Drinks : drink[f] # "COOKING" => drink'[f] # "COOKING"
        /\ event \subseteq event'
        /\ \A e \in event' \ event : e \in Notices!Lines /\ Finished(e)'
        /\ order = "PENDING" =>
             \A f \in Notices!Lines : drink'[f] = "READY" => drink[f] = "READY"
    BY <1>0, <2>1, <2>2 DEF Finished
  <2>. QED BY <2>1, <2>2, <2>3, <2>5, NoticesLines
<1>7. ASSUME NEW k \in Remakes, Notices!CancelRemake(k) PROVE NoticesInv'
  <2>1. /\ drink' = [drink EXCEPT ![k] = "CANCELLED"] /\ event' = event \cup {k}
        /\ UNCHANGED <<order, chat, linkToken, readyQueued, windowOpen, handler, ack, told,
                       unlucky>>
    BY <1>7 DEF Notices!CancelRemake
  <2>2. /\ drink' \in [Notices!Lines -> LineStates] /\ drink'[k] = "CANCELLED"
        /\ \A f \in Notices!Lines \ {k} : drink'[f] = drink[f]
    BY <1>0, <2>1 DEF LineStates
  <2>3. ReadyPromised'
    BY <1>0, <2>2 DEF ReadyPromised, Notices!AllReady, Notices!Served
  <2>5. /\ \A f \in Notices!Lines : Finished(f) => Finished(f)'
        /\ \A f \in Drinks : drink[f] # "COOKING" => drink'[f] # "COOKING"
        /\ event \subseteq event'
        /\ \A e \in event' \ event : e \in Notices!Lines /\ Finished(e)'
        /\ order = "PENDING" =>
             \A f \in Notices!Lines : drink'[f] = "READY" => drink[f] = "READY"
    BY <1>0, <2>1, <2>2 DEF Finished
  <2>. QED BY <2>1, <2>2, <2>3, <2>5, NoticesLines
<1>. QED BY <1>2, <1>3, <1>4, <1>5, <1>6, <1>7

\* The chat is linked and acknowledged, or the link or the customer leaves.
LEMMA NoticesLink ==
  ASSUME NoticesInv,
         \/ Notices!WindowCloses \/ Notices!CreateTelegramLink \/ Notices!LinkExpires
         \/ \E c \in Chats : Notices!Start(c) \/ Notices!Stop(c)
         \/ \E a \in ack : Notices!ReadForAck(a) \/ \E sent \in BOOLEAN : Notices!Acknowledge(a, sent)
  PROVE  NoticesInv'
<1> USE DEF NoticesInv
<1>1. CASE Notices!WindowCloses \/ Notices!CreateTelegramLink \/ Notices!LinkExpires
  <2>1. /\ UNCHANGED <<order, drink, chat, readyQueued, event, handler, ack, told, unlucky>>
        /\ windowOpen' => windowOpen
    BY <1>1
    DEF Notices!WindowCloses, Notices!CreateTelegramLink, Notices!LinkExpires, Notices!progress
  <2>2. NoticeTypes' /\ HandlersSound' /\ EventsTrue' /\ NothingEarly' /\ SeenFinished'
    BY <2>1 DEF NoticeTypes, HandlersSound, EventsTrue, NothingEarly, Made, SeenFinished, Finished
  <2>3. ReadyPromised' /\ EndPromised' /\ StaffPromised'
    BY <2>1
    DEF ReadyPromised, EndPromised, StaffPromised, ReadyComes, Awaited, Reached, Notices!Said,
        Notices!AllReady, Notices!Announced, Notices!Remade
  <2>. QED BY <2>2, <2>3
<1>2. ASSUME NEW c \in Chats, Notices!Start(c) PROVE NoticesInv'
  <2> DEFINE a == [to |-> c, says |-> "unread"]
  <2>1. /\ order \in {"PENDING", "ACCEPTED"} /\ chat' = c /\ ack' = ack \cup {a}
        /\ told' = {t \in told : t[1] # c} /\ unlucky' = unlucky \ {c}
        /\ UNCHANGED <<order, drink, windowOpen, readyQueued, event, handler>>
    BY <1>2 DEF Notices!Start, Notices!Linkable, Notices!progress
  <2>2. a \in [to : Chats, says : Says] /\ a.to = c /\ a.says = "unread"
    BY DEF Says
  <2> HIDE DEF a
  <2>3. told' \subseteq told /\ \A m : <<Notices!StaffChat, m>> \in told =>
                                  <<Notices!StaffChat, m>> \in told'
    BY <2>1, ServicesConstants DEF Notices!StaffChat
  <2>4. NoticeTypes'
    BY <2>1, <2>2, <2>3 DEF NoticeTypes, Chat
  <2>5. HandlersSound' /\ EventsTrue' /\ SeenFinished'
    BY <2>1 DEF HandlersSound, EventsTrue, SeenFinished, Finished
  <2>6. NothingEarly'
    BY <2>1, <2>2, <2>3 DEF NothingEarly, Made
  <2>7. ReadyPromised' /\ EndPromised'
    BY <2>1, <2>2 DEF ReadyPromised, ReadyComes, EndPromised
  <2>8. StaffPromised'
    BY <2>1, <2>3, ServicesConstants
    DEF StaffPromised, Awaited, Notices!Said, Notices!StaffChat
  <2>. QED BY <2>4, <2>5, <2>6, <2>7, <2>8
<1>3. ASSUME NEW c \in Chats, Notices!Stop(c) PROVE NoticesInv'
  <2>1. /\ chat' = Notices!NoChat
        /\ UNCHANGED <<order, drink, windowOpen, readyQueued, event, handler, ack, told, unlucky>>
    BY <1>3 DEF Notices!Stop, Notices!Unsubscribe, Notices!progress
  <2>2. NoticeTypes' /\ HandlersSound' /\ EventsTrue' /\ NothingEarly' /\ SeenFinished'
    BY <2>1
    DEF NoticeTypes, HandlersSound, EventsTrue, NothingEarly, Made, Chat, SeenFinished, Finished
  <2>3. ReadyPromised' /\ EndPromised' /\ StaffPromised'
    BY <2>1
    DEF ReadyPromised, EndPromised, StaffPromised, Awaited, Reached, Notices!Said
  <2>. QED BY <2>2, <2>3
<1>4. ASSUME NEW a \in ack, Notices!ReadForAck(a) PROVE NoticesInv'
  <2> DEFINE b == [a EXCEPT !.says = Notices!Confirmation]
  <2>1. /\ a.says = "unread" /\ ack' = (ack \ {a}) \cup {b}
        /\ UNCHANGED <<order, drink, windowOpen, chat, readyQueued, event, handler, told, unlucky>>
    BY <1>4 DEF Notices!ReadForAck, Notices!progress
  <2>2. a \in [to : Chats, says : Says]
    BY DEF NoticeTypes
  <2>3. /\ Notices!Confirmation \in Says
        /\ order = "ACCEPTED" => Notices!Confirmation = IF Notices!AllReady THEN "READY" ELSE "ACCEPTED"
        /\ Notices!Confirmation = "READY" => Notices!AllReady
    BY DEF Notices!Confirmation, Says, NoticeTypes, Notices!Status
  <2>4. b \in [to : Chats, says : Says] /\ b.to = a.to /\ b.says = Notices!Confirmation
    BY <2>2, <2>3
  <2> HIDE DEF b
  <2>5. NoticeTypes' /\ HandlersSound' /\ EventsTrue' /\ SeenFinished'
    BY <2>1, <2>4 DEF NoticeTypes, HandlersSound, EventsTrue, SeenFinished, Finished
  <2>6. Notices!AllReady => Made
    BY DEF Notices!AllReady, Made, Notices!Lines, Notices!Served
  <2>7. NothingEarly'
    BY <2>1, <2>3, <2>4, <2>6 DEF NothingEarly, Made
  <2>8. ASSUME ReadyComes(chat), order = "ACCEPTED", Notices!AllReady
        PROVE  ReadyComes(chat)'
    <3>1. CASE \E d \in ack : d.to = chat /\ d.says \in {"unread", "READY"}
      BY <2>1, <2>3, <2>4, <2>8, <3>1 DEF ReadyComes
    <3>2. CASE ~\E d \in ack : d.to = chat /\ d.says \in {"unread", "READY"}
      BY <2>1, <2>8, <3>2 DEF ReadyComes, Awaited, Notices!Said
    <3>. QED BY <3>1, <3>2
  <2>9. ReadyPromised'
    BY <2>1, <2>8 DEF ReadyPromised, Reached, Notices!AllReady, Notices!Announced, Notices!Remade
  <2>10. EndPromised' /\ StaffPromised'
    BY <2>1 DEF EndPromised, StaffPromised, Awaited, Reached, Notices!Said
  <2>. QED BY <2>5, <2>7, <2>9, <2>10
<1>5. ASSUME NEW a \in ack, NEW sent \in BOOLEAN, Notices!Acknowledge(a, sent)
      PROVE  NoticesInv'
  <2>1. /\ a.says # "unread" /\ ack' = ack \ {a}
        /\ \/ told' = told \cup {<<a.to, a.says>>} /\ unlucky' = unlucky
           \/ told' = told /\ unlucky' = unlucky \cup {a.to}
        /\ UNCHANGED <<order, drink, windowOpen, chat, readyQueued, event, handler>>
    BY <1>5 DEF Notices!Acknowledge, Notices!progress
  <2>2. a.to \in Chats /\ a.says \in Says
    BY DEF NoticeTypes
  <2>3. NoticeTypes' /\ HandlersSound' /\ EventsTrue' /\ SeenFinished'
    BY <2>1, <2>2 DEF NoticeTypes, HandlersSound, EventsTrue, SeenFinished, Finished
  <2>4. NothingEarly'
    BY <2>1, <2>2 DEF NothingEarly, Made
  <2>5. \A c, m : Notices!Said(c, m) => Notices!Said(c, m)'
    BY <2>1 DEF Notices!Said
  <2>6. ReadyComes(chat) => ReadyComes(chat)'
    BY <2>1, <2>5 DEF ReadyComes, Awaited, Notices!Said
  <2>7. ReadyPromised'
    BY <2>1, <2>6 DEF ReadyPromised, Reached, Notices!AllReady, Notices!Announced, Notices!Remade
  <2>8. EndPromised' /\ StaffPromised'
    BY <2>1, <2>5 DEF EndPromised, StaffPromised, Awaited, Reached
  <2>. QED BY <2>3, <2>4, <2>7, <2>8
<1>. QED BY <1>1, <1>2, <1>3, <1>4, <1>5

\* The handling of events.
LEMMA NoticesHandle ==
  ASSUME NoticesInv,
         \/ \E e \in event : Notices!Read(e)
         \/ \E h \in handler : \/ Notices!QueueReady(h) \/ Notices!Deferred(h)
                               \/ Notices!Blocked(h) \/ Notices!Rejected(h)
                               \/ \E repeat \in BOOLEAN : Notices!Delivered(h, repeat)
  PROVE  NoticesInv'
<1> USE DEF NoticesInv
<1>1. ASSUME NEW e \in event, Notices!Read(e), Notices!Relevant(e) PROVE NoticesInv'
  <2> DEFINE h == [of |-> e, to |-> Notices!Receiver(e), made |-> Notices!Remade]
  <2>1. /\ \A k \in handler : k.of # e
        /\ handler' = handler \cup {h}
        /\ UNCHANGED <<order, drink, windowOpen, chat, readyQueued, event, ack, told, unlucky>>
    BY <1>1 DEF Notices!Read, Notices!Handled, Notices!progress
  <2>2. /\ e \in Notices!Event
        /\ e # "STAFF" => chat \in Chats
        /\ e \in Notices!Lines => Notices!AllReady
    BY <1>1, ServicesConstants
    DEF Notices!Relevant, NoticeTypes, Notices!Event, Chat, Notices!NoChat, Notices!Lines
  <2>3. /\ h \in [of : Notices!Event, to : Chats \cup {Notices!StaffChat},
                  made : SUBSET Remakes]
        /\ h.of = e /\ h.to = IF e = "STAFF" THEN Notices!StaffChat ELSE chat
        /\ h.made = Notices!Remade
    BY <2>2 DEF Notices!Receiver, Notices!Remade
  <2> HIDE DEF h
  <2>4. NoticeTypes'
    BY <2>1, <2>3 DEF NoticeTypes
  <2>5. HandlersSound'
    BY <2>1, <2>2, <2>3 DEF HandlersSound
  <2>6. EventsTrue'
    BY <2>1 DEF EventsTrue, Finished
  <2>7. NothingEarly' /\ SeenFinished'
    <3>1. Notices!AllReady => Made /\ \A k \in Notices!Remade : Finished(k)
      BY DEF Notices!AllReady, Notices!Lines, Notices!Served, Notices!Remade, Made, Finished
    <3>. QED BY <2>1, <2>2, <2>3, <3>1 DEF NothingEarly, SeenFinished, Made, Finished
  <2>8. \A m, c : Notices!Said(c, m)' = Notices!Said(c, m)
    BY <2>1 DEF Notices!Said
  <2>9. \A m : m # "STAFF" /\ Awaited(m, chat) => Awaited(m, chat)'
    BY <2>1, <2>3 DEF Awaited
  <2>10. Awaited("STAFF", Notices!StaffChat) => Awaited("STAFF", Notices!StaffChat)'
    BY <2>1, <2>3 DEF Awaited
  <2>11. ReadyComes(chat) => ReadyComes(chat)'
    BY <2>1, <2>8, <2>9, ServicesConstants DEF ReadyComes, Notices!Lines
  <2>12. ReadyPromised' /\ EndPromised' /\ StaffPromised'
    BY <2>1, <2>8, <2>9, <2>10, <2>11
    DEF ReadyPromised, EndPromised, StaffPromised, Reached, Notices!AllReady,
        Notices!Announced, Notices!Remade
  <2>. QED BY <2>4, <2>5, <2>6, <2>7, <2>12
<1>2. ASSUME NEW e \in event, Notices!Read(e), ~Notices!Relevant(e) PROVE NoticesInv'
  <2>1. /\ \A k \in handler : k.of # e
        /\ event' = event \ {e}
        /\ UNCHANGED <<order, drink, windowOpen, chat, readyQueued, handler, ack, told, unlucky>>
    BY <1>2 DEF Notices!Read, Notices!Handled, Notices!progress
  <2>2. NoticeTypes' /\ HandlersSound' /\ EventsTrue' /\ NothingEarly' /\ SeenFinished'
    BY <2>1 DEF NoticeTypes, HandlersSound, EventsTrue, NothingEarly, Made, SeenFinished, Finished
  <2>3. \A m, c : Notices!Said(c, m)' = Notices!Said(c, m)
    BY <2>1 DEF Notices!Said
  <2>4. \A m, c : m # e /\ Awaited(m, c) => Awaited(m, c)'
    BY <2>1 DEF Awaited
  <2>5. StaffPromised'
    <3>1. order = "PENDING" => e # "STAFF"
      BY <1>2, ServicesConstants DEF Notices!Relevant, Notices!Lines
    <3>. QED BY <2>1, <2>3, <2>4, <3>1 DEF StaffPromised
  <2>6. EndPromised'
    <3>1. Reached /\ order \in {"REJECTED", "CANCELLED"} => e # order
      BY <1>2, ServicesConstants DEF Notices!Relevant, Notices!Lines, Reached
    <3>. QED BY <2>1, <2>3, <2>4, <3>1 DEF EndPromised, Reached
  <2>7. ASSUME Reached, order = "ACCEPTED", Notices!AllReady, ReadyComes(chat)
        PROVE  ReadyComes(chat)'
    <3>1. e # "READY"
      BY <1>2, <2>7, ServicesConstants DEF Notices!Relevant, Notices!Lines, Reached
    <3>2. readyQueued = {} => e \notin Notices!Lines
      BY <1>2, <2>7, ServicesConstants DEF Notices!Relevant, Reached, Notices!Lines
    <3>. QED BY <2>1, <2>3, <2>4, <2>7, <3>1, <3>2 DEF ReadyComes
  <2>8. ReadyPromised'
    BY <2>1, <2>7 DEF ReadyPromised, Reached, Notices!AllReady, Notices!Announced, Notices!Remade
  <2>. QED BY <2>2, <2>5, <2>6, <2>8
<1>3. ASSUME NEW h \in handler, Notices!QueueReady(h) PROVE NoticesInv'
  <2>1. /\ h.of \in Notices!Lines /\ handler' = handler \ {h}
        /\ UNCHANGED <<order, drink, windowOpen, chat, ack, told, unlucky>>
        /\ \/ /\ order = "ACCEPTED" /\ chat = h.to /\ readyQueued = {}
              /\ readyQueued' = {h.made} /\ event' = (event \ {h.of}) \cup {"READY"}
           \/ /\ ~(order = "ACCEPTED" /\ chat = h.to /\ readyQueued = {})
              /\ event' = event \ {h.of} /\ readyQueued' = readyQueued
    BY <1>3 DEF Notices!QueueReady, Notices!progress
  <2>2. h.of \notin {"STAFF", "ACCEPTED", "REJECTED", "CANCELLED", "READY"}
    BY <2>1, ServicesConstants DEF Notices!Lines
  <2>3. NoticeTypes'
    <3>1. h.made \in SUBSET Remakes
      BY DEF NoticeTypes
    <3>. QED BY <2>1, <3>1 DEF NoticeTypes, Notices!Event
  <2>4. HandlersSound'
    BY <2>1 DEF HandlersSound
  <2>5. EventsTrue'
    BY <2>1, ServicesConstants DEF EventsTrue, Finished, Notices!Lines
  <2>6. NothingEarly' /\ SeenFinished'
    BY <2>1 DEF NothingEarly, Made, SeenFinished, Finished
  <2>7. \A m, c : Notices!Said(c, m)' = Notices!Said(c, m)
    BY <2>1 DEF Notices!Said
  <2>8. \A m, c : m # h.of /\ Awaited(m, c) => Awaited(m, c)'
    BY <2>1 DEF Awaited
  <2>9. EndPromised' /\ StaffPromised'
    BY <2>1, <2>2, <2>7, <2>8 DEF EndPromised, StaffPromised, Reached
  <2>10. ASSUME order = "ACCEPTED", ReadyComes(chat)
         PROVE  ReadyComes(chat)'
    <3>1. CASE chat = h.to /\ readyQueued = {}
      <4>1. "READY" \notin event /\ \A k \in handler : k.of # "READY"
        BY <3>1 DEF EventsTrue, HandlersSound
      <4>2. Awaited("READY", chat)'
        BY <2>1, <2>10, <3>1, <4>1 DEF Awaited
      <4>. QED BY <4>2 DEF ReadyComes
    <3>2. CASE readyQueued # {}
      BY <2>1, <2>2, <2>7, <2>8, <2>10, <3>2 DEF ReadyComes
    <3>3. CASE chat # h.to /\ readyQueued = {}
      <4>1. ~Awaited(h.of, chat)
        BY <3>3 DEF Awaited
      <4>. QED BY <2>1, <2>2, <2>7, <2>8, <2>10, <3>3, <4>1 DEF ReadyComes
    <3>. QED BY <3>1, <3>2, <3>3
  <2>11. ReadyPromised'
    <3>1. Notices!Announced' => Notices!Announced
      BY <2>1 DEF Notices!Announced, Notices!Remade
    <3>. QED BY <2>1, <2>10, <3>1 DEF ReadyPromised, Reached, Notices!AllReady
  <2>. QED BY <2>3, <2>4, <2>5, <2>6, <2>9, <2>11
<1>4. ASSUME NEW h \in handler, Notices!Deferred(h) PROVE NoticesInv'
  <2>1. /\ handler' = handler \ {h}
        /\ UNCHANGED <<order, drink, windowOpen, chat, readyQueued, event, ack, told, unlucky>>
    BY <1>4 DEF Notices!Deferred, Notices!progress
  <2>2. NoticeTypes' /\ HandlersSound' /\ EventsTrue' /\ NothingEarly' /\ SeenFinished'
    BY <2>1 DEF NoticeTypes, HandlersSound, EventsTrue, NothingEarly, Made, SeenFinished, Finished
  <2>3. \A m, c : Awaited(m, c) => Awaited(m, c)'
    BY <2>1 DEF Awaited
  <2>4. \A m, c : Notices!Said(c, m)' = Notices!Said(c, m)
    BY <2>1 DEF Notices!Said
  <2>5. ReadyComes(chat) => ReadyComes(chat)'
    BY <2>1, <2>3, <2>4 DEF ReadyComes
  <2>6. ReadyPromised' /\ EndPromised' /\ StaffPromised'
    BY <2>1, <2>3, <2>4, <2>5
    DEF ReadyPromised, EndPromised, StaffPromised, Reached, Notices!AllReady,
        Notices!Announced, Notices!Remade
  <2>. QED BY <2>2, <2>6
<1>5. ASSUME NEW h \in handler, h.of \notin Notices!Lines, handler' = handler \ {h},
             UNCHANGED <<order, drink, windowOpen, readyQueued, ack>>,
             event' \in {event, event \ {h.of}},
             \/ /\ told' = told \cup {<<h.to, h.of>>} /\ UNCHANGED <<chat, unlucky>>
             \/ /\ told' = told /\ chat' = chat /\ unlucky' = unlucky \cup {h.to}
             \/ /\ told' = told /\ unlucky' = unlucky /\ h.of # "STAFF"
                /\ chat' = IF chat = h.to THEN Notices!NoChat ELSE chat
      PROVE  NoticesInv'
  <2>1. h.of \in Notices!Event /\ h.to \in Chats \cup {Notices!StaffChat}
    BY DEF NoticeTypes
  <2>2. NoticeTypes'
    BY <1>5, <2>1 DEF NoticeTypes, Chat
  <2>3. HandlersSound'
    BY <1>5 DEF HandlersSound
  <2>4. EventsTrue' /\ SeenFinished'
    BY <1>5 DEF EventsTrue, SeenFinished, Finished
  <2>5. NothingEarly'
    BY <1>5 DEF NothingEarly, Made, HandlersSound, EventsTrue
  <2>6. \A m, c : Notices!Said(c, m) => Notices!Said(c, m)'
    BY <1>5 DEF Notices!Said
  <2>7. \A m, c : m # h.of /\ Awaited(m, c) => Awaited(m, c)'
    BY <1>5 DEF Awaited
  <2>8. \A c : Awaited(h.of, c) => c = h.to
    BY DEF Awaited
  <2>9. chat' # Notices!NoChat =>
          /\ chat' = chat /\ chat # Notices!NoChat
          /\ chat = h.to => Notices!Said(chat, h.of)'
    BY <1>5 DEF Notices!Said
  <2>10. StaffPromised'
    <3>1. h.of = "STAFF" => h.to = Notices!StaffChat /\ Notices!Said(Notices!StaffChat, "STAFF")'
      BY <1>5 DEF HandlersSound, Notices!Said
    <3>. QED BY <1>5, <2>6, <2>7, <3>1 DEF StaffPromised
  <2>11. EndPromised'
    <3> SUFFICES ASSUME Reached', order \in {"REJECTED", "CANCELLED"}
                 PROVE  Notices!Said(chat, order)' \/ Awaited(order, chat)'
      BY <1>5 DEF EndPromised
    <3>1. /\ chat' = chat /\ Reached
          /\ chat = h.to => Notices!Said(chat, h.of)'
      BY <1>5, <2>9 DEF Reached
    <3>2. Notices!Said(chat, order) \/ Awaited(order, chat)
      BY <3>1 DEF EndPromised
    <3>3. CASE Notices!Said(chat, order)
      BY <1>5, <2>6, <3>1, <3>3
    <3>4. CASE Awaited(order, chat) /\ order # h.of
      BY <1>5, <2>7, <3>1, <3>4
    <3>5. CASE Awaited(order, chat) /\ order = h.of
      BY <1>5, <2>8, <3>1, <3>5
    <3>. QED BY <3>2, <3>3, <3>4, <3>5
  <2>12. ReadyPromised'
    <3> SUFFICES ASSUME Reached', order = "ACCEPTED", Notices!AllReady', Notices!Announced'
                 PROVE  ReadyComes(chat)'
      BY <1>5 DEF ReadyPromised
    <3>1. /\ chat' = chat /\ Reached /\ Notices!AllReady /\ Notices!Announced
          /\ chat = h.to => Notices!Said(chat, h.of)'
      BY <1>5, <2>9 DEF Reached, Notices!AllReady, Notices!Announced, Notices!Remade
    <3>2. ReadyComes(chat)
      BY <3>1 DEF ReadyPromised
    <3>3. CASE Notices!Said(chat, "READY")
      BY <2>6, <3>1, <3>3 DEF ReadyComes
    <3>4. CASE \E a \in ack : a.to = chat /\ a.says \in {"unread", "READY"}
      BY <1>5, <3>1, <3>4 DEF ReadyComes
    <3>5. CASE Awaited("READY", chat)
      BY <2>7, <2>8, <3>1, <3>5 DEF ReadyComes
    <3>6. CASE readyQueued = {} /\ \E d \in Notices!Lines : Awaited(d, chat)
      BY <1>5, <2>7, <3>1, <3>6 DEF ReadyComes
    <3>. QED BY <3>2, <3>3, <3>4, <3>5, <3>6 DEF ReadyComes
  <2>. QED BY <2>2, <2>3, <2>4, <2>5, <2>10, <2>11, <2>12
<1>6. ASSUME NEW h \in handler,
             \/ Notices!Blocked(h) \/ Notices!Rejected(h)
             \/ \E repeat \in BOOLEAN : Notices!Delivered(h, repeat)
      PROVE  NoticesInv'
  <2>1. h.of = "STAFF" => h.to = Notices!StaffChat
    BY DEF HandlersSound
  <2>2. /\ h.of \notin Notices!Lines /\ handler' = handler \ {h}
        /\ UNCHANGED <<order, drink, windowOpen, readyQueued, ack>>
        /\ event' \in {event, event \ {h.of}}
        /\ \/ /\ told' = told \cup {<<h.to, h.of>>} /\ UNCHANGED <<chat, unlucky>>
           \/ /\ told' = told /\ chat' = chat /\ unlucky' = unlucky \cup {h.to}
           \/ /\ told' = told /\ unlucky' = unlucky /\ h.of # "STAFF"
              /\ chat' = IF chat = h.to THEN Notices!NoChat ELSE chat
    BY <1>6, <2>1
    DEF Notices!Blocked, Notices!Rejected, Notices!Delivered, Notices!Notices, Notices!progress,
        Notices!Unsubscribe
  <2>. QED BY <1>5, <2>2
<1>. QED BY <1>1, <1>2, <1>3, <1>4, <1>6

\* A customer who linked a chat is told what the order's state owes him, in
\* whatever order the events come, whoever links, stops and links again, for
\* any number of drinks, remakes and chats; of a remake he is told unless READY
\* was queued before it, or one was handed over while it was prepared.
\* (queueReady, notifyReady, notifyStatus, notifyStaff, receiveWebhook.)
THEOREM CustomersAreTold == Spec => []CustomerIsTold
<1> DEFINE I == on = "notices" => NoticesInv
<1>1. Init => I
  BY NoticesStart DEF Init
<1>2. I /\ [Next]_vars => I'
  <2> SUFFICES ASSUME I, [Next]_vars, on' = "notices" PROVE NoticesInv'
    OBVIOUS
  <2>1. NoticesInv /\ (Notices!Next \/ UNCHANGED noticeVars)
    BY Turn
  <2>2. CASE Notices!Next
    BY <2>1, <2>2, NoticesOrder, NoticesLink, NoticesHandle DEF Notices!Next
  <2>3. ASSUME UNCHANGED noticeVars PROVE NoticesInv'
    BY <2>1, <2>3
    DEF noticeVars, NoticesInv, SeenFinished, Finished, NoticeTypes, HandlersSound, EventsTrue, NothingEarly, Made,
        ReadyPromised, EndPromised, StaffPromised, ReadyComes, Awaited, Reached,
        Notices!Said, Notices!AllReady, Notices!Announced, Notices!Remade
  <2>. QED BY <2>1, <2>2, <2>3
<1>3. I => CustomerIsTold
  BY NoticesTell DEF CustomerIsTold
<1>. QED BY <1>1, <1>2, <1>3, PTL DEF Spec

-----------------------------------------------------------------------------
(* Insights.  A worker that may ask the provider, or that asked and has    *)
(* still to take the claim back, is the only one for its insight, and the  *)
(* claim is on the row as long as that worker, or the doubt it died in,    *)
(* is there; nothing reopens a decided row, and every open one has an      *)
(* event, a job that can still run or a notice.                            *)

AtProvider(w) == work[w].at \in {"asking", "reset"}

AnalystRow(i) ==
  /\ insight[i].status = "NONE" => ~insight[i].started
  /\ insight[i].status # "NONE" => insight[i].period = admitted[i] /\ admitted[i] # None
  /\ insight[i].analysis = IF insight[i].status = "COMPLETED" THEN insight[i].snapshot
                           ELSE None

AnalystDoubt(i) ==
  i \in doubtful => /\ insight[i].started
                    /\ \A w \in Workers : AtProvider(w) => work[w].id # i

AnalystJob(i) ==
  /\ job[i].state # "none" => insight[i].status # "NONE"
  /\ insight[i].status \in Analyst!Open =>
       /\ job[i].state = "none" => i \in posted
       /\ job[i].state = "failed" => i \in notices \cup forgotten
       /\ job[i].state # "completed"
  /\ job[i].state \in {"waiting", "active"} => job[i].failures < Attempts
  /\ job[i].state # "active" => job[i].holder = None

AnalystWork(w) ==
  /\ work[w].at # "idle" => /\ work[w].id \in Insights
                            /\ insight[work[w].id].status # "NONE"
  /\ AtProvider(w) => insight[work[w].id].started
  /\ work[w].at = "return" => insight[work[w].id].status \notin Analyst!Open

\* The insights whose request was admitted.
Admitted == {i \in Insights : admitted[i] # None}

AnalystRequests ==
  /\ IsFiniteSet(Admitted) /\ Cardinality(Admitted) = admissions
  /\ \A c \in creating : admitted[c.id] = c.period

AnalystInv ==
  /\ Analyst!InsightTypeOK
  /\ \A i \in Insights : AnalystRow(i) /\ AnalystDoubt(i) /\ AnalystJob(i)
  /\ \A w \in Workers : AnalystWork(w)
  /\ \A v, w \in Workers :
       AtProvider(v) /\ AtProvider(w) /\ work[v].id = work[w].id => v = w
  /\ AnalystRequests

\* Nothing was asked.
LEMMA AnalystStart == Analyst!Init => AnalystInv
<1> SUFFICES ASSUME Analyst!Init PROVE AnalystInv
  OBVIOUS
<1>1. Analyst!InsightTypeOK
  BY ServicesConstants DEF Analyst!Init, Analyst!InsightTypeOK, Analyst!NoInsight,
     Analyst!NoJob, Analyst!Idle, Analyst!Open
<1>2. \A i \in Insights : AnalystRow(i) /\ AnalystDoubt(i) /\ AnalystJob(i)
  BY ServicesConstants
  DEF Analyst!Init, AnalystRow, AnalystDoubt, AnalystJob, Analyst!NoInsight,
     Analyst!NoJob, Analyst!Open
<1>3. \A w \in Workers : work[w].at = "idle"
  BY DEF Analyst!Init, Analyst!Idle
<1>4. AnalystRequests
  <2>1. Admitted = {}
    BY DEF Analyst!Init, Admitted
  <2>. QED BY <2>1, FS_EmptySet DEF Analyst!Init, AnalystRequests
<1>. QED BY <1>1, <1>2, <1>3, <1>4 DEF AnalystInv, AnalystWork, AtProvider

\* What the invariant says of the property.
LEMMA AnalystTrue == AnalystInv => Analyst!InsightsTrue
<1> SUFFICES ASSUME AnalystInv PROVE Analyst!InsightsTrue
  OBVIOUS
<1>1. ASSUME NEW i \in Insights PROVE Cardinality(Analyst!Asking(i)) <= 1
  <2>1. CASE Analyst!Asking(i) = {}
    BY <2>1, FS_EmptySet
  <2>2. CASE Analyst!Asking(i) # {}
    <3>1. PICK w \in Workers : w \in Analyst!Asking(i)
      BY <2>2 DEF Analyst!Asking
    <3>2. \A v \in Analyst!Asking(i) : v = w
      BY <3>1 DEF AnalystInv, AtProvider, Analyst!Asking, Analyst!Works
    <3>3. Analyst!Asking(i) = {w}
      BY <3>1, <3>2
    <3>4. Cardinality({w}) = 1
      BY FS_Singleton
    <3>. QED BY <3>3, <3>4
  <2>. QED BY <2>1, <2>2
<1>2. \A i \in doubtful : Analyst!Asking(i) = {}
  BY DEF AnalystInv, AnalystDoubt, AtProvider, Analyst!Asking, Analyst!Works,
     Analyst!InsightTypeOK
<1>3. \A i \in Insights : insight[i].status \in Analyst!Open =>
        \/ i \in posted \cup notices \cup forgotten
        \/ job[i].state \in {"waiting", "active"}
  BY DEF AnalystInv, AnalystJob, Analyst!InsightTypeOK
<1>4. Cardinality(Analyst!Recorded) <= admissions
  <2>1. Analyst!Recorded \subseteq Admitted
    BY DEF AnalystInv, AnalystRow, Analyst!Recorded, Admitted
  <2>2. IsFiniteSet(Admitted) /\ Cardinality(Admitted) = admissions
    BY DEF AnalystInv, AnalystRequests
  <2>3. Cardinality(Analyst!Recorded) <= Cardinality(Admitted)
    BY <2>1, <2>2, FS_Subset
  <2>. QED BY <2>2, <2>3
<1>5. Analyst!InsightTypeOK
  BY DEF AnalystInv
<1>6. \A i \in Analyst!Recorded : insight[i].period = admitted[i]
  BY DEF AnalystInv, AnalystRow, Analyst!Recorded
<1>7. \A i \in Insights :
        insight[i].analysis = IF insight[i].status = "COMPLETED" THEN insight[i].snapshot
                              ELSE None
  BY DEF AnalystInv, AnalystRow
<1>8. \A S : Analyst!Cardinality(S) = Cardinality(S)
  BY Zenon DEF Analyst!Cardinality, Cardinality
<1>. QED BY <1>1, <1>2, <1>3, <1>4, <1>5, <1>6, <1>7, <1>8, Zenon DEF Analyst!InsightsTrue

\* A row that was decided stays, and none is reopened or taken back.
AnalystKept(i) ==
  \/ insight'[i] = insight[i]
  \/ /\ insight[i].status # "NONE" /\ insight'[i].status # "NONE"
     /\ insight'[i].status \in Analyst!Open => insight[i].status \in Analyst!Open
     /\ insight'[i].period = insight[i].period
     /\ insight'[i].analysis = IF insight'[i].status = "COMPLETED"
                               THEN insight'[i].snapshot ELSE None

\* Steps after which no other worker may ask the provider.
LEMMA AnalystQuiet ==
  ASSUME AnalystInv, Analyst!InsightTypeOK', UNCHANGED <<admitted, admissions, creating>>,
         \A i \in Insights :
           /\ AnalystKept(i)
           /\ \/ insight'[i].started = insight[i].started
              \/ /\ insight[i].status # "NONE" /\ i \notin doubtful'
                 /\ \A w \in Workers : AtProvider(w)' => work'[w].id # i
           /\ i \in doubtful' =>
                \/ i \in doubtful
                \/ \E w \in Workers : AtProvider(w) /\ work[w].id = i /\ ~AtProvider(w)'
           /\ \/ AnalystJob(i)'
              \/ /\ job'[i] = job[i]
                 /\ i \in posted => i \in posted'
                 /\ i \in notices \cup forgotten => i \in notices' \cup forgotten',
         \A w \in Workers :
           \/ work'[w] = work[w]
           \/ /\ work'[w].at # "idle" => /\ work'[w].id \in Insights
                                         /\ insight[work'[w].id].status # "NONE"
              /\ AtProvider(w)' => AtProvider(w) /\ work'[w].id = work[w].id
              /\ work'[w].at = "return" => insight'[work'[w].id].status \notin Analyst!Open
  PROVE  AnalystInv'
<1>1. \A w \in Workers : AtProvider(w)' => AtProvider(w) /\ work'[w].id = work[w].id
  BY DEF AtProvider
<1>2. \A v, w \in Workers :
        AtProvider(v)' /\ AtProvider(w)' /\ work'[v].id = work'[w].id => v = w
  BY <1>1 DEF AnalystInv
<1>3. ASSUME NEW i \in Insights PROVE AnalystRow(i)' /\ AnalystJob(i)'
  <2>1. AnalystRow(i)'
    BY DEF AnalystInv, AnalystRow, AnalystKept
  <2>2. AnalystJob(i)'
    BY DEF AnalystInv, AnalystJob, AnalystKept
  <2>. QED BY <2>1, <2>2
<1>4. ASSUME NEW w \in Workers PROVE AnalystWork(w)'
  <2>1. work'[w].at # "idle" => /\ work'[w].id \in Insights
                                /\ insight'[work'[w].id].status # "NONE"
    BY DEF AnalystInv, AnalystWork, AnalystKept
  <2>2. AtProvider(w)' => insight'[work'[w].id].started
    <3> SUFFICES ASSUME AtProvider(w)' PROVE insight'[work'[w].id].started
      OBVIOUS
    <3>1. work'[w].id \in Insights /\ insight[work'[w].id].started
      BY <1>1, <2>1 DEF AnalystInv, AnalystWork, AtProvider
    <3>. QED BY <3>1
  <2>3. work'[w].at = "return" => insight'[work'[w].id].status \notin Analyst!Open
    BY DEF AnalystInv, AnalystWork, AnalystKept
  <2>. QED BY <2>1, <2>2, <2>3 DEF AnalystWork
<1>5. ASSUME NEW i \in Insights PROVE AnalystDoubt(i)'
  <2> SUFFICES ASSUME i \in doubtful' PROVE AnalystDoubt(i)'
    BY DEF AnalystDoubt
  <2>1. insight'[i].started = insight[i].started
    OBVIOUS
  <2>2. CASE i \in doubtful
    BY <1>1, <2>1, <2>2 DEF AnalystInv, AnalystDoubt
  <2>3. CASE i \notin doubtful
    <3>1. PICK w \in Workers : AtProvider(w) /\ work[w].id = i /\ ~AtProvider(w)'
      BY <2>3
    <3>2. insight[i].started
      BY <3>1 DEF AnalystInv, AnalystWork
    <3>3. \A v \in Workers : AtProvider(v)' => work'[v].id # i
      BY <1>1, <3>1 DEF AnalystInv
    <3>. QED BY <2>1, <3>2, <3>3 DEF AnalystDoubt
  <2>. QED BY <2>2, <2>3
<1>6. AnalystRequests'
  BY DEF AnalystInv, AnalystRequests, Admitted
<1>. QED BY <1>2, <1>3, <1>4, <1>5, <1>6 DEF AnalystInv

AnalystRows ==
  [status : Analyst!Open \cup {"NONE", "COMPLETED", "FAILED"}, period : Periods \cup {None},
   snapshot : Figures \cup {None}, analysis : Figures \cup {None}, started : BOOLEAN]
AnalystJobs ==
  [state : {"none", "waiting", "active", "completed", "failed"},
   holder : Workers \cup {None}, snapshot : Figures \cup {None},
   failures : 0..Attempts, stalled : BOOLEAN]
AnalystTasks ==
  [at : {"idle", "reading", "captured", "budget", "begin", "asking", "reset",
         "complete", "catch", "return", "throw"},
   id : Insights \cup {None}, snapshot : Figures \cup {None},
   failures : 0..Attempts, final : BOOLEAN]

\* The types, by these names.
LEMMA AnalystTypes ==
  ASSUME Analyst!InsightTypeOK
  PROVE  /\ insight \in [Insights -> AnalystRows] /\ job \in [Insights -> AnalystJobs]
         /\ work \in [Workers -> AnalystTasks]
         /\ None \notin Workers \cup Periods /\ Attempts \in Nat \ {0} /\ DailyLimit \in Nat
  BY ServicesConstants DEF Analyst!InsightTypeOK, AnalystRows, AnalystJobs, AnalystTasks

\* The job that dispatch adds.
LEMMA AnalystNewJob ==
  ASSUME Analyst!InsightTypeOK, NEW f \in Figures \cup {None}
  PROVE  LET j == [Analyst!NoJob EXCEPT !.state = "waiting", !.snapshot = f]
         IN  /\ j \in AnalystJobs /\ j.state = "waiting"
             /\ j.failures < Attempts /\ j.holder = None
<1>1. Attempts \in Nat /\ 0 < Attempts
  BY AnalystTypes
<1>2. Analyst!NoJob \in AnalystJobs /\ Analyst!NoJob.failures = 0 /\ Analyst!NoJob.holder = None
  BY <1>1 DEF Analyst!NoJob, AnalystJobs
<1>. QED BY <1>1, <1>2 DEF AnalystJobs

\* A worker goes on with its insight, or leaves it, and may write its row.
LEMMA AnalystTask ==
  ASSUME AnalystInv, NEW w \in Workers, work[w].at # "idle",
         NEW k \in AnalystTasks, work' = [work EXCEPT ![w] = k],
         NEW r \in AnalystRows, insight' = [insight EXCEPT ![work[w].id] = r],
         UNCHANGED <<job, Analyst!askedFor, notices, forgotten>>, calls' \in 0..DailyLimit,
         k.at # "idle" => k.id = work[w].id,
         k.at \in {"asking", "reset"} => AtProvider(w),
         k.at = "return" => r.status \notin Analyst!Open,
         r.status # "NONE", r.period = insight[work[w].id].period,
         r.status \in Analyst!Open => insight[work[w].id].status \in Analyst!Open,
         r.analysis = IF r.status = "COMPLETED" THEN r.snapshot ELSE None,
         \/ r.started = insight[work[w].id].started /\ doubtful' = doubtful
         \/ AtProvider(w) /\ k.at \notin {"asking", "reset"} /\ doubtful' = doubtful
         \/ AtProvider(w) /\ k.at \notin {"asking", "reset"}
            /\ r.started = insight[work[w].id].started
            /\ doubtful' = doubtful \cup {work[w].id}
  PROVE  AnalystInv'
<1> DEFINE i == work[w].id
<1>1. /\ i \in Insights /\ insight[i].status # "NONE"
  BY DEF AnalystInv, AnalystWork
<1>2. /\ insight'[i] = r /\ \A n \in Insights \ {i} : insight'[n] = insight[n]
      /\ work'[w] = k /\ \A v \in Workers \ {w} : work'[v] = work[v]
      /\ insight' \in [Insights -> AnalystRows] /\ work' \in [Workers -> AnalystTasks]
  BY <1>1, AnalystTypes DEF AnalystInv
<1>3. Analyst!InsightTypeOK'
  BY <1>1, <1>2 DEF AnalystInv, Analyst!InsightTypeOK, AnalystRows, AnalystTasks,
     Analyst!askedFor
<1>4. AtProvider(w)' <=> k.at \in {"asking", "reset"}
  BY <1>2 DEF AtProvider
<1>5. AtProvider(w) => /\ \A v \in Workers \ {w} : AtProvider(v) => work[v].id # i
                       /\ i \notin doubtful
  BY <1>1 DEF AnalystInv, AnalystDoubt
<1>6. ASSUME NEW n \in Insights
      PROVE  /\ AnalystKept(n)
             /\ \/ insight'[n].started = insight[n].started
                \/ /\ insight[n].status # "NONE" /\ n \notin doubtful'
                   /\ \A v \in Workers : AtProvider(v)' => work'[v].id # n
             /\ n \in doubtful' =>
                  \/ n \in doubtful
                  \/ \E v \in Workers : AtProvider(v) /\ work[v].id = n /\ ~AtProvider(v)'
             /\ job'[n] = job[n] /\ (n \in posted => n \in posted')
             /\ n \in notices \cup forgotten => n \in notices' \cup forgotten'
  <2>1. AnalystKept(n)
    BY <1>1, <1>2 DEF AnalystKept
  <2>2. \/ insight'[n].started = insight[n].started
        \/ /\ insight[n].status # "NONE" /\ n \notin doubtful'
           /\ \A v \in Workers : AtProvider(v)' => work'[v].id # n
    BY <1>1, <1>2, <1>4, <1>5 DEF AtProvider
  <2>. QED BY <1>4, <2>1, <2>2 DEF Analyst!askedFor
<1>7. ASSUME NEW v \in Workers
      PROVE  \/ work'[v] = work[v]
             \/ /\ work'[v].at # "idle" => /\ work'[v].id \in Insights
                                           /\ insight[work'[v].id].status # "NONE"
                /\ AtProvider(v)' => AtProvider(v) /\ work'[v].id = work[v].id
                /\ work'[v].at = "return" => insight'[work'[v].id].status \notin Analyst!Open
  BY <1>1, <1>2, <1>4 DEF AtProvider
<1>. QED BY <1>3, <1>6, <1>7, AnalystQuiet, Zenon DEF Analyst!askedFor

\* A job changes, and perhaps a worker that does not go to the provider.
LEMMA AnalystQueue ==
  ASSUME AnalystInv, NEW i \in Insights, NEW j \in AnalystJobs,
         job' = [job EXCEPT ![i] = j],
         UNCHANGED <<insight, calls, admitted, admissions, creating, forgotten, doubtful>>,
         posted' \subseteq posted, \A n \in Insights \ {i} : n \in posted => n \in posted',
         notices' \subseteq Insights, notices \subseteq notices',
         work' \in [Workers -> AnalystTasks],
         \A w \in Workers :
           \/ work'[w] = work[w]
           \/ /\ work'[w].at # "idle" => /\ work'[w].id \in Insights
                                         /\ insight[work'[w].id].status # "NONE"
              /\ work'[w].at \notin {"asking", "reset"}
              /\ work'[w].at = "return" => insight[work'[w].id].status \notin Analyst!Open,
         j.state # "none" => insight[i].status # "NONE",
         insight[i].status \in Analyst!Open =>
           /\ j.state = "none" => i \in posted'
           /\ j.state = "failed" => i \in notices' \cup forgotten'
           /\ j.state # "completed",
         j.state \in {"waiting", "active"} => j.failures < Attempts,
         j.state # "active" => j.holder = None
  PROVE  AnalystInv'
<1>1. /\ job'[i] = j /\ \A n \in Insights \ {i} : job'[n] = job[n]
      /\ job' \in [Insights -> AnalystJobs]
  BY AnalystTypes DEF AnalystInv
<1>2. Analyst!InsightTypeOK'
  BY <1>1 DEF AnalystInv, Analyst!InsightTypeOK, AnalystJobs, AnalystTasks
<1>3. AnalystJob(i)'
  BY <1>1 DEF AnalystJob
<1>4. \A w \in Workers :
        \/ work'[w] = work[w]
        \/ /\ work'[w].at # "idle" => /\ work'[w].id \in Insights
                                      /\ insight[work'[w].id].status # "NONE"
           /\ AtProvider(w)' => AtProvider(w) /\ work'[w].id = work[w].id
           /\ work'[w].at = "return" => insight'[work'[w].id].status \notin Analyst!Open
  BY DEF AtProvider
<1>. QED BY <1>1, <1>2, <1>3, <1>4, AnalystQuiet DEF AnalystKept

\* A worker goes on without writing the row.
LEMMA AnalystThinks ==
  ASSUME AnalystInv, NEW w \in Workers, work[w].at # "idle",
         NEW k \in AnalystTasks, work' = [work EXCEPT ![w] = k],
         UNCHANGED <<insight, job, Analyst!askedFor, notices, forgotten>>, calls' \in 0..DailyLimit,
         k.at \notin {"asking", "reset", "return"} \/ (k.at = "reset" /\ AtProvider(w)),
         k.at # "idle" => k.id = work[w].id,
         \/ doubtful' = doubtful
         \/ /\ AtProvider(w) /\ k.at = "idle"
            /\ doubtful' = doubtful \cup {work[w].id}
  PROVE  AnalystInv'
<1> DEFINE r == insight[work[w].id]
<1>1. /\ work[w].id \in Insights /\ r.status # "NONE" /\ r \in AnalystRows
      /\ r.analysis = IF r.status = "COMPLETED" THEN r.snapshot ELSE None
  BY AnalystTypes DEF AnalystInv, AnalystWork, AnalystRow
<1>2. insight' = [insight EXCEPT ![work[w].id] = r]
  BY AnalystTypes DEF AnalystInv
<1> HIDE DEF r
<1>3. r.started = insight[work[w].id].started /\ r.period = insight[work[w].id].period
      /\ r.status = insight[work[w].id].status
  BY DEF r
<1>. QED BY <1>1, <1>2, <1>3, AnalystTask

\* A worker calls the database, Redis or the provider.
LEMMA AnalystCalls ==
  ASSUME AnalystInv, NEW w \in Workers,
         \/ \E outcome \in {"answer", "unavailable", "rejected"} : Analyst!Generate(w, outcome)
         \/ Analyst!CallBudget(w) \/ Analyst!StepFails(w) \/ Analyst!Crash(w)
  PROVE  AnalystInv'
<1>1. work[w] \in AnalystTasks /\ calls \in 0..DailyLimit /\ DailyLimit \in Nat
  BY AnalystTypes DEF AnalystInv, Analyst!InsightTypeOK
<1>2. \A at \in {"begin", "throw", "complete", "reset"}, final \in BOOLEAN :
        /\ [work[w] EXCEPT !.at = at] \in AnalystTasks
        /\ [work[w] EXCEPT !.at = at, !.final = final] \in AnalystTasks
        /\ [work[w] EXCEPT !.at = "catch", !.final = final] \in AnalystTasks
  BY <1>1 DEF AnalystTasks
<1>3. ASSUME NEW outcome, Analyst!Generate(w, outcome) PROVE AnalystInv'
  <2> DEFINE k == [work[w] EXCEPT !.at = IF outcome = "answer" THEN "complete" ELSE "reset",
                                  !.final = outcome = "rejected"]
  <2>1. k \in AnalystTasks
    BY <1>2
  <2>2. /\ work[w].at = "asking" /\ work' = [work EXCEPT ![w] = k]
        /\ UNCHANGED <<insight, calls, job, Analyst!askedFor, notices, forgotten, doubtful>>
    BY <1>3 DEF Analyst!Generate, Analyst!Works, Analyst!faults
  <2>3. k.at \in {"complete", "reset"} /\ k.id = work[w].id
    BY <1>1 DEF AnalystTasks
  <2> HIDE DEF k
  <2>. QED BY <1>1, <2>1, <2>2, <2>3, AnalystThinks DEF AtProvider
<1>4. CASE Analyst!CallBudget(w)
  <2> DEFINE k == IF calls < DailyLimit THEN [work[w] EXCEPT !.at = "begin"]
                  ELSE [work[w] EXCEPT !.at = "catch", !.final = TRUE]
  <2>1. k \in AnalystTasks
    BY <1>2
  <2>2. /\ work[w].at = "budget" /\ work' = [work EXCEPT ![w] = k]
        /\ UNCHANGED <<insight, job, Analyst!askedFor, notices, forgotten, doubtful>>
        /\ calls' \in 0..DailyLimit
    <3>1. CASE calls < DailyLimit
      BY <1>1, <1>4, <3>1 DEF Analyst!CallBudget, Analyst!Works, Analyst!faults,
         Analyst!Step
    <3>2. CASE ~(calls < DailyLimit)
      BY <1>1, <1>4, <3>2 DEF Analyst!CallBudget, Analyst!Works, Analyst!faults,
         Analyst!Throws
    <3>. QED BY <3>1, <3>2
  <2>3. k.at \in {"begin", "catch"} /\ k.id = work[w].id
    BY <1>1 DEF AnalystTasks
  <2> HIDE DEF k
  <2>. QED BY <2>1, <2>2, <2>3, AnalystThinks DEF AtProvider
<1>5. CASE Analyst!StepFails(w)
  <2> DEFINE k == IF work[w].at = "catch" THEN [work[w] EXCEPT !.at = "throw"]
                  ELSE [work[w] EXCEPT !.at = "catch", !.final = FALSE]
  <2>1. k \in AnalystTasks
    BY <1>2
  <2>2. /\ work[w].at # "idle" /\ work' = [work EXCEPT ![w] = k]
        /\ UNCHANGED <<insight, calls, job, Analyst!askedFor, notices, forgotten, doubtful>>
    BY <1>5 DEF Analyst!StepFails, Analyst!Works, Analyst!faults, Analyst!Step,
       Analyst!Throws
  <2>3. k.at \in {"throw", "catch"} /\ k.id = work[w].id
    BY <1>1 DEF AnalystTasks
  <2> HIDE DEF k
  <2>. QED BY <1>1, <2>1, <2>2, <2>3, AnalystThinks DEF AtProvider
<1>6. CASE Analyst!Crash(w)
  <2>1. Analyst!Idle \in AnalystTasks /\ Analyst!Idle.at = "idle"
    BY <1>1, AnalystTypes DEF AnalystInv, Analyst!Idle, AnalystTasks
  <2>2. /\ work[w].at # "idle" /\ work' = [work EXCEPT ![w] = Analyst!Idle]
        /\ UNCHANGED <<insight, calls, job, Analyst!askedFor, notices, forgotten>>
        /\ \/ doubtful' = doubtful
           \/ AtProvider(w) /\ doubtful' = doubtful \cup {work[w].id}
    BY <1>6 DEF Analyst!Crash, Analyst!Works, AtProvider
  <2>. QED BY <1>1, <2>1, <2>2, AnalystThinks DEF AtProvider
<1>. QED BY <1>3, <1>4, <1>5, <1>6

\* A worker writes the row of its insight.
LEMMA AnalystWrites ==
  ASSUME AnalystInv, NEW w \in Workers,
         Analyst!Start(w) \/ Analyst!ResetProvider(w) \/ Analyst!Complete(w) \/ Analyst!Catch(w)
  PROVE  AnalystInv'
<1> DEFINE i == work[w].id
           o == insight[i]
<1>1. /\ work[w] \in AnalystTasks /\ work[w].at # "idle" /\ i \in Insights
      /\ o \in AnalystRows /\ o.status # "NONE" /\ calls \in 0..DailyLimit
      /\ o.analysis = IF o.status = "COMPLETED" THEN o.snapshot ELSE None
  <2>1. work[w] \in AnalystTasks /\ work[w].at # "idle"
    BY AnalystTypes DEF AnalystInv, Analyst!Start, Analyst!ResetProvider,
       Analyst!Complete, Analyst!Catch, Analyst!Works
  <2>. QED BY <2>1, AnalystTypes DEF AnalystInv, AnalystWork, AnalystRow,
     Analyst!InsightTypeOK
<1>2. \A at \in {"complete", "budget", "catch", "return", "throw"} :
        LET k == [work[w] EXCEPT !.at = at]
        IN  k \in AnalystTasks /\ k.at = at /\ k.id = i
  BY <1>1 DEF AnalystTasks
<1>3. \A s \in {"PROCESSING", "COMPLETED", "FAILED", "QUEUED"}, f \in Figures \cup {None} :
        /\ [o EXCEPT !.status = s] \in AnalystRows
        /\ [o EXCEPT !.status = s, !.snapshot = f] \in AnalystRows
        /\ [o EXCEPT !.status = s, !.snapshot = f, !.analysis = f] \in AnalystRows
  BY <1>1 DEF AnalystRows, Analyst!Open
<1>4. work[w].snapshot \in Figures \cup {None}
  BY <1>1 DEF AnalystTasks
<1>5. CASE Analyst!Start(w)
  <2> DEFINE k == [work[w] EXCEPT !.at = IF work[w].snapshot = Empty THEN "complete"
                                         ELSE "budget"]
             r == IF o.status \in Analyst!Open
                  THEN [o EXCEPT !.status = "PROCESSING", !.snapshot = work[w].snapshot]
                  ELSE o
  <2>1. /\ k \in AnalystTasks /\ k.at \in {"complete", "budget"} /\ k.id = i
    BY <1>2
  <2>2. r \in AnalystRows
    BY <1>1, <1>3, <1>4
  <2>3. /\ r.status # "NONE" /\ r.period = o.period /\ r.started = o.started
        /\ r.status \in Analyst!Open => o.status \in Analyst!Open
        /\ r.analysis = IF r.status = "COMPLETED" THEN r.snapshot ELSE None
    BY <1>1 DEF AnalystRows, Analyst!Open
  <2>4. /\ work' = [work EXCEPT ![w] = k] /\ insight' = [insight EXCEPT ![i] = r]
        /\ UNCHANGED <<calls, job, Analyst!askedFor, notices, forgotten, doubtful>>
    BY <1>1, <1>5 DEF Analyst!Start, Analyst!Started, Analyst!Step, Analyst!faults
  <2> HIDE DEF k, r
  <2>. QED BY <1>1, <2>1, <2>2, <2>3, <2>4, AnalystTask
<1>6. CASE Analyst!Complete(w)
  <2> DEFINE k == [work[w] EXCEPT !.at = "return"]
             r == IF o.status \in Analyst!Open
                  THEN [o EXCEPT !.status = "COMPLETED", !.snapshot = work[w].snapshot,
                                 !.analysis = work[w].snapshot]
                  ELSE o
  <2>1. /\ k \in AnalystTasks /\ k.at = "return" /\ k.id = i
    BY <1>2
  <2>2. r \in AnalystRows
    BY <1>1, <1>3, <1>4
  <2>3. /\ r.status # "NONE" /\ r.period = o.period /\ r.started = o.started
        /\ r.status \notin Analyst!Open
        /\ r.analysis = IF r.status = "COMPLETED" THEN r.snapshot ELSE None
    BY <1>1 DEF AnalystRows, Analyst!Open
  <2>4. /\ work' = [work EXCEPT ![w] = k] /\ insight' = [insight EXCEPT ![i] = r]
        /\ UNCHANGED <<calls, job, Analyst!askedFor, notices, forgotten, doubtful>>
    BY <1>1, <1>6 DEF Analyst!Complete, Analyst!Completed, Analyst!Step, Analyst!faults
  <2> HIDE DEF k, r
  <2>. QED BY <1>1, <2>1, <2>2, <2>3, <2>4, AnalystTask
<1>7. CASE Analyst!Catch(w)
  <2> DEFINE k == [work[w] EXCEPT !.at = "throw"]
             terminal == work[w].final \/ work[w].failures + 1 >= Attempts
             r == [o EXCEPT !.status = IF @ \notin Analyst!Open THEN @
                                       ELSE IF terminal THEN "FAILED" ELSE "QUEUED"]
  <2>1. /\ k \in AnalystTasks /\ k.at = "throw" /\ k.id = i
    BY <1>2
  <2>2. r \in AnalystRows /\ r.period = o.period /\ r.started = o.started
        /\ r.analysis = o.analysis /\ r.snapshot = o.snapshot
    BY <1>1 DEF AnalystRows, Analyst!Open
  <2>3. /\ r.status # "NONE" /\ (r.status \in Analyst!Open => o.status \in Analyst!Open)
        /\ r.status = "COMPLETED" <=> o.status = "COMPLETED"
    BY <1>1 DEF AnalystRows, Analyst!Open
  <2>4. /\ work' = [work EXCEPT ![w] = k] /\ insight' = [insight EXCEPT ![i] = r]
        /\ UNCHANGED <<calls, job, Analyst!askedFor, notices, forgotten, doubtful>>
    BY <1>1, <1>7 DEF Analyst!Catch, Analyst!Failed, Analyst!Step, Analyst!faults
  <2> HIDE DEF k, r
  <2>. QED BY <1>1, <2>1, <2>2, <2>3, <2>4, AnalystTask
<1>8. CASE Analyst!ResetProvider(w)
  <2> DEFINE k == [work[w] EXCEPT !.at = "catch"]
             r == [o EXCEPT !.started = @ /\ o.status # "PROCESSING"]
  <2>1. /\ k \in AnalystTasks /\ k.at = "catch" /\ k.id = i
    BY <1>2
  <2>2. r \in AnalystRows /\ r.period = o.period /\ r.status = o.status
        /\ r.analysis = o.analysis /\ r.snapshot = o.snapshot
    BY <1>1 DEF AnalystRows
  <2>3. /\ work' = [work EXCEPT ![w] = k] /\ insight' = [insight EXCEPT ![i] = r]
        /\ UNCHANGED <<calls, job, Analyst!askedFor, notices, forgotten, doubtful>>
        /\ AtProvider(w)
    BY <1>1, <1>8 DEF Analyst!ResetProvider, Analyst!Step, Analyst!faults, Analyst!Works,
       AtProvider
  <2> HIDE DEF k, r
  <2>. QED BY <1>1, <2>1, <2>2, <2>3, AnalystTask DEF AtProvider
<1>. QED BY <1>5, <1>6, <1>7, <1>8

\* BullMQ hands a job out and takes it back.
LEMMA AnalystHands ==
  ASSUME AnalystInv, NEW w \in Workers,
         \/ \E i \in Insights, read \in BOOLEAN : Analyst!TakeJob(w, i, read)
         \/ \E figures \in Figures : Analyst!Capture(w, figures)
         \/ Analyst!JobCompletes(w) \/ Analyst!JobFails(w)
  PROVE  AnalystInv'
<1>1. /\ job \in [Insights -> AnalystJobs] /\ work \in [Workers -> AnalystTasks]
      /\ work[w] \in AnalystTasks /\ w # None /\ Attempts \in Nat
      /\ notices \subseteq Insights
  BY AnalystTypes DEF AnalystInv, Analyst!InsightTypeOK
<1>2. Analyst!Idle \in AnalystTasks /\ Analyst!Idle.at = "idle"
  BY AnalystTypes DEF AnalystInv, Analyst!Idle, AnalystTasks
<1>3. work[w].at # "idle" => /\ work[w].id \in Insights
                             /\ insight[work[w].id].status # "NONE"
                             /\ job[work[w].id] \in AnalystJobs
                             /\ AnalystJob(work[w].id)
                             /\ work[w].at = "return" => insight[work[w].id].status \notin Analyst!Open
  BY <1>1 DEF AnalystInv, AnalystWork
<1>4. ASSUME NEW i \in Insights, NEW read \in BOOLEAN, Analyst!TakeJob(w, i, read)
      PROVE  AnalystInv'
  <2> DEFINE row == insight[i]
             snapshot == IF row.snapshot # None THEN row.snapshot ELSE job[i].snapshot
             at == IF ~read THEN "throw"
                   ELSE IF row.status = "COMPLETED" THEN "return"
                   ELSE IF row.status = "FAILED" THEN "throw"
                   ELSE IF row.started THEN "catch"
                   ELSE IF snapshot = None THEN "reading" ELSE "captured"
             j == [job[i] EXCEPT !.state = "active", !.holder = w]
             k == [at |-> at, id |-> i, snapshot |-> snapshot, failures |-> job[i].failures,
                   final |-> read /\ at \in {"catch", "throw"}]
  <2>1. /\ job[i] \in AnalystJobs /\ row \in AnalystRows /\ job[i].state = "waiting"
        /\ AnalystJob(i)
    BY <1>4, AnalystTypes DEF AnalystInv, Analyst!TakeJob
  <2>2. j \in AnalystJobs /\ j.state = "active" /\ j.failures < Attempts
    BY <2>1 DEF AnalystJobs, AnalystJob
  <2>3. at \in {"throw", "return", "catch", "reading", "captured"}
        /\ (at = "return" => row.status = "COMPLETED")
    OBVIOUS
  <2>4. k \in AnalystTasks /\ k.at = at /\ k.id = i
    BY <2>1, <2>3 DEF AnalystTasks, AnalystJobs, AnalystRows
  <2>5. /\ job' = [job EXCEPT ![i] = j] /\ work' = [work EXCEPT ![w] = k]
        /\ UNCHANGED <<insight, calls, Analyst!askedFor, Analyst!faults>>
    BY <1>1, <1>4 DEF Analyst!TakeJob
  <2>6. row.status # "NONE"
    BY <2>1 DEF AnalystJob
  <2> HIDE DEF at, j, k
  <2>7. /\ work' \in [Workers -> AnalystTasks] /\ work'[w] = k
        /\ \A v \in Workers \ {w} : work'[v] = work[v]
    BY <1>1, <2>4, <2>5
  <2>8. \A v \in Workers :
           \/ work'[v] = work[v]
           \/ /\ work'[v].at # "idle" => /\ work'[v].id \in Insights
                                         /\ insight[work'[v].id].status # "NONE"
              /\ work'[v].at \notin {"asking", "reset"}
              /\ work'[v].at = "return" => insight[work'[v].id].status \notin Analyst!Open
    BY <2>3, <2>4, <2>6, <2>7 DEF Analyst!Open
  <2>. QED BY <1>1, <2>2, <2>5, <2>6, <2>7, <2>8, AnalystQueue DEF Analyst!askedFor,
     Analyst!faults
<1>5. ASSUME NEW figures \in Figures, Analyst!Capture(w, figures) PROVE AnalystInv'
  <2> DEFINE i == work[w].id
             j == [job[i] EXCEPT !.snapshot = figures]
             k == [work[w] EXCEPT !.at = "captured", !.snapshot = figures]
  <2>1. /\ i \in Insights /\ insight[i].status # "NONE" /\ job[i] \in AnalystJobs
        /\ AnalystJob(i)
    BY <1>3, <1>5 DEF Analyst!Capture, Analyst!Works
  <2>2. /\ j \in AnalystJobs /\ j.state = job[i].state /\ j.failures = job[i].failures
        /\ j.holder = job[i].holder
    BY <2>1 DEF AnalystJobs
  <2>3. k \in AnalystTasks /\ k.at = "captured" /\ k.id = i
    BY <1>1, <2>1 DEF AnalystTasks
  <2>4. /\ job' = [job EXCEPT ![i] = j] /\ work' = [work EXCEPT ![w] = k]
        /\ UNCHANGED <<insight, calls, Analyst!askedFor, Analyst!faults>>
    BY <1>1, <1>5, <2>1 DEF Analyst!Capture
  <2> HIDE DEF j, k
  <2>5. /\ work' \in [Workers -> AnalystTasks] /\ work'[w] = k
        /\ \A v \in Workers \ {w} : work'[v] = work[v]
    BY <1>1, <2>3, <2>4
  <2>6. \A v \in Workers :
           \/ work'[v] = work[v]
           \/ /\ work'[v].at # "idle" => /\ work'[v].id \in Insights
                                         /\ insight[work'[v].id].status # "NONE"
              /\ work'[v].at \notin {"asking", "reset"}
              /\ work'[v].at = "return" => insight[work'[v].id].status \notin Analyst!Open
    BY <2>1, <2>3, <2>5
  <2>. QED BY <1>1, <2>1, <2>2, <2>4, <2>5, <2>6, AnalystQueue DEF Analyst!askedFor,
     Analyst!faults, AnalystJob
<1>6. ASSUME Analyst!JobCompletes(w) \/ Analyst!JobFails(w)
      PROVE  /\ work' \in [Workers -> AnalystTasks] /\ work[w].at # "idle"
             /\ \A v \in Workers : \/ work'[v] = work[v]
                                   \/ work'[v].at = "idle"
             /\ UNCHANGED <<insight, calls, admitted, admissions, creating, posted,
                            forgotten, doubtful>>
  BY <1>1, <1>2, <1>6 DEF Analyst!JobCompletes, Analyst!JobFails, Analyst!Works,
     Analyst!askedFor, Analyst!faults
<1>7. CASE Analyst!JobCompletes(w)
  <2> DEFINE i == work[w].id
             j == IF Analyst!Holds(w) THEN [job[i] EXCEPT !.state = "completed", !.holder = None]
                  ELSE job[i]
  <2>1. /\ i \in Insights /\ insight[i].status # "NONE" /\ job[i] \in AnalystJobs
        /\ AnalystJob(i) /\ insight[i].status \notin Analyst!Open
    BY <1>3, <1>7 DEF Analyst!JobCompletes, Analyst!Works
  <2>2. job' = [job EXCEPT ![i] = j] /\ notices' = notices
    BY <1>1, <1>7, <2>1 DEF Analyst!JobCompletes, Analyst!faults
  <2>3. /\ j \in AnalystJobs
        /\ j = job[i] \/ (j.state = "completed" /\ j.holder = None)
    BY <2>1 DEF AnalystJobs
  <2> HIDE DEF j
  <2>. QED BY <1>1, <1>6, <1>7, <2>1, <2>2, <2>3, AnalystQueue DEF AnalystJob
<1>8. CASE Analyst!JobFails(w)
  <2> DEFINE i == work[w].id
             ends == work[w].final \/ job[i].failures + 1 >= Attempts
             j == IF Analyst!Holds(w)
                  THEN [job[i] EXCEPT !.state = IF ends THEN "failed" ELSE "waiting",
                                      !.holder = None, !.failures = @ + 1]
                  ELSE job[i]
  <2>1. /\ i \in Insights /\ insight[i].status # "NONE" /\ job[i] \in AnalystJobs
        /\ AnalystJob(i)
    BY <1>3, <1>8 DEF Analyst!JobFails, Analyst!Works
  <2>2. /\ job' = [job EXCEPT ![i] = j]
        /\ notices' = IF Analyst!Holds(w) /\ ends THEN notices \cup {i} ELSE notices
    BY <1>1, <1>8, <2>1 DEF Analyst!JobFails
  <2>3. Analyst!Holds(w) => job[i].failures < Attempts
    BY <1>1, <2>1 DEF Analyst!Holds, AnalystJob
  <2>4. /\ j \in AnalystJobs
        /\ \/ j = job[i]
           \/ j.state = "failed" /\ j.holder = None /\ i \in notices'
           \/ j.state = "waiting" /\ j.holder = None /\ j.failures < Attempts
    <3>1. CASE ~Analyst!Holds(w)
      BY <2>1, <3>1
    <3>2. CASE Analyst!Holds(w) /\ ends
      <4>1. j = [job[i] EXCEPT !.state = "failed", !.holder = None, !.failures = @ + 1]
        BY <3>2
      <4>2. job[i].failures + 1 \in 0..Attempts
        BY <1>1, <2>1, <2>3, <3>2 DEF AnalystJobs
      <4>. QED BY <2>1, <2>2, <3>2, <4>1, <4>2 DEF AnalystJobs
    <3>3. CASE Analyst!Holds(w) /\ ~ends
      <4>1. j = [job[i] EXCEPT !.state = "waiting", !.holder = None, !.failures = @ + 1]
        BY <3>3
      <4>2. job[i].failures + 1 \in 0..Attempts /\ job[i].failures + 1 < Attempts
        BY <1>1, <2>1, <2>3, <3>3 DEF AnalystJobs
      <4>. QED BY <2>1, <3>3, <4>1, <4>2 DEF AnalystJobs
    <3>. QED BY <3>1, <3>2, <3>3
  <2>5. notices' \subseteq Insights /\ notices \subseteq notices'
    BY <1>1, <2>1, <2>2
  <2> HIDE DEF j
  <2>. QED BY <1>6, <1>8, <2>1, <2>2, <2>4, <2>5, AnalystQueue DEF AnalystJob
<1>. QED BY <1>4, <1>5, <1>7, <1>8

\* A lock that expires, an event that is delivered, a failure that is noticed or lost.
LEMMA AnalystAround ==
  ASSUME AnalystInv, NEW i \in Insights,
         \/ Analyst!Stall(i) \/ Analyst!OnFailed(i) \/ Analyst!LoseNotice(i)
         \/ \E again \in BOOLEAN : Analyst!DeliverRequested(i, again)
  PROVE  AnalystInv'
<1>1. /\ job \in [Insights -> AnalystJobs] /\ work \in [Workers -> AnalystTasks]
      /\ insight \in [Insights -> AnalystRows] /\ job[i] \in AnalystJobs
      /\ insight[i] \in AnalystRows /\ AnalystJob(i) /\ AnalystRow(i)
      /\ Attempts \in Nat \ {0} /\ notices \subseteq Insights
  BY AnalystTypes DEF AnalystInv, Analyst!InsightTypeOK
<1>2. CASE Analyst!Stall(i)
  <2> DEFINE j == [job[i] EXCEPT !.state = IF job[i].stalled THEN "failed" ELSE "waiting",
                                 !.holder = None, !.stalled = TRUE]
  <2>1. /\ j \in AnalystJobs /\ j.holder = None /\ j.failures = job[i].failures
        /\ j.state = (IF job[i].stalled THEN "failed" ELSE "waiting")
    BY <1>1 DEF AnalystJobs
  <2>2. /\ job' = [job EXCEPT ![i] = j] /\ job[i].state = "active"
        /\ notices' = IF job[i].stalled THEN notices \cup {i} ELSE notices
        /\ UNCHANGED <<insight, calls, work, Analyst!askedFor, forgotten, doubtful>>
    BY <1>1, <1>2 DEF Analyst!Stall
  <2> HIDE DEF j
  <2>. QED BY <1>1, <2>1, <2>2, AnalystQueue DEF AnalystJob, Analyst!askedFor
<1>3. ASSUME NEW again \in BOOLEAN, Analyst!DeliverRequested(i, again) PROVE AnalystInv'
  <2> DEFINE fresh == insight[i].status \in Analyst!Open /\ job[i].state = "none"
             j == IF fresh
                  THEN [Analyst!NoJob EXCEPT !.state = "waiting", !.snapshot = insight[i].snapshot]
                  ELSE job[i]
  <2>1. /\ j \in AnalystJobs
        /\ fresh => j.state = "waiting" /\ j.holder = None /\ j.failures < Attempts
    <3>1. CASE fresh
      <4>1. insight[i].snapshot \in Figures \cup {None}
        BY <1>1 DEF AnalystRows
      <4>. QED BY <3>1, <4>1, AnalystNewJob DEF AnalystInv
    <3>2. CASE ~fresh
      BY <1>1, <3>2
    <3>. QED BY <3>1, <3>2
  <2>2. /\ job' = [job EXCEPT ![i] = j] /\ posted' \in {posted, posted \ {i}}
        /\ UNCHANGED <<insight, admitted, admissions, calls, creating, work, Analyst!faults>>
    BY <1>1, <1>3 DEF Analyst!DeliverRequested, Analyst!Dispatched
  <2>3. /\ ~fresh => j = job[i]
        /\ fresh => insight[i].status # "NONE"
    BY DEF Analyst!Open
  <2> HIDE DEF j
  <2>. QED BY <1>1, <2>1, <2>2, <2>3, AnalystQueue DEF AnalystJob, Analyst!faults
<1>4. CASE Analyst!OnFailed(i)
  <2> DEFINE r == [insight[i] EXCEPT !.status = IF @ \notin Analyst!Open THEN @ ELSE "FAILED"]
  <2>1. /\ r \in AnalystRows /\ r.status \notin Analyst!Open /\ r.started = insight[i].started
        /\ AnalystRow(i) /\ r.period = insight[i].period /\ r.snapshot = insight[i].snapshot
        /\ r.analysis = insight[i].analysis
        /\ r.status = "NONE" <=> insight[i].status = "NONE"
    BY <1>1 DEF AnalystRows, Analyst!Open
  <2>2. r.status = "COMPLETED" <=> insight[i].status = "COMPLETED"
    BY <1>1 DEF AnalystRows, Analyst!Open
  <2>3. insight[i].status = "NONE" => r = insight[i]
    BY <1>1 DEF AnalystRows, Analyst!Open
  <2>4. /\ insight' = [insight EXCEPT ![i] = r] /\ notices' = notices \ {i}
        /\ UNCHANGED <<calls, job, work, Analyst!askedFor, forgotten, doubtful>>
    BY <1>1, <1>4 DEF Analyst!OnFailed, Analyst!Failed
  <2> HIDE DEF r
  <2>5. /\ insight'[i] = r /\ \A n \in Insights \ {i} : insight'[n] = insight[n]
        /\ insight' \in [Insights -> AnalystRows]
    BY <1>1, <2>1, <2>4
  <2>6. Analyst!InsightTypeOK'
    BY <2>4, <2>5 DEF AnalystInv, Analyst!InsightTypeOK, AnalystRows, Analyst!askedFor
  <2>7. \A n \in Insights : AnalystKept(n) /\ insight'[n].started = insight[n].started
    BY <2>1, <2>2, <2>3, <2>5 DEF AnalystKept, AnalystRow
  <2>8. AnalystJob(i)'
    BY <1>1, <2>1, <2>4, <2>5 DEF AnalystJob
  <2>. QED BY <2>4, <2>6, <2>7, <2>8, AnalystQuiet DEF Analyst!askedFor
<1>5. CASE Analyst!LoseNotice(i)
  <2>1. /\ notices' = notices \ {i} /\ forgotten' = forgotten \cup {i}
        /\ UNCHANGED <<insight, calls, job, work, Analyst!askedFor, doubtful>>
    BY <1>5 DEF Analyst!LoseNotice
  <2>2. Analyst!InsightTypeOK'
    BY <2>1 DEF AnalystInv, Analyst!InsightTypeOK, Analyst!askedFor
  <2>. QED BY <2>1, <2>2, AnalystQuiet DEF AnalystKept, Analyst!askedFor
<1>. QED BY <1>2, <1>3, <1>4, <1>5

\* The claim of the call: the row says that nobody else has it.
LEMMA AnalystClaims ==
  ASSUME AnalystInv, NEW w \in Workers, Analyst!BeginProvider(w)
  PROVE  AnalystInv'
<1> DEFINE i == work[w].id
           o == insight[i]
<1>1. /\ work[w] \in AnalystTasks /\ work[w].at = "begin" /\ i \in Insights
      /\ o \in AnalystRows /\ o.status # "NONE" /\ calls \in 0..DailyLimit
      /\ UNCHANGED <<calls, job, Analyst!askedFor, Analyst!faults>>
      /\ insight \in [Insights -> AnalystRows] /\ work \in [Workers -> AnalystTasks]
  BY AnalystTypes DEF AnalystInv, AnalystWork, Analyst!InsightTypeOK,
     Analyst!BeginProvider, Analyst!Works
<1>2. CASE ~Analyst!MayAsk(i)
  <2> DEFINE k == [work[w] EXCEPT !.at = "catch", !.final = TRUE]
  <2>1. k \in AnalystTasks /\ k.at = "catch" /\ k.id = i
    BY <1>1 DEF AnalystTasks
  <2>2. work' = [work EXCEPT ![w] = k] /\ insight' = insight
    BY <1>1, <1>2 DEF Analyst!BeginProvider, Analyst!Throws
  <2> HIDE DEF k
  <2>. QED BY <1>1, <2>1, <2>2, AnalystThinks DEF Analyst!faults
<1>3. CASE Analyst!MayAsk(i)
  <2> DEFINE k == [work[w] EXCEPT !.at = "asking"]
             r == [o EXCEPT !.started = TRUE]
  <2>1. /\ k \in AnalystTasks /\ k.at = "asking" /\ k.id = i /\ r \in AnalystRows
        /\ r.started /\ r.status = o.status /\ r.period = o.period
        /\ r.snapshot = o.snapshot /\ r.analysis = o.analysis
    BY <1>1 DEF AnalystTasks, AnalystRows
  <2>2. work' = [work EXCEPT ![w] = k] /\ insight' = [insight EXCEPT ![i] = r]
    BY <1>1, <1>3 DEF Analyst!BeginProvider, Analyst!Step
  <2>3. ~o.started
    BY <1>3 DEF Analyst!MayAsk
  <2> HIDE DEF k, r
  <2>4. /\ insight'[i] = r /\ \A n \in Insights \ {i} : insight'[n] = insight[n]
        /\ work'[w] = k /\ \A v \in Workers \ {w} : work'[v] = work[v]
        /\ insight' \in [Insights -> AnalystRows] /\ work' \in [Workers -> AnalystTasks]
    BY <1>1, <2>1, <2>2
  <2>5. Analyst!InsightTypeOK'
    BY <1>1, <2>4 DEF AnalystInv, Analyst!InsightTypeOK, AnalystRows, AnalystTasks,
       Analyst!askedFor, Analyst!faults
  <2>6. /\ \A v \in Workers : AtProvider(v) => work[v].id # i
        /\ i \notin doubtful
    BY <1>1, <2>3 DEF AnalystInv, AnalystWork, AnalystDoubt
  <2>7. ASSUME NEW n \in Insights PROVE AnalystRow(n)' /\ AnalystDoubt(n)' /\ AnalystJob(n)'
    <3>1. AnalystRow(n) /\ AnalystDoubt(n) /\ AnalystJob(n)
      BY DEF AnalystInv
    <3>2. CASE n = i
      BY <1>1, <2>1, <2>4, <2>6, <3>1, <3>2
      DEF AnalystRow, AnalystDoubt, AnalystJob, Analyst!askedFor, Analyst!faults
    <3>3. CASE n # i
      BY <1>1, <2>1, <2>4, <3>1, <3>3
      DEF AnalystRow, AnalystDoubt, AnalystJob, Analyst!askedFor, Analyst!faults, AtProvider
    <3>. QED BY <3>2, <3>3
  <2>8. ASSUME NEW v \in Workers PROVE AnalystWork(v)'
    <3>1. CASE v = w
      BY <1>1, <2>1, <2>4, <3>1 DEF AnalystWork, AtProvider
    <3>2. CASE v # w
      BY <1>1, <2>1, <2>4, <3>2 DEF AnalystInv, AnalystWork, AtProvider
    <3>. QED BY <3>1, <3>2
  <2>9. \A u, v \in Workers :
          AtProvider(u)' /\ AtProvider(v)' /\ work'[u].id = work'[v].id => u = v
    BY <2>1, <2>4, <2>6 DEF AnalystInv, AtProvider
  <2>10. AnalystRequests'
    BY <1>1 DEF AnalystInv, AnalystRequests, Admitted, Analyst!askedFor
  <2>. QED BY <2>5, <2>7, <2>8, <2>9, <2>10 DEF AnalystInv
<1>. QED BY <1>2, <1>3

\* A request is admitted, and recorded for the period it was admitted for.
LEMMA AnalystAsks ==
  ASSUME AnalystInv,
         \/ \E i \in Insights, period \in Periods : Analyst!Admit(i, period)
         \/ \E c \in creating : \/ Analyst!CallerGone(c)
                              \/ \E reached \in BOOLEAN : Analyst!Record(c, reached)
  PROVE  AnalystInv'
<1>1. /\ insight \in [Insights -> AnalystRows] /\ job \in [Insights -> AnalystJobs]
      /\ work \in [Workers -> AnalystTasks] /\ admitted \in [Insights -> Periods \cup {None}]
      /\ creating \subseteq [id : Insights, period : Periods] /\ None \notin Periods
      /\ Attempts \in Nat \ {0} /\ DailyLimit \in Nat /\ admissions \in 0..DailyLimit
  BY AnalystTypes DEF AnalystInv, Analyst!InsightTypeOK
<1>2. ASSUME NEW i \in Insights, NEW period \in Periods, Analyst!Admit(i, period)
      PROVE  AnalystInv'
  <2>1. /\ insight[i].status = "NONE" /\ Analyst!MayAdmit(i, period)
        /\ admissions' = IF admitted[i] = None THEN admissions + 1 ELSE admissions
        /\ admitted' = [admitted EXCEPT ![i] = period]
        /\ creating' = creating \cup {[id |-> i, period |-> period]}
        /\ UNCHANGED <<insight, calls, posted, job, work, notices, forgotten, doubtful>>
    BY <1>2 DEF Analyst!Admit, Analyst!faults
  <2>2. /\ admitted' \in [Insights -> Periods \cup {None}] /\ admitted'[i] = period
        /\ \A n \in Insights \ {i} : admitted'[n] = admitted[n]
        /\ admitted[i] \in {None, period} /\ period # None
    BY <1>1, <2>1 DEF Analyst!MayAdmit
  <2>3. admissions' \in 0..DailyLimit
    BY <1>1, <2>1 DEF Analyst!MayAdmit
  <2>4. Analyst!InsightTypeOK'
    BY <1>1, <2>1, <2>2, <2>3 DEF AnalystInv, Analyst!InsightTypeOK
  <2>5. ASSUME NEW n \in Insights PROVE AnalystRow(n)' /\ AnalystDoubt(n)' /\ AnalystJob(n)'
    <3>1. AnalystRow(n) /\ AnalystDoubt(n) /\ AnalystJob(n)
      BY DEF AnalystInv
    <3>. QED BY <2>1, <2>2, <3>1 DEF AnalystRow, AnalystDoubt, AnalystJob, AtProvider
  <2>6. \A w \in Workers : AnalystWork(w)'
    BY <2>1 DEF AnalystInv, AnalystWork, AtProvider
  <2>7. AnalystRequests'
    <3>1. Admitted' = Admitted \cup {i}
      BY <1>1, <2>2 DEF Admitted
    <3>2. /\ IsFiniteSet(Admitted \cup {i})
          /\ Cardinality(Admitted \cup {i}) = IF i \in Admitted THEN Cardinality(Admitted)
                                             ELSE Cardinality(Admitted) + 1
      BY FS_AddElement DEF AnalystInv, AnalystRequests
    <3>3. i \in Admitted <=> admitted[i] # None
      BY DEF Admitted
    <3>4. IsFiniteSet(Admitted') /\ Cardinality(Admitted') = admissions'
      BY <2>1, <3>1, <3>2, <3>3 DEF AnalystInv, AnalystRequests
    <3>5. ASSUME NEW c \in creating' PROVE admitted'[c.id] = c.period
      <4>1. CASE c \in creating
        <5>1. c.id \in Insights /\ c.period \in Periods /\ admitted[c.id] = c.period
          BY <1>1, <4>1 DEF AnalystInv, AnalystRequests
        <5>. QED BY <1>1, <2>2, <5>1
      <4>2. CASE c = [id |-> i, period |-> period]
        BY <2>2, <4>2
      <4>. QED BY <2>1, <3>5, <4>1, <4>2
    <3>. QED BY <3>4, <3>5 DEF AnalystRequests
  <2>. QED BY <2>1, <2>4, <2>5, <2>6, <2>7 DEF AnalystInv, AtProvider
<1>3. ASSUME NEW c \in creating, NEW reached \in BOOLEAN, Analyst!Record(c, reached)
      PROVE  AnalystInv'
  <2> DEFINE i == c.id
             stored == Analyst!StoredRow(c)
             fresh == insight[i].status = "NONE"
  <2>1. /\ i \in Insights /\ c.period \in Periods /\ admitted[i] = c.period
        /\ insight[i] \in AnalystRows /\ job[i] \in AnalystJobs
        /\ AnalystRow(i) /\ AnalystDoubt(i) /\ AnalystJob(i)
    BY <1>1 DEF AnalystInv, AnalystRequests
  <2>2. /\ stored \in AnalystRows /\ stored.status # "NONE"
        /\ fresh => /\ stored.status = "QUEUED" /\ stored.period = c.period
                    /\ ~stored.started /\ stored.analysis = None
        /\ ~fresh => stored = insight[i]
    <3>1. CASE fresh
      <4>1. stored = [status |-> "QUEUED", period |-> c.period, snapshot |-> None,
                      analysis |-> None, started |-> FALSE]
        BY <3>1 DEF Analyst!StoredRow, Analyst!IsNew, Analyst!NoInsight
      <4> HIDE DEF stored
      <4>. QED BY <2>1, <3>1, <4>1 DEF AnalystRows, Analyst!Open
    <3>2. CASE ~fresh
      BY <2>1, <3>2 DEF Analyst!StoredRow, Analyst!IsNew
    <3>. QED BY <3>1, <3>2
  <2>3. /\ insight' = [insight EXCEPT ![i] = stored] /\ creating' = creating \ {c}
        /\ posted' = (IF fresh THEN posted \cup {i} ELSE posted)
        /\ job' = IF reached /\ stored.period = c.period THEN Analyst!Dispatched(i, stored) ELSE job
        /\ UNCHANGED <<admitted, admissions, calls, work, notices, forgotten, doubtful>>
    BY <1>3 DEF Analyst!Record, Analyst!IsNew, Analyst!faults
  <2> HIDE DEF stored
  <2>4. /\ insight'[i] = stored /\ \A n \in Insights \ {i} : insight'[n] = insight[n]
        /\ insight' \in [Insights -> AnalystRows]
    BY <1>1, <2>1, <2>2, <2>3
  <2>5. \/ job' = job
        \/ /\ job[i].state = "none"
           /\ job' = [job EXCEPT ![i] = [Analyst!NoJob EXCEPT !.state = "waiting",
                                                      !.snapshot = stored.snapshot]]
    BY <2>3 DEF Analyst!Dispatched
  <2>6. /\ job' \in [Insights -> AnalystJobs]
        /\ \A n \in Insights \ {i} : job'[n] = job[n]
        /\ \/ job'[i] = job[i]
           \/ /\ job[i].state = "none" /\ job'[i].state = "waiting"
              /\ job'[i].failures < Attempts /\ job'[i].holder = None
    <3>1. stored.snapshot \in Figures \cup {None}
      BY <2>2 DEF AnalystRows
    <3> DEFINE j == [Analyst!NoJob EXCEPT !.state = "waiting", !.snapshot = stored.snapshot]
    <3>2. j \in AnalystJobs /\ j.state = "waiting" /\ j.failures < Attempts /\ j.holder = None
      BY <3>1, AnalystNewJob DEF AnalystInv
    <3> HIDE DEF j
    <3>3. job' = job \/ (job[i].state = "none" /\ job' = [job EXCEPT ![i] = j])
      BY <2>5 DEF j
    <3>. QED BY <1>1, <2>1, <3>2, <3>3
  <2>7. Analyst!InsightTypeOK'
    BY <2>1, <2>3, <2>4, <2>6 DEF AnalystInv, Analyst!InsightTypeOK, AnalystRows,
       AnalystJobs
  <2>8. ASSUME NEW n \in Insights PROVE AnalystRow(n)' /\ AnalystDoubt(n)' /\ AnalystJob(n)'
    <3>1. AnalystRow(n) /\ AnalystDoubt(n) /\ AnalystJob(n)
      BY DEF AnalystInv
    <3>2. CASE n # i
      BY <2>3, <2>4, <2>6, <3>1, <3>2 DEF AnalystRow, AnalystDoubt, AnalystJob, AtProvider
    <3>3. CASE n = i
      <4>1. AnalystRow(n)'
        BY <1>1, <2>1, <2>2, <2>3, <2>4, <3>3 DEF AnalystRow
      <4>2. AnalystDoubt(n)'
        BY <2>1, <2>2, <2>3, <2>4, <3>3 DEF AnalystDoubt, AnalystRow, AtProvider
      <4>3. AnalystJob(n)'
        BY <1>1, <2>1, <2>2, <2>3, <2>4, <2>6, <3>3 DEF AnalystJob
      <4>. QED BY <4>1, <4>2, <4>3
    <3>. QED BY <3>2, <3>3
  <2>9. ASSUME NEW w \in Workers PROVE AnalystWork(w)'
    BY <2>2, <2>3, <2>4 DEF AnalystInv, AnalystWork, AtProvider
  <2>10. AnalystRequests'
    BY <2>3 DEF AnalystInv, AnalystRequests, Admitted
  <2>. QED BY <2>3, <2>7, <2>8, <2>9, <2>10 DEF AnalystInv, AtProvider
<1>4. ASSUME NEW c \in creating, Analyst!CallerGone(c) PROVE AnalystInv'
  BY <1>4 DEF Analyst!CallerGone, Analyst!faults, AnalystInv, Analyst!InsightTypeOK,
     AnalystRow, AnalystDoubt,
     AnalystJob, AnalystWork, AnalystRequests, AtProvider, Admitted
<1>. QED BY <1>2, <1>3, <1>4

LEMMA AnalystNext == AnalystInv /\ Analyst!Next => AnalystInv'
<1> SUFFICES ASSUME AnalystInv, Analyst!Next PROVE AnalystInv'
  OBVIOUS
<1>1. \/ \E i \in Insights, period \in Periods : Analyst!Admit(i, period)
      \/ \E c \in creating : \/ Analyst!CallerGone(c)
                              \/ \E reached \in BOOLEAN : Analyst!Record(c, reached)
      \/ \E i \in Insights : \/ Analyst!Stall(i) \/ Analyst!OnFailed(i) \/ Analyst!LoseNotice(i)
                            \/ \E again \in BOOLEAN : Analyst!DeliverRequested(i, again)
      \/ \E w \in Workers :
           \/ \E i \in Insights, read \in BOOLEAN : Analyst!TakeJob(w, i, read)
           \/ \E figures \in Figures : Analyst!Capture(w, figures)
           \/ Analyst!JobCompletes(w) \/ Analyst!JobFails(w)
      \/ \E w \in Workers :
           \/ \E outcome \in {"answer", "unavailable", "rejected"} : Analyst!Generate(w, outcome)
           \/ Analyst!CallBudget(w) \/ Analyst!StepFails(w) \/ Analyst!Crash(w)
      \/ \E w \in Workers : Analyst!BeginProvider(w)
      \/ \E w \in Workers : \/ Analyst!Start(w) \/ Analyst!ResetProvider(w)
                            \/ Analyst!Complete(w) \/ Analyst!Catch(w)
  BY DEF Analyst!Next
<1>. QED
  BY <1>1, AnalystAsks, AnalystAround, AnalystHands, AnalystCalls, AnalystClaims,
     AnalystWrites

LEMMA AnalystStay == AnalystInv /\ UNCHANGED analystVars => AnalystInv'
  BY DEF analystVars, AnalystInv, Analyst!InsightTypeOK, AnalystRow, AnalystDoubt,
     AnalystJob, AnalystWork,
     AnalystRequests, AtProvider, Admitted

\* The invariant holds in every behaviour of the service.
LEMMA AnalystAlways == Spec => [](on = "analyst" => AnalystInv)
<1> DEFINE I == on = "analyst" => AnalystInv
<1>1. Init => I
  BY AnalystStart DEF Init
<1>2. I /\ [Next]_vars => I'
  <2> SUFFICES ASSUME I, [Next]_vars, on' = "analyst" PROVE AnalystInv'
    OBVIOUS
  <2>1. AnalystInv /\ (Analyst!Next \/ UNCHANGED analystVars)
    BY Turn
  <2>. QED BY <2>1, AnalystNext, AnalystStay
<1>. QED BY <1>1, <1>2, PTL DEF Spec

\* The paid provider is asked by one worker at a time and never again in
\* doubt, every open insight will be decided unless its notice was lost, the
\* day's limit bounds what is recorded, and an analysis is of the figures
\* shown with it, for any number of insights, workers and attempts.
\* (process, beginProvider, resetProvider, complete, fail, dispatch, record.)
THEOREM ProviderAskedOnce == Spec => []InsightsTrue
<1>1. (on = "analyst" => AnalystInv) => InsightsTrue
  BY AnalystTrue DEF InsightsTrue
<1>. QED BY <1>1, AnalystAlways, PTL

-----------------------------------------------------------------------------
(* The menu.  A card shows a picture only if the row of the picture says   *)
(* that it is attached to that item, and an attached picture is in the     *)
(* bucket: whoever removes an object has claimed its row before, and a     *)
(* claimed row is never attached again.                                    *)

CardItemRow ==
  [life : Card!Life, in : Categories \cup {None}, url : Pictures \cup {None},
   config : [Card!Kinds -> Configurations]]
PictureRow ==
  [status : {"NONE", "UPLOADING", "READY", "ATTACHED", "DELETING", "GONE"},
   by : Employees \cup {None}, item : MenuItems \cup {None},
   due : {"never", "later", "past"}, claim : 0..MaxRemovals]
CardTyped ==
  /\ category \in [Categories -> Card!Life]
  /\ menuItem \in [MenuItems -> CardItemRow]
  /\ screen \in [Employees -> [item : MenuItems \cup {None}, kind : Card!Kinds,
                              seen : Configurations]]
  /\ picture \in [Pictures -> PictureRow]
  /\ uploading \in [Pictures -> {"no", "sending", "stored"}]
  /\ late \subseteq Pictures /\ bucket \subseteq Pictures
  /\ cleaning \subseteq [picture : Pictures, lease : 1..MaxRemovals, removed : BOOLEAN]

CardItem(i) ==
  Card!Live(i) => /\ menuItem[i].in \in Categories /\ category[menuItem[i].in] = "LIVE"
                  /\ menuItem[i].url # None =>
                       /\ picture[menuItem[i].url].status = "ATTACHED"
                       /\ picture[menuItem[i].url].item = i
CardPicture(p) ==
  /\ picture[p].status = "ATTACHED" =>
       picture[p].item # None /\ Card!Live(picture[p].item) /\ menuItem[picture[p].item].url = p
  /\ picture[p].status \in {"READY", "ATTACHED"} => p \in bucket
  /\ uploading[p] = "stored" /\ picture[p].status = "UPLOADING" => p \in bucket
  /\ p \in late \/ uploading[p] = "sending" =>
       picture[p].status = "UPLOADING" /\ picture[p].due = "later"
  /\ p \in late => uploading[p] = "no"
  /\ p \in bucket => picture[p].status \notin {"NONE", "GONE"}
CardCleaning(w) ==
  /\ picture[w.picture].status \in {"DELETING", "GONE"}
  /\ w.removed => w.picture \notin bucket
CardInv ==
  /\ Card!MenuTypeOK
  /\ \A i \in MenuItems : CardItem(i)
  /\ \A p \in Pictures : CardPicture(p)
  /\ \A w \in cleaning : CardCleaning(w)

\* What is assumed of the constants of the service.
LEMMA CardConstants ==
  /\ None \notin Pictures /\ None \notin MenuItems
  /\ Configurations # {} /\ MaxRemovals \in Nat
BY RecordsConstants

LEMMA CardBlank == Card!Blank \in Configurations
  BY CardConstants DEF Card!Blank

LEMMA CardRows == (Card!MenuTypeOK <=> CardTyped) /\ (Card!MenuTypeOK' <=> CardTyped')
  BY DEF Card!MenuTypeOK, CardTyped, CardItemRow, PictureRow

LEMMA CardStart == Card!Init => CardInv
<1> SUFFICES ASSUME Card!Init PROVE CardInv
  OBVIOUS
<1>1. Card!MenuTypeOK
  BY CardBlank, CardConstants
  DEF Card!Init, Card!MenuTypeOK, Card!NoItem, Card!NotOpen, Card!NoPicture, Card!Life,
     Card!Kinds
<1>2. \A i \in MenuItems : ~Card!Live(i)
  BY DEF Card!Init, Card!Live, Card!NoItem
<1>3. \A p \in Pictures : picture[p].status = "NONE" /\ uploading[p] = "no"
  BY DEF Card!Init, Card!NoPicture
<1>. QED BY <1>1, <1>2, <1>3 DEF Card!Init, CardInv, CardItem, CardPicture, CardCleaning

\* What attaching a picture does to the rows of the pictures.
LEMMA CardSynced ==
  ASSUME Card!MenuTypeOK, NEW i \in MenuItems, NEW url \in Pictures \cup {None}
  PROVE  /\ Card!SyncReference(i, url) \in [Pictures -> PictureRow]
         /\ \A p \in Pictures :
              LET new == Card!SyncReference(i, url)[p]
              IN IF p = url THEN new.status = "ATTACHED" /\ new.item = i
                 ELSE IF picture[p].status = "ATTACHED" /\ picture[p].item = i
                      THEN new.status = "DELETING"
                      ELSE new = picture[p]
<1>1. picture \in [Pictures -> PictureRow]
  BY CardRows DEF CardTyped
<1>2. ASSUME NEW row \in PictureRow
      PROVE  LET new == [row EXCEPT !.status = "ATTACHED", !.item = i, !.due = "never"]
                 old == [row EXCEPT !.status = "DELETING", !.due = "later"]
             IN  /\ new \in PictureRow /\ new.status = "ATTACHED" /\ new.item = i
                 /\ old \in PictureRow /\ old.status = "DELETING"
  BY DEF PictureRow
<1>. QED BY <1>1, <1>2 DEF Card!SyncReference

\* The pictures after the items of one picture or none were attached anew.
LEMMA CardAttached ==
  ASSUME CardInv, NEW i \in MenuItems, NEW url \in Pictures \cup {None},
         picture' = Card!SyncReference(i, url), UNCHANGED <<category, screen, Card!pictureVars>>,
         Card!MenuTypeOK', \A j \in MenuItems \ {i} : menuItem'[j] = menuItem[j],
         url # None => Card!Live(i)' /\ (\E e \in Employees : Card!Attachable(e, i, url)),
         Card!Live(i)' => /\ menuItem'[i].url = url /\ menuItem'[i].in \in Categories
                          /\ category[menuItem'[i].in] = "LIVE"
  PROVE  CardInv'
<1>1. ASSUME NEW p \in Pictures
      PROVE  IF p = url THEN picture'[p].status = "ATTACHED" /\ picture'[p].item = i
             ELSE IF picture[p].status = "ATTACHED" /\ picture[p].item = i
                  THEN picture'[p].status = "DELETING"
                  ELSE picture'[p] = picture[p]
  BY CardSynced DEF CardInv
<1>2. ASSUME NEW p \in Pictures PROVE CardPicture(p)'
  <2>1. CardPicture(p)
    BY DEF CardInv
  <2>2. CASE p = url
    BY <1>1, <2>1, <2>2, CardConstants
    DEF CardPicture, Card!Attachable, Card!pictureVars, CardInv, Card!MenuTypeOK, Card!Live
  <2>3. CASE p # url /\ picture[p].status = "ATTACHED" /\ picture[p].item = i
    BY <1>1, <2>1, <2>3 DEF CardPicture, Card!pictureVars
  <2>4. CASE p # url /\ ~(picture[p].status = "ATTACHED" /\ picture[p].item = i)
    <3>1. picture'[p] = picture[p]
      BY <1>1, <2>4
    <3>2. picture[p].status = "ATTACHED" =>
            picture[p].item \in MenuItems \ {i}
      BY <2>1, <2>4 DEF CardPicture, CardInv, Card!MenuTypeOK
    <3>. QED BY <2>1, <3>1, <3>2 DEF CardPicture, Card!pictureVars, Card!Live
  <2>. QED BY <2>2, <2>3, <2>4
<1>3. ASSUME NEW j \in MenuItems PROVE CardItem(j)'
  <2>1. CASE j = i
    BY <1>1, <2>1, CardConstants DEF CardItem
  <2>2. CASE j # i
    <3>1. CardItem(j) /\ menuItem'[j] = menuItem[j]
      BY <2>2 DEF CardInv
    <3> SUFFICES ASSUME Card!Live(j), menuItem[j].url # None
                 PROVE  /\ picture'[menuItem[j].url].status = "ATTACHED"
                        /\ picture'[menuItem[j].url].item = j
      BY <3>1 DEF CardItem, Card!Live
    <3>2. menuItem[j].url \in Pictures
      BY DEF CardInv, Card!MenuTypeOK
    <3>3. menuItem[j].url # url
      BY <2>2, <3>1, CardConstants DEF CardItem, Card!Attachable
    <3>. QED BY <1>1, <2>2, <3>1, <3>2, <3>3 DEF CardItem
  <2>. QED BY <2>1, <2>2
<1>4. ASSUME NEW w \in cleaning' PROVE CardCleaning(w)'
  <2>1. w \in cleaning /\ CardCleaning(w) /\ w.picture \in Pictures
    BY DEF CardInv, Card!MenuTypeOK, Card!pictureVars
  <2>2. w.picture # url
    BY <2>1, CardConstants DEF CardCleaning, Card!Attachable
  <2>. QED BY <1>1, <2>1, <2>2 DEF CardCleaning, Card!pictureVars
<1>. QED BY <1>2, <1>3, <1>4 DEF CardInv

\* CreateCategory, DeleteCategory: no picture moves.
LEMMA CardCategories ==
  ASSUME CardInv, NEW c \in Categories, Card!CreateCategory(c) \/ Card!DeleteCategory(c)
  PROVE  CardInv'
<1>1. UNCHANGED <<menuItem, screen, picture, Card!pictureVars>>
  BY DEF Card!CreateCategory, Card!DeleteCategory
<1>2. Card!MenuTypeOK'
  BY <1>1 DEF CardInv, Card!MenuTypeOK, Card!CreateCategory, Card!DeleteCategory,
     Card!pictureVars, Card!Life
<1>3. ASSUME NEW i \in MenuItems PROVE CardItem(i)'
  BY <1>1 DEF CardInv, Card!MenuTypeOK, CardItem, Card!CreateCategory,
     Card!DeleteCategory, Card!Live
<1>4. \A p \in Pictures : CardPicture(p)'
  BY <1>1 DEF CardInv, CardPicture, Card!Live, Card!pictureVars
<1>5. \A w \in cleaning' : CardCleaning(w)'
  BY <1>1 DEF CardInv, CardCleaning, Card!pictureVars
<1>. QED BY <1>2, <1>3, <1>4, <1>5 DEF CardInv

LEMMA CardCreateItem ==
  ASSUME CardInv, NEW e \in Employees, NEW i \in MenuItems, NEW c \in Categories,
         NEW url \in Pictures \cup {None}, Card!CreateItem(e, i, c, url)
  PROVE  CardInv'
<1>1. menuItem' = [menuItem EXCEPT ![i] = [Card!NoItem EXCEPT !.life = "LIVE", !.in = c,
                                                         !.url = url]]
  BY DEF Card!CreateItem
<1>2. picture' = Card!SyncReference(i, url)
  <2>1. CASE url # None
    BY <2>1 DEF Card!CreateItem
  <2>2. CASE url = None
    <3>1. \A p \in Pictures : ~(picture[p].status = "ATTACHED" /\ picture[p].item = i)
                              /\ p # url
      BY <2>2, CardConstants DEF CardInv, CardPicture, Card!Live, Card!CreateItem
    <3>2. Card!SyncReference(i, url) = picture
      BY <3>1 DEF Card!SyncReference, CardInv, Card!MenuTypeOK
    <3>. QED BY <2>2, <3>2 DEF Card!CreateItem
  <2>. QED BY <2>1, <2>2
<1>3. Card!MenuTypeOK'
  <2>1. [Card!NoItem EXCEPT !.life = "LIVE", !.in = c, !.url = url] \in CardItemRow
    BY CardBlank DEF Card!NoItem, CardItemRow, Card!Life, Card!Kinds
  <2>. QED BY <1>1, <1>2, <2>1, CardSynced, CardRows DEF CardTyped, Card!CreateItem,
     CardInv, Card!pictureVars
<1>4. menuItem'[i].life = "LIVE" /\ menuItem'[i].url = url /\ menuItem'[i].in = c
  BY <1>1 DEF Card!NoItem, CardInv, Card!MenuTypeOK
<1>5. \A j \in MenuItems \ {i} : menuItem'[j] = menuItem[j]
  BY <1>1 DEF CardInv, Card!MenuTypeOK
<1>. QED BY <1>2, <1>3, <1>4, <1>5, CardAttached DEF Card!CreateItem, Card!Live

LEMMA CardUpdateItem ==
  ASSUME CardInv, NEW e \in Employees, NEW i \in MenuItems, NEW c \in Categories,
         NEW url \in Pictures \cup {None}, Card!UpdateItem(e, i, c, url)
  PROVE  CardInv'
<1>1. menuItem' = [menuItem EXCEPT ![i].in = c, ![i].url = url]
  BY DEF Card!UpdateItem
<1>6. menuItem' \in [MenuItems -> CardItemRow]
  <2>1. ASSUME NEW row \in CardItemRow
        PROVE  /\ [row EXCEPT !.in = c] \in CardItemRow
               /\ [row EXCEPT !.url = url] \in CardItemRow
    BY DEF CardItemRow
  <2>2. [menuItem EXCEPT ![i].in = c] \in [MenuItems -> CardItemRow]
    BY <2>1, CardRows DEF CardTyped, CardInv
  <2>. QED BY <1>1, <2>1, <2>2
<1>2. /\ menuItem'[i].life = "LIVE" /\ menuItem'[i].url = url /\ menuItem'[i].in = c
      /\ menuItem[i].life = "LIVE"
  BY <1>1 DEF CardInv, Card!MenuTypeOK, Card!UpdateItem, Card!FindActiveItem
<1>3. \A j \in MenuItems \ {i} : menuItem'[j] = menuItem[j]
  BY <1>1 DEF CardInv, Card!MenuTypeOK
<1>4. CASE url # menuItem[i].url
  <2>1. picture' = Card!SyncReference(i, url)
    BY <1>4 DEF Card!UpdateItem
  <2>2. Card!MenuTypeOK'
    BY <1>6, <2>1, CardSynced, CardRows DEF CardTyped, Card!UpdateItem, CardInv,
       Card!pictureVars
  <2>. QED BY <1>2, <1>3, <1>4, <2>1, <2>2, CardAttached DEF Card!UpdateItem, Card!Live
<1>5. CASE url = menuItem[i].url
  <2>1. UNCHANGED <<category, screen, picture, Card!pictureVars>>
    BY <1>5 DEF Card!UpdateItem
  <2>2. Card!MenuTypeOK'
    BY <1>6, <2>1, CardRows DEF CardTyped, CardInv, Card!pictureVars
  <2>3. \A j \in MenuItems : Card!Live(j)' = Card!Live(j) /\ menuItem'[j].url = menuItem[j].url
    BY <1>2, <1>3, <1>5 DEF Card!Live
  <2>4. \A j \in MenuItems : CardItem(j)'
    <3>1. category[c] = "LIVE"
      BY DEF Card!UpdateItem
    <3>2. \A j \in MenuItems : CardItem(j)
      BY DEF CardInv
    <3>. QED BY <1>2, <1>3, <1>5, <2>1, <3>1, <3>2 DEF CardItem, Card!Live
  <2>5. \A p \in Pictures : CardPicture(p)'
    BY <2>1, <2>3 DEF CardInv, Card!MenuTypeOK, CardPicture, Card!pictureVars
  <2>6. \A w \in cleaning' : CardCleaning(w)'
    BY <2>1 DEF CardInv, CardCleaning, Card!pictureVars
  <2>. QED BY <2>2, <2>4, <2>5, <2>6 DEF CardInv
<1>. QED BY <1>4, <1>5

LEMMA CardDeleteItem ==
  ASSUME CardInv, NEW i \in MenuItems, Card!DeleteItem(i)
  PROVE  CardInv'
<1>1. menuItem' = [menuItem EXCEPT ![i].life = "DELETED", ![i].config["recipe"] = Card!Blank]
      /\ picture' = Card!SyncReference(i, None)
  BY DEF Card!DeleteItem
<1>2. Card!MenuTypeOK'
  <2>1. menuItem' \in [MenuItems -> CardItemRow]
    <3>1. ASSUME NEW row \in CardItemRow
          PROVE  /\ [row EXCEPT !.life = "DELETED"] \in CardItemRow
                 /\ [row EXCEPT !.config["recipe"] = Card!Blank] \in CardItemRow
      BY CardBlank DEF CardItemRow, Card!Life, Card!Kinds
    <3>2. [menuItem EXCEPT ![i].life = "DELETED"] \in [MenuItems -> CardItemRow]
      BY <3>1, CardRows DEF CardTyped, CardInv
    <3>. QED BY <1>1, <3>1, <3>2
  <2>. QED BY <1>1, <2>1, CardSynced, CardRows DEF CardTyped, Card!DeleteItem, CardInv,
     Card!pictureVars
<1>3. menuItem'[i].life = "DELETED" /\ \A j \in MenuItems \ {i} : menuItem'[j] = menuItem[j]
  BY <1>1 DEF CardInv, Card!MenuTypeOK
<1>. QED BY <1>1, <1>2, <1>3, CardAttached DEF Card!DeleteItem, Card!Live

\* OpenConfiguration, SaveConfiguration: only what is configured moves.
LEMMA CardConfigured ==
  ASSUME CardInv,
         \/ \E e \in Employees, i \in MenuItems, k \in Card!Kinds : Card!OpenConfiguration(e, i, k)
         \/ \E e \in Employees, content \in Configurations : Card!SaveConfiguration(e, content)
  PROVE  CardInv'
<1>1. UNCHANGED <<category, picture, Card!pictureVars>>
  BY DEF Card!OpenConfiguration, Card!SaveConfiguration
<1>2. Card!MenuTypeOK' /\ \A i \in MenuItems : /\ Card!Live(i)' = Card!Live(i)
                                               /\ menuItem'[i].in = menuItem[i].in
                                               /\ menuItem'[i].url = menuItem[i].url
  <2>1. ASSUME NEW e \in Employees, NEW i \in MenuItems, NEW k \in Card!Kinds,
               Card!OpenConfiguration(e, i, k)
        PROVE  Card!MenuTypeOK' /\ menuItem' = menuItem
    BY <1>1, <2>1 DEF Card!OpenConfiguration, CardInv, Card!MenuTypeOK, Card!pictureVars
  <2>2. ASSUME NEW e \in Employees, NEW content \in Configurations,
               Card!SaveConfiguration(e, content)
        PROVE  Card!MenuTypeOK' /\ \A j \in MenuItems : /\ Card!Live(j)' = Card!Live(j)
                                                         /\ menuItem'[j].in = menuItem[j].in
                                                         /\ menuItem'[j].url = menuItem[j].url
    <3> DEFINE i == screen[e].item
               k == screen[e].kind
    <3>1. /\ i \in MenuItems /\ k \in Card!Kinds
          /\ menuItem' = [menuItem EXCEPT ![i].config[k] = content]
          /\ screen' = [screen EXCEPT ![e].seen = content]
      BY <2>2 DEF Card!SaveConfiguration, Card!AssertConfigurationRevision, CardInv,
         Card!MenuTypeOK
    <3>2. menuItem' \in [MenuItems -> CardItemRow]
      BY <3>1, CardRows DEF CardTyped, CardInv, CardItemRow
    <3>3. Card!MenuTypeOK'
      BY <1>1, <3>1, <3>2, CardRows DEF CardTyped, CardInv, Card!pictureVars
    <3>4. \A j \in MenuItems : /\ menuItem'[j].life = menuItem[j].life
                               /\ menuItem'[j].in = menuItem[j].in
                               /\ menuItem'[j].url = menuItem[j].url
      BY <3>1, CardRows DEF CardTyped, CardInv, CardItemRow
    <3>. QED BY <3>3, <3>4 DEF Card!Live
  <2>. QED BY <2>1, <2>2 DEF Card!Live
<1>3. \A i \in MenuItems : CardItem(i)'
  BY <1>1, <1>2 DEF CardInv, CardItem
<1>4. \A p \in Pictures : CardPicture(p)'
  BY <1>1, <1>2 DEF CardInv, Card!MenuTypeOK, CardPicture, Card!pictureVars
<1>5. \A w \in cleaning' : CardCleaning(w)'
  BY <1>1 DEF CardInv, CardCleaning, Card!pictureVars
<1>. QED BY <1>2, <1>3, <1>4, <1>5 DEF CardInv

\* A step on the files alone: what is shown stays attached.
LEMMA CardOnlyPictures ==
  ASSUME CardInv, Card!MenuTypeOK', UNCHANGED <<category, menuItem, screen>>,
         \A p \in Pictures : CardPicture(p)', \A w \in cleaning' : CardCleaning(w)',
         \A p \in Pictures : picture[p].status = "ATTACHED" => picture'[p] = picture[p]
  PROVE  CardInv'
<1>1. ASSUME NEW i \in MenuItems PROVE CardItem(i)'
  BY DEF CardInv, CardItem, Card!MenuTypeOK, Card!Live
<1>. QED BY <1>1 DEF CardInv

\* BeginUpload, ObjectStored, UploadGivenUp, LateRequest, MarkReady.
LEMMA CardUpload ==
  ASSUME CardInv,
         \/ \E e \in Employees, p \in Pictures : Card!BeginUpload(e, p)
         \/ \E p \in Pictures : Card!ObjectStored(p) \/ Card!UploadGivenUp(p) \/ Card!MarkReady(p)
         \/ \E p \in Pictures, arrives \in BOOLEAN : Card!LateRequest(p, arrives)
  PROVE  CardInv'
<1>1. UNCHANGED <<category, menuItem, screen, cleaning>>
  BY DEF Card!BeginUpload, Card!ObjectStored, Card!UploadGivenUp, Card!MarkReady,
     Card!LateRequest
<1> DEFINE Others(p) == \A q \in Pictures \ {p} :
             /\ picture'[q] = picture[q] /\ uploading'[q] = uploading[q]
             /\ q \in late' <=> q \in late
             /\ q \in bucket' <=> q \in bucket
           Kept(p) == /\ CardPicture(p)'
                      /\ picture[p].status = "ATTACHED" => picture'[p] = picture[p]
                      /\ picture[p].status \in {"DELETING", "GONE"} =>
                           /\ picture'[p].status = picture[p].status
                           /\ p \in bucket' => p \in bucket
<1>2. \E p \in Pictures : Card!MenuTypeOK' /\ Others(p) /\ Kept(p)
  <2>1. ASSUME NEW e \in Employees, NEW p \in Pictures, Card!BeginUpload(e, p)
        PROVE  Card!MenuTypeOK' /\ Others(p) /\ Kept(p)
    <3> DEFINE row == [Card!NoPicture EXCEPT !.status = "UPLOADING", !.by = e, !.due = "later"]
    <3>4. Card!NoPicture \in PictureRow
      BY CardConstants DEF Card!NoPicture, PictureRow
    <3>1. row \in PictureRow /\ row.status = "UPLOADING" /\ row.due = "later"
      BY <3>4 DEF PictureRow
    <3>2. picture' = [picture EXCEPT ![p] = row] /\ uploading' = [uploading EXCEPT ![p] = "sending"]
          /\ picture[p].status = "NONE"
          /\ UNCHANGED <<category, menuItem, screen, late, cleaning, bucket>>
      BY <2>1 DEF Card!BeginUpload
    <3> HIDE DEF row
    <3>. QED BY <3>1, <3>2, CardRows DEF CardTyped, CardInv, CardPicture
  <2>2. ASSUME NEW p \in Pictures, Card!ObjectStored(p)
        PROVE  Card!MenuTypeOK' /\ Others(p) /\ Kept(p)
    BY <2>2 DEF Card!ObjectStored, CardInv, Card!MenuTypeOK, CardPicture, Card!Live
  <2>3. ASSUME NEW p \in Pictures, Card!UploadGivenUp(p)
        PROVE  Card!MenuTypeOK' /\ Others(p) /\ Kept(p)
    BY <2>3 DEF Card!UploadGivenUp, CardInv, Card!MenuTypeOK, CardPicture, Card!Live
  <2>4. ASSUME NEW p \in Pictures, Card!MarkReady(p)
        PROVE  Card!MenuTypeOK' /\ Others(p) /\ Kept(p)
    <3>1. CASE picture' = picture
      BY <2>4, <3>1 DEF Card!MarkReady, CardInv, Card!MenuTypeOK, CardPicture, Card!Live
    <3>2. CASE picture[p].status = "UPLOADING"
               /\ picture' = [picture EXCEPT ![p].status = "READY"]
      <4>5. picture \in [Pictures -> PictureRow]
        BY CardRows DEF CardTyped, CardInv
      <4>6. [picture[p] EXCEPT !.status = "READY"] \in PictureRow
            /\ [picture[p] EXCEPT !.status = "READY"].status = "READY"
        BY <4>5 DEF PictureRow
      <4>1. [picture[p] EXCEPT !.status = "READY"] \in PictureRow
            /\ picture'[p] = [picture[p] EXCEPT !.status = "READY"]
            /\ picture'[p].status = "READY"
        BY <3>2, <4>5, <4>6
      <4>2. Card!MenuTypeOK'
        BY <2>4, <3>2, <4>1, CardRows DEF CardTyped, CardInv, Card!MarkReady
      <4>3. Others(p) /\ UNCHANGED <<late, bucket>> /\ CardPicture(p)
            /\ uploading[p] = "stored" /\ uploading'[p] = "no"
        BY <2>4, <3>2, CardRows DEF CardTyped, CardInv, Card!MarkReady
      <4>4. CardPicture(p)'
        BY <3>2, <4>1, <4>3 DEF CardPicture
      <4>. QED BY <3>2, <4>2, <4>3, <4>4
    <3>. QED BY <2>4, <3>1, <3>2 DEF Card!MarkReady
  <2>5. ASSUME NEW p \in Pictures, NEW arrives \in BOOLEAN, Card!LateRequest(p, arrives)
        PROVE  Card!MenuTypeOK' /\ Others(p) /\ Kept(p)
    BY <2>5 DEF Card!LateRequest, CardInv, Card!MenuTypeOK, CardPicture, Card!Live
  <2>. QED BY <2>1, <2>2, <2>3, <2>4, <2>5
<1>3. PICK p \in Pictures : Card!MenuTypeOK' /\ Others(p) /\ Kept(p)
  BY <1>2
<1>4. ASSUME NEW q \in Pictures PROVE CardPicture(q)'
  <2>1. CASE q = p
    BY <1>3, <2>1
  <2>2. CASE q # p
    BY <1>1, <1>3, <2>2 DEF CardInv, CardPicture, Card!Live
  <2>. QED BY <2>1, <2>2
<1>5. ASSUME NEW w \in cleaning' PROVE CardCleaning(w)'
  BY <1>1, <1>3 DEF CardInv, Card!MenuTypeOK, CardCleaning
<1>. QED BY <1>1, <1>3, <1>4, <1>5, CardOnlyPictures

\* TermEnds, ClaimForRemoval, RemoveObject, RemovalFails, DeleteRow.
LEMMA CardCleanup ==
  ASSUME CardInv,
         \/ \E p \in Pictures : Card!TermEnds(p) \/ Card!ClaimForRemoval(p)
         \/ \E w \in cleaning : Card!RemoveObject(w) \/ Card!RemovalFails(w) \/ Card!DeleteRow(w)
  PROVE  CardInv'
<1>1. ASSUME NEW p \in Pictures, Card!TermEnds(p) PROVE CardInv'
  <2>1. /\ UNCHANGED <<category, menuItem, screen, Card!pictureVars>> /\ Card!MenuTypeOK'
        /\ \A q \in Pictures : /\ picture'[q].status = picture[q].status
                               /\ picture'[q].item = picture[q].item
                               /\ q # p => picture'[q] = picture[q]
    <3> DEFINE row == [picture[p] EXCEPT !.due = "past"]
    <3>1. picture \in [Pictures -> PictureRow]
      BY CardRows DEF CardTyped, CardInv
    <3>2. row \in PictureRow /\ row.status = picture[p].status /\ row.item = picture[p].item
      BY <3>1 DEF PictureRow
    <3>3. picture' = [picture EXCEPT ![p] = row]
          /\ UNCHANGED <<category, menuItem, screen, Card!pictureVars>>
      BY <1>1 DEF Card!TermEnds
    <3> HIDE DEF row
    <3>4. picture' \in [Pictures -> PictureRow]
      BY <3>1, <3>2, <3>3
    <3>5. Card!MenuTypeOK'
      BY <3>3, <3>4, CardRows DEF CardTyped, CardInv, Card!pictureVars
    <3>. QED BY <3>1, <3>2, <3>3, <3>5
  <2>2. \A q \in Pictures : CardPicture(q)'
    BY <1>1, <2>1 DEF Card!TermEnds, CardInv, CardPicture, Card!pictureVars, Card!Live
  <2>3. \A w \in cleaning' : CardCleaning(w)'
    BY <2>1 DEF CardInv, Card!MenuTypeOK, CardCleaning, Card!pictureVars
  <2>4. \A i \in MenuItems : CardItem(i)'
    BY <2>1 DEF CardInv, Card!MenuTypeOK, CardItem, Card!Live
  <2>. QED BY <2>1, <2>2, <2>3, <2>4 DEF CardInv
<1>2. ASSUME NEW p \in Pictures, Card!ClaimForRemoval(p) PROVE CardInv'
  <2>1. /\ UNCHANGED <<category, menuItem, screen, uploading, late, bucket>> /\ Card!MenuTypeOK'
        /\ picture[p].status \in {"UPLOADING", "READY", "DELETING"}
        /\ picture'[p].status = "DELETING" /\ picture[p].due = "past"
        /\ \A q \in Pictures \ {p} : picture'[q] = picture[q]
    <3> DEFINE row == [picture[p] EXCEPT !.status = "DELETING", !.due = "later", !.claim = @ + 1]
    <3>1. /\ picture' = [picture EXCEPT ![p] = row]
          /\ cleaning' = cleaning \cup
               {[picture |-> p, lease |-> picture[p].claim + 1, removed |-> FALSE]}
          /\ UNCHANGED <<category, menuItem, screen, uploading, late, bucket>>
          /\ picture[p].status \in {"UPLOADING", "READY", "DELETING"}
          /\ picture[p].due = "past" /\ picture[p].claim < MaxRemovals
      BY <1>2 DEF Card!ClaimForRemoval
    <3>3. picture[p] \in PictureRow
      BY CardRows DEF CardTyped, CardInv
    <3>4. /\ picture[p].claim + 1 \in 0..MaxRemovals
          /\ picture[p].claim + 1 \in 1..MaxRemovals
      BY <3>1, <3>3, CardConstants DEF PictureRow
    <3>2. row \in PictureRow /\ row.status = "DELETING"
      BY <3>3, <3>4 DEF PictureRow
    <3> HIDE DEF row
    <3>5. picture' \in [Pictures -> PictureRow] /\ picture'[p] = row
          /\ \A q \in Pictures \ {p} : picture'[q] = picture[q]
      BY <3>1, <3>2, CardRows DEF CardTyped, CardInv
    <3>6. cleaning' \subseteq [picture : Pictures, lease : 1..MaxRemovals, removed : BOOLEAN]
      <4>1. [picture |-> p, lease |-> picture[p].claim + 1, removed |-> FALSE]
              \in [picture : Pictures, lease : 1..MaxRemovals, removed : BOOLEAN]
        BY <3>4
      <4>. QED BY <3>1, <4>1, CardRows DEF CardTyped, CardInv
    <3>. QED BY <3>1, <3>2, <3>5, <3>6, CardRows DEF CardTyped, CardInv
  <2>2. \A q \in Pictures : CardPicture(q)'
    BY <2>1 DEF CardInv, CardPicture, Card!Live
  <2>3. ASSUME NEW w \in cleaning' PROVE CardCleaning(w)'
    <3>1. w \in cleaning \/ (w.picture = p /\ w.removed = FALSE)
      <4>1. w \in cleaning
            \/ w = [picture |-> p, lease |-> picture[p].claim + 1, removed |-> FALSE]
        BY <1>2 DEF Card!ClaimForRemoval
      <4>. QED BY <4>1
    <3>. QED BY <2>1, <3>1 DEF CardInv, Card!MenuTypeOK, CardCleaning
  <2>. QED BY <2>1, <2>2, <2>3, CardOnlyPictures
<1>3. ASSUME NEW w \in cleaning, Card!RemoveObject(w) PROVE CardInv'
  <2>1. UNCHANGED <<category, menuItem, screen, picture, uploading, late>> /\ Card!MenuTypeOK'
    BY <1>3 DEF Card!RemoveObject, CardInv, Card!MenuTypeOK
  <2>2. w.picture \in Pictures /\ CardCleaning(w) /\ bucket' = bucket \ {w.picture}
    BY <1>3 DEF Card!RemoveObject, CardInv, Card!MenuTypeOK
  <2>3. \A q \in Pictures : CardPicture(q)'
    BY <2>1, <2>2 DEF CardInv, CardPicture, CardCleaning, Card!Live
  <2>4. ASSUME NEW v \in cleaning' PROVE CardCleaning(v)'
    <3>1. v \in cleaning \/ v.picture = w.picture
      BY <1>3 DEF Card!RemoveObject, CardInv, Card!MenuTypeOK
    <3>. QED BY <2>1, <2>2, <3>1 DEF CardInv, CardCleaning
  <2>. QED BY <2>1, <2>3, <2>4, CardOnlyPictures
<1>4. ASSUME NEW w \in cleaning, Card!RemovalFails(w) PROVE CardInv'
  <2>1. /\ UNCHANGED <<category, menuItem, screen, picture, uploading, late, bucket>>
        /\ cleaning' \subseteq cleaning
    BY <1>4 DEF Card!RemovalFails
  <2>2. Card!MenuTypeOK'
    BY <2>1 DEF CardInv, Card!MenuTypeOK
  <2>3. \A q \in Pictures : CardPicture(q)'
    BY <2>1 DEF CardInv, CardPicture, Card!Live
  <2>4. \A v \in cleaning' : CardCleaning(v)'
    BY <2>1 DEF CardInv, CardCleaning
  <2>. QED BY <2>1, <2>2, <2>3, <2>4, CardOnlyPictures
<1>5. ASSUME NEW w \in cleaning, Card!DeleteRow(w) PROVE CardInv'
  <2>1. UNCHANGED <<category, menuItem, screen, uploading, late, bucket>>
        /\ cleaning' \subseteq cleaning /\ w.removed
    BY <1>5 DEF Card!DeleteRow, Card!Removed
  <2>2. w.picture \in Pictures /\ CardCleaning(w) /\ CardPicture(w.picture)
    BY DEF CardInv, Card!MenuTypeOK
  <2>3. CASE picture' = picture
    BY <2>1, <2>3 DEF CardInv, CardPicture, Card!MenuTypeOK, CardItem, CardCleaning,
       Card!Live
  <2>4. CASE picture # picture'
    <3>1. /\ picture' = [picture EXCEPT ![w.picture] = [Card!NoPicture EXCEPT !.status = "GONE"]]
          /\ picture[w.picture].status = "DELETING"
      BY <1>5, <2>4 DEF Card!DeleteRow
    <3>2. /\ picture'[w.picture].status = "GONE"
          /\ \A q \in Pictures \ {w.picture} : picture'[q] = picture[q]
      BY <2>2, <3>1 DEF Card!NoPicture, CardInv, Card!MenuTypeOK
    <3>3. Card!MenuTypeOK'
      BY <2>1, <3>1, CardConstants DEF Card!NoPicture, CardInv, Card!MenuTypeOK
    <3>4. \A q \in Pictures : CardPicture(q)'
      BY <2>1, <2>2, <3>1, <3>2 DEF CardInv, CardPicture, CardCleaning, Card!Live
    <3>5. \A v \in cleaning' : CardCleaning(v)'
      BY <2>1, <2>2, <3>2 DEF CardInv, Card!MenuTypeOK, CardCleaning
    <3>. QED BY <2>1, <3>1, <3>2, <3>3, <3>4, <3>5, CardOnlyPictures
  <2>. QED BY <2>3, <2>4
<1>. QED BY <1>1, <1>2, <1>3, <1>4, <1>5

LEMMA CardNext == CardInv /\ Card!Next => CardInv'
<1> SUFFICES ASSUME CardInv, Card!Next PROVE CardInv'
  OBVIOUS
<1>1. CASE \E c \in Categories : Card!CreateCategory(c) \/ Card!DeleteCategory(c)
  BY <1>1, CardCategories
<1>2. CASE \E e \in Employees, i \in MenuItems, c \in Categories, url \in Pictures \cup {None} :
             Card!CreateItem(e, i, c, url) \/ Card!UpdateItem(e, i, c, url)
  BY <1>2, CardCreateItem, CardUpdateItem
<1>3. CASE \E i \in MenuItems : Card!DeleteItem(i)
  BY <1>3, CardDeleteItem
<1>. QED BY <1>1, <1>2, <1>3, CardConfigured, CardUpload, CardCleanup DEF Card!Next

LEMMA CardStay == CardInv /\ UNCHANGED cardVars => CardInv'
  BY DEF CardInv, Card!MenuTypeOK, CardItem, CardPicture, CardCleaning, Card!Live, cardVars

LEMMA CardTrue == CardInv => Card!MenuSound
  BY DEF CardInv, Card!MenuTypeOK, CardItem, CardPicture, Card!MenuSound

\* An edit of a live item was made by someone who had been shown what it
\* replaces.
LEMMA CardSeen == Card!MenuTypeOK /\ (Card!Next \/ UNCHANGED cardVars) => Card!EditsSeen
<1> SUFFICES ASSUME Card!MenuTypeOK, Card!Next \/ UNCHANGED cardVars,
                    NEW i \in MenuItems, NEW k \in Card!Kinds, Card!Live(i), Card!Live(i)',
                    menuItem'[i].config[k] # menuItem[i].config[k]
             PROVE  \E e \in Employees : /\ screen[e].item = i /\ screen[e].kind = k
                                         /\ screen[e].seen = menuItem[i].config[k]
  BY DEF Card!EditsSeen
<1>1. ASSUME NEW e \in Employees, NEW content \in Configurations,
             Card!SaveConfiguration(e, content)
      PROVE  screen[e].item = i /\ screen[e].kind = k /\ screen[e].seen = menuItem[i].config[k]
  BY <1>1 DEF Card!SaveConfiguration, Card!AssertConfigurationRevision, Card!MenuTypeOK
<1>2. ASSUME NEW e \in Employees, NEW j \in MenuItems, NEW c \in Categories,
             NEW url \in Pictures \cup {None},
             Card!CreateItem(e, j, c, url) \/ Card!UpdateItem(e, j, c, url)
      PROVE  FALSE
  BY <1>2 DEF Card!CreateItem, Card!UpdateItem, Card!DeleteItem, Card!MenuTypeOK, Card!Live
<1>3. ASSUME NEW j \in MenuItems, Card!DeleteItem(j) PROVE FALSE
  BY <1>3 DEF Card!DeleteItem, Card!MenuTypeOK, Card!Live
<1>. QED BY <1>1, <1>2, <1>3
         DEF Card!Next, cardVars, Card!CreateCategory, Card!DeleteCategory,
            Card!OpenConfiguration, Card!BeginUpload,
             Card!ObjectStored, Card!UploadGivenUp, Card!MarkReady, Card!TermEnds,
             Card!ClaimForRemoval,
             Card!LateRequest, Card!RemoveObject, Card!RemovalFails, Card!DeleteRow

\* The invariant holds in every behaviour of the service.
LEMMA CardAlways == Spec => [](on = "card" => CardInv)
<1> DEFINE I == on = "card" => CardInv
<1>1. Init => I
  BY CardStart DEF Init
<1>2. I /\ [Next]_vars => I'
  <2> SUFFICES ASSUME I, [Next]_vars, on' = "card" PROVE CardInv'
    OBVIOUS
  <2>1. CardInv /\ (Card!Next \/ UNCHANGED cardVars)
    BY Turn
  <2>. QED BY <2>1, CardNext, CardStay
<1>. QED BY <1>1, <1>2, PTL DEF Spec

\* The menu serves every picture it shows, keeps track of every object in the
\* bucket and never shows one that a cleaner is about to remove, for any
\* number of items, pictures and employees.  (syncReference, cleanup,
\* uploadProductImage.)
THEOREM PicturesServed == Spec => []MenuSound
<1>1. (on = "card" => CardInv) => MenuSound
  BY CardTrue DEF MenuSound
<1>. QED BY <1>1, CardAlways, PTL

-----------------------------------------------------------------------------
(* Equipment.  The events of a piece of equipment lead from its first      *)
(* status to the one on its row, each by an allowed transition; whoever is *)
(* about to write a transition has read a status the row still has, or     *)
(* will be refused.                                                        *)

AssetRow == [status : Tools!EquipmentStatus \cup {None}, quantity : Amounts \cup {0},
             unitPrice : Amounts \cup {0}, totalAmount : 0..MaxTotal,
             updatedAt : 0..MaxWrites, liquidated : BOOLEAN]
LifeEvent == [from : Tools!EquipmentStatus \cup {None}, to : Tools!EquipmentStatus]

ToolLife(a) ==
  LET events == life[a] IN
  /\ events = <<>> <=> asset[a].status = None
  /\ events # <<>> => asset[a].status = events[Len(events)].to
  /\ \A n \in 2..Len(events) : /\ events[n].from = events[n - 1].to
                               /\ events[n].to \in Tools!ALLOWED_TRANSITIONS[events[n].from]
ToolRow(a) ==
  /\ asset[a].totalAmount = asset[a].quantity * asset[a].unitPrice
  /\ asset[a].liquidated <=> asset[a].status = "LIQUIDATED"
ToolMove(m) ==
  moving[m].asset # None => /\ moving[m].from \in Tools!EquipmentStatus
                            /\ moving[m].to \in Tools!ALLOWED_TRANSITIONS[moving[m].from]

ToolInv ==
  /\ asset \in [Assets -> AssetRow]
  /\ life \in [Assets -> Seq(LifeEvent)]
  /\ form \in [Managers -> [asset : Assets \cup {None}, updatedAt : 0..MaxWrites]]
  /\ moving \in [Managers -> [asset : Assets \cup {None}, from : Tools!EquipmentStatus \cup {None},
                              to : Tools!EquipmentStatus \cup {None}]]
  /\ \A a \in Assets : ToolLife(a) /\ ToolRow(a)
  /\ \A m \in Managers : ToolMove(m)

\* What is assumed of the constants of the service.
LEMMA ToolConstants ==
  /\ None \notin Assets
  /\ None \notin {"IN_USE", "MAINTENANCE", "BROKEN", "LIQUIDATED"}
  /\ Amounts \subseteq Nat /\ MaxTotal \in Nat /\ MaxWrites \in Nat \ {0}
BY RecordsConstants

LEMMA ToolStart == Tools!Init => ToolInv
<1> SUFFICES ASSUME Tools!Init PROVE ToolInv
  OBVIOUS
<1>1. Tools!NoAsset \in AssetRow /\ Tools!NoAsset.status = None /\ ~Tools!NoAsset.liquidated
      /\ Tools!NoAsset.totalAmount = Tools!NoAsset.quantity * Tools!NoAsset.unitPrice
  BY ToolConstants DEF Tools!NoAsset, AssetRow
<1>2. asset \in [Assets -> AssetRow] /\ life \in [Assets -> Seq(LifeEvent)]
  BY <1>1 DEF Tools!Init
<1>3. \A a \in Assets : asset[a] = Tools!NoAsset /\ life[a] = <<>>
  BY DEF Tools!Init
<1>4. \A a \in Assets : ToolLife(a) /\ ToolRow(a)
  <2>1. Len(<<>>) = 0 /\ \A n \in 2..0 : FALSE
    OBVIOUS
  <2>2. ASSUME NEW a \in Assets PROVE ToolLife(a)
    BY <1>1, <1>3, <2>1 DEF ToolLife
  <2>3. ASSUME NEW a \in Assets PROVE ToolRow(a)
    BY <1>1, <1>3, ToolConstants DEF ToolRow
  <2>. QED BY <2>2, <2>3
<1>5. \A m \in Managers : ToolMove(m)
  BY DEF Tools!Init, ToolMove, Tools!NotMoving
<1>. QED BY <1>2, <1>4, <1>5, ToolConstants
         DEF Tools!Init, ToolInv, Tools!NoForm, Tools!NotMoving, Tools!EquipmentStatus

\* A transition leads on from a status that is not the last.
LEMMA ToolAllowed ==
  \A from \in Tools!EquipmentStatus : \A to \in Tools!ALLOWED_TRANSITIONS[from] :
    to \in Tools!EquipmentStatus /\ from # "LIQUIDATED"
  BY DEF Tools!EquipmentStatus, Tools!ALLOWED_TRANSITIONS

LEMMA ToolProduct == \A m, n \in Nat : m * n \in Nat
  OBVIOUS

LEMMA ToolCreate ==
  ASSUME ToolInv, NEW a \in Assets, NEW quantity \in Amounts, NEW unitPrice \in Amounts,
         Tools!Create(a, quantity, unitPrice)
  PROVE  ToolInv'
<1> DEFINE total == quantity * unitPrice
           row == [Tools!NoAsset EXCEPT !.status = "IN_USE", !.quantity = quantity, !.updatedAt = 1,
                                  !.unitPrice = unitPrice, !.totalAmount = total]
           entry == [from |-> None, to |-> "IN_USE"]
<1>1. Tools!NoAsset \in AssetRow /\ ~Tools!NoAsset.liquidated
  BY ToolConstants DEF Tools!NoAsset, AssetRow
<1>2. total \in 0..MaxTotal
  BY ToolProduct, ToolConstants DEF Tools!Create
<1>3. /\ row \in AssetRow /\ row.status = "IN_USE" /\ row.liquidated = Tools!NoAsset.liquidated
      /\ row.totalAmount = row.quantity * row.unitPrice
  <2>1. row.quantity = quantity /\ row.unitPrice = unitPrice /\ row.totalAmount = total
        /\ row.status = "IN_USE" /\ row.liquidated = Tools!NoAsset.liquidated
    BY <1>1 DEF AssetRow
  <2>2. row.totalAmount = row.quantity * row.unitPrice
    BY <2>1
  <2>3. row \in AssetRow
    <3> DEFINE F == [Tools!NoAsset EXCEPT !.status = "IN_USE"]
               G == [F EXCEPT !.quantity = quantity]
               H == [G EXCEPT !.updatedAt = 1]
               K == [H EXCEPT !.unitPrice = unitPrice]
    <3> HIDE DEF total
    <3>1. F \in AssetRow
      BY <1>1 DEF AssetRow, Tools!EquipmentStatus
    <3> HIDE DEF F
    <3>2. G \in AssetRow
      BY <3>1 DEF AssetRow
    <3> HIDE DEF G
    <3>3. H \in AssetRow
      BY <3>2, ToolConstants DEF AssetRow
    <3> HIDE DEF H
    <3>4. K \in AssetRow
      BY <3>3 DEF AssetRow
    <3>5. row = [K EXCEPT !.totalAmount = total]
      BY DEF K, H, G, F
    <3> HIDE DEF K, row
    <3>. QED BY <1>2, <3>4, <3>5 DEF AssetRow
  <2>. QED BY <2>1, <2>2, <2>3
<1>4. entry \in LifeEvent /\ <<entry>> \in Seq(LifeEvent) /\ Len(<<entry>>) = 1
      /\ <<entry>>[1].to = "IN_USE" /\ <<entry>> # <<>>
  BY DEF LifeEvent, Tools!EquipmentStatus
<1>5. asset' = [asset EXCEPT ![a] = row] /\ life' = [life EXCEPT ![a] = <<entry>>]
      /\ UNCHANGED <<form, moving>>
  BY DEF Tools!Create
<1> HIDE DEF row, entry, total
<1>6. \A b \in Assets : IF b = a THEN asset'[b] = row /\ life'[b] = <<entry>>
                        ELSE asset'[b] = asset[b] /\ life'[b] = life[b]
  BY <1>5 DEF ToolInv
<1>7. ASSUME NEW b \in Assets PROVE ToolLife(b)' /\ ToolRow(b)'
  <2>1. CASE b = a
    <3>1. asset'[b] = row /\ life'[b] = <<entry>> /\ \A n \in 2..1 : FALSE
      BY <1>6, <2>1
    <3>2. ToolLife(b)'
      BY <1>3, <1>4, <3>1, ToolConstants DEF ToolLife
    <3>3. ToolRow(b)'
      BY <1>1, <1>3, <3>1 DEF ToolRow
    <3>. QED BY <3>2, <3>3
  <2>2. CASE b # a
    <3>1. asset'[b] = asset[b] /\ life'[b] = life[b] /\ ToolLife(b) /\ ToolRow(b)
      BY <1>6, <2>2 DEF ToolInv
    <3>. QED BY <3>1 DEF ToolLife, ToolRow
  <2>. QED BY <2>1, <2>2
<1>8. asset' \in [Assets -> AssetRow] /\ life' \in [Assets -> Seq(LifeEvent)]
  BY <1>3, <1>4, <1>5 DEF ToolInv
<1>. QED BY <1>5, <1>7, <1>8 DEF ToolInv, ToolMove

LEMMA ToolUpdate ==
  ASSUME ToolInv, NEW m \in Managers, NEW changes \in Tools!Changes, Tools!Update(m, changes)
  PROVE  ToolInv'
<1> DEFINE a == form[m].asset
           new == [f \in {"quantity", "unitPrice"} |->
                     IF f \in DOMAIN changes THEN changes[f] ELSE asset[a][f]]
           total == new.quantity * new.unitPrice
<1>1. /\ a \in Assets /\ asset[a] \in AssetRow /\ asset[a].status # "LIQUIDATED"
      /\ total <= MaxTotal /\ asset[a].updatedAt < MaxWrites
      /\ asset' = [asset EXCEPT ![a].quantity = new.quantity, ![a].unitPrice = new.unitPrice,
                                ![a].totalAmount = total, ![a].updatedAt = @ + 1]
      /\ form' = [form EXCEPT ![m] = Tools!NoForm] /\ UNCHANGED <<life, moving>>
  BY DEF ToolInv, Tools!Update
<1>2. new.quantity \in Amounts \cup {0} /\ new.unitPrice \in Amounts \cup {0}
  BY <1>1 DEF Tools!Changes, AssetRow
<1>3. total \in 0..MaxTotal
  <2> HIDE DEF new
  <2>2. \A x \in Amounts \cup {0} : x \in Nat
    BY ToolConstants
  <2>1. new.quantity \in Nat /\ new.unitPrice \in Nat
    BY <1>2, <2>2
  <2>. QED BY <1>1, <2>1, ToolProduct, ToolConstants
<1>4. asset[a].updatedAt + 1 \in 0..MaxWrites
  BY <1>1, ToolConstants DEF AssetRow
<1> HIDE DEF total, new
<1>5. \A b \in Assets : /\ asset'[b].status = asset[b].status
                        /\ asset'[b].liquidated = asset[b].liquidated
                        /\ b # a => asset'[b] = asset[b]
  BY <1>1 DEF ToolInv, AssetRow
<1>6. asset'[a].totalAmount = asset'[a].quantity * asset'[a].unitPrice
  BY <1>1 DEF ToolInv, AssetRow, total
<1>7. asset' \in [Assets -> AssetRow]
  <2> DEFINE F == [asset EXCEPT ![a].quantity = new.quantity]
             G == [F EXCEPT ![a].unitPrice = new.unitPrice]
             H == [G EXCEPT ![a].totalAmount = total]
  <2>1. F \in [Assets -> AssetRow] /\ F[a].updatedAt = asset[a].updatedAt
    BY <1>1, <1>2 DEF ToolInv, AssetRow
  <2>2. G \in [Assets -> AssetRow] /\ G[a].updatedAt = asset[a].updatedAt
    <3> HIDE DEF F
    <3>. QED BY <1>1, <1>2, <2>1 DEF AssetRow
  <2>3. H \in [Assets -> AssetRow] /\ H[a].updatedAt = asset[a].updatedAt
    <3> HIDE DEF G
    <3>. QED BY <1>1, <1>3, <2>2 DEF AssetRow
  <2>4. asset' = [H EXCEPT ![a].updatedAt = @ + 1]
    BY <1>1
  <2>5. H[a].updatedAt + 1 \in 0..MaxWrites
    BY <1>4, <2>3
  <2> HIDE DEF H
  <2>6. H[a] \in AssetRow /\ a \in Assets
    BY <1>1, <2>3
  <2>7. [H[a] EXCEPT !.updatedAt = @ + 1] \in AssetRow
    BY <2>5, <2>6 DEF AssetRow
  <2>. QED BY <2>3, <2>4, <2>6, <2>7
<1>8. form' \in [Managers -> [asset : Assets \cup {None}, updatedAt : 0..MaxWrites]]
  BY <1>1, ToolConstants DEF ToolInv, Tools!NoForm
<1>9. ASSUME NEW b \in Assets PROVE ToolLife(b)' /\ ToolRow(b)'
  <2>1. life' = life /\ asset'[b].status = asset[b].status
        /\ asset'[b].liquidated = asset[b].liquidated
    BY <1>1, <1>5
  <2>2. ToolLife(b)'
    BY <2>1 DEF ToolInv, ToolLife
  <2>3. ToolRow(b)'
    BY <1>5, <1>6, <2>1 DEF ToolInv, ToolRow
  <2>. QED BY <2>2, <2>3
<1>. QED BY <1>1, <1>7, <1>8, <1>9 DEF ToolInv, ToolMove

LEMMA ToolTransition ==
  ASSUME ToolInv, NEW m \in Managers, Tools!Transition(m)
  PROVE  ToolInv'
<1>5. moving[m].asset \in Assets
  BY DEF ToolInv, Tools!Transition
<1>6. PICK a \in Assets : a = moving[m].asset
  BY <1>5
<1> DEFINE entry == [from |-> moving[m].from, to |-> moving[m].to]
<1>1. /\ a \in Assets /\ asset[a] \in AssetRow
      /\ moving' = [moving EXCEPT ![m] = Tools!NotMoving] /\ UNCHANGED form
      /\ moving[m].from \in Tools!EquipmentStatus /\ moving[m].from # "LIQUIDATED"
      /\ moving[m].to \in Tools!EquipmentStatus
      /\ moving[m].to \in Tools!ALLOWED_TRANSITIONS[moving[m].from]
  BY <1>6, ToolAllowed, ToolConstants DEF ToolInv, ToolMove, Tools!Transition
<1>2. /\ moving' \in [Managers -> [asset : Assets \cup {None}, from : Tools!EquipmentStatus \cup {None},
                                   to : Tools!EquipmentStatus \cup {None}]]
      /\ \A n \in Managers : ToolMove(n)'
  BY <1>1 DEF ToolInv, ToolMove, Tools!NotMoving
<1>3. CASE UNCHANGED <<asset, life>>
  BY <1>1, <1>2, <1>3 DEF ToolInv, ToolLife, ToolRow
<1>4. CASE /\ Tools!StatusUnchanged(m) /\ asset[a].updatedAt < MaxWrites
           /\ asset' = [asset EXCEPT ![a].status = moving[m].to, ![a].updatedAt = @ + 1,
                                     ![a].liquidated = moving[m].to = "LIQUIDATED"]
           /\ life' = [life EXCEPT ![a] = Append(@, entry)]
  <2>1. asset[a].status = moving[m].from
    BY <1>4, <1>6 DEF Tools!StatusUnchanged
  <2>2. /\ asset'[a].status = moving[m].to
        /\ asset'[a].liquidated = (moving[m].to = "LIQUIDATED")
        /\ asset'[a].totalAmount = asset[a].totalAmount
        /\ asset'[a].quantity = asset[a].quantity /\ asset'[a].unitPrice = asset[a].unitPrice
        /\ \A b \in Assets \ {a} : asset'[b] = asset[b]
    BY <1>1, <1>4 DEF ToolInv, AssetRow
  <2>3. asset' \in [Assets -> AssetRow]
    <3> DEFINE F == [asset EXCEPT ![a].status = moving[m].to]
               G == [F EXCEPT ![a].updatedAt = @ + 1]
    <3>1. F \in [Assets -> AssetRow] /\ F[a].updatedAt = asset[a].updatedAt
      BY <1>1 DEF ToolInv, AssetRow
    <3>2. asset[a].updatedAt + 1 \in 0..MaxWrites
      BY <1>1, <1>4, ToolConstants DEF AssetRow
    <3>3. G \in [Assets -> AssetRow]
      <4> HIDE DEF F
      <4>. QED BY <1>1, <3>1, <3>2 DEF AssetRow
    <3>4. asset' = [G EXCEPT ![a].liquidated = moving[m].to = "LIQUIDATED"]
      BY <1>4
    <3> HIDE DEF G
    <3>. QED BY <1>1, <3>3, <3>4 DEF AssetRow
  <2>4. entry \in LifeEvent /\ entry.from = moving[m].from /\ entry.to = moving[m].to
    BY <1>1 DEF LifeEvent
  <2> HIDE DEF entry
  <2>5. /\ life[a] \in Seq(LifeEvent) /\ life'[a] = Append(life[a], entry)
        /\ life' \in [Assets -> Seq(LifeEvent)]
        /\ \A b \in Assets \ {a} : life'[b] = life[b]
    BY <1>1, <1>4, <2>4 DEF ToolInv
  <2>6. ToolLife(a)'
    <3> DEFINE events == life[a]
    <3>1. /\ Len(life'[a]) = Len(events) + 1 /\ life'[a][Len(events) + 1] = entry
          /\ \A n \in 1..Len(events) : life'[a][n] = events[n]
          /\ Len(events) \in Nat /\ life'[a] # <<>>
      BY <2>5
    <3>2. events # <<>> /\ asset[a].status = events[Len(events)].to
          /\ \A n \in 2..Len(events) : /\ events[n].from = events[n - 1].to
                                       /\ events[n].to \in Tools!ALLOWED_TRANSITIONS[events[n].from]
      BY <1>1, <2>1, ToolConstants DEF ToolInv, ToolLife, Tools!EquipmentStatus
    <3>3. \A n \in 2..Len(events) + 1 :
            /\ life'[a][n].from = life'[a][n - 1].to
            /\ life'[a][n].to \in Tools!ALLOWED_TRANSITIONS[life'[a][n].from]
      <4> SUFFICES ASSUME NEW n \in 2..Len(events) + 1
                   PROVE  /\ life'[a][n].from = life'[a][n - 1].to
                          /\ life'[a][n].to \in Tools!ALLOWED_TRANSITIONS[life'[a][n].from]
        OBVIOUS
      <4> DEFINE k == Len(events)
      <4> HIDE DEF k, events
      <4>1. life'[a][n - 1] = events[n - 1]
        BY <3>1
      <4>2. CASE n = Len(events) + 1
        <5>1. n - 1 = Len(events) /\ life'[a][n] = entry
          BY <3>1, <4>2
        <5>. QED BY <1>1, <2>1, <2>4, <3>2, <4>1, <5>1
      <4>3. CASE n # Len(events) + 1
        <5>1. n \in 2..Len(events) /\ life'[a][n] = events[n]
          BY <3>1, <4>3
        <5>. QED BY <3>2, <4>1, <5>1
      <4>. QED BY <4>2, <4>3
    <3>4. asset'[a].status # None
      BY <1>1, <2>2, ToolConstants DEF Tools!EquipmentStatus
    <3> HIDE DEF events
    <3>5. asset'[a].status = life'[a][Len(life'[a])].to
      BY <2>2, <2>4, <3>1
    <3>6. \A n \in 2..Len(life'[a]) :
            /\ life'[a][n].from = life'[a][n - 1].to
            /\ life'[a][n].to \in Tools!ALLOWED_TRANSITIONS[life'[a][n].from]
      BY <3>1, <3>3
    <3>7. life'[a] # <<>>
      BY <3>1
    <3>. QED BY <3>4, <3>5, <3>6, <3>7 DEF ToolLife
  <2>7. \A b \in Assets : ToolLife(b)' /\ ToolRow(b)'
    <3>1. ToolRow(a)'
      <4>1. ToolRow(a)
        BY <1>1 DEF ToolInv
      <4>. QED BY <2>2, <4>1, Zenon DEF ToolRow
    <3>2. ASSUME NEW b \in Assets \ {a} PROVE ToolLife(b)' /\ ToolRow(b)'
      <4>1. asset'[b] = asset[b] /\ life'[b] = life[b] /\ ToolLife(b) /\ ToolRow(b)
        BY <2>2, <2>5 DEF ToolInv
      <4>. QED BY <4>1 DEF ToolLife, ToolRow
    <3>. QED BY <2>6, <3>1, <3>2, Zenon
  <2>. QED BY <1>1, <1>2, <2>3, <2>5, <2>7 DEF ToolInv
<1>. QED BY <1>3, <1>4, <1>6 DEF Tools!Transition

LEMMA ToolNext == ToolInv /\ Tools!Next => ToolInv'
<1> SUFFICES ASSUME ToolInv, Tools!Next PROVE ToolInv'
  OBVIOUS
<1>1. ASSUME NEW m \in Managers, NEW a \in Assets, Tools!OpenForm(m, a) PROVE ToolInv'
  <2>1. asset[a].updatedAt \in 0..MaxWrites
    BY DEF ToolInv, AssetRow
  <2>. QED BY <1>1, <2>1 DEF Tools!OpenForm, ToolInv, ToolLife, ToolRow, ToolMove
<1>2. ASSUME NEW m \in Managers, NEW a \in Assets, NEW to \in Tools!EquipmentStatus,
             Tools!ReadForTransition(m, a, to)
      PROVE  ToolInv'
  <2>1. asset[a].status \in Tools!EquipmentStatus
    BY <1>2 DEF ToolInv, AssetRow, Tools!ReadForTransition
  <2>2. /\ moving' \in [Managers -> [asset : Assets \cup {None},
                                     from : Tools!EquipmentStatus \cup {None},
                                     to : Tools!EquipmentStatus \cup {None}]]
        /\ \A n \in Managers : ToolMove(n)'
    BY <1>2, <2>1 DEF ToolInv, ToolMove, Tools!ReadForTransition
  <2>. QED BY <1>2, <2>2 DEF Tools!ReadForTransition, ToolInv, ToolLife, ToolRow
<1>. QED BY <1>1, <1>2, ToolCreate, ToolUpdate, ToolTransition DEF Tools!Next

LEMMA ToolStay == ToolInv /\ UNCHANGED toolVars => ToolInv'
  BY DEF ToolInv, ToolLife, ToolRow, ToolMove, toolVars

LEMMA ToolTrue == ToolInv => Tools!LifeIsTold
  BY DEF ToolInv, ToolLife, ToolRow, AssetRow, Tools!LifeIsTold, Tools!AssetTypeOK

\* Nothing writes the row of what was liquidated.
LEMMA ToolKept == ToolInv /\ (Tools!Next \/ UNCHANGED toolVars) => Tools!LiquidatedIsFinal
<1> SUFFICES ASSUME ToolInv, Tools!Next \/ UNCHANGED toolVars,
                    NEW a \in Assets, asset[a].status = "LIQUIDATED"
             PROVE  asset'[a] = asset[a]
  BY DEF Tools!LiquidatedIsFinal
<1>1. ASSUME NEW b \in Assets, NEW quantity \in Amounts, NEW unitPrice \in Amounts,
             Tools!Create(b, quantity, unitPrice)
      PROVE  asset'[a] = asset[a]
  BY <1>1, ToolConstants DEF Tools!Create, ToolInv
<1>2. ASSUME NEW m \in Managers, NEW changes \in Tools!Changes, Tools!Update(m, changes)
      PROVE  asset'[a] = asset[a]
  <2>1. form[m].asset # a
    BY <1>2 DEF Tools!Update
  <2>. QED BY <1>2, <2>1 DEF Tools!Update, ToolInv
<1>3. ASSUME NEW m \in Managers, Tools!Transition(m) PROVE asset'[a] = asset[a]
  <2>1. CASE Tools!StatusUnchanged(m)
    <3>1. moving[m].asset # a
      BY <1>3, <2>1, ToolAllowed DEF Tools!Transition, Tools!StatusUnchanged, ToolInv,
         ToolMove
    <3>. QED BY <1>3, <2>1, <3>1 DEF Tools!Transition, ToolInv
  <2>. QED BY <1>3, <2>1 DEF Tools!Transition
<1>. QED BY <1>1, <1>2, <1>3 DEF Tools!Next, toolVars, Tools!OpenForm,
   Tools!ReadForTransition

\* The invariant holds in every behaviour of the service.
LEMMA ToolAlways == Spec => [](on = "tools" => ToolInv)
<1> DEFINE I == on = "tools" => ToolInv
<1>1. Init => I
  BY ToolStart DEF Init
<1>2. I /\ [Next]_vars => I'
  <2> SUFFICES ASSUME I, [Next]_vars, on' = "tools" PROVE ToolInv'
    OBVIOUS
  <2>1. ToolInv /\ (Tools!Next \/ UNCHANGED toolVars)
    BY Turn
  <2>. QED BY <2>1, ToolNext, ToolStay
<1>. QED BY <1>1, <1>2, PTL DEF Spec

-----------------------------------------------------------------------------
(* System settings.  The log of a key has one revision for each version,   *)
(* the last of them the row, and what is on a screen is a revision.        *)

SettingRow == [row : {"NONE", "LIVE", "DELETED"}, value : SettingValues \cup {Config!Nothing},
               version : 0..MaxVersion]
Revision == [value : SettingValues \cup {Config!Nothing}, deleted : BOOLEAN]

LogTells(row, log) ==
  LET n == row.version IN
  /\ n > 0 <=> row.row # "NONE"
  /\ Len(log) = n
  /\ n > 0 => log[n].value = row.value /\ (log[n].deleted <=> row.row = "DELETED")
  /\ \A m \in 1..n : /\ log[m].value[1] = log[1].value[1]
                     /\ log[m].deleted => m = n
ConfigLog(k) == LogTells(setting[k], revisions[k])
ConfigView(a) ==
  /\ view[a].key \in Settings \cup {"none"}
  /\ view[a].key # "none" => view[a].version \in 0..setting[view[a].key].version
\* A row that is still at the version a request expects is the row it read.
ConfigChange(a) ==
  LET c == change[a] IN
  /\ c.kind \in {"none", "update", "remove"}
  /\ c.kind # "none" =>
       /\ c.key \in Settings /\ setting[c.key].version > 0 /\ c.expected \in Nat
       /\ c.read.version \in c.expected..setting[c.key].version
       /\ c.read.version = setting[c.key].version => c.read.value = setting[c.key].value
       /\ c.kind = "update" => /\ c.value \in SettingValues
                               /\ c.value[1] = revisions[c.key][1].value[1]
       /\ c.kind = "remove" => c.key \notin SystemOwned

ConfigInv ==
  /\ setting \in [Settings -> SettingRow]
  /\ revisions \in [Settings -> Seq(Revision)]
  /\ \A k \in Settings : ConfigLog(k)
  /\ \A k \in SystemOwned : setting[k].row = "LIVE"
  /\ DOMAIN view = Administrators /\ DOMAIN change = Administrators
  /\ \A a \in Administrators : ConfigView(a) /\ ConfigChange(a)

\* What is assumed of the constants of the service.
LEMMA ConfigConstants ==
  /\ SystemOwned \subseteq Settings /\ "none" \notin Settings
  /\ MaxVersion \in Nat \ {0}
BY RecordsConstants

LEMMA ConfigStart == Config!Init => ConfigInv
<1> SUFFICES ASSUME Config!Init PROVE ConfigInv
  OBVIOUS
<1>1. ASSUME NEW k \in Settings
      PROVE  /\ setting[k] \in SettingRow
             /\ IF k \in SystemOwned THEN setting[k].row = "LIVE" /\ setting[k].version = 1
                ELSE setting[k].row = "NONE" /\ setting[k].version = 0
  <2>1. setting[k] = Config!NoSetting
        \/ setting[k] \in [row : {"LIVE"}, value : SettingValues, version : {1}]
    BY DEF Config!Init
  <2>2. CASE setting[k] = Config!NoSetting
    BY <2>2, ConfigConstants DEF Config!Init, Config!NoSetting, SettingRow
  <2>3. CASE setting[k] \in [row : {"LIVE"}, value : SettingValues, version : {1}]
    BY <2>3, ConfigConstants DEF Config!Init, SettingRow
  <2>. QED BY <2>1, <2>2, <2>3
<1>2. ASSUME NEW k \in Settings
      PROVE  revisions[k] \in Seq(Revision) /\ ConfigLog(k)
  <2>1. CASE k \in SystemOwned
    <3> DEFINE log == <<[value |-> setting[k].value, deleted |-> FALSE]>>
    <3>1. log \in Seq(Revision) /\ Len(log) = 1 /\ log[1].value = setting[k].value
          /\ log[1].deleted = FALSE
      BY <1>1 DEF Revision, SettingRow
    <3>2. revisions[k] = log
      BY <2>1 DEF Config!Init
    <3> HIDE DEF log
    <3>. QED BY <1>1, <2>1, <3>1, <3>2 DEF ConfigLog, LogTells
  <2>2. CASE k \notin SystemOwned
    <3>1. revisions[k] = <<>> /\ Len(<<>>) = 0 /\ <<>> \in Seq(Revision)
      BY <2>2 DEF Config!Init
    <3>. QED BY <1>1, <2>2, <3>1 DEF ConfigLog, LogTells
  <2>. QED BY <2>1, <2>2
<1>3. setting \in [Settings -> SettingRow] /\ revisions \in [Settings -> Seq(Revision)]
  BY <1>1, <1>2 DEF Config!Init
<1>4. \A a \in Administrators : ConfigView(a) /\ ConfigChange(a)
  BY DEF Config!Init, ConfigView, ConfigChange, Config!NoView, Config!NoChange
<1>5. DOMAIN view = Administrators /\ DOMAIN change = Administrators
  BY DEF Config!Init
<1>. QED BY <1>1, <1>2, <1>3, <1>4, <1>5, ConfigConstants DEF ConfigInv

\* A write of one row, with its revision, keeps what the screens and the
\* requests of the others rest on: versions only grow, and the first revision
\* stays.
LEMMA ConfigWritten ==
  ASSUME ConfigInv, NEW k \in Settings, NEW revision \in Revision,
         setting' \in [Settings -> SettingRow],
         \A j \in Settings \ {k} : setting'[j] = setting[j],
         revisions' = [revisions EXCEPT ![k] = Append(@, revision)],
         setting'[k].version = setting[k].version + 1, setting'[k].row # "NONE",
         setting'[k].value = revision.value, revision.deleted <=> setting'[k].row = "DELETED",
         setting[k].row # "DELETED", k \in SystemOwned => setting'[k].row = "LIVE",
         setting[k].row = "LIVE" => setting'[k].value[1] = revisions[k][1].value[1],
         UNCHANGED view,
         DOMAIN change' = Administrators,
         \A a \in Administrators : change'[a] = change[a] \/ change'[a] = Config!NoChange
  PROVE  ConfigInv'
<1>1. /\ setting' \in [Settings -> SettingRow] /\ setting'[k] \in SettingRow
      /\ \A j \in Settings \ {k} : setting'[j] = setting[j] /\ revisions'[j] = revisions[j]
      /\ revisions' \in [Settings -> Seq(Revision)]
      /\ revisions'[k] = Append(revisions[k], revision)
      /\ revisions[k] \in Seq(Revision) /\ setting[k] \in SettingRow
  BY DEF ConfigInv
<1>2. setting[k].version \in Nat /\ Len(revisions[k]) = setting[k].version
      /\ (setting[k].version > 0 => setting[k].row = "LIVE")
  BY <1>1 DEF ConfigInv, ConfigLog, LogTells, SettingRow
<1>3. /\ Len(revisions'[k]) = setting'[k].version /\ revisions'[k][setting'[k].version] = revision
      /\ \A m \in 1..setting[k].version : revisions'[k][m] = revisions[k][m]
  BY <1>1, <1>2
<1>4. ConfigLog(k)'
  <2>1. ASSUME NEW m \in 1..setting'[k].version
        PROVE  /\ revisions'[k][m].value[1] = revisions'[k][1].value[1]
               /\ revisions'[k][m].deleted => m = setting'[k].version
    <3>1. CASE m = setting'[k].version
      <4>1. CASE setting'[k].version = 1
        BY <3>1, <4>1
      <4>2. CASE setting'[k].version # 1
        <5>1. setting[k].version > 0 /\ 1 \in 1..setting[k].version
          BY <1>2, <3>1, <4>2
        <5>. QED BY <1>2, <1>3, <3>1, <5>1
      <4>. QED BY <4>1, <4>2
    <3>2. CASE m # setting'[k].version
      <4>1. m \in 1..setting[k].version /\ 1 \in 1..setting[k].version
        BY <1>2, <3>2
      <4>2. /\ revisions[k][m].value[1] = revisions[k][1].value[1]
            /\ revisions[k][m].deleted => m = setting[k].version
            /\ revisions[k][setting[k].version].deleted <=> setting[k].row = "DELETED"
        BY <1>2, <4>1 DEF ConfigInv, ConfigLog, LogTells
      <4>. QED BY <1>3, <4>1, <4>2
    <3>. QED BY <3>1, <3>2
  <2>2. setting'[k].version > 0
    BY <1>2
  <2>. QED BY <1>1, <1>3, <2>1, <2>2 DEF ConfigLog, LogTells
<1>5. ASSUME NEW j \in Settings PROVE ConfigLog(j)'
  <2>1. CASE j = k
    BY <1>4, <2>1
  <2>2. CASE j # k
    <3>1. setting'[j] = setting[j] /\ revisions'[j] = revisions[j] /\ ConfigLog(j)
      BY <1>1, <2>2 DEF ConfigInv
    <3>. QED BY <3>1, Zenon DEF ConfigLog
  <2>. QED BY <2>1, <2>2
<1>6. \A j \in SystemOwned : setting'[j].row = "LIVE"
  BY <1>1, ConfigConstants DEF ConfigInv
<1>7. \A j \in Settings : /\ setting'[j].version \in Nat /\ setting[j].version \in Nat
                          /\ setting'[j].version >= setting[j].version
                          /\ setting'[j] # setting[j] =>
                               setting'[j].version > setting[j].version
                          /\ setting[j].version > 0 =>
                               revisions'[j][1] = revisions[j][1]
  BY <1>1, <1>2, <1>3 DEF SettingRow, ConfigInv
<1>8. ASSUME NEW a \in Administrators PROVE ConfigView(a)' /\ ConfigChange(a)'
  <2>1. ConfigView(a) /\ ConfigChange(a)
    BY DEF ConfigInv
  <2>2. ConfigView(a)'
    BY <1>7, <2>1 DEF ConfigView
  <2>3. CASE change'[a] = Config!NoChange
    BY <2>2, <2>3 DEF ConfigChange, Config!NoChange
  <2>4. CASE change'[a] = change[a] /\ change[a].kind = "none"
    BY <2>2, <2>4 DEF ConfigChange
  <2>5. CASE change'[a] = change[a] /\ change[a].kind # "none"
    <3> DEFINE c == change[a]
    <3>1. /\ c.key \in Settings /\ c.read.version \in c.expected..setting[c.key].version
          /\ c.read.version = setting[c.key].version => c.read.value = setting[c.key].value
          /\ c.kind = "update" => c.value[1] = revisions[c.key][1].value[1]
      BY <2>1, <2>5 DEF ConfigChange
    <3>2. /\ setting[c.key].version > 0 /\ c.expected \in Nat
          /\ c.kind = "remove" => c.key \notin SystemOwned
          /\ c.kind = "update" => c.value \in SettingValues
          /\ c.kind \in {"none", "update", "remove"}
      BY <2>1, <2>5 DEF ConfigChange
    <3> HIDE DEF c
    <3>3. /\ c.read.version \in c.expected..setting'[c.key].version
          /\ c.read.version = setting'[c.key].version => c.read.value = setting'[c.key].value
          /\ c.kind = "update" => c.value[1] = revisions'[c.key][1].value[1]
          /\ setting'[c.key].version > 0
      BY <1>7, <3>1, <3>2
    <3>4. change'[a] = c
      BY <2>5 DEF c
    <3>. QED BY <2>2, <3>1, <3>2, <3>3, <3>4 DEF ConfigChange
  <2>. QED BY <2>2, <2>3, <2>4, <2>5
<1>. QED BY <1>1, <1>5, <1>6, <1>8 DEF ConfigInv

LEMMA ConfigNext == ConfigInv /\ Config!Next => ConfigInv'
<1> SUFFICES ASSUME ConfigInv, Config!Next PROVE ConfigInv'
  OBVIOUS
<1>1. ASSUME NEW k \in Settings, NEW value \in SettingValues, Config!CreateSetting(k, value)
      PROVE  ConfigInv'
  <2> DEFINE row == [row |-> "LIVE", value |-> value, version |-> 1]
             revision == [value |-> value, deleted |-> FALSE]
  <2>1. row \in SettingRow /\ revision \in Revision
    BY ConfigConstants DEF SettingRow, Revision
  <2>2. setting[k].version = 0 /\ setting[k].row = "NONE"
    BY <1>1 DEF Config!CreateSetting, ConfigInv, ConfigLog, LogTells, SettingRow
  <2>3. /\ setting' = [setting EXCEPT ![k] = row] /\ UNCHANGED <<view, change>>
        /\ revisions' = [revisions EXCEPT ![k] = Append(@, revision)]
    BY <1>1 DEF Config!CreateSetting, Config!CreateRevision
  <2>4. /\ row.version = setting[k].version + 1 /\ row.row = "LIVE"
        /\ row.value = revision.value /\ revision.deleted = FALSE
    BY <2>2
  <2> HIDE DEF row, revision
  <2>5. /\ setting' \in [Settings -> SettingRow] /\ setting'[k] = row
        /\ \A j \in Settings \ {k} : setting'[j] = setting[j]
    BY <2>1, <2>3 DEF ConfigInv
  <2>. QED BY <2>1, <2>2, <2>3, <2>4, <2>5, ConfigWritten DEF ConfigInv
<1>2. ASSUME NEW a \in Administrators, NEW k \in Settings, Config!ViewSetting(a, k)
      PROVE  ConfigInv'
  <2>1. setting[k].version \in Nat
    BY DEF ConfigInv, SettingRow
  <2>2. /\ UNCHANGED <<setting, revisions, change>> /\ DOMAIN view' = Administrators
        /\ view'[a] = [key |-> k, version |-> setting[k].version]
        /\ \A b \in Administrators \ {a} : view'[b] = view[b]
    BY <1>2 DEF Config!ViewSetting, ConfigInv
  <2>3. ASSUME NEW b \in Administrators PROVE ConfigView(b)' /\ ConfigChange(b)'
    BY <2>1, <2>2 DEF ConfigInv, ConfigView, ConfigChange
  <2>. QED BY <2>2, <2>3 DEF ConfigInv, ConfigLog, LogTells
<1>3. ASSUME NEW a \in Administrators, NEW kind \in {"update", "remove"},
             NEW value \in SettingValues \cup {Config!Nothing},
             kind = "update" => value \in SettingValues, Config!ReadSetting(a, kind, value)
      PROVE  ConfigInv'
  <2> DEFINE k == view[a].key
             c == [kind |-> kind, key |-> k, expected |-> view[a].version, value |-> value,
                   read |-> setting[k]]
  <2>1. /\ k \in Settings /\ setting[k].row = "LIVE"
        /\ view[a].version \in 0..setting[k].version
        /\ kind = "update" => value[1] = setting[k].value[1]
        /\ kind = "remove" => k \notin SystemOwned
    BY <1>3 DEF Config!ReadSetting, ConfigInv, ConfigView
  <2>2. /\ setting[k].version \in Nat /\ setting[k].version > 0
        /\ setting[k].value[1] = revisions[k][1].value[1]
    <3>1. setting[k].version \in Nat /\ setting[k].version > 0
      BY <2>1 DEF ConfigInv, ConfigLog, LogTells, SettingRow
    <3>2. setting[k].version \in 1..setting[k].version
      BY <3>1
    <3>3. ConfigLog(k)
      BY <2>1 DEF ConfigInv
    <3>4. setting[k].value = revisions[k][setting[k].version].value
          /\ revisions[k][setting[k].version].value[1] = revisions[k][1].value[1]
      BY <3>1, <3>2, <3>3 DEF ConfigLog, LogTells
    <3>. QED BY <3>1, <3>4
  <2>3. /\ UNCHANGED <<setting, revisions, view>> /\ DOMAIN change' = Administrators
        /\ change'[a] = c /\ \A b \in Administrators \ {a} : change'[b] = change[b]
    BY <1>3 DEF Config!ReadSetting, ConfigInv
  <2>4. /\ c.kind = kind /\ c.key = k /\ c.expected = view[a].version /\ c.value = value
        /\ c.read = setting[k]
    OBVIOUS
  <2> HIDE DEF c, k
  <2>5. ConfigChange(a)'
    BY <1>3, <2>1, <2>2, <2>3, <2>4 DEF ConfigChange
  <2>6. ASSUME NEW b \in Administrators PROVE ConfigView(b)' /\ ConfigChange(b)'
    <3>1. CASE b = a
      BY <2>3, <2>5, <3>1 DEF ConfigInv, ConfigView
    <3>2. CASE b # a
      BY <2>3, <3>2 DEF ConfigInv, ConfigView, ConfigChange
    <3>. QED BY <3>1, <3>2
  <2>7. \A j \in Settings : ConfigLog(j)'
    BY <2>3 DEF ConfigInv, ConfigLog, LogTells
  <2>. QED BY <2>3, <2>6, <2>7 DEF ConfigInv
<1>4. ASSUME NEW a \in Administrators, Config!WriteSetting(a) PROVE ConfigInv'
  <2> DEFINE c == change[a]
  <2>1. /\ c.kind \in {"update", "remove"} /\ c.key \in Settings /\ c.expected \in Nat
        /\ c.read.version \in c.expected..setting[c.key].version
        /\ c.read.version = setting[c.key].version => c.read.value = setting[c.key].value
        /\ c.kind = "update" => /\ c.value \in SettingValues
                                /\ c.value[1] = revisions[c.key][1].value[1]
        /\ c.kind = "remove" => c.key \notin SystemOwned
    BY <1>4 DEF Config!WriteSetting, ConfigInv, ConfigChange
  <2>2. PICK k \in Settings : k = c.key
    BY <2>1
  <2>3. setting[k] \in SettingRow /\ revisions[k] \in Seq(Revision) /\ ConfigLog(k)
        /\ setting \in [Settings -> SettingRow]
    BY DEF ConfigInv
  <2>4. /\ UNCHANGED view /\ DOMAIN change' = Administrators
        /\ \A b \in Administrators : change'[b] = change[b] \/ change'[b] = Config!NoChange
    BY <1>4 DEF Config!WriteSetting, ConfigInv
  <2>5. CASE Config!AsExpected(c) /\ c.expected < MaxVersion /\ c.kind = "update"
             /\ setting' = [setting EXCEPT ![c.key].value = c.value, ![c.key].version = @ + 1]
             /\ Config!CreateRevision(c.key, c.value, FALSE)
    <3> DEFINE row == [row |-> setting[k].row, value |-> c.value,
                       version |-> setting[k].version + 1]
               revision == [value |-> c.value, deleted |-> FALSE]
    <3>1. setting[k].row = "LIVE" /\ setting[k].version < MaxVersion
          /\ setting[k].version \in Nat
      BY <2>2, <2>3, <2>5 DEF Config!AsExpected, SettingRow
    <3>2. row \in SettingRow /\ revision \in Revision
      <4>1. c.value \in SettingValues \cup {Config!Nothing} /\ setting[k].version + 1 \in 0..MaxVersion
        BY <2>1, <2>5, <3>1, ConfigConstants
      <4> HIDE DEF c
      <4>. QED BY <3>1, <4>1 DEF SettingRow, Revision
    <3>3. /\ setting' \in [Settings -> SettingRow]
          /\ setting'[k].row = row.row /\ setting'[k].value = row.value
          /\ setting'[k].version = row.version
          /\ \A j \in Settings \ {k} : setting'[j] = setting[j]
      <4> DEFINE v == c.value
                 F == [setting EXCEPT ![k].value = v]
      <4>1. setting' = [F EXCEPT ![k].version = @ + 1]
        BY <2>2, <2>5
      <4>2. v \in SettingValues \cup {Config!Nothing} /\ setting[k].version + 1 \in 0..MaxVersion
        BY <2>1, <2>5, <3>1, ConfigConstants
      <4> HIDE DEF v, c
      <4>3. /\ F \in [Settings -> SettingRow] /\ F[k].value = v
            /\ F[k].version = setting[k].version /\ F[k].row = setting[k].row
            /\ \A j \in Settings \ {k} : F[j] = setting[j]
        BY <2>3, <4>2 DEF SettingRow
      <4> HIDE DEF F
      <4>4. [F[k] EXCEPT !.version = @ + 1] \in SettingRow
        BY <4>2, <4>3 DEF SettingRow
      <4>5. setting' \in [Settings -> SettingRow]
        BY <4>1, <4>3, <4>4
      <4>6. setting'[k].row = F[k].row /\ setting'[k].value = F[k].value
            /\ setting'[k].version = setting[k].version + 1
        BY <4>1, <4>3 DEF SettingRow
      <4>. QED BY <4>1, <4>3, <4>5, <4>6 DEF v
    <3>4. revisions' = [revisions EXCEPT ![k] = Append(@, revision)]
      BY <2>2, <2>5 DEF Config!CreateRevision
    <3>5. /\ row.version = setting[k].version + 1 /\ row.row = "LIVE"
          /\ row.value = revision.value /\ revision.deleted = FALSE
          /\ row.value[1] = revisions[k][1].value[1]
      BY <2>1, <2>2, <2>5, <3>1
    <3> HIDE DEF row, revision
    <3>. QED BY <2>4, <3>1, <3>2, <3>3, <3>4, <3>5, ConfigWritten
  <2>6. CASE Config!AsExpected(c) /\ c.expected < MaxVersion /\ c.kind = "remove"
             /\ setting' = [setting EXCEPT ![c.key].row = "DELETED", ![c.key].version = @ + 1]
             /\ Config!CreateRevision(c.key, c.read.value, TRUE)
    <3> DEFINE row == [row |-> "DELETED", value |-> setting[k].value,
                       version |-> setting[k].version + 1]
               revision == [value |-> setting[k].value, deleted |-> TRUE]
    <3>1. setting[k].row = "LIVE" /\ setting[k].version < MaxVersion
          /\ setting[k].version \in Nat /\ setting[k].version = c.expected
      BY <2>2, <2>3, <2>6 DEF Config!AsExpected, SettingRow
    <3>2. row \in SettingRow /\ revision \in Revision
      BY <2>3, <3>1, ConfigConstants DEF SettingRow, Revision
    <3>3. setting' = [setting EXCEPT ![k] = row]
      BY <2>2, <2>3, <2>6 DEF SettingRow
    <3>4. c.read.value = setting[k].value
      BY <2>1, <2>2, <3>1
    <3>5. revisions' = [revisions EXCEPT ![k] = Append(@, revision)]
      BY <2>2, <2>6, <3>4 DEF Config!CreateRevision
    <3>6. setting[k].value[1] = revisions[k][1].value[1]
      <4>1. setting[k].version \in 1..setting[k].version
        BY <2>3, <3>1 DEF ConfigLog, LogTells
      <4>. QED BY <2>3, <3>1, <4>1 DEF ConfigLog, LogTells
    <3>7. /\ row.version = setting[k].version + 1 /\ row.row = "DELETED"
          /\ row.value = revision.value /\ revision.deleted = TRUE
          /\ row.value[1] = revisions[k][1].value[1]
      BY <3>6
    <3>8. k \notin SystemOwned
      BY <2>1, <2>2, <2>6
    <3> HIDE DEF row, revision
    <3>9. /\ setting' \in [Settings -> SettingRow] /\ setting'[k] = row
          /\ \A j \in Settings \ {k} : setting'[j] = setting[j]
      BY <2>3, <3>2, <3>3
    <3>. QED BY <2>4, <3>1, <3>2, <3>5, <3>7, <3>8, <3>9, ConfigWritten
  <2>7. CASE UNCHANGED <<setting, revisions>>
    <3>1. \A b \in Administrators : ConfigView(b)' /\ ConfigChange(b)'
      BY <2>4, <2>7 DEF ConfigInv, ConfigView, ConfigChange, Config!NoChange
    <3>. QED BY <2>4, <2>7, <3>1 DEF ConfigInv, ConfigLog, LogTells
  <2>. QED BY <1>4, <2>1, <2>5, <2>6, <2>7 DEF Config!WriteSetting
<1>. QED BY <1>1, <1>2, <1>3, <1>4 DEF Config!Next

LEMMA ConfigStay == ConfigInv /\ UNCHANGED configVars => ConfigInv'
  BY DEF ConfigInv, ConfigLog, LogTells, ConfigView, ConfigChange, configVars

LEMMA ConfigTrue == ConfigInv => Config!RevisionsTellAll
<1> SUFFICES ASSUME ConfigInv PROVE Config!RevisionsTellAll
  OBVIOUS
<1>1. Config!SettingTypeOK
  BY DEF ConfigInv, SettingRow, ConfigView, ConfigChange, Config!SettingTypeOK
<1>2. ASSUME NEW k \in Settings PROVE DOMAIN revisions[k] = 1..setting[k].version
  BY DEF ConfigInv, ConfigLog, LogTells
<1>. QED BY <1>1, <1>2 DEF ConfigInv, ConfigLog, LogTells, Config!RevisionsTellAll

\* Only a request that expects the version a setting has changes it.
LEMMA ConfigSeen == ConfigInv /\ (Config!Next \/ UNCHANGED configVars) => Config!ChangesSeen
<1> SUFFICES ASSUME ConfigInv, Config!Next \/ UNCHANGED configVars,
                    NEW k \in Settings, setting[k].row # "NONE", setting'[k] # setting[k]
             PROVE  /\ setting[k].row = "LIVE"
                    /\ \E a \in Administrators : /\ change[a].key = k
                                                /\ change[a].expected = setting[k].version
  BY DEF Config!ChangesSeen
<1>1. ASSUME NEW j \in Settings, NEW value \in SettingValues, Config!CreateSetting(j, value)
      PROVE  FALSE
  BY <1>1 DEF Config!CreateSetting, ConfigInv
<1>2. ASSUME NEW a \in Administrators, Config!WriteSetting(a)
      PROVE  change[a].key = k /\ setting[k].row = "LIVE"
             /\ change[a].expected = setting[k].version
  <2>1. change[a].key \in Settings
    BY <1>2 DEF Config!WriteSetting, ConfigInv, ConfigChange
  <2>2. change[a].key = k /\ Config!AsExpected(change[a])
    BY <1>2, <2>1 DEF Config!WriteSetting, ConfigInv
  <2>. QED BY <2>2 DEF Config!AsExpected
<1>. QED BY <1>1, <1>2 DEF Config!Next, configVars, Config!ViewSetting, Config!ReadSetting

\* The invariant holds in every behaviour of the service.
LEMMA ConfigAlways == Spec => [](on = "config" => ConfigInv)
<1> DEFINE I == on = "config" => ConfigInv
<1>1. Init => I
  BY ConfigStart DEF Init
<1>2. I /\ [Next]_vars => I'
  <2> SUFFICES ASSUME I, [Next]_vars, on' = "config" PROVE ConfigInv'
    OBVIOUS
  <2>1. ConfigInv /\ (Config!Next \/ UNCHANGED configVars)
    BY Turn
  <2>. QED BY <2>1, ConfigNext, ConfigStay
<1>. QED BY <1>1, <1>2, PTL DEF Spec
=============================================================================
