---------------------------- MODULE Idempotency ----------------------------
(***************************************************************************)
(* Requests that carry an idempotency key (idempotency.service.ts, on      *)
(* runSerializableTransaction): a click repeated, a response lost on the   *)
(* way, a retry with another body.  One key of one employee and operation. *)
(* The statements of a call interleave with those of the others; what its  *)
(* transaction writes is seen by nobody before the commit, but its insert  *)
(* makes any other insert of the key wait.                                 *)
(***************************************************************************)
EXTENDS Naturals, Sequences

CONSTANTS Calls,      \* requests that carry the key
          Payloads,   \* the bodies they may have
          MaxRetries, \* attempts of a serializable transaction
          NoCall

VARIABLES keyRow,     \* the committed IdempotencyRequest row
          keyHolder,  \* the call whose insert of the key is not yet committed
          keyCall,    \* the calls
          keyEffects, \* what the operation has done, in the order of commits
          keyKept,    \* inventory.stock.* and cashier-shift.* keys are kept
          keyPurged   \* times the row was deleted by the housekeeping

vars == <<keyRow, keyHolder, keyCall, keyEffects, keyKept, keyPurged>>

Effect == [payload : Payloads, by : Calls]
NoKey == [status |-> "NONE"]
Stored(e) == [status |-> "COMPLETED", requestHash |-> e.payload, response |-> e]
Pc == {"idle", "find", "transaction", "insert", "operation", "collision",
       "answered", "refused", "failed"}
IdleCall == [pc |-> "idle", retries |-> 0]

Init ==
  /\ keyRow = NoKey
  /\ keyHolder = NoCall
  /\ keyCall = [c \in Calls |-> IdleCall]
  /\ keyEffects = <<>>
  /\ keyKept \in BOOLEAN
  /\ keyPurged = 0

Exists == keyRow.status # "NONE"
At(c, pc) == keyCall[c].pc = pc
Goto(c, pc) == keyCall' = [keyCall EXCEPT ![c].pc = pc]

\* replay: the stored answer, or a conflict.
Replay(c) ==
  IF keyRow.requestHash # keyCall[c].payload \/ keyRow.status # "COMPLETED"
  THEN Goto(c, "refused")
  ELSE keyCall' = [keyCall EXCEPT ![c] =
         [pc |-> "answered", payload |-> @.payload, response |-> keyRow.response]]

-----------------------------------------------------------------------------
Send(c, payload) ==
  /\ At(c, "idle")
  /\ keyCall' = [keyCall EXCEPT ![c] =
                   [pc |-> "find", payload |-> payload, retries |-> 1]]
  /\ UNCHANGED <<keyRow, keyHolder, keyEffects, keyKept, keyPurged>>

\* findExisting, before the transaction.
FindExisting(c) ==
  /\ At(c, "find")
  /\ IF Exists THEN Replay(c) ELSE Goto(c, "transaction")
  /\ UNCHANGED <<keyRow, keyHolder, keyEffects, keyKept, keyPurged>>

\* findUnique, the first statement of the transaction.
FindUnique(c) ==
  /\ At(c, "transaction")
  /\ IF Exists THEN Replay(c) ELSE Goto(c, "insert")
  /\ UNCHANGED <<keyRow, keyHolder, keyEffects, keyKept, keyPurged>>

\* Mutant: without the unique index.
CreateAlways(c) == TRUE
\* The unique index on employee, operation and key lets the insert through.
MayCreate(c) == keyHolder = NoCall /\ ~Exists
CreateRow(c) ==
  /\ At(c, "insert")
  /\ MayCreate(c)
  /\ keyHolder' = c
  /\ Goto(c, "operation")
  /\ UNCHANGED <<keyRow, keyEffects, keyKept, keyPurged>>
\* The key was committed since the snapshot: a unique violation, or a
\* serialization failure, which is retried as often as MaxRetries allows.
UniqueViolation(c) ==
  /\ At(c, "insert") /\ Exists
  /\ Goto(c, "collision")
  /\ UNCHANGED <<keyRow, keyHolder, keyEffects, keyKept, keyPurged>>
Conflict(c) ==
  /\ At(c, "insert") \/ At(c, "operation")
  /\ keyHolder' = IF keyHolder = c THEN NoCall ELSE keyHolder
  /\ keyCall' = [keyCall EXCEPT
       ![c].pc = IF keyCall[c].retries < MaxRetries THEN "transaction" ELSE "failed",
       ![c].retries = IF @ < MaxRetries THEN @ + 1 ELSE @]
  /\ UNCHANGED <<keyRow, keyEffects, keyKept, keyPurged>>

\* operation(tx), the update of the row and the commit.
Commit(c) ==
  LET effect == [payload |-> keyCall[c].payload, by |-> c]
  IN
  /\ At(c, "operation")
  /\ keyEffects' = Append(keyEffects, effect)
  /\ keyRow' = Stored(effect)
  /\ keyHolder' = IF keyHolder = c THEN NoCall ELSE keyHolder
  /\ keyCall' = [keyCall EXCEPT ![c] =
       [pc |-> "answered", payload |-> effect.payload, response |-> effect]]
  /\ UNCHANGED <<keyKept, keyPurged>>

\* The operation refuses, or the process dies: all of it is rolled back.
Abort(c) ==
  /\ keyCall[c].pc \in {"find", "transaction", "insert", "operation", "collision"}
  /\ Goto(c, "failed")
  /\ keyHolder' = IF keyHolder = c THEN NoCall ELSE keyHolder
  /\ UNCHANGED <<keyRow, keyEffects, keyKept, keyPurged>>

\* isIdempotencyCollision: the row of the other call is looked for again.
Collided(c) ==
  /\ At(c, "collision")
  /\ IF Exists THEN Replay(c) ELSE Goto(c, "failed")
  /\ UNCHANGED <<keyRow, keyHolder, keyEffects, keyKept, keyPurged>>

\* runHousekeepingIfNeeded, a day after the commit.
DeleteExpired ==
  /\ Exists /\ ~keyKept
  /\ keyRow' = NoKey /\ keyPurged' = keyPurged + 1
  /\ UNCHANGED <<keyHolder, keyCall, keyEffects, keyKept>>

Next ==
  \/ \E c \in Calls :
       \/ \E payload \in Payloads : Send(c, payload)
       \/ FindExisting(c) \/ FindUnique(c) \/ CreateRow(c) \/ UniqueViolation(c)
       \/ Conflict(c) \/ Commit(c) \/ Abort(c) \/ Collided(c)
  \/ DeleteExpired

Spec == Init /\ [][Next]_vars

-----------------------------------------------------------------------------
\* However often a request is repeated, concurrently, after a failure or with
\* another body, the operation takes effect once for as long as its key is
\* kept; the key is taken exactly while an effect stands behind it; and
\* whoever gets an answer gets that of the effect of his own body.
\* (execute and replay of IdempotencyService.)
EffectOncePerKey ==
  /\ keyKept => keyPurged = 0
  /\ Len(keyEffects) = keyPurged + (IF Exists THEN 1 ELSE 0)
  /\ Exists => keyRow = Stored(keyEffects[Len(keyEffects)])
  /\ \A c \in Calls : At(c, "answered") =>
       /\ keyCall[c].response.payload = keyCall[c].payload
       /\ \E k \in DOMAIN keyEffects : keyEffects[k] = keyCall[c].response
  /\ \A c \in Calls : keyCall[c].pc \in Pc
=============================================================================
