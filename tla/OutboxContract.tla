--------------------------- MODULE OutboxContract ---------------------------
(***************************************************************************)
(* What the outbox promises the business transactions that write to it:    *)
(* an accepted event stays accepted until its listeners have succeeded or  *)
(* its retry budget is spent; only failed deliveries spend the budget; a   *)
(* dead letter can be given a fresh budget; only published events are ever *)
(* removed.  Listeners may succeed more than once, and late.               *)
(***************************************************************************)
EXTENDS Naturals

CONSTANTS Events, MAX_ATTEMPTS

VARIABLES
    state,     \* what became of each event
    attempts,  \* failed deliveries charged to it
    handled    \* events whose listeners have all succeeded at least once

vars == <<state, attempts, handled>>

Init ==
    /\ state = [e \in Events |-> "none"]
    /\ attempts = [e \in Events |-> 0]
    /\ handled = {}

Accept(e) ==
    /\ state[e] = "none"
    /\ state' = [state EXCEPT ![e] = "accepted"]
    /\ UNCHANGED <<attempts, handled>>

\* All listeners succeed; a delivery that lost its lease may come late.
Handle(e) ==
    /\ state[e] # "none"
    /\ handled' = handled \cup {e}
    /\ UNCHANGED <<state, attempts>>

Publish(e) ==
    /\ state[e] = "accepted"
    /\ e \in handled
    /\ state' = [state EXCEPT ![e] = "published"]
    /\ UNCHANGED <<attempts, handled>>

\* A failed delivery costs one attempt; the last one makes a dead letter.
Fail(e) ==
    /\ state[e] = "accepted"
    /\ attempts' = [attempts EXCEPT ![e] = @ + 1]
    /\ \/ state' = [state EXCEPT ![e] = "dead"]
       \/ attempts[e] + 1 < MAX_ATTEMPTS /\ UNCHANGED state
    /\ UNCHANGED handled

Reopen(e) ==
    /\ state[e] = "dead"
    /\ state' = [state EXCEPT ![e] = "accepted"]
    /\ attempts' = [attempts EXCEPT ![e] = 0]
    /\ UNCHANGED handled

Purge(e) ==
    /\ state[e] = "published"
    /\ state' = [state EXCEPT ![e] = "purged"]
    /\ UNCHANGED <<attempts, handled>>

Next ==
    \E e \in Events :
        Accept(e) \/ Handle(e) \/ Publish(e) \/ Fail(e) \/ Reopen(e) \/ Purge(e)

Spec == Init /\ [][Next]_vars
=============================================================================
