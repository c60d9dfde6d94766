------------------------------- MODULE Outbox -------------------------------
(***************************************************************************)
(* What the event webhook promises (ADR-003 par. 6), without drains,       *)
(* leases, scores or Redis: a stored event stays pending until the adopter *)
(* has received it or it is put aside as a dead letter, it may be received *)
(* more than once in the meantime, and a settled event stays settled.      *)
(***************************************************************************)
CONSTANT Events      \* the delivery events, each with an eventId of its own

VARIABLES
    state,           \* where the event is in its life
    received         \* the events the adopter has received at least once

vars == <<state, received>>

OutboxTypeOK ==
    /\ state \in [Events -> {"new", "pending", "delivered", "dead"}]
    /\ received \in SUBSET Events

Init ==
    /\ state = [e \in Events |-> "new"]
    /\ received = {}

\* The engine stores the event.
Store(e) ==
    /\ state[e] = "new"
    /\ state' = [state EXCEPT ![e] = "pending"]
    /\ UNCHANGED received

\* The adopter receives an event, but the service may not learn that it did.
Receive(e) ==
    /\ state[e] = "pending"
    /\ received' = received \cup {e}
    /\ UNCHANGED state

\* The service learns that the adopter has it.
Settle(e) ==
    /\ state[e] = "pending"
    /\ e \in received
    /\ state' = [state EXCEPT ![e] = "delivered"]
    /\ UNCHANGED received

\* Refused, or out of attempts.
GiveUp(e) ==
    /\ state[e] = "pending"
    /\ state' = [state EXCEPT ![e] = "dead"]
    /\ UNCHANGED received

Next == \E e \in Events : Store(e) \/ Receive(e) \/ Settle(e) \/ GiveUp(e)

Spec == Init /\ [][Next]_vars
=============================================================================
