------------------------------ MODULE Webhook -------------------------------
(***************************************************************************)
(* The event webhook: the outbox in Redis (webhook:pending, webhook:payload *)
(* and webhook:dlq), the drains of the service process that empty it, and  *)
(* the adopter's endpoint.  Emitting an event and every tick kick a drain; *)
(* kicks run one after the other on a promise chain.  One action is one    *)
(* Redis round trip or one answer of the endpoint.                         *)
(***************************************************************************)
EXTENDS Naturals, FiniteSets

CONSTANTS
    Events,        \* the delivery events, each with an eventId of its own
    Drains,        \* kicked drains that may be alive at once, running or chained
    NoEvent,       \* "no event"
    MaxAttempts,   \* eventWebhook.maxAttempts
    BatchSize,     \* WEBHOOK_DRAIN_BATCH_SIZE
    MaxFaults      \* bound: process crashes and rejected Redis calls

ASSUME WebhookAssumption ==
    /\ MaxAttempts \in Nat \ {0} /\ BatchSize \in Nat \ {0} /\ MaxFaults \in Nat
    /\ NoEvent \notin Events
    /\ IsFiniteSet(Events)

VARIABLES
    payload,       \* events with a webhook:payload record
    attemptCount,  \* attemptCount in that record
    pending,       \* members of webhook:pending
    due,           \* those of them whose score is in the past
    dlq,           \* events ever written to the dead letters (their TTL is left out)
    drain,         \* in-memory: where each kicked drain is and what it captured
    stored,        \* ghost: events whose enqueue MULTI was executed
    received,      \* ghost: events the adopter has received at least once
    refused,       \* ghost: events it answered with a status that is not retried
    posts,         \* ghost: how often each event was posted
    faults         \* ghost: faults so far

outbox == <<payload, attemptCount, pending, due, dlq>>
ghosts == <<stored, received, refused, posts, faults>>
vars   == <<payload, attemptCount, pending, due, dlq, drain,
            stored, received, refused, posts, faults>>

-----------------------------------------------------------------------------
Steps == {"idle", "queued", "next", "lease", "post", "posting",
          "complete", "backoff", "deadLetter"}

Drain == [pc: Steps, batch: SUBSET Events, event: Events \cup {NoEvent}, count: Nat]

Idle == [pc |-> "idle", batch |-> {}, event |-> NoEvent, count |-> 0]

TypeOK ==
    /\ payload \in SUBSET Events
    /\ attemptCount \in [Events -> 0..(MaxAttempts - 1)]
    /\ pending \in SUBSET Events
    /\ due \in SUBSET pending
    /\ dlq \in SUBSET Events
    /\ drain \in [Drains -> Drain]
    /\ stored \in SUBSET Events
    /\ received \in SUBSET Events
    /\ refused \in SUBSET Events
    /\ posts \in [Events -> Nat]
    /\ faults \in 0..MaxFaults

Init ==
    /\ payload = {}
    /\ attemptCount = [e \in Events |-> 0]
    /\ pending = {}
    /\ due = {}
    /\ dlq = {}
    /\ drain = [d \in Drains |-> Idle]
    /\ stored = {}
    /\ received = {}
    /\ refused = {}
    /\ posts = [e \in Events |-> 0]
    /\ faults = 0

-----------------------------------------------------------------------------
(* The store: each operation is one MULTI *)

Write(e, count) ==
    /\ payload' = payload \cup {e}
    /\ attemptCount' = [attemptCount EXCEPT ![e] = count]
    /\ pending' = pending \cup {e}

\* enqueue, with the present as its score.
enqueue(e) == Write(e, 0) /\ due' = due \cup {e}

\* reschedule, with a score in the future.
rescheduleDequeued(e, count) ==          \* seeded fault: the member leaves the sorted set
    /\ payload' = payload \cup {e}
    /\ attemptCount' = [attemptCount EXCEPT ![e] = count]
    /\ pending' = pending \ {e}
    /\ due' = due \ {e}

reschedule(e, count) == Write(e, count) /\ due' = due \ {e}

\* ZREM of the member and DEL of the record.
Remove(e) ==
    /\ payload' = payload \ {e}
    /\ pending' = pending \ {e}
    /\ due' = due \ {e}

-----------------------------------------------------------------------------
(* The service *)

\* storeAndEmit.  A rejected enqueue stores nothing and its caller keeps the
\* message, so it is no step.
Emit(e) ==
    /\ e \notin stored
    /\ stored' = stored \cup {e}
    /\ enqueue(e)
    /\ UNCHANGED <<dlq, drain, received, refused, posts, faults>>

\* A tick, or the kick after an emit, chains a drain.
Kick(d) ==
    /\ drain[d].pc = "idle"
    /\ drain' = [drain EXCEPT ![d].pc = "queued"]
    /\ UNCHANGED <<outbox, ghosts>>

Running(d) == drain[d].pc \notin {"idle", "queued"}

\* drainChain.then: a chained drain starts when the ones before it have settled.
unchained(d) == TRUE                     \* seeded fault: a kick starts its drain at once
predecessorSettled(d) == \A o \in Drains : ~Running(o)

\* listDueEventIds, the oldest BatchSize of the due members; which ones those
\* are is left open.
ListDue(d) ==
    /\ drain[d].pc = "queued"
    /\ predecessorSettled(d)
    /\ \E batch \in SUBSET due :
          /\ \/ batch = due /\ Cardinality(due) <= BatchSize
             \/ Cardinality(batch) = BatchSize
          /\ drain' = [drain EXCEPT ![d] = IF batch = {} THEN Idle
                                           ELSE [Idle EXCEPT !.pc = "next", !.batch = batch]]
    /\ UNCHANGED <<outbox, ghosts>>

\* On to the rest of the batch.
AfterEvent(d) ==
    IF drain[d].batch = {} THEN Idle ELSE [Idle EXCEPT !.pc = "next", !.batch = drain[d].batch]

\* getRecord; a member without a record is only removed.
GetRecord(d, e) ==
    /\ drain[d].pc = "next"
    /\ e \in drain[d].batch
    /\ drain' = [drain EXCEPT ![d] =
                    [pc |-> IF e \in payload THEN "lease" ELSE "complete",
                     batch |-> drain[d].batch \ {e}, event |-> e, count |-> attemptCount[e]]]
    /\ UNCHANGED <<outbox, ghosts>>

\* The claim lease.
Lease(d) ==
    /\ drain[d].pc = "lease"
    /\ reschedule(drain[d].event, drain[d].count)
    /\ drain' = [drain EXCEPT ![d].pc = "post"]
    /\ UNCHANGED <<dlq, ghosts>>

Post(d) ==
    /\ drain[d].pc = "post"
    /\ posts' = [posts EXCEPT ![drain[d].event] = @ + 1]
    /\ drain' = [drain EXCEPT ![d].pc = "posting"]
    /\ UNCHANGED <<outbox, stored, received, refused, faults>>

\* The request reaches the adopter and it takes the event.
AdopterReceives(d) ==
    /\ drain[d].pc = "posting"
    /\ received' = received \cup {drain[d].event}
    /\ UNCHANGED <<outbox, drain, stored, refused, posts, faults>>

\* 2xx.
PostOk(d) ==
    /\ drain[d].pc = "posting"
    /\ drain[d].event \in received
    /\ drain' = [drain EXCEPT ![d].pc = "complete"]
    /\ UNCHANGED <<outbox, ghosts>>

exhaustedLate(count) == count > MaxAttempts   \* seeded fault: one attempt too many
exhaustedEarly(count) == count + 1 >= MaxAttempts   \* seeded fault: one too few
exhausted(count) == count >= MaxAttempts

\* A network error, the timeout or a retryable status: _onFailure.
PostFailedDropped(d) ==                  \* seeded fault: the last failure drops the event
    /\ drain[d].pc = "posting"
    /\ drain' = [drain EXCEPT ![d].count = @ + 1,
                     ![d].pc = IF exhausted(drain[d].count + 1) THEN "complete" ELSE "backoff"]
    /\ UNCHANGED <<outbox, ghosts>>

PostFailed(d) ==
    /\ drain[d].pc = "posting"
    /\ drain' = [drain EXCEPT ![d].count = @ + 1,
                     ![d].pc = IF exhausted(drain[d].count + 1) THEN "deadLetter" ELSE "backoff"]
    /\ UNCHANGED <<outbox, ghosts>>

\* Any other status.
PostRefused(d) ==
    /\ drain[d].pc = "posting"
    /\ refused' = refused \cup {drain[d].event}
    /\ drain' = [drain EXCEPT ![d].count = @ + 1, ![d].pc = "deadLetter"]
    /\ UNCHANGED <<outbox, stored, received, posts, faults>>

Complete(d) ==
    /\ drain[d].pc = "complete"
    /\ Remove(drain[d].event)
    /\ drain' = [drain EXCEPT ![d] = AfterEvent(d)]
    /\ UNCHANGED <<attemptCount, dlq, ghosts>>

\* The next attempt, after the backoff.
BackoffUncounted(d) ==                   \* seeded fault: the failure is not written
    /\ drain[d].pc = "backoff"
    /\ reschedule(drain[d].event, attemptCount[drain[d].event])
    /\ drain' = [drain EXCEPT ![d] = AfterEvent(d)]
    /\ UNCHANGED <<dlq, ghosts>>

Backoff(d) ==
    /\ drain[d].pc = "backoff"
    /\ reschedule(drain[d].event, drain[d].count)
    /\ drain' = [drain EXCEPT ![d] = AfterEvent(d)]
    /\ UNCHANGED <<dlq, ghosts>>

DeadLetter(d) ==
    /\ drain[d].pc = "deadLetter"
    /\ Remove(drain[d].event)
    /\ dlq' = dlq \cup {drain[d].event}
    /\ drain' = [drain EXCEPT ![d] = AfterEvent(d)]
    /\ UNCHANGED <<attemptCount, ghosts>>

-----------------------------------------------------------------------------
(* Time and faults *)

\* A lease or a backoff runs out.
BecomesDue(e) ==
    /\ e \in pending \ due
    /\ due' = due \cup {e}
    /\ UNCHANGED <<payload, attemptCount, pending, dlq, drain, ghosts>>

\* A Redis call of the drain rejects, with or without having been executed (the
\* step before this one): the drain is over and the chain goes on.
RedisRejects(d) ==
    /\ drain[d].pc \in {"next", "lease", "post", "complete", "backoff", "deadLetter"}
    /\ faults < MaxFaults
    /\ faults' = faults + 1
    /\ drain' = [drain EXCEPT ![d] = Idle]
    /\ UNCHANGED <<outbox, stored, received, refused, posts>>

\* The process dies and starts again.
Crash ==
    /\ faults < MaxFaults
    /\ faults' = faults + 1
    /\ drain' = [d \in Drains |-> Idle]
    /\ UNCHANGED <<outbox, stored, received, refused, posts>>

-----------------------------------------------------------------------------
DrainStep(d) ==
    \/ Kick(d) \/ ListDue(d)
    \/ \E e \in Events : GetRecord(d, e)
    \/ Lease(d) \/ Post(d) \/ PostOk(d) \/ PostFailed(d) \/ PostRefused(d)
    \/ Complete(d) \/ Backoff(d) \/ DeadLetter(d)

Next ==
    \/ \E e \in Events : Emit(e) \/ BecomesDue(e)
    \/ \E d \in Drains : DrainStep(d) \/ AdopterReceives(d) \/ RedisRejects(d)
    \/ Crash

Spec == Init /\ [][Next]_vars

\* The timer ticks, the event loop runs drains on, a request settles by its
\* abort timeout, and scores are times that come.  Nothing is assumed of the
\* adopter.
Fairness ==
    /\ \A d \in Drains : WF_vars(DrainStep(d))
    /\ \A e \in Events : WF_vars(BecomesDue(e))

FairSpec == Spec /\ Fairness

-----------------------------------------------------------------------------
(* Properties *)

\* An event that was stored is gone from the outbox only when the adopter has it
\* or it is kept as a dead letter, whatever crash or Redis error came between a
\* POST and the write that records its outcome.
NothingLost == stored \ payload \subseteq received \cup dlq

\* The chain, not the lease, keeps overlapping kicks from posting the same due
\* event twice: at most one request is on the wire.
OnePostAtATime ==
    \A d, o \in Drains : drain[d].pc = "posting" /\ drain[o].pc = "posting" => d = o

\* The adopter is called at most maxAttempts times for an event, and once more
\* for each fault that lost the outcome of a call.
PostsBounded == \A e \in Events : posts[e] <= MaxAttempts + faults

\* An event is put aside only after a refusal or maxAttempts calls.
DeadLetterEarned == \A e \in dlq : e \in refused \/ posts[e] >= MaxAttempts

\* A drain that captured a record writes it back (lease, backoff) only while the
\* event is unsettled: no event is posted again after its outcome was recorded.
SettledStaysSettled ==
    [][\A e \in stored : e \notin payload => e \notin payload']_vars

\* Every stored event is settled in the end, even if the adopter never answers.
EventuallySettled == \A e \in Events : e \in stored ~> e \notin payload

\* The outbox as its clients see it.
state == [e \in Events |-> CASE e \notin stored -> "new"
                             [] e \in payload   -> "pending"
                             [] e \in dlq       -> "dead"
                             [] OTHER -> "delivered"]

Promise == INSTANCE Outbox WITH state <- state, received <- received

\* The detailed webhook keeps the promise of Outbox: no step loses an event,
\* settles one the adopter has not received, or takes a settled one up again.
ImplementsOutbox == Promise!Spec
=============================================================================
