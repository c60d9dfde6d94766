--------------------------- MODULE Webhook_proofs ---------------------------
(***************************************************************************)
(* Proofs about Webhook, for every set of events and drains, every number  *)
(* of attempts and any number of faults: the outbox implements its promise *)
(* (Outbox), and the adopter is not called more often than configured.     *)
(***************************************************************************)
EXTENDS Webhook, TLAPS

\* The chain lets one drain at a time past its start.
OneRunning == \A d, o \in Drains : Running(d) /\ Running(o) => d = o

\* The steps between two reads of a record, at which a drain holds one.
Holding == {"lease", "post", "posting", "backoff", "deadLetter"}

\* What a drain listed was stored.
ListedStored == \A d \in Drains : drain[d].batch \subseteq stored

\* What a drain holds is still in the outbox, and what it is about to complete
\* has been received.
HoldsPending ==
    \A d \in Drains :
        /\ drain[d].pc \in Holding => drain[d].event \in payload
        /\ drain[d].pc = "complete" => /\ drain[d].event \in stored
                                       /\ drain[d].event \in payload => drain[d].event \in received

\* The counts a drain holds, relative to the record.
CountsRight ==
    \A d \in Drains :
        /\ drain[d].pc \in {"lease", "post", "posting"} =>
              drain[d].count = attemptCount[drain[d].event]
        /\ drain[d].pc \in {"backoff", "deadLetter"} =>
              drain[d].count = attemptCount[drain[d].event] + 1
        /\ drain[d].pc = "backoff" => drain[d].count < MaxAttempts

\* The keys of the outbox agree, and dead letters are not pending.
KeysAgree ==
    /\ pending = payload
    /\ payload \subseteq stored
    /\ dlq \subseteq stored
    /\ dlq \cap payload = {}

OutboxInv == TypeOK /\ OneRunning /\ ListedStored /\ HoldsPending /\ CountsRight /\ KeysAgree

-----------------------------------------------------------------------------
\* Nothing is running and nothing stored at the start.
LEMMA OutboxInit == Init => OutboxInv
  BY WebhookAssumption
     DEF Init, OutboxInv, TypeOK, OneRunning, ListedStored, HoldsPending, CountsRight, KeysAgree,
         Drain, Idle, Steps, Running, Holding

\* Each kind of step keeps the inductive invariant.
LEMMA OutboxStep == OutboxInv /\ [Next]_vars => OutboxInv'
  <1> SUFFICES ASSUME OutboxInv, [Next]_vars PROVE OutboxInv'
    OBVIOUS
  <1> USE WebhookAssumption
        DEF OutboxInv, TypeOK, OneRunning, ListedStored, HoldsPending, CountsRight, KeysAgree,
            Drain, Idle, Steps, Running, Holding, outbox, ghosts
  <1>1. ASSUME NEW e \in Events, Emit(e) PROVE OutboxInv'
    <2>1. /\ e \notin payload
          /\ payload' = payload \cup {e} /\ pending' = pending \cup {e} /\ due' = due \cup {e}
          /\ attemptCount' = [attemptCount EXCEPT ![e] = 0]
          /\ stored' = stored \cup {e}
          /\ e \notin dlq
          /\ UNCHANGED <<dlq, drain, received, refused, posts, faults>>
      BY <1>1 DEF Emit, enqueue, Write
    <2>2. TypeOK'
      BY <2>1
    <2>3. OneRunning'
      BY <2>1
    <2>4. HoldsPending'
      <3> SUFFICES ASSUME NEW d \in Drains
                   PROVE  /\ drain[d].pc \in Holding => drain[d].event \in payload'
                          /\ drain[d].pc = "complete" =>
                                /\ drain[d].event \in stored'
                                /\ drain[d].event \in payload' => drain[d].event \in received
        BY <2>1
      <3>1. drain[d].pc = "complete" => drain[d].event # e
        BY <1>1 DEF Emit
      <3> QED
        BY <2>1, <3>1
    <2>5. KeysAgree'
      BY <2>1
    <2>6. ListedStored'
      BY <2>1
    <2>7. CountsRight'
      <3> SUFFICES ASSUME NEW d \in Drains, drain[d].pc \in Holding
                   PROVE attemptCount'[drain[d].event] = attemptCount[drain[d].event]
        BY <2>1
      <3> QED
        BY <2>1
    <2> QED
      BY <2>2, <2>3, <2>4, <2>5, <2>6, <2>7
  <1>2. ASSUME NEW e \in Events, BecomesDue(e) PROVE OutboxInv'
    BY <1>2 DEF BecomesDue
  <1>3. ASSUME NEW d \in Drains, DrainStep(d) PROVE OutboxInv'
    <2>1. CASE Kick(d)
      BY <2>1 DEF Kick
    <2>2. CASE ListDue(d)
      <3>1. PICK batch \in SUBSET due :
               drain' = [drain EXCEPT ![d] = IF batch = {} THEN Idle
                                             ELSE [Idle EXCEPT !.pc = "next", !.batch = batch]]
        BY <2>2 DEF ListDue
      <3>2. drain'[d].pc \in {"idle", "next"} /\ drain'[d] \in Drain
        BY <3>1
      <3>3. \A o \in Drains \ {d} : drain'[o] = drain[o] /\ ~Running(o)
        BY <2>2, <3>1 DEF ListDue, predecessorSettled
      <3>4. UNCHANGED <<outbox, ghosts>>
        BY <2>2 DEF ListDue
      <3>5. TypeOK'
        BY <3>1, <3>4
      <3>6. OneRunning' /\ CountsRight' /\ KeysAgree'
        BY <3>2, <3>3, <3>4
      <3>7. HoldsPending'
        BY <3>2, <3>3, <3>4
      <3>8. ListedStored'
        BY <3>1, <3>3, <3>4
      <3> QED
        BY <3>5, <3>6, <3>7, <3>8
    <2>3. ASSUME NEW e \in Events, GetRecord(d, e) PROVE OutboxInv'
      BY <2>3 DEF GetRecord
    <2>4. CASE Lease(d)
      BY <2>4 DEF Lease, reschedule, Write
    <2>5. CASE Post(d)
      BY <2>5 DEF Post
    <2>6. CASE PostOk(d)
      BY <2>6 DEF PostOk
    <2>7. CASE PostFailed(d)
      BY <2>7 DEF PostFailed, exhausted
    <2>8. CASE PostRefused(d)
      BY <2>8 DEF PostRefused
    <2>9. CASE Complete(d)
      <3>1. /\ payload' = payload \ {drain[d].event} /\ pending' = pending \ {drain[d].event}
            /\ due' = due \ {drain[d].event}
            /\ UNCHANGED <<attemptCount, dlq, ghosts>>
        BY <2>9 DEF Complete, Remove
      <3>2. /\ drain' = [drain EXCEPT ![d] = AfterEvent(d)]
            /\ drain'[d].pc \in {"idle", "next"} /\ AfterEvent(d) \in Drain
        BY <2>9 DEF Complete, AfterEvent
      <3>3. \A o \in Drains \ {d} : drain'[o] = drain[o] /\ ~Running(o)
        BY <2>9, <3>2 DEF Complete
      <3>4. TypeOK'
        BY <3>1, <3>2
      <3>5. OneRunning' /\ CountsRight' /\ KeysAgree'
        BY <3>1, <3>2, <3>3
      <3>6. HoldsPending'
        BY <3>1, <3>2, <3>3
      <3>7. ListedStored'
        BY <3>1, <3>2, <3>3 DEF AfterEvent
      <3> QED
        BY <3>4, <3>5, <3>6, <3>7
    <2>10. CASE Backoff(d)
      <3>1. /\ drain[d].event \in payload
            /\ attemptCount' = [attemptCount EXCEPT ![drain[d].event] = drain[d].count]
            /\ drain[d].count \in 0..(MaxAttempts - 1)
            /\ payload' = payload /\ pending' = pending /\ due' = due \ {drain[d].event}
            /\ UNCHANGED <<dlq, ghosts>>
        BY <2>10 DEF Backoff, reschedule, Write
      <3>2. /\ drain' = [drain EXCEPT ![d] = AfterEvent(d)]
            /\ drain'[d].pc \in {"idle", "next"} /\ AfterEvent(d) \in Drain
        BY <2>10 DEF Backoff, AfterEvent
      <3>3. \A o \in Drains \ {d} : drain'[o] = drain[o] /\ ~Running(o)
        BY <2>10, <3>2 DEF Backoff
      <3>4. TypeOK'
        BY <3>1, <3>2
      <3>5. OneRunning' /\ CountsRight' /\ KeysAgree'
        BY <3>1, <3>2, <3>3
      <3>6. HoldsPending'
        BY <3>1, <3>2, <3>3
      <3>7. ListedStored'
        BY <3>1, <3>2, <3>3 DEF AfterEvent
      <3> QED
        BY <3>4, <3>5, <3>6, <3>7
    <2>11. CASE DeadLetter(d)
      <3>1. /\ drain[d].event \in payload
            /\ payload' = payload \ {drain[d].event} /\ pending' = pending \ {drain[d].event}
            /\ due' = due \ {drain[d].event} /\ dlq' = dlq \cup {drain[d].event}
            /\ UNCHANGED <<attemptCount, ghosts>>
        BY <2>11 DEF DeadLetter, Remove
      <3>2. /\ drain' = [drain EXCEPT ![d] = AfterEvent(d)]
            /\ drain'[d].pc \in {"idle", "next"} /\ AfterEvent(d) \in Drain
        BY <2>11 DEF DeadLetter, AfterEvent
      <3>3. \A o \in Drains \ {d} : drain'[o] = drain[o] /\ ~Running(o)
        BY <2>11, <3>2 DEF DeadLetter
      <3>4. TypeOK'
        BY <3>1, <3>2
      <3>5. OneRunning' /\ CountsRight' /\ KeysAgree'
        BY <3>1, <3>2, <3>3
      <3>6. HoldsPending'
        BY <3>1, <3>2, <3>3
      <3>7. ListedStored'
        BY <3>1, <3>2, <3>3 DEF AfterEvent
      <3> QED
        BY <3>4, <3>5, <3>6, <3>7
    <2> QED
      BY <1>3, <2>1, <2>2, <2>3, <2>4, <2>5, <2>6, <2>7, <2>8, <2>9, <2>10, <2>11 DEF DrainStep
  <1>4. ASSUME NEW d \in Drains, AdopterReceives(d) PROVE OutboxInv'
    BY <1>4 DEF AdopterReceives
  <1>5. ASSUME NEW d \in Drains, RedisRejects(d) PROVE OutboxInv'
    BY <1>5 DEF RedisRejects
  <1>6. CASE Crash
    BY <1>6 DEF Crash
  <1>7. CASE UNCHANGED vars
    BY <1>7 DEF vars
  <1> QED
    BY <1>1, <1>2, <1>3, <1>4, <1>5, <1>6, <1>7 DEF Next

\* OutboxInv holds throughout.
LEMMA OutboxInvariant == Spec => []OutboxInv
  BY OutboxInit, OutboxStep, PTL DEF Spec

\* Every reachable state of the webhook has its types: a record is rescheduled
\* only with attempts left.
THEOREM WebhookTypeCorrect == Spec => []TypeOK
  <1>1. OutboxInv => TypeOK
    BY DEF OutboxInv
  <1> QED
    BY <1>1, OutboxInvariant, PTL

-----------------------------------------------------------------------------
(* The refinement *)

\* What a step of the webhook is for one event, as the promise sees it.
LEMMA StepRefines == OutboxInv /\ [Next]_vars => [Promise!Next]_(Promise!vars)
  <1> SUFFICES ASSUME OutboxInv, [Next]_vars
               PROVE  Promise!Next \/ UNCHANGED <<state, received>>
    BY DEF Promise!vars
  <1> USE DEF OutboxInv, TypeOK, KeysAgree, outbox, ghosts
  <1> DEFINE Quiet == UNCHANGED <<payload, dlq, stored, received>>
  <1>0. Quiet => UNCHANGED <<state, received>>
    BY DEF state
  <1>1. ASSUME NEW e \in Events, Emit(e) PROVE Promise!Store(e)
    <2>1. /\ e \notin stored /\ stored' = stored \cup {e} /\ payload' = payload \cup {e}
          /\ dlq' = dlq /\ received' = received
      BY <1>1 DEF Emit, enqueue, Write
    <2>2. state[e] = "new" /\ state' = [state EXCEPT ![e] = "pending"]
      BY <2>1 DEF state
    <2> QED
      BY <2>1, <2>2 DEF Promise!Store
  <1>2. ASSUME NEW e \in Events, BecomesDue(e) PROVE Quiet
    BY <1>2 DEF BecomesDue
  <1>3. ASSUME NEW d \in Drains, DrainStep(d)
        PROVE Quiet \/ UNCHANGED <<state, received>> \/ Promise!Next
    <2> DEFINE e == drain[d].event
    <2>1. CASE Lease(d) \/ Backoff(d)
      <3>1. e \in payload /\ payload' = payload \cup {e} /\ UNCHANGED <<dlq, stored, received>>
        BY <2>1 DEF Lease, Backoff, reschedule, Write, HoldsPending, Holding
      <3>2. payload' = payload
        BY <3>1
      <3> QED
        BY <3>1, <3>2
    <2>2. CASE Complete(d)
      <3>1. /\ e \in Events
            /\ payload' = payload \ {e} /\ UNCHANGED <<dlq, stored, received>>
            /\ e \in payload => e \in received
        BY <2>2 DEF Complete, Remove, HoldsPending
      <3>2. CASE e \notin payload
        BY <3>1, <3>2 DEF state
      <3>3. CASE e \in payload
        <4>1. state[e] = "pending" /\ state' = [state EXCEPT ![e] = "delivered"]
          BY <3>1, <3>3 DEF state
        <4> QED
          BY <3>1, <3>3, <4>1 DEF Promise!Settle, Promise!Next
      <3> QED
        BY <3>2, <3>3
    <2>3. CASE DeadLetter(d)
      <3>1. /\ e \in payload /\ e \in Events
            /\ payload' = payload \ {e} /\ dlq' = dlq \cup {e} /\ UNCHANGED <<stored, received>>
        BY <2>3 DEF DeadLetter, Remove, HoldsPending, Holding
      <3>2. state[e] = "pending" /\ state' = [state EXCEPT ![e] = "dead"]
        BY <3>1 DEF state
      <3> QED
        BY <3>1, <3>2 DEF Promise!GiveUp, Promise!Next
    <2>4. CASE \/ Kick(d) \/ ListDue(d) \/ (\E x \in Events : GetRecord(d, x))
               \/ Post(d) \/ PostOk(d) \/ PostFailed(d) \/ PostRefused(d)
      BY <2>4 DEF Kick, ListDue, GetRecord, Post, PostOk, PostFailed, PostRefused
    <2> QED
      BY <1>3, <2>1, <2>2, <2>3, <2>4 DEF DrainStep
  <1>4. ASSUME NEW d \in Drains, AdopterReceives(d) PROVE Promise!Next
    <2>1. /\ drain[d].event \in payload /\ drain[d].event \in Events
          /\ received' = received \cup {drain[d].event}
          /\ UNCHANGED <<payload, dlq, stored>>
      BY <1>4 DEF AdopterReceives, HoldsPending, Holding
    <2>2. state[drain[d].event] = "pending" /\ state' = state
      BY <2>1 DEF state
    <2> QED
      BY <2>1, <2>2 DEF Promise!Receive, Promise!Next
  <1>5. ASSUME NEW d \in Drains, RedisRejects(d) PROVE Quiet
    BY <1>5 DEF RedisRejects
  <1>6. CASE Crash
    BY <1>0, <1>6 DEF Crash
  <1>7. CASE UNCHANGED vars
    BY <1>0, <1>7 DEF vars
  <1> QED
    BY <1>0, <1>1, <1>2, <1>3, <1>4, <1>5, <1>6, <1>7 DEF Next, Promise!Next

\* The webhook implements its promise: a stored event is settled only when the
\* adopter has received it or it is a dead letter, and it stays settled, for any
\* number of events, kicks, crashes and rejected Redis calls.
THEOREM WebhookImplementsOutbox == Spec => ImplementsOutbox
  <1>1. Init => Promise!Init
    BY DEF Init, Promise!Init, state
  <1> QED
    BY <1>1, OutboxInvariant, StepRefines, PTL DEF Spec, ImplementsOutbox, Promise!Spec

-----------------------------------------------------------------------------
(* What a step may do to the records *)

\* Only an emit adds a record, of a new event, and a record goes only when its
\* event has been received or becomes a dead letter.
LEMMA RecordStep ==
    ASSUME OutboxInv, [Next]_vars
    PROVE  /\ payload' \subseteq payload \cup (Events \ stored)
           /\ payload \ payload' \subseteq received' \cup dlq'
           /\ stored' \ stored \subseteq payload'
           /\ stored \subseteq stored' /\ received \subseteq received' /\ dlq \subseteq dlq'
  <1> USE DEF OutboxInv, TypeOK, KeysAgree, outbox, ghosts
  <1> DEFINE Good ==
           /\ payload' \subseteq payload \cup (Events \ stored)
           /\ payload \ payload' \subseteq received' \cup dlq'
           /\ stored' \ stored \subseteq payload'
           /\ stored \subseteq stored' /\ received \subseteq received' /\ dlq \subseteq dlq'
  <1>1. ASSUME NEW e \in Events, Emit(e) \/ BecomesDue(e) PROVE Good
    BY <1>1 DEF Emit, enqueue, Write, BecomesDue
  <1>2. ASSUME NEW d \in Drains, DrainStep(d) PROVE Good
    <2>1. CASE Lease(d) \/ Backoff(d)
      BY <2>1 DEF Lease, Backoff, reschedule, Write, HoldsPending, Holding
    <2>2. CASE Complete(d)
      BY <2>2 DEF Complete, Remove, HoldsPending
    <2>3. CASE DeadLetter(d)
      BY <2>3 DEF DeadLetter, Remove
    <2>4. CASE \/ Kick(d) \/ ListDue(d) \/ (\E x \in Events : GetRecord(d, x))
               \/ Post(d) \/ PostOk(d) \/ PostFailed(d) \/ PostRefused(d)
      BY <2>4 DEF Kick, ListDue, GetRecord, Post, PostOk, PostFailed, PostRefused
    <2> QED
      BY <1>2, <2>1, <2>2, <2>3, <2>4 DEF DrainStep
  <1>3. ASSUME NEW d \in Drains, AdopterReceives(d) \/ RedisRejects(d) PROVE Good
    BY <1>3 DEF AdopterReceives, RedisRejects
  <1>4. CASE Crash \/ UNCHANGED vars
    BY <1>4 DEF Crash, vars
  <1> QED
    BY <1>1, <1>2, <1>3, <1>4 DEF Next

\* A stored event leaves the outbox only received or as a dead letter, for any
\* number of events, kicks and faults.
THEOREM StoredEventsKept == Spec => []NothingLost
  <1>1. Init => NothingLost
    BY DEF Init, NothingLost
  <1>2. OutboxInv /\ NothingLost /\ [Next]_vars => NothingLost'
    BY RecordStep DEF NothingLost
  <1> QED
    BY <1>1, <1>2, OutboxInvariant, PTL DEF Spec

\* No drain takes up an event again whose outcome was recorded.
THEOREM SettledOnce == Spec => SettledStaysSettled
  <1>1. OutboxInv /\ [Next]_vars =>
            [\A e \in stored : e \notin payload => e \notin payload']_vars
    BY RecordStep
  <1> QED
    BY <1>1, OutboxInvariant, PTL DEF Spec, SettledStaysSettled

-----------------------------------------------------------------------------
(* The budget of calls *)

\* A drain has called the adopter about e and the outcome is not written yet.
Owing(d, e) ==
    drain[d].event = e /\ drain[d].pc \in {"posting", "complete", "backoff", "deadLetter"}

\* The calls about e are covered by the attempts on record and the faults, but
\* for the one whose outcome is not written.
Budget ==
    \A e \in Events :
        /\ posts[e] <= attemptCount[e] + faults + 1
        /\ e \in payload /\ (\A d \in Drains : ~Owing(d, e)) =>
              posts[e] <= attemptCount[e] + faults
        /\ e \notin stored => posts[e] = 0

\* Each step keeps the budget.
LEMMA BudgetStep == OutboxInv /\ Budget /\ [Next]_vars => Budget'
  <1> SUFFICES ASSUME OutboxInv, Budget, [Next]_vars PROVE Budget'
    OBVIOUS
  <1> USE WebhookAssumption
        DEF Budget, OutboxInv, TypeOK, Drain, Idle, Steps, Owing, outbox, ghosts
  <1>1. ASSUME NEW e \in Events, Emit(e) PROVE Budget'
    BY <1>1 DEF Emit, enqueue, Write, KeysAgree
  <1>2. ASSUME NEW e \in Events, BecomesDue(e) PROVE Budget'
    BY <1>2 DEF BecomesDue
  <1>3. ASSUME NEW d \in Drains, DrainStep(d) PROVE Budget'
    <2> DEFINE e == drain[d].event
    <2>1. CASE Kick(d)
      BY <2>1 DEF Kick
    <2>2. CASE ListDue(d)
      BY <2>2 DEF ListDue
    <2>3. ASSUME NEW x \in Events, GetRecord(d, x) PROVE Budget'
      BY <2>3 DEF GetRecord
    <2>4. CASE Lease(d)
      <3>1. e \in payload /\ drain[d].count = attemptCount[e]
        BY <2>4 DEF Lease, HoldsPending, CountsRight, Holding
      <3>2. payload' = payload /\ attemptCount' = attemptCount
        BY <2>4, <3>1 DEF Lease, reschedule, Write
      <3> QED
        BY <2>4, <3>1, <3>2 DEF Lease
    <2>5. CASE Post(d)
      <3>1. e \in payload /\ e \in stored
        BY <2>5 DEF Post, HoldsPending, Holding, KeysAgree
      <3>2. \A o \in Drains : ~Owing(o, e)
        BY <2>5 DEF Post, OneRunning, Running
      <3> QED
        BY <2>5, <3>1, <3>2 DEF Post
    <2>6. CASE PostOk(d) \/ PostFailed(d) \/ PostRefused(d)
      BY <2>6 DEF PostOk, PostFailed, PostRefused
    <2>7. CASE Complete(d)
      BY <2>7 DEF Complete, Remove, AfterEvent
    <2>8. CASE Backoff(d)
      <3>1. e \in payload /\ drain[d].count = attemptCount[e] + 1
        BY <2>8 DEF Backoff, HoldsPending, CountsRight, Holding
      <3>2. /\ payload' = payload
            /\ attemptCount' = [attemptCount EXCEPT ![e] = attemptCount[e] + 1]
        BY <2>8, <3>1 DEF Backoff, reschedule, Write
      <3> QED
        BY <2>8, <3>1, <3>2 DEF Backoff, AfterEvent
    <2>9. CASE DeadLetter(d)
      BY <2>9 DEF DeadLetter, Remove, AfterEvent
    <2> QED
      BY <1>3, <2>1, <2>2, <2>3, <2>4, <2>5, <2>6, <2>7, <2>8, <2>9 DEF DrainStep
  <1>4. ASSUME NEW d \in Drains, AdopterReceives(d) PROVE Budget'
    BY <1>4 DEF AdopterReceives
  <1>5. ASSUME NEW d \in Drains, RedisRejects(d) PROVE Budget'
    BY <1>5 DEF RedisRejects
  <1>6. CASE Crash
    BY <1>6 DEF Crash
  <1>7. CASE UNCHANGED vars
    BY <1>7 DEF vars
  <1> QED
    BY <1>1, <1>2, <1>3, <1>4, <1>5, <1>6, <1>7 DEF Next

\* However drains, crashes and rejected Redis calls interleave, the adopter is
\* called about one event at most maxAttempts times plus once for each fault.
THEOREM PostsAreBounded == Spec => []PostsBounded
  <1>1. Init => Budget
    BY WebhookAssumption DEF Init, Budget, Owing, Idle
  <1>2. OutboxInv /\ Budget => PostsBounded
    BY WebhookAssumption DEF OutboxInv, TypeOK, Budget, PostsBounded
  <1> QED
    BY <1>1, <1>2, BudgetStep, OutboxInvariant, PTL DEF Spec

-----------------------------------------------------------------------------
(* One request on the wire *)

\* However many kicks overlap, the promise chain of engine/webhook/service.ts
\* lets one drain at a time reach its POST: no event is on the wire twice.
THEOREM OnePost == Spec => []OnePostAtATime
  <1>1. OutboxInv => OnePostAtATime
    BY DEF OutboxInv, OneRunning, Running, OnePostAtATime
  <1> QED
    BY <1>1, OutboxInvariant, PTL

-----------------------------------------------------------------------------
(* Dead letters *)

\* Every attempt on record, and every one a drain is about to record, was a call
\* of the adopter; a drain about to give up has its reason.
AttemptsMade ==
    /\ \A e \in Events : attemptCount[e] <= posts[e]
    /\ \A d \in Drains :
          /\ drain[d].pc = "posting" => drain[d].count < posts[drain[d].event]
          /\ drain[d].pc = "backoff" => drain[d].count <= posts[drain[d].event]
          /\ drain[d].pc = "deadLetter" =>
                drain[d].event \in refused \/ posts[drain[d].event] >= MaxAttempts

\* A drain in the middle of an event holds one.
LEMMA HoldsEvent ==
    ASSUME OutboxInv, NEW d \in Drains, drain[d].pc \in Holding
    PROVE  drain[d].event \in Events /\ drain[d].event \in payload /\ drain[d].count \in Nat
  BY DEF OutboxInv, TypeOK, HoldsPending, Drain

\* Each step keeps AttemptsMade, and DeadLetterEarned with it.
LEMMA EarnedStep ==
    OutboxInv /\ AttemptsMade /\ DeadLetterEarned /\ [Next]_vars
        => AttemptsMade' /\ DeadLetterEarned'
  <1> SUFFICES ASSUME OutboxInv, AttemptsMade, DeadLetterEarned, [Next]_vars
               PROVE  AttemptsMade' /\ DeadLetterEarned'
    OBVIOUS
  <1> DEFINE Kept == AttemptsMade' /\ DeadLetterEarned'
  <1> USE WebhookAssumption, HoldsEvent
        DEF AttemptsMade, DeadLetterEarned, OutboxInv, TypeOK, Drain, Idle, Steps, Holding,
            outbox, ghosts
  <1>1. ASSUME NEW e \in Events, Emit(e) PROVE Kept
    BY <1>1 DEF Emit, enqueue, Write
  <1>2. ASSUME NEW e \in Events, BecomesDue(e) PROVE Kept
    BY <1>2 DEF BecomesDue
  <1>3. ASSUME NEW d \in Drains, DrainStep(d) PROVE Kept
    <2> DEFINE e == drain[d].event
    <2>1. CASE Kick(d)
      BY <2>1 DEF Kick
    <2>2. CASE ListDue(d)
      BY <2>2 DEF ListDue
    <2>3. ASSUME NEW x \in Events, GetRecord(d, x) PROVE Kept
      BY <2>3 DEF GetRecord
    <2>4. CASE Lease(d)
      <3>1. e \in Events /\ drain[d].count = attemptCount[e]
        BY <2>4 DEF Lease, CountsRight
      <3>2. attemptCount' = attemptCount
        BY <2>4, <3>1 DEF Lease, reschedule, Write
      <3> QED
        BY <2>4, <3>2 DEF Lease
    <2>5. CASE Post(d)
      <3>1. e \in Events /\ drain[d].count = attemptCount[e]
        BY <2>5 DEF Post, CountsRight
      <3>2. \A x \in Events : posts[x] <= posts'[x]
        BY <2>5 DEF Post
      <3>3. /\ drain'[d].count < posts'[e] /\ drain'[d].event = e /\ drain'[d].pc = "posting"
            /\ \A o \in Drains \ {d} : drain'[o] = drain[o] /\ drain[o].pc \notin Holding
        BY <2>5, <3>1 DEF Post, OneRunning, Running
      <3> QED
        BY <2>5, <3>2, <3>3 DEF Post
    <2>6. CASE PostOk(d)
      BY <2>6 DEF PostOk
    <2>7. CASE PostFailed(d)
      BY <2>7 DEF PostFailed, exhausted
    <2>8. CASE PostRefused(d)
      BY <2>8 DEF PostRefused
    <2>9. CASE Complete(d)
      BY <2>9 DEF Complete, Remove, AfterEvent
    <2>10. CASE Backoff(d)
      <3>1. e \in Events /\ drain[d].count <= posts[e] /\ drain[d].count \in Nat
        BY <2>10 DEF Backoff
      <3>2. attemptCount' = [attemptCount EXCEPT ![e] = drain[d].count]
        BY <2>10 DEF Backoff, reschedule, Write
      <3> QED
        BY <2>10, <3>1, <3>2 DEF Backoff, AfterEvent
    <2>11. CASE DeadLetter(d)
      BY <2>11 DEF DeadLetter, Remove, AfterEvent
    <2> QED
      BY <1>3, <2>1, <2>2, <2>3, <2>4, <2>5, <2>6, <2>7, <2>8, <2>9, <2>10, <2>11
         DEF DrainStep
  <1>4. ASSUME NEW d \in Drains, AdopterReceives(d) PROVE Kept
    BY <1>4 DEF AdopterReceives
  <1>5. ASSUME NEW d \in Drains, RedisRejects(d) PROVE Kept
    BY <1>5 DEF RedisRejects
  <1>6. CASE Crash
    BY <1>6 DEF Crash
  <1>7. CASE UNCHANGED vars
    BY <1>7 DEF vars
  <1> QED
    BY <1>1, <1>2, <1>3, <1>4, <1>5, <1>6, <1>7 DEF Next

\* An event becomes a dead letter only after the adopter refused it or was called
\* maxAttempts times: no fault between a POST and the write of its outcome
\* (_onFailure, engine/webhook/service.ts) makes the record run ahead of the calls.
THEOREM DeadLettersEarned == Spec => []DeadLetterEarned
  <1>1. Init => AttemptsMade /\ DeadLetterEarned
    BY DEF Init, AttemptsMade, DeadLetterEarned, Idle
  <1> QED
    BY <1>1, EarnedStep, OutboxInvariant, PTL DEF Spec
=============================================================================
