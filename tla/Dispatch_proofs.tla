-------------------------- MODULE Dispatch_proofs ---------------------------
(***************************************************************************)
(* Proofs about Dispatch, for any messages, queues and cancel requests,    *)
(* any interval and any number of passes, retries and process ends.        *)
(***************************************************************************)
EXTENDS Dispatch, TLAPS

Request ==
    [at: {"asked", "read", "claim", "over"}, keys: SUBSET Messages,
     claims: SUBSET (Messages \X {"ready", "retry"}), purges: SUBSET Messages,
     refused: BOOLEAN, stored: SUBSET Messages,
     result: Results \cup {"none"}]

\* A message that may be picked has an attempt left.
AttemptsLeft ==
    \A m \in Messages : place[m] \in {"new", "ready", "retry"} => attempts[m] <= MaxRetries

TypeInv == TypeOK /\ AttemptsLeft

-----------------------------------------------------------------------------
(* The requests *)

LEMMA NoRequestOK == NoRequest \in Request
  BY DEF NoRequest, Request

LEMMA AnsweredOK ==
  ASSUME NEW r \in Request, NEW result \in Results PROVE Answered(r, result) \in Request
  BY NoRequestOK DEF Answered, NoRequest, Request

LEMMA SettledOK == ASSUME NEW r \in Request PROVE Settled(r) \in Request
  BY AnsweredOK DEF Settled, Results

\* A step that leaves the requests alone or gives one of them a new record.
LEMMA OneRequest ==
  ASSUME cancel \in [Requests -> Request], NEW k \in Requests, NEW r \in Request,
         cancel' = [cancel EXCEPT ![k] = r]
  PROVE  cancel' \in [Requests -> Request]
  OBVIOUS

-----------------------------------------------------------------------------
(* Type correctness *)

LEMMA InitTyped == Init => TypeInv
  <1> SUFFICES ASSUME Init PROVE TypeInv
    OBVIOUS
  <1> USE DispatchAssumption DEF Init, NoPass
  <1>1. place \in [Messages -> Places] /\ AttemptsLeft /\ attempts \in [Messages -> 0..MaxRetries + 1]
    BY DEF Places, AttemptsLeft
  <1>2. cancel \in [Requests -> Request]
    BY NoRequestOK
  <1>3. lock \in [Queues -> 0..minIntervalMs] /\ admitting \in [Queues -> Nat]
        /\ picking \in [Queues -> Nat] /\ picks \in [Queues -> Nat]
    OBVIOUS
  <1>4. index \in [Ids \X Phases -> Messages \cup {NoMsg}]
    OBVIOUS
  <1>5. now \in 0..MaxClock /\ faults \in 0..MaxFaults /\ ticks \in 0..MaxTicks
    OBVIOUS
  <1> QED
    BY <1>1, <1>2, <1>3, <1>4, <1>5 DEF TypeInv, TypeOK, Request

\* Actions of the passes.
LEMMA PassesTyped ==
  ASSUME TypeInv,
         \/ \E m \in Messages : Enqueue(m)
         \/ StartTick \/ EndTick \/ List
         \/ \E q \in Queues : Work(q)
         \/ \E m \in Messages : StartSend(m)
  PROVE  TypeInv'
  <1> USE DispatchAssumption
      DEF TypeInv, TypeOK, AttemptsLeft, Places, redis, passes, engine, process
  <1>1. ASSUME NEW m \in Messages, Enqueue(m) PROVE TypeInv'
    BY <1>1 DEF Enqueue, Distribute, Ids, Phases
  <1>2. ASSUME StartTick PROVE TypeInv'
    BY <1>2 DEF StartTick
  <1>3. ASSUME EndTick PROVE TypeInv'
    <2>1. listing' \in Nat /\ UNCHANGED <<admitting, picking, emitting>>
      BY <1>3 DEF EndTick, Distribute
    <2>2. ticks' \in 0..MaxTicks
          /\ UNCHANGED <<redis, canKick, timers, relisting, inFlight, process, cancel, now, picks, faults>>
      BY <1>3 DEF EndTick
    <2> QED
      BY <2>1, <2>2
  <1>4. ASSUME List PROVE TypeInv'
    BY <1>4 DEF List
  <1>5. ASSUME NEW q \in Queues, Admit(q) PROVE TypeInv'
    BY <1>5 DEF Admit
  <1>6. ASSUME NEW q \in Queues, PickNothing(q) PROVE TypeInv'
    BY <1>6 DEF PickNothing
  <1>7. ASSUME NEW q \in Queues, NEW m \in Messages, Pick(q, m) PROVE TypeInv'
    <2>1. place[m] = "ready" /\ m \in Messages
      BY <1>7 DEF Pick, Foremost, ReadyIn
    <2>2. attempts[m] + 1 \in 0..MaxRetries + 1
      BY <2>1
    <2>3. AttemptsLeft'
      BY <1>7 DEF Pick
    <2> QED
      BY <1>7, <2>2, <2>3 DEF Pick
  <1>8. ASSUME NEW m \in Messages, StartSend(m) PROVE TypeInv'
    BY <1>8 DEF StartSend
  <1> QED
    BY <1>1, <1>2, <1>3, <1>4, <1>5, <1>6, <1>7, <1>8 DEF Work

LEMMA PurgeTyped ==
  ASSUME TypeInv, NEW m \in Messages, Purge(m)
  PROVE  place' \in [Messages -> Places] /\ index' \in [Ids \X Phases -> Messages \cup {NoMsg}]
  BY DispatchAssumption DEF TypeInv, TypeOK, Purge, Unindexed, Places, Ids, Phases

LEMMA RetryOrFailTyped ==
  ASSUME TypeInv, NEW m \in Messages, RetryOrFail(m), attempts' = attempts
  PROVE  /\ place' \in [Messages -> Places] /\ index' \in [Ids \X Phases -> Messages \cup {NoMsg}]
         /\ AttemptsLeft'
  <1>1. CASE mayRetry(m)
    BY <1>1 DEF RetryOrFail, mayRetry, TypeInv, TypeOK, AttemptsLeft, Places
  <1>2. CASE ~mayRetry(m)
    BY <1>2, PurgeTyped DEF RetryOrFail, Purge, TypeInv, TypeOK, AttemptsLeft, Places
  <1> QED
    BY <1>1, <1>2

LEMMA FailedTyped ==
  ASSUME TypeInv, NEW m \in Messages, Failed(m), attempts' = attempts
  PROVE  /\ place' \in [Messages -> Places] /\ index' \in [Ids \X Phases -> Messages \cup {NoMsg}]
         /\ AttemptsLeft' /\ faults' \in 0..MaxFaults
  <1>1. faults' \in 0..MaxFaults
    BY DispatchAssumption DEF Failed, TypeInv, TypeOK
  <1>2. CASE RetryOrFail(m)
    BY <1>1, <1>2, RetryOrFailTyped
  <1>3. CASE Purge(m)
    BY <1>1, <1>3, PurgeTyped DEF Purge, TypeInv, TypeOK, AttemptsLeft, Places
  <1> QED
    BY <1>2, <1>3 DEF Failed

\* What happens to a message after its send.
LEMMA MessagesTyped ==
  ASSUME TypeInv, NEW m \in Messages,
         Settle(m) \/ AfterSent(m) \/ NsDeadline(m) \/ Requeue(m) \/ Relist(m)
  PROVE  TypeInv'
  <1> USE DispatchAssumption DEF TypeInv, redis, passes, engine, process
  <1>1. CASE Settle(m)
    <2>1. CASE Failed(m)
      BY <1>1, <2>1, FailedTyped DEF Settle, TypeOK
    <2>2. CASE place' = [place EXCEPT ![m] = "sent"] /\ UNCHANGED <<index, faults>>
      BY <1>1, <2>2 DEF Settle, TypeOK, AttemptsLeft, Places
    <2> QED
      BY <1>1, <2>1, <2>2 DEF Settle
  <1>2. CASE AfterSent(m)
    <2>1. CASE Failed(m)
      BY <1>2, <2>1, FailedTyped DEF AfterSent, TypeOK
    <2>2. CASE Purge(m) /\ UNCHANGED faults
      <3>1. AttemptsLeft'
        BY <1>2, <2>2 DEF AfterSent, Purge, TypeOK, AttemptsLeft
      <3> QED
        BY <1>2, <2>2, <3>1, PurgeTyped DEF AfterSent, TypeOK
    <2> QED
      BY <1>2, <2>1, <2>2 DEF AfterSent
  <1>3. CASE NsDeadline(m)
    BY <1>3, RetryOrFailTyped DEF NsDeadline, TypeOK
  <1>4. CASE Requeue(m)
    BY <1>4 DEF Requeue, TypeOK, AttemptsLeft, Places
  <1>5. CASE Relist(m)
    BY <1>5 DEF Relist, TypeOK, AttemptsLeft
  <1> QED
    BY <1>1, <1>2, <1>3, <1>4, <1>5

\* What the cancels do.
LEMMA RequestsTyped ==
  ASSUME TypeInv, NEW k \in Requests, Lookup(k) \/ RequestStep(k)
  PROVE  TypeInv'
  <1> USE DEF TypeInv, redis, engine, passes, process
  <1>0. cancel \in [Requests -> Request] /\ cancel[k] \in Request
    BY DEF TypeOK, Request
  <1>1. CASE Lookup(k)
    <2> DEFINE keys    == messageKeys(asks[k])
               request == [NoRequest EXCEPT !.keys = keys,
                              !.stored = {m \in Messages : correlation[m] = asks[k] /\ place[m] # "new"}]
    <2>0. \A ph \in Phases : index[<<asks[k], ph>>] \in Messages \cup {NoMsg}
      BY DispatchAssumption DEF TypeOK
    <2>1. keys \subseteq Messages
      BY <2>0 DEF messageKeys, indexPhases
    <2>2. request \in Request /\ [request EXCEPT !.at = "read"] \in Request
      BY <2>1, NoRequestOK DEF Request
    <2>3. Answered(request, "NOT_FOUND") \in Request
      BY <2>2, AnsweredOK DEF Results
    <2>4. cancel' \in [Requests -> Request]
      BY <1>0, <1>1, <2>2, <2>3 DEF Lookup
    <2> QED
      BY <1>1, <2>4 DEF Lookup, TypeOK, AttemptsLeft, Request
  <1>2. CASE Read(k)
    <2> DEFINE found   == {m \in cancel[k].keys : Exists(m)}
               open    == {m \in found : Cancellable(m)}
               request == [cancel[k] EXCEPT !.at = "claim", !.claims = {<<m, QueueOf(m)>> : m \in open},
                                            !.refused = (open # found)]
    <2>1. {<<m, QueueOf(m)>> : m \in open} \subseteq Messages \X {"ready", "retry"}
      BY <1>0 DEF QueueOf, Request
    <2>2. request \in Request
      BY <1>0, <2>1 DEF Request
    <2>3. Answered(cancel[k], "NOT_FOUND") \in Request /\ Settled(request) \in Request
      BY <1>0, <2>2, AnsweredOK, SettledOK DEF Results
    <2>4. cancel' \in [Requests -> Request]
      BY <1>0, <1>2, <2>3 DEF Read
    <2> QED
      BY <1>2, <2>4 DEF Read, TypeOK, AttemptsLeft, Request
  <1>3. CASE Claim(k)
    <2>1. PICK c \in cancel[k].claims :
             LET rest == [cancel[k] EXCEPT !.claims = @ \ {c}]
             IN  IF place[c[1]] = c[2]
                 THEN /\ place' = [place EXCEPT ![c[1]] = "claimed"]
                      /\ cancel' = [cancel EXCEPT ![k] = [rest EXCEPT !.purges = @ \cup {c[1]}]]
                 ELSE /\ cancel' = [cancel EXCEPT ![k] = Settled([rest EXCEPT !.refused = TRUE])]
                      /\ UNCHANGED place
      BY <1>3 DEF Claim
    <2> DEFINE rest == [cancel[k] EXCEPT !.claims = @ \ {c}]
    <2>2. c[1] \in Messages
      BY <1>0 DEF Request
    <2>3. /\ [rest EXCEPT !.purges = @ \cup {c[1]}] \in Request
          /\ [rest EXCEPT !.refused = TRUE] \in Request
      BY <1>0, <2>2 DEF Request
    <2>4. Settled([rest EXCEPT !.refused = TRUE]) \in Request
      BY <2>3, SettledOK
    <2>5. cancel' \in [Requests -> Request]
      BY <1>0, <2>1, <2>3, <2>4
    <2>6. place' \in [Messages -> Places] /\ AttemptsLeft'
      BY <1>3, <2>1, <2>2 DEF Claim, TypeOK, Places, AttemptsLeft
    <2> QED
      BY <1>3, <2>5, <2>6 DEF Claim, TypeOK, Request
  <1>4. CASE PurgeClaimed(k)
    <2>1. PICK m \in cancel[k].purges :
             Purge(m) /\ cancel' = [cancel EXCEPT ![k] = Settled([cancel[k] EXCEPT !.purges = @ \ {m}])]
      BY <1>4 DEF PurgeClaimed
    <2> DEFINE rest == [cancel[k] EXCEPT !.purges = @ \ {m}]
    <2>2. m \in Messages /\ rest \in Request
      BY <1>0 DEF Request
    <2>6. cancel' = [cancel EXCEPT ![k] = Settled(rest)]
      BY <1>0, <2>1
    <2>3. Settled(rest) \in Request
      <3> HIDE DEF rest
      <3> QED
        BY <2>2, SettledOK
    <2>5. cancel' \in [Requests -> Request]
      <3> HIDE DEF rest
      <3> QED
        BY <1>0, <2>3, <2>6
    <2>4. AttemptsLeft'
      BY <1>4, <2>1, <2>2 DEF PurgeClaimed, Purge, AttemptsLeft, TypeOK
    <2> QED
      BY <1>4, <2>1, <2>2, <2>4, <2>5, PurgeTyped DEF PurgeClaimed, TypeOK, Request
  <1> QED
    BY <1>1, <1>2, <1>3, <1>4 DEF RequestStep

\* Time, and the end of a process.
LEMMA ProcessTyped ==
  ASSUME TypeInv, Elapse \/ Signal \/ DrainReturns \/ Exit \/ Crash \/ Boot
  PROVE  TypeInv'
  <1> USE DispatchAssumption DEF TypeInv, redis, passes, engine, process
  <1>1. ASSUME Elapse PROVE TypeInv'
    BY <1>1 DEF Elapse, TypeOK, AttemptsLeft
  <1>2. ASSUME Signal PROVE TypeInv'
    <2>1. quiet' \in BOOLEAN
      BY <1>2 DEF Signal
    <2>2. faults' \in 0..MaxFaults /\ canKick' = FALSE /\ timers' = FALSE /\ shutdown' = "draining"
      BY <1>2 DEF Signal, stopEnqueueKick, TypeOK
    <2>3. UNCHANGED <<redis, ticks, passes, relisting, inFlight, spent, calls, cancel, now, picks>>
      BY <1>2 DEF Signal
    <2> QED
      BY <2>1, <2>2, <2>3 DEF TypeOK, AttemptsLeft
  <1>3. ASSUME DrainReturns PROVE TypeInv'
    BY <1>3 DEF DrainReturns, TypeOK, AttemptsLeft
  <1>4. ASSUME Die, faults' \in 0..MaxFaults PROVE TypeInv'
    <2>1. cancel' \in [Requests -> Request]
      <3>1. [NoRequest EXCEPT !.at = "over"] \in Request
        BY NoRequestOK DEF Request
      <3>2. cancel \in [Requests -> Request]
        BY DEF TypeOK, Request
      <3> QED
        BY <1>4, <3>1, <3>2 DEF Die
    <2>2. ticks' \in 0..MaxTicks
      BY <1>4, DispatchAssumption DEF Die
    <2> QED
      BY <1>4, <2>1, <2>2 DEF Die, TypeOK, AttemptsLeft, Request
  <1>5. ASSUME Exit PROVE TypeInv'
    BY <1>4, <1>5 DEF Exit, TypeOK
  <1>6. ASSUME Crash PROVE TypeInv'
    <2>1. faults' \in 0..MaxFaults
      BY <1>6 DEF Crash, TypeOK
    <2> QED
      BY <1>4, <1>6, <2>1 DEF Crash
  <1>7. ASSUME Boot PROVE TypeInv'
    BY <1>7 DEF Boot, TypeOK, AttemptsLeft
  <1> QED
    BY <1>1, <1>2, <1>3, <1>5, <1>6, <1>7

LEMMA NextTyped == TypeInv /\ [Next]_vars => TypeInv'
  <1> SUFFICES ASSUME TypeInv, [Next]_vars PROVE TypeInv'
    OBVIOUS
  <1>1. CASE UNCHANGED vars
    BY <1>1 DEF TypeInv, TypeOK, AttemptsLeft, vars
  <1> QED
    BY <1>1, PassesTyped, MessagesTyped, RequestsTyped, ProcessTyped DEF Next

\* The variables keep their types; in particular a message is never picked more
\* often than a first attempt and its retries (outgoing.ts, base.ts retryOrFail).
THEOREM DispatchTypeCorrect == Spec => []TypeOK
  <1>1. TypeInv => TypeOK
    BY DEF TypeInv
  <1> QED
    BY <1>1, InitTyped, NextTyped, PTL DEF Spec

LEMMA TypeInvariant == Spec => []TypeInv
  BY InitTyped, NextTyped, PTL DEF Spec

-----------------------------------------------------------------------------
(* The rate *)

\* What a queue has yielded, and what admitted passes may still take from it, is
\* paid for by the time gone by and by what is left of the lock.
RateInv ==
    now < MaxClock =>
        \A q \in Queues : (picks[q] + picking[q]) * minIntervalMs <= now + lock[q]

LEMMA OneMore == ASSUME NEW x \in Nat, NEW i \in Nat PROVE (x + 1) * i = x * i + i
  OBVIOUS

LEMMA NoMore == ASSUME NEW x \in Nat, NEW y \in Nat, NEW i \in Nat, x <= y PROVE x * i <= y * i
  OBVIOUS

\* Most steps neither pick nor admit nor let time pass.
LEMMA SameRate ==
  ASSUME RateInv, UNCHANGED <<now, picks, picking, lock>> PROVE RateInv'
  BY DEF RateInv

\* Passes that end without a message give their admission up.
LEMMA LowerRate ==
  ASSUME TypeInv, RateInv, UNCHANGED <<now, picks, lock>>,
         picking' \in [Queues -> Nat], \A q \in Queues : picking'[q] <= picking[q]
  PROVE  RateInv'
  <1> SUFFICES ASSUME now < MaxClock, NEW q \in Queues
               PROVE  (picks[q] + picking'[q]) * minIntervalMs <= now + lock[q]
    BY DEF RateInv
  <1>1. picks[q] + picking'[q] \in Nat /\ picks[q] + picking[q] \in Nat /\ minIntervalMs \in Nat
        /\ picks[q] + picking'[q] <= picks[q] + picking[q]
    BY DispatchAssumption DEF TypeInv, TypeOK
  <1>2. (picks[q] + picking'[q]) * minIntervalMs <= (picks[q] + picking[q]) * minIntervalMs
    BY <1>1, NoMore
  <1>3. (picks[q] + picking[q]) * minIntervalMs <= now + lock[q]
    BY DEF RateInv
  <1>4. now + lock[q] \in Int /\ (picks[q] + picking[q]) * minIntervalMs \in Int
        /\ (picks[q] + picking'[q]) * minIntervalMs \in Int
    BY <1>1, DispatchAssumption DEF TypeInv, TypeOK
  <1> QED
    BY <1>2, <1>3, <1>4

LEMMA AdmitRate ==
  ASSUME TypeInv, RateInv, NEW a \in Queues, Admit(a)
  PROVE  RateInv'
  <1>1. CASE ~lockQueueForTimeMs(a)
    BY <1>1, SameRate DEF Admit
  <1>2. CASE lockQueueForTimeMs(a)
    <2> SUFFICES ASSUME now < MaxClock, NEW q \in Queues
                 PROVE  (picks[q] + picking'[q]) * minIntervalMs <= now + lock'[q]
      BY <1>2 DEF Admit, RateInv
    <2>1. lock' = [lock EXCEPT ![a] = minIntervalMs] /\ picking' = [picking EXCEPT ![a] = @ + 1]
          /\ lock[a] = 0
      BY <1>2 DEF Admit, lockQueueForTimeMs
    <2>2. (picks[q] + picking[q]) * minIntervalMs <= now + lock[q]
      BY DEF RateInv
    <2>3. picks[q] \in Nat /\ picking[q] \in Nat /\ minIntervalMs \in Nat /\ now \in Nat
      BY DispatchAssumption DEF TypeInv, TypeOK
    <2>4. CASE q = a
      <3>1. (picks[q] + picking[q] + 1) * minIntervalMs = (picks[q] + picking[q]) * minIntervalMs + minIntervalMs
        BY <2>3, OneMore
      <3>2. picks[q] + picking'[q] = picks[q] + picking[q] + 1 /\ lock'[q] = minIntervalMs
        BY <2>1, <2>3, <2>4 DEF TypeInv, TypeOK
      <3>3. (picks[q] + picking[q]) * minIntervalMs <= now
        BY <2>1, <2>2, <2>3, <2>4
      <3>4. (picks[q] + picking[q]) * minIntervalMs \in Int
        BY <2>3
      <3> QED
        BY <2>3, <3>1, <3>2, <3>3, <3>4
    <2>5. CASE q # a
      BY <2>1, <2>2, <2>5 DEF TypeInv, TypeOK
    <2> QED
      BY <2>4, <2>5
  <1> QED
    BY <1>1, <1>2

LEMMA PickRate ==
  ASSUME TypeInv, RateInv, NEW a \in Queues, NEW m \in Messages, Pick(a, m)
  PROVE  RateInv'
  <1>1. \A q \in Queues : picks'[q] + picking'[q] = picks[q] + picking[q]
    BY DEF Pick, TypeInv, TypeOK
  <1> QED
    BY <1>1 DEF Pick, RateInv

LEMMA ElapseRate == ASSUME TypeInv, RateInv, Elapse PROVE RateInv'
  <1> SUFFICES ASSUME now' < MaxClock, NEW q \in Queues
               PROVE  (picks[q] + picking[q]) * minIntervalMs <= now' + lock'[q]
    BY DEF Elapse, RateInv, redis, passes, engine
  <1>1. now \in Nat /\ lock[q] \in Nat /\ MaxClock \in Nat /\ minIntervalMs \in Nat
        /\ picks[q] \in Nat /\ picking[q] \in Nat
    BY DispatchAssumption DEF TypeInv, TypeOK
  <1>2. now < MaxClock /\ now' = now + 1 /\ lock'[q] = IF lock[q] > 0 THEN lock[q] - 1 ELSE 0
    BY <1>1 DEF Elapse
  <1>3. (picks[q] + picking[q]) * minIntervalMs <= now + lock[q]
    BY <1>2 DEF RateInv
  <1>4. (picks[q] + picking[q]) * minIntervalMs \in Int
    BY <1>1
  <1>5. now' + lock'[q] \in Int /\ now + lock[q] <= now' + lock'[q]
    BY <1>1, <1>2
  <1> QED
    BY <1>1, <1>3, <1>4, <1>5

LEMMA NextRate == TypeInv /\ RateInv /\ [Next]_vars => RateInv'
  <1> SUFFICES ASSUME TypeInv, RateInv, [Next]_vars PROVE RateInv'
    OBVIOUS
  <1> USE SameRate DEF redis, passes, engine, process
  <1>1. ASSUME NEW m \in Messages,
               \/ Enqueue(m) \/ Settle(m) \/ AfterSent(m) \/ NsDeadline(m) \/ Requeue(m)
               \/ Relist(m) \/ StartSend(m)
        PROVE  RateInv'
    BY <1>1 DEF Enqueue, Distribute, Settle, AfterSent, NsDeadline, Requeue, Relist, StartSend
  <1>2. ASSUME StartTick \/ EndTick \/ List PROVE RateInv'
    BY <1>2 DEF StartTick, EndTick, Distribute, List
  <1>3. ASSUME NEW q \in Queues, PickNothing(q) PROVE RateInv'
    <2>1. picking' \in [Queues -> Nat] /\ \A o \in Queues : picking'[o] <= picking[o]
      BY <1>3 DEF PickNothing, TypeInv, TypeOK
    <2> QED
      BY <1>3, <2>1, LowerRate DEF PickNothing
  <1>4. ASSUME NEW k \in Requests, Lookup(k) \/ RequestStep(k) PROVE RateInv'
    BY <1>4 DEF Lookup, RequestStep, Read, Claim, PurgeClaimed
  <1>5. ASSUME Signal \/ DrainReturns \/ Boot PROVE RateInv'
    BY <1>5 DEF Signal, DrainReturns, Boot
  <1>6. ASSUME Die PROVE RateInv'
    <2>1. picking' \in [Queues -> Nat] /\ \A o \in Queues : picking'[o] <= picking[o]
      BY <1>6 DEF Die, TypeInv, TypeOK
    <2> QED
      BY <1>6, <2>1, LowerRate DEF Die
  <1>7. CASE UNCHANGED vars
    BY <1>7 DEF vars
  <1> QED
    BY <1>1, <1>2, <1>3, <1>4, <1>5, <1>6, <1>7, AdmitRate, PickRate, ElapseRate
       DEF Next, Work, Exit, Crash

\* However many passes overlap, whenever they were admitted and however late they
\* pick, a queue yields no more than one message per interval and one in advance
\* (outgoing.ts _canAdmit and the spacing lock of admission-store.ts).
THEOREM RateKept == Spec => []PicksWithinRate
  <1>1. Init => RateInv
    BY DispatchAssumption DEF Init, NoPass, RateInv
  <1>2. TypeInv /\ RateInv => PicksWithinRate
    <2> SUFFICES ASSUME TypeInv, RateInv, now < MaxClock, NEW q \in Queues
                 PROVE  picks[q] * minIntervalMs <= now + minIntervalMs
      BY DEF PicksWithinRate
    <2>1. picks[q] \in Nat /\ picking[q] \in Nat /\ minIntervalMs \in Nat /\ now \in Nat
          /\ lock[q] \in Nat /\ lock[q] <= minIntervalMs
      BY DispatchAssumption DEF TypeInv, TypeOK
    <2>2. picks[q] * minIntervalMs <= (picks[q] + picking[q]) * minIntervalMs
      BY <2>1, NoMore
    <2>3. (picks[q] + picking[q]) * minIntervalMs <= now + lock[q]
      BY DEF RateInv
    <2>4. picks[q] * minIntervalMs \in Int /\ (picks[q] + picking[q]) * minIntervalMs \in Int
      BY <2>1
    <2> QED
      BY <2>1, <2>2, <2>3, <2>4
  <1>3. Spec => []RateInv
    BY <1>1, NextRate, TypeInvariant, PTL DEF Spec
  <1> QED
    BY <1>2, <1>3, TypeInvariant, PTL

-----------------------------------------------------------------------------
(* The orderly shutdown *)

\* From the signal on nothing starts a pass any more.
StartersStopped == shutdown # "up" => ~canKick /\ ~timers

\* If nothing was running at the signal, nothing is; and the drain has returned
\* with its budget left only because nothing was tracked any more.
QuietSince ==
    quiet /\ shutdown \in {"draining", "closing"} =>
        /\ ticks = 0 /\ NoPass
        /\ shutdown = "closing" /\ ~spent => inFlight = {}

ShutdownInv == StartersStopped /\ QuietSince

\* Steps that start no pass and track no send.
LEMMA StaysQuiet ==
  ASSUME ShutdownInv, UNCHANGED <<shutdown, quiet, spent, canKick, timers, passes>>,
         ticks' = ticks, inFlight' \subseteq inFlight
  PROVE  ShutdownInv'
  BY DEF ShutdownInv, StartersStopped, QuietSince, NoPass, passes

\* Before the signal, and after the exit, there is nothing to show.
LEMMA NotClosing ==
  ASSUME shutdown' \in {"up", "down"}, shutdown' # "up" => ~canKick' /\ ~timers'
  PROVE  ShutdownInv'
  BY DEF ShutdownInv, StartersStopped, QuietSince

\* While the process is not shutting down quietly, anything may go on.
LEMMA NotQuiet ==
  ASSUME ShutdownInv, UNCHANGED <<shutdown, quiet, canKick, timers>>,
         ~quiet \/ shutdown \notin {"draining", "closing"}
  PROVE  ShutdownInv'
  BY DEF ShutdownInv, StartersStopped, QuietSince

LEMMA NextQuiet == TypeInv /\ ShutdownInv /\ [Next]_vars => ShutdownInv'
  <1> SUFFICES ASSUME TypeInv, ShutdownInv, [Next]_vars PROVE ShutdownInv'
    OBVIOUS
  <1> USE DEF redis, passes, engine, process
  <1>a. (quiet /\ shutdown \in {"draining", "closing"}) => ticks = 0 /\ ~canKick /\ ~timers /\ NoPass
    BY DEF ShutdownInv, StartersStopped, QuietSince
  <1>1. ASSUME NEW m \in Messages, Enqueue(m) PROVE ShutdownInv'
    <2>1. CASE canKick
      <3>1. ~quiet \/ shutdown \notin {"draining", "closing"}
        BY <1>a, <2>1
      <3> QED
        BY <1>1, <3>1, NotQuiet DEF Enqueue
    <2>2. CASE ~canKick
      BY <1>1, <2>2, StaysQuiet DEF Enqueue
    <2> QED
      BY <2>1, <2>2
  <1>2. ASSUME NEW m \in Messages,
               Settle(m) \/ AfterSent(m) \/ NsDeadline(m) \/ Requeue(m) \/ Relist(m)
        PROVE  ShutdownInv'
    BY <1>2, StaysQuiet DEF Settle, AfterSent, NsDeadline, Requeue, Relist
  <1>3. ASSUME NEW k \in Requests, Lookup(k) \/ RequestStep(k) PROVE ShutdownInv'
    <2>1. UNCHANGED <<engine, process>>
      BY <1>3 DEF Lookup, RequestStep, Read, Claim, PurgeClaimed
    <2> QED
      BY <2>1, StaysQuiet
  <1>4. ASSUME Elapse PROVE ShutdownInv'
    BY <1>4, StaysQuiet DEF Elapse
  <1>5. ASSUME StartTick \/ EndTick PROVE ShutdownInv'
    <2>1. ~quiet \/ shutdown \notin {"draining", "closing"}
      BY <1>a, <1>5 DEF StartTick, EndTick
    <2> QED
      BY <1>5, <2>1, NotQuiet DEF StartTick, EndTick
  <1>6. ASSUME List \/ (\E q \in Queues : Work(q)) \/ (\E m \in Messages : StartSend(m))
        PROVE  ShutdownInv'
    <2>1. ~NoPass
      <3>1. ASSUME List PROVE ~NoPass
        BY <3>1 DEF List, NoPass
      <3>2. ASSUME NEW q \in Queues, Admit(q) PROVE ~NoPass
        BY <3>2 DEF Admit, NoPass
      <3>3. ASSUME NEW q \in Queues, picking[q] > 0 PROVE ~NoPass
        BY <3>3 DEF NoPass
      <3>4. ASSUME NEW m \in Messages, StartSend(m) PROVE ~NoPass
        BY <3>4 DEF StartSend, NoPass
      <3> QED
        BY <1>6, <3>1, <3>2, <3>3, <3>4 DEF Work, PickNothing, Pick
    <2>2. UNCHANGED <<shutdown, quiet, canKick, timers>>
      BY <1>6 DEF List, Work, Admit, PickNothing, Pick, StartSend
    <2> QED
      BY <1>a, <2>1, <2>2, NotQuiet
  <1>7. ASSUME Signal PROVE ShutdownInv'
    BY <1>7 DEF Signal, stopEnqueueKick, ShutdownInv, StartersStopped, QuietSince, NoPass
  <1>8. ASSUME DrainReturns PROVE ShutdownInv'
    BY <1>8 DEF DrainReturns, ShutdownInv, StartersStopped, QuietSince, NoPass
  <1>9. ASSUME Exit \/ Crash \/ Boot PROVE ShutdownInv'
    BY <1>9, NotClosing DEF Exit, Crash, Die, Boot
  <1>10. CASE UNCHANGED vars
    BY <1>10, StaysQuiet DEF vars
  <1> QED
    BY <1>1, <1>2, <1>3, <1>4, <1>5, <1>6, <1>7, <1>8, <1>9, <1>10 DEF Next

\* However many enqueues and cancels come in meanwhile, an orderly shutdown that
\* met no running tick or pass closes Redis under no send (main.ts shutdown).
THEOREM ShutdownQuiet == Spec => []QuietShutdown
  <1>1. Init => ShutdownInv
    BY DEF Init, ShutdownInv, StartersStopped, QuietSince
  <1>2. ShutdownInv => QuietShutdown
    BY DEF ShutdownInv, QuietSince, QuietShutdown
  <1> QED
    BY <1>1, <1>2, NextQuiet, TypeInvariant, PTL DEF Spec

-----------------------------------------------------------------------------
(* Cancels *)

\* What is being sent has been picked, and is not tracked before it starts.
HeldInNs == (\A m \in Messages : Held(m) => place[m] = "ns") /\ inFlight \cap emitting = {}

\* An id given to one message of a phase finds that message as long as it exists.
IndexAgrees ==
    \A m \in Messages :
        Exists(m) /\ UsedOnce(correlation[m]) => index[<<correlation[m], phase[m]>>] = m

\* Only a request that has read the messages has any to claim or purge.
Claiming(r) == r.claims # {} \/ r.purges # {} => r.at = "claim"

\* What a cancel is about to purge was claimed by it alone.
ClaimsOwned ==
    \A k \in Requests :
        /\ Claiming(cancel[k])
        /\ \A m \in cancel[k].purges : place[m] = "claimed"
        /\ \A j \in Requests : j # k => cancel[j].purges \cap cancel[k].purges = {}

\* A message a cancel has still to deal with, or has given up.
Pending(r, m) ==
    \/ r.at = "read" /\ m \in r.keys
    \/ r.at = "claim" /\ (r.refused \/ m \in r.purges \/ \E q \in {"ready", "retry"} : <<m, q>> \in r.claims)

\* Every message stored before the request is gone or still to be dealt with.
StoredAccounted ==
    \A k \in Requests : \A m \in cancel[k].stored :
        /\ place[m] # "new"
        /\ UsedOnce(asks[k]) => place[m] = "gone" \/ Pending(cancel[k], m)

CancelInv == HeldInNs /\ IndexAgrees /\ ClaimsOwned /\ StoredAccounted

\* Messages go their way: gone is gone, a claim is kept, and nothing is unsent again.
Onward(claimed) ==
    \A m \in Messages :
        /\ place[m] = "gone" => place'[m] = "gone"
        /\ place[m] = "claimed" /\ m \in claimed => place'[m] = "claimed"
        /\ place[m] # "new" => place'[m] # "new"

\* An id used twice stays used twice.
LEMMA UsedOnceShrinks ==
  ASSUME NEW claimed, Onward(claimed), NEW id, UsedOnce(id)' PROVE UsedOnce(id)
  BY DEF UsedOnce, Onward

\* Steps that leave the requests alone keep what is known of them.
LEMMA RequestsKept ==
  ASSUME ClaimsOwned, StoredAccounted, TypeInv, Onward(Messages), cancel' = cancel
  PROVE  ClaimsOwned' /\ StoredAccounted'
  <1> USE DEF Request
  <1>1. cancel \in [Requests -> Request]
    BY DEF TypeInv, TypeOK
  <1>2. \A k \in Requests : cancel[k].purges \subseteq Messages /\ cancel[k].stored \subseteq Messages
    BY <1>1
  <1>3. ClaimsOwned'
    BY <1>2 DEF ClaimsOwned, Onward, Claiming
  <1>4. ASSUME NEW k \in Requests, NEW m \in cancel[k].stored
        PROVE  /\ place'[m] # "new"
               /\ UsedOnce(asks[k])' => place'[m] = "gone" \/ Pending(cancel[k], m)
    <2>1. UsedOnce(asks[k])' => UsedOnce(asks[k])
      BY UsedOnceShrinks
    <2>2. m \in Messages
      BY <1>2
    <2> QED
      BY <2>1, <2>2 DEF StoredAccounted, Onward
  <1> QED
    BY <1>3, <1>4 DEF StoredAccounted, Pending

\* Steps that neither store nor purge keep the index.
LEMMA IndexKept ==
  ASSUME IndexAgrees, NEW claimed, Onward(claimed), index' = index,
         \A m \in Messages : Exists(m)' => Exists(m)
  PROVE  IndexAgrees'
  <1> SUFFICES ASSUME NEW m \in Messages, Exists(m)', UsedOnce(correlation[m])'
               PROVE  index[<<correlation[m], phase[m]>>] = m
    BY DEF IndexAgrees
  <1>1. UsedOnce(correlation[m])
    BY UsedOnceShrinks
  <1> QED
    BY <1>1 DEF IndexAgrees

\* A purge deletes no entry but its own, or one whose id was used twice.
LEMMA PurgeKeepsIndex ==
  ASSUME TypeInv, IndexAgrees, NEW m \in Messages, place[m] # "new", Purge(m)
  PROVE  IndexAgrees' /\ Onward(Messages \ {m})
  <1>1. place' = [place EXCEPT ![m] = "gone"] /\ index' = [index EXCEPT ![<<correlation[m], phase[m]>>] = NoMsg]
    BY DEF Purge, Unindexed
  <1>2. Onward(Messages \ {m})
    BY <1>1 DEF Onward, TypeInv, TypeOK
  <1>3. ASSUME NEW o \in Messages, Exists(o)', UsedOnce(correlation[o])'
        PROVE  index'[<<correlation[o], phase[o]>>] = o
    <2>1. o # m /\ Exists(o)
      BY <1>1, <1>3 DEF Exists, TypeInv, TypeOK
    <2>2. UsedOnce(correlation[o])
      BY <1>2, <1>3, UsedOnceShrinks
    <2>3. <<correlation[o], phase[o]>> # <<correlation[m], phase[m]>>
      BY <2>1, <2>2 DEF UsedOnce, Exists
    <2>4. index[<<correlation[o], phase[o]>>] = o
      BY <2>1, <2>2 DEF IndexAgrees
    <2>5. <<correlation[o], phase[o]>> \in Ids \X Phases
      BY DispatchAssumption DEF Ids
    <2> QED
      BY <1>1, <2>3, <2>4, <2>5 DEF TypeInv, TypeOK
  <1> QED
    BY <1>2, <1>3 DEF IndexAgrees

\* Storing a message points the entry of its id and phase at it.
LEMMA EnqueueCancelInv ==
  ASSUME TypeInv, CancelInv, NEW m \in Messages, Enqueue(m)
  PROVE  CancelInv'
  <1> USE DEF CancelInv
  <1>1. /\ place[m] = "new" /\ place' = [place EXCEPT ![m] = "ready"]
        /\ index' = [index EXCEPT ![<<correlation[m], phase[m]>>] = m]
        /\ UNCHANGED <<inFlight, emitting, cancel>>
    BY DEF Enqueue, Distribute, passes
  <1>2. Onward(Messages)
    BY <1>1 DEF Onward, TypeInv, TypeOK
  <1>3. ASSUME NEW o \in Messages, Exists(o)', UsedOnce(correlation[o])'
        PROVE  index'[<<correlation[o], phase[o]>>] = o
    <2>1. <<correlation[o], phase[o]>> \in Ids \X Phases /\ <<correlation[m], phase[m]>> \in Ids \X Phases
      BY DispatchAssumption DEF Ids
    <2>2. CASE o = m
      BY <1>1, <2>1, <2>2 DEF TypeInv, TypeOK
    <2>3. CASE o # m
      <3>1. Exists(o) /\ UsedOnce(correlation[o])
        BY <1>1, <1>2, <1>3, <2>3, UsedOnceShrinks DEF Exists, TypeInv, TypeOK
      <3>2. place'[m] # "new" /\ place'[o] # "new"
        BY <1>1, <1>3 DEF Exists, TypeInv, TypeOK
      <3>3. <<correlation[o], phase[o]>> # <<correlation[m], phase[m]>>
        BY <1>3, <2>3, <3>2 DEF UsedOnce
      <3> QED
        BY <1>1, <2>1, <3>1, <3>3 DEF IndexAgrees, TypeInv, TypeOK
    <2> QED
      BY <2>2, <2>3
  <1>4. HeldInNs'
    BY <1>1 DEF HeldInNs, Held, TypeInv, TypeOK
  <1> QED
    BY <1>1, <1>2, <1>3, <1>4, RequestsKept DEF IndexAgrees

\* Steps that move no message.
LEMMA StillCancelInv ==
  ASSUME TypeInv, CancelInv, UNCHANGED <<place, index, cancel>>, HeldInNs'
  PROVE  CancelInv'
  <1>1. Onward(Messages)
    BY DEF Onward
  <1> QED
    BY <1>1, RequestsKept, IndexKept DEF CancelInv, Exists

LEMMA PassesCancelInv ==
  ASSUME TypeInv, CancelInv,
         \/ StartTick \/ EndTick \/ List \/ Elapse \/ Signal \/ DrainReturns \/ Boot
         \/ \E q \in Queues : Work(q)
         \/ \E m \in Messages : StartSend(m)
  PROVE  CancelInv'
  <1> USE DEF redis, passes, engine, process
  <1>1. ASSUME StartTick \/ EndTick \/ List \/ Elapse \/ Signal \/ DrainReturns \/ Boot PROVE CancelInv'
    <2>1. UNCHANGED <<place, index, cancel, inFlight, emitting>>
      BY <1>1 DEF StartTick, EndTick, Distribute, List, Elapse, Signal, DrainReturns, Boot
    <2>2. HeldInNs'
      BY <2>1 DEF CancelInv, HeldInNs, Held
    <2> QED
      BY <2>1, <2>2, StillCancelInv
  <1>2. ASSUME NEW q \in Queues, Admit(q) \/ PickNothing(q) PROVE CancelInv'
    <2>1. UNCHANGED <<place, index, cancel, inFlight, emitting>>
      BY <1>2 DEF Admit, PickNothing
    <2>2. HeldInNs'
      BY <2>1 DEF CancelInv, HeldInNs, Held
    <2> QED
      BY <2>1, <2>2, StillCancelInv
  <1>3. ASSUME NEW q \in Queues, NEW m \in Messages, Pick(q, m) PROVE CancelInv'
    <2>1. place[m] = "ready" /\ place' = [place EXCEPT ![m] = "ns"] /\ UNCHANGED <<index, cancel>>
      BY <1>3 DEF Pick, Foremost, ReadyIn
    <2>2. Onward(Messages) /\ \A o \in Messages : Exists(o)' => Exists(o)
      BY <2>1 DEF Onward, Exists, TypeInv, TypeOK
    <2>3. ~Held(m)
      BY <2>1 DEF CancelInv, HeldInNs
    <2>4. \/ emitting' = emitting \cup {m} /\ inFlight' = inFlight
          \/ inFlight' = inFlight \cup {m} /\ emitting' = emitting
      BY <1>3 DEF Pick
    <2>5. HeldInNs'
      BY <2>1, <2>3, <2>4 DEF CancelInv, HeldInNs, Held, TypeInv, TypeOK
    <2> QED
      BY <2>1, <2>2, <2>5, RequestsKept, IndexKept DEF CancelInv
  <1>4. ASSUME NEW m \in Messages, StartSend(m) PROVE CancelInv'
    <2>1. HeldInNs'
      BY <1>4 DEF StartSend, CancelInv, HeldInNs, Held
    <2> QED
      BY <1>4, <2>1, StillCancelInv DEF StartSend
  <1> QED
    BY <1>1, <1>2, <1>3, <1>4 DEF Work

\* The ways a message that was picked goes on.
MovesOn(m) ==
    \/ /\ index' = index
       /\ \E p \in {"sent", "retry", "ready"} : place' = [place EXCEPT ![m] = p]
    \/ Purge(m)

LEMMA MovedOn ==
  ASSUME TypeInv, IndexAgrees, NEW m \in Messages, place[m] \in {"ns", "sent", "retry"}, MovesOn(m)
  PROVE  IndexAgrees' /\ Onward(Messages) /\ \A o \in Messages \ {m} : place'[o] = place[o]
  <1>1. CASE Purge(m)
    <2>1. IndexAgrees' /\ Onward(Messages \ {m})
      BY <1>1, PurgeKeepsIndex
    <2>2. \A o \in Messages \ {m} : place'[o] = place[o]
      BY <1>1 DEF Purge, TypeInv, TypeOK
    <2> QED
      BY <2>1, <2>2 DEF Onward
  <1>2. CASE index' = index /\ \E p \in {"sent", "retry", "ready"} : place' = [place EXCEPT ![m] = p]
    <2>1. Onward(Messages) /\ \A o \in Messages : Exists(o)' => Exists(o)
      BY <1>2 DEF Onward, Exists, TypeInv, TypeOK
    <2> QED
      BY <1>2, <2>1, IndexKept DEF TypeInv, TypeOK
  <1> QED
    BY <1>1, <1>2 DEF MovesOn

LEMMA MessagesCancelInv ==
  ASSUME TypeInv, CancelInv, NEW m \in Messages,
         Settle(m) \/ AfterSent(m) \/ NsDeadline(m) \/ Requeue(m) \/ Relist(m)
  PROVE  CancelInv'
  <1> USE DEF redis, passes, engine, process, CancelInv
  <1>1. ASSUME place[m] \in {"ns", "sent", "retry"}, UNCHANGED <<cancel, emitting>>,
               inFlight' \subseteq inFlight, ~(m \in inFlight' \cup emitting'), MovesOn(m)
        PROVE  CancelInv'
    <2>1. IndexAgrees' /\ Onward(Messages) /\ \A o \in Messages \ {m} : place'[o] = place[o]
      BY <1>1, MovedOn
    <2>2. HeldInNs'
      BY <1>1, <2>1 DEF HeldInNs, Held
    <2> QED
      BY <1>1, <2>1, <2>2, RequestsKept
  <1>2. CASE Settle(m)
    <2>1. place[m] = "ns" /\ m \notin emitting /\ UNCHANGED <<cancel, emitting>> /\ inFlight' = inFlight \ {m}
      BY <1>2 DEF Settle, HeldInNs, Held
    <2>2. MovesOn(m)
      BY <1>2 DEF Settle, Failed, RetryOrFail, MovesOn
    <2> QED
      BY <1>1, <2>1, <2>2 DEF Held
  <1>3. CASE AfterSent(m)
    <2>1. place[m] = "sent" /\ ~Held(m) /\ UNCHANGED <<cancel, emitting, inFlight>>
      BY <1>3 DEF AfterSent, HeldInNs
    <2>2. MovesOn(m)
      BY <1>3 DEF AfterSent, Failed, RetryOrFail, MovesOn
    <2> QED
      BY <1>1, <2>1, <2>2 DEF Held
  <1>4. CASE NsDeadline(m)
    <2>1. place[m] = "ns" /\ ~Held(m) /\ UNCHANGED <<cancel, emitting, inFlight>>
      BY <1>4 DEF NsDeadline
    <2>2. MovesOn(m)
      BY <1>4 DEF NsDeadline, RetryOrFail, MovesOn
    <2> QED
      BY <1>1, <2>1, <2>2 DEF Held
  <1>5. CASE Requeue(m)
    <2>1. place[m] = "retry" /\ ~Held(m) /\ UNCHANGED <<cancel, emitting, inFlight, index>>
          /\ place' = [place EXCEPT ![m] = "ready"]
      BY <1>5 DEF Requeue, HeldInNs
    <2>2. MovesOn(m)
      BY <2>1 DEF MovesOn
    <2> QED
      BY <1>1, <2>1, <2>2 DEF Held
  <1>6. CASE Relist(m)
    <2>1. HeldInNs'
      BY <1>6 DEF Relist, HeldInNs, Held
    <2> QED
      BY <1>6, <2>1, StillCancelInv DEF Relist
  <1> QED
    BY <1>2, <1>3, <1>4, <1>5, <1>6

\* With the process its requests end, without an answer.
LEMMA DieCancelInv == ASSUME TypeInv, CancelInv, Die PROVE CancelInv'
  <1> USE DEF CancelInv, redis
  <1>1. UNCHANGED <<place, index>> /\ inFlight' = {} /\ emitting' = {}
    BY DEF Die
  <1>2. HeldInNs' /\ IndexAgrees'
    BY <1>1 DEF HeldInNs, Held, IndexAgrees, Exists, UsedOnce
  <1>3. \A k \in Requests :
           \/ cancel'[k] = cancel[k]
           \/ cancel'[k].purges = {} /\ cancel'[k].claims = {} /\ cancel'[k].stored = {}
    BY DEF Die, NoRequest, TypeInv, TypeOK
  <1>4. ClaimsOwned'
    BY <1>1, <1>3 DEF ClaimsOwned, Claiming
  <1>5. StoredAccounted'
    <2> SUFFICES ASSUME NEW k \in Requests, NEW m \in cancel'[k].stored
                 PROVE  /\ place[m] # "new"
                        /\ UsedOnce(asks[k])' => place[m] = "gone" \/ Pending(cancel'[k], m)
      BY <1>1 DEF StoredAccounted, Pending
    <2>1. cancel'[k] = cancel[k]
      BY <1>3
    <2>2. UsedOnce(asks[k])' => UsedOnce(asks[k])
      BY <1>1 DEF UsedOnce
    <2> QED
      BY <2>1, <2>2 DEF StoredAccounted
  <1> QED
    BY <1>2, <1>4, <1>5

\* StoredAccounted of one request.
Accounted(k, r) ==
    \A m \in r.stored :
        /\ place[m] # "new"
        /\ UsedOnce(asks[k]) => place[m] = "gone" \/ Pending(r, m)

\* An answer says of the messages it names what is known of them.
LEMMA AnsweredAccounted ==
  ASSUME NEW k \in Requests, NEW r \in Request, NEW result, Accounted(k, r),
         result # "NOT_CANCELLABLE" => \A m \in r.stored : ~Pending(r, m)
  PROVE  Accounted(k, Answered(r, result)) /\ Answered(r, result).purges = {}
         /\ Claiming(Answered(r, result))
  BY DEF Answered, NoRequest, Accounted, Claiming

LEMMA SettledAccounted ==
  ASSUME NEW k \in Requests, NEW r \in Request, r.at = "claim", Accounted(k, r)
  PROVE  Accounted(k, Settled(r)) /\ Settled(r).purges \subseteq r.purges /\ Claiming(Settled(r))
  <1>1. CASE r.claims # {} \/ r.purges # {}
    BY <1>1 DEF Settled, Claiming
  <1>2. CASE r.claims = {} /\ r.purges = {}
    <2>1. ~r.refused => \A m \in r.stored : ~Pending(r, m)
      BY <1>2 DEF Pending
    <2>2. Settled(r) = Answered(r, IF r.refused THEN "NOT_CANCELLABLE" ELSE "CANCELLED")
      BY <1>2 DEF Settled
    <2>3. CASE r.refused
      BY <2>2, <2>3, AnsweredAccounted
    <2>4. CASE ~r.refused
      BY <2>1, <2>2, <2>4, AnsweredAccounted
    <2> QED
      BY <2>3, <2>4
  <1> QED
    BY <1>1, <1>2

\* A step of one request that moves no message.
LEMMA RequestCancelInv ==
  ASSUME TypeInv, CancelInv, NEW k \in Requests, NEW r,
         cancel' = [cancel EXCEPT ![k] = r], UNCHANGED <<place, index, inFlight, emitting>>,
         r.purges \subseteq cancel[k].purges, Accounted(k, r), Claiming(r)
  PROVE  CancelInv'
  <1> USE DEF CancelInv
  <1>1. HeldInNs' /\ IndexAgrees'
    BY DEF HeldInNs, Held, IndexAgrees, Exists, UsedOnce
  <1>2. cancel'[k] = r /\ \A j \in Requests \ {k} : cancel'[j] = cancel[j]
    BY DEF TypeInv, TypeOK
  <1>3. ClaimsOwned'
    BY <1>2 DEF ClaimsOwned, Claiming
  <1>4. \A id : UsedOnce(id)' <=> UsedOnce(id)
    BY DEF UsedOnce
  <1>5. ASSUME NEW j \in Requests, NEW m \in cancel'[j].stored
        PROVE  place[m] # "new" /\ (UsedOnce(asks[j]) => place[m] = "gone" \/ Pending(cancel'[j], m))
    <2>1. CASE j = k
      BY <1>2, <2>1 DEF Accounted
    <2>2. CASE j # k
      BY <1>2, <2>2 DEF StoredAccounted
    <2> QED
      BY <2>1, <2>2
  <1>6. StoredAccounted'
    BY <1>4, <1>5 DEF StoredAccounted, Pending
  <1> QED
    BY <1>1, <1>3, <1>6

LEMMA LookupCancelInv ==
  ASSUME TypeInv, CancelInv, NEW k \in Requests, Lookup(k) PROVE CancelInv'
  <1> DEFINE stored  == {m \in Messages : correlation[m] = asks[k] /\ place[m] # "new"}
             request == [NoRequest EXCEPT !.keys = messageKeys(asks[k]), !.stored = stored]
             reading == [request EXCEPT !.at = "read"]
  <1>1. UNCHANGED <<place, index, inFlight, emitting>>
        /\ cancel' = [cancel EXCEPT ![k] = IF messageKeys(asks[k]) = {} THEN Answered(request, "NOT_FOUND")
                                            ELSE reading]
    BY DEF Lookup, redis, engine, passes
  <1>2. ASSUME NEW m \in stored, UsedOnce(asks[k]), place[m] # "gone" PROVE m \in messageKeys(asks[k])
    <2>1. index[<<correlation[m], phase[m]>>] = m
      BY <1>2 DEF CancelInv, IndexAgrees, Exists
    <2>2. phase[m] \in Phases /\ m # NoMsg
      BY DispatchAssumption
    <2> QED
      BY <2>1, <2>2 DEF messageKeys, indexPhases
  <1>3. request.stored = stored /\ request.at = "asked" /\ request.purges = {} /\ reading.stored = stored
        /\ reading.at = "read" /\ reading.keys = messageKeys(asks[k]) /\ reading.purges = {}
        /\ Claiming(reading)
    BY DEF NoRequest, Claiming
  <1>4. CASE messageKeys(asks[k]) = {}
    <2>1. Accounted(k, request)
      BY <1>2, <1>3, <1>4 DEF Accounted
    <2>2. Accounted(k, Answered(request, "NOT_FOUND")) /\ Answered(request, "NOT_FOUND").purges = {}
          /\ Claiming(Answered(request, "NOT_FOUND"))
      BY <1>3, <2>1 DEF Accounted, Answered, NoRequest, Pending, Claiming
    <2> QED
      BY <1>1, <1>4, <2>2, RequestCancelInv
  <1>5. CASE messageKeys(asks[k]) # {}
    <2>1. Accounted(k, reading)
      BY <1>2, <1>3 DEF Accounted, Pending
    <2> HIDE DEF reading
    <2> QED
      BY <1>1, <1>3, <1>5, <2>1, RequestCancelInv
  <1> QED
    BY <1>4, <1>5

LEMMA ReadCancelInv ==
  ASSUME TypeInv, CancelInv, NEW k \in Requests, Read(k) PROVE CancelInv'
  <1> DEFINE r       == cancel[k]
             found   == {m \in r.keys : Exists(m)}
             open    == {m \in found : Cancellable(m)}
             request == [r EXCEPT !.at = "claim", !.claims = {<<m, QueueOf(m)>> : m \in open},
                                  !.refused = (open # found)]
  <1>0. r \in Request /\ r.at = "read" /\ Accounted(k, r)
    BY DEF Read, TypeInv, TypeOK, Request, CancelInv, StoredAccounted, Accounted
  <1>1. UNCHANGED <<place, index, inFlight, emitting>>
        /\ cancel' = [cancel EXCEPT ![k] = IF found = {} THEN Answered(r, "NOT_FOUND") ELSE Settled(request)]
    BY DEF Read, redis, engine, passes
  <1>2. \A m \in r.stored : UsedOnce(asks[k]) => place[m] = "gone" \/ m \in found
    BY <1>0 DEF Accounted, Pending, Exists
  <1>3. CASE found = {}
    <2>1. Accounted(k, Answered(r, "NOT_FOUND")) /\ Answered(r, "NOT_FOUND").purges = {}
          /\ Claiming(Answered(r, "NOT_FOUND"))
      BY <1>0, <1>2, <1>3 DEF Accounted, Answered, NoRequest, Claiming
    <2> QED
      BY <1>1, <1>3, <2>1, RequestCancelInv
  <1>4. CASE found # {}
    <2>1. {<<m, QueueOf(m)>> : m \in open} \subseteq Messages \X {"ready", "retry"}
      BY <1>0 DEF QueueOf, Request
    <2>2. request \in Request /\ request.at = "claim" /\ request.purges = r.purges /\ request.stored = r.stored
          /\ request.refused = (open # found) /\ request.claims = {<<m, QueueOf(m)>> : m \in open}
      BY <1>0, <2>1 DEF Request
    <2>3. \A m \in open : QueueOf(m) \in {"ready", "retry"} /\ <<m, QueueOf(m)>> \in request.claims
      BY <2>2 DEF QueueOf
    <2>4. Accounted(k, request)
      <3> SUFFICES ASSUME NEW m \in r.stored, UsedOnce(asks[k]), place[m] # "gone"
                   PROVE  Pending(request, m)
        BY <1>0, <2>2 DEF Accounted
      <3>1. m \in found
        BY <1>2
      <3>2. CASE open # found
        BY <2>2, <3>2 DEF Pending
      <3>3. CASE open = found
        BY <2>2, <2>3, <3>1, <3>3 DEF Pending
      <3> QED
        BY <3>2, <3>3
    <2>5. Accounted(k, Settled(request)) /\ Settled(request).purges \subseteq r.purges
          /\ Claiming(Settled(request))
      <3> HIDE DEF request
      <3> QED
        BY <2>2, <2>4, SettledAccounted
    <2> QED
      BY <1>1, <1>4, <2>5, RequestCancelInv
  <1> QED
    BY <1>3, <1>4

LEMMA ClaimCancelInv ==
  ASSUME TypeInv, CancelInv, NEW k \in Requests, Claim(k) PROVE CancelInv'
  <1> USE DEF CancelInv
  <1>1. PICK c \in cancel[k].claims :
           LET rest == [cancel[k] EXCEPT !.claims = @ \ {c}]
           IN  IF place[c[1]] = c[2]
               THEN /\ place' = [place EXCEPT ![c[1]] = "claimed"]
                    /\ cancel' = [cancel EXCEPT ![k] = [rest EXCEPT !.purges = @ \cup {c[1]}]]
               ELSE /\ cancel' = [cancel EXCEPT ![k] = Settled([rest EXCEPT !.refused = TRUE])]
                    /\ UNCHANGED place
    BY DEF Claim
  <1>2. UNCHANGED <<index, inFlight, emitting>>
    BY DEF Claim, engine, passes
  <1> DEFINE r       == cancel[k]
             rest    == [r EXCEPT !.claims = @ \ {c}]
             claimed == [rest EXCEPT !.purges = @ \cup {c[1]}]
             refused == [rest EXCEPT !.refused = TRUE]
  <1>3. r \in Request /\ cancel \in [Requests -> Request]
    BY DEF TypeInv, TypeOK, Request
  <1>4. r.at = "claim" /\ Accounted(k, r) /\ c[1] \in Messages /\ c[2] \in {"ready", "retry"}
        /\ c = <<c[1], c[2]>>
    BY <1>3 DEF ClaimsOwned, Claiming, StoredAccounted, Accounted, Request
  <1>5. CASE place[c[1]] = c[2]
    <2>1. place' = [place EXCEPT ![c[1]] = "claimed"] /\ cancel' = [cancel EXCEPT ![k] = claimed]
      BY <1>1, <1>5
    <2>2. place[c[1]] \in {"ready", "retry"}
      BY <1>4, <1>5
    <2>3. Onward(Messages) /\ \A m \in Messages : Exists(m)' => Exists(m)
      BY <1>4, <2>1, <2>2 DEF Onward, Exists, TypeInv, TypeOK
    <2>4. HeldInNs'
      BY <1>2, <1>4, <2>1, <2>2 DEF HeldInNs, Held, TypeInv, TypeOK
    <2>5. IndexAgrees'
      BY <1>2, <2>3, IndexKept
    <2>6. claimed.at = "claim" /\ claimed.purges = r.purges \cup {c[1]} /\ claimed.claims = r.claims \ {c}
          /\ claimed.stored = r.stored /\ claimed.refused = r.refused /\ claimed.keys = r.keys
      BY <1>3, <1>4 DEF Request
    <2>7. cancel'[k] = claimed /\ \A j \in Requests \ {k} : cancel'[j] = cancel[j]
      BY <1>3, <2>1
    <2> HIDE DEF claimed
    <2>8. \A j \in Requests : cancel[j].purges \subseteq Messages /\ cancel[j].stored \subseteq Messages
      BY <1>3 DEF Request
    <2>9. \A j \in Requests : c[1] \notin cancel[j].purges
      BY <2>2 DEF ClaimsOwned
    <2>10. ClaimsOwned'
      <3>1. \A j \in Requests : Claiming(cancel'[j])
        BY <2>6, <2>7 DEF Claiming, ClaimsOwned
      <3>2. \A j \in Requests : \A m \in cancel'[j].purges : place'[m] = "claimed"
        BY <1>4, <2>1, <2>3, <2>6, <2>7, <2>8 DEF ClaimsOwned, Onward, TypeInv, TypeOK
      <3>3. \A i, j \in Requests : j # i => cancel'[j].purges \cap cancel'[i].purges = {}
        BY <2>6, <2>7, <2>9 DEF ClaimsOwned
      <3> QED
        BY <3>1, <3>2, <3>3 DEF ClaimsOwned, Claiming
    <2>11. \A m : Pending(r, m) => Pending(claimed, m)
      BY <1>4, <2>6 DEF Pending
    <2>12. ASSUME NEW j \in Requests, NEW m \in cancel'[j].stored
           PROVE  /\ place'[m] # "new"
                  /\ UsedOnce(asks[j])' => place'[m] = "gone" \/ Pending(cancel'[j], m)
      <3>1. m \in cancel[j].stored /\ m \in Messages
        BY <2>6, <2>7, <2>8
      <3>2. UsedOnce(asks[j])' => UsedOnce(asks[j])
        BY <2>3, UsedOnceShrinks
      <3>3. Pending(cancel[j], m) => Pending(cancel'[j], m)
        BY <2>7, <2>11
      <3> QED
        BY <2>3, <3>1, <3>2, <3>3 DEF StoredAccounted, Onward
    <2>13. StoredAccounted'
      BY <2>12 DEF StoredAccounted, Pending
    <2> QED
      BY <2>4, <2>5, <2>10, <2>13
  <1>6. CASE place[c[1]] # c[2]
    <2>1. UNCHANGED place /\ cancel' = [cancel EXCEPT ![k] = Settled(refused)]
      BY <1>1, <1>6
    <2>2. refused \in Request /\ refused.at = "claim" /\ refused.refused /\ refused.stored = r.stored
          /\ refused.purges = r.purges
      BY <1>3, <1>4 DEF Request
    <2> HIDE DEF refused
    <2>3. Accounted(k, refused)
      BY <1>4, <2>2 DEF Accounted, Pending
    <2>4. Accounted(k, Settled(refused)) /\ Settled(refused).purges \subseteq r.purges
          /\ Claiming(Settled(refused))
      BY <2>2, <2>3, SettledAccounted
    <2> QED
      BY <1>2, <2>1, <2>4, RequestCancelInv
  <1> QED
    BY <1>5, <1>6

LEMMA PurgeClaimedCancelInv ==
  ASSUME TypeInv, CancelInv, NEW k \in Requests, PurgeClaimed(k) PROVE CancelInv'
  <1>0. cancel \in [Requests -> Request]
    BY DEF TypeInv, TypeOK, Request
  <1> USE DEF CancelInv
  <1>1. PICK m \in cancel[k].purges :
           Purge(m) /\ cancel' = [cancel EXCEPT ![k] = Settled([cancel[k] EXCEPT !.purges = @ \ {m}])]
    BY DEF PurgeClaimed
  <1>2. UNCHANGED <<inFlight, emitting>>
    BY DEF PurgeClaimed, engine, passes
  <1> DEFINE r    == cancel[k]
             rest == [r EXCEPT !.purges = @ \ {m}]
             end  == Settled(rest)
  <1>3. r \in Request /\ cancel \in [Requests -> Request] /\ rest \in Request
    <2>1. r \in Request /\ cancel \in [Requests -> Request]
      BY <1>0
    <2> HIDE DEF r
    <2>2. r.purges \ {m} \in SUBSET Messages
      BY <2>1 DEF Request
    <2>3. rest \in Request
      BY <2>1, <2>2 DEF Request
    <2> QED
      BY <2>1, <2>3
  <1>4. m \in Messages /\ place[m] = "claimed" /\ r.at = "claim"
    BY <1>3 DEF ClaimsOwned, Claiming, Request
  <1>5. IndexAgrees' /\ Onward(Messages \ {m})
    BY <1>1, <1>4, PurgeKeepsIndex
  <1>6. place' = [place EXCEPT ![m] = "gone"] /\ place'[m] = "gone"
    BY <1>1, <1>4 DEF Purge, TypeInv, TypeOK
  <1>7. HeldInNs'
    BY <1>2, <1>4, <1>6 DEF HeldInNs, Held, TypeInv, TypeOK
  <1>8. rest.purges = r.purges \ {m} /\ rest.claims = r.claims /\ rest.at = "claim"
        /\ rest.stored = r.stored /\ rest.refused = r.refused
    BY <1>3, <1>4 DEF Request
  <1>9. cancel'[k] = end /\ \A j \in Requests \ {k} : cancel'[j] = cancel[j]
    BY <1>1, <1>3
  <1> HIDE DEF rest
  <1>10. end.purges \subseteq rest.purges /\ Claiming(end) /\ end.stored \subseteq r.stored
         /\ \A o : o \in end.stored /\ Pending(r, o) /\ o # m => Pending(end, o)
    <2>1. CASE rest.claims # {} \/ rest.purges # {}
      <3>1. end = rest
        BY <2>1 DEF Settled
      <3> HIDE DEF end
      <3>2. ASSUME NEW o, Pending(r, o), o # m PROVE Pending(rest, o)
        BY <1>4, <1>8, <3>2 DEF Pending
      <3> QED
        BY <1>8, <3>1, <3>2 DEF Claiming
    <2>2. CASE rest.claims = {} /\ rest.purges = {}
      <3>1. end = Answered(rest, IF rest.refused THEN "NOT_CANCELLABLE" ELSE "CANCELLED")
        BY <2>2 DEF Settled
      <3>2. end.purges = {} /\ end.claims = {} /\ end.stored = IF rest.refused THEN {} ELSE rest.stored
        BY <3>1 DEF Answered, NoRequest
      <3>3. ~rest.refused => \A o : Pending(r, o) => o = m
        BY <1>4, <1>8, <2>2 DEF Pending
      <3> QED
        BY <1>8, <3>2, <3>3 DEF Claiming
    <2> QED
      BY <2>1, <2>2
  <1> HIDE DEF end
  <1>11. ClaimsOwned'
    <2>1. \A j \in Requests : Claiming(cancel'[j])
      BY <1>9, <1>10 DEF ClaimsOwned
    <2>2. \A j \in Requests : cancel'[j].purges \subseteq cancel[j].purges \ {m}
      BY <1>8, <1>9, <1>10 DEF ClaimsOwned
    <2>3. \A j \in Requests : cancel[j].purges \subseteq Messages
      BY <1>3 DEF Request
    <2> QED
      BY <1>5, <2>1, <2>2, <2>3 DEF ClaimsOwned, Onward, Claiming
  <1>12. ASSUME NEW j \in Requests, NEW o \in cancel'[j].stored
         PROVE  /\ place'[o] # "new"
                /\ UsedOnce(asks[j])' => place'[o] = "gone" \/ Pending(cancel'[j], o)
    <2>1. o \in cancel[j].stored /\ o \in Messages
      BY <1>3, <1>9, <1>10 DEF Request
    <2>2. CASE o = m
      BY <1>6, <2>2
    <2>3. CASE o # m
      <3>1. UsedOnce(asks[j])' => UsedOnce(asks[j])
        BY <1>5, UsedOnceShrinks
      <3>2. Pending(cancel[j], o) => Pending(cancel'[j], o)
        BY <1>9, <1>10, <2>3
      <3> QED
        BY <1>5, <2>1, <2>3, <3>1, <3>2 DEF StoredAccounted, Onward
    <2> QED
      BY <2>2, <2>3
  <1>13. StoredAccounted'
    BY <1>12 DEF StoredAccounted, Pending
  <1> QED
    BY <1>5, <1>7, <1>11, <1>13

LEMMA NextCancelInv == TypeInv /\ CancelInv /\ [Next]_vars => CancelInv'
  <1> SUFFICES ASSUME TypeInv, CancelInv, [Next]_vars PROVE CancelInv'
    OBVIOUS
  <1>1. ASSUME UNCHANGED vars PROVE CancelInv'
    <2>1. HeldInNs'
      BY <1>1 DEF vars, CancelInv, HeldInNs, Held
    <2> QED
      BY <1>1, <2>1, StillCancelInv DEF vars
  <1> QED
    BY <1>1, EnqueueCancelInv, PassesCancelInv, MessagesCancelInv, DieCancelInv, LookupCancelInv,
       ReadCancelInv, ClaimCancelInv, PurgeClaimedCancelInv
       DEF Next, RequestStep, Exit, Crash

\* When a cancel is answered CANCELLED or NOT_FOUND, nothing is left of what was
\* stored under its id, for any number of messages, phases, passes and other
\* cancels (outgoing.ts _cancelOneByCorrelationId).
THEOREM CancelledIsGone == Spec => []CancelAnswersHold
  <1>1. Init => CancelInv
    <2> SUFFICES ASSUME Init PROVE CancelInv
      OBVIOUS
    <2>1. HeldInNs /\ IndexAgrees
      BY DEF Init, NoPass, HeldInNs, Held, IndexAgrees, Exists
    <2>2. ClaimsOwned /\ StoredAccounted
      BY DEF Init, NoRequest, ClaimsOwned, Claiming, StoredAccounted
    <2> QED
      BY <2>1, <2>2 DEF CancelInv
  <1>2. CancelInv => CancelAnswersHold
    BY DEF CancelInv, StoredAccounted, Pending, CancelAnswersHold
  <1> QED
    BY <1>1, <1>2, NextCancelInv, TypeInvariant, PTL DEF Spec
=============================================================================
