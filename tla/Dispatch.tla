------------------------------ MODULE Dispatch ------------------------------
(***************************************************************************)
(* What Lifecycle leaves out of the outgoing service: several ready queues *)
(* served by one distribute pass, priorities, the spacing lock and its     *)
(* clock, the correlation index that lookups and cancels go through, and   *)
(* the orderly end of the process.  What happens to a message between its  *)
(* send and its end is Lifecycle's; here it is one step.                   *)
(***************************************************************************)
EXTENDS Integers, FiniteSets

CONSTANTS
    Messages,      \* device-message ids
    Queues,        \* initial-queue keys of registered plugins with spacing admission
    Requests,      \* cancel requests (an id of cancelMany is a request of its own)
    queueKey,      \* initialQueueKey of each message
    priority,      \* the priority of each message
    correlation,   \* the correlation id of each message
    phase,         \* its phase, or "none"
    asks,          \* the correlation id each request cancels
    CallSets,      \* environment: the messages and cancels that may come in one behaviour
    NoMsg,         \* "no message"
    minIntervalMs, \* admission.minIntervalMs, in steps of the clock
    MaxRetries,    \* delivery.maxRetries
    MaxTicks,      \* bound: ticks between their start and their distribute at once
    MaxPasses,     \* bound: distribute passes on one queue at once
    MaxClock,      \* bound: the clock of the rate property stops here
    MaxFaults      \* bound: process ends (a signal or a crash) and failed attempts

PHASES == {"A", "B", "C"}
Phases == PHASES \cup {"none"}
Ids    == {correlation[m] : m \in Messages}

ASSUME DispatchAssumption ==
    /\ queueKey \in [Messages -> Queues]
    /\ priority \in [Messages -> Int]
    /\ phase \in [Messages -> Phases]
    /\ asks \in [Requests -> Ids]
    /\ CallSets \in SUBSET SUBSET (Messages \cup Requests)
    /\ NoMsg \notin Messages
    /\ minIntervalMs \in Nat \ {0}
    /\ MaxRetries \in Nat /\ MaxTicks \in Nat /\ MaxPasses \in Nat
    /\ MaxClock \in Nat /\ MaxFaults \in Nat

VARIABLES
    place,       \* Redis: the part of the pipeline each message is in
    attempts,    \* Redis: retryCount plus one once a send was picked
    worklist,    \* Redis: queues_to_distribute_from
    index,       \* Redis: idx:correlation_id, by id and phase
    lock,        \* Redis: milliseconds until lock_queue:{key} expires; 0: free
    canKick,     \* canKickDistribute
    timers,      \* is the engine interval running?
    ticks,       \* how many ticks are between their start and their distribute
    listing,     \* distribute passes that are reading the list of queues
    admitting,   \* by queue: passes that are asking for its lock
    picking,     \* by queue: passes that hold an admission and have not popped
    emitting,    \* picked messages whose SENT_TO_NS event is being stored
    relisting,   \* requeued messages whose queue is not yet listed again
    inFlight,    \* the sends inFlightSends tracks
    shutdown,    \* how far main.ts is
    spent,       \* has the drain budget run out?
    cancel,      \* the cancel requests
    calls,       \* environment: which of CallSets it is
    now,         \* ghost: the clock since the first boot
    picks,       \* ghost: messages picked from each queue so far
    quiet,       \* ghost: no tick and no pass was running at the signal
    faults       \* ghost: process ends and failed attempts so far

redis   == <<place, attempts, worklist, index, lock>>
passes  == <<listing, admitting, picking, emitting>>
engine  == <<canKick, timers, ticks, passes, relisting, inFlight>>
process == <<shutdown, spent, quiet, calls>>
vars    == <<place, attempts, worklist, index, lock, canKick, timers, ticks, listing, admitting,
             picking, emitting, relisting, inFlight, shutdown, spent, cancel, calls, now, picks, quiet, faults>>

\* claimed: taken out of its queue by a cancel, not yet cleaned up.
Places == {"new", "ready", "ns", "sent", "retry", "claimed", "gone"}

Exists(m) == place[m] \notin {"new", "gone"}

NoRequest == [at |-> "asked", keys |-> {}, claims |-> {}, purges |-> {}, refused |-> FALSE,
              stored |-> {}, result |-> "none"]

Results == {"CANCELLED", "NOT_CANCELLABLE", "NOT_FOUND"}

TypeOK ==
    /\ place \in [Messages -> Places]
    /\ attempts \in [Messages -> 0..MaxRetries + 1]
    /\ worklist \in SUBSET Queues
    /\ index \in [Ids \X Phases -> Messages \cup {NoMsg}]
    /\ lock \in [Queues -> 0..minIntervalMs]
    /\ canKick \in BOOLEAN /\ timers \in BOOLEAN /\ ticks \in 0..MaxTicks
    /\ listing \in Nat
    /\ admitting \in [Queues -> Nat]
    /\ picking \in [Queues -> Nat]
    /\ emitting \in SUBSET Messages
    /\ relisting \in SUBSET Messages /\ inFlight \in SUBSET Messages
    /\ shutdown \in {"up", "draining", "closing", "down"}
    /\ spent \in BOOLEAN
    /\ cancel \in [Requests ->
           [at: {"asked", "read", "claim", "over"}, keys: SUBSET Messages,
            claims: SUBSET (Messages \X {"ready", "retry"}), purges: SUBSET Messages,
            refused: BOOLEAN, stored: SUBSET Messages,
            result: Results \cup {"none"}]]
    /\ calls \in CallSets
    /\ now \in 0..MaxClock
    /\ picks \in [Queues -> Nat]
    /\ quiet \in BOOLEAN
    /\ faults \in 0..MaxFaults

\* No distribute pass is alive.
NoPass ==
    /\ listing = 0
    /\ admitting = [q \in Queues |-> 0]
    /\ picking = [q \in Queues |-> 0]
    /\ emitting = {}

Init ==
    /\ place = [m \in Messages |-> "new"]
    /\ attempts = [m \in Messages |-> 0]
    /\ worklist = {}
    /\ index = [key \in Ids \X Phases |-> NoMsg]
    /\ lock = [q \in Queues |-> 0]
    /\ canKick = TRUE /\ timers = TRUE /\ ticks = 0
    /\ NoPass
    /\ relisting = {} /\ inFlight = {}
    /\ shutdown = "up" /\ spent = FALSE
    /\ cancel = [k \in Requests |-> NoRequest]
    /\ calls \in CallSets
    /\ now = 0
    /\ picks = [q \in Queues |-> 0]
    /\ quiet = FALSE /\ faults = 0

-----------------------------------------------------------------------------
(* Enqueue, ticks and passes *)

\* distributeToNetworkServers is called: its first round trip lists the queues.
\* The queues of one pass are worked on in parallel, so from there on a pass is
\* one anonymous visitor at each queue.
Distribute ==
    /\ \A q \in Queues : listing + admitting[q] + picking[q] < MaxPasses
    /\ listing' = listing + 1
    /\ UNCHANGED <<admitting, picking, emitting>>

\* enqueueDeviceMessage: one MULTI.  An older message of the same id and phase
\* loses its index entry.  The kick is decided after the MULTI has answered.
Enqueue(m) ==
    /\ shutdown # "down"
    /\ m \in calls /\ place[m] = "new"
    /\ place' = [place EXCEPT ![m] = "ready"]
    /\ worklist' = worklist \cup {queueKey[m]}
    /\ index' = [index EXCEPT ![<<correlation[m], phase[m]>>] = m]
    /\ IF canKick THEN Distribute ELSE UNCHANGED passes
    /\ UNCHANGED <<attempts, lock, canKick, timers, ticks, relisting, inFlight, process, cancel, now, picks, faults>>

\* The interval fires, whether or not an earlier tick is still at its rows: they
\* come before its distribute and may take as long as a vendor's answer.
StartTick ==
    /\ timers /\ ticks < MaxTicks
    /\ ticks' = ticks + 1
    /\ UNCHANGED <<redis, canKick, timers, passes, relisting, inFlight, process, cancel, now, picks, faults>>

\* The end of a tick kicks distribute, whether or not the timers still run.
EndTick ==
    /\ ticks > 0
    /\ ticks' = ticks - 1
    /\ Distribute
    /\ UNCHANGED <<redis, canKick, timers, relisting, inFlight, process, cancel, now, picks, faults>>

\* listReadyQueues.
List ==
    /\ listing > 0
    /\ listing' = listing - 1
    /\ admitting' = [q \in Queues |-> IF q \in worklist THEN admitting[q] + 1 ELSE admitting[q]]
    /\ UNCHANGED <<redis, canKick, timers, ticks, picking, emitting, relisting, inFlight,
                   process, cancel, now, picks, faults>>

\* SET lock PX minIntervalMs NX.
lockQueueAlways(q) == TRUE                       \* seeded fault: the NX is forgotten
lockQueueForTimeMs(q) == lock[q] = 0

\* _canAdmit: the lock is spent even if the pick then finds nothing.
Admit(q) ==
    /\ admitting[q] > 0
    /\ admitting' = [admitting EXCEPT ![q] = @ - 1]
    /\ IF lockQueueForTimeMs(q)
       THEN /\ lock' = [lock EXCEPT ![q] = minIntervalMs]
            /\ picking' = [picking EXCEPT ![q] = @ + 1]
       ELSE UNCHANGED <<lock, picking>>
    /\ UNCHANGED <<place, attempts, worklist, index, canKick, timers, ticks, listing, emitting,
                   relisting, inFlight, process, cancel, now, picks, faults>>

ReadyIn(q) == {m \in Messages : queueKey[m] = q /\ place[m] = "ready"}

\* ZPOPMIN on the negated priorities.
Foremost(q) == {m \in ReadyIn(q) : \A o \in ReadyIn(q) : priority[o] <= priority[m]}

PickNothing(q) ==
    /\ picking[q] > 0
    /\ ReadyIn(q) = {}
    /\ worklist' = worklist \ {q}
    /\ picking' = [picking EXCEPT ![q] = @ - 1]
    /\ UNCHANGED <<place, attempts, index, lock, canKick, timers, ticks, listing, admitting,
                   emitting, relisting, inFlight, process, cancel, now, picks, faults>>

\* SREM of a queue the pop has emptied.
\* seeded fault: the queue is always taken off the list
drainedByOne(q, m) == TRUE
drainedBy(q, m) == ReadyIn(q) = {m}

\* The SENT_TO_NS event of a first attempt is stored before the send starts; a
\* retry is sent, and tracked, at once.
Pick(q, m) ==
    /\ picking[q] > 0
    /\ m \in Foremost(q)
    /\ picking' = [picking EXCEPT ![q] = @ - 1]
    /\ place' = [place EXCEPT ![m] = "ns"]
    /\ attempts' = [attempts EXCEPT ![m] = @ + 1]
    /\ worklist' = IF drainedBy(q, m) THEN worklist \ {q} ELSE worklist
    /\ picks' = [picks EXCEPT ![q] = @ + 1]
    /\ IF attempts[m] = 0
       THEN emitting' = emitting \cup {m} /\ UNCHANGED inFlight
       ELSE inFlight' = inFlight \cup {m} /\ UNCHANGED emitting
    /\ UNCHANGED <<index, lock, canKick, timers, ticks, listing, admitting, relisting,
                   process, cancel, now, faults>>

\* emitDeliveryEvent is done: sendOne starts and is tracked in the same turn.
StartSend(m) ==
    /\ m \in emitting
    /\ emitting' = emitting \ {m}
    /\ inFlight' = inFlight \cup {m}
    /\ UNCHANGED <<redis, canKick, timers, ticks, listing, admitting, picking, relisting,
                   process, cancel, now, picks, faults>>

-----------------------------------------------------------------------------
(* After the send *)

\* retryOrFail allows MaxRetries attempts after the first.
mayRetry(m) == attempts[m] <= MaxRetries

\* messageFullCleanup deletes the index of the id and phase, whatever it names.
Unindexed(m) == [index EXCEPT ![<<correlation[m], phase[m]>>] = NoMsg]

Purge(m) ==
    /\ place' = [place EXCEPT ![m] = "gone"]
    /\ index' = Unindexed(m)

RetryOrFail(m) ==
    IF mayRetry(m) THEN place' = [place EXCEPT ![m] = "retry"] /\ UNCHANGED index ELSE Purge(m)

\* A failure may also be one that skips the retries.
Failed(m) == faults < MaxFaults /\ faults' = faults + 1 /\ (RetryOrFail(m) \/ Purge(m))

\* The tracked send settles: advance, or retryOrFail.
Settle(m) ==
    /\ m \in inFlight
    /\ \/ place' = [place EXCEPT ![m] = "sent"] /\ UNCHANGED <<index, faults>>
       \/ Failed(m)
    /\ inFlight' = inFlight \ {m}
    /\ UNCHANGED <<attempts, worklist, lock, canKick, timers, ticks, passes, relisting,
                   process, cancel, now, picks>>

\* A verdict, a deadline or the age cap ends or fails what was sent.
AfterSent(m) ==
    /\ shutdown # "down"
    /\ place[m] = "sent"
    /\ \/ Purge(m) /\ UNCHANGED faults
       \/ Failed(m)
    /\ UNCHANGED <<attempts, worklist, lock, engine, process, cancel, now, picks>>

Held(m) == m \in inFlight \cup emitting

\* The ns row: a send nobody waits for any more, cut off by the end of a process.
NsDeadline(m) ==
    /\ ticks > 0
    /\ place[m] = "ns" /\ ~Held(m)
    /\ RetryOrFail(m)
    /\ UNCHANGED <<attempts, worklist, lock, engine, process, cancel, now, picks, faults>>

\* The retry row: back to the ready queue; the queue is listed by a second command.
Requeue(m) ==
    /\ ticks > 0
    /\ place[m] = "retry"
    /\ place' = [place EXCEPT ![m] = "ready"]
    /\ relisting' = relisting \cup {m}
    /\ UNCHANGED <<attempts, worklist, index, lock, canKick, timers, ticks, passes, inFlight,
                   process, cancel, now, picks, faults>>

Relist(m) ==
    /\ m \in relisting
    /\ relisting' = relisting \ {m}
    /\ worklist' = worklist \cup {queueKey[m]}
    /\ UNCHANGED <<place, attempts, index, lock, canKick, timers, ticks, passes, inFlight,
                   process, cancel, now, picks, faults>>

-----------------------------------------------------------------------------
(* Cancel *)

\* The index entries of an id: without a phase, and with each phase.
indexPhasesBase == {"none"}                       \* seeded fault: the phases are forgotten
indexPhases == Phases

messageKeysUnfiltered(id) == {index[<<id, ph>>] : ph \in indexPhases}  \* seeded fault: misses are kept
messageKeys(id) == {index[<<id, ph>>] : ph \in indexPhases} \ {NoMsg}

\* QUEUED and TO_RETRY are cancellable; an id that another cancel has just
\* claimed still has its status.
Cancellable(m) == place[m] \in {"ready", "retry", "claimed"}

\* The queue the status read stands for.
QueueOf(m) == IF place[m] = "retry" THEN "retry" ELSE "ready"

\* `stored` is a ghost: the messages an answer says are gone.
Answered(request, result) ==
    [NoRequest EXCEPT !.at = "over", !.result = result,
                      !.stored = IF result = "NOT_CANCELLABLE" THEN {} ELSE request.stored]

\* CANCELLED only if every message found was; answered with the last purge or miss.
Settled(request) ==
    IF request.claims # {} \/ request.purges # {} THEN request
    ELSE Answered(request, IF request.refused THEN "NOT_CANCELLABLE" ELSE "CANCELLED")

\* getAllMessagesForCorrelationId: MGET of the index entries.
Lookup(k) ==
    LET keys    == messageKeys(asks[k])
        request == [NoRequest EXCEPT !.keys = keys,
                        !.stored = {m \in Messages : correlation[m] = asks[k] /\ place[m] # "new"}]
    IN  /\ shutdown # "down"
        /\ k \in calls /\ cancel[k].at = "asked"
        /\ cancel' = [cancel EXCEPT ![k] = IF keys = {} THEN Answered(request, "NOT_FOUND")
                                           ELSE [request EXCEPT !.at = "read"]]
        /\ UNCHANGED <<redis, engine, process, now, picks, faults>>

\* The hashes behind them, and what their statuses allow.
Read(k) ==
    LET found    == {m \in cancel[k].keys : Exists(m)}
        open     == {m \in found : Cancellable(m)}
        request  == [cancel[k] EXCEPT !.at = "claim", !.claims = {<<m, QueueOf(m)>> : m \in open},
                                      !.refused = (open # found)]
    IN  /\ cancel[k].at = "read"
        /\ cancel' = [cancel EXCEPT ![k] = IF found = {} THEN Answered(cancel[k], "NOT_FOUND")
                                           ELSE Settled(request)]
        /\ UNCHANGED <<redis, engine, process, now, picks, faults>>

\* claimFromQueue: ZREM from the queue its status stood for when it was read.
Claim(k) ==
    /\ \E c \in cancel[k].claims :
          LET rest == [cancel[k] EXCEPT !.claims = @ \ {c}]
          IN  IF place[c[1]] = c[2]
              THEN /\ place' = [place EXCEPT ![c[1]] = "claimed"]
                   /\ cancel' = [cancel EXCEPT ![k] = [rest EXCEPT !.purges = @ \cup {c[1]}]]
              ELSE /\ cancel' = [cancel EXCEPT ![k] = Settled([rest EXCEPT !.refused = TRUE])]
                   /\ UNCHANGED place
    /\ UNCHANGED <<attempts, worklist, index, lock, engine, process, now, picks, faults>>

PurgeClaimed(k) ==
    /\ \E m \in cancel[k].purges :
          /\ Purge(m)
          /\ cancel' = [cancel EXCEPT ![k] = Settled([cancel[k] EXCEPT !.purges = @ \ {m}])]
    /\ UNCHANGED <<attempts, worklist, lock, engine, process, now, picks, faults>>

-----------------------------------------------------------------------------
(* The clock, and the end of a process *)

\* The TTL of every lock runs down; the ghost clock stops at its bound.
Elapse ==
    /\ now < MaxClock \/ \E q \in Queues : lock[q] > 0
    /\ now' = IF now < MaxClock THEN now + 1 ELSE now
    /\ lock' = [q \in Queues |-> IF lock[q] > 0 THEN lock[q] - 1 ELSE 0]
    /\ UNCHANGED <<place, attempts, worklist, index, engine, process, cancel, picks, faults>>

stopNothing == canKick' = canKick                \* seeded fault: the kick goes on
stopEnqueueKick == canKick' = FALSE

\* SIGTERM: no more ticks, no more kicks; ticks and passes that run go on.
Signal ==
    /\ shutdown = "up" /\ faults < MaxFaults
    /\ shutdown' = "draining"
    /\ faults' = faults + 1
    /\ quiet' = (ticks = 0 /\ NoPass)
    /\ timers' = FALSE
    /\ stopEnqueueKick
    /\ UNCHANGED <<redis, ticks, passes, relisting, inFlight, spent, calls, cancel, now, picks>>

\* drainInFlightSends looks again after every wait, until nothing is tracked or
\* SHUTDOWN_SEND_DRAIN_BUDGET_MS has passed.
DrainReturns ==
    /\ shutdown = "draining"
    /\ shutdown' = "closing"
    /\ spent' = (inFlight # {})
    /\ UNCHANGED <<redis, engine, quiet, calls, faults, cancel, now, picks>>

\* Memory is lost; so are the requests being answered.
Die ==
    /\ shutdown' = "down"
    /\ timers' = FALSE /\ canKick' = FALSE /\ ticks' = 0
    /\ listing' = 0 /\ emitting' = {}
    /\ admitting' = [q \in Queues |-> 0] /\ picking' = [q \in Queues |-> 0]
    /\ relisting' = {} /\ inFlight' = {}
    /\ cancel' = [k \in Requests |-> IF cancel[k].at \in {"asked", "over"} THEN cancel[k]
                                     ELSE [NoRequest EXCEPT !.at = "over"]]
    /\ spent' = FALSE /\ quiet' = FALSE
    /\ UNCHANGED <<redis, calls, now, picks>>

\* app.close waits for the requests being answered; then redis.quit and exit.
Exit ==
    /\ shutdown = "closing"
    /\ \A k \in Requests : cancel[k].at \in {"asked", "over"}
    /\ Die
    /\ UNCHANGED faults

Crash ==
    /\ shutdown # "down" /\ faults < MaxFaults
    /\ faults' = faults + 1
    /\ Die

Boot ==
    /\ shutdown = "down"
    /\ shutdown' = "up"
    /\ canKick' = TRUE /\ timers' = TRUE
    /\ UNCHANGED <<redis, ticks, passes, relisting, inFlight, spent, quiet, calls, faults, cancel, now, picks>>

-----------------------------------------------------------------------------

Work(q) == Admit(q) \/ PickNothing(q) \/ \E m \in Messages : Pick(q, m)

RequestStep(k) == Read(k) \/ Claim(k) \/ PurgeClaimed(k)

Next ==
    \/ \E m \in Messages : Enqueue(m) \/ Settle(m) \/ AfterSent(m) \/ NsDeadline(m) \/ Requeue(m) \/ Relist(m)
    \/ StartTick \/ EndTick \/ Elapse
    \/ List
    \/ \E q \in Queues : Work(q)
    \/ \E m \in Messages : StartSend(m)
    \/ \E k \in Requests : Lookup(k) \/ RequestStep(k)
    \/ Signal \/ DrainReturns \/ Exit \/ Crash \/ Boot

Spec == Init /\ [][Next]_vars

\* Timers fire, round trips and sends come to an end (the outbound clients have a
\* deadline), a supervisor starts the process again.  Nothing is assumed of
\* callers, vendors' verdicts, signals and crashes.
FairSpec ==
    /\ Spec
    /\ WF_vars(StartTick) /\ WF_vars(EndTick) /\ WF_vars(Elapse)
    /\ WF_vars(List)
    /\ \A q \in Queues : WF_vars(Admit(q)) /\ WF_vars(PickNothing(q) \/ \E m \in Messages : Pick(q, m))
    /\ \A k \in Requests : WF_vars(RequestStep(k))
    /\ \A m \in Messages : WF_vars(StartSend(m)) /\ WF_vars(Settle(m)) /\ WF_vars(Relist(m))
    /\ WF_vars(DrainReturns) /\ WF_vars(Exit) /\ WF_vars(Boot)

-----------------------------------------------------------------------------
(* Properties *)

\* However many passes the tick and the enqueues start, and across process ends,
\* a queue yields at most one message per minIntervalMs in the long run: passes
\* that were admitted and picked late are not counted twice (outgoing.ts
\* _canAdmit; ADR-008 "minIntervalMs finally means what it says").
PicksWithinRate ==
    now < MaxClock => \A q \in Queues : picks[q] * minIntervalMs <= now + minIntervalMs

\* The ids a caller has not given to two messages of one phase.
UsedOnce(id) ==
    \A m, o \in Messages :
        m # o /\ correlation[m] = id /\ correlation[o] = id
          /\ place[m] # "new" /\ place[o] # "new" => phase[m] # phase[o]

\* After CANCELLED or NOT_FOUND nothing is left of any message that was stored
\* under the id before the request, whatever its phase and whatever passes,
\* retries and other cancels did meanwhile: none of them will be sent
\* (outgoing.ts _cancelOneByCorrelationId).
CancelAnswersHold ==
    \A k \in Requests :
        cancel[k].at = "over" /\ UsedOnce(asks[k]) => \A m \in cancel[k].stored : place[m] = "gone"

\* A shutdown that met no running tick or pass and did not run out of its budget
\* closes Redis under no send, although enqueues go on until the end: what they
\* store waits for the next boot (outgoing.ts stopEnqueueKick; ADR-008 par. 8).
QuietShutdown ==
    shutdown = "closing" /\ quiet /\ ~spent =>
        inFlight = {} /\ NoPass

\* No queue starves another and none is forgotten: a ready message is picked or
\* cancelled in the end, through locks, ticks that find nothing, and restarts.
EveryQueueServed == \A m \in Messages : place[m] = "ready" ~> place[m] # "ready"
=============================================================================
