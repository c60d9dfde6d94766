----------------------------- MODULE Lifecycle ------------------------------
(***************************************************************************)
(* The delivery engine: the messages of one plugin in Redis, and every     *)
(* asynchronous flow of the single service process that reads and writes   *)
(* them.  One action is one Redis round trip (or one vendor answer)        *)
(* together with the synchronous code that follows it, because the event   *)
(* loop may run any other flow at every `await` in between.                *)
(*                                                                         *)
(* Flows are the passes of distributeToNetworkServers (each goes on to     *)
(* hold the send it started), the rows of the lifecycle runner, the        *)
(* ingress handlers and the cancel requests.  What a flow captured before  *)
(* an await and uses after it is in its record flow[f].                    *)
(***************************************************************************)
EXTENDS StageTable, FiniteSets

CONSTANTS
    Messages,      \* device-message ids (ULIDs, never reused)
    Passes,        \* distribute passes that may be alive at once
    Handlers,      \* ingress requests being processed at once (PUSH)
    Cancels,       \* cancel requests being processed at once
    NoMsg, NoPass, \* "no message", "no send tracked"
    MaxRetries,    \* delivery.maxRetries
    MaxInFlight,   \* admission.maxInFlight of a concurrency plugin; 0: spacing admission
    MaxSends,      \* bound: vendor acceptances per message
    MaxFaults,     \* bound: process crashes and expiries
    MayExpire      \* environment: may the hash TTL run out?

ASSUME ConstantsAssumption ==
    /\ MaxRetries \in Nat /\ MaxInFlight \in Nat /\ MaxSends \in Nat /\ MaxFaults \in Nat
    /\ MayExpire \in BOOLEAN
    /\ NoMsg \notin Messages /\ NoPass \notin Passes
    /\ IsFiniteSet(Messages)

Rows  == PluginStages
Flows == Passes \cup Rows \cup Handlers \cup Cancels

ASSUME FlowsAssumption ==
    /\ Passes \cap (Rows \cup Handlers \cup Cancels) = {}
    /\ Rows \cap (Handlers \cup Cancels) = {}
    /\ Handlers \cap Cancels = {}

VARIABLES
    hash,      \* device_message:{id}: existence and the fields the engine decides on
    queue,     \* the sorted sets each id is a member of
    due,       \* the stages in which its score is in the past
    index,     \* idx:external_delivery_id entries that resolve to it
    slots,     \* the plugin's concurrency set
    worklist,  \* is the ready queue's key in queues_to_distribute_from?
    inFlight,  \* in-memory: the pass whose tracked send holds the message
    flow,      \* in-memory: where each flow is and what it captured
    todo,      \* in-memory: due ids a row read in its current drain and has not reached;
               \* slot members a pass read and sweeps
    sent,      \* ghost: how many times the vendor accepted this message
    told,      \* the delivery events durably stored for the adopter
    fate,      \* ghost: what the world outside the engine did with the message
    old,       \* messages older than PULL_MAX_MESSAGE_AGE_MS
    faults     \* ghost: crashes and expiries so far

redis  == <<hash, queue, due, index, slots, worklist>>
memory == <<inFlight, flow, todo>>
world  == <<sent, told, fate, old, faults>>
vars   == <<hash, queue, due, index, slots, worklist, inFlight, flow, todo,
            sent, told, fate, old, faults>>

-----------------------------------------------------------------------------
(* Values *)

Attempts == 1..MaxSends      \* vendor references of a message, by acceptance; 0: none
Events   == TerminalStatuses \cup {"SENT_TO_NS"}

\* `exists` is EXISTS; `whole` is false of a hash that lacks the fields
\* deserializeMessage requires.
Hash == [exists: BOOLEAN, whole: BOOLEAN, status: Statuses,
         retryCount: Nat, ref: Attempts \cup {0}, slot: BOOLEAN]

NoHash == [exists |-> FALSE, whole |-> FALSE, status |-> "QUEUED",
           retryCount |-> 0, ref |-> 0, slot |-> FALSE]

PassSteps   == {"admit", "sweep", "exists", "removeRoom", "removeFull", "pick", "emitSent",
                "calling", "accepted"}
RowSteps    == {"drain", "asking", "requeue", "listReady", "orphaned", "rescheduled"}
EventSteps  == {"lookup", "toDevice", "nackRead", "okRead"}
RetrySteps  == {"failRead", "zscore", "hmget", "retryExec"}
Steps == {"idle", "notify", "purge", "claim"} \cup PassSteps \cup RowSteps
                                              \cup EventSteps \cup RetrySteps

FlowRecord == [pc: Steps, msg: Messages \cup {NoMsg}, from: Queues \cup {"none"},
               event: Statuses \cup TerminalStatuses, skipRetry: BOOLEAN,
               retryCount: Nat, ref: Attempts \cup {0}, slot: BOOLEAN]

Idle == [pc |-> "idle", msg |-> NoMsg, from |-> "none", event |-> "QUEUED",
         skipRetry |-> FALSE, retryCount |-> 0, ref |-> 0, slot |-> FALSE]

TypeOK ==
    /\ hash \in [Messages -> Hash]
    /\ queue \in [Messages -> SUBSET Queues]
    /\ due \in [Messages -> SUBSET STAGES]
    /\ index \in [Messages -> SUBSET Attempts]
    /\ slots \in SUBSET Messages
    /\ worklist \in BOOLEAN
    /\ inFlight \in [Messages -> Passes \cup {NoPass}]
    /\ flow \in [Flows -> FlowRecord]
    /\ todo \in [Rows \cup Passes -> SUBSET Messages]
    /\ sent \in [Messages -> 0..MaxSends]
    /\ told \in [Messages -> SUBSET Events]
    /\ fate \in [Messages -> {"new", "accepted", "cancelled", "expired"}]
    /\ old \in SUBSET Messages
    /\ faults \in 0..MaxFaults

Init ==
    /\ hash = [m \in Messages |-> NoHash]
    /\ queue = [m \in Messages |-> {}]
    /\ due = [m \in Messages |-> {}]
    /\ index = [m \in Messages |-> {}]
    /\ slots = {}
    /\ worklist = FALSE
    /\ inFlight = [m \in Messages |-> NoPass]
    /\ flow = [f \in Flows |-> Idle]
    /\ todo = [f \in Rows \cup Passes |-> {}]
    /\ sent = [m \in Messages |-> 0]
    /\ told = [m \in Messages |-> {}]
    /\ fate = [m \in Messages |-> "new"]
    /\ old = {}
    /\ faults = 0

-----------------------------------------------------------------------------
(* Flows *)

Goto(f, step) == flow' = [flow EXCEPT ![f].pc = step]

\* The runner goes on to the next due id of its snapshot, any other flow is over.
AfterMember(f) == IF f \in Rows /\ todo[f] # {} THEN [Idle EXCEPT !.pc = "drain"] ELSE Idle

\* What becomes of flow f when the work on its message ends with `outcome`.
\* Only the runner acts on it: an orphaned member is scrubbed, a rescheduled
\* one gets a new score; a throw is turned into `rescheduled`.
Ended(f, outcome) ==
    IF f \in Rows /\ outcome \in {"orphaned", "rescheduled", "threw"}
    THEN [Idle EXCEPT !.pc = IF outcome = "orphaned" THEN "orphaned" ELSE "rescheduled",
                      !.msg = flow[f].msg]
    ELSE AfterMember(f)

\* The tracked promise of pass f settles with the flow itself.
Untrack(f) ==
    inFlight' = [m \in Messages |-> IF inFlight[m] = f THEN NoPass ELSE inFlight[m]]

Finish(f, outcome) ==
    /\ flow' = [flow EXCEPT ![f] = Ended(f, outcome)]
    /\ Untrack(f)

\* getMessageById: what the flow keeps of the hash it read.
Capture(f, step) ==
    LET h == hash[flow[f].msg]
    IN  [flow[f] EXCEPT !.pc = step, !.retryCount = h.retryCount, !.ref = h.ref, !.slot = h.slot]

\* A flow is in the middle of engine work on m: every step of it is a Redis
\* round trip of milliseconds.  Waiting for a vendor (send, status, poll) is not,
\* and neither is an id waiting in the snapshot of a row that asks a vendor.
Working(f, m) == flow[f].msg = m /\ flow[f].pc \notin {"idle", "calling", "accepted", "asking"}

Busy(m) ==
    \/ \E f \in Flows : Working(f, m)
    \/ \E r \in Rows \ {"relayNode", "awaitingTask"} : m \in todo[r]

-----------------------------------------------------------------------------
(* The two gated moves in Lua *)

\* move-message-between-queues.lua: ZREM is the gate, then the hash must exist.
Movable(m, from) == from \in queue[m] /\ hash[m].exists

\* ZREM from one sorted set and ZADD to the other with a score in the future.
TransferKeepsSource(m, from, to) ==      \* seeded fault: the ZREM is forgotten
    queue' = [queue EXCEPT ![m] = @ \cup {to}] /\ due' = [due EXCEPT ![m] = @ \ {to}]

Transfer(m, from, to) ==
    /\ queue' = [queue EXCEPT ![m] = (@ \ {from}) \cup {to}]
    /\ due' = [due EXCEPT ![m] = @ \ {from, to}]

Leave(m, from) ==
    /\ queue' = [queue EXCEPT ![m] = @ \ {from}]
    /\ due' = [due EXCEPT ![m] = @ \ {from}]

\* HSET of the status, and of the reference when there is a new one.
Moved(h, status, ref) ==
    [h EXCEPT !.exists = TRUE, !.status = status, !.ref = IF ref # 0 THEN ref ELSE h.ref]

Move(m, from, to, status, ref) ==
    /\ IF Movable(m, from) THEN Transfer(m, from, to) ELSE Leave(m, from)
    /\ hash' = IF Movable(m, from)
               THEN [hash EXCEPT ![m] = Moved(@, status, ref)] ELSE hash
    /\ index' = IF Movable(m, from) /\ ref # 0 THEN [index EXCEPT ![m] = @ \cup {ref}] ELSE index

advance(m, from, ref) ==
    Move(m, from, nextStage(from), entryStatus[nextStage(from)], ref)

-----------------------------------------------------------------------------
(* Enqueue and distribution *)

\* enqueueDeviceMessage: one MULTI.
Enqueue(m) ==
    /\ fate[m] = "new"
    /\ fate' = [fate EXCEPT ![m] = "accepted"]
    /\ hash' = [hash EXCEPT ![m] = [NoHash EXCEPT !.exists = TRUE, !.whole = TRUE]]
    /\ queue' = [queue EXCEPT ![m] = {"ready"}]
    /\ worklist' = TRUE
    /\ UNCHANGED <<due, index, slots, memory, sent, told, old, faults>>

\* SCARD of the slot set against admission.maxInFlight.
CapFullTooLate == MaxInFlight > 0 /\ Cardinality(slots) > MaxInFlight   \* seeded fault
CapFull == MaxInFlight > 0 /\ Cardinality(slots) >= MaxInFlight

\* listReadyQueues.
StartPass(p) ==
    /\ flow[p].pc = "idle"
    /\ worklist
    /\ Goto(p, "admit")
    /\ UNCHANGED <<redis, inFlight, todo, world>>

\* _canAdmit: the spacing lock may or may not be free; a concurrency cap that
\* looks exhausted is first swept of members whose hash is gone.
Admit(p) ==
    /\ flow[p].pc = "admit"
    /\ IF MaxInFlight = 0 THEN Goto(p, "pick") \/ Goto(p, "idle")
       ELSE Goto(p, IF CapFull THEN "sweep" ELSE "pick")
    /\ UNCHANGED <<redis, inFlight, todo, world>>

\* validateAndCleanConcurrencyRateLimit: SMEMBERS,
SweepMembers(p) ==
    /\ flow[p].pc = "sweep"
    /\ todo' = [todo EXCEPT ![p] = slots]
    /\ Goto(p, IF slots = {} THEN "pick" ELSE "exists")
    /\ UNCHANGED <<redis, inFlight, world>>

\* EXISTS of each member's hash; what remains is compared with the cap,
SweepExists(p) ==
    LET dead == {m \in todo[p] : ~hash[m].exists}
        room == Cardinality(todo[p] \ dead) < MaxInFlight
    IN  /\ flow[p].pc = "exists"
        /\ todo' = [todo EXCEPT ![p] = dead]
        /\ Goto(p, IF dead = {} THEN IF room THEN "pick" ELSE "idle"
                   ELSE IF room THEN "removeRoom" ELSE "removeFull")
        /\ UNCHANGED <<redis, inFlight, world>>

\* SREM of the members found dead.
SweepRemove(p) ==
    /\ flow[p].pc \in {"removeRoom", "removeFull"}
    /\ slots' = slots \ todo[p]
    /\ todo' = [todo EXCEPT ![p] = {}]
    /\ Goto(p, IF flow[p].pc = "removeRoom" THEN "pick" ELSE "idle")
    /\ UNCHANGED <<hash, queue, due, index, worklist, inFlight, world>>

Sweep(p) == SweepMembers(p) \/ SweepExists(p) \/ SweepRemove(p)

\* fetch-next-message-in-queue.lua, refused (cap) or with nothing to pop.
PickNothing(p) ==
    /\ flow[p].pc = "pick"
    /\ \/ CapFull /\ UNCHANGED worklist
       \/ /\ ~CapFull
          /\ \A m \in Messages : "ready" \notin queue[m]
          /\ worklist' = FALSE
    /\ Goto(p, "idle")
    /\ UNCHANGED <<hash, queue, due, index, slots, inFlight, todo, world>>

\* ZCARD of the ready queue after the pop.
LeavesOthersReady(m) == \E o \in Messages \ {m} : "ready" \in queue[o]

\* The SENT_TO_NS event is for the first attempt only.
anyRetry(m) == hash[m].retryCount # 0    \* seeded fault: the condition is inverted
firstAttempt(m) == hash[m].retryCount = 0

\* HSET of the status and, under a cap, of the slot key.
Picked(h) == [h EXCEPT !.status = entryStatus.ns, !.slot = (h.slot \/ MaxInFlight > 0)]

\* fetch-next-message-in-queue.lua, popping m; any ready id may have the best
\* score.  An id without a hash is dropped; deserializing one without its
\* fields throws after the script has moved it.
Pick(p, m) ==
    /\ flow[p].pc = "pick"
    /\ ~CapFull
    /\ "ready" \in queue[m]
    /\ worklist' = (worklist /\ LeavesOthersReady(m))
    /\ IF hash[m].exists
       THEN /\ Transfer(m, "ready", "ns")
            /\ hash' = [hash EXCEPT ![m] = Picked(@)]
            /\ slots' = IF MaxInFlight > 0 THEN slots \cup {m} ELSE slots
       ELSE Leave(m, "ready") /\ UNCHANGED <<hash, slots>>
    /\ IF hash[m].whole
       THEN /\ flow' = [flow EXCEPT ![p] = [Idle EXCEPT
                            !.pc = IF firstAttempt(m) THEN "emitSent" ELSE "calling", !.msg = m]]
            /\ inFlight' = IF firstAttempt(m) THEN inFlight ELSE [inFlight EXCEPT ![m] = p]
       ELSE Goto(p, "idle") /\ UNCHANGED inFlight
    /\ UNCHANGED <<index, todo, world>>

\* The SENT_TO_NS event of a first attempt is stored, then the send starts and
\* is tracked in the same turn of the event loop.
EmitSent(p) ==
    LET m == flow[p].msg
    IN  /\ flow[p].pc = "emitSent"
        /\ told' = [told EXCEPT ![m] = @ \cup {"SENT_TO_NS"}]
        /\ inFlight' = [inFlight EXCEPT ![m] = p]
        /\ Goto(p, "calling")
        /\ UNCHANGED <<redis, todo, sent, fate, old, faults>>

\* The vendor takes the command; its answer is still on the way.
VendorAccepts(p) ==
    LET m == flow[p].msg
    IN  /\ flow[p].pc = "calling"
        /\ sent[m] < MaxSends
        /\ sent' = [sent EXCEPT ![m] = @ + 1]
        /\ flow' = [flow EXCEPT ![p].pc = "accepted", ![p].ref = sent[m] + 1]
        /\ UNCHANGED <<redis, inFlight, todo, told, fate, old, faults>>

\* sendOne resolved with the vendor's reference: leave ns and index it.
SendOk(p) ==
    /\ flow[p].pc = "accepted"
    /\ advance(flow[p].msg, "ns", flow[p].ref)
    /\ Finish(p, "sent")
    /\ UNCHANGED <<slots, worklist, todo, world>>

\* sendOne threw (accepted or not), or resolved with an empty reference.
SendFailed(p) ==
    /\ flow[p].pc \in {"calling", "accepted"}
    /\ \E skip \in BOOLEAN :
          flow' = [flow EXCEPT ![p] = [Idle EXCEPT !.pc = "failRead", !.msg = flow[p].msg,
                                                   !.from = "ns", !.skipRetry = skip]]
    /\ UNCHANGED <<redis, inFlight, todo, world>>

-----------------------------------------------------------------------------
(* retryOrFail and enterRetry, run by sends, rows and ingress *)

\* DEL of the index of an external reference; SREM of a slot the message names.
UnindexNothing(m, ref) == UNCHANGED index   \* seeded fault: the stale index survives
Unindex(m, ref) == index' = [index EXCEPT ![m] = @ \ {ref}]

ReleaseNever(m, held) == UNCHANGED slots    \* seeded fault: the slot is leaked
Release(m, held) == slots' = IF held THEN slots \ {m} ELSE slots

isFinalFailureLate(f) ==                 \* seeded fault: off by one
    flow[f].skipRetry \/ hash[flow[f].msg].retryCount > MaxRetries

isFinalFailure(f) == flow[f].skipRetry \/ hash[flow[f].msg].retryCount >= MaxRetries

\* The final failure is notified before it is purged.
FinalStepUnnotified == "purge"           \* seeded fault: purged without an event
FinalStep == "notify"

\* getMessageById, then the decision.  A hash without its fields throws.
FailReadStale(f) ==                      \* seeded fault: decides on the caller's old copy
    /\ flow[f].pc = "failRead"
    /\ flow' = [flow EXCEPT ![f].pc = IF flow[f].retryCount >= MaxRetries THEN "notify" ELSE "zscore",
                            ![f].event = "DELIVERY_FAILED"]
    /\ UNCHANGED <<redis, inFlight, todo, world>>

FailRead(f) ==
    LET h == hash[flow[f].msg]
    IN  /\ flow[f].pc = "failRead"
        /\ \/ ~h.exists /\ Finish(f, "orphaned")
           \/ h.exists /\ ~h.whole /\ Finish(f, "threw")
           \/ /\ h.whole
              /\ flow' = [flow EXCEPT ![f] =
                             IF isFinalFailure(f)
                             THEN [Capture(f, FinalStep) EXCEPT !.event = "DELIVERY_FAILED"]
                             ELSE Capture(f, "zscore")]
              /\ UNCHANGED inFlight
        /\ UNCHANGED <<redis, todo, world>>

\* emitDeliveryEvent with a terminal status: durable before the hash goes.
Notify(f) ==
    /\ flow[f].pc = "notify"
    /\ told' = [told EXCEPT ![flow[f].msg] = @ \cup {flow[f].event}]
    /\ Goto(f, "purge")
    /\ UNCHANGED <<redis, inFlight, todo, sent, fate, old, faults>>

\* messageFullCleanup, one MULTI over what the caller's copy of the message names.
Purge(f) ==
    LET m == flow[f].msg
    IN  /\ flow[f].pc = "purge"
        /\ hash' = [hash EXCEPT ![m] = NoHash]
        /\ queue' = [queue EXCEPT ![m] = {}]
        /\ due' = [due EXCEPT ![m] = {}]
        /\ Unindex(m, flow[f].ref)
        /\ Release(m, flow[f].slot)
        /\ Finish(f, "removed")
        /\ UNCHANGED <<worklist, todo, world>>

\* enterRetry's guard.
Zscore(f) ==
    /\ flow[f].pc = "zscore"
    /\ IF flow[f].from \in queue[flow[f].msg]
       THEN Goto(f, "hmget") /\ UNCHANGED inFlight
       ELSE Finish(f, "orphaned")
    /\ UNCHANGED <<redis, todo, world>>

\* The stale reference and the slot key are read again, on their own.
Hmget(f) ==
    LET h == hash[flow[f].msg]
    IN  /\ flow[f].pc = "hmget"
        /\ flow' = [flow EXCEPT ![f].pc = "retryExec", ![f].ref = h.ref, ![f].slot = h.slot]
        /\ UNCHANGED <<redis, inFlight, todo, world>>

\* HSET of the retry metadata; HDEL of the reference and of the slot key.
Retried(h, g) ==
    [h EXCEPT !.exists = TRUE, !.status = entryStatus.retry, !.retryCount = g.retryCount + 1,
              !.ref = 0, !.slot = (h.slot /\ ~g.slot)]

\* enterRetry's MULTI: HSET creates the hash when it is gone.
RetryExec(f) ==
    LET m == flow[f].msg
    IN  /\ flow[f].pc = "retryExec"
        /\ hash' = [hash EXCEPT ![m] = Retried(@, flow[f])]
        /\ Transfer(m, flow[f].from, "retry")
        /\ Unindex(m, flow[f].ref)
        /\ Release(m, flow[f].slot)
        /\ Finish(f, "movedOn")
        /\ UNCHANGED <<worklist, todo, world>>

-----------------------------------------------------------------------------
(* The lifecycle runner: one drain per row at a time *)

\* getExpiredMessagesInQueue: the snapshot of due members.
StartDrain(r) ==
    LET snapshot == {m \in Messages : r \in queue[m] /\ r \in due[m]}
    IN  /\ flow[r].pc = "idle"
        /\ snapshot # {}
        /\ todo' = [todo EXCEPT ![r] = snapshot]
        /\ Goto(r, "drain")
        /\ UNCHANGED <<redis, inFlight, world>>

\* messageAgeMs >= PULL_MAX_MESSAGE_AGE_MS.
neverOutlived(m) == FALSE                \* seeded fault: no age cap
outlivedCap(m) == m \in old

\* inFlightSends.has: this process still holds the send.
neverHeld(m) == FALSE                    \* seeded fault: the deadline ignores held sends
inFlightSends_has(m) == inFlight[m] # NoPass

\* The row's action, up to its first await, on message m.
Act(r, m) ==
    LET h == hash[m]
        held == [Idle EXCEPT !.msg = m, !.from = r, !.retryCount = h.retryCount,
                             !.ref = h.ref, !.slot = h.slot]
        At(step) == [held EXCEPT !.pc = step]
        ToRetryOrFail == At("failRead")
        Wait == [Idle EXCEPT !.pc = "rescheduled", !.msg = m]
    IN  CASE r = "ns"        -> IF inFlightSends_has(m) THEN Wait ELSE ToRetryOrFail
          [] r = "relayNode" -> At("asking")
          [] r = "device"    -> ToRetryOrFail
          [] r = "awaitingTask" ->
                IF outlivedCap(m) THEN [At("notify") EXCEPT !.event = "DELIVERY_FAILED"]
                ELSE IF h.ref = 0 THEN Wait ELSE At("asking")
          [] r = "retry"     -> At("requeue")

\* One due id: read the hash.  An id without a hash is scrubbed; a hash that
\* cannot be deserialized throws out of the whole drain.
DrainNext(r, m) ==
    /\ flow[r].pc = "drain"
    /\ m \in todo[r]
    /\ IF hash[m].exists /\ ~hash[m].whole
       THEN /\ todo' = [todo EXCEPT ![r] = {}]
            /\ flow' = [flow EXCEPT ![r] = Idle]
       ELSE /\ todo' = [todo EXCEPT ![r] = @ \ {m}]
            /\ flow' = [flow EXCEPT ![r] = IF hash[m].whole THEN Act(r, m)
                                           ELSE [Idle EXCEPT !.pc = "orphaned", !.msg = m]]
    /\ UNCHANGED <<redis, inFlight, world>>

\* getRemoteStatus answered: the network server still holds the item...
StillQueued(r) ==
    /\ r = "relayNode" /\ flow[r].pc = "asking"
    /\ flow' = [flow EXCEPT ![r] = [Idle EXCEPT !.pc = "rescheduled", !.msg = flow[r].msg]]
    /\ UNCHANGED <<redis, inFlight, todo, world>>

\* ... or it does not; a throw, and a plugin that cannot ask, count as that.
NoLongerQueued(r) ==
    /\ r = "relayNode" /\ flow[r].pc = "asking"
    /\ Goto(r, "failRead")
    /\ UNCHANGED <<redis, inFlight, todo, world>>

\* fetchStatus answered: nothing yet (or a throw), or an event for processEvent.
PollAnswered(r) ==
    /\ r = "awaitingTask" /\ flow[r].pc = "asking"
    /\ \/ flow' = [flow EXCEPT ![r] = [Idle EXCEPT !.pc = "rescheduled", !.msg = flow[r].msg]]
       \/ \E status \in TerminalStatuses, skip \in BOOLEAN :
             /\ skip => status = "DELIVERY_FAILED"
             /\ flow' = [flow EXCEPT ![r] = [Idle EXCEPT
                            !.pc = "lookup", !.msg = flow[r].msg, !.ref = flow[r].ref,
                            !.event = status, !.skipRetry = skip]]
    /\ UNCHANGED <<redis, inFlight, todo, world>>

\* moves.requeue: the gated move back to the ready queue at its priority...
Requeue(r) ==
    LET m == flow[r].msg
    IN  /\ r = "retry" /\ flow[r].pc = "requeue"
        /\ Move(m, "retry", "ready", "QUEUED", 0)
        /\ flow' = [flow EXCEPT ![r] =
                       IF Movable(m, "retry") THEN [Idle EXCEPT !.pc = "listReady", !.msg = m]
                                              ELSE Ended(r, "orphaned")]
        /\ UNCHANGED <<slots, worklist, inFlight, todo, world>>

\* ... and, in a round trip of its own, the work-list entry.
ListReadySkipped(r) ==                   \* seeded fault: the entry is not written
    flow[r].pc = "listReady" /\ Finish(r, "movedOn")
    /\ UNCHANGED <<redis, todo, world>>

ListReady(r) ==
    /\ flow[r].pc = "listReady"
    /\ worklist' = TRUE
    /\ Finish(r, "movedOn")
    /\ UNCHANGED <<hash, queue, due, index, slots, todo, world>>

\* Outcome `orphaned`: ZREM from this row's queue.
Scrub(r) ==
    LET m == flow[r].msg
    IN  /\ flow[r].pc = "orphaned"
        /\ Leave(m, r)
        /\ Finish(r, "movedOn")
        /\ UNCHANGED <<hash, index, slots, worklist, todo, world>>

\* Outcome `rescheduled`: ZADD XX, a member that left is not resurrected.
Reschedule(r) ==
    /\ flow[r].pc = "rescheduled"
    /\ due' = [due EXCEPT ![flow[r].msg] = @ \ {r}]
    /\ Finish(r, "movedOn")
    /\ UNCHANGED <<hash, queue, index, slots, worklist, todo, world>>

-----------------------------------------------------------------------------
(* processEvent, run by ingress handlers (PUSH) and by the awaitingTask row *)

\* A vendor event about an accepted send arrives; it may be late, repeated, or
\* overtake the answer to the send itself.
Ingress(h, m, ref, status) ==
    /\ Pattern = "PUSH"
    /\ flow[h].pc = "idle"
    /\ ref \in 1..sent[m]
    /\ flow' = [flow EXCEPT ![h] = [Idle EXCEPT !.pc = "lookup", !.msg = m, !.ref = ref,
                                                !.event = status]]
    /\ UNCHANGED <<redis, inFlight, todo, world>>

\* getMessageIdFromDeliveryQueueId, then the branch on the event's status.
Lookup(f) ==
    /\ flow[f].pc = "lookup"
    /\ IF flow[f].ref \notin index[flow[f].msg] THEN Finish(f, "orphaned")
       ELSE /\ Goto(f, CASE flow[f].event = "SENT_TO_DEVICE"      -> "toDevice"
                         [] flow[f].event = "DELIVERY_FAILED"     -> "nackRead"
                         [] flow[f].event = "DELIVERY_SUCCESSFUL" -> "okRead")
            /\ UNCHANGED inFlight
    /\ UNCHANGED <<redis, todo, world>>

\* txack: leave the network server's wait for the device's.
ToDevice(f) ==
    /\ flow[f].pc = "toDevice"
    /\ advance(flow[f].msg, "relayNode", 0)
    /\ Finish(f, "movedOn")
    /\ UNCHANGED <<slots, worklist, todo, world>>

\* A negative response: retry from the stage the hash says the message is in.
NackRead(f) ==
    LET h == hash[flow[f].msg]
        stage == stageForStatus(h.status)
    IN  /\ flow[f].pc = "nackRead"
        /\ IF ~h.exists THEN Finish(f, "orphaned")
           ELSE IF ~h.whole THEN Finish(f, "threw")
           ELSE IF stage = "none" THEN Finish(f, "orphaned")
           ELSE /\ flow' = [flow EXCEPT ![f].pc = "failRead", ![f].from = stage]
                /\ UNCHANGED inFlight
        /\ UNCHANGED <<redis, todo, world>>

\* A positive response: read the copy that is notified and purged.
OkRead(f) ==
    LET h == hash[flow[f].msg]
    IN  /\ flow[f].pc = "okRead"
        /\ IF ~h.exists THEN Finish(f, "orphaned")
           ELSE IF ~h.whole THEN Finish(f, "threw")
           ELSE /\ flow' = [flow EXCEPT ![f] = Capture(f, "notify")]
                /\ UNCHANGED inFlight
        /\ UNCHANGED <<redis, todo, world>>

-----------------------------------------------------------------------------
(* Cancel *)

\* The message is read by its correlation id; only QUEUED and TO_RETRY go on.
StartCancel(c, m) ==
    LET h == hash[m]
    IN  /\ flow[c].pc = "idle"
        /\ h.whole
        /\ h.status \in {"QUEUED", "TO_RETRY"}
        /\ flow' = [flow EXCEPT ![c] = [Idle EXCEPT !.pc = "claim", !.msg = m,
                       !.from = queueForStatus(h.status), !.ref = h.ref, !.slot = h.slot]]
        /\ UNCHANGED <<redis, inFlight, todo, world>>

\* ZREM is the claim: whoever removes the member owns the message.
claimed(c) == flow[c].from \in queue[flow[c].msg]

Claim(c) ==
    LET m == flow[c].msg
    IN  /\ flow[c].pc = "claim"
        /\ IF claimed(c)
           THEN /\ Goto(c, "purge")
                /\ fate' = [fate EXCEPT ![m] =
                               IF @ = "expired" /\ ~hash[m].whole THEN @ ELSE "cancelled"]
           ELSE /\ flow' = [flow EXCEPT ![c] = Idle]
                /\ UNCHANGED fate
        /\ Leave(m, flow[c].from)
        /\ UNCHANGED <<hash, index, slots, worklist, inFlight, todo, sent, told, old, faults>>

-----------------------------------------------------------------------------
(* Time, the hash TTL, and the process *)

\* The shortest wait (retryBaseDelayMs) outlasts the longest run of Redis round
\* trips, so no score set before or during engine work on m passes during it.
BecomesDue(m, s) ==
    /\ s \in queue[m] \ due[m]
    /\ ~Busy(m)
    /\ due' = [due EXCEPT ![m] = @ \cup {s}]
    /\ UNCHANGED <<hash, queue, index, slots, worklist, memory, world>>

\* 48 hours have passed since the id was made.  Only a poll looks at the age, so the
\* step is left to the moments when a drain of polls has the message still to come.
GrowsOld(m) ==
    /\ Pattern = "PULL"
    /\ m \in todo["awaitingTask"] \ old
    /\ hash[m].whole
    /\ old' = old \cup {m}
    /\ UNCHANGED <<redis, memory, sent, told, fate, faults>>

\* messageTtlSeconds ran out; a hash enterRetry created has no TTL.
Expire(m) ==
    /\ MayExpire /\ faults < MaxFaults
    /\ faults' = faults + 1
    /\ hash[m].whole
    /\ hash' = [hash EXCEPT ![m] = NoHash]
    /\ fate' = [fate EXCEPT ![m] = "expired"]
    /\ UNCHANGED <<queue, due, index, slots, worklist, memory, sent, told, old>>

\* The process dies and starts again: what was in memory is gone, and the
\* vendor may or may not have taken a command that was on the wire.
Crash ==
    /\ faults < MaxFaults
    /\ faults' = faults + 1
    /\ inFlight' = [m \in Messages |-> NoPass]
    /\ flow' = [f \in Flows |-> Idle]
    /\ todo' = [f \in Rows \cup Passes |-> {}]
    /\ UNCHANGED <<redis, sent, told, fate, old>>

-----------------------------------------------------------------------------
PassStep(p) ==
    \/ StartPass(p) \/ Admit(p) \/ Sweep(p) \/ PickNothing(p)
    \/ \E m \in Messages : Pick(p, m)
    \/ EmitSent(p) \/ VendorAccepts(p) \/ SendOk(p) \/ SendFailed(p)

\* retryOrFail, the terminal notification and the purge, whoever runs them.
SharedStep(f) ==
    \/ FailRead(f) \/ Notify(f) \/ Purge(f) \/ Zscore(f) \/ Hmget(f) \/ RetryExec(f)

RowStep(r) ==
    \/ StartDrain(r)
    \/ \E m \in Messages : DrainNext(r, m)
    \/ StillQueued(r) \/ NoLongerQueued(r) \/ PollAnswered(r) \/ Requeue(r) \/ ListReady(r)
    \/ Scrub(r) \/ Reschedule(r)

EventStep(f) == Lookup(f) \/ ToDevice(f) \/ NackRead(f) \/ OkRead(f)

Engine ==
    \/ \E p \in Passes : PassStep(p)
    \/ \E r \in Rows : RowStep(r)
    \/ \E f \in Flows : SharedStep(f) \/ EventStep(f)
    \/ \E c \in Cancels : Claim(c)

Environment ==
    \/ \E m \in Messages :
          \/ Enqueue(m) \/ GrowsOld(m) \/ Expire(m)
          \/ \E s \in STAGES : BecomesDue(m, s)
          \/ \E c \in Cancels : StartCancel(c, m)
          \/ \E h \in Handlers, ref \in Attempts,
                status \in {"SENT_TO_DEVICE"} \cup TerminalStatuses : Ingress(h, m, ref, status)
    \/ Crash

Next == Engine \/ Environment

Spec == Init /\ [][Next]_vars

\* The behaviours in which no two flows overlap in the middle of their Redis
\* round trips on one message (a vendor event never meets the runner's work on
\* the same message); sends, status queries and polls still overlap anything.
Serial == \A m \in Messages : \A f, g \in Flows : Working(f, m) /\ Working(g, m) => f = g

\* And in which a row has finished with a message before it is sent again: the
\* query of the relayNode row (60 s at most) is answered within the attempt it is
\* about.  The ns row is exempt, it meets held sends by design.
RowsPrompt ==
    \A r \in Rows \ {"ns"}, p \in Passes :
        flow[r].msg \in Messages => flow[p].msg # flow[r].msg

SerialSpec == Init /\ [][Next /\ (Serial /\ RowsPrompt)']_vars

\* The event loop runs every flow on, the one-second tick starts passes and
\* drains, scores and ages are absolute times that come, a spacing lock runs out,
\* and a network server does not hold an item for ever.  A vendor call settles
\* (HTTP timeouts) but nothing is assumed of its outcome.
Fairness ==
    /\ \A p \in Passes :
          /\ WF_vars(PassStep(p)) /\ WF_vars(SharedStep(p))
          /\ SF_vars(Admit(p) /\ flow'[p].pc = "pick")
    /\ \A r \in Rows :
          WF_vars(RowStep(r)) /\ WF_vars(SharedStep(r)) /\ WF_vars(EventStep(r))
    /\ "relayNode" \in Rows => SF_vars(NoLongerQueued("relayNode"))
    /\ \A h \in Handlers : WF_vars(SharedStep(h)) /\ WF_vars(EventStep(h))
    /\ \A c \in Cancels : WF_vars(Claim(c)) /\ WF_vars(SharedStep(c))
    /\ \A m \in Messages :
          /\ SF_vars(GrowsOld(m))
          /\ \A s \in Rows : SF_vars(BecomesDue(m, s))

FairSpec == Spec /\ Fairness

SerialFairSpec == SerialSpec /\ Fairness

-----------------------------------------------------------------------------
(* Properties *)

InNetwork == {"SENT_TO_NS", "DELIVERED_TO_NS", "SENT_TO_DEVICE"}

\* No accepted message is dropped silently: when its hash is gone and neither a
\* cancel nor the TTL took it, a terminal event is already stored.  Every path
\* that purges (failed send, deadline, poll, ack, age cap) must have notified
\* first, whatever crash or other flow came in between.
DurableNotify ==
    \A m \in Messages :
        fate[m] = "accepted" /\ ~hash[m].whole => told[m] \cap TerminalStatuses # {}

\* ADR-008 par. 12: the status in the hash says which one queue the message is
\* in, so a nack or a cancel that looks the queue up by status finds it.
StageIsDerivable ==
    \A m \in Messages :
        hash[m].whole /\ fate[m] # "cancelled" => queue[m] = {queueForStatus(hash[m].status)}

\* A deadline never acts on a send the process still holds (ADR-008 par. 8): the
\* message stays in ns for it, so the move after the send cannot lose its claim,
\* and no second send of the message is under way.
HeldSendKeepsStage ==
    \A p \in Passes :
        flow[p].pc \in {"calling", "accepted"} =>
            LET m == flow[p].msg
            IN  /\ hash[m].whole => queue[m] = {"ns"} /\ hash[m].status = "SENT_TO_NS"
                /\ \A q \in Passes \ {p} : flow[q].msg # m

\* Each time the vendor takes the command an attempt of the retry budget is
\* spent, so the device is commanded at most maxRetries + 1 times.
RetryBudget ==
    \A m \in Messages :
        /\ sent[m] <= MaxRetries + 1
        /\ hash[m].whole => /\ hash[m].retryCount <= MaxRetries
                            /\ sent[m] <= hash[m].retryCount
                                 + (IF hash[m].status \in InNetwork THEN 1 ELSE 0)

\* An external reference resolves to a live message only while it is that
\* message's current one: an event about an earlier attempt cannot touch it.
ReferencesCurrent ==
    \A m \in Messages : hash[m].whole => index[m] \subseteq {hash[m].ref} \ {0}

\* The concurrency cap bounds what is really in the network, not just the
\* cardinality of the slot set.
CapRespected ==
    MaxInFlight > 0 =>
        Cardinality({m \in Messages : hash[m].whole /\ hash[m].status \in InNetwork}) <= MaxInFlight

\* A slot is held only by a message in the network or by an id whose hash is
\* gone (which the sweep frees): retries and terminal outcomes give it back.
SlotsReturned ==
    \A m \in slots : hash[m].whole => hash[m].status \in InNetwork /\ hash[m].slot

\* A ready message is found by the distributor: its queue is in the work list,
\* or the flow that made it ready is about to list it.
ReadyIsListed ==
    (\E m \in Messages : "ready" \in queue[m]) =>
        worklist \/ \E r \in Rows : flow[r].pc = "listReady"

\* The adopter hears that the message was handed over before it hears how it
\* ended, although the two events come from different flows.
SentBeforeVerdict ==
    \A m \in Messages : told[m] \cap TerminalStatuses # {} => "SENT_TO_NS" \in told[m]

\* The adopter is not told both that a message was delivered and that it failed.
OneVerdict == \A m \in Messages : ~(TerminalStatuses \subseteq told[m])

\* A purged hash stays gone: no flow brings back part of a message that another one
\* has purged (a hash no reader can deserialize).  A hash whose TTL ran out is not
\* spoken of: it may go between any two round trips of a flow.
GoneStaysGone ==
    [][\A m \in Messages :
          fate[m] \notin {"new", "expired"} /\ ~hash[m].exists => ~hash'[m].exists]_vars

\* Every accepted message is resolved: it is cancelled or expires, or a terminal
\* event is stored and nothing of it is left in the queues.  No retry, deadline,
\* poll, cap or work-list entry may strand it.
EventuallyResolved ==
    \A m \in Messages :
        fate[m] = "accepted" ~> \/ fate[m] # "accepted"
                               \/ /\ told[m] \cap TerminalStatuses # {}
                                  /\ ~hash[m].exists /\ queue[m] = {}
=============================================================================
