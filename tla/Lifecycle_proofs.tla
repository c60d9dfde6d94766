-------------------------- MODULE Lifecycle_proofs --------------------------
(***************************************************************************)
(* What holds of the delivery engine for any number of messages, passes,   *)
(* handlers and cancels, any retry limit and cap, either pattern, crashes *)
(* and expiry included: the types, and that no accepted message is dropped *)
(* without a terminal event.                                               *)
(***************************************************************************)
EXTENDS Lifecycle, TLAPS

-----------------------------------------------------------------------------
(* The inductive invariant *)

\* The steps a flow can be at without a message in hand.
Unattached == {"idle", "admit", "sweep", "exists", "removeRoom", "removeFull", "pick", "drain"}

IngressEvents == {"SENT_TO_DEVICE"} \cup TerminalStatuses

\* What a flow record must satisfy beyond its type: past the unattached steps it
\* names a message, and the event it carries fits the branch it is on.
FlowOK(g) ==
    /\ g \in FlowRecord
    /\ g.pc \notin Unattached => g.msg \in Messages
    /\ g.pc = "lookup" => /\ g.event \in IngressEvents
                          /\ g.event = "SENT_TO_DEVICE" => Pattern = "PUSH"
    /\ g.pc = "toDevice" => Pattern = "PUSH"
    /\ g.pc = "okRead" => g.event = "DELIVERY_SUCCESSFUL"
    /\ g.pc = "notify" => g.event \in TerminalStatuses

FlowsOK == flow \in [Flows -> FlowRecord] /\ \A f \in Flows : FlowOK(flow[f])

\* TypeOK without its conjunct on flow, in three groups.
RedisOK ==
    /\ hash \in [Messages -> Hash]
    /\ queue \in [Messages -> SUBSET Queues]
    /\ due \in [Messages -> SUBSET STAGES]
    /\ index \in [Messages -> SUBSET Attempts]
    /\ slots \in SUBSET Messages
    /\ worklist \in BOOLEAN

MemoryOK ==
    /\ inFlight \in [Messages -> Passes \cup {NoPass}]
    /\ todo \in [Rows \cup Passes -> SUBSET Messages]

WorldOK ==
    /\ sent \in [Messages -> 0..MaxSends]
    /\ told \in [Messages -> SUBSET Events]
    /\ fate \in [Messages -> {"new", "accepted", "cancelled", "expired"}]
    /\ old \in SUBSET Messages
    /\ faults \in 0..MaxFaults

\* A purge in progress was announced, or the message is no longer the engine's.
PurgeJustified ==
    \A f \in Flows :
        flow[f].pc = "purge" =>
            \/ told[flow[f].msg] \cap TerminalStatuses # {}
            \/ fate[flow[f].msg] \in {"cancelled", "expired"}

TypeInv == RedisOK /\ MemoryOK /\ WorldOK /\ FlowsOK
DurableInv == TypeInv /\ PurgeJustified /\ DurableNotify

-----------------------------------------------------------------------------
(* Lemmas about the helpers *)

\* The idle record is a flow record.
LEMMA IdleOK == FlowOK(Idle)
  BY ConstantsAssumption DEF FlowOK, Idle, FlowRecord, Steps, Unattached, Statuses, Queues

\* Changing one flow to a good record keeps all flows good.
LEMMA FlowsStep ==
  ASSUME FlowsOK, NEW f \in Flows, NEW g, FlowOK(g), flow' = [flow EXCEPT ![f] = g]
  PROVE  FlowsOK'
  BY DEF FlowsOK, FlowOK

\* However the work on a member ends, the flow is left in a good record.
LEMMA EndedOK ==
  ASSUME FlowsOK, NEW f \in Flows, NEW outcome, flow[f].msg \in Messages
  PROVE  FlowOK(Ended(f, outcome))
<1>1. \A step \in {"orphaned", "rescheduled"} :
         FlowOK([Idle EXCEPT !.pc = step, !.msg = flow[f].msg])
  BY IdleOK DEF FlowOK, Idle, FlowRecord, Steps, RowSteps, Unattached
<1>2. FlowOK([Idle EXCEPT !.pc = "drain"])
  BY IdleOK DEF FlowOK, Idle, FlowRecord, Steps, RowSteps, Unattached
<1> QED
  BY <1>1, <1>2, IdleOK DEF Ended, AfterMember

\* Ending a flow keeps the flows and the register of held sends well formed.
LEMMA FinishOK ==
  ASSUME FlowsOK, NEW f \in Flows, NEW outcome, flow[f].msg \in Messages, Finish(f, outcome),
         inFlight \in [Messages -> Passes \cup {NoPass}]
  PROVE  FlowsOK' /\ inFlight' \in [Messages -> Passes \cup {NoPass}]
<1>1. FlowsOK'
  BY EndedOK, FlowsStep DEF Finish
<1>2. inFlight' \in [Messages -> Passes \cup {NoPass}]
  BY DEF Finish, Untrack
<1> QED
  BY <1>1, <1>2

\* Going to another step needs only that step's own conditions.
LEMMA GotoOK ==
  ASSUME FlowsOK, NEW f \in Flows, NEW step \in Steps, Goto(f, step),
         step \in Unattached \/ flow[f].msg \in Messages,
         step \in {"lookup", "toDevice", "okRead", "notify"} => FlowOK([flow[f] EXCEPT !.pc = step])
  PROVE  FlowsOK'
<1>1. Goto(f, step) => flow' = [flow EXCEPT ![f] = [flow[f] EXCEPT !.pc = step]]
  BY DEF Goto, FlowsOK
<1>2. FlowOK([flow[f] EXCEPT !.pc = step])
  BY DEF FlowsOK, FlowOK, FlowRecord, Unattached
<1> QED
  BY <1>1, <1>2, FlowsStep

\* What a flow captures of a hash is of the right types.
LEMMA CaptureOK ==
  ASSUME FlowsOK, RedisOK, NEW f \in Flows, flow[f].msg \in Messages, NEW step \in Steps
  PROVE  /\ Capture(f, step) \in FlowRecord
         /\ Capture(f, step).pc = step
         /\ Capture(f, step).msg = flow[f].msg
         /\ Capture(f, step).event = flow[f].event
  BY DEF Capture, FlowsOK, RedisOK, Hash, FlowRecord

\* What the two scripts and enterRetry write into a hash is a hash.
LEMMA MovedOK ==
  ASSUME NEW h \in Hash, NEW status \in Statuses, NEW ref \in Attempts \cup {0}
  PROVE  Moved(h, status, ref) \in Hash
  BY DEF Moved, Hash

LEMMA PickedOK ==
  ASSUME NEW h \in Hash
  PROVE  Picked(h) \in Hash
  BY DEF Picked, Hash, entryStatus, Statuses

LEMMA RetriedOK ==
  ASSUME NEW h \in Hash, NEW g \in FlowRecord
  PROVE  Retried(h, g) \in Hash
<1>1. PICK n \in Nat : n = g.retryCount + 1
  BY DEF FlowRecord
<1>2. PICK b \in BOOLEAN : b = (h.slot /\ ~g.slot)
  OBVIOUS
<1>3. [h EXCEPT !.exists = TRUE, !.status = "TO_RETRY", !.retryCount = n,
                !.ref = 0, !.slot = b] \in Hash
  BY DEF Hash, Statuses
<1>4. entryStatus.retry = "TO_RETRY"
  BY DEF entryStatus
<1> QED
  BY <1>1, <1>2, <1>3, <1>4, Zenon DEF Retried

\* Both gated moves keep the Redis values well formed.
LEMMA MoveOK ==
  ASSUME RedisOK, NEW m \in Messages, NEW from, NEW to \in Queues, NEW status \in Statuses,
         NEW ref \in Attempts \cup {0}, Move(m, from, to, status, ref),
         UNCHANGED <<slots, worklist>>
  PROVE  RedisOK'
<1>1. hash' \in [Messages -> Hash]
  BY MovedOK DEF Move, RedisOK
<1>2. queue' \in [Messages -> SUBSET Queues]
  BY DEF Move, RedisOK, Transfer, Leave
<1>3. due' \in [Messages -> SUBSET STAGES]
  BY DEF Move, RedisOK, Transfer, Leave
<1>4. index' \in [Messages -> SUBSET Attempts]
  BY DEF Move, RedisOK
<1> QED
  BY <1>1, <1>2, <1>3, <1>4 DEF RedisOK

\* The stage after ns, and after relayNode on the PUSH pipeline, is in the table
\* and gives a status a hash may hold.
LEMMA NextStageOK ==
  ASSUME NEW from, from = "ns" \/ (from = "relayNode" /\ Pattern = "PUSH")
  PROVE  nextStage(from) \in STAGES /\ entryStatus[nextStage(from)] \in Statuses
  BY PatternAssumption DEF nextStage, PIPELINES, STAGES, entryStatus, Statuses

LEMMA AdvanceOK ==
  ASSUME RedisOK, NEW m \in Messages, NEW from, NEW ref \in Attempts \cup {0},
         from = "ns" \/ (from = "relayNode" /\ Pattern = "PUSH"),
         advance(m, from, ref), UNCHANGED <<slots, worklist>>
  PROVE  RedisOK'
  BY NextStageOK, MoveOK DEF advance, Queues

-----------------------------------------------------------------------------
(* Every action preserves the types *)

\* Steps that touch neither Redis nor the outside world leave their types alone.
LEMMA QuietRedis == RedisOK /\ UNCHANGED redis => RedisOK'
  BY DEF RedisOK, redis

LEMMA QuietWorld == WorldOK /\ UNCHANGED world => WorldOK'
  BY DEF WorldOK, world

LEMMA QuietMemory == MemoryOK /\ UNCHANGED <<inFlight, todo>> => MemoryOK'
  BY DEF MemoryOK

\* enqueueDeviceMessage writes a well-formed hash.
LEMMA EnqueueOK == ASSUME TypeInv, NEW m \in Messages, Enqueue(m) PROVE TypeInv'
<1>1. [NoHash EXCEPT !.exists = TRUE, !.whole = TRUE] \in Hash
  BY DEF NoHash, Hash, Statuses
<1>2. RedisOK'
  BY <1>1 DEF TypeInv, RedisOK, Enqueue, Queues
<1>3. MemoryOK' /\ FlowsOK'
  BY DEF TypeInv, MemoryOK, FlowsOK, FlowOK, Enqueue, memory
<1>4. WorldOK'
  BY DEF TypeInv, WorldOK, Enqueue
<1> QED
  BY <1>2, <1>3, <1>4 DEF TypeInv

\* The round trips of the sweep move the pass, take ids out of the slot set and hold a
\* set of ids between them; nothing else.
LEMMA SweepOK ==
  ASSUME RedisOK, MemoryOK, NEW p \in Passes, Sweep(p)
  PROVE  /\ flow[p].pc \in {"sweep", "exists", "removeRoom", "removeFull"}
         /\ \E step \in {"exists", "removeRoom", "removeFull", "pick", "idle"} : Goto(p, step)
         /\ UNCHANGED <<hash, queue, due, index, worklist, inFlight, world>>
         /\ slots' \subseteq slots
         /\ todo' \in [Rows \cup Passes -> SUBSET Messages]
         /\ \A f \in (Rows \cup Passes) \ {p} : todo'[f] = todo[f]
<1>1. CASE SweepMembers(p)
  BY <1>1 DEF SweepMembers, RedisOK, MemoryOK, redis
<1>2. CASE SweepExists(p)
  <2> DEFINE dead == {m \in todo[p] : ~hash[m].exists}
  <2>1. dead \in SUBSET Messages /\ todo' = [todo EXCEPT ![p] = dead]
    BY <1>2 DEF SweepExists, MemoryOK
  <2>2. \E step \in {"removeRoom", "removeFull", "pick", "idle"} : Goto(p, step)
    BY <1>2 DEF SweepExists
  <2> HIDE DEF dead
  <2> QED
    BY <1>2, <2>1, <2>2 DEF SweepExists, MemoryOK, redis
<1>3. CASE SweepRemove(p)
  BY <1>3 DEF SweepRemove, RedisOK, MemoryOK
<1> QED
  BY <1>1, <1>2, <1>3 DEF Sweep

\* What the steps of a pass up to the pick have in common.
LEMMA AdmissionSteps ==
  ASSUME RedisOK, MemoryOK, NEW p \in Passes,
         StartPass(p) \/ Admit(p) \/ Sweep(p) \/ PickNothing(p)
  PROVE  /\ flow[p].pc \in Unattached
         /\ \E step \in Unattached \cap Steps : Goto(p, step) /\ step \notin RowSteps
         /\ UNCHANGED <<hash, queue, due, index, inFlight, world>>
         /\ slots' \subseteq slots
         /\ \A f \in (Rows \cup Passes) \ {p} : todo'[f] = todo[f]
<1>1. {"idle", "admit", "sweep", "exists", "removeRoom", "removeFull", "pick"}
         \subseteq (Unattached \cap Steps) \ RowSteps
  BY DEF Unattached, Steps, PassSteps, RowSteps
<1>2. CASE Sweep(p)
  BY <1>1, <1>2, SweepOK
<1>3. CASE StartPass(p) \/ Admit(p) \/ PickNothing(p)
  <2>1. \E step \in {"admit", "sweep", "pick", "idle"} : Goto(p, step)
    BY <1>3 DEF StartPass, Admit, PickNothing
  <2>2. flow[p].pc \in {"idle", "admit", "pick"}
    BY <1>3 DEF StartPass, Admit, PickNothing
  <2>3. UNCHANGED <<hash, queue, due, index, slots, inFlight, todo, world>>
    BY <1>3 DEF StartPass, Admit, PickNothing, redis
  <2> QED
    BY <1>1, <2>1, <2>2, <2>3
<1> QED
  BY <1>2, <1>3

\* The steps of a distribute pass up to the pick.
LEMMA AdmissionOK ==
  ASSUME TypeInv, NEW p \in Passes,
         StartPass(p) \/ Admit(p) \/ Sweep(p) \/ PickNothing(p)
  PROVE  TypeInv'
<1> USE DEF TypeInv
<1>1. PICK step \in Unattached \cap Steps : Goto(p, step)
  BY AdmissionSteps
<1>2. FlowsOK'
  BY <1>1, GotoOK DEF Flows, Unattached
<1>3. RedisOK'
  <2>1. UNCHANGED <<hash, queue, due, index>> /\ slots' \subseteq slots
    BY AdmissionSteps
  <2>2. worklist' \in BOOLEAN
    BY SweepOK DEF RedisOK, StartPass, Admit, PickNothing, redis
  <2> QED
    BY <2>1, <2>2 DEF RedisOK
<1>4. MemoryOK'
  <2>1. CASE Sweep(p)
    BY <2>1, SweepOK DEF MemoryOK
  <2>2. CASE StartPass(p) \/ Admit(p) \/ PickNothing(p)
    BY <2>2 DEF MemoryOK, StartPass, Admit, PickNothing
  <2> QED
    BY <2>1, <2>2
<1>5. WorldOK'
  BY AdmissionSteps, QuietWorld
<1> QED
  BY <1>2, <1>3, <1>4, <1>5

\* fetch-next-message-in-queue.lua and what the pass does with its answer.
LEMMA PickOK == ASSUME TypeInv, NEW p \in Passes, NEW m \in Messages, Pick(p, m) PROVE TypeInv'
<1> USE DEF TypeInv
<1>1. hash' \in [Messages -> Hash] /\ slots' \in SUBSET Messages
  BY PickedOK DEF Pick, RedisOK
<1>2. queue' \in [Messages -> SUBSET Queues] /\ due' \in [Messages -> SUBSET STAGES]
  BY DEF Pick, RedisOK, Transfer, Leave, Queues, STAGES
<1>3. RedisOK'
  BY <1>1, <1>2 DEF Pick, RedisOK
<1>4. MemoryOK' /\ WorldOK'
  BY DEF Pick, MemoryOK, WorldOK, world
<1>5. p \in Flows
  BY DEF Flows
<1>6. CASE hash[m].whole
  <2>1. PICK step \in {"emitSent", "calling"} :
            flow' = [flow EXCEPT ![p] = [Idle EXCEPT !.pc = step, !.msg = m]]
    BY <1>6 DEF Pick
  <2>2. FlowOK([Idle EXCEPT !.pc = step, !.msg = m])
    BY IdleOK DEF FlowOK, FlowRecord, Idle, Steps, PassSteps, Unattached
  <2> QED
    BY <2>1, <2>2, <1>3, <1>4, <1>5, FlowsStep
<1>7. CASE ~hash[m].whole
  <2>1. Goto(p, "idle")
    BY <1>7 DEF Pick
  <2> QED
    BY <2>1, <1>3, <1>4, <1>5, GotoOK DEF Unattached, Steps
<1> QED
  BY <1>6, <1>7

\* The steps of a pass that holds a send.
LEMMA EmitSentOK == ASSUME TypeInv, NEW p \in Passes, EmitSent(p) PROVE TypeInv'
<1> USE DEF TypeInv
<1>1. p \in Flows /\ flow[p].msg \in Messages
  BY DEF Flows, FlowsOK, FlowOK, EmitSent, Unattached
<1>2. FlowsOK'
  BY <1>1, GotoOK DEF EmitSent, Steps, PassSteps
<1>3. RedisOK'
  BY QuietRedis DEF EmitSent
<1>4. MemoryOK' /\ WorldOK'
  BY DEF EmitSent, MemoryOK, WorldOK, Events
<1> QED
  BY <1>2, <1>3, <1>4

LEMMA VendorAcceptsOK == ASSUME TypeInv, NEW p \in Passes, VendorAccepts(p) PROVE TypeInv'
<1> USE DEF TypeInv
<1>1. p \in Flows /\ flow[p].msg \in Messages /\ FlowOK(flow[p])
  BY DEF Flows, FlowsOK, FlowOK, VendorAccepts, Unattached
<1>2. sent[flow[p].msg] + 1 \in Attempts
  BY <1>1, ConstantsAssumption DEF VendorAccepts, WorldOK, Attempts
<1>3. FlowOK([flow[p] EXCEPT !.pc = "accepted", !.ref = sent[flow[p].msg] + 1])
  BY <1>1, <1>2 DEF FlowOK, FlowRecord, Steps, PassSteps
<1>4. flow' = [flow EXCEPT ![p] = [flow[p] EXCEPT !.pc = "accepted", !.ref = sent[flow[p].msg] + 1]]
  BY <1>1 DEF VendorAccepts, FlowsOK
<1>5. FlowsOK'
  BY <1>1, <1>3, <1>4, FlowsStep
<1>6. RedisOK' /\ MemoryOK'
  BY QuietRedis, QuietMemory DEF VendorAccepts
<1>7. WorldOK'
  BY <1>1, ConstantsAssumption DEF VendorAccepts, WorldOK
<1> QED
  BY <1>5, <1>6, <1>7

LEMMA SendOkOK == ASSUME TypeInv, NEW p \in Passes, SendOk(p) PROVE TypeInv'
<1> USE DEF TypeInv
<1>1. p \in Flows /\ flow[p].msg \in Messages /\ flow[p].ref \in Attempts \cup {0}
  BY DEF Flows, FlowsOK, FlowOK, FlowRecord, SendOk, Unattached
<1>2. RedisOK'
  BY <1>1, AdvanceOK DEF SendOk
<1>3. FlowsOK' /\ MemoryOK'
  BY <1>1, FinishOK DEF SendOk, MemoryOK
<1>4. WorldOK'
  BY QuietWorld DEF SendOk
<1> QED
  BY <1>2, <1>3, <1>4

LEMMA SendFailedOK == ASSUME TypeInv, NEW p \in Passes, SendFailed(p) PROVE TypeInv'
<1> USE DEF TypeInv
<1>1. p \in Flows /\ flow[p].msg \in Messages
  BY DEF Flows, FlowsOK, FlowOK, SendFailed, Unattached
<1>2. PICK skip \in BOOLEAN :
         flow' = [flow EXCEPT ![p] = [Idle EXCEPT !.pc = "failRead", !.msg = flow[p].msg,
                                                  !.from = "ns", !.skipRetry = skip]]
  BY DEF SendFailed
<1>3. FlowOK([Idle EXCEPT !.pc = "failRead", !.msg = flow[p].msg,
                          !.from = "ns", !.skipRetry = skip])
  BY <1>1, IdleOK DEF FlowOK, FlowRecord, Idle, Steps, RetrySteps, Queues, STAGES
<1>4. FlowsOK'
  BY <1>1, <1>2, <1>3, FlowsStep
<1>5. RedisOK' /\ MemoryOK' /\ WorldOK'
  BY QuietRedis, QuietMemory, QuietWorld DEF SendFailed
<1> QED
  BY <1>4, <1>5

\* retryOrFail's read and decision.
LEMMA FailReadOK == ASSUME TypeInv, NEW f \in Flows, FailRead(f) PROVE TypeInv'
<1> USE DEF TypeInv
<1>1. flow[f].msg \in Messages
  BY DEF FlowsOK, FlowOK, FailRead, Unattached
<1>2. RedisOK' /\ WorldOK' /\ todo' = todo
  BY QuietRedis, QuietWorld DEF FailRead
<1>3. CASE \E outcome \in {"orphaned", "threw"} : Finish(f, outcome)
  BY <1>1, <1>2, <1>3, FinishOK DEF MemoryOK
<1>4. CASE \E step \in {"notify", "purge"} :
             /\ flow' = [flow EXCEPT ![f] = [Capture(f, step) EXCEPT !.event = "DELIVERY_FAILED"]]
             /\ UNCHANGED inFlight
  <2>1. PICK step \in {"notify", "purge"} :
          flow' = [flow EXCEPT ![f] = [Capture(f, step) EXCEPT !.event = "DELIVERY_FAILED"]]
    BY <1>4
  <2>2. FlowOK([Capture(f, step) EXCEPT !.event = "DELIVERY_FAILED"])
    BY <1>1, CaptureOK DEF FlowOK, FlowRecord, TerminalStatuses, Steps
  <2> QED
    BY <1>2, <1>4, <2>1, <2>2, FlowsStep DEF MemoryOK
<1>5. CASE flow' = [flow EXCEPT ![f] = Capture(f, "zscore")] /\ UNCHANGED inFlight
  <2>1. FlowOK(Capture(f, "zscore"))
    BY <1>1, CaptureOK DEF FlowOK, Steps, RetrySteps
  <2> QED
    BY <1>2, <1>5, <2>1, FlowsStep DEF MemoryOK
<1> QED
  BY <1>3, <1>4, <1>5 DEF FailRead, FinalStep

LEMMA NotifyOK == ASSUME TypeInv, NEW f \in Flows, Notify(f) PROVE TypeInv'
<1> USE DEF TypeInv
<1>1. flow[f].msg \in Messages /\ flow[f].event \in TerminalStatuses
  BY DEF FlowsOK, FlowOK, Notify, Unattached
<1>2. FlowsOK'
  BY <1>1, GotoOK DEF Notify, Steps
<1>3. RedisOK' /\ MemoryOK'
  BY QuietRedis, QuietMemory DEF Notify
<1>4. WorldOK'
  BY <1>1 DEF Notify, WorldOK, Events
<1> QED
  BY <1>2, <1>3, <1>4

LEMMA PurgeOK == ASSUME TypeInv, NEW f \in Flows, Purge(f) PROVE TypeInv'
<1> USE DEF TypeInv
<1>1. flow[f].msg \in Messages
  BY DEF FlowsOK, FlowOK, Purge, Unattached
<1>2. NoHash \in Hash
  BY DEF NoHash, Hash, Statuses
<1>3. RedisOK'
  BY <1>2 DEF Purge, RedisOK, Unindex, Release
<1>4. FlowsOK' /\ MemoryOK'
  BY <1>1, FinishOK DEF Purge, MemoryOK
<1>5. WorldOK'
  BY QuietWorld DEF Purge
<1> QED
  BY <1>3, <1>4, <1>5

\* The three round trips of enterRetry.
LEMMA ZscoreOK == ASSUME TypeInv, NEW f \in Flows, Zscore(f) PROVE TypeInv'
<1> USE DEF TypeInv
<1>1. flow[f].msg \in Messages
  BY DEF FlowsOK, FlowOK, Zscore, Unattached
<1>2. RedisOK' /\ WorldOK' /\ todo' = todo
  BY QuietRedis, QuietWorld DEF Zscore
<1>3. CASE Goto(f, "hmget") /\ UNCHANGED inFlight
  BY <1>1, <1>2, <1>3, GotoOK DEF MemoryOK, Steps, RetrySteps
<1>4. CASE Finish(f, "orphaned")
  BY <1>1, <1>2, <1>4, FinishOK DEF MemoryOK
<1> QED
  BY <1>3, <1>4 DEF Zscore

LEMMA HmgetOK == ASSUME TypeInv, NEW f \in Flows, Hmget(f) PROVE TypeInv'
<1> USE DEF TypeInv
<1> DEFINE h == hash[flow[f].msg]
<1> DEFINE g == [flow[f] EXCEPT !.pc = "retryExec", !.ref = h.ref, !.slot = h.slot]
<1>1. flow[f].msg \in Messages /\ FlowOK(flow[f])
  BY DEF FlowsOK, FlowOK, Hmget, Unattached
<1>2. h \in Hash
  BY <1>1 DEF RedisOK
<1>3. FlowOK(g)
  BY <1>1, <1>2 DEF FlowOK, FlowRecord, Hash, Steps, RetrySteps
<1>4. flow' = [flow EXCEPT ![f] = g]
  BY DEF Hmget, FlowsOK
<1>5. FlowsOK'
  BY <1>3, <1>4, FlowsStep
<1>6. RedisOK' /\ MemoryOK' /\ WorldOK'
  BY QuietRedis, QuietMemory, QuietWorld DEF Hmget
<1> QED
  BY <1>5, <1>6

LEMMA RetryExecOK == ASSUME TypeInv, NEW f \in Flows, RetryExec(f) PROVE TypeInv'
<1> USE DEF TypeInv
<1>1. flow[f].msg \in Messages /\ flow[f] \in FlowRecord
  BY DEF FlowsOK, FlowOK, RetryExec, Unattached
<1>2. hash' \in [Messages -> Hash]
  BY <1>1, RetriedOK DEF RetryExec, RedisOK
<1>3. RedisOK'
  BY <1>2 DEF RetryExec, RedisOK, Transfer, Unindex, Release, Queues, STAGES
<1>4. FlowsOK' /\ MemoryOK'
  BY <1>1, FinishOK DEF RetryExec, MemoryOK
<1>5. WorldOK'
  BY QuietWorld DEF RetryExec
<1> QED
  BY <1>3, <1>4, <1>5

\* The rows of the runner.
LEMMA StartDrainOK == ASSUME TypeInv, NEW r \in Rows, StartDrain(r) PROVE TypeInv'
<1> USE DEF TypeInv
<1>1. FlowsOK'
  BY GotoOK DEF StartDrain, Flows, Unattached, Steps, RowSteps
<1>2. MemoryOK'
  BY DEF StartDrain, MemoryOK
<1>3. RedisOK' /\ WorldOK'
  BY QuietRedis, QuietWorld DEF StartDrain
<1> QED
  BY <1>1, <1>2, <1>3

\* Whatever a row decides about a message is a good flow record.
LEMMA ActOK ==
  ASSUME RedisOK, NEW r \in Rows, NEW m \in Messages
  PROVE  FlowOK(Act(r, m))
<1>1. r \in {"ns", "relayNode", "device", "awaitingTask", "retry"} /\ r \in Queues
  BY DEF Rows, PluginStages, Queues, STAGES
<1>2. hash[m] \in Hash
  BY DEF RedisOK
<1> DEFINE held == [Idle EXCEPT !.msg = m, !.from = r, !.retryCount = hash[m].retryCount,
                                !.ref = hash[m].ref, !.slot = hash[m].slot]
<1>3. \A step \in {"failRead", "asking", "notify", "requeue"} :
         /\ [held EXCEPT !.pc = step] \in FlowRecord
         /\ [held EXCEPT !.pc = step].pc = step
         /\ [held EXCEPT !.pc = step].msg = m
  BY <1>1, <1>2, IdleOK DEF FlowOK, FlowRecord, Idle, Hash, Steps, RowSteps, RetrySteps
<1>4. \A step \in {"failRead", "asking", "requeue"} : FlowOK([held EXCEPT !.pc = step])
  BY <1>3 DEF FlowOK
<1>5. FlowOK([[held EXCEPT !.pc = "notify"] EXCEPT !.event = "DELIVERY_FAILED"])
  <2> DEFINE g == [held EXCEPT !.pc = "notify"]
             h == [g EXCEPT !.event = "DELIVERY_FAILED"]
  <2>1. g \in FlowRecord /\ g.pc = "notify" /\ g.msg = m
    BY <1>3
  <2> HIDE DEF g
  <2>2. /\ h \in FlowRecord
        /\ h.pc = "notify" /\ h.msg = m /\ h.event = "DELIVERY_FAILED"
    BY <2>1 DEF FlowRecord, TerminalStatuses
  <2> HIDE DEF h
  <2>3. FlowOK(h)
    BY <2>2 DEF FlowOK, TerminalStatuses
  <2> QED
    BY <2>3 DEF g, h
<1>6. FlowOK([Idle EXCEPT !.pc = "rescheduled", !.msg = m])
  BY IdleOK DEF FlowOK, FlowRecord, Idle, Steps, RowSteps
<1> QED
  BY <1>1, <1>4, <1>5, <1>6 DEF Act

LEMMA DrainNextOK ==
  ASSUME TypeInv, NEW r \in Rows, NEW m \in Messages, DrainNext(r, m)
  PROVE  TypeInv'
<1> USE DEF TypeInv
<1>1. PICK g \in {Idle, Act(r, m), [Idle EXCEPT !.pc = "orphaned", !.msg = m]} :
         flow' = [flow EXCEPT ![r] = g]
  BY DEF DrainNext
<1>2. FlowOK([Idle EXCEPT !.pc = "orphaned", !.msg = m])
  BY IdleOK DEF FlowOK, FlowRecord, Idle, Steps, RowSteps
<1>3. FlowsOK'
  BY <1>1, <1>2, IdleOK, ActOK, FlowsStep DEF Flows
<1>4. MemoryOK'
  BY DEF DrainNext, MemoryOK
<1>5. RedisOK' /\ WorldOK'
  BY QuietRedis, QuietWorld DEF DrainNext
<1> QED
  BY <1>3, <1>4, <1>5

LEMMA VendorAnswerOK ==
  ASSUME TypeInv, NEW r \in Rows, StillQueued(r) \/ NoLongerQueued(r) \/ PollAnswered(r)
  PROVE  TypeInv'
<1> USE DEF TypeInv
<1>1. r \in Flows /\ flow[r].msg \in Messages /\ flow[r].ref \in Attempts \cup {0}
  BY DEF Flows, FlowsOK, FlowOK, FlowRecord, StillQueued, NoLongerQueued, PollAnswered, Unattached
<1>2. RedisOK' /\ MemoryOK' /\ WorldOK'
  BY QuietRedis, QuietMemory, QuietWorld DEF StillQueued, NoLongerQueued, PollAnswered
<1>3. CASE flow' = [flow EXCEPT ![r] = [Idle EXCEPT !.pc = "rescheduled", !.msg = flow[r].msg]]
  <2>1. FlowOK([Idle EXCEPT !.pc = "rescheduled", !.msg = flow[r].msg])
    BY <1>1, IdleOK DEF FlowOK, FlowRecord, Idle, Steps, RowSteps
  <2> QED
    BY <1>1, <1>2, <1>3, <2>1, FlowsStep
<1>4. CASE Goto(r, "failRead")
  BY <1>1, <1>2, <1>4, GotoOK DEF Steps, RetrySteps
<1>5. CASE \E status \in TerminalStatuses, skip \in BOOLEAN :
             flow' = [flow EXCEPT ![r] = [Idle EXCEPT
                        !.pc = "lookup", !.msg = flow[r].msg, !.ref = flow[r].ref,
                        !.event = status, !.skipRetry = skip]]
  <2>1. PICK status \in TerminalStatuses, skip \in BOOLEAN :
             flow' = [flow EXCEPT ![r] = [Idle EXCEPT
                        !.pc = "lookup", !.msg = flow[r].msg, !.ref = flow[r].ref,
                        !.event = status, !.skipRetry = skip]]
    BY <1>5
  <2>2. FlowOK([Idle EXCEPT !.pc = "lookup", !.msg = flow[r].msg, !.ref = flow[r].ref,
                            !.event = status, !.skipRetry = skip])
    BY <1>1, IdleOK
    DEF FlowOK, FlowRecord, Idle, Steps, EventSteps, IngressEvents, TerminalStatuses
  <2> QED
    BY <1>1, <1>2, <2>1, <2>2, FlowsStep
<1> QED
  BY <1>3, <1>4, <1>5 DEF StillQueued, NoLongerQueued, PollAnswered

LEMMA RequeueOK == ASSUME TypeInv, NEW r \in Rows, Requeue(r) PROVE TypeInv'
<1> USE DEF TypeInv
<1>1. r \in Flows /\ flow[r].msg \in Messages
  BY DEF Flows, FlowsOK, FlowOK, Requeue, Unattached
<1>2. RedisOK'
  BY <1>1, MoveOK DEF Requeue, Queues, Statuses
<1>3. FlowOK([Idle EXCEPT !.pc = "listReady", !.msg = flow[r].msg])
  BY <1>1, IdleOK DEF FlowOK, FlowRecord, Idle, Steps, RowSteps
<1>4. FlowOK(Ended(r, "orphaned"))
  BY <1>1, EndedOK
<1>5. FlowsOK'
  BY <1>1, <1>3, <1>4, FlowsStep DEF Requeue
<1>6. MemoryOK' /\ WorldOK'
  BY QuietMemory, QuietWorld DEF Requeue
<1> QED
  BY <1>2, <1>5, <1>6

\* What ends a row's work on a member.
LEMMA RowEndOK ==
  ASSUME TypeInv, NEW r \in Rows, ListReady(r) \/ Scrub(r) \/ Reschedule(r)
  PROVE  TypeInv'
<1> USE DEF TypeInv
<1>1. r \in Flows /\ flow[r].msg \in Messages
  BY DEF Flows, FlowsOK, FlowOK, ListReady, Scrub, Reschedule, Unattached
<1>2. RedisOK'
  BY DEF ListReady, Scrub, Reschedule, RedisOK, Leave
<1>3. FlowsOK' /\ MemoryOK'
  BY <1>1, FinishOK DEF ListReady, Scrub, Reschedule, MemoryOK
<1>4. WorldOK'
  BY QuietWorld DEF ListReady, Scrub, Reschedule
<1> QED
  BY <1>2, <1>3, <1>4

\* processEvent.
LEMMA IngressOK ==
  ASSUME TypeInv, NEW h \in Handlers, NEW m \in Messages, NEW ref \in Attempts,
         NEW status \in IngressEvents, Ingress(h, m, ref, status)
  PROVE  TypeInv'
<1> USE DEF TypeInv
<1>1. FlowOK([Idle EXCEPT !.pc = "lookup", !.msg = m, !.ref = ref, !.event = status])
  BY IdleOK
  DEF FlowOK, FlowRecord, Idle, Steps, EventSteps, IngressEvents, TerminalStatuses, Statuses, Ingress
<1>2. FlowsOK'
  BY <1>1, FlowsStep DEF Ingress, Flows
<1>3. RedisOK' /\ MemoryOK' /\ WorldOK'
  BY QuietRedis, QuietMemory, QuietWorld DEF Ingress
<1> QED
  BY <1>2, <1>3

LEMMA LookupOK == ASSUME TypeInv, NEW f \in Flows, Lookup(f) PROVE TypeInv'
<1> USE DEF TypeInv
<1>1. flow[f].msg \in Messages /\ FlowOK(flow[f])
  BY DEF FlowsOK, FlowOK, Lookup, Unattached
<1>2. RedisOK' /\ WorldOK' /\ todo' = todo
  BY QuietRedis, QuietWorld DEF Lookup
<1>3. CASE Finish(f, "orphaned")
  BY <1>1, <1>2, <1>3, FinishOK DEF MemoryOK
<1>4. CASE ~Finish(f, "orphaned")
  <2>1. PICK step \in {"toDevice", "nackRead", "okRead"} :
           /\ Goto(f, step) /\ UNCHANGED inFlight
           /\ step = "toDevice" => flow[f].event = "SENT_TO_DEVICE"
           /\ step = "okRead" => flow[f].event = "DELIVERY_SUCCESSFUL"
    BY <1>1, <1>4 DEF Lookup, FlowOK, IngressEvents, TerminalStatuses
  <2>2. FlowOK([flow[f] EXCEPT !.pc = step])
    BY <1>1, <2>1 DEF FlowOK, FlowRecord, Steps, EventSteps, Lookup
  <2>3. FlowsOK'
    BY <1>1, <2>1, <2>2, GotoOK DEF Steps, EventSteps
  <2> QED
    BY <1>2, <2>1, <2>3 DEF MemoryOK
<1> QED
  BY <1>3, <1>4

LEMMA ToDeviceOK == ASSUME TypeInv, NEW f \in Flows, ToDevice(f) PROVE TypeInv'
<1> USE DEF TypeInv
<1>1. flow[f].msg \in Messages /\ Pattern = "PUSH"
  BY DEF FlowsOK, FlowOK, ToDevice, Unattached
<1>2. RedisOK'
  BY <1>1, AdvanceOK DEF ToDevice
<1>3. FlowsOK' /\ MemoryOK'
  BY <1>1, FinishOK DEF ToDevice, MemoryOK
<1>4. WorldOK'
  BY QuietWorld DEF ToDevice
<1> QED
  BY <1>2, <1>3, <1>4

LEMMA NackReadOK == ASSUME TypeInv, NEW f \in Flows, NackRead(f) PROVE TypeInv'
<1> USE DEF TypeInv
<1> DEFINE stage == stageForStatus(hash[flow[f].msg].status)
<1>1. flow[f].msg \in Messages /\ FlowOK(flow[f])
  BY DEF FlowsOK, FlowOK, NackRead, Unattached
<1>2. RedisOK' /\ WorldOK' /\ todo' = todo
  BY QuietRedis, QuietWorld DEF NackRead
<1>3. CASE \E outcome \in {"orphaned", "threw"} : Finish(f, outcome)
  BY <1>1, <1>2, <1>3, FinishOK DEF MemoryOK
<1>4. CASE flow' = [flow EXCEPT ![f].pc = "failRead", ![f].from = stage] /\ UNCHANGED inFlight
  <2>1. stage \in Queues \cup {"none"}
    BY DEF stageForStatus, Queues, STAGES
  <2>2. FlowOK([flow[f] EXCEPT !.pc = "failRead", !.from = stage])
    BY <1>1, <2>1 DEF FlowOK, FlowRecord, Steps, RetrySteps
  <2>3. flow' = [flow EXCEPT ![f] = [flow[f] EXCEPT !.pc = "failRead", !.from = stage]]
    BY <1>4 DEF FlowsOK
  <2> QED
    BY <1>2, <1>4, <2>2, <2>3, FlowsStep DEF MemoryOK
<1> QED
  BY <1>3, <1>4 DEF NackRead

LEMMA OkReadOK == ASSUME TypeInv, NEW f \in Flows, OkRead(f) PROVE TypeInv'
<1> USE DEF TypeInv
<1>1. flow[f].msg \in Messages /\ flow[f].event = "DELIVERY_SUCCESSFUL"
  BY DEF FlowsOK, FlowOK, OkRead, Unattached
<1>2. RedisOK' /\ WorldOK' /\ todo' = todo
  BY QuietRedis, QuietWorld DEF OkRead
<1>3. CASE \E outcome \in {"orphaned", "threw"} : Finish(f, outcome)
  BY <1>1, <1>2, <1>3, FinishOK DEF MemoryOK
<1>4. CASE flow' = [flow EXCEPT ![f] = Capture(f, "notify")] /\ UNCHANGED inFlight
  <2>1. FlowOK(Capture(f, "notify"))
    BY <1>1, CaptureOK DEF FlowOK, TerminalStatuses, Steps
  <2> QED
    BY <1>2, <1>4, <2>1, FlowsStep DEF MemoryOK
<1> QED
  BY <1>3, <1>4 DEF OkRead

\* Cancel requests.
LEMMA StartCancelOK ==
  ASSUME TypeInv, NEW c \in Cancels, NEW m \in Messages, StartCancel(c, m)
  PROVE  TypeInv'
<1> USE DEF TypeInv
<1> DEFINE h == hash[m]
<1> DEFINE g == [Idle EXCEPT !.pc = "claim", !.msg = m,
                   !.from = queueForStatus(h.status), !.ref = h.ref, !.slot = h.slot]
<1>1. h \in Hash
  BY DEF RedisOK
<1>2. queueForStatus(h.status) \in Queues
  BY DEF StartCancel, queueForStatus, stageForStatus, Queues, STAGES
<1>3. FlowOK(g)
  BY <1>1, <1>2, IdleOK DEF FlowOK, FlowRecord, Idle, Hash, Steps
<1>4. FlowsOK'
  BY <1>3, FlowsStep DEF StartCancel, Flows
<1>5. RedisOK' /\ MemoryOK' /\ WorldOK'
  BY QuietRedis, QuietMemory, QuietWorld DEF StartCancel
<1> QED
  BY <1>4, <1>5

LEMMA ClaimOK == ASSUME TypeInv, NEW c \in Cancels, Claim(c) PROVE TypeInv'
<1> USE DEF TypeInv
<1>1. c \in Flows /\ flow[c].msg \in Messages
  BY DEF Flows, FlowsOK, FlowOK, Claim, Unattached
<1>2. CASE Goto(c, "purge")
  <2>1. FlowsOK'
    BY <1>1, <1>2, GotoOK DEF Steps
  <2>2. RedisOK' /\ MemoryOK' /\ WorldOK'
    BY DEF Claim, RedisOK, MemoryOK, WorldOK, Leave
  <2> QED
    BY <2>1, <2>2
<1>3. CASE flow' = [flow EXCEPT ![c] = Idle]
  <2>1. FlowsOK'
    BY <1>1, <1>3, IdleOK, FlowsStep
  <2>2. RedisOK' /\ MemoryOK' /\ WorldOK'
    BY DEF Claim, RedisOK, MemoryOK, WorldOK, Leave
  <2> QED
    BY <2>1, <2>2
<1> QED
  BY <1>2, <1>3 DEF Claim

\* Time, the hash TTL and the process.
LEMMA TimeOK ==
  ASSUME TypeInv, NEW m \in Messages,
         GrowsOld(m) \/ Expire(m) \/ \E s \in STAGES : BecomesDue(m, s)
  PROVE  TypeInv'
<1> USE DEF TypeInv
<1>1. NoHash \in Hash
  BY DEF NoHash, Hash, Statuses
<1>2. RedisOK'
  BY <1>1 DEF GrowsOld, Expire, BecomesDue, RedisOK, redis
<1>3. FlowsOK' /\ MemoryOK'
  BY DEF GrowsOld, Expire, BecomesDue, FlowsOK, FlowOK, MemoryOK, memory
<1>4. WorldOK'
  BY ConstantsAssumption DEF GrowsOld, Expire, BecomesDue, WorldOK, world
<1> QED
  BY <1>2, <1>3, <1>4

LEMMA CrashOK == ASSUME TypeInv, Crash PROVE TypeInv'
<1> USE DEF TypeInv
<1>1. FlowsOK'
  BY IdleOK DEF Crash, FlowsOK, FlowOK
<1>2. RedisOK' /\ MemoryOK'
  BY QuietRedis DEF Crash, MemoryOK
<1>3. WorldOK'
  BY ConstantsAssumption DEF Crash, WorldOK
<1> QED
  BY <1>1, <1>2, <1>3

-----------------------------------------------------------------------------
(* Type correctness *)

LEMMA InitTypeInv == Init => TypeInv
<1> SUFFICES ASSUME Init PROVE TypeInv
  OBVIOUS
<1>1. NoHash \in Hash
  BY DEF NoHash, Hash, Statuses
<1>2. RedisOK /\ MemoryOK
  BY <1>1 DEF Init, RedisOK, MemoryOK
<1>3. WorldOK
  BY ConstantsAssumption DEF Init, WorldOK
<1>4. FlowsOK
  BY IdleOK DEF Init, FlowsOK, FlowOK
<1> QED
  BY <1>2, <1>3, <1>4 DEF TypeInv

LEMMA NextTypeInv == TypeInv /\ [Next]_vars => TypeInv'
<1> SUFFICES ASSUME TypeInv, [Next]_vars PROVE TypeInv'
  OBVIOUS
<1>1. ASSUME NEW p \in Passes, PassStep(p) PROVE TypeInv'
  BY <1>1, AdmissionOK, PickOK, EmitSentOK, VendorAcceptsOK, SendOkOK, SendFailedOK DEF PassStep
<1>2. ASSUME NEW r \in Rows, RowStep(r) PROVE TypeInv'
  BY <1>2, StartDrainOK, DrainNextOK, VendorAnswerOK, RequeueOK, RowEndOK DEF RowStep
<1>3. ASSUME NEW f \in Flows, SharedStep(f) PROVE TypeInv'
  BY <1>3, FailReadOK, NotifyOK, PurgeOK, ZscoreOK, HmgetOK, RetryExecOK DEF SharedStep
<1>4. ASSUME NEW f \in Flows, EventStep(f) PROVE TypeInv'
  BY <1>4, LookupOK, ToDeviceOK, NackReadOK, OkReadOK DEF EventStep
<1>5. ASSUME NEW c \in Cancels, Claim(c) PROVE TypeInv'
  BY <1>5, ClaimOK
<1>6. ASSUME Environment PROVE TypeInv'
  <2>1. CASE Crash
    BY <2>1, CrashOK
  <2>2. CASE \E m \in Messages : Enqueue(m) \/ \E c \in Cancels : StartCancel(c, m)
    BY <2>2, EnqueueOK, StartCancelOK
  <2>3. CASE \E m \in Messages : GrowsOld(m) \/ Expire(m) \/ \E s \in STAGES : BecomesDue(m, s)
    BY <2>3, TimeOK
  <2>4. CASE \E m \in Messages, h \in Handlers, ref \in Attempts, status \in IngressEvents :
                Ingress(h, m, ref, status)
    BY <2>4, IngressOK
  <2> QED
    BY <1>6, <2>1, <2>2, <2>3, <2>4 DEF Environment, IngressEvents
<1>7. CASE UNCHANGED vars
  BY <1>7 DEF vars, TypeInv, RedisOK, MemoryOK, WorldOK, FlowsOK, FlowOK
<1> QED
  BY <1>1, <1>2, <1>3, <1>4, <1>5, <1>6, <1>7 DEF Next, Engine

\* The type invariant of the engine holds in every state: in particular no flow
\* reaches a step without the message, event or pipeline that step needs.
THEOREM TypeCorrect == Spec => []TypeOK
<1>1. TypeInv => TypeOK
  BY DEF TypeInv, TypeOK, RedisOK, MemoryOK, WorldOK, FlowsOK
<1> QED
  BY <1>1, InitTypeInv, NextTypeInv, PTL DEF Spec

-----------------------------------------------------------------------------
(* Durable notification *)

\* No flow starts a purge in this step.
NoNewPurge ==
    \A g \in Flows :
        flow'[g].pc = "purge" => flow[g].pc = "purge" /\ flow'[g].msg = flow[g].msg

\* Told events are never withdrawn, and no hash loses its fields.
NothingLost ==
    /\ \A m \in Messages : told[m] \subseteq told'[m]
    /\ \A m \in Messages : hash[m].whole => hash'[m].whole

\* A step that starts no purge, loses nothing and leaves fates alone is harmless.
LEMMA HarmlessStep ==
  ASSUME DurableInv, NoNewPurge, NothingLost, UNCHANGED fate, FlowsOK'
  PROVE  PurgeJustified' /\ DurableNotify'
<1>1. PurgeJustified'
  <2> SUFFICES ASSUME NEW f \in Flows, flow'[f].pc = "purge"
               PROVE  \/ told'[flow'[f].msg] \cap TerminalStatuses # {}
                      \/ fate'[flow'[f].msg] \in {"cancelled", "expired"}
    BY DEF PurgeJustified
  <2>1. flow[f].pc = "purge" /\ flow'[f].msg = flow[f].msg /\ flow[f].msg \in Messages
    BY DEF NoNewPurge, DurableInv, TypeInv, FlowsOK, FlowOK, Unattached
  <2> QED
    BY <2>1 DEF DurableInv, PurgeJustified, NothingLost
<1>2. DurableNotify'
  BY DEF DurableInv, DurableNotify, NothingLost
<1> QED
  BY <1>1, <1>2

LEMMA OneFlowNoPurge ==
  ASSUME FlowsOK, NEW f \in Flows, NEW g, g.pc # "purge", flow' = [flow EXCEPT ![f] = g]
  PROVE  NoNewPurge
  BY DEF NoNewPurge, FlowsOK

LEMMA FinishNoPurge ==
  ASSUME FlowsOK, NEW f \in Flows, NEW outcome, flow[f].msg \in Messages, Finish(f, outcome)
  PROVE  NoNewPurge
<1>1. Ended(f, outcome).pc # "purge"
  BY DEF Ended, AfterMember, Idle
<1> QED
  BY <1>1, OneFlowNoPurge DEF Finish

LEMMA GotoNoPurge ==
  ASSUME FlowsOK, NEW f \in Flows, NEW step, step # "purge", Goto(f, step)
  PROVE  NoNewPurge
  BY DEF Goto, NoNewPurge, FlowsOK, FlowOK, FlowRecord

\* The scripts and enterRetry never take a hash's fields away.
LEMMA MoveLosesNothing ==
  ASSUME TypeInv, NEW m \in Messages, NEW from, NEW to \in Queues, NEW status \in Statuses,
         NEW ref \in Attempts \cup {0}, Move(m, from, to, status, ref), UNCHANGED told
  PROVE  NothingLost
<1>1. \A h \in Hash : Moved(h, status, ref).whole = h.whole
  BY DEF Moved, Hash
<1> QED
  BY <1>1 DEF Move, NothingLost, TypeInv, RedisOK

LEMMA AdvanceLosesNothing ==
  ASSUME TypeInv, NEW m \in Messages, NEW from, NEW ref \in Attempts \cup {0},
         from = "ns" \/ (from = "relayNode" /\ Pattern = "PUSH"),
         advance(m, from, ref), UNCHANGED told
  PROVE  NothingLost
  BY NextStageOK, MoveLosesNothing DEF advance, Queues

\* The steps of a pass.
LEMMA PassHarmless ==
  ASSUME TypeInv, NEW p \in Passes, PassStep(p)
  PROVE  NoNewPurge /\ NothingLost /\ UNCHANGED fate
<1> USE DEF TypeInv
<1> p \in Flows
  BY DEF Flows
<1>1. CASE StartPass(p) \/ Admit(p) \/ Sweep(p) \/ PickNothing(p)
  <2>1. PICK step \in Unattached : Goto(p, step)
    BY <1>1, AdmissionSteps
  <2>2. NoNewPurge
    BY <2>1, GotoNoPurge DEF Unattached
  <2>3. NothingLost /\ UNCHANGED fate
    BY <1>1, AdmissionSteps DEF NothingLost, world
  <2> QED
    BY <2>2, <2>3
<1>2. ASSUME NEW m \in Messages, Pick(p, m) PROVE NoNewPurge /\ NothingLost /\ UNCHANGED fate
  <2>1. \A h \in Hash : Picked(h).whole = h.whole
    BY DEF Picked, Hash
  <2>2. NothingLost /\ UNCHANGED fate
    BY <1>2, <2>1 DEF Pick, NothingLost, RedisOK, world
  <2>3. CASE hash[m].whole
    <3>1. PICK step \in {"emitSent", "calling"} :
              flow' = [flow EXCEPT ![p] = [Idle EXCEPT !.pc = step, !.msg = m]]
      BY <1>2, <2>3 DEF Pick
    <3>2. [Idle EXCEPT !.pc = step, !.msg = m].pc # "purge"
      BY DEF Idle
    <3> QED
      BY <2>2, <3>1, <3>2, OneFlowNoPurge
  <2>4. CASE ~hash[m].whole
    BY <1>2, <2>2, <2>4, GotoNoPurge DEF Pick
  <2> QED
    BY <2>3, <2>4
<1>3. CASE EmitSent(p)
  <2>1. NoNewPurge
    BY <1>3, GotoNoPurge DEF EmitSent
  <2>2. NothingLost /\ UNCHANGED fate
    BY <1>3 DEF EmitSent, NothingLost, WorldOK, redis
  <2> QED
    BY <2>1, <2>2
<1>4. CASE VendorAccepts(p)
  BY <1>4 DEF VendorAccepts, NoNewPurge, NothingLost, FlowsOK, FlowRecord, redis
<1>5. CASE SendOk(p)
  <2>1. flow[p].msg \in Messages /\ flow[p].ref \in Attempts \cup {0}
    BY <1>5 DEF FlowsOK, FlowOK, FlowRecord, SendOk, Unattached
  <2>2. NoNewPurge
    BY <1>5, <2>1, FinishNoPurge DEF SendOk
  <2>3. NothingLost /\ UNCHANGED fate
    BY <1>5, <2>1, AdvanceLosesNothing DEF SendOk, world
  <2> QED
    BY <2>2, <2>3
<1>6. CASE SendFailed(p)
  <2>1. PICK skip \in BOOLEAN :
          flow' = [flow EXCEPT ![p] = [Idle EXCEPT !.pc = "failRead", !.msg = flow[p].msg,
                                                   !.from = "ns", !.skipRetry = skip]]
    BY <1>6 DEF SendFailed
  <2>2. [Idle EXCEPT !.pc = "failRead", !.msg = flow[p].msg,
                     !.from = "ns", !.skipRetry = skip].pc # "purge"
    BY DEF Idle
  <2>3. NoNewPurge
    BY <2>1, <2>2, OneFlowNoPurge
  <2>4. NothingLost /\ UNCHANGED fate
    BY <1>6 DEF SendFailed, NothingLost, redis, world
  <2> QED
    BY <2>3, <2>4
<1> QED
  BY <1>1, <1>2, <1>3, <1>4, <1>5, <1>6 DEF PassStep

\* retryOrFail goes to the notification or to enterRetry, never straight to a purge.
LEMMA RetryHarmless ==
  ASSUME TypeInv, NEW f \in Flows, FailRead(f) \/ Zscore(f) \/ Hmget(f) \/ RetryExec(f)
  PROVE  NoNewPurge /\ NothingLost /\ UNCHANGED fate
<1> USE DEF TypeInv
<1>0. flow[f].msg \in Messages /\ flow[f] \in FlowRecord
  BY DEF FlowsOK, FlowOK, FailRead, Zscore, Hmget, RetryExec, Unattached
<1>1. CASE FailRead(f)
  <2>1. NothingLost /\ UNCHANGED fate
    BY <1>1 DEF FailRead, NothingLost, redis, world
  <2>2. CASE \E outcome \in {"orphaned", "threw"} : Finish(f, outcome)
    BY <1>0, <2>1, <2>2, FinishNoPurge
  <2>3. CASE flow' = [flow EXCEPT ![f] = [Capture(f, "notify") EXCEPT !.event = "DELIVERY_FAILED"]]
    <3>1. [Capture(f, "notify") EXCEPT !.event = "DELIVERY_FAILED"].pc # "purge"
      BY <1>0, CaptureOK DEF FlowRecord, Steps
    <3> QED
      BY <2>1, <2>3, <3>1, OneFlowNoPurge
  <2>4. CASE flow' = [flow EXCEPT ![f] = Capture(f, "zscore")]
    <3>1. Capture(f, "zscore").pc # "purge"
      BY <1>0, CaptureOK DEF Steps, RetrySteps
    <3> QED
      BY <2>1, <2>4, <3>1, OneFlowNoPurge
  <2> QED
    BY <1>1, <2>2, <2>3, <2>4 DEF FailRead, FinalStep
<1>2. CASE Zscore(f)
  <2>1. NoNewPurge
    BY <1>0, <1>2, GotoNoPurge, FinishNoPurge DEF Zscore
  <2>2. NothingLost /\ UNCHANGED fate
    BY <1>2 DEF Zscore, NothingLost, redis, world
  <2> QED
    BY <2>1, <2>2
<1>3. CASE Hmget(f)
  BY <1>3 DEF Hmget, NoNewPurge, NothingLost, FlowsOK, FlowRecord, redis, world
<1>4. CASE RetryExec(f)
  <2>1. \A h \in Hash : Retried(h, flow[f]).whole = h.whole
    BY DEF Retried, Hash
  <2>2. NothingLost /\ UNCHANGED fate
    BY <1>4, <2>1 DEF RetryExec, NothingLost, RedisOK, world
  <2>3. NoNewPurge
    BY <1>0, <1>4, FinishNoPurge DEF RetryExec
  <2> QED
    BY <2>2, <2>3
<1> QED
  BY <1>1, <1>2, <1>3, <1>4

\* The rows of the runner: the age cap goes through the notification as well.
LEMMA RowHarmless ==
  ASSUME TypeInv, NEW r \in Rows, RowStep(r)
  PROVE  NoNewPurge /\ NothingLost /\ UNCHANGED fate
<1> USE DEF TypeInv
<1> r \in Flows
  BY DEF Flows
<1>1. CASE StartDrain(r)
  <2>1. NoNewPurge
    BY <1>1, GotoNoPurge DEF StartDrain
  <2> QED
    BY <1>1, <2>1 DEF StartDrain, NothingLost, redis, world
<1>2. ASSUME NEW m \in Messages, DrainNext(r, m)
      PROVE  NoNewPurge /\ NothingLost /\ UNCHANGED fate
  <2>1. PICK g \in {Idle, Act(r, m), [Idle EXCEPT !.pc = "orphaned", !.msg = m]} :
           flow' = [flow EXCEPT ![r] = g]
    BY <1>2 DEF DrainNext
  <2>2. Idle.pc # "purge" /\ [Idle EXCEPT !.pc = "orphaned", !.msg = m].pc # "purge"
    BY DEF Idle
  <2>3. Act(r, m).pc # "purge"
    BY DEF Act, Idle, Rows, PluginStages
  <2>4. NoNewPurge
    BY <2>1, <2>2, <2>3, OneFlowNoPurge
  <2> QED
    BY <1>2, <2>4 DEF DrainNext, NothingLost, redis, world
<1>3. CASE StillQueued(r) \/ NoLongerQueued(r) \/ PollAnswered(r)
  <2>1. NothingLost /\ UNCHANGED fate
    BY <1>3 DEF StillQueued, NoLongerQueued, PollAnswered, NothingLost, redis, world
  <2>2. CASE Goto(r, "failRead")
    BY <2>1, <2>2, GotoNoPurge
  <2>3. CASE \E g \in FlowRecord : g.pc # "purge" /\ flow' = [flow EXCEPT ![r] = g]
    BY <2>1, <2>3, OneFlowNoPurge
  <2>4. flow[r].msg \in Messages /\ flow[r].ref \in Attempts \cup {0}
    BY <1>3 DEF FlowsOK, FlowOK, FlowRecord, StillQueued, NoLongerQueued, PollAnswered, Unattached
  <2> DEFINE wait == [Idle EXCEPT !.pc = "rescheduled", !.msg = flow[r].msg]
  <2> DEFINE answer(status, skip) == [Idle EXCEPT !.pc = "lookup", !.msg = flow[r].msg,
                              !.ref = flow[r].ref, !.event = status, !.skipRetry = skip]
  <2>5. wait \in FlowRecord /\ wait.pc # "purge"
    BY <2>4, IdleOK DEF FlowOK, FlowRecord, Idle, Steps, RowSteps
  <2>6. \A status \in TerminalStatuses, skip \in BOOLEAN :
            answer(status, skip) \in FlowRecord /\ answer(status, skip).pc # "purge"
    BY <2>4, IdleOK DEF FlowOK, FlowRecord, Idle, Steps, EventSteps, TerminalStatuses
  <2> QED
    BY <1>3, <2>2, <2>3, <2>5, <2>6 DEF StillQueued, NoLongerQueued, PollAnswered
<1>4. CASE Requeue(r)
  <2>1. flow[r].msg \in Messages
    BY <1>4 DEF FlowsOK, FlowOK, Requeue, Unattached
  <2>2. NothingLost /\ UNCHANGED fate
    BY <1>4, <2>1, MoveLosesNothing DEF Requeue, Queues, Statuses, world
  <2>3. /\ [Idle EXCEPT !.pc = "listReady", !.msg = flow[r].msg].pc # "purge"
        /\ Ended(r, "orphaned").pc # "purge"
    BY DEF Idle, Ended, AfterMember
  <2>4. NoNewPurge
    BY <1>4, <2>3, OneFlowNoPurge DEF Requeue
  <2> QED
    BY <2>2, <2>4
<1>5. CASE ListReady(r) \/ Scrub(r) \/ Reschedule(r)
  <2>1. flow[r].msg \in Messages
    BY <1>5 DEF FlowsOK, FlowOK, ListReady, Scrub, Reschedule, Unattached
  <2>2. NoNewPurge
    BY <1>5, <2>1, FinishNoPurge DEF ListReady, Scrub, Reschedule
  <2> QED
    BY <1>5, <2>2 DEF ListReady, Scrub, Reschedule, NothingLost, world
<1> QED
  BY <1>1, <1>2, <1>3, <1>4, <1>5 DEF RowStep

\* processEvent: an ack, too, is notified before it is purged.
LEMMA EventHarmless ==
  ASSUME TypeInv, NEW f \in Flows, EventStep(f)
  PROVE  NoNewPurge /\ NothingLost /\ UNCHANGED fate
<1> USE DEF TypeInv
<1>0. flow[f].msg \in Messages /\ FlowOK(flow[f])
  BY DEF FlowsOK, FlowOK, EventStep, Lookup, ToDevice, NackRead, OkRead, Unattached
<1>1. CASE Lookup(f)
  <2>1. NoNewPurge
    BY <1>0, <1>1, FinishNoPurge, GotoNoPurge DEF Lookup, FlowOK, IngressEvents, TerminalStatuses
  <2> QED
    BY <1>1, <2>1 DEF Lookup, NothingLost, redis, world
<1>2. CASE ToDevice(f)
  <2>1. NothingLost /\ UNCHANGED fate
    BY <1>0, <1>2, AdvanceLosesNothing DEF ToDevice, FlowOK, world
  <2>2. NoNewPurge
    BY <1>0, <1>2, FinishNoPurge DEF ToDevice
  <2> QED
    BY <2>1, <2>2
<1>3. CASE NackRead(f)
  <2>1. NothingLost /\ UNCHANGED fate
    BY <1>3 DEF NackRead, NothingLost, redis, world
  <2>2. CASE \E outcome \in {"orphaned", "threw"} : Finish(f, outcome)
    BY <1>0, <2>1, <2>2, FinishNoPurge
  <2>3. CASE flow' = [flow EXCEPT ![f].pc = "failRead",
                                  ![f].from = stageForStatus(hash[flow[f].msg].status)]
    BY <2>1, <2>3 DEF NoNewPurge, FlowsOK, FlowRecord
  <2> QED
    BY <1>3, <2>2, <2>3 DEF NackRead
<1>4. CASE OkRead(f)
  <2>1. NothingLost /\ UNCHANGED fate
    BY <1>4 DEF OkRead, NothingLost, redis, world
  <2>2. CASE \E outcome \in {"orphaned", "threw"} : Finish(f, outcome)
    BY <1>0, <2>1, <2>2, FinishNoPurge
  <2>3. CASE flow' = [flow EXCEPT ![f] = Capture(f, "notify")]
    <3>1. Capture(f, "notify").pc # "purge"
      BY <1>0, CaptureOK DEF Steps
    <3> QED
      BY <2>1, <2>3, <3>1, OneFlowNoPurge
  <2> QED
    BY <1>4, <2>2, <2>3 DEF OkRead
<1> QED
  BY <1>1, <1>2, <1>3, <1>4 DEF EventStep

\* The announcement is stored, then the purge may begin.
LEMMA NotifyDurable ==
  ASSUME DurableInv, NEW f \in Flows, Notify(f)
  PROVE  PurgeJustified' /\ DurableNotify'
<1> USE DEF DurableInv, TypeInv
<1>1. flow[f].msg \in Messages /\ flow[f].event \in TerminalStatuses
  BY DEF FlowsOK, FlowOK, Notify, Unattached
<1>2. told'[flow[f].msg] \cap TerminalStatuses # {}
  BY <1>1 DEF Notify, WorldOK
<1>3. NothingLost /\ UNCHANGED fate
  BY DEF Notify, NothingLost, WorldOK, redis
<1>4. \A g \in Flows : flow'[g].msg = flow[g].msg /\ (g # f => flow'[g].pc = flow[g].pc)
  BY DEF Notify, Goto, FlowsOK, FlowRecord
<1>5. PurgeJustified'
  <2> SUFFICES ASSUME NEW g \in Flows, flow'[g].pc = "purge"
               PROVE  \/ told'[flow'[g].msg] \cap TerminalStatuses # {}
                      \/ fate'[flow'[g].msg] \in {"cancelled", "expired"}
    BY DEF PurgeJustified
  <2>1. CASE g = f
    BY <1>2, <1>4, <2>1
  <2>2. CASE g # f
    <3>1. flow[g].msg \in Messages /\ flow[g].pc = "purge"
      BY <1>4, <2>2 DEF FlowsOK, FlowOK, Unattached
    <3> QED
      BY <1>3, <1>4, <3>1 DEF PurgeJustified, NothingLost
  <2> QED
    BY <2>1, <2>2
<1>6. DurableNotify'
  BY <1>3 DEF DurableNotify, NothingLost
<1> QED
  BY <1>5, <1>6

\* The purge itself: its hash goes, and it was justified.
LEMMA PurgeDurable ==
  ASSUME DurableInv, NEW f \in Flows, Purge(f)
  PROVE  PurgeJustified' /\ DurableNotify'
<1> USE DEF DurableInv, TypeInv
<1>1. flow[f].msg \in Messages
  BY DEF FlowsOK, FlowOK, Purge, Unattached
<1>2. NoNewPurge /\ UNCHANGED <<told, fate>>
  BY <1>1, FinishNoPurge DEF Purge, world
<1>3. PurgeJustified'
  BY <1>2 DEF PurgeJustified, NoNewPurge
<1>4. DurableNotify'
  <2> SUFFICES ASSUME NEW m \in Messages, fate[m] = "accepted", ~hash'[m].whole
               PROVE  told[m] \cap TerminalStatuses # {}
    BY <1>2 DEF DurableNotify
  <2>1. CASE m = flow[f].msg
    BY <2>1 DEF Purge, PurgeJustified
  <2>2. CASE m # flow[f].msg
    BY <2>2 DEF Purge, DurableNotify, RedisOK
  <2> QED
    BY <2>1, <2>2
<1> QED
  BY <1>3, <1>4

\* A cancel owns what it purges.
LEMMA ClaimDurable ==
  ASSUME DurableInv, NEW c \in Cancels, Claim(c)
  PROVE  PurgeJustified' /\ DurableNotify'
<1> USE DEF DurableInv, TypeInv
<1>1. c \in Flows /\ flow[c].msg \in Messages
  BY DEF Flows, FlowsOK, FlowOK, Claim, Unattached
<1>2. \A m \in Messages : fate'[m] = fate[m] \/ fate'[m] = "cancelled"
  BY DEF Claim, WorldOK
<1>3. UNCHANGED <<hash, told>>
  BY DEF Claim
<1>4. DurableNotify'
  BY <1>2, <1>3 DEF DurableNotify
<1>5. CASE Goto(c, "purge") /\ fate'[flow[c].msg] \in {"cancelled", "expired"}
  <2>1. fate'[flow[c].msg] \in {"cancelled", "expired"}
    BY <1>5
  <2>2. \A g \in Flows : flow'[g].msg = flow[g].msg /\ (g # c => flow'[g].pc = flow[g].pc)
    BY <1>5 DEF Goto, FlowsOK, FlowRecord
  <2>3. PurgeJustified'
    BY <1>2, <1>3, <2>1, <2>2 DEF PurgeJustified, FlowsOK, FlowOK, Unattached
  <2> QED
    BY <1>4, <2>3
<1>6. CASE flow' = [flow EXCEPT ![c] = Idle] /\ UNCHANGED fate
  <2>1. NoNewPurge
    BY <1>1, <1>6, OneFlowNoPurge DEF Idle
  <2>2. PurgeJustified'
    BY <1>3, <1>6, <2>1 DEF PurgeJustified, NoNewPurge
  <2> QED
    BY <1>4, <2>2
<1> QED
  BY <1>1, <1>5, <1>6 DEF Claim, WorldOK

\* The environment: accepting, expiring and crashing.
LEMMA EnvironmentDurable ==
  ASSUME DurableInv, Environment
  PROVE  PurgeJustified' /\ DurableNotify'
<1> USE DEF DurableInv, TypeInv
<1>1. ASSUME NEW m \in Messages, Enqueue(m) PROVE PurgeJustified' /\ DurableNotify'
  <2>1. UNCHANGED <<flow, told>> /\ fate[m] = "new"
    BY <1>1 DEF Enqueue, memory
  <2>2. \A o \in Messages \ {m} : fate'[o] = fate[o] /\ hash'[o] = hash[o]
    BY <1>1 DEF Enqueue, WorldOK, RedisOK
  <2>3. hash'[m].whole
    BY <1>1 DEF Enqueue, RedisOK, NoHash
  <2>4. DurableNotify'
    BY <2>1, <2>2, <2>3 DEF DurableNotify
  <2>5. PurgeJustified'
    BY <2>1, <2>2 DEF PurgeJustified, FlowsOK, FlowOK, Unattached
  <2> QED
    BY <2>4, <2>5
<1>2. ASSUME NEW m \in Messages, Expire(m) PROVE PurgeJustified' /\ DurableNotify'
  <2>1. UNCHANGED <<flow, told>>
    BY <1>2 DEF Expire, memory
  <2>2. \A o \in Messages : fate'[o] = fate[o] \/ fate'[o] = "expired"
    BY <1>2 DEF Expire, WorldOK
  <2>3. \A o \in Messages : fate'[o] = "accepted" => o # m /\ hash'[o] = hash[o]
    BY <1>2 DEF Expire, WorldOK, RedisOK
  <2>4. DurableNotify'
    BY <2>1, <2>2, <2>3 DEF DurableNotify
  <2>5. PurgeJustified'
    BY <2>1, <2>2 DEF PurgeJustified, FlowsOK, FlowOK, Unattached
  <2> QED
    BY <2>4, <2>5
<1>3. FlowsOK'
  BY NextTypeInv DEF Next
<1>4. CASE Crash
  <2>1. NoNewPurge /\ NothingLost /\ UNCHANGED fate
    BY <1>4 DEF Crash, NoNewPurge, NothingLost, Idle, redis
  <2> QED
    BY <1>3, <2>1, HarmlessStep
<1>5. CASE \E m \in Messages : GrowsOld(m) \/ \E s \in STAGES : BecomesDue(m, s)
  <2>1. NoNewPurge /\ NothingLost /\ UNCHANGED fate
    BY <1>5 DEF GrowsOld, BecomesDue, NoNewPurge, NothingLost, redis, memory, world
  <2> QED
    BY <1>3, <2>1, HarmlessStep
<1>6. ASSUME NEW m \in Messages, NEW c \in Cancels, StartCancel(c, m)
      PROVE  PurgeJustified' /\ DurableNotify'
  <2>1. NothingLost /\ UNCHANGED fate
    BY <1>6 DEF StartCancel, NothingLost, redis, world
  <2> DEFINE g == [Idle EXCEPT !.pc = "claim", !.msg = m,
                     !.from = queueForStatus(hash[m].status), !.ref = hash[m].ref,
                     !.slot = hash[m].slot]
  <2>2. g.pc # "purge" /\ flow' = [flow EXCEPT ![c] = g] /\ c \in Flows
    BY <1>6 DEF StartCancel, Idle, Flows
  <2>3. NoNewPurge
    BY <2>2, OneFlowNoPurge
  <2> QED
    BY <1>3, <2>1, <2>3, HarmlessStep
<1>7. ASSUME NEW m \in Messages, NEW h \in Handlers, NEW ref \in Attempts,
             NEW status \in IngressEvents, Ingress(h, m, ref, status)
      PROVE  PurgeJustified' /\ DurableNotify'
  <2>1. NothingLost /\ UNCHANGED fate
    BY <1>7 DEF Ingress, NothingLost, redis, world
  <2> DEFINE g == [Idle EXCEPT !.pc = "lookup", !.msg = m, !.ref = ref, !.event = status]
  <2>2. g.pc # "purge" /\ flow' = [flow EXCEPT ![h] = g] /\ h \in Flows
    BY <1>7 DEF Ingress, Idle, Flows
  <2>3. NoNewPurge
    BY <2>2, OneFlowNoPurge
  <2> QED
    BY <1>3, <2>1, <2>3, HarmlessStep
<1> QED
  BY <1>1, <1>2, <1>4, <1>5, <1>6, <1>7 DEF Environment, IngressEvents

LEMMA NextDurableInv == DurableInv /\ [Next]_vars => DurableInv'
<1> SUFFICES ASSUME DurableInv, [Next]_vars PROVE DurableInv'
  OBVIOUS
<1>1. TypeInv' /\ FlowsOK'
  BY NextTypeInv DEF DurableInv, TypeInv
<1>2. TypeInv
  BY DEF DurableInv
<1>3. ASSUME NEW p \in Passes, PassStep(p) PROVE DurableInv'
  BY <1>1, <1>2, <1>3, PassHarmless, HarmlessStep DEF DurableInv
<1>4. ASSUME NEW r \in Rows, RowStep(r) PROVE DurableInv'
  BY <1>1, <1>2, <1>4, RowHarmless, HarmlessStep DEF DurableInv
<1>5. ASSUME NEW f \in Flows, SharedStep(f) PROVE DurableInv'
  <2>1. CASE FailRead(f) \/ Zscore(f) \/ Hmget(f) \/ RetryExec(f)
    BY <1>1, <1>2, <2>1, RetryHarmless, HarmlessStep DEF DurableInv
  <2>2. CASE Notify(f)
    BY <1>1, <2>2, NotifyDurable DEF DurableInv
  <2>3. CASE Purge(f)
    BY <1>1, <2>3, PurgeDurable DEF DurableInv
  <2> QED
    BY <1>5, <2>1, <2>2, <2>3 DEF SharedStep
<1>6. ASSUME NEW f \in Flows, EventStep(f) PROVE DurableInv'
  BY <1>1, <1>2, <1>6, EventHarmless, HarmlessStep DEF DurableInv
<1>7. ASSUME NEW c \in Cancels, Claim(c) PROVE DurableInv'
  BY <1>1, <1>7, ClaimDurable DEF DurableInv
<1>8. CASE Environment
  BY <1>1, <1>8, EnvironmentDurable DEF DurableInv
<1>9. CASE UNCHANGED vars
  BY <1>1, <1>9 DEF vars, DurableInv, PurgeJustified, DurableNotify
<1> QED
  BY <1>3, <1>4, <1>5, <1>6, <1>7, <1>8, <1>9 DEF Next, Engine

\* No accepted message disappears silently, whatever the interleaving, the number
\* of crashes and the moment its TTL runs out: a terminal event was stored first.
THEOREM NotificationDurable == Spec => []DurableNotify
<1>1. Init => PurgeJustified /\ DurableNotify
  BY DEF Init, PurgeJustified, DurableNotify, Idle
<1>2. Init => DurableInv
  BY <1>1, InitTypeInv DEF DurableInv
<1>3. DurableInv => DurableNotify
  BY DEF DurableInv
<1> QED
  BY <1>2, <1>3, NextDurableInv, PTL DEF Spec
=============================================================================
