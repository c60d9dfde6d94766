----------------------------- MODULE Pull_proofs -----------------------------
(***************************************************************************)
(* What holds of a PULL plugin's messages for any number of messages,      *)
(* passes and cancels, any retry limit and cap, crashes and expiry         *)
(* included: the status names the one queue, the retry budget, the cap and *)
(* its slots, the references, and the send a deadline leaves alone.  They  *)
(* are proved together, from one inductive invariant.  The last section is *)
(* about the work list, for both patterns, while the process lives.        *)
(***************************************************************************)
EXTENDS Lifecycle_proofs, FiniteSetTheorems

-----------------------------------------------------------------------------
(* The inductive invariant *)

Purging == {"notify", "purge"}

\* The steps each kind of flow goes through on the PULL pipeline, and what its
\* record says there.
Legal(f, g) ==
    /\ g.pc \in Unattached => g.msg = NoMsg
    /\ f \in Passes => /\ g.pc \in {"idle"} \cup PassSteps \cup RetrySteps \cup Purging
                       /\ g.pc \in RetrySteps => g.from = "ns"
                       /\ g.pc = "accepted" => g.ref # 0
    /\ f = "ns" => /\ g.pc \in {"idle", "drain", "orphaned", "rescheduled"}
                               \cup RetrySteps \cup Purging
                   /\ g.pc \in RetrySteps => g.from = "ns"
    /\ f = "awaitingTask" => /\ g.pc \in {"idle", "drain", "asking", "orphaned", "rescheduled"}
                                         \cup EventSteps \cup RetrySteps \cup Purging
                             /\ g.pc \in RetrySteps => g.from = "awaitingTask"
    /\ f = "retry" => g.pc \in {"idle", "drain", "requeue", "listReady", "orphaned"}
    /\ f \in Handlers => g.pc = "idle"
    /\ f \in Cancels => /\ g.pc \in {"idle", "claim", "purge"}
                        /\ g.pc = "claim" => g.from \in {"ready", "retry"}

FlowsLegal == \A f \in Flows : Legal(f, flow[f])

\* Row r has m before it: in the rest of its snapshot or in hand.
RowHas(r, m) == flow[r].msg = m \/ m \in todo[r]

\* The retry row is still to requeue m.
RetryHolds(m) == m \in todo["retry"] \/ (flow["retry"].msg = m /\ flow["retry"].pc = "requeue")

\* An id that was not accepted yet is nowhere.
Unborn(m) ==
    fate[m] = "new" =>
        /\ ~hash[m].whole /\ queue[m] = {} /\ due[m] = {} /\ index[m] = {} /\ m \notin slots
        /\ sent[m] = 0
        /\ \A f \in Flows : flow[f].msg # m
        /\ \A r \in Rows : m \notin todo[r]

\* What the stored values of a message say of one another.
Stored(m) ==
    /\ due[m] \subseteq queue[m]
    /\ sent[m] <= MaxRetries + 1
    /\ hash[m].whole =>
          /\ hash[m].exists /\ hash[m].status # "SENT_TO_DEVICE"
          /\ \/ queue[m] = {queueForStatus(hash[m].status)}
             \/ queue[m] = {} /\ fate[m] = "cancelled" /\ hash[m].status \in {"QUEUED", "TO_RETRY"}
          /\ index[m] = {hash[m].ref} \ {0}
          /\ hash[m].ref = 0 <=> hash[m].status # "DELIVERED_TO_NS"
          /\ m \in slots => hash[m].status \in InNetwork /\ hash[m].slot
          /\ MaxInFlight > 0 /\ hash[m].status \in InNetwork => m \in slots
          /\ hash[m].retryCount <= MaxRetries
          /\ sent[m] <= hash[m].retryCount + (IF hash[m].status \in InNetwork THEN 1 ELSE 0)

\* What the rows that have m before them say of it.
Listed(m) ==
    hash[m].whole =>
        /\ RowHas("ns", m) => /\ hash[m].status # "QUEUED" /\ "retry" \notin due[m]
                              /\ ~RetryHolds(m)
        /\ RetryHolds(m) => hash[m].status = "TO_RETRY"
        /\ RowHas("awaitingTask", m) => hash[m].status = "DELIVERED_TO_NS"

\* A pass that has m is the only one, and its send is tracked.
PassHas(p, m) ==
    /\ \A q \in Passes \ {p} : flow[q].msg # m
    /\ flow[p].pc # "emitSent" => inFlight[m] = p
    /\ flow[p].pc \in {"emitSent", "calling"} => sent[m] <= MaxRetries
    /\ hash[m].whole =>
          /\ hash[m].status = "SENT_TO_NS"
          /\ flow[p].pc \in {"emitSent", "calling"} => sent[m] <= hash[m].retryCount
          /\ flow[p].pc = "emitSent" => "ns" \notin due[m] /\ ~RowHas("ns", m)

\* What a row knows of the message in its hand.
RowHolds(r, m) ==
    /\ m \notin todo[r]
    /\ hash[m].whole =>
          /\ r = "ns" => /\ flow[r].pc # "rescheduled" => \A p \in Passes : flow[p].msg # m
                         /\ flow[r].pc = "orphaned" => "ns" \notin queue[m]
          /\ r = "awaitingTask" =>
                /\ flow[r].pc # "orphaned"
                /\ flow[r].pc \in {"asking", "lookup"} => flow[r].ref = hash[m].ref
          /\ r = "retry" => (flow[r].pc = "orphaned" => queue[m] = {})

\* What enterRetry, on its three round trips, knows of the message it moves.
Retrying(f, m) ==
    hash[m].whole =>
        /\ flow[f].pc \in {"hmget", "retryExec"} => flow[f].from \in queue[m]
        /\ flow[f].pc \in {"zscore", "hmget", "retryExec"} /\ flow[f].from \in queue[m] =>
              flow[f].retryCount = hash[m].retryCount /\ hash[m].retryCount < MaxRetries
        /\ flow[f].pc = "retryExec" => flow[f].ref = hash[m].ref /\ flow[f].slot = hash[m].slot

Holds(f, m) ==
    flow[f].msg = m => /\ f \in Passes => PassHas(f, m)
                       /\ f \in Rows => RowHolds(f, m)
                       /\ Retrying(f, m)

MessageOK(m) == Unborn(m) /\ Stored(m) /\ Listed(m) /\ \A f \in Flows : Holds(f, m)

WithinCap == MaxInFlight > 0 => Cardinality(slots) <= MaxInFlight

LifeOK  == FlowsLegal /\ WithinCap /\ \A m \in Messages : MessageOK(m)

\* The members a pass sweeps were accepted once, and after its EXISTS they are
\* those whose hash is gone: no flow makes a hash whole again.
Swept ==
    \A p \in Passes : \A m \in todo[p] :
        fate[m] # "new" /\ (flow[p].pc = "exists" \/ ~hash[m].whole)

PullInv == TypeInv /\ LifeOK /\ Swept

-----------------------------------------------------------------------------
(* The table of the PULL pipeline, and the kinds of flows *)

LEMMA PullTable ==
  ASSUME Pattern = "PULL"
  PROVE  /\ Rows = {"ns", "awaitingTask", "retry"}
         /\ nextStage("ns") = "awaitingTask"
         /\ entryStatus["awaitingTask"] = "DELIVERED_TO_NS"
         /\ entryStatus.ns = "SENT_TO_NS" /\ entryStatus.retry = "TO_RETRY"
         /\ queueForStatus("QUEUED") = "ready" /\ queueForStatus("SENT_TO_NS") = "ns"
         /\ queueForStatus("DELIVERED_TO_NS") = "awaitingTask"
         /\ queueForStatus("TO_RETRY") = "retry"
         /\ stageForStatus("DELIVERED_TO_NS") = "awaitingTask"
  BY DEF Rows, PluginStages, nextStage, PIPELINES, entryStatus, queueForStatus, stageForStatus

LEMMA Kinds ==
  ASSUME Pattern = "PULL"
  PROVE  /\ Passes \subseteq Flows /\ Rows \subseteq Flows /\ Cancels \subseteq Flows
         /\ \A p \in Passes : p \notin Rows /\ p \notin Handlers /\ p \notin Cancels
         /\ \A c \in Cancels : c \notin Passes /\ c \notin Rows /\ c \notin Handlers
         /\ \A r \in Rows : r \notin Passes /\ r \notin Handlers /\ r \notin Cancels
  BY FlowsAssumption, PullTable DEF Flows

\* Changing one flow to a record legal for it keeps all flows legal.
LEMMA LegalStep ==
  ASSUME FlowsOK, FlowsLegal, NEW f \in Flows, NEW g, Legal(f, g), flow' = [flow EXCEPT ![f] = g]
  PROVE  FlowsLegal'
  BY DEF FlowsOK, FlowsLegal, Legal

\* A flow that lets go of its message goes to one of these two records.
LEMMA IdleLegal ==
  ASSUME Pattern = "PULL", NEW f \in Flows
  PROVE  Legal(f, Idle) /\ (f \in Rows => Legal(f, [Idle EXCEPT !.pc = "drain"]))
  BY Kinds, PullTable DEF Legal, Idle, Unattached, PassSteps, RetrySteps, RowSteps, EventSteps

\* A flow with a message is past the unattached steps.
LEMMA Attached ==
  ASSUME FlowsLegal, NEW f \in Flows, flow[f].msg \in Messages
  PROVE  flow[f].pc \notin Unattached
  BY ConstantsAssumption DEF FlowsLegal, Legal

\* Removing members from the slot set keeps it within the cap.
LEMMA CapKept ==
  ASSUME TypeInv, WithinCap, slots' \subseteq slots
  PROVE  WithinCap'
<1>1. IsFiniteSet(slots)
  BY ConstantsAssumption, FS_Subset DEF TypeInv, RedisOK
<1>2. slots' \in SUBSET slots /\ IsFiniteSet(slots') /\ Cardinality(slots') <= Cardinality(slots)
  BY <1>1, FS_Subset
<1>3. Cardinality(slots) \in Nat /\ Cardinality(slots') \in Nat
  BY <1>1, <1>2, FS_CardinalityType
<1> QED
  BY <1>2, <1>3, ConstantsAssumption DEF WithinCap

-----------------------------------------------------------------------------
(* Messages a step leaves alone *)

\* The stored values of o are the same, but for scores put back into the future.
Kept(o) ==
    /\ hash'[o] = hash[o] /\ queue'[o] = queue[o] /\ index'[o] = index[o]
    /\ sent'[o] = sent[o] /\ fate'[o] = fate[o]
    /\ due'[o] \subseteq due[o]
    /\ hash[o].whole \/ fate[o] = "new" => (o \in slots' <=> o \in slots)
    /\ \A r \in Rows : o \in todo'[r] => o \in todo[r]

\* Flow g is the same, or has let go of o.
KeptBy(g, o) ==
    /\ flow'[g] = flow[g] \/ flow'[g].msg # o
    /\ g \in Passes /\ flow'[g].msg = o /\ inFlight[o] = g => inFlight'[o] = g

Untouched(o) == Kept(o) /\ \A g \in Flows : KeptBy(g, o)

LEMMA StoredKept ==
  ASSUME NEW o \in Messages, Stored(o), Kept(o)
  PROVE  Stored(o)'
  BY DEF Stored, Kept

LEMMA UntouchedOK ==
  ASSUME Pattern = "PULL", NEW o \in Messages, MessageOK(o), Untouched(o)
  PROVE  MessageOK(o)'
<1> USE PullTable, Kinds DEF Untouched, MessageOK
<1>1. Unborn(o)'
  BY DEF Unborn, Kept, KeptBy
<1>2. Stored(o)'
  BY StoredKept
<1>3. Listed(o)'
  BY DEF Listed, Kept, KeptBy, RowHas, RetryHolds
<1>4. ASSUME NEW g \in Flows PROVE Holds(g, o)'
  <2>1. CASE flow'[g].msg # o
    BY <2>1 DEF Holds
  <2>2. CASE flow'[g] = flow[g] /\ flow[g].msg = o
    <3>1. g \in Passes => PassHas(g, o)'
      BY <2>2 DEF Holds, PassHas, Kept, KeptBy, RowHas
    <3>2. g \in Rows => RowHolds(g, o)'
      BY <2>2 DEF Holds, RowHolds, Kept, KeptBy
    <3>3. Retrying(g, o)'
      BY <2>2 DEF Holds, Retrying, Kept
    <3> QED
      BY <3>1, <3>2, <3>3 DEF Holds
  <2> QED
    BY <2>1, <2>2 DEF KeptBy
<1> QED
  BY <1>1, <1>2, <1>3, <1>4

\* A flow keeps m, or takes it over from where its kind finds one, and nothing
\* stored about m changes: only what this flow knows of m is to be shown.
LEMMA TakenOver ==
  ASSUME Pattern = "PULL", NEW m \in Messages, MessageOK(m), Kept(m), fate[m] # "new",
         NEW f \in Flows, \A g \in Flows \ {f} : KeptBy(g, m),
         flow'[f].msg = m,
         f \in Passes => flow[f].msg = m,
         f \in {"ns", "awaitingTask"} => RowHas(f, m),
         f = "retry" /\ flow'[f].pc = "requeue" => RetryHolds(m),
         Holds(f, m)'
  PROVE  MessageOK(m)'
<1> USE PullTable, Kinds DEF MessageOK
<1>1. Unborn(m)'
  BY DEF Unborn, Kept
<1>2. Stored(m)'
  BY StoredKept
<1>3. Listed(m)'
  BY DEF Listed, Kept, KeptBy, RowHas, RetryHolds
<1>4. ASSUME NEW g \in Flows \ {f} PROVE Holds(g, m)'
  <2>1. CASE flow'[g].msg # m
    BY <2>1 DEF Holds
  <2>2. CASE flow'[g] = flow[g] /\ flow[g].msg = m
    <3>1. g \in Passes => PassHas(g, m)'
      BY <2>2 DEF Holds, PassHas, Kept, KeptBy, RowHas
    <3>2. g \in Rows => RowHolds(g, m)'
      BY <2>2 DEF Holds, RowHolds, Kept, KeptBy
    <3>3. Retrying(g, m)'
      BY <2>2 DEF Holds, Retrying, Kept
    <3> QED
      BY <3>1, <3>2, <3>3 DEF Holds
  <2> QED
    BY <2>1, <2>2 DEF KeptBy
<1> QED
  BY <1>1, <1>2, <1>3, <1>4

\* One flow moves, and only the send it tracks may be forgotten: every other flow
\* keeps what it has.
LEMMA OneFlow ==
  ASSUME FlowsOK, MemoryOK, NEW f \in Flows, NEW g, flow' = [flow EXCEPT ![f] = g],
         Untrack(f) \/ UNCHANGED inFlight
  PROVE  /\ flow'[f] = g
         /\ \A h \in Flows \ {f}, o \in Messages : KeptBy(h, o)
         /\ \A o \in Messages : g.msg # o => KeptBy(f, o)
  BY DEF FlowsOK, MemoryOK, KeptBy, Untrack

\* The records a flow's work on its message ends in.
LEMMA EndedRecord ==
  ASSUME NEW f \in Flows, NEW outcome
  PROVE  /\ f \notin Rows \/ outcome \notin {"orphaned", "rescheduled", "threw"} =>
               \/ Ended(f, outcome) = Idle
               \/ f \in Rows /\ Ended(f, outcome) = [Idle EXCEPT !.pc = "drain"]
         /\ f \in Rows /\ outcome = "orphaned" =>
               Ended(f, outcome) = [Idle EXCEPT !.pc = "orphaned", !.msg = flow[f].msg]
         /\ f \in Rows /\ outcome \in {"rescheduled", "threw"} =>
               Ended(f, outcome) = [Idle EXCEPT !.pc = "rescheduled", !.msg = flow[f].msg]
  BY DEF Ended, AfterMember

\* A flow that is done with its message takes nothing from any message.
LEMMA LetsGo ==
  ASSUME Pattern = "PULL", TypeInv, FlowsLegal, NEW f \in Flows, NEW outcome, Finish(f, outcome),
         f \notin Rows \/ outcome \notin {"orphaned", "rescheduled", "threw"}
  PROVE  /\ FlowsLegal' /\ flow'[f].msg = NoMsg /\ \A g \in Flows \ {f} : flow'[g] = flow[g]
         /\ \A g \in Flows, o \in Messages : KeptBy(g, o)
<1>1. Ended(f, outcome).msg = NoMsg /\ Legal(f, Ended(f, outcome))
  <2>1. Idle.msg = NoMsg /\ [Idle EXCEPT !.pc = "drain"].msg = NoMsg
    BY DEF Idle
  <2> QED
    BY <2>1, EndedRecord, IdleLegal
<1>2. flow' = [flow EXCEPT ![f] = Ended(f, outcome)] /\ Untrack(f)
  BY DEF Finish
<1>3. FlowsLegal'
  BY <1>1, <1>2, LegalStep DEF TypeInv
<1>4. \A g \in Flows, o \in Messages : KeptBy(g, o)
  BY <1>1, <1>2, OneFlow, ConstantsAssumption DEF TypeInv
<1> QED
  BY <1>1, <1>2, <1>3, <1>4 DEF TypeInv, FlowsOK

\* A step that leaves every message alone, but for one flow's position.
LEMMA AllUntouched ==
  ASSUME Pattern = "PULL", PullInv, FlowsLegal', slots' \subseteq slots,
         \A o \in Messages : Untouched(o)
  PROVE  LifeOK'
<1>1. WithinCap'
  BY CapKept DEF PullInv, LifeOK
<1>2. \A o \in Messages : MessageOK(o)'
  BY UntouchedOK DEF PullInv, LifeOK
<1> QED
  BY <1>1, <1>2 DEF LifeOK

\* A step that touches one message.
LEMMA OneTouched ==
  ASSUME Pattern = "PULL", PullInv, FlowsLegal', WithinCap', NEW m \in Messages,
         \A o \in Messages \ {m} : Untouched(o), MessageOK(m)'
  PROVE  LifeOK'
<1>1. \A o \in Messages \ {m} : MessageOK(o)'
  BY UntouchedOK DEF PullInv, LifeOK
<1> QED
  BY <1>1 DEF LifeOK

\* Nothing stored changes.
LEMMA QuietKept ==
  ASSUME UNCHANGED <<hash, queue, due, index, slots, todo, sent, fate>>
  PROVE  \A o \in Messages : Kept(o)
  BY DEF Kept

\* Little is left to hold of an id whose hash is gone.
LEMMA GoneOK ==
  ASSUME Pattern = "PULL", NEW m \in Messages, MessageOK(m), ~hash'[m].whole,
         due'[m] \subseteq queue'[m], sent'[m] = sent[m], fate'[m] # "new",
         \A r \in Rows : todo'[r] \subseteq todo[r],
         \A g \in Flows : flow'[g].msg = m => /\ flow[g].msg = m
                                              /\ g \in Passes => KeptBy(g, m)
  PROVE  MessageOK(m)'
<1>1. Unborn(m)' /\ Stored(m)' /\ Listed(m)'
  BY DEF MessageOK, Unborn, Stored, Listed
<1>2. ASSUME NEW g \in Flows, flow'[g].msg = m PROVE Holds(g, m)'
  <2>1. Holds(g, m) /\ flow[g].msg = m
    BY <1>2 DEF MessageOK
  <2>2. g \in Passes => PassHas(g, m)'
    BY <1>2, <2>1, Kinds DEF Holds, PassHas, KeptBy
  <2>3. g \in Rows => RowHolds(g, m)'
    BY <2>1 DEF Holds, RowHolds
  <2> QED
    BY <2>2, <2>3 DEF Holds, Retrying
<1> QED
  BY <1>1, <1>2 DEF MessageOK, Holds

-----------------------------------------------------------------------------
(* The steps of a pass *)

LEMMA AdmissionPull ==
  ASSUME Pattern = "PULL", PullInv, NEW p \in Passes,
         StartPass(p) \/ Admit(p) \/ Sweep(p) \/ PickNothing(p)
  PROVE  LifeOK'
<1> USE DEF PullInv, LifeOK, TypeInv
<1>1. PICK step \in Unattached \cap Steps : Goto(p, step) /\ step \notin RowSteps
  BY AdmissionSteps
<1>2. p \in Flows /\ flow[p].pc \in Unattached /\ flow[p].msg = NoMsg /\ Legal(p, flow[p])
  BY Kinds, AdmissionSteps DEF FlowsLegal, Legal
<1> DEFINE g == [flow[p] EXCEPT !.pc = step]
<1>3. flow' = [flow EXCEPT ![p] = g]
  BY <1>1, <1>2 DEF Goto, FlowsOK
<1>4. g.msg = NoMsg /\ g.pc = step
  BY <1>2 DEF FlowsOK, FlowRecord
<1>5. Legal(p, g)
  BY <1>1, <1>2, <1>4, Kinds, PullTable
  DEF Legal, Unattached, PassSteps, RowSteps, RetrySteps
<1>6. FlowsLegal'
  BY <1>2, <1>3, <1>5, LegalStep
<1>7. /\ UNCHANGED <<hash, queue, due, index, inFlight, sent, fate>> /\ slots' \subseteq slots
      /\ \A r \in Rows : todo'[r] = todo[r]
  BY AdmissionSteps, Kinds DEF world
<1>8. \A o \in Messages, h \in Flows : KeptBy(h, o)
  BY <1>2, <1>3, <1>4, <1>7, OneFlow, ConstantsAssumption
<1>9. \A o \in Messages : hash[o].whole \/ fate[o] = "new" => (o \in slots' <=> o \in slots)
  <2>1. CASE SweepRemove(p)
    <3>1. flow[p].pc # "exists" /\ slots' = slots \ todo[p]
      BY <2>1 DEF SweepRemove
    <3> QED
      BY <3>1 DEF Swept
  <2>2. CASE slots' = slots
    BY <2>2
  <2> QED
    BY <2>1, <2>2 DEF StartPass, Admit, Sweep, SweepMembers, SweepExists, PickNothing, redis
<1>10. \A o \in Messages : Kept(o)
  BY <1>7, <1>9 DEF Kept
<1> QED
  BY <1>6, <1>7, <1>8, <1>10, AllUntouched DEF Untouched

\* A ready message is in nobody's hand but a requeuing row's or a cancel's, and in
\* no other queue.
LEMMA ReadyAlone ==
  ASSUME Pattern = "PULL", TypeInv, FlowsLegal, NEW m \in Messages, MessageOK(m),
         hash[m].whole, "ready" \in queue[m]
  PROVE  /\ hash[m].status = "QUEUED" /\ queue[m] = {"ready"} /\ due[m] = {}
         /\ index[m] = {} /\ m \notin slots /\ hash[m].ref = 0 /\ fate[m] # "new"
         /\ sent[m] <= hash[m].retryCount /\ hash[m].retryCount <= MaxRetries
         /\ ~RowHas("ns", m) /\ ~RowHas("awaitingTask", m) /\ ~RetryHolds(m)
         /\ \A p \in Passes : flow[p].msg # m
<1> USE DEF MessageOK
<1>1. hash[m].status \in Statuses /\ due[m] \subseteq STAGES
  BY DEF TypeInv, RedisOK, Hash
<1>2. hash[m].status = "QUEUED" /\ queue[m] = {"ready"}
  BY <1>1, PullTable DEF Stored, Statuses
<1>3. due[m] = {}
  BY <1>1, <1>2 DEF Stored, STAGES
<1>4. /\ index[m] = {} /\ m \notin slots /\ hash[m].ref = 0
      /\ sent[m] <= hash[m].retryCount /\ hash[m].retryCount <= MaxRetries
  <2>1. sent[m] \in Nat /\ hash[m].retryCount \in Nat
    BY ConstantsAssumption DEF TypeInv, RedisOK, WorldOK, Hash
  <2> QED
    BY <1>2, <2>1 DEF Stored, InNetwork
<1>5. fate[m] # "new"
  BY DEF Unborn
<1>6. ~RowHas("ns", m) /\ ~RowHas("awaitingTask", m) /\ ~RetryHolds(m)
  BY <1>2 DEF Listed
<1>7. ASSUME NEW p \in Passes PROVE flow[p].msg # m
  BY <1>2, Kinds DEF Holds, PassHas
<1> QED
  BY <1>2, <1>3, <1>4, <1>5, <1>6, <1>7

\* The script's cap check makes room for the slot it takes.
LEMMA PickCap ==
  ASSUME PullInv, NEW p \in Passes, NEW m \in Messages, Pick(p, m)
  PROVE  WithinCap'
<1> USE DEF PullInv, LifeOK, TypeInv
<1>1. CASE slots' = slots
  BY <1>1, CapKept
<1>2. CASE slots' = slots \cup {m} /\ MaxInFlight > 0
  <2>1. IsFiniteSet(slots)
    BY ConstantsAssumption, FS_Subset DEF RedisOK
  <2> DEFINE taken == slots \cup {m}
  <2>2. /\ IsFiniteSet(taken)
        /\ Cardinality(taken) = IF m \in slots THEN Cardinality(slots) ELSE Cardinality(slots) + 1
    BY <2>1, FS_AddElement
  <2> HIDE DEF taken
  <2>3. Cardinality(slots) \in Nat /\ Cardinality(taken) <= Cardinality(slots) + 1
    BY <2>1, <2>2, FS_CardinalityType
  <2>4. slots' = taken
    BY <1>2 DEF taken
  <2>5. Cardinality(slots) < MaxInFlight
    BY <1>2, <2>3, ConstantsAssumption DEF Pick, CapFull
  <2> QED
    BY <2>2, <2>3, <2>4, <2>5, FS_CardinalityType, ConstantsAssumption DEF WithinCap
<1> QED
  BY <1>1, <1>2 DEF Pick

LEMMA PickPull ==
  ASSUME Pattern = "PULL", PullInv, NEW p \in Passes, NEW m \in Messages, Pick(p, m)
  PROVE  LifeOK'
<1> USE DEF PullInv, LifeOK, TypeInv
<1>1. /\ p \in Flows /\ p \notin Rows /\ flow[p].msg = NoMsg /\ Legal(p, flow[p])
      /\ m # NoMsg /\ MessageOK(m)
  BY Kinds, ConstantsAssumption DEF Pick, FlowsLegal, Legal, Unattached
<1>2. PICK g : flow' = [flow EXCEPT ![p] = g] /\ Legal(p, g) /\ g.msg \in {m, NoMsg}
                /\ (hash[m].whole => g.msg = m /\ g.pc \in {"emitSent", "calling"}
                                      /\ (g.pc = "emitSent" <=> firstAttempt(m)))
                /\ (~hash[m].whole => g.msg = NoMsg)
  <2>1. CASE hash[m].whole
    <3> DEFINE g == [Idle EXCEPT !.pc = IF firstAttempt(m) THEN "emitSent" ELSE "calling", !.msg = m]
    <3>1. g.msg = m /\ g.pc = IF firstAttempt(m) THEN "emitSent" ELSE "calling"
      BY DEF Idle
    <3>2. Legal(p, g)
      BY <1>1, <3>1, Kinds, PullTable DEF Legal, PassSteps, RetrySteps, Unattached
    <3>3. flow' = [flow EXCEPT ![p] = g]
      BY <2>1 DEF Pick
    <3> HIDE DEF g
    <3> QED
      BY <2>1, <3>1, <3>2, <3>3
  <2>2. CASE ~hash[m].whole
    <3> DEFINE g == [flow[p] EXCEPT !.pc = "idle"]
    <3>1. g.msg = NoMsg /\ g.pc = "idle"
      BY <1>1 DEF FlowsOK, FlowRecord
    <3>2. Legal(p, g)
      BY <1>1, <3>1, Kinds, PullTable DEF Legal, PassSteps, RetrySteps, Unattached
    <3>3. flow' = [flow EXCEPT ![p] = g]
      BY <1>1, <2>2 DEF Pick, Goto, FlowsOK
    <3> QED
      BY <2>2, <3>1, <3>2, <3>3
  <2> QED
    BY <2>1, <2>2
<1>3. FlowsLegal' /\ WithinCap'
  BY <1>1, <1>2, LegalStep, PickCap
<1>4. flow'[p] = g /\ \A h \in Flows \ {p} : flow'[h] = flow[h]
  BY <1>1, <1>2 DEF FlowsOK
<1>5. /\ \A o \in Messages \ {m} :
            /\ hash'[o] = hash[o] /\ queue'[o] = queue[o] /\ due'[o] = due[o]
            /\ inFlight'[o] = inFlight[o] /\ (o \in slots' <=> o \in slots)
      /\ index' = index /\ todo' = todo /\ sent' = sent /\ fate' = fate
  BY DEF Pick, Transfer, Leave, RedisOK, MemoryOK, world
<1>6. \A o \in Messages \ {m} : Untouched(o)
  BY <1>1, <1>2, <1>4, <1>5, ConstantsAssumption DEF Untouched, Kept, KeptBy
<1>7. fate[m] # "new"
  BY <1>1 DEF Pick, MessageOK, Unborn
<1>8. CASE hash[m].whole
  <2>1. hash[m].exists
    BY <1>1, <1>8 DEF MessageOK, Stored
  <2>2. /\ hash'[m] = Picked(hash[m]) /\ queue'[m] = {"ns"} /\ due'[m] = {}
        /\ slots' = IF MaxInFlight > 0 THEN slots \cup {m} ELSE slots
        /\ firstAttempt(m) \/ inFlight'[m] = p
    BY <1>1, <1>8, <2>1, ReadyAlone DEF Pick, Transfer, RedisOK, MemoryOK
  <2>3. /\ hash'[m].status = "SENT_TO_NS" /\ hash'[m].whole /\ hash'[m].exists
        /\ hash'[m].retryCount = hash[m].retryCount /\ hash'[m].ref = hash[m].ref
        /\ MaxInFlight > 0 => hash'[m].slot
    BY <1>8, <2>1, <2>2, PullTable DEF Picked, RedisOK, Hash
  <2>4. Unborn(m)'
    BY <1>5, <1>7 DEF Unborn
  <2>5. sent[m] \in Nat /\ hash[m].retryCount \in Nat
    BY ConstantsAssumption DEF RedisOK, WorldOK, Hash
  <2>6. Stored(m)'
    BY <1>1, <1>5, <1>8, <2>2, <2>3, <2>5, ReadyAlone, PullTable, ConstantsAssumption
    DEF Stored, InNetwork, Pick
  <2>7. ~RowHas("ns", m)' /\ ~RowHas("awaitingTask", m)' /\ ~RetryHolds(m)'
    BY <1>1, <1>4, <1>5, <1>8, ReadyAlone, Kinds, PullTable DEF RowHas, RetryHolds, Pick
  <2>8. Listed(m)'
    BY <2>7 DEF Listed
  <2>9. PassHas(p, m)'
    BY <1>1, <1>2, <1>4, <1>5, <1>8, <2>2, <2>3, <2>5, <2>7, ReadyAlone, ConstantsAssumption
    DEF PassHas, Pick
  <2>10. ASSUME NEW h \in Flows \ {p}, flow[h].msg = m PROVE Holds(h, m)'
    <3>1. h \notin Passes /\ h # "ns" /\ h # "awaitingTask" /\ Holds(h, m) /\ flow'[h] = flow[h]
      BY <1>1, <1>4, <1>8, <2>10, ReadyAlone DEF RowHas, Pick, MessageOK
    <3>2. flow[h].pc \notin RetrySteps
      BY <1>1, <2>10, <3>1, Kinds, PullTable
      DEF FlowsLegal, Legal, Flows, RetrySteps, Unattached
    <3>3. Retrying(h, m)'
      BY <3>1, <3>2 DEF Retrying, RetrySteps
    <3>4. h \in Rows => RowHolds(h, m)'
      BY <1>1, <1>5, <1>8, <2>10, <3>1, ReadyAlone, PullTable DEF Holds, RowHolds, Pick
    <3> QED
      BY <3>1, <3>3, <3>4 DEF Holds
  <2>11. Holds(p, m)'
    BY <1>1, <1>2, <1>4, <1>8, <2>9 DEF Holds, Retrying
  <2>12. MessageOK(m)'
    BY <1>4, <2>4, <2>6, <2>8, <2>10, <2>11 DEF MessageOK, Holds
  <2> QED
    BY <1>3, <1>6, <2>12, OneTouched
<1>9. CASE ~hash[m].whole
  <2>1. \A h \in Hash : Picked(h).whole = h.whole
    BY DEF Picked, Hash
  <2>2. ~hash'[m].whole
    BY <1>9, <2>1 DEF Pick, RedisOK
  <2>3. due'[m] \subseteq queue'[m]
    BY <1>1 DEF Pick, RedisOK, Transfer, Leave, MessageOK, Stored
  <2>4. ~hash'[m].whole /\ due'[m] \subseteq queue'[m]
    BY <2>2, <2>3
  <2>5. Unborn(m)' /\ Stored(m)' /\ Listed(m)'
    BY <1>1, <1>5, <1>7, <2>4 DEF Unborn, Stored, Listed, MessageOK
  <2>6. UNCHANGED inFlight /\ flow'[p].msg # m
    BY <1>1, <1>2, <1>4, <1>9 DEF Pick
  <2>7. ASSUME NEW h \in Flows, flow'[h].msg = m PROVE Holds(h, m)'
    <3>1. h # p /\ flow'[h] = flow[h] /\ Holds(h, m)
      BY <1>1, <1>4, <2>6, <2>7 DEF MessageOK
    <3>2. h \in Passes => PassHas(h, m)'
      BY <1>1, <1>2, <1>4, <1>5, <1>9, <2>4, <2>6, <2>7, <3>1, Kinds DEF Holds, PassHas
    <3>3. h \in Rows => RowHolds(h, m)'
      BY <1>5, <2>4, <2>7, <3>1 DEF Holds, RowHolds
    <3> QED
      BY <2>4, <3>2, <3>3 DEF Holds, Retrying
  <2>8. MessageOK(m)'
    BY <2>5, <2>7 DEF MessageOK, Holds
  <2> QED
    BY <1>3, <1>6, <2>8, OneTouched
<1> QED
  BY <1>8, <1>9

\* What a flow past the unattached steps has in hand.
LEMMA InHand ==
  ASSUME Pattern = "PULL", PullInv, NEW f \in Flows, flow[f].pc \notin Unattached
  PROVE  /\ flow[f].msg \in Messages /\ flow[f] \in FlowRecord /\ FlowOK(flow[f])
         /\ Legal(f, flow[f])
         /\ MessageOK(flow[f].msg) /\ Holds(f, flow[f].msg) /\ fate[flow[f].msg] # "new"
         /\ hash[flow[f].msg] \in Hash /\ sent[flow[f].msg] \in Nat
<1>1. flow[f].msg \in Messages /\ flow[f] \in FlowRecord /\ FlowOK(flow[f]) /\ Legal(f, flow[f])
  BY DEF PullInv, LifeOK, TypeInv, FlowsOK, FlowOK, FlowsLegal
<1>2. MessageOK(flow[f].msg) /\ Holds(f, flow[f].msg) /\ fate[flow[f].msg] # "new"
  BY <1>1 DEF PullInv, LifeOK, MessageOK, Unborn
<1>3. hash[flow[f].msg] \in Hash /\ sent[flow[f].msg] \in Nat
  BY <1>1, ConstantsAssumption DEF PullInv, TypeInv, RedisOK, WorldOK
<1> QED
  BY <1>1, <1>2, <1>3

\* A step in which flow f goes on with its message m, or takes it over, and
\* nothing stored changes.
LEMMA GoesOn ==
  ASSUME Pattern = "PULL", PullInv, NEW f \in Flows, NEW m \in Messages, NEW g,
         flow' = [flow EXCEPT ![f] = g], g.msg = m, Legal(f, g),
         slots' = slots, \A o \in Messages : Kept(o),
         \A h \in Flows \ {f}, o \in Messages : KeptBy(h, o),
         fate[m] # "new",
         f \in Passes => flow[f].msg = m,
         f \in {"ns", "awaitingTask"} => RowHas(f, m),
         f = "retry" /\ g.pc = "requeue" => RetryHolds(m),
         Holds(f, m)'
  PROVE  LifeOK'
<1> USE DEF PullInv, LifeOK, TypeInv
<1>1. flow'[f] = g
  BY DEF FlowsOK
<1>2. FlowsLegal' /\ WithinCap'
  BY LegalStep, CapKept
<1>3. \A o \in Messages \ {m} : Untouched(o)
  BY <1>1 DEF Untouched, KeptBy
<1>4. MessageOK(m)'
  BY <1>1, TakenOver
<1> QED
  BY <1>2, <1>3, <1>4, OneTouched

LEMMA EmitSentPull ==
  ASSUME Pattern = "PULL", PullInv, NEW p \in Passes, EmitSent(p),
         NEW m \in Messages, flow[p].msg = m
  PROVE  LifeOK'
<1> USE DEF PullInv, LifeOK, TypeInv
<1> DEFINE g == [flow[p] EXCEPT !.pc = "calling"]
<1>1. p \in Flows /\ p \notin Rows /\ flow[p].pc = "emitSent"
  BY Kinds DEF EmitSent
<1>2. /\ m \in Messages /\ flow[p] \in FlowRecord /\ Legal(p, flow[p]) /\ fate[m] # "new"
      /\ PassHas(p, m)
  BY <1>1, InHand DEF Unattached, Holds
<1>3. flow' = [flow EXCEPT ![p] = g]
  BY <1>1 DEF EmitSent, Goto, FlowsOK
<1>4. g.msg = m /\ g.pc = "calling" /\ flow'[p] = g
  BY <1>1, <1>2, <1>3 DEF FlowRecord, FlowsOK
<1>5. Legal(p, g)
  BY <1>1, <1>4, Kinds, PullTable DEF Legal, PassSteps, RetrySteps, Unattached
<1>6. slots' = slots /\ \A o \in Messages : Kept(o)
  BY QuietKept DEF EmitSent, redis
<1>7. inFlight'[m] = p /\ \A o \in Messages \ {m} : inFlight'[o] = inFlight[o]
  BY <1>2 DEF EmitSent, MemoryOK
<1>8. \A h \in Flows \ {p} : flow'[h] = flow[h]
  BY <1>3 DEF FlowsOK
<1>9. \A h \in Flows \ {p}, o \in Messages : KeptBy(h, o)
  BY <1>2, <1>7, <1>8 DEF KeptBy, PassHas
<1>10. Holds(p, m)'
  <2>1. UNCHANGED <<hash, due, sent>>
    BY DEF EmitSent, redis
  <2>2. PassHas(p, m)'
    BY <1>1, <1>2, <1>4, <1>7, <1>8, <2>1, Kinds DEF PassHas
  <2> QED
    BY <1>1, <1>4, <2>2 DEF Holds, Retrying
<1> HIDE DEF g
<1> QED
  BY <1>1, <1>2, <1>3, <1>4, <1>5, <1>6, <1>9, <1>10, Kinds, PullTable, GoesOn

\* One more acceptance is within the budget: the pass counted before it called.
LEMMA VendorAcceptsPull ==
  ASSUME Pattern = "PULL", PullInv, NEW p \in Passes, VendorAccepts(p),
         NEW m \in Messages, flow[p].msg = m
  PROVE  LifeOK'
<1> USE DEF PullInv, LifeOK, TypeInv
<1> DEFINE g == [flow[p] EXCEPT !.pc = "accepted", !.ref = sent[m] + 1]
<1>1. p \in Flows /\ p \notin Rows /\ flow[p].pc = "calling"
  BY Kinds DEF VendorAccepts
<1>2. /\ m \in Messages /\ flow[p] \in FlowRecord /\ Legal(p, flow[p]) /\ fate[m] # "new"
      /\ PassHas(p, m) /\ MessageOK(m) /\ sent[m] \in Nat /\ hash[m] \in Hash
  BY <1>1, InHand DEF Unattached, Holds
<1>3. flow' = [flow EXCEPT ![p] = g]
  BY <1>1 DEF VendorAccepts, FlowsOK
<1>4. g.msg = m /\ g.pc = "accepted" /\ g.ref # 0 /\ flow'[p] = g
  BY <1>1, <1>2, <1>3 DEF FlowRecord, FlowsOK
<1>5. Legal(p, g)
  BY <1>1, <1>4, Kinds, PullTable DEF Legal, PassSteps, RetrySteps, Unattached
<1>6. \A h \in Flows \ {p} : flow'[h] = flow[h]
  BY <1>3 DEF FlowsOK
<1>7. UNCHANGED <<hash, queue, due, index, slots, inFlight, todo, fate>>
  BY DEF VendorAccepts, redis
<1>8. sent'[m] = sent[m] + 1 /\ \A o \in Messages \ {m} : sent'[o] = sent[o]
  BY <1>2 DEF VendorAccepts, WorldOK
<1>9. FlowsLegal' /\ WithinCap'
  BY <1>1, <1>3, <1>5, <1>7, LegalStep DEF WithinCap
<1>10. \A o \in Messages \ {m} : Untouched(o)
  BY <1>4, <1>6, <1>7, <1>8 DEF Untouched, Kept, KeptBy
<1>11. Unborn(m)'
  BY <1>2, <1>7 DEF Unborn
<1>12. Stored(m)'
  <2>1. hash[m].retryCount \in Nat
    BY <1>2 DEF Hash
  <2>2. sent'[m] <= MaxRetries + 1
    BY <1>1, <1>2, <1>8, ConstantsAssumption DEF PassHas
  <2>3. hash[m].whole => hash[m].status \in InNetwork /\ sent'[m] <= hash[m].retryCount + 1
    BY <1>1, <1>2, <1>8, <2>1 DEF PassHas, InNetwork
  <2> QED
    BY <1>2, <1>7, <2>2, <2>3 DEF Stored, MessageOK
<1>13. Listed(m)'
  BY <1>1, <1>2, <1>6, <1>7, Kinds, PullTable DEF Listed, RowHas, RetryHolds, MessageOK
<1>14. PassHas(p, m)'
  BY <1>1, <1>2, <1>4, <1>6, <1>7, Kinds DEF PassHas
<1>15. ASSUME NEW h \in Flows \ {p}, flow'[h].msg = m PROVE Holds(h, m)'
  <2>1. h \notin Passes /\ flow'[h] = flow[h] /\ Holds(h, m)
    BY <1>2, <1>6, <1>15 DEF PassHas, MessageOK
  <2>2. \A q \in Passes : flow'[q].msg = m => flow[q].msg = m
    BY <1>4, <1>6, Kinds
  <2>3. h \in Rows => RowHolds(h, m)'
    BY <1>7, <1>15, <2>1, <2>2 DEF Holds, RowHolds
  <2> QED
    BY <1>7, <1>15, <2>1, <2>3 DEF Holds, Retrying
<1>16. Holds(p, m)'
  BY <1>1, <1>4, <1>14 DEF Holds, Retrying
<1>17. MessageOK(m)'
  BY <1>11, <1>12, <1>13, <1>15, <1>16 DEF MessageOK, Holds
<1> QED
  BY <1>2, <1>9, <1>10, <1>17, OneTouched

\* The status of a message is one of four, and each says in which queue it is.
LEMMA StatusQueue ==
  ASSUME Pattern = "PULL", TypeInv, NEW m \in Messages, MessageOK(m), hash[m].whole
  PROVE  /\ hash[m].status \in {"QUEUED", "SENT_TO_NS", "DELIVERED_TO_NS", "TO_RETRY"}
         /\ hash[m].status = "QUEUED" => queue[m] \subseteq {"ready"}
         /\ hash[m].status = "SENT_TO_NS" => queue[m] = {"ns"}
         /\ hash[m].status = "DELIVERED_TO_NS" => queue[m] = {"awaitingTask"}
         /\ hash[m].status = "TO_RETRY" => queue[m] \subseteq {"retry"}
         /\ due[m] \subseteq queue[m] /\ hash[m].exists
         /\ sent[m] \in Nat /\ hash[m].retryCount \in Nat /\ fate[m] # "new"
<1>1. hash[m] \in Hash /\ sent[m] \in Nat
  BY ConstantsAssumption DEF TypeInv, RedisOK, WorldOK
<1>2. hash[m].status \in Statuses /\ hash[m].retryCount \in Nat
  BY <1>1 DEF Hash
<1> QED
  BY <1>1, <1>2, PullTable DEF MessageOK, Unborn, Stored, Statuses

\* The send is answered: its message is still in ns, and leaves it.
LEMMA SendOkPull ==
  ASSUME Pattern = "PULL", PullInv, NEW p \in Passes, SendOk(p),
         NEW m \in Messages, flow[p].msg = m
  PROVE  LifeOK'
<1> USE DEF PullInv, LifeOK, TypeInv
<1>1. p \in Flows /\ p \notin Rows /\ flow[p].pc = "accepted"
  BY Kinds DEF SendOk
<1>2. /\ Legal(p, flow[p]) /\ fate[m] # "new" /\ PassHas(p, m) /\ MessageOK(m)
      /\ sent[m] \in Nat /\ hash[m] \in Hash /\ flow[p].ref \in Attempts
  BY <1>1, InHand DEF Unattached, Holds, Legal, FlowRecord
<1>3. /\ FlowsLegal' /\ flow'[p].msg = NoMsg /\ \A g \in Flows \ {p} : flow'[g] = flow[g]
      /\ \A g \in Flows, o \in Messages : KeptBy(g, o)
  BY <1>1, LetsGo DEF SendOk
<1>4. UNCHANGED <<slots, todo, sent, fate>>
  BY DEF SendOk, world
<1>5. WithinCap'
  BY <1>4 DEF WithinCap
<1>6. Move(m, "ns", "awaitingTask", "DELIVERED_TO_NS", flow[p].ref)
  BY PullTable DEF SendOk, advance
<1>7. \A o \in Messages \ {m} : hash'[o] = hash[o] /\ queue'[o] = queue[o]
                               /\ due'[o] = due[o] /\ index'[o] = index[o]
  BY <1>6 DEF Move, Transfer, Leave, RedisOK
<1>8. \A o \in Messages \ {m} : Untouched(o)
  BY <1>3, <1>4, <1>7 DEF Untouched, Kept
<1>9. CASE ~hash[m].whole
  <2>1. \A h \in Hash, status \in Statuses : Moved(h, status, flow[p].ref).whole = h.whole
    BY DEF Moved, Hash
  <2>2. ~hash'[m].whole
    BY <1>6, <1>9, <2>1 DEF Move, RedisOK, Statuses
  <2>3. due'[m] \subseteq queue'[m]
    BY <1>2, <1>6 DEF Move, Transfer, Leave, RedisOK, MessageOK, Stored
  <2>4. \A g \in Flows : flow'[g].msg = m => flow[g].msg = m
    BY <1>3, ConstantsAssumption
  <2>5. MessageOK(m)'
    BY <1>2, <1>3, <1>4, <2>2, <2>3, <2>4, GoneOK
  <2> QED
    BY <1>3, <1>5, <1>8, <2>5, OneTouched
<1>10. CASE hash[m].whole
  <2>1. hash[m].status = "SENT_TO_NS" /\ queue[m] = {"ns"} /\ due[m] \subseteq {"ns"} /\ hash[m].exists
    BY <1>2, <1>10, StatusQueue DEF PassHas
  <2>2. /\ hash'[m] = Moved(hash[m], "DELIVERED_TO_NS", flow[p].ref)
        /\ queue'[m] = {"awaitingTask"} /\ due'[m] = {} /\ index'[m] = index[m] \cup {flow[p].ref}
    BY <1>1, <1>2, <1>6, <2>1 DEF Move, Movable, Transfer, RedisOK, Legal
  <2>3. /\ hash'[m].whole /\ hash'[m].exists /\ hash'[m].status = "DELIVERED_TO_NS"
        /\ hash'[m].ref = flow[p].ref /\ hash'[m].ref # 0
        /\ hash'[m].retryCount = hash[m].retryCount /\ hash'[m].slot = hash[m].slot
    BY <1>1, <1>2, <1>10, <2>2 DEF Moved, Hash, Legal
  <2>4. Unborn(m)'
    BY <1>2, <1>4 DEF Unborn
  <2>5. Stored(m)'
    BY <1>2, <1>4, <1>10, <2>1, <2>2, <2>3, PullTable DEF Stored, MessageOK, InNetwork
  <2>6. ~RetryHolds(m)' /\ ~RetryHolds(m)
    BY <1>1, <1>2, <1>3, <1>4, <1>10, <2>1, Kinds, PullTable DEF RetryHolds, MessageOK, Listed
  <2>7. Listed(m)'
    BY <2>2, <2>3, <2>6 DEF Listed
  <2>8. ASSUME NEW h \in Flows, flow'[h].msg = m PROVE Holds(h, m)'
    <3>1. /\ h # p /\ flow'[h] = flow[h] /\ Holds(h, m) /\ Legal(h, flow[h])
          /\ h \notin Passes /\ flow[h].pc \notin Unattached
      BY <1>2, <1>3, <2>8, ConstantsAssumption DEF MessageOK, PassHas, FlowsLegal, Legal
    <3>2. h # "awaitingTask"
      BY <1>2, <1>10, <2>1, <2>8, <3>1 DEF MessageOK, Listed, RowHas
    <3>3. h = "ns" => flow[h].pc = "rescheduled"
      BY <1>10, <2>8, <3>1, PullTable DEF Holds, RowHolds
    <3>4. h = "retry" => flow[h].pc # "orphaned"
      BY <1>10, <2>1, <2>8, <3>1, PullTable DEF Holds, RowHolds
    <3>5. h \in Rows => RowHolds(h, m)'
      BY <1>4, <2>8, <3>1, <3>2, <3>3, <3>4, PullTable DEF Holds, RowHolds
    <3>6. flow[h].pc \notin RetrySteps
      BY <3>1, <3>2, <3>3, Kinds, PullTable DEF Flows, Legal, RetrySteps
    <3> QED
      BY <3>1, <3>5, <3>6 DEF Holds, Retrying, RetrySteps
  <2>9. MessageOK(m)'
    BY <2>4, <2>5, <2>7, <2>8 DEF MessageOK, Holds
  <2> QED
    BY <1>3, <1>5, <1>8, <2>9, OneTouched
<1> QED
  BY <1>9, <1>10

LEMMA SendFailedPull ==
  ASSUME Pattern = "PULL", PullInv, NEW p \in Passes, SendFailed(p),
         NEW m \in Messages, flow[p].msg = m
  PROVE  LifeOK'
<1> USE DEF PullInv, LifeOK, TypeInv
<1>1. p \in Flows /\ p \notin Rows /\ flow[p].pc \in {"calling", "accepted"}
  BY Kinds DEF SendFailed
<1>2. fate[m] # "new" /\ PassHas(p, m)
  BY <1>1, InHand DEF Unattached, Holds
<1>3. PICK g : flow' = [flow EXCEPT ![p] = g] /\ g.pc = "failRead" /\ g.msg = m /\ g.from = "ns"
  <2>1. PICK skip \in BOOLEAN :
          flow' = [flow EXCEPT ![p] = [Idle EXCEPT !.pc = "failRead", !.msg = flow[p].msg,
                                                   !.from = "ns", !.skipRetry = skip]]
    BY DEF SendFailed
  <2> DEFINE g == [Idle EXCEPT !.pc = "failRead", !.msg = m, !.from = "ns", !.skipRetry = skip]
  <2>2. g.pc = "failRead" /\ g.msg = m /\ g.from = "ns"
    BY DEF Idle
  <2>3. flow' = [flow EXCEPT ![p] = g]
    BY <2>1
  <2> HIDE DEF g
  <2> QED
    BY <2>2, <2>3
<1>4. Legal(p, g)
  BY <1>1, <1>3, Kinds, PullTable DEF Legal, PassSteps, RetrySteps, Unattached
<1>5. UNCHANGED <<redis, inFlight, todo, sent, fate>>
  BY DEF SendFailed, world
<1>6. slots' = slots /\ \A o \in Messages : Kept(o)
  BY <1>5, QuietKept DEF redis
<1>7. flow'[p] = g /\ \A h \in Flows \ {p}, o \in Messages : KeptBy(h, o)
  BY <1>1, <1>3, <1>5, OneFlow
<1>8. \A q \in Passes \ {p} : flow'[q] = flow[q]
  BY <1>1, <1>3, Kinds DEF FlowsOK
<1>9. PassHas(p, m)'
  BY <1>1, <1>2, <1>3, <1>5, <1>7, <1>8 DEF PassHas, redis
<1>10. Holds(p, m)'
  BY <1>1, <1>3, <1>7, <1>9 DEF Holds, Retrying
<1> QED
  BY <1>1, <1>2, <1>3, <1>4, <1>6, <1>7, <1>10, PullTable, Kinds, GoesOn

-----------------------------------------------------------------------------
(* retryOrFail and enterRetry *)

\* Flow f goes on with the message in its hand and nothing stored changes: what it
\* knew of the message it still knows.
LEMMA Onward ==
  ASSUME Pattern = "PULL", PullInv, NEW f \in Flows, NEW m \in Messages, flow[f].msg = m,
         flow[f].pc \notin Unattached \cup {"emitSent", "rescheduled"},
         NEW g, flow' = [flow EXCEPT ![f] = g], g.msg = m, Legal(f, g),
         g.pc \notin {"emitSent", "calling", "requeue"},
         UNCHANGED <<hash, queue, due, index, slots, todo, sent, fate>>,
         UNCHANGED inFlight \/ (f \notin Passes /\ Untrack(f)),
         g.pc \in {"asking", "lookup"} =>
            flow[f].pc \in {"asking", "lookup"} /\ g.ref = flow[f].ref,
         hash[m].whole /\ g.pc = "orphaned" => \/ f = "ns" /\ "ns" \notin queue[m]
                                               \/ f = "retry" /\ queue[m] = {},
         Retrying(f, m)'
  PROVE  LifeOK'
<1> USE DEF PullInv, LifeOK, TypeInv
<1>1. fate[m] # "new" /\ Holds(f, m)
  BY InHand
<1>2. slots' = slots /\ \A o \in Messages : Kept(o)
  BY QuietKept
<1>3. flow'[f] = g /\ \A h \in Flows \ {f}, o \in Messages : KeptBy(h, o)
  BY OneFlow
<1>4. \A q \in Flows \ {f} : flow'[q] = flow[q]
  BY DEF FlowsOK
<1>5. ASSUME f \in Passes PROVE PassHas(f, m)'
  BY <1>1, <1>3, <1>4, <1>5, Kinds DEF Holds, PassHas
<1>6. ASSUME f \in Rows PROVE RowHolds(f, m)'
  <2>1. \A p \in Passes : flow'[p] = flow[p]
    BY <1>4, <1>6, Kinds
  <2> QED
    BY <1>1, <1>3, <1>6, <2>1, PullTable DEF Holds, RowHolds
<1>7. Holds(f, m)'
  BY <1>5, <1>6 DEF Holds
<1> QED
  BY <1>1, <1>2, <1>3, <1>7, GoesOn DEF RowHas

\* The step of a flow that lets go and changes nothing stored.
LEMMA QuietEnd ==
  ASSUME Pattern = "PULL", PullInv, NEW f \in Flows, NEW outcome, Finish(f, outcome),
         f \notin Rows \/ outcome \notin {"orphaned", "rescheduled", "threw"},
         UNCHANGED <<hash, queue, due, index, slots, todo, sent, fate>>
  PROVE  LifeOK'
<1>1. FlowsLegal' /\ \A g \in Flows, o \in Messages : KeptBy(g, o)
  BY LetsGo DEF PullInv, LifeOK
<1>2. \A o \in Messages : Untouched(o)
  BY <1>1, QuietKept DEF Untouched
<1> QED
  BY <1>1, <1>2, AllUntouched

\* Whoever runs retryOrFail is a pass or the ns or awaitingTask row, and names the
\* stage it acts for.
LEMMA RetryingFlow ==
  ASSUME Pattern = "PULL", NEW f \in Flows, NEW g, Legal(f, g), g.pc \in RetrySteps
  PROVE  /\ f \in Passes \cup {"ns", "awaitingTask"}
         /\ f \in Passes \cup {"ns"} => g.from = "ns"
         /\ f = "awaitingTask" => g.from = "awaitingTask"
  BY PullTable DEF Legal, Flows, RetrySteps

\* A record with a later step of retryOrFail is legal where the earlier one was.
LEMMA RetryLegal ==
  ASSUME Pattern = "PULL", NEW f \in Flows, Legal(f, flow[f]), flow[f].pc \in RetrySteps,
         NEW g, g.pc \in RetrySteps \cup {"notify"}, g.from = flow[f].from
  PROVE  Legal(f, g)
  BY RetryingFlow, Kinds, PullTable
  DEF Legal, RetrySteps, Unattached, PassSteps, EventSteps, Purging

LEMMA FailReadPull ==
  ASSUME Pattern = "PULL", PullInv, NEW f \in Flows, FailRead(f),
         NEW m \in Messages, flow[f].msg = m
  PROVE  LifeOK'
<1> USE DEF PullInv, LifeOK, TypeInv
<1>1. flow[f].pc = "failRead" /\ UNCHANGED <<hash, queue, due, index, slots, todo, sent, fate>>
  BY DEF FailRead, redis, world
<1>2. /\ Legal(f, flow[f]) /\ flow[f] \in FlowRecord /\ MessageOK(m) /\ hash[m] \in Hash
      /\ f \in Passes \cup {"ns", "awaitingTask"}
  BY <1>1, InHand, RetryingFlow DEF Unattached, RetrySteps
<1>3. ASSUME NEW outcome \in {"orphaned", "threw"}, Finish(f, outcome), ~hash[m].whole
      PROVE  LifeOK'
  <2>1. CASE f \notin Rows
    BY <1>1, <1>3, <2>1, QuietEnd
  <2>2. CASE f \in Rows
    <3>1. PICK g : /\ flow' = [flow EXCEPT ![f] = g] /\ g.msg = m
                   /\ g.pc \in {"orphaned", "rescheduled"}
      <4> DEFINE g == Ended(f, outcome)
      <4>1. flow' = [flow EXCEPT ![f] = g]
        BY <1>3 DEF Finish
      <4>2. \/ g = [Idle EXCEPT !.pc = "orphaned", !.msg = m]
            \/ g = [Idle EXCEPT !.pc = "rescheduled", !.msg = m]
        BY <1>3, <2>2, EndedRecord
      <4> HIDE DEF g
      <4>3. g.msg = m /\ g.pc \in {"orphaned", "rescheduled"}
        BY <4>2 DEF Idle
      <4> QED
        BY <4>1, <4>3
    <3>2. f \notin Passes /\ Untrack(f)
      BY <1>3, <2>2, Kinds DEF Finish
    <3>3. Legal(f, g)
      BY <1>2, <2>2, <3>1, <3>2, Kinds, PullTable DEF Legal, RetrySteps, Unattached
    <3>4. Retrying(f, m)'
      BY <1>1, <1>3 DEF Retrying
    <3> QED
      BY <1>1, <1>3, <3>1, <3>2, <3>3, <3>4, Onward DEF Unattached
  <2> QED
    BY <2>1, <2>2
<1>4. ASSUME hash[m].whole, UNCHANGED inFlight,
             flow' = [flow EXCEPT ![f] = IF isFinalFailure(f)
                             THEN [Capture(f, "notify") EXCEPT !.event = "DELIVERY_FAILED"]
                             ELSE Capture(f, "zscore")]
      PROVE  LifeOK'
  <2>1. PICK g : /\ flow' = [flow EXCEPT ![f] = g] /\ g.msg = m /\ g.from = flow[f].from
                 /\ \/ g.pc = "notify"
                    \/ /\ g.pc = "zscore" /\ g.retryCount = hash[m].retryCount
                       /\ ~isFinalFailure(f)
    <3>1. CASE isFinalFailure(f)
      <4> DEFINE g == [Capture(f, "notify") EXCEPT !.event = "DELIVERY_FAILED"]
      <4>1. g.msg = m /\ g.from = flow[f].from /\ g.pc = "notify"
        BY <1>2 DEF Capture, FlowRecord
      <4>2. flow' = [flow EXCEPT ![f] = g]
        BY <1>4, <3>1
      <4> HIDE DEF g
      <4> QED
        BY <4>1, <4>2
    <3>2. CASE ~isFinalFailure(f)
      <4>1. /\ Capture(f, "zscore").msg = m /\ Capture(f, "zscore").from = flow[f].from
            /\ Capture(f, "zscore").pc = "zscore"
            /\ Capture(f, "zscore").retryCount = hash[m].retryCount
        BY <1>2 DEF Capture, FlowRecord
      <4>2. flow' = [flow EXCEPT ![f] = Capture(f, "zscore")]
        BY <1>4, <3>2
      <4> QED
        BY <3>2, <4>1, <4>2
    <3> QED
      BY <3>1, <3>2
  <2>2. Legal(f, g)
    BY <1>1, <1>2, <2>1, RetryLegal DEF RetrySteps
  <2>3. flow'[f] = g
    BY <2>1 DEF FlowsOK
  <2>4. Retrying(f, m)'
    <3>1. g.pc = "zscore" => hash[m].retryCount < MaxRetries
      BY <1>2, <1>4, <2>1, StatusQueue, ConstantsAssumption DEF isFinalFailure
    <3> QED
      BY <1>1, <2>1, <2>3, <3>1 DEF Retrying
  <2> QED
    BY <1>1, <1>4, <2>1, <2>2, <2>4, Onward DEF Unattached
<1>5. ~hash[m].exists => ~hash[m].whole
  BY <1>2 DEF MessageOK, Stored
<1> QED
  BY <1>3, <1>4, <1>5 DEF FailRead, FinalStep

LEMMA NotifyPull ==
  ASSUME Pattern = "PULL", PullInv, NEW f \in Flows, Notify(f),
         NEW m \in Messages, flow[f].msg = m
  PROVE  LifeOK'
<1> USE DEF PullInv, LifeOK, TypeInv
<1> DEFINE g == [flow[f] EXCEPT !.pc = "purge"]
<1>1. flow[f].pc = "notify" /\ flow[f] \in FlowRecord /\ Legal(f, flow[f])
  BY InHand DEF Notify, Unattached
<1>2. flow' = [flow EXCEPT ![f] = g] /\ g.msg = m /\ g.pc = "purge"
  BY <1>1 DEF Notify, Goto, FlowsOK, FlowRecord
<1>3. flow'[f] = g
  BY <1>2 DEF FlowsOK
<1>4. Legal(f, g)
  BY <1>1, <1>2, PullTable DEF Legal, Flows, RetrySteps, Unattached, Purging, PassSteps, EventSteps
<1>5. UNCHANGED <<hash, queue, due, index, slots, todo, sent, fate, inFlight>>
  BY DEF Notify, redis
<1>6. Retrying(f, m)'
  BY <1>2, <1>3 DEF Retrying
<1> HIDE DEF g
<1> QED
  BY <1>1, <1>2, <1>4, <1>5, <1>6, Onward DEF Unattached

LEMMA PurgePull ==
  ASSUME Pattern = "PULL", PullInv, NEW f \in Flows, Purge(f),
         NEW m \in Messages, flow[f].msg = m
  PROVE  LifeOK'
<1> USE DEF PullInv, LifeOK, TypeInv
<1>1. MessageOK(m) /\ fate[m] # "new"
  BY InHand DEF Purge, Unattached
<1>2. /\ FlowsLegal' /\ flow'[f].msg = NoMsg /\ \A g \in Flows \ {f} : flow'[g] = flow[g]
      /\ \A g \in Flows, o \in Messages : KeptBy(g, o)
  BY LetsGo DEF Purge
<1>3. UNCHANGED <<todo, sent, fate>> /\ slots' \subseteq slots
  BY DEF Purge, Release, world
<1>4. \A o \in Messages \ {m} :
         /\ hash'[o] = hash[o] /\ queue'[o] = queue[o] /\ due'[o] = due[o]
         /\ index'[o] = index[o] /\ (o \in slots' <=> o \in slots)
  BY DEF Purge, Unindex, Release, RedisOK
<1>5. \A o \in Messages \ {m} : Untouched(o)
  BY <1>2, <1>3, <1>4 DEF Untouched, Kept
<1>6. ~hash'[m].whole /\ due'[m] \subseteq queue'[m]
  BY DEF Purge, RedisOK, NoHash
<1>7. \A g \in Flows : flow'[g].msg = m => flow[g].msg = m
  BY <1>2, ConstantsAssumption
<1>8. MessageOK(m)'
  BY <1>1, <1>2, <1>3, <1>6, <1>7, GoneOK
<1>9. WithinCap'
  BY <1>3, CapKept
<1> QED
  BY <1>2, <1>5, <1>8, <1>9, OneTouched

LEMMA ZscorePull ==
  ASSUME Pattern = "PULL", PullInv, NEW f \in Flows, Zscore(f),
         NEW m \in Messages, flow[f].msg = m
  PROVE  LifeOK'
<1> USE DEF PullInv, LifeOK, TypeInv
<1>1. flow[f].pc = "zscore" /\ UNCHANGED <<hash, queue, due, index, slots, todo, sent, fate>>
  BY DEF Zscore, redis, world
<1>2. /\ Legal(f, flow[f]) /\ flow[f] \in FlowRecord /\ MessageOK(m) /\ Holds(f, m)
      /\ f \in Passes \cup {"ns", "awaitingTask"}
  BY <1>1, InHand, RetryingFlow DEF Unattached, RetrySteps
<1>3. CASE flow[f].from \in queue[m]
  <2> DEFINE g == [flow[f] EXCEPT !.pc = "hmget"]
  <2>1. flow' = [flow EXCEPT ![f] = g] /\ UNCHANGED inFlight
    BY <1>3 DEF Zscore, Goto, FlowsOK
  <2>2. g.msg = m /\ g.pc = "hmget" /\ g.from = flow[f].from /\ g.retryCount = flow[f].retryCount
    BY <1>2 DEF FlowRecord
  <2>3. flow'[f] = g
    BY <2>1 DEF FlowsOK
  <2> HIDE DEF g
  <2>4. Legal(f, g)
    BY <1>1, <1>2, <2>2, RetryLegal DEF RetrySteps
  <2>5. Retrying(f, m)'
    BY <1>1, <1>2, <1>3, <2>2, <2>3 DEF Holds, Retrying
  <2> QED
    BY <1>1, <2>1, <2>2, <2>4, <2>5, Onward DEF Unattached
<1>4. CASE flow[f].from \notin queue[m]
  <2>1. Finish(f, "orphaned")
    BY <1>4 DEF Zscore
  <2>2. CASE f \notin Rows
    BY <1>1, <2>1, <2>2, QuietEnd
  <2>3. CASE f \in Rows
    <3> DEFINE g == [Idle EXCEPT !.pc = "orphaned", !.msg = m]
    <3>1. g.msg = m /\ g.pc = "orphaned"
      BY DEF Idle
    <3>2. flow' = [flow EXCEPT ![f] = g] /\ f \notin Passes /\ Untrack(f)
      BY <2>1, <2>3, EndedRecord, Kinds DEF Finish
    <3>3. flow'[f] = g
      BY <3>2 DEF FlowsOK
    <3> HIDE DEF g
    <3>4. Legal(f, g)
      BY <1>2, <2>3, <3>1, <3>2, Kinds, PullTable DEF Legal, RetrySteps, Unattached
    <3>5. hash[m].whole => f = "ns" /\ "ns" \notin queue[m]
      BY <1>1, <1>2, <1>4, <2>3, <3>2, StatusQueue, RetryingFlow DEF MessageOK, Listed, RowHas, RetrySteps
    <3>7. hash[m].whole /\ g.pc = "orphaned" => \/ f = "ns" /\ "ns" \notin queue[m]
                                                \/ f = "retry" /\ queue[m] = {}
      BY <3>5
    <3>8. g.pc \notin {"emitSent", "calling", "requeue", "asking", "lookup"}
      BY <3>1
    <3>9. flow[f].pc \notin Unattached \cup {"emitSent", "rescheduled"}
      BY <1>1 DEF Unattached
    <3>6. Retrying(f, m)'
      BY <3>1, <3>3 DEF Retrying
    <3> QED
      BY <1>1, <3>1, <3>2, <3>4, <3>6, <3>7, <3>8, <3>9, Onward
  <2> QED
    BY <2>2, <2>3
<1> QED
  BY <1>3, <1>4

LEMMA HmgetPull ==
  ASSUME Pattern = "PULL", PullInv, NEW f \in Flows, Hmget(f),
         NEW m \in Messages, flow[f].msg = m
  PROVE  LifeOK'
<1> USE DEF PullInv, LifeOK, TypeInv
<1> DEFINE g == [flow[f] EXCEPT !.pc = "retryExec", !.ref = hash[m].ref, !.slot = hash[m].slot]
<1>1. /\ flow[f].pc = "hmget"
      /\ UNCHANGED <<hash, queue, due, index, slots, todo, sent, fate, inFlight>>
  BY DEF Hmget, redis, world
<1>2. Legal(f, flow[f]) /\ flow[f] \in FlowRecord /\ Holds(f, m)
  BY <1>1, InHand DEF Unattached
<1>3. flow' = [flow EXCEPT ![f] = g] /\ flow'[f] = g
  BY DEF Hmget, FlowsOK
<1>4. /\ g.msg = m /\ g.pc = "retryExec" /\ g.from = flow[f].from
      /\ g.retryCount = flow[f].retryCount /\ g.ref = hash[m].ref /\ g.slot = hash[m].slot
  BY <1>2 DEF FlowRecord
<1> HIDE DEF g
<1>5. Legal(f, g)
  BY <1>1, <1>2, <1>4, RetryLegal DEF RetrySteps
<1>6. Retrying(f, m)'
  BY <1>1, <1>2, <1>3, <1>4 DEF Holds, Retrying
<1> QED
  BY <1>1, <1>3, <1>4, <1>5, <1>6, Onward DEF Unattached

\* enterRetry's MULTI: the message is still in the stage its caller named, so its
\* attempt is counted once and its reference and its slot go with it.
LEMMA RetryExecPull ==
  ASSUME Pattern = "PULL", PullInv, NEW f \in Flows, RetryExec(f),
         NEW m \in Messages, flow[f].msg = m
  PROVE  LifeOK'
<1> USE DEF PullInv, LifeOK, TypeInv
<1>1. flow[f].pc = "retryExec"
  BY DEF RetryExec
<1>2. /\ Legal(f, flow[f]) /\ flow[f] \in FlowRecord /\ MessageOK(m) /\ Holds(f, m)
      /\ hash[m] \in Hash /\ fate[m] # "new" /\ flow[f].from \in {"ns", "awaitingTask"}
      /\ f \in Passes \cup {"ns", "awaitingTask"}
      /\ f \in Passes \cup {"ns"} => flow[f].from = "ns"
      /\ f = "awaitingTask" => flow[f].from = "awaitingTask"
  BY <1>1, InHand, RetryingFlow DEF Unattached, RetrySteps
<1>3. /\ FlowsLegal' /\ flow'[f].msg = NoMsg /\ \A g \in Flows \ {f} : flow'[g] = flow[g]
      /\ \A g \in Flows, o \in Messages : KeptBy(g, o)
  BY LetsGo DEF RetryExec
<1>4. UNCHANGED <<todo, sent, fate>> /\ slots' \subseteq slots
  BY DEF RetryExec, Release, world
<1>5. WithinCap'
  BY <1>4, CapKept
<1>6. \A o \in Messages \ {m} :
         /\ hash'[o] = hash[o] /\ queue'[o] = queue[o] /\ due'[o] = due[o]
         /\ index'[o] = index[o] /\ (o \in slots' <=> o \in slots)
  BY DEF RetryExec, Transfer, Unindex, Release, RedisOK
<1>7. \A o \in Messages \ {m} : Untouched(o)
  BY <1>3, <1>4, <1>6 DEF Untouched, Kept
<1>8. /\ hash'[m] = Retried(hash[m], flow[f])
      /\ queue'[m] = (queue[m] \ {flow[f].from}) \cup {"retry"}
      /\ due'[m] = due[m] \ {flow[f].from, "retry"}
      /\ index'[m] = index[m] \ {flow[f].ref}
      /\ slots' = IF flow[f].slot THEN slots \ {m} ELSE slots
  BY DEF RetryExec, Transfer, Unindex, Release, RedisOK
<1>9. /\ hash'[m].whole = hash[m].whole /\ hash'[m].exists /\ hash'[m].status = "TO_RETRY"
      /\ hash'[m].retryCount = flow[f].retryCount + 1 /\ hash'[m].ref = 0
  BY <1>2, <1>8, PullTable DEF Retried, Hash
<1>10. CASE ~hash[m].whole
  <2>1. due'[m] \subseteq queue'[m]
    BY <1>2, <1>8 DEF MessageOK, Stored
  <2>2. \A g \in Flows : flow'[g].msg = m => flow[g].msg = m
    BY <1>3, ConstantsAssumption
  <2>3. MessageOK(m)'
    BY <1>2, <1>3, <1>4, <1>9, <1>10, <2>1, <2>2, GoneOK
  <2> QED
    BY <1>3, <1>5, <1>7, <2>3, OneTouched
<1>11. CASE hash[m].whole
  <2>1. /\ flow[f].from \in queue[m] /\ flow[f].retryCount = hash[m].retryCount
        /\ hash[m].retryCount < MaxRetries /\ flow[f].ref = hash[m].ref
        /\ flow[f].slot = hash[m].slot
    BY <1>1, <1>2, <1>11 DEF Holds, Retrying
  <2>2. /\ queue[m] = {flow[f].from} /\ due[m] \subseteq queue[m]
        /\ hash[m].status = IF flow[f].from = "ns" THEN "SENT_TO_NS" ELSE "DELIVERED_TO_NS"
        /\ sent[m] \in Nat /\ hash[m].retryCount \in Nat
    BY <1>2, <1>11, <2>1, StatusQueue
  <2>3. queue'[m] = {"retry"} /\ due'[m] = {} /\ index'[m] = {} /\ m \notin slots'
    BY <1>2, <1>8, <1>11, <2>1, <2>2 DEF MessageOK, Stored
  <2>4. Unborn(m)'
    BY <1>2, <1>4 DEF Unborn
  <2>5. Stored(m)'
    <3>1. sent[m] <= hash[m].retryCount + 1 /\ sent[m] <= MaxRetries + 1
      BY <1>2, <1>11, <2>2 DEF MessageOK, Stored, InNetwork
    <3> QED
      BY <1>4, <1>9, <2>1, <2>2, <2>3, <3>1, PullTable, ConstantsAssumption DEF Stored, InNetwork
  <2>6. ~RetryHolds(m) /\ ~RetryHolds(m)'
    BY <1>2, <1>3, <1>4, <1>11, <2>2, Kinds, PullTable, ConstantsAssumption
    DEF MessageOK, Listed, RetryHolds
  <2>7. ~RowHas("awaitingTask", m)'
    BY <1>2, <1>3, <1>4, <1>11, <2>2, Kinds, PullTable, ConstantsAssumption
    DEF MessageOK, Listed, RowHas, Holds, RowHolds
  <2>8. Listed(m)'
    BY <1>9, <2>3, <2>6, <2>7 DEF Listed
  <2>9. ASSUME NEW h \in Flows, flow'[h].msg = m PROVE Holds(h, m)'
    <3>1. /\ h # f /\ flow'[h] = flow[h] /\ Holds(h, m) /\ Legal(h, flow[h])
      BY <1>2, <1>3, <2>9, ConstantsAssumption DEF MessageOK, FlowsLegal
    <3>2. h # "awaitingTask"
      BY <1>2, <1>3, <2>7, <2>9 DEF RowHas
    <3>3. h \notin Passes
      <4>1. CASE f \in Passes
        BY <1>2, <2>9, <3>1, <4>1 DEF Holds, PassHas
      <4>2. CASE f = "ns"
        BY <1>1, <1>2, <1>11, <2>9, <3>1, <4>2, PullTable DEF Holds, RowHolds
      <4>3. CASE f = "awaitingTask"
        BY <1>2, <1>11, <2>2, <2>9, <3>1, <4>3 DEF Holds, PassHas
      <4> QED
        BY <1>2, <4>1, <4>2, <4>3
    <3>4. \A p \in Passes : flow'[p].msg = m => flow[p].msg = m
      BY <1>3, Kinds, ConstantsAssumption
    <3>5. h = "ns" => (flow[h].pc = "orphaned" => "ns" \notin queue'[m])
      BY <2>3
    <3>6. h = "retry" => flow[h].pc # "orphaned"
      BY <1>11, <2>2, <2>9, <3>1, PullTable DEF Holds, RowHolds
    <3>7. h \in Rows => RowHolds(h, m)'
      BY <1>4, <1>9, <1>11, <2>9, <3>1, <3>2, <3>4, <3>5, <3>6, PullTable DEF Holds, RowHolds
    <3>8. Retrying(h, m)'
      <4>1. CASE flow[h].pc \in {"zscore", "hmget", "retryExec"}
        <5>1. h = "ns" /\ flow[h].from = "ns"
          BY <3>1, <3>2, <3>3, <4>1, RetryingFlow DEF RetrySteps
        <5>2. f = "awaitingTask"
          BY <1>2, <1>11, <2>9, <3>1, <4>1, <5>1, PullTable DEF Holds, RowHolds
        <5>3. flow[h].pc = "zscore"
          BY <1>2, <1>11, <2>2, <2>9, <3>1, <4>1, <5>1, <5>2 DEF Holds, Retrying
        <5> QED
          BY <2>3, <3>1, <5>1, <5>3 DEF Retrying
      <4>2. CASE flow[h].pc \notin {"zscore", "hmget", "retryExec"}
        BY <3>1, <4>2 DEF Retrying
      <4> QED
        BY <4>1, <4>2
    <3> QED
      BY <3>3, <3>7, <3>8 DEF Holds
  <2>10. MessageOK(m)'
    BY <2>4, <2>5, <2>8, <2>9 DEF MessageOK, Holds
  <2> QED
    BY <1>3, <1>5, <1>7, <2>10, OneTouched
<1> QED
  BY <1>10, <1>11

-----------------------------------------------------------------------------
(* The rows of the runner *)

\* A row at an unattached step has nothing in hand.
LEMMA EmptyHand ==
  ASSUME PullInv, NEW f \in Flows, flow[f].pc \in Unattached
  PROVE  flow[f].msg = NoMsg /\ flow[f] \in FlowRecord
  BY DEF PullInv, LifeOK, TypeInv, FlowsOK, FlowsLegal, Legal

\* Reading the due ids: what is due in a queue has the status of that queue.
LEMMA StartDrainPull ==
  ASSUME Pattern = "PULL", PullInv, NEW r \in Rows, StartDrain(r)
  PROVE  LifeOK'
<1> USE DEF PullInv, LifeOK, TypeInv
<1> DEFINE g == [flow[r] EXCEPT !.pc = "drain"]
<1>1. r \in Flows /\ r \notin Passes /\ flow[r].msg = NoMsg /\ flow[r] \in FlowRecord
  BY Kinds, EmptyHand DEF StartDrain, Unattached
<1>2. flow' = [flow EXCEPT ![r] = g] /\ g.msg = NoMsg /\ g.pc = "drain"
  BY <1>1 DEF StartDrain, Goto, FlowsOK, FlowRecord
<1>3. Legal(r, g)
  BY <1>1, <1>2, Kinds, PullTable DEF Legal, Unattached, RetrySteps
<1>4. FlowsLegal'
  BY <1>1, <1>2, <1>3, LegalStep
<1>5. flow'[r].msg = NoMsg /\ \A h \in Flows \ {r} : flow'[h] = flow[h]
  BY <1>1, <1>2 DEF FlowsOK
<1>6. UNCHANGED <<hash, queue, due, index, slots, sent, fate, inFlight>>
  BY DEF StartDrain, redis, world
<1>7. /\ \A s \in Rows \ {r} : todo'[s] = todo[s]
      /\ \A o \in Messages : o \in todo'[r] <=> r \in queue[o] /\ r \in due[o]
  BY DEF StartDrain, MemoryOK
<1>8. WithinCap'
  BY <1>6 DEF WithinCap
<1>9. ASSUME NEW o \in Messages PROVE MessageOK(o)'
  <2>1. MessageOK(o) /\ o # NoMsg
    BY ConstantsAssumption
  <2>2. Unborn(o)'
    BY <1>1, <1>5, <1>6, <1>7, <2>1 DEF MessageOK, Unborn
  <2>3. Stored(o)'
    BY <1>6, <2>1 DEF MessageOK, Stored
  <2>4. /\ RowHas("ns", o)' => RowHas("ns", o) \/ ("ns" \in queue[o] /\ "ns" \in due[o])
        /\ RowHas("awaitingTask", o)' => RowHas("awaitingTask", o) \/ "awaitingTask" \in queue[o]
        /\ RetryHolds(o)' => RetryHolds(o) \/ ("retry" \in queue[o] /\ "retry" \in due[o])
    BY <1>5, <1>7, <2>1, Kinds, PullTable DEF RowHas, RetryHolds
  <2>5. Listed(o)'
    <3> SUFFICES ASSUME hash[o].whole PROVE Listed(o)'
      BY <1>6 DEF Listed
    <3>1. RowHas("ns", o)' => hash[o].status # "QUEUED" /\ "retry" \notin due[o] /\ ~RetryHolds(o)'
      BY <2>1, <2>4, StatusQueue DEF MessageOK, Listed
    <3>2. RetryHolds(o)' => hash[o].status = "TO_RETRY"
      BY <2>1, <2>4, StatusQueue DEF MessageOK, Listed
    <3>3. RowHas("awaitingTask", o)' => hash[o].status = "DELIVERED_TO_NS"
      BY <2>1, <2>4, StatusQueue DEF MessageOK, Listed
    <3> QED
      BY <1>6, <3>1, <3>2, <3>3 DEF Listed
  <2>6. ASSUME NEW h \in Flows, flow'[h].msg = o PROVE Holds(h, o)'
    <3>1. h # r /\ flow'[h] = flow[h] /\ Holds(h, o)
      BY <1>5, <2>1, <2>6 DEF MessageOK
    <3>2. ASSUME h \in Passes PROVE PassHas(h, o)'
      <4>1. \A q \in Passes : flow'[q] = flow[q]
        BY <1>1, <1>5, Kinds
      <4> QED
        BY <1>6, <2>4, <2>6, <3>1, <3>2, <4>1 DEF Holds, PassHas
    <3>3. ASSUME h \in Rows PROVE RowHolds(h, o)'
      <4>1. \A q \in Passes : flow'[q] = flow[q]
        BY <1>1, <1>5, Kinds
      <4> QED
        BY <1>6, <1>7, <2>6, <3>1, <3>3, <4>1 DEF Holds, RowHolds
    <3>4. Retrying(h, o)'
      BY <1>6, <2>6, <3>1 DEF Holds, Retrying
    <3> QED
      BY <3>2, <3>3, <3>4 DEF Holds
  <2> QED
    BY <2>2, <2>3, <2>5, <2>6 DEF MessageOK, Holds
<1> QED
  BY <1>4, <1>8, <1>9

\* What a row of the PULL table makes of a message.
LEMMA ActPull ==
  ASSUME Pattern = "PULL", NEW r \in Rows, NEW m \in Messages
  PROVE  /\ Act(r, m).msg = m
         /\ r = "ns" => IF inFlight[m] # NoPass THEN Act(r, m).pc = "rescheduled"
                        ELSE Act(r, m).pc = "failRead" /\ Act(r, m).from = "ns"
         /\ r = "awaitingTask" =>
               \/ Act(r, m).pc = "notify"
               \/ Act(r, m).pc = "rescheduled"
               \/ Act(r, m).pc = "asking" /\ Act(r, m).ref = hash[m].ref
         /\ r = "retry" => Act(r, m).pc = "requeue"
<1>1. CASE r = "ns"
  BY <1>1 DEF Act, Idle, inFlightSends_has
<1>2. CASE r = "awaitingTask"
  BY <1>2 DEF Act, Idle
<1>3. CASE r = "retry"
  BY <1>3 DEF Act, Idle
<1> QED
  BY <1>1, <1>2, <1>3, PullTable

\* A deadline that acts finds no send of the message under way: a tracked one
\* would have been seen, an untracked one excludes the row.
LEMMA DrainNextPull ==
  ASSUME Pattern = "PULL", PullInv, NEW r \in Rows, NEW m \in Messages, DrainNext(r, m)
  PROVE  LifeOK'
<1> USE DEF PullInv, LifeOK, TypeInv
<1>1. r \in Flows /\ r \notin Passes /\ flow[r].msg = NoMsg /\ flow[r] \in FlowRecord
  BY Kinds, EmptyHand DEF DrainNext, Unattached
<1>2. UNCHANGED <<hash, queue, due, index, slots, sent, fate, inFlight>>
  BY DEF DrainNext, redis, world
<1>3. m \in todo[r] /\ m \notin todo'[r] /\ \A s \in Rows : todo'[s] \subseteq todo[s]
  BY DEF DrainNext, MemoryOK
<1>4. \A o \in Messages : Kept(o)
  BY <1>2, <1>3 DEF Kept
<1>5. MessageOK(m) /\ fate[m] # "new" /\ RowHas(r, m)
  BY <1>3 DEF MessageOK, Unborn, RowHas
<1>6. CASE hash[m].exists /\ ~hash[m].whole
  <2>1. flow' = [flow EXCEPT ![r] = Idle] /\ Idle.msg = NoMsg
    BY <1>6 DEF DrainNext, Idle
  <2>2. FlowsLegal'
    BY <1>1, <2>1, IdleLegal, LegalStep
  <2>3. \A o \in Messages, h \in Flows : KeptBy(h, o)
    BY <1>1, <1>2, <2>1, OneFlow, ConstantsAssumption
  <2>4. \A o \in Messages : Untouched(o)
    BY <1>4, <2>3 DEF Untouched
  <2> QED
    BY <1>2, <2>2, <2>4, AllUntouched
<1>7. CASE ~(hash[m].exists /\ ~hash[m].whole)
  <2>1. PICK g : /\ flow' = [flow EXCEPT ![r] = g] /\ g.msg = m
                 /\ IF hash[m].whole THEN g = Act(r, m) ELSE g.pc = "orphaned"
    <3> DEFINE g == IF hash[m].whole THEN Act(r, m) ELSE [Idle EXCEPT !.pc = "orphaned", !.msg = m]
    <3>1. flow' = [flow EXCEPT ![r] = g]
      BY <1>7 DEF DrainNext
    <3>2. CASE hash[m].whole
      BY <3>1, <3>2, ActPull
    <3>3. CASE ~hash[m].whole
      <4>1. g = [Idle EXCEPT !.pc = "orphaned", !.msg = m]
        BY <3>3
      <4> HIDE DEF g
      <4>2. g.pc = "orphaned" /\ g.msg = m
        BY <4>1 DEF Idle
      <4> QED
        BY <3>1, <3>3, <4>2
    <3> QED
      BY <3>2, <3>3
  <2>2. Legal(r, g)
    BY <1>1, <2>1, ActPull, Kinds, PullTable
    DEF Legal, Unattached, RetrySteps, EventSteps, Purging
  <2>3. flow'[r] = g /\ (\A h \in Flows \ {r} : flow'[h] = flow[h])
    BY <1>1, <2>1 DEF FlowsOK
  <2>4. \A h \in Flows \ {r}, o \in Messages : KeptBy(h, o)
    BY <1>1, <1>2, <2>1, OneFlow
  <2>5. \A p \in Passes : flow'[p] = flow[p]
    BY <1>1, <2>3, Kinds
  <2>6. ASSUME r = "ns", hash[m].whole, g.pc # "rescheduled", NEW p \in Passes
        PROVE  flow'[p].msg # m
    <3>1. inFlight[m] = NoPass
      BY <2>1, <2>6, ActPull
    <3>2. ~(flow[p].msg = m /\ flow[p].pc # "emitSent")
      BY <1>5, <3>1, Kinds, ConstantsAssumption DEF MessageOK, Holds, PassHas
    <3>3. ~(flow[p].msg = m /\ flow[p].pc = "emitSent")
      BY <1>5, <2>6, Kinds DEF MessageOK, Holds, PassHas
    <3> QED
      BY <2>5, <3>2, <3>3
  <2>7. RowHolds(r, m)'
    BY <1>2, <1>3, <2>1, <2>3, <2>6, ActPull, PullTable DEF RowHolds
  <2>8. g.pc \notin {"zscore", "hmget", "retryExec"}
    BY <2>1, ActPull, PullTable
  <2>9. Holds(r, m)'
    BY <1>1, <2>3, <2>7, <2>8 DEF Holds, Retrying
  <2>10. r = "retry" => RetryHolds(m)
    BY <1>3 DEF RetryHolds
  <2> QED
    BY <1>1, <1>2, <1>4, <1>5, <2>1, <2>2, <2>4, <2>9, <2>10, GoesOn
<1> QED
  BY <1>6, <1>7

LEMMA VendorAnswerPull ==
  ASSUME Pattern = "PULL", PullInv, NEW r \in Rows, NEW m \in Messages, flow[r].msg = m,
         StillQueued(r) \/ NoLongerQueued(r) \/ PollAnswered(r)
  PROVE  LifeOK'
<1> USE DEF PullInv, LifeOK, TypeInv
<1>1. /\ r = "awaitingTask" /\ flow[r].pc = "asking" /\ PollAnswered(r)
      /\ r \in Flows /\ r \notin Passes
  BY Kinds, PullTable DEF StillQueued, NoLongerQueued, PollAnswered
<1>2. UNCHANGED <<hash, queue, due, index, slots, todo, sent, fate, inFlight>>
  BY <1>1 DEF PollAnswered, redis, world
<1>3. PICK g : /\ flow' = [flow EXCEPT ![r] = g] /\ g.msg = m
               /\ \/ g.pc = "rescheduled"
                  \/ g.pc = "lookup" /\ g.ref = flow[r].ref
  <2>1. CASE flow' = [flow EXCEPT ![r] = [Idle EXCEPT !.pc = "rescheduled", !.msg = flow[r].msg]]
    <3> DEFINE g == [Idle EXCEPT !.pc = "rescheduled", !.msg = m]
    <3>1. g.msg = m /\ g.pc = "rescheduled" /\ flow' = [flow EXCEPT ![r] = g]
      BY <2>1 DEF Idle
    <3> HIDE DEF g
    <3> QED
      BY <3>1
  <2>2. CASE \E status \in TerminalStatuses, skip \in BOOLEAN :
               flow' = [flow EXCEPT ![r] = [Idle EXCEPT
                            !.pc = "lookup", !.msg = flow[r].msg, !.ref = flow[r].ref,
                            !.event = status, !.skipRetry = skip]]
    <3>1. PICK status \in TerminalStatuses, skip \in BOOLEAN :
               flow' = [flow EXCEPT ![r] = [Idle EXCEPT
                            !.pc = "lookup", !.msg = flow[r].msg, !.ref = flow[r].ref,
                            !.event = status, !.skipRetry = skip]]
      BY <2>2
    <3> DEFINE g == [Idle EXCEPT !.pc = "lookup", !.msg = flow[r].msg, !.ref = flow[r].ref,
                                 !.event = status, !.skipRetry = skip]
    <3>2. g.msg = m /\ g.pc = "lookup" /\ g.ref = flow[r].ref /\ flow' = [flow EXCEPT ![r] = g]
      BY <3>1 DEF Idle
    <3> HIDE DEF g
    <3> QED
      BY <3>2
  <2> QED
    BY <1>1, <2>1, <2>2 DEF PollAnswered
<1>4. Legal(r, g)
  BY <1>1, <1>3, Kinds, PullTable DEF Legal, Unattached, RetrySteps, EventSteps
<1>5. flow'[r] = g
  BY <1>1, <1>3 DEF FlowsOK
<1>6. Retrying(r, m)'
  BY <1>3, <1>5 DEF Retrying
<1> QED
  BY <1>1, <1>2, <1>3, <1>4, <1>6, Onward DEF Unattached

\* The retry row sends a message back to ready, or finds its claim gone.
LEMMA RequeuePull ==
  ASSUME Pattern = "PULL", PullInv, NEW r \in Rows, Requeue(r),
         NEW m \in Messages, flow[r].msg = m
  PROVE  LifeOK'
<1> USE DEF PullInv, LifeOK, TypeInv
<1>1. r = "retry" /\ flow[r].pc = "requeue" /\ r \in Flows /\ r \notin Passes
  BY Kinds DEF Requeue
<1>2. MessageOK(m) /\ Holds(r, m) /\ fate[m] # "new" /\ hash[m] \in Hash /\ m # NoMsg
  BY <1>1, InHand, ConstantsAssumption DEF Unattached
<1>3. UNCHANGED <<slots, todo, sent, fate, inFlight>> /\ Move(m, "retry", "ready", "QUEUED", 0)
  BY DEF Requeue, world
<1>4. PICK g : /\ flow' = [flow EXCEPT ![r] = g] /\ g.msg = m
               /\ g.pc = IF Movable(m, "retry") THEN "listReady" ELSE "orphaned"
  <2> DEFINE g == IF Movable(m, "retry") THEN [Idle EXCEPT !.pc = "listReady", !.msg = m]
                                         ELSE Ended(r, "orphaned")
  <2>1. flow' = [flow EXCEPT ![r] = g]
    BY DEF Requeue
  <2>2. g = IF Movable(m, "retry") THEN [Idle EXCEPT !.pc = "listReady", !.msg = m]
                                   ELSE [Idle EXCEPT !.pc = "orphaned", !.msg = m]
    BY <1>1, EndedRecord
  <2> HIDE DEF g
  <2>3. g.msg = m /\ g.pc = IF Movable(m, "retry") THEN "listReady" ELSE "orphaned"
    BY <2>2 DEF Idle
  <2> QED
    BY <2>1, <2>3
<1>5. Legal(r, g)
  BY <1>1, <1>4, Kinds, PullTable DEF Legal, Unattached, RetrySteps
<1>6. FlowsLegal' /\ WithinCap'
  BY <1>1, <1>3, <1>4, <1>5, LegalStep DEF WithinCap
<1>7. flow'[r] = g /\ (\A h \in Flows \ {r} : flow'[h] = flow[h])
  BY <1>1, <1>4 DEF FlowsOK
<1>8. \A h \in Flows \ {r}, o \in Messages : KeptBy(h, o)
  BY <1>1, <1>3, <1>4, OneFlow
<1>9. \A o \in Messages \ {m} : /\ hash'[o] = hash[o] /\ queue'[o] = queue[o]
                               /\ due'[o] = due[o] /\ index'[o] = index[o]
  BY <1>3 DEF Move, Transfer, Leave, RedisOK
<1>10. \A o \in Messages \ {m} : Untouched(o)
  BY <1>3, <1>4, <1>7, <1>8, <1>9 DEF Untouched, Kept, KeptBy
<1>11. CASE ~hash[m].whole
  <2>1. \A h \in Hash, status \in Statuses : Moved(h, status, 0).whole = h.whole
    BY DEF Moved, Hash
  <2>2. ~hash'[m].whole
    BY <1>3, <1>11, <2>1 DEF Move, RedisOK, Statuses
  <2>3. due'[m] \subseteq queue'[m]
    BY <1>2, <1>3 DEF Move, Transfer, Leave, RedisOK, MessageOK, Stored
  <2>4. \A h \in Flows : flow'[h].msg = m => flow[h].msg = m /\ (h \in Passes => KeptBy(h, m))
    BY <1>1, <1>7, <1>8
  <2>5. MessageOK(m)'
    BY <1>2, <1>3, <2>2, <2>3, <2>4, GoneOK
  <2> QED
    BY <1>6, <1>10, <2>5, OneTouched
<1>12. CASE hash[m].whole
  <2>1. /\ hash[m].status = "TO_RETRY" /\ queue[m] \subseteq {"retry"}
        /\ due[m] \subseteq queue[m] /\ hash[m].exists
        /\ sent[m] \in Nat /\ hash[m].retryCount \in Nat
    BY <1>1, <1>2, <1>12, StatusQueue DEF MessageOK, Listed, RetryHolds
  <2>2. /\ ~RowHas("ns", m) /\ ~RowHas("awaitingTask", m) /\ m \notin todo["retry"]
        /\ \A p \in Passes : flow[p].msg # m
    BY <1>1, <1>2, <1>12, <2>1, Kinds, PullTable
    DEF MessageOK, Listed, RetryHolds, Holds, PassHas, RowHolds
  <2>3. /\ ~RowHas("ns", m)' /\ ~RowHas("awaitingTask", m)' /\ ~RetryHolds(m)'
        /\ \A p \in Passes : flow'[p].msg # m
    BY <1>1, <1>3, <1>4, <1>7, <2>2, Kinds, PullTable DEF RowHas, RetryHolds
  <2>4. /\ due'[m] = {}
        /\ \/ /\ hash'[m] = Moved(hash[m], "QUEUED", 0) /\ index'[m] = index[m]
              /\ queue'[m] = {"ready"} /\ g.pc = "listReady"
           \/ /\ hash'[m] = hash[m] /\ index'[m] = index[m]
              /\ queue[m] = {} /\ queue'[m] = {} /\ g.pc = "orphaned"
    BY <1>3, <1>4, <2>1 DEF Move, Movable, Transfer, Leave, RedisOK
  <2>5. LET h == Moved(hash[m], "QUEUED", 0)
        IN  /\ h.whole /\ h.exists /\ h.status = "QUEUED" /\ h.ref = hash[m].ref
            /\ h.retryCount = hash[m].retryCount
    BY <1>2, <1>12 DEF Moved, Hash
  <2>6. Unborn(m)'
    BY <1>2, <1>3 DEF Unborn
  <2>7. Stored(m)'
    BY <1>2, <1>3, <1>12, <2>1, <2>4, <2>5, PullTable DEF Stored, MessageOK, InNetwork
  <2>8. Listed(m)'
    BY <2>3 DEF Listed
  <2>9. ASSUME NEW h \in Flows, flow'[h].msg = m PROVE Holds(h, m)'
    <3>1. h \notin Passes /\ h # "ns" /\ h # "awaitingTask" /\ Legal(h, flow'[h])
      BY <1>6, <2>3, <2>9 DEF RowHas, FlowsLegal
    <3>2. flow'[h].pc \notin RetrySteps
      BY <3>1, RetryingFlow
    <3>3. h \in Rows => RowHolds(h, m)'
      BY <1>1, <1>3, <1>4, <1>7, <2>2, <2>4, <3>1, PullTable DEF RowHolds
    <3> QED
      BY <3>1, <3>2, <3>3 DEF Holds, Retrying, RetrySteps
  <2>10. MessageOK(m)'
    BY <2>6, <2>7, <2>8, <2>9 DEF MessageOK, Holds
  <2> QED
    BY <1>6, <1>10, <2>10, OneTouched
<1> QED
  BY <1>11, <1>12

\* An orphan's member is already out of the row's queue; a rescheduled one gets a
\* later score.
LEMMA RowEndPull ==
  ASSUME Pattern = "PULL", PullInv, NEW r \in Rows, NEW m \in Messages, flow[r].msg = m,
         ListReady(r) \/ Scrub(r) \/ Reschedule(r)
  PROVE  LifeOK'
<1> USE DEF PullInv, LifeOK, TypeInv
<1>1. r \in Flows /\ flow[r].pc \notin Unattached
  BY Kinds DEF ListReady, Scrub, Reschedule, Unattached
<1>2. MessageOK(m) /\ Holds(r, m) /\ fate[m] # "new"
  BY <1>1, InHand
<1>3. /\ FlowsLegal' /\ flow'[r].msg = NoMsg /\ \A g \in Flows \ {r} : flow'[g] = flow[g]
      /\ \A g \in Flows, o \in Messages : KeptBy(g, o)
  BY <1>1, LetsGo DEF ListReady, Scrub, Reschedule
<1>4. UNCHANGED <<hash, index, slots, todo, sent, fate>>
  BY DEF ListReady, Scrub, Reschedule, world
<1>5. WithinCap'
  BY <1>4 DEF WithinCap
<1>6. /\ \A o \in Messages \ {m} : queue'[o] = queue[o] /\ due'[o] = due[o]
      /\ due'[m] \subseteq due[m]
      /\ due'[m] \subseteq queue'[m]
      /\ queue'[m] = queue[m] \/ (Scrub(r) /\ queue'[m] = queue[m] \ {r})
  BY <1>2 DEF ListReady, Scrub, Reschedule, Leave, RedisOK, MessageOK, Stored
<1>7. \A o \in Messages \ {m} : Untouched(o)
  BY <1>3, <1>4, <1>6 DEF Untouched, Kept
<1>8. CASE ~hash[m].whole
  <2>1. \A g \in Flows : flow'[g].msg = m => flow[g].msg = m
    BY <1>3, ConstantsAssumption
  <2>2. MessageOK(m)'
    BY <1>2, <1>3, <1>4, <1>6, <1>8, <2>1, GoneOK
  <2> QED
    BY <1>3, <1>5, <1>7, <2>2, OneTouched
<1>9. CASE hash[m].whole
  <2>1. Scrub(r) => r \notin queue[m]
    BY <1>2, <1>9, PullTable DEF Holds, RowHolds, Scrub
  <2>2. Untouched(m)
    BY <1>3, <1>4, <1>6, <2>1 DEF Untouched, Kept
  <2> QED
    BY <1>3, <1>4, <1>7, <2>2, AllUntouched
<1> QED
  BY <1>8, <1>9

-----------------------------------------------------------------------------
(* processEvent, run by the awaitingTask row *)

\* The reference the row polled by still resolves to the message.
LEMMA EventPull ==
  ASSUME Pattern = "PULL", PullInv, NEW f \in Flows, NEW m \in Messages, flow[f].msg = m,
         EventStep(f)
  PROVE  LifeOK'
<1> USE DEF PullInv, LifeOK, TypeInv
<1>1. flow[f].pc \in EventSteps /\ flow[f].pc \notin Unattached
  BY DEF EventStep, Lookup, ToDevice, NackRead, OkRead, EventSteps, Unattached
<1>2. /\ Legal(f, flow[f]) /\ FlowOK(flow[f]) /\ flow[f] \in FlowRecord
      /\ MessageOK(m) /\ Holds(f, m) /\ hash[m] \in Hash
  BY <1>1, InHand
<1>3. f = "awaitingTask" /\ f \in Rows /\ f \notin Passes /\ flow[f].pc # "toDevice"
  BY <1>1, <1>2, Kinds, PullTable
  DEF Legal, FlowOK, Flows, EventSteps, PassSteps, RetrySteps, Purging
<1>4. UNCHANGED <<hash, queue, due, index, slots, todo, sent, fate>>
  BY <1>3 DEF EventStep, Lookup, ToDevice, NackRead, OkRead, redis, world
<1>5. hash[m].whole => /\ hash[m].exists /\ hash[m].status = "DELIVERED_TO_NS"
                       /\ flow[f].pc = "lookup" => flow[f].ref \in index[m]
  BY <1>2, <1>3 DEF MessageOK, Stored, Listed, RowHas, Holds, RowHolds
<1>6. PICK g : /\ flow' = [flow EXCEPT ![f] = g] /\ g.msg = m
               /\ UNCHANGED inFlight \/ Untrack(f)
               /\ \/ g.pc \in {"nackRead", "okRead", "toDevice", "notify"}
                  \/ g.pc = "failRead" /\ g.from = "awaitingTask"
                  \/ g.pc \in {"orphaned", "rescheduled"} /\ ~hash[m].whole
  <2>1. \A step \in {"orphaned", "rescheduled"} :
           /\ [Idle EXCEPT !.pc = step, !.msg = m].msg = m
           /\ [Idle EXCEPT !.pc = step, !.msg = m].pc = step
    BY DEF Idle
  <2>2. ASSUME NEW outcome \in {"orphaned", "threw"}, Finish(f, outcome), ~hash[m].whole
        PROVE  \E step \in {"orphaned", "rescheduled"} :
                  /\ flow' = [flow EXCEPT ![f] = [Idle EXCEPT !.pc = step, !.msg = m]]
                  /\ Untrack(f)
    BY <1>3, <2>2, EndedRecord DEF Finish
  <2>3. CASE Lookup(f)
    <3>1. CASE flow[f].ref \notin index[m]
      <4>1. Finish(f, "orphaned") /\ ~hash[m].whole
        BY <1>5, <2>3, <3>1 DEF Lookup
      <4> QED
        BY <2>1, <2>2, <4>1
    <3>2. CASE flow[f].ref \in index[m]
      <4>1. PICK step \in {"toDevice", "nackRead", "okRead"} : Goto(f, step) /\ UNCHANGED inFlight
        BY <1>2, <2>3, <3>2 DEF Lookup, FlowOK, IngressEvents, TerminalStatuses
      <4> DEFINE g == [flow[f] EXCEPT !.pc = step]
      <4>2. g.msg = m /\ g.pc = step /\ flow' = [flow EXCEPT ![f] = g]
        BY <1>2, <4>1 DEF Goto, FlowRecord, FlowsOK
      <4> HIDE DEF g
      <4> QED
        BY <4>1, <4>2
    <3> QED
      BY <3>1, <3>2
  <2>4. CASE NackRead(f)
    <3>1. CASE hash[m].whole
      <4> DEFINE g == [flow[f] EXCEPT !.pc = "failRead", !.from = "awaitingTask"]
      <4>1. flow' = [flow EXCEPT ![f].pc = "failRead", ![f].from = "awaitingTask"] /\ UNCHANGED inFlight
        BY <1>5, <2>4, <3>1, PullTable DEF NackRead
      <4>2. g.msg = m /\ g.pc = "failRead" /\ g.from = "awaitingTask" /\ flow' = [flow EXCEPT ![f] = g]
        BY <1>2, <4>1 DEF FlowRecord, FlowsOK
      <4> HIDE DEF g
      <4> QED
        BY <4>1, <4>2
    <3>2. CASE ~hash[m].whole
      <4>1. \E outcome \in {"orphaned", "threw"} : Finish(f, outcome)
        BY <2>4, <3>2 DEF NackRead
      <4> QED
        BY <2>1, <2>2, <3>2, <4>1
    <3> QED
      BY <3>1, <3>2
  <2>5. CASE OkRead(f)
    <3>1. CASE hash[m].whole
      <4>1. flow' = [flow EXCEPT ![f] = Capture(f, "notify")] /\ UNCHANGED inFlight
        BY <1>5, <2>5, <3>1 DEF OkRead
      <4>2. Capture(f, "notify").msg = m /\ Capture(f, "notify").pc = "notify"
        BY <1>2 DEF Capture, FlowRecord
      <4> QED
        BY <4>1, <4>2
    <3>2. CASE ~hash[m].whole
      <4>1. \E outcome \in {"orphaned", "threw"} : Finish(f, outcome)
        BY <2>5, <3>2 DEF OkRead
      <4> QED
        BY <2>1, <2>2, <3>2, <4>1
    <3> QED
      BY <3>1, <3>2
  <2> QED
    BY <1>3, <2>3, <2>4, <2>5 DEF EventStep, ToDevice
<1>7. Legal(f, g)
  BY <1>3, <1>6, Kinds, PullTable DEF Legal, Unattached, RetrySteps, EventSteps, Purging
<1>8. flow'[f] = g
  BY <1>6 DEF FlowsOK
<1>9. Retrying(f, m)'
  BY <1>6, <1>8 DEF Retrying
<1>10. g.pc \notin {"emitSent", "calling", "requeue", "asking", "lookup"}
  BY <1>6
<1>11. hash[m].whole => g.pc # "orphaned"
  BY <1>6
<1>12. flow[f].pc \notin Unattached \cup {"emitSent", "rescheduled"}
  BY <1>1 DEF EventSteps
<1>13. UNCHANGED inFlight \/ (f \notin Passes /\ Untrack(f))
  BY <1>3, <1>6
<1> QED
  BY <1>4, <1>6, <1>7, <1>9, <1>10, <1>11, <1>12, <1>13, Onward

-----------------------------------------------------------------------------
(* Cancel, time, the TTL and the process *)

LEMMA StartCancelPull ==
  ASSUME Pattern = "PULL", PullInv, NEW c \in Cancels, NEW m \in Messages, StartCancel(c, m)
  PROVE  LifeOK'
<1> USE DEF PullInv, LifeOK, TypeInv
<1> DEFINE g == [Idle EXCEPT !.pc = "claim", !.msg = m, !.from = queueForStatus(hash[m].status),
                             !.ref = hash[m].ref, !.slot = hash[m].slot]
<1>1. c \in Flows /\ c \notin Passes /\ c \notin Rows
  BY Kinds
<1>2. /\ flow' = [flow EXCEPT ![c] = g] /\ g.msg = m /\ g.pc = "claim"
      /\ g.from \in {"ready", "retry"}
  BY PullTable DEF StartCancel, Idle
<1> HIDE DEF g
<1>3. Legal(c, g)
  BY <1>1, <1>2, Kinds, PullTable DEF Legal, Unattached, RetrySteps
<1>4. UNCHANGED <<hash, queue, due, index, slots, todo, sent, fate, inFlight>>
  BY DEF StartCancel, redis, world
<1>5. fate[m] # "new"
  BY DEF StartCancel, MessageOK, Unborn
<1>6. flow'[c] = g /\ (\A h \in Flows \ {c}, o \in Messages : KeptBy(h, o))
  BY <1>1, <1>2, <1>4, OneFlow
<1>7. Holds(c, m)'
  BY <1>1, <1>2, <1>6 DEF Holds, Retrying
<1>8. \A o \in Messages : Kept(o)
  BY <1>4, QuietKept
<1> QED
  BY <1>1, <1>2, <1>3, <1>4, <1>5, <1>6, <1>7, <1>8, PullTable, GoesOn

\* A claim that succeeds leaves the message in no queue; nobody else had it in hand
\* to move it.
LEMMA ClaimPull ==
  ASSUME Pattern = "PULL", PullInv, NEW c \in Cancels, Claim(c),
         NEW m \in Messages, flow[c].msg = m
  PROVE  LifeOK'
<1> USE DEF PullInv, LifeOK, TypeInv
<1>1. c \in Flows /\ c \notin Passes /\ c \notin Rows /\ flow[c].pc = "claim"
  BY Kinds DEF Claim
<1>2. /\ MessageOK(m) /\ fate[m] # "new" /\ flow[c] \in FlowRecord
      /\ flow[c].from \in {"ready", "retry"} /\ Legal(c, flow[c])
  BY <1>1, InHand DEF Unattached, Legal
<1>3. /\ \A h \in Flows \ {c} : flow'[h] = flow[h]
      /\ flow'[c].msg \in {m, NoMsg} /\ flow'[c].pc \in {"idle", "purge"}
      /\ FlowsLegal'
  <2>1. CASE Goto(c, "purge")
    <3> DEFINE g == [flow[c] EXCEPT !.pc = "purge"]
    <3>1. flow' = [flow EXCEPT ![c] = g] /\ g.msg = m /\ g.pc = "purge"
      BY <1>2, <2>1 DEF Goto, FlowRecord, FlowsOK
    <3> HIDE DEF g
    <3>2. Legal(c, g)
      BY <1>1, <3>1, Kinds, PullTable DEF Legal, Unattached, RetrySteps
    <3>3. FlowsLegal'
      BY <1>1, <3>1, <3>2, LegalStep
    <3>4. flow'[c] = g /\ (\A h \in Flows \ {c} : flow'[h] = flow[h])
      BY <1>1, <3>1 DEF FlowsOK
    <3> QED
      BY <3>1, <3>3, <3>4
  <2>2. CASE flow' = [flow EXCEPT ![c] = Idle]
    <3>1. Idle.msg = NoMsg /\ Idle.pc = "idle"
      BY DEF Idle
    <3> QED
      BY <1>1, <2>2, <3>1, IdleLegal, LegalStep DEF FlowsOK
  <2> QED
    BY <2>1, <2>2 DEF Claim
<1>4. UNCHANGED <<hash, index, slots, todo, sent, inFlight>>
  BY DEF Claim
<1>5. WithinCap'
  BY <1>4 DEF WithinCap
<1>6. /\ \A o \in Messages \ {m} : fate'[o] = fate[o] /\ queue'[o] = queue[o] /\ due'[o] = due[o]
      /\ queue'[m] = queue[m] \ {flow[c].from} /\ due'[m] = due[m] \ {flow[c].from}
      /\ fate'[m] # "new"
      /\ hash[m].whole =>
            fate'[m] = IF flow[c].from \in queue[m] THEN "cancelled" ELSE fate[m]
  BY <1>2 DEF Claim, claimed, Leave, RedisOK, WorldOK
<1>7. \A o \in Messages \ {m} : Untouched(o)
  BY <1>3, <1>4, <1>6, ConstantsAssumption DEF Untouched, Kept, KeptBy
<1>8. Unborn(m)' /\ Listed(m)'
  <2>1. /\ RowHas("ns", m)' <=> RowHas("ns", m)
        /\ RowHas("awaitingTask", m)' <=> RowHas("awaitingTask", m)
        /\ RetryHolds(m)' <=> RetryHolds(m)
    BY <1>1, <1>3, <1>4, Kinds, PullTable DEF RowHas, RetryHolds
  <2> QED
    BY <1>2, <1>4, <1>6, <2>1 DEF Unborn, Listed, MessageOK
<1>9. Stored(m)'
  BY <1>2, <1>4, <1>6, StatusQueue, PullTable DEF Stored, MessageOK
<1>10. ASSUME NEW h \in Flows, flow'[h].msg = m PROVE Holds(h, m)'
  <2>1. CASE h = c
    BY <1>1, <1>3, <2>1 DEF Holds, Retrying
  <2>2. CASE h # c
    <3>1. flow'[h] = flow[h] /\ flow[h].msg = m /\ Holds(h, m) /\ Legal(h, flow[h])
      BY <1>2, <1>3, <1>10, <2>2 DEF MessageOK, FlowsLegal
    <3>2. \A p \in Passes : flow'[p] = flow[p]
      BY <1>1, <1>3, Kinds
    <3>3. h \in Passes => PassHas(h, m)'
      BY <1>1, <1>3, <1>4, <1>6, <3>1, <3>2, Kinds, PullTable DEF Holds, PassHas, RowHas
    <3>4. h \in Rows => RowHolds(h, m)'
      BY <1>4, <1>6, <3>1, <3>2 DEF Holds, RowHolds
    <3>5. Retrying(h, m)'
      <4>1. flow[h].pc \in RetrySteps => flow[h].from \in {"ns", "awaitingTask"}
        BY <3>1, RetryingFlow
      <4> QED
        BY <1>2, <1>4, <1>6, <3>1, <4>1 DEF Holds, Retrying, RetrySteps
    <3> QED
      BY <3>3, <3>4, <3>5 DEF Holds
  <2> QED
    BY <2>1, <2>2
<1>11. MessageOK(m)'
  BY <1>8, <1>9, <1>10 DEF MessageOK, Holds
<1> QED
  BY <1>3, <1>5, <1>7, <1>11, OneTouched

\* A new message starts in ready with nothing behind it.
LEMMA EnqueuePull ==
  ASSUME Pattern = "PULL", PullInv, NEW m \in Messages, Enqueue(m)
  PROVE  LifeOK'
<1> USE DEF PullInv, LifeOK, TypeInv
<1>1. UNCHANGED <<flow, todo, inFlight, due, index, slots, sent>> /\ fate[m] = "new"
  BY DEF Enqueue, memory
<1>2. FlowsLegal' /\ WithinCap'
  BY <1>1 DEF FlowsLegal, WithinCap
<1>3. \A o \in Messages \ {m} : hash'[o] = hash[o] /\ queue'[o] = queue[o] /\ fate'[o] = fate[o]
  BY DEF Enqueue, RedisOK, WorldOK
<1>4. \A o \in Messages \ {m} : Untouched(o)
  BY <1>1, <1>3 DEF Untouched, Kept, KeptBy
<1>5. /\ hash'[m].whole /\ hash'[m].exists /\ hash'[m].status = "QUEUED"
      /\ hash'[m].ref = 0 /\ hash'[m].retryCount = 0
      /\ queue'[m] = {"ready"} /\ fate'[m] = "accepted"
  BY DEF Enqueue, RedisOK, WorldOK, NoHash
<1>6. /\ due[m] = {} /\ index[m] = {} /\ m \notin slots /\ sent[m] = 0
      /\ \A f \in Flows : flow[f].msg # m
      /\ \A r \in Rows : m \notin todo[r]
  BY <1>1 DEF MessageOK, Unborn
<1>7. Unborn(m)'
  BY <1>5 DEF Unborn
<1>8. Stored(m)'
  BY <1>1, <1>5, <1>6, PullTable, ConstantsAssumption DEF Stored, InNetwork
<1>9. Listed(m)'
  BY <1>1, <1>6, Kinds, PullTable DEF Listed, RowHas, RetryHolds
<1>10. \A f \in Flows : Holds(f, m)'
  BY <1>1, <1>6 DEF Holds
<1>11. MessageOK(m)'
  BY <1>7, <1>8, <1>9, <1>10 DEF MessageOK
<1> QED
  BY <1>2, <1>4, <1>11, OneTouched

LEMMA ExpirePull ==
  ASSUME Pattern = "PULL", PullInv, NEW m \in Messages, Expire(m)
  PROVE  LifeOK'
<1> USE DEF PullInv, LifeOK, TypeInv
<1>1. UNCHANGED <<flow, todo, inFlight, queue, due, index, slots, sent>>
  BY DEF Expire, memory
<1>2. FlowsLegal' /\ WithinCap'
  BY <1>1 DEF FlowsLegal, WithinCap
<1>3. \A o \in Messages \ {m} : hash'[o] = hash[o] /\ fate'[o] = fate[o]
  BY DEF Expire, RedisOK, WorldOK
<1>4. \A o \in Messages \ {m} : Untouched(o)
  BY <1>1, <1>3 DEF Untouched, Kept, KeptBy
<1>5. ~hash'[m].whole /\ fate'[m] # "new"
  BY DEF Expire, RedisOK, WorldOK, NoHash, MessageOK, Unborn
<1>6. due'[m] \subseteq queue'[m]
  BY <1>1 DEF MessageOK, Stored
<1>7. MessageOK(m)'
  BY <1>1, <1>5, <1>6, GoneOK DEF KeptBy
<1> QED
  BY <1>2, <1>4, <1>7, OneTouched

\* No score passes during engine work on the message, so a row's snapshot and a
\* pass's event stay ahead of the deadline.
LEMMA BecomesDuePull ==
  ASSUME Pattern = "PULL", PullInv, NEW m \in Messages, NEW s \in STAGES, BecomesDue(m, s)
  PROVE  LifeOK'
<1> USE DEF PullInv, LifeOK, TypeInv
<1>1. UNCHANGED <<flow, todo, inFlight, hash, queue, index, slots, sent, fate>>
  BY DEF BecomesDue, memory, world
<1>2. FlowsLegal' /\ WithinCap'
  BY <1>1 DEF FlowsLegal, WithinCap
<1>3. \A o \in Messages \ {m} : due'[o] = due[o]
  BY DEF BecomesDue, RedisOK
<1>4. \A o \in Messages \ {m} : Untouched(o)
  BY <1>1, <1>3 DEF Untouched, Kept, KeptBy
<1>5. /\ due'[m] = due[m] \cup {s} /\ s \in queue[m] /\ MessageOK(m)
      /\ \A f \in Flows : ~Working(f, m)
      /\ m \notin todo["ns"] /\ m \notin todo["retry"]
  BY PullTable DEF BecomesDue, Busy, RedisOK
<1>6. ~RowHas("ns", m)
  <2>1. flow["ns"].msg # m
    <3> SUFFICES ASSUME flow["ns"].msg = m PROVE FALSE
      OBVIOUS
    <3>1. flow["ns"].pc \notin Unattached /\ Legal("ns", flow["ns"])
      BY Kinds, PullTable, Attached DEF FlowsLegal
    <3>2. flow["ns"].pc \notin {"idle", "calling", "accepted", "asking"}
      BY <3>1, PullTable DEF Legal, Unattached, RetrySteps, Purging
    <3> QED
      BY <1>5, <3>2, Kinds, PullTable DEF Working
  <2> QED
    BY <1>5, <2>1 DEF RowHas
<1>7. \A p \in Passes : ~(flow[p].msg = m /\ flow[p].pc = "emitSent")
  BY <1>5, Kinds DEF Working
<1>8. Unborn(m)' /\ Stored(m)'
  BY <1>1, <1>5 DEF MessageOK, Unborn, Stored
<1>9. Listed(m)'
  BY <1>1, <1>5, <1>6 DEF MessageOK, Listed, RowHas, RetryHolds
<1>10. ASSUME NEW h \in Flows, flow[h].msg = m PROVE Holds(h, m)'
  <2>1. h \in Passes => PassHas(h, m)'
    BY <1>1, <1>5, <1>7, <1>10 DEF MessageOK, Holds, PassHas, RowHas
  <2>2. h \in Rows => RowHolds(h, m)'
    BY <1>1, <1>5, <1>10 DEF MessageOK, Holds, RowHolds
  <2>3. Retrying(h, m)'
    BY <1>1, <1>5, <1>10 DEF MessageOK, Holds, Retrying
  <2> QED
    BY <2>1, <2>2, <2>3 DEF Holds
<1>11. MessageOK(m)'
  BY <1>1, <1>8, <1>9, <1>10 DEF MessageOK, Holds
<1> QED
  BY <1>2, <1>4, <1>11, OneTouched

LEMMA CrashPull ==
  ASSUME Pattern = "PULL", PullInv, Crash
  PROVE  LifeOK'
<1> USE DEF PullInv, LifeOK, TypeInv
<1>1. /\ UNCHANGED <<hash, queue, due, index, slots, sent, fate>>
      /\ \A f \in Flows : flow'[f] = Idle
      /\ \A r \in Rows : todo'[r] = {}
  BY DEF Crash, redis
<1>2. Idle.msg = NoMsg
  BY DEF Idle
<1>3. FlowsLegal'
  BY <1>1, IdleLegal DEF FlowsLegal
<1>4. \A o \in Messages : Untouched(o)
  BY <1>1, <1>2, ConstantsAssumption DEF Untouched, Kept, KeptBy
<1> QED
  BY <1>1, <1>3, <1>4, AllUntouched

LEMMA GrowsOldPull ==
  ASSUME Pattern = "PULL", PullInv, NEW m \in Messages, GrowsOld(m)
  PROVE  LifeOK'
<1>1. UNCHANGED <<hash, queue, due, index, slots, sent, fate, flow, todo, inFlight>>
  BY DEF GrowsOld, redis, memory
<1>2. FlowsLegal'
  BY <1>1 DEF PullInv, LifeOK, FlowsLegal
<1>3. \A o \in Messages : Untouched(o)
  BY <1>1 DEF Untouched, Kept, KeptBy
<1> QED
  BY <1>1, <1>2, <1>3, AllUntouched

-----------------------------------------------------------------------------
(* The initial states *)

LEMMA InitPullInv == Pattern = "PULL" /\ Init => PullInv
<1> SUFFICES ASSUME Pattern = "PULL", Init PROVE PullInv
  OBVIOUS
<1>1. TypeInv
  BY InitTypeInv
<1>2. FlowsLegal
  BY IdleLegal DEF Init, FlowsLegal
<1>3. slots = {} /\ Cardinality({}) = 0
  BY FS_EmptySet DEF Init
<1>4. WithinCap
  BY <1>3, ConstantsAssumption DEF WithinCap
<1>5. ASSUME NEW m \in Messages PROVE MessageOK(m)
  <2>1. /\ ~hash[m].whole /\ queue[m] = {} /\ due[m] = {} /\ index[m] = {} /\ m \notin slots
        /\ sent[m] = 0
    BY DEF Init, NoHash
  <2>2. \A f \in Flows : flow[f].msg # m
    BY ConstantsAssumption DEF Init, Idle
  <2>3. \A r \in Rows : m \notin todo[r]
    BY DEF Init
  <2>4. Unborn(m) /\ Stored(m) /\ Listed(m)
    BY <2>1, <2>2, <2>3, ConstantsAssumption DEF Unborn, Stored, Listed
  <2> QED
    BY <2>2, <2>4 DEF MessageOK, Holds
<1>6. Swept
  BY DEF Init, Swept
<1> QED
  BY <1>1, <1>2, <1>4, <1>5, <1>6 DEF PullInv, LifeOK

-----------------------------------------------------------------------------
(* What a pass sweeps *)

\* No step but an enqueue makes a hash whole, and none forgets that an id was born.
NoneReborn ==
    \A m \in Messages : fate[m] # "new" => fate'[m] # "new" /\ (hash'[m].whole => hash[m].whole)

\* A step keeps what passes sweep, if it leaves them at their EXISTS or empties
\* their hands.
LEMMA SweptKept ==
  ASSUME MemoryOK, Swept, NoneReborn,
         \A p \in Passes : \/ todo'[p] = {}
                            \/ /\ todo'[p] = todo[p]
                               /\ flow[p].pc = "exists" => flow'[p].pc = "exists"
  PROVE  Swept'
  BY DEF Swept, NoneReborn, MemoryOK

\* One flow moves that is not at its EXISTS.
LEMMA SweptByOther ==
  ASSUME FlowsOK, MemoryOK, Swept, NoneReborn, NEW f \in Flows, flow[f].pc # "exists",
         \/ \E g : flow' = [flow EXCEPT ![f] = g]
         \/ \E step : Goto(f, step),
         \A p \in Passes : todo'[p] = todo[p]
  PROVE  Swept'
<1>1. \A p \in Passes : flow[p].pc = "exists" => flow'[p].pc = "exists"
  BY DEF FlowsOK, Flows, Goto
<1> QED
  BY <1>1, SweptKept

\* The writes of a hash that is there, or of one without the fields that make it whole.
LEMMA RebornByNone ==
  ASSUME RedisOK, NEW m \in Messages, NEW h, hash' = [hash EXCEPT ![m] = h] \/ UNCHANGED hash,
         h.whole => hash[m].whole, UNCHANGED fate
  PROVE  NoneReborn
  BY DEF NoneReborn, RedisOK

LEMMA MoveReborn ==
  ASSUME RedisOK, NEW m \in Messages, NEW from, NEW to, NEW status, NEW ref,
         Move(m, from, to, status, ref), UNCHANGED fate
  PROVE  NoneReborn
<1>1. Moved(hash[m], status, ref).whole = hash[m].whole
  BY DEF Moved, RedisOK, Hash
<1>2. hash' = [hash EXCEPT ![m] = Moved(hash[m], status, ref)] \/ UNCHANGED hash
  BY DEF Move
<1> QED
  BY <1>1, <1>2, RebornByNone

LEMMA SweptPass ==
  ASSUME PullInv, NEW p \in Passes, PassStep(p)
  PROVE  Swept'
<1> USE DEF PullInv, TypeInv
<1>1. p \in Flows
  BY DEF Flows
<1>2. CASE StartPass(p) \/ Admit(p) \/ PickNothing(p)
  <2>1. flow[p].pc # "exists" /\ UNCHANGED <<hash, fate, todo>> /\ \E step : Goto(p, step)
    BY <1>2 DEF StartPass, Admit, PickNothing, redis, world
  <2>2. NoneReborn
    BY <2>1 DEF NoneReborn
  <2> QED
    BY <1>1, <2>1, <2>2, SweptByOther
<1>3. CASE Sweep(p)
  <2>1. /\ UNCHANGED <<hash, fate>> /\ \E step \in Steps : Goto(p, step)
        /\ \A q \in Passes \ {p} : todo'[q] = todo[q]
    BY <1>3, SweepOK DEF Steps, PassSteps, world
  <2>2. \A q \in Passes \ {p} : flow'[q] = flow[q]
    BY <1>1, <2>1 DEF Goto, FlowsOK, Flows
  <2>3. \A q \in Passes \ {p} : \A m \in todo'[q] :
            fate'[m] # "new" /\ (flow'[q].pc = "exists" \/ ~hash'[m].whole)
    BY <2>1, <2>2 DEF Swept
  <2>4. CASE SweepMembers(p)
    <3>1. todo'[p] = slots /\ (slots # {} => flow'[p].pc = "exists")
      BY <1>1, <2>4 DEF SweepMembers, Goto, MemoryOK, FlowsOK, FlowRecord
    <3>2. \A m \in slots : fate[m] # "new"
      BY DEF LifeOK, MessageOK, Unborn, RedisOK
    <3> QED
      BY <2>1, <2>3, <3>1, <3>2 DEF Swept
  <2>5. CASE SweepExists(p)
    <3>1. todo'[p] = {m \in todo[p] : ~hash[m].exists} /\ todo[p] \subseteq Messages
      BY <2>5 DEF SweepExists, MemoryOK
    <3>2. \A m \in Messages : hash[m].whole => hash[m].exists
      BY DEF LifeOK, MessageOK, Stored
    <3>3. \A m \in todo'[p] : fate[m] # "new" /\ ~hash[m].whole
      BY <3>1, <3>2 DEF Swept
    <3> QED
      BY <2>1, <2>3, <3>3 DEF Swept
  <2>6. CASE SweepRemove(p)
    <3>1. todo'[p] = {}
      BY <2>6 DEF SweepRemove, MemoryOK
    <3> QED
      BY <2>1, <2>3, <3>1 DEF Swept
  <2> QED
    BY <1>3, <2>4, <2>5, <2>6 DEF Sweep
<1>4. ASSUME NEW m \in Messages, Pick(p, m) PROVE Swept'
  <2>1. /\ flow[p].pc # "exists" /\ UNCHANGED <<fate, todo>>
        /\ (\E g : flow' = [flow EXCEPT ![p] = g]) \/ (\E step : Goto(p, step))
    BY <1>4 DEF Pick, world
  <2>2. Picked(hash[m]).whole = hash[m].whole
    BY DEF Picked, RedisOK, Hash
  <2>3. hash' = [hash EXCEPT ![m] = Picked(hash[m])] \/ UNCHANGED hash
    BY <1>4 DEF Pick
  <2>4. NoneReborn
    BY <2>1, <2>2, <2>3, RebornByNone
  <2> QED
    BY <1>1, <2>1, <2>4, SweptByOther
<1>5. CASE EmitSent(p) \/ VendorAccepts(p) \/ SendFailed(p)
  <2>1. /\ flow[p].pc # "exists" /\ UNCHANGED <<hash, fate, todo>>
        /\ \A q \in Flows \ {p} : flow'[q] = flow[q]
    BY <1>1, <1>5 DEF EmitSent, VendorAccepts, SendFailed, Goto, FlowsOK, redis, world
  <2>2. NoneReborn
    BY <2>1 DEF NoneReborn
  <2> QED
    BY <2>1, <2>2, SweptKept DEF Flows
<1>6. CASE SendOk(p)
  <2>1. /\ flow[p].pc # "exists" /\ UNCHANGED <<fate, todo>> /\ \E g : flow' = [flow EXCEPT ![p] = g]
        /\ flow[p].msg \in Messages
    BY <1>1, <1>6 DEF SendOk, Finish, world, FlowsOK, FlowOK, Unattached
  <2>2. NoneReborn
    BY <1>6, <2>1, MoveReborn DEF SendOk, advance
  <2> QED
    BY <1>1, <2>1, <2>2, SweptByOther
<1> QED
  BY <1>2, <1>3, <1>4, <1>5, <1>6 DEF PassStep

LEMMA SweptRow ==
  ASSUME PullInv, NEW r \in Rows, RowStep(r)
  PROVE  Swept'
<1> USE DEF PullInv, TypeInv
<1>1. r \in Flows /\ r \notin Passes
  BY FlowsAssumption DEF Flows
<1>2. flow[r].pc # "exists" /\ UNCHANGED fate
  BY DEF RowStep, StartDrain, DrainNext, StillQueued, NoLongerQueued, PollAnswered, Requeue,
         ListReady, Scrub, Reschedule, world
<1>3. \A p \in Passes : todo'[p] = todo[p]
  BY <1>1 DEF RowStep, StartDrain, DrainNext, StillQueued, NoLongerQueued, PollAnswered, Requeue,
              ListReady, Scrub, Reschedule, MemoryOK
<1>4. \A p \in Passes : flow'[p] = flow[p]
  BY <1>1 DEF RowStep, StartDrain, DrainNext, StillQueued, NoLongerQueued, PollAnswered, Requeue,
              ListReady, Scrub, Reschedule, Goto, Finish, FlowsOK, Flows
<1>5. NoneReborn
  <2>1. CASE Requeue(r)
    <3>1. flow[r].msg \in Messages
      BY <1>1, <2>1 DEF Requeue, FlowsOK, FlowOK, Unattached
    <3> QED
      BY <1>2, <2>1, <3>1, MoveReborn DEF Requeue
  <2>2. CASE UNCHANGED hash
    BY <1>2, <2>2 DEF NoneReborn
  <2> QED
    BY <2>1, <2>2 DEF RowStep, StartDrain, DrainNext, StillQueued, NoLongerQueued, PollAnswered,
                      ListReady, Scrub, Reschedule, redis
<1> QED
  BY <1>3, <1>4, <1>5, SweptKept

LEMMA SweptFlow ==
  ASSUME PullInv, NEW f \in Flows,
         SharedStep(f) \/ EventStep(f) \/ (f \in Cancels /\ Claim(f))
  PROVE  Swept'
<1> USE DEF PullInv, TypeInv
<1>1. flow[f].pc # "exists" /\ UNCHANGED todo
  BY DEF SharedStep, FailRead, Notify, Purge, Zscore, Hmget, RetryExec,
         EventStep, Lookup, ToDevice, NackRead, OkRead, Claim
<1>2. flow[f].msg \in Messages
  BY DEF SharedStep, FailRead, Notify, Purge, Zscore, Hmget, RetryExec,
         EventStep, Lookup, ToDevice, NackRead, OkRead, Claim, FlowsOK, FlowOK, Unattached
<1>3. \A g \in Flows \ {f} : flow'[g] = flow[g]
  BY DEF SharedStep, FailRead, Notify, Purge, Zscore, Hmget, RetryExec,
         EventStep, Lookup, ToDevice, NackRead, OkRead, Claim, Finish, Goto, FlowsOK
<1>4. NoneReborn
  <2>1. CASE Purge(f)
    <3>1. hash' = [hash EXCEPT ![flow[f].msg] = NoHash] /\ ~NoHash.whole /\ UNCHANGED fate
      BY <2>1 DEF Purge, NoHash, world
    <3> QED
      BY <1>2, <3>1, RebornByNone
  <2>2. CASE RetryExec(f)
    <3>1. Retried(hash[flow[f].msg], flow[f]).whole = hash[flow[f].msg].whole
      BY <1>2 DEF Retried, RedisOK, Hash
    <3> QED
      BY <1>2, <2>2, <3>1, RebornByNone DEF RetryExec, world
  <2>3. CASE ToDevice(f)
    BY <1>2, <2>3, MoveReborn DEF ToDevice, advance, world
  <2>4. CASE f \in Cancels /\ Claim(f)
    <3>1. UNCHANGED hash
      BY <2>4 DEF Claim
    <3>2. fate' = fate \/ \E v \in {fate[flow[f].msg], "cancelled"} :
                              fate' = [fate EXCEPT ![flow[f].msg] = v]
      BY <1>2, <2>4 DEF Claim
    <3> QED
      BY <1>2, <3>1, <3>2 DEF NoneReborn, WorldOK
  <2>5. CASE UNCHANGED <<hash, fate>>
    BY <2>5 DEF NoneReborn
  <2> QED
    BY <2>1, <2>2, <2>3, <2>4, <2>5 DEF SharedStep, FailRead, Notify, Zscore, Hmget,
                                        EventStep, Lookup, NackRead, OkRead, redis, world
<1> QED
  BY <1>1, <1>3, <1>4, SweptKept DEF Flows

LEMMA SweptEnvironment ==
  ASSUME PullInv, Environment
  PROVE  Swept'
<1> USE DEF PullInv, TypeInv
<1>1. ASSUME NEW m \in Messages, Enqueue(m) PROVE Swept'
  <2>1. UNCHANGED <<flow, todo>> /\ fate[m] = "new"
    BY <1>1 DEF Enqueue, memory
  <2>2. NoneReborn
    BY <1>1 DEF Enqueue, NoneReborn, RedisOK, WorldOK
  <2> QED
    BY <2>1, <2>2, SweptKept
<1>2. ASSUME NEW m \in Messages, GrowsOld(m) \/ \E s \in STAGES : BecomesDue(m, s)
      PROVE  Swept'
  BY <1>2 DEF GrowsOld, BecomesDue, redis, memory, world, Swept
<1>3. ASSUME NEW m \in Messages, Expire(m) PROVE Swept'
  <2>1. UNCHANGED <<flow, todo>>
    BY <1>3 DEF Expire, memory
  <2>2. NoneReborn
    BY <1>3 DEF Expire, NoneReborn, RedisOK, WorldOK, NoHash
  <2> QED
    BY <2>1, <2>2, SweptKept
<1>4. ASSUME NEW m \in Messages, NEW c \in Cancels, StartCancel(c, m) PROVE Swept'
  <2>1. UNCHANGED <<hash, fate, todo>> /\ \A p \in Passes : flow'[p] = flow[p]
    BY <1>4, FlowsAssumption DEF StartCancel, redis, world, FlowsOK, Flows
  <2> QED
    BY <2>1 DEF Swept
<1>5. ASSUME NEW m \in Messages, NEW h \in Handlers, NEW ref, NEW status, Ingress(h, m, ref, status)
      PROVE  Swept'
  <2>1. UNCHANGED <<hash, fate, todo>> /\ \A p \in Passes : flow'[p] = flow[p]
    BY <1>5, FlowsAssumption DEF Ingress, redis, world, FlowsOK, Flows
  <2> QED
    BY <2>1 DEF Swept
<1>6. CASE Crash
  BY <1>6 DEF Crash, Swept
<1> QED
  BY <1>1, <1>2, <1>3, <1>4, <1>5, <1>6 DEF Environment

LEMMA NextSwept == PullInv /\ [Next]_vars => Swept'
<1> SUFFICES ASSUME PullInv, [Next]_vars PROVE Swept'
  OBVIOUS
<1>1. ASSUME NEW p \in Passes, PassStep(p) PROVE Swept'
  BY <1>1, SweptPass
<1>2. ASSUME NEW r \in Rows, RowStep(r) PROVE Swept'
  BY <1>2, SweptRow
<1>3. ASSUME NEW f \in Flows, SharedStep(f) \/ EventStep(f) PROVE Swept'
  BY <1>3, SweptFlow
<1>4. ASSUME NEW c \in Cancels, Claim(c) PROVE Swept'
  BY <1>4, SweptFlow DEF Flows
<1>5. CASE Environment
  BY <1>5, SweptEnvironment
<1>6. CASE UNCHANGED vars
  BY <1>6 DEF PullInv, vars, Swept
<1> QED
  BY <1>1, <1>2, <1>3, <1>4, <1>5, <1>6 DEF Next, Engine

-----------------------------------------------------------------------------
(* The invariant, and what it says *)

LEMMA NextPullInv == Pattern = "PULL" /\ PullInv /\ [Next]_vars => PullInv'
<1> SUFFICES ASSUME Pattern = "PULL", PullInv, [Next]_vars PROVE PullInv'
  OBVIOUS
<1>1. TypeInv' /\ Swept'
  BY NextTypeInv, NextSwept DEF PullInv
<1> SUFFICES LifeOK'
  BY <1>1 DEF PullInv
<1>2. ASSUME NEW p \in Passes, PassStep(p) PROVE LifeOK'
  <2>1. CASE StartPass(p) \/ Admit(p) \/ Sweep(p) \/ PickNothing(p)
    BY <2>1, AdmissionPull
  <2>2. CASE \E m \in Messages : Pick(p, m)
    BY <2>2, PickPull
  <2>3. CASE EmitSent(p) \/ VendorAccepts(p) \/ SendOk(p) \/ SendFailed(p)
    <3>1. flow[p].pc \notin Unattached /\ p \in Flows
      BY <2>3, Kinds DEF EmitSent, VendorAccepts, SendOk, SendFailed, Unattached
    <3>2. PICK m \in Messages : flow[p].msg = m
      BY <3>1, InHand
    <3> QED
      BY <2>3, <3>2, EmitSentPull, VendorAcceptsPull, SendOkPull, SendFailedPull
  <2> QED
    BY <1>2, <2>1, <2>2, <2>3 DEF PassStep
<1>3. ASSUME NEW r \in Rows, RowStep(r) PROVE LifeOK'
  <2>1. CASE StartDrain(r) \/ \E m \in Messages : DrainNext(r, m)
    BY <2>1, StartDrainPull, DrainNextPull
  <2>2. CASE \/ StillQueued(r) \/ NoLongerQueued(r) \/ PollAnswered(r)
             \/ Requeue(r) \/ ListReady(r) \/ Scrub(r) \/ Reschedule(r)
    <3>1. flow[r].pc \notin Unattached /\ r \in Flows
      BY <2>2, Kinds
      DEF StillQueued, NoLongerQueued, PollAnswered, Requeue, ListReady, Scrub, Reschedule, Unattached
    <3>2. PICK m \in Messages : flow[r].msg = m
      BY <3>1, InHand
    <3> QED
      BY <2>2, <3>2, VendorAnswerPull, RequeuePull, RowEndPull
  <2> QED
    BY <1>3, <2>1, <2>2 DEF RowStep
<1>4. ASSUME NEW f \in Flows, SharedStep(f) \/ EventStep(f) PROVE LifeOK'
  <2>1. flow[f].pc \notin Unattached
    BY <1>4 DEF SharedStep, FailRead, Notify, Purge, Zscore, Hmget, RetryExec,
                EventStep, Lookup, ToDevice, NackRead, OkRead, Unattached
  <2>2. PICK m \in Messages : flow[f].msg = m
    BY <2>1, InHand
  <2> QED
    BY <1>4, <2>2, FailReadPull, NotifyPull, PurgePull, ZscorePull, HmgetPull, RetryExecPull,
       EventPull DEF SharedStep
<1>5. ASSUME NEW c \in Cancels, Claim(c) PROVE LifeOK'
  <2>1. flow[c].pc \notin Unattached /\ c \in Flows
    BY <1>5, Kinds DEF Claim, Unattached
  <2>2. PICK m \in Messages : flow[c].msg = m
    BY <2>1, InHand
  <2> QED
    BY <1>5, <2>2, ClaimPull
<1>6. CASE Environment
  <2>1. CASE Crash
    BY <2>1, CrashPull
  <2>2. CASE \E m \in Messages : \/ Enqueue(m) \/ GrowsOld(m) \/ Expire(m)
                                 \/ \E s \in STAGES : BecomesDue(m, s)
                                 \/ \E c \in Cancels : StartCancel(c, m)
    BY <2>2, EnqueuePull, GrowsOldPull, ExpirePull, BecomesDuePull, StartCancelPull
  <2>3. ASSUME NEW h, NEW m, NEW ref, NEW status PROVE ~Ingress(h, m, ref, status)
    BY DEF Ingress
  <2> QED
    BY <1>6, <2>1, <2>2, <2>3 DEF Environment
<1>7. CASE UNCHANGED vars
  BY <1>7 DEF vars, PullInv, LifeOK, FlowsLegal, WithinCap, MessageOK, Unborn, Stored, Listed,
              RowHas, RetryHolds, Holds, PassHas, RowHolds, Retrying
<1> QED
  BY <1>2, <1>3, <1>4, <1>5, <1>6, <1>7 DEF Next, Engine

LEMMA PullInvariant == ASSUME Pattern = "PULL" PROVE Spec => []PullInv
<1>1. Init => PullInv
  BY InitPullInv
<1>2. PullInv /\ [Next]_vars => PullInv'
  BY NextPullInv
<1> QED
  BY <1>1, <1>2, PTL DEF Spec

\* ADR-008 par. 12 for a polled plugin: as long as the hash is there and no cancel
\* took it, the message is in the one queue its status names.
THEOREM PullStageIsDerivable == ASSUME Pattern = "PULL" PROVE Spec => []StageIsDerivable
<1>1. PullInv => StageIsDerivable
  BY DEF PullInv, LifeOK, MessageOK, Stored, StageIsDerivable
<1> QED
  BY <1>1, PullInvariant, PTL

\* However often deadlines, polls, failed sends and restarts come, the vendor takes
\* the command at most maxRetries + 1 times, once for each attempt counted.
THEOREM PullRetryBudget == ASSUME Pattern = "PULL" PROVE Spec => []RetryBudget
<1>1. PullInv => RetryBudget
  BY DEF PullInv, LifeOK, MessageOK, Stored, RetryBudget
<1> QED
  BY <1>1, PullInvariant, PTL

\* No reference of an earlier attempt resolves to a live message: enterRetry's HDEL
\* and the index go together.
THEOREM PullReferencesCurrent == ASSUME Pattern = "PULL" PROVE Spec => []ReferencesCurrent
<1>1. PullInv => ReferencesCurrent
  BY DEF PullInv, LifeOK, MessageOK, Stored, ReferencesCurrent
<1> QED
  BY <1>1, PullInvariant, PTL

\* A live message that holds a slot is in the network: every way out of it gives
\* the slot back.
THEOREM PullSlotsReturned == ASSUME Pattern = "PULL" PROVE Spec => []SlotsReturned
<1>1. PullInv => SlotsReturned
  BY DEF PullInv, LifeOK, TypeInv, RedisOK, MessageOK, Stored, SlotsReturned
<1> QED
  BY <1>1, PullInvariant, PTL

\* The cap bounds the messages really in the network: each of them holds a slot,
\* and the pick that takes the last one is refused to all others.
THEOREM PullCapRespected == ASSUME Pattern = "PULL" PROVE Spec => []CapRespected
<1>1. PullInv => CapRespected
  <2> SUFFICES ASSUME PullInv, MaxInFlight > 0
               PROVE  Cardinality({m \in Messages : hash[m].whole /\ hash[m].status \in InNetwork})
                         <= MaxInFlight
    BY DEF CapRespected
  <2> DEFINE live == {m \in Messages : hash[m].whole /\ hash[m].status \in InNetwork}
  <2>1. IsFiniteSet(slots)
    BY ConstantsAssumption, FS_Subset DEF PullInv, TypeInv, RedisOK
  <2>2. live \in SUBSET slots
    BY DEF PullInv, LifeOK, MessageOK, Stored
  <2> HIDE DEF live
  <2>3. IsFiniteSet(live) /\ Cardinality(live) <= Cardinality(slots)
    BY <2>1, <2>2, FS_Subset
  <2>4. Cardinality(live) \in Nat /\ Cardinality(slots) \in Nat
    BY <2>1, <2>3, FS_CardinalityType
  <2>5. Cardinality(slots) <= MaxInFlight
    BY DEF PullInv, LifeOK, WithinCap
  <2>6. Cardinality(live) <= MaxInFlight
    BY <2>3, <2>4, <2>5, ConstantsAssumption
  <2> QED
    BY <2>6 DEF live
<1> QED
  BY <1>1, PullInvariant, PTL

\* ADR-008 par. 8: while a send is under way its message stays in ns and no second
\* send of it starts, whatever deadlines expire meanwhile.
THEOREM PullHeldSendKeepsStage == ASSUME Pattern = "PULL" PROVE Spec => []HeldSendKeepsStage
<1>1. Pattern = "PULL" /\ PullInv => HeldSendKeepsStage
  <2> SUFFICES ASSUME Pattern = "PULL", PullInv, NEW p \in Passes,
                      flow[p].pc \in {"calling", "accepted"}
               PROVE  /\ hash[flow[p].msg].whole =>
                            queue[flow[p].msg] = {"ns"} /\ hash[flow[p].msg].status = "SENT_TO_NS"
                      /\ \A q \in Passes \ {p} : flow[q].msg # flow[p].msg
    BY DEF HeldSendKeepsStage
  <2>1. p \in Flows /\ flow[p].pc \notin Unattached
    BY Kinds DEF Unattached
  <2>2. /\ flow[p].msg \in Messages /\ MessageOK(flow[p].msg)
        /\ PassHas(p, flow[p].msg)
    BY <2>1, InHand DEF Holds
  <2>3. hash[flow[p].msg].whole => hash[flow[p].msg].status = "SENT_TO_NS"
    BY <2>2 DEF PassHas
  <2> QED
    BY <2>2, <2>3, StatusQueue DEF PassHas, PullInv
<1>2. PullInv => HeldSendKeepsStage
  BY <1>1
<1> QED
  BY <1>2, PullInvariant, PTL

-----------------------------------------------------------------------------
(* The work list, for both patterns, as long as the process does not die *)

\* A flow that is not about to list leaves those that are.
LEMMA OtherFlow ==
  ASSUME FlowsOK, NEW f \in Flows, flow[f].pc # "listReady", NEW g,
         flow' = [flow EXCEPT ![f] = g]
  PROVE  \A r \in Rows : flow[r].pc = "listReady" => flow'[r].pc = "listReady"
  BY DEF FlowsOK, Flows

LEMMA OtherGoto ==
  ASSUME FlowsOK, NEW f \in Flows, flow[f].pc # "listReady", NEW step, Goto(f, step)
  PROVE  \A r \in Rows : flow[r].pc = "listReady" => flow'[r].pc = "listReady"
  BY DEF FlowsOK, Flows, Goto

\* Only a move to ready puts an id there.
LEMMA MoveAway ==
  ASSUME RedisOK, NEW m \in Messages, NEW from, NEW to, to # "ready", NEW status, NEW ref,
         Move(m, from, to, status, ref)
  PROVE  \A o \in Messages : "ready" \in queue'[o] => "ready" \in queue[o]
  BY DEF Move, Transfer, Leave, RedisOK

LEMMA PassListing ==
  ASSUME TypeInv, ReadyIsListed, NEW p \in Passes, PassStep(p)
  PROVE  ReadyIsListed'
<1> USE DEF TypeInv
<1>1. p \in Flows
  BY DEF Flows
<1>2. CASE StartPass(p) \/ Admit(p) \/ Sweep(p)
  <2>1. /\ flow[p].pc # "listReady" /\ UNCHANGED <<queue, worklist>>
        /\ \E step \in Steps : Goto(p, step)
    BY <1>2, AdmissionSteps, SweepOK DEF StartPass, Admit, Unattached, redis
  <2> QED
    BY <1>1, <2>1, OtherGoto DEF ReadyIsListed
<1>3. CASE PickNothing(p)
  <2>1. \A r \in Rows : flow[r].pc = "listReady" => flow'[r].pc = "listReady"
    BY <1>1, <1>3, OtherGoto DEF PickNothing
  <2> QED
    BY <1>3, <2>1 DEF PickNothing, ReadyIsListed
<1>4. ASSUME NEW m \in Messages, Pick(p, m) PROVE ReadyIsListed'
  <2>1. \A r \in Rows : flow[r].pc = "listReady" => flow'[r].pc = "listReady"
    <3>1. flow[p].pc # "listReady"
      BY <1>4 DEF Pick
    <3> QED
      BY <1>1, <1>4, <3>1, OtherFlow, OtherGoto DEF Pick
  <2>2. "ready" \notin queue'[m] /\ \A o \in Messages \ {m} : queue'[o] = queue[o]
    BY <1>4 DEF Pick, Transfer, Leave, RedisOK
  <2>3. worklist' = (worklist /\ LeavesOthersReady(m))
    BY <1>4 DEF Pick
  <2> QED
    BY <2>1, <2>2, <2>3 DEF ReadyIsListed, LeavesOthersReady
<1>5. CASE EmitSent(p) \/ VendorAccepts(p) \/ SendFailed(p)
  <2>1. flow[p].pc # "listReady" /\ UNCHANGED <<queue, worklist>>
    BY <1>5 DEF EmitSent, VendorAccepts, SendFailed, redis
  <2>2. \A r \in Rows \ {p} : flow'[r] = flow[r]
    BY <1>5 DEF EmitSent, VendorAccepts, SendFailed, Goto, FlowsOK, Flows
  <2> QED
    BY <2>1, <2>2 DEF ReadyIsListed
<1>6. CASE SendOk(p)
  <2>1. flow[p].pc # "listReady" /\ worklist' = worklist /\ flow[p].msg \in Messages
    BY <1>1, <1>6 DEF SendOk, FlowsOK, FlowOK, Unattached
  <2>2. \A o \in Messages : "ready" \in queue'[o] => "ready" \in queue[o]
    BY <1>6, <2>1, MoveAway, NextStageOK DEF SendOk, advance, STAGES
  <2>3. \A r \in Rows : flow[r].pc = "listReady" => flow'[r].pc = "listReady"
    BY <1>1, <1>6, <2>1, OtherFlow DEF SendOk, Finish
  <2> QED
    BY <2>1, <2>2, <2>3 DEF ReadyIsListed
<1> QED
  BY <1>2, <1>3, <1>4, <1>5, <1>6 DEF PassStep

LEMMA RowListing ==
  ASSUME TypeInv, ReadyIsListed, NEW r \in Rows, RowStep(r)
  PROVE  ReadyIsListed'
<1> USE DEF TypeInv
<1>1. r \in Flows
  BY DEF Flows
<1>2. CASE ListReady(r)
  BY <1>2 DEF ListReady, ReadyIsListed
<1>3. CASE Requeue(r)
  <2>1. flow[r].pc # "listReady" /\ worklist' = worklist /\ flow[r].msg \in Messages
    BY <1>1, <1>3 DEF Requeue, FlowsOK, FlowOK, Unattached
  <2>2. CASE Movable(flow[r].msg, "retry")
    <3>1. [Idle EXCEPT !.pc = "listReady", !.msg = flow[r].msg].pc = "listReady"
      BY DEF Idle
    <3>2. flow'[r].pc = "listReady"
      BY <1>1, <1>3, <2>2, <3>1 DEF Requeue, FlowsOK
    <3> QED
      BY <3>2 DEF ReadyIsListed
  <2>3. CASE ~Movable(flow[r].msg, "retry")
    <3>1. \A o \in Messages : "ready" \in queue'[o] => "ready" \in queue[o]
      BY <1>3, <2>1, <2>3 DEF Requeue, Move, Leave, RedisOK
    <3>2. \A s \in Rows : flow[s].pc = "listReady" => flow'[s].pc = "listReady"
      BY <1>1, <1>3, <2>1, OtherFlow DEF Requeue
    <3> QED
      BY <2>1, <3>1, <3>2 DEF ReadyIsListed
  <2> QED
    BY <2>2, <2>3
<1>4. CASE \/ StartDrain(r) \/ StillQueued(r) \/ NoLongerQueued(r) \/ PollAnswered(r)
           \/ \E m \in Messages : DrainNext(r, m)
  <2>1. flow[r].pc # "listReady" /\ UNCHANGED <<queue, worklist>>
    BY <1>4 DEF StartDrain, DrainNext, StillQueued, NoLongerQueued, PollAnswered, redis
  <2>2. \A s \in Rows \ {r} : flow'[s] = flow[s]
    BY <1>4 DEF StartDrain, DrainNext, StillQueued, NoLongerQueued, PollAnswered, Goto, FlowsOK, Flows
  <2> QED
    BY <2>1, <2>2 DEF ReadyIsListed
<1>5. CASE Scrub(r) \/ Reschedule(r)
  <2>1. flow[r].pc # "listReady" /\ worklist' = worklist
    BY <1>5 DEF Scrub, Reschedule
  <2>2. \A o \in Messages : "ready" \in queue'[o] => "ready" \in queue[o]
    BY <1>5 DEF Scrub, Reschedule, Leave, RedisOK
  <2>3. \A s \in Rows : flow[s].pc = "listReady" => flow'[s].pc = "listReady"
    BY <1>1, <1>5, <2>1, OtherFlow DEF Scrub, Reschedule, Finish
  <2> QED
    BY <2>1, <2>2, <2>3 DEF ReadyIsListed
<1> QED
  BY <1>2, <1>3, <1>4, <1>5 DEF RowStep

LEMMA FlowListing ==
  ASSUME TypeInv, ReadyIsListed, NEW f \in Flows,
         SharedStep(f) \/ EventStep(f) \/ (f \in Cancels /\ Claim(f))
  PROVE  ReadyIsListed'
<1> USE DEF TypeInv
<1>1. flow[f].pc # "listReady" /\ worklist' = worklist
  BY DEF SharedStep, FailRead, Notify, Purge, Zscore, Hmget, RetryExec,
         EventStep, Lookup, ToDevice, NackRead, OkRead, Claim, redis
<1>2. flow[f].msg \in Messages /\ FlowOK(flow[f])
  BY DEF SharedStep, FailRead, Notify, Purge, Zscore, Hmget, RetryExec,
         EventStep, Lookup, ToDevice, NackRead, OkRead, Claim, FlowsOK, FlowOK, Unattached
<1>3. \A o \in Messages : "ready" \in queue'[o] => "ready" \in queue[o]
  <2>1. CASE UNCHANGED queue
    BY <2>1
  <2>2. CASE Purge(f) \/ RetryExec(f) \/ Claim(f)
    BY <2>2 DEF Purge, RetryExec, Claim, Transfer, Leave, RedisOK
  <2>3. CASE ToDevice(f)
    <3>1. Pattern = "PUSH"
      BY <1>2, <2>3 DEF ToDevice, FlowOK
    <3> QED
      BY <1>2, <2>3, <3>1, MoveAway, NextStageOK DEF ToDevice, advance, STAGES
  <2> QED
    BY <2>1, <2>2, <2>3 DEF SharedStep, FailRead, Notify, Zscore, Hmget,
                            EventStep, Lookup, NackRead, OkRead, redis
<1>4. \A s \in Rows \ {f} : flow'[s] = flow[s]
  BY DEF SharedStep, FailRead, Notify, Purge, Zscore, Hmget, RetryExec,
         EventStep, Lookup, ToDevice, NackRead, OkRead, Claim, Finish, Goto, FlowsOK, Flows
<1> QED
  BY <1>1, <1>3, <1>4 DEF ReadyIsListed

\* As long as the process does not die between the requeue and its entry, a ready
\* message is in the distributor's work list, or is about to be put there.
THEOREM ReadyListed == Spec /\ [][~Crash]_vars => []ReadyIsListed
<1>1. Init => TypeInv /\ ReadyIsListed
  BY InitTypeInv DEF Init, ReadyIsListed
<1>2. TypeInv /\ ReadyIsListed /\ [Next]_vars /\ [~Crash]_vars
        => TypeInv' /\ ReadyIsListed'
  <2> SUFFICES ASSUME TypeInv, ReadyIsListed, [Next]_vars, [~Crash]_vars
               PROVE  ReadyIsListed'
    BY NextTypeInv
  <2>1. ASSUME NEW p \in Passes, PassStep(p) PROVE ReadyIsListed'
    BY <2>1, PassListing
  <2>2. ASSUME NEW r \in Rows, RowStep(r) PROVE ReadyIsListed'
    BY <2>2, RowListing
  <2>3. ASSUME NEW f \in Flows, SharedStep(f) \/ EventStep(f) PROVE ReadyIsListed'
    BY <2>3, FlowListing
  <2>4. ASSUME NEW c \in Cancels, Claim(c) PROVE ReadyIsListed'
    BY <2>4, FlowListing DEF Flows
  <2>5. CASE Environment
    <3>1. ASSUME NEW m \in Messages, Enqueue(m) PROVE ReadyIsListed'
      BY <3>1 DEF Enqueue, ReadyIsListed
    <3>2. ASSUME NEW m \in Messages, GrowsOld(m) \/ \E s \in STAGES : BecomesDue(m, s)
          PROVE  ReadyIsListed'
      BY <3>2 DEF GrowsOld, BecomesDue, redis, memory, ReadyIsListed
    <3>3. ASSUME NEW m \in Messages, NEW c \in Cancels, StartCancel(c, m) PROVE ReadyIsListed'
      <4>1. flow[c].pc # "listReady" /\ UNCHANGED <<queue, worklist>>
        BY <3>3 DEF StartCancel, redis
      <4>2. \A s \in Rows \ {c} : flow'[s] = flow[s]
        BY <3>3 DEF StartCancel, TypeInv, FlowsOK, Flows
      <4> QED
        BY <4>1, <4>2 DEF ReadyIsListed
    <3>4. ASSUME NEW m \in Messages, NEW h \in Handlers, NEW ref, NEW status,
                 Ingress(h, m, ref, status)
          PROVE  ReadyIsListed'
      <4>1. flow[h].pc # "listReady" /\ UNCHANGED <<queue, worklist>>
        BY <3>4 DEF Ingress, redis
      <4>2. \A s \in Rows \ {h} : flow'[s] = flow[s]
        BY <3>4 DEF Ingress, TypeInv, FlowsOK, Flows
      <4> QED
        BY <4>1, <4>2 DEF ReadyIsListed
    <3>5. ASSUME NEW m \in Messages, Expire(m) PROVE ReadyIsListed'
      BY <3>5 DEF Expire, memory, ReadyIsListed
    <3>6. CASE Crash
      <4>1. UNCHANGED vars
        BY <3>6
      <4> QED
        BY <4>1 DEF vars, memory, redis, ReadyIsListed
    <3> QED
      BY <2>5, <3>1, <3>2, <3>3, <3>4, <3>5, <3>6 DEF Environment
  <2>6. CASE UNCHANGED vars
    BY <2>6 DEF vars, ReadyIsListed
  <2> QED
    BY <2>1, <2>2, <2>3, <2>4, <2>5, <2>6 DEF Next, Engine
<1> QED
  BY <1>1, <1>2, PTL DEF Spec
=============================================================================
