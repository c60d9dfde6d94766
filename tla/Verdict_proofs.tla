--------------------------- MODULE Verdict_proofs ---------------------------
(***************************************************************************)
(* What the adopter is told, and what stays gone, for any number of        *)
(* messages, passes, handlers and cancels, either pattern: the hand-over   *)
(* comes before the verdict while the process lives, there is one verdict, *)
(* and a purged hash does not come back.  The first section says once what *)
(* a step of one flow leaves alone; the later ones only look at the        *)
(* message the flow has in hand.                                           *)
(***************************************************************************)
EXTENDS Pull_proofs

-----------------------------------------------------------------------------
(* One step of one flow *)

FlowStep(f) ==
    \/ f \in Passes /\ PassStep(f)
    \/ f \in Rows /\ RowStep(f)
    \/ SharedStep(f) \/ EventStep(f)
    \/ f \in Cancels /\ Claim(f)

\* Flow f has message m in hand (a pass or a row that only looks for one does not).
InHandOf(f, m) == flow[f].msg = m /\ flow[f].pc \notin Unattached

PassPicks(f, m) == f \in Passes /\ Pick(f, m)

\* Nothing stored or told about o changes, and only a drain that finds it due
\* puts it before a row.
SameAs(o) ==
    /\ hash'[o] = hash[o] /\ queue'[o] = queue[o] /\ due'[o] = due[o] /\ index'[o] = index[o]
    /\ sent'[o] = sent[o] /\ told'[o] = told[o] /\ fate'[o] = fate[o]
    /\ \A r \in Rows : o \in todo'[r] => o \in todo[r] \/ r \in due[o]

LEMMA PassElsewhere ==
  ASSUME TypeInv, NEW p \in Passes, PassStep(p), NEW o \in Messages,
         ~InHandOf(p, o), ~PassPicks(p, o)
  PROVE  SameAs(o) /\ ~InHandOf(p, o)'
<1> USE DEF TypeInv
<1> p \in Flows
  BY DEF Flows
<1>1. CASE StartPass(p) \/ Admit(p) \/ Sweep(p) \/ PickNothing(p)
  <2>1. PICK step \in Unattached : Goto(p, step)
    BY <1>1, AdmissionSteps
  <2>2. flow'[p].pc \in Unattached
    BY <2>1 DEF Goto, FlowsOK, FlowRecord
  <2>3. \A r \in Rows : todo'[r] = todo[r]
    BY <1>1, AdmissionSteps, FlowsAssumption
  <2> QED
    BY <1>1, <2>2, <2>3, AdmissionSteps DEF world, SameAs, InHandOf
<1>2. ASSUME NEW m \in Messages, Pick(p, m)
      PROVE  SameAs(o) /\ ~InHandOf(p, o)'
  <2>1. o # m
    BY <1>2 DEF PassPicks
  <2>2. SameAs(o)
    BY <1>2, <2>1 DEF Pick, Transfer, Leave, RedisOK, world, SameAs
  <2>3. flow'[p].msg = m \/ flow'[p].pc = "idle"
    <3>1. CASE hash[m].whole
      <4>1. PICK step \in {"emitSent", "calling"} :
               flow' = [flow EXCEPT ![p] = [Idle EXCEPT !.pc = step, !.msg = m]]
        BY <1>2, <3>1 DEF Pick
      <4>2. [Idle EXCEPT !.pc = step, !.msg = m].msg = m
        BY DEF Idle
      <4> QED
        BY <4>1, <4>2 DEF FlowsOK
    <3>2. CASE ~hash[m].whole
      <4>1. Goto(p, "idle")
        BY <1>2, <3>2 DEF Pick
      <4> QED
        BY <4>1 DEF Goto, FlowsOK, FlowRecord
    <3> QED
      BY <3>1, <3>2
  <2> QED
    BY <2>1, <2>2, <2>3 DEF InHandOf, Unattached
<1>3. CASE EmitSent(p) \/ VendorAccepts(p) \/ SendFailed(p)
  <2>1. flow[p].msg \in Messages /\ flow[p].msg # o
    BY <1>3 DEF EmitSent, VendorAccepts, SendFailed, FlowsOK, FlowOK, Unattached, InHandOf
  <2>2. flow'[p].msg = flow[p].msg
    <3>1. CASE EmitSent(p) \/ VendorAccepts(p)
      BY <3>1 DEF EmitSent, VendorAccepts, Goto, FlowsOK, FlowRecord
    <3>2. CASE SendFailed(p)
      <4>1. \A skip : [Idle EXCEPT !.pc = "failRead", !.msg = flow[p].msg,
                                   !.from = "ns", !.skipRetry = skip].msg = flow[p].msg
        BY DEF Idle
      <4> QED
        BY <3>2, <4>1 DEF SendFailed, FlowsOK
    <3> QED
      BY <1>3, <3>1, <3>2
  <2>3. SameAs(o)
    BY <1>3, <2>1 DEF EmitSent, VendorAccepts, SendFailed, WorldOK, redis, world, SameAs
  <2> QED
    BY <2>1, <2>2, <2>3 DEF InHandOf
<1>4. CASE SendOk(p)
  <2>1. flow[p].msg \in Messages /\ flow[p].msg # o
    BY <1>4 DEF SendOk, FlowsOK, FlowOK, Unattached, InHandOf
  <2>2. flow'[p] = Ended(p, "sent")
    BY <1>4 DEF SendOk, Finish, FlowsOK
  <2>3. Ended(p, "sent").pc \in Unattached
    BY DEF Ended, AfterMember, Idle, Unattached
  <2>4. SameAs(o)
    BY <1>4, <2>1 DEF SendOk, advance, Move, Transfer, Leave, RedisOK, world, SameAs
  <2> QED
    BY <2>2, <2>3, <2>4 DEF InHandOf
<1> QED
  BY <1>1, <1>2, <1>3, <1>4 DEF PassStep

LEMMA RowElsewhere ==
  ASSUME TypeInv, NEW r \in Rows, RowStep(r), NEW o \in Messages, ~InHandOf(r, o)
  PROVE  SameAs(o) /\ (InHandOf(r, o)' => o \in todo[r])
<1> USE DEF TypeInv
<1> r \in Flows
  BY DEF Flows
<1>1. CASE StartDrain(r)
  <2>1. flow'[r].pc = "drain"
    BY <1>1 DEF StartDrain, Goto, FlowsOK, FlowRecord
  <2>2. SameAs(o)
    BY <1>1 DEF StartDrain, MemoryOK, redis, world, SameAs
  <2> QED
    BY <2>1, <2>2 DEF InHandOf, Unattached
<1>2. ASSUME NEW m \in Messages, DrainNext(r, m)
      PROVE  SameAs(o) /\ (InHandOf(r, o)' => o \in todo[r])
  <2>1. m \in todo[r]
    BY <1>2 DEF DrainNext, FlowsOK
  <2>2. SameAs(o)
    BY <1>2 DEF DrainNext, MemoryOK, redis, world, SameAs
  <2>3. flow'[r].msg = m \/ flow'[r].pc = "idle"
    <3>1. Act(r, m).msg = m
      BY DEF Act, Idle, Rows, PluginStages
    <3>2. [Idle EXCEPT !.pc = "orphaned", !.msg = m].msg = m /\ Idle.pc = "idle"
      BY DEF Idle
    <3> QED
      BY <1>2, <3>1, <3>2 DEF DrainNext, FlowsOK
  <2> QED
    BY <2>1, <2>2, <2>3 DEF InHandOf, Unattached
<1>3. CASE StillQueued(r) \/ NoLongerQueued(r) \/ PollAnswered(r)
  <2>1. flow[r].msg \in Messages /\ flow[r].msg # o
    BY <1>3 DEF StillQueued, NoLongerQueued, PollAnswered, FlowsOK, FlowOK, Unattached, InHandOf
  <2>2. flow'[r].msg = flow[r].msg
    BY <1>3 DEF StillQueued, NoLongerQueued, PollAnswered, Goto, FlowsOK, FlowRecord, Idle
  <2>3. SameAs(o)
    BY <1>3 DEF StillQueued, NoLongerQueued, PollAnswered, redis, world, SameAs
  <2> QED
    BY <2>1, <2>2, <2>3 DEF InHandOf
<1>4. CASE Requeue(r)
  <2>1. flow[r].msg \in Messages /\ flow[r].msg # o
    BY <1>4 DEF Requeue, FlowsOK, FlowOK, Unattached, InHandOf
  <2>2. flow'[r].msg = flow[r].msg
    BY <1>4 DEF Requeue, FlowsOK, Ended, Idle
  <2>3. SameAs(o)
    BY <1>4, <2>1 DEF Requeue, Move, Transfer, Leave, RedisOK, world, SameAs
  <2> QED
    BY <2>1, <2>2, <2>3 DEF InHandOf
<1>5. CASE ListReady(r) \/ Scrub(r) \/ Reschedule(r)
  <2>1. flow[r].msg \in Messages /\ flow[r].msg # o
    BY <1>5 DEF ListReady, Scrub, Reschedule, FlowsOK, FlowOK, Unattached, InHandOf
  <2>2. flow'[r] = Ended(r, "movedOn")
    BY <1>5 DEF ListReady, Scrub, Reschedule, Finish, FlowsOK
  <2>3. Ended(r, "movedOn").pc \in Unattached
    BY DEF Ended, AfterMember, Idle, Unattached
  <2>4. SameAs(o)
    BY <1>5, <2>1 DEF ListReady, Scrub, Reschedule, Leave, RedisOK, world, SameAs
  <2> QED
    BY <2>2, <2>3, <2>4 DEF InHandOf
<1> QED
  BY <1>1, <1>2, <1>3, <1>4, <1>5 DEF RowStep

LEMMA SharedElsewhere ==
  ASSUME TypeInv, NEW f \in Flows, SharedStep(f) \/ EventStep(f) \/ (f \in Cancels /\ Claim(f)),
         NEW o \in Messages, ~InHandOf(f, o)
  PROVE  SameAs(o) /\ ~InHandOf(f, o)'
<1> USE DEF TypeInv
<1>1. flow[f].msg \in Messages /\ flow[f].msg # o /\ flow[f] \in FlowRecord
  BY DEF SharedStep, FailRead, Notify, Purge, Zscore, Hmget, RetryExec, EventStep, Lookup,
         ToDevice, NackRead, OkRead, Claim, FlowsOK, FlowOK, Unattached, InHandOf
<1>2. SameAs(o)
  <2>1. CASE FailRead(f) \/ Zscore(f) \/ Hmget(f) \/ Lookup(f) \/ NackRead(f) \/ OkRead(f)
    BY <2>1 DEF FailRead, Zscore, Hmget, Lookup, NackRead, OkRead, redis, world, SameAs
  <2>2. CASE Notify(f)
    BY <1>1, <2>2 DEF Notify, redis, WorldOK, SameAs
  <2>3. CASE Purge(f) \/ RetryExec(f)
    BY <1>1, <2>3 DEF Purge, RetryExec, Transfer, Unindex, RedisOK, world, SameAs
  <2>4. CASE ToDevice(f)
    BY <1>1, <2>4 DEF ToDevice, advance, Move, Transfer, Leave, RedisOK, world, SameAs
  <2>5. CASE Claim(f)
    BY <1>1, <2>5 DEF Claim, Leave, RedisOK, WorldOK, SameAs
  <2> QED
    BY <2>1, <2>2, <2>3, <2>4, <2>5 DEF SharedStep, EventStep
<1>3. \A outcome : Ended(f, outcome).pc \in Unattached \/ Ended(f, outcome).msg = flow[f].msg
  BY DEF Ended, AfterMember, Idle, Unattached
<1>4. \/ \E outcome : flow' = [flow EXCEPT ![f] = Ended(f, outcome)]
      \/ flow' = [flow EXCEPT ![f] = Idle]
      \/ \E g \in FlowRecord : g.msg = flow[f].msg /\ flow' = [flow EXCEPT ![f] = g]
  <2>1. CASE FailRead(f)
    <3>1. /\ [Capture(f, "notify") EXCEPT !.event = "DELIVERY_FAILED"] \in FlowRecord
          /\ [Capture(f, "notify") EXCEPT !.event = "DELIVERY_FAILED"].msg = flow[f].msg
          /\ Capture(f, "zscore") \in FlowRecord /\ Capture(f, "zscore").msg = flow[f].msg
      BY <1>1, CaptureOK DEF FlowRecord, Steps, RetrySteps, TerminalStatuses
    <3> QED
      BY <2>1, <3>1 DEF FailRead, FinalStep, Finish
  <2>2. CASE Hmget(f)
    <3>1. hash[flow[f].msg] \in Hash
      BY <1>1 DEF RedisOK
    <3> DEFINE g == [flow[f] EXCEPT !.pc = "retryExec", !.ref = hash[flow[f].msg].ref,
                                    !.slot = hash[flow[f].msg].slot]
    <3>2. g \in FlowRecord /\ g.msg = flow[f].msg
      BY <1>1, <3>1 DEF FlowRecord, Hash, Steps, RetrySteps
    <3>3. flow' = [flow EXCEPT ![f] = g]
      BY <2>2 DEF Hmget, FlowsOK
    <3> QED
      BY <3>2, <3>3
  <2>3. CASE OkRead(f)
    BY <1>1, <2>3, CaptureOK DEF OkRead, Finish, Steps
  <2>4. CASE NackRead(f)
    <3>1. CASE \E outcome \in {"orphaned", "threw"} : Finish(f, outcome)
      BY <3>1 DEF Finish
    <3>2. CASE ~\E outcome \in {"orphaned", "threw"} : Finish(f, outcome)
      <4> DEFINE stage == stageForStatus(hash[flow[f].msg].status)
      <4> DEFINE g == [flow[f] EXCEPT !.pc = "failRead", !.from = stage]
      <4>1. stage \in Queues \cup {"none"}
        BY DEF stageForStatus, Queues, STAGES
      <4>2. g \in FlowRecord /\ g.msg = flow[f].msg
        BY <1>1, <4>1 DEF FlowRecord, Steps, RetrySteps
      <4>3. flow' = [flow EXCEPT ![f] = g]
        BY <2>4, <3>2 DEF NackRead, FlowsOK
      <4> QED
        BY <4>2, <4>3
    <3> QED
      BY <3>1, <3>2
  <2>5. \A step \in Steps : Goto(f, step) =>
           \E g \in FlowRecord : g.msg = flow[f].msg /\ flow' = [flow EXCEPT ![f] = g]
    <3> SUFFICES ASSUME NEW step \in Steps, Goto(f, step)
                 PROVE  \E g \in FlowRecord : g.msg = flow[f].msg /\ flow' = [flow EXCEPT ![f] = g]
      OBVIOUS
    <3> DEFINE g == [flow[f] EXCEPT !.pc = step]
    <3>1. g \in FlowRecord /\ g.msg = flow[f].msg
      BY <1>1 DEF FlowRecord
    <3>2. flow' = [flow EXCEPT ![f] = g]
      BY DEF Goto, FlowsOK
    <3> QED
      BY <3>1, <3>2
  <2>6. \/ \E outcome : Finish(f, outcome)
        \/ \E step \in Steps : Goto(f, step)
        \/ flow' = [flow EXCEPT ![f] = Idle]
        \/ FailRead(f) \/ Hmget(f) \/ OkRead(f) \/ NackRead(f)
    <3>1. CASE Notify(f) \/ Purge(f) \/ Zscore(f) \/ RetryExec(f) \/ ToDevice(f) \/ Claim(f)
      BY <3>1 DEF Notify, Purge, Zscore, RetryExec, ToDevice, Claim, Steps, RetrySteps
    <3>2. CASE Lookup(f)
      <4>1. flow[f].event \in IngressEvents
        BY <3>2 DEF Lookup, FlowsOK, FlowOK
      <4> QED
        BY <3>2, <4>1 DEF Lookup, Steps, EventSteps, IngressEvents, TerminalStatuses
    <3> QED
      BY <3>1, <3>2 DEF SharedStep, EventStep
  <2> QED
    BY <2>1, <2>2, <2>3, <2>4, <2>5, <2>6 DEF Finish
<1>5. flow'[f].pc \in Unattached \/ flow'[f].msg = flow[f].msg
  BY <1>3, <1>4 DEF FlowsOK, Idle, Unattached
<1> QED
  BY <1>1, <1>2, <1>5 DEF InHandOf

\* A flow's step touches the message it has in hand, or the ready one it picks, and
\* no other; it takes up another one only from the snapshot of its row.
LEMMA Elsewhere ==
  ASSUME TypeInv, NEW f \in Flows, FlowStep(f), NEW o \in Messages,
         ~InHandOf(f, o), ~PassPicks(f, o)
  PROVE  SameAs(o) /\ (InHandOf(f, o)' => f \in Rows /\ o \in todo[f])
<1>1. CASE f \in Passes /\ PassStep(f)
  BY <1>1, PassElsewhere
<1>2. CASE f \in Rows /\ RowStep(f)
  BY <1>2, RowElsewhere
<1>3. CASE SharedStep(f) \/ EventStep(f) \/ (f \in Cancels /\ Claim(f))
  BY <1>3, SharedElsewhere
<1> QED
  BY <1>1, <1>2, <1>3 DEF FlowStep

\* A flow's step moves no other flow.
LEMMA OthersStay ==
  ASSUME TypeInv, NEW f \in Flows, FlowStep(f)
  PROVE  \A g \in Flows \ {f} : flow'[g] = flow[g]
<1> SUFFICES \/ \E record : flow' = [flow EXCEPT ![f] = record]
             \/ \E step : Goto(f, step)
             \/ Hmget(f) \/ NackRead(f) \/ VendorAccepts(f)
  BY DEF TypeInv, FlowsOK, Goto, Hmget, NackRead, VendorAccepts, Finish
<1>1. CASE f \in Passes /\ PassStep(f)
  BY <1>1, AdmissionSteps DEF PassStep, TypeInv, Pick, EmitSent, SendOk, SendFailed, Finish
<1>2. CASE f \in Rows /\ RowStep(f)
  BY <1>2 DEF RowStep, StartDrain, DrainNext, StillQueued, NoLongerQueued, PollAnswered, Requeue,
              ListReady, Scrub, Reschedule, Finish
<1>3. CASE SharedStep(f)
  BY <1>3 DEF SharedStep, FailRead, Notify, Purge, Zscore, RetryExec, Finish
<1>4. CASE EventStep(f) \/ Claim(f)
  BY <1>4 DEF EventStep, Lookup, ToDevice, OkRead, Claim, Finish
<1> QED
  BY <1>1, <1>2, <1>3, <1>4 DEF FlowStep

-----------------------------------------------------------------------------
(* The hand-over is told before the verdict *)

\* A message whose hand-over is not told yet: it was never sent and no row has seen
\* it, it is ready or with the pass that is about to tell, and only a cancel may be
\* about it.
NotHandedOver(m) ==
    /\ told[m] = {} /\ sent[m] = 0 /\ due[m] = {}
    /\ queue[m] \subseteq {"ready", "ns"}
    /\ \A r \in Rows : m \notin todo[r]
    /\ (hash[m].exists <=> hash[m].whole) /\ hash[m].retryCount = 0
    /\ "ns" \in queue[m] => \E p \in Passes : InHandOf(p, m)
    /\ \A f \in Flows : InHandOf(f, m) => \/ f \in Passes /\ flow[f].pc = "emitSent"
                                          \/ f \in Cancels /\ flow[f].pc \in {"claim", "purge"}

HandOverInv == \A m \in Messages : "SENT_TO_NS" \notin told[m] => NotHandedOver(m)

LEMMA NoHashFields == ~NoHash.exists /\ ~NoHash.whole /\ NoHash.retryCount = 0
  BY DEF NoHash

\* The kinds of flows do not overlap.
LEMMA PassNoCancel == \A p \in Passes : p \in Flows /\ p \notin Rows /\ p \notin Handlers /\ p \notin Cancels
  BY FlowsAssumption DEF Flows

LEMMA CancelNoPass == \A c \in Cancels : c \in Flows /\ c \notin Passes /\ c \notin Rows /\ c \notin Handlers
  BY FlowsAssumption DEF Flows

LEMMA HandOverElsewhere ==
  ASSUME TypeInv, NEW f \in Flows, FlowStep(f), NEW o \in Messages, NotHandedOver(o),
         ~InHandOf(f, o), ~PassPicks(f, o)
  PROVE  NotHandedOver(o)'
<1>1. SameAs(o) /\ ~InHandOf(f, o)'
  BY Elsewhere DEF NotHandedOver
<1>2. \A g \in Flows : InHandOf(g, o)' <=> InHandOf(g, o)
  BY <1>1, OthersStay DEF InHandOf
<1>3. \A g \in Flows : InHandOf(g, o)' => flow'[g] = flow[g]
  BY <1>1, OthersStay
<1>4. \A r \in Rows : o \notin todo'[r]
  BY <1>1 DEF SameAs, NotHandedOver
<1> QED
  BY <1>1, <1>2, <1>3, <1>4, PassNoCancel DEF NotHandedOver, SameAs

LEMMA HandOverPick ==
  ASSUME TypeInv, NEW p \in Passes, NEW m \in Messages, Pick(p, m), NotHandedOver(m)
  PROVE  NotHandedOver(m)'
<1> USE DEF TypeInv
<1>1. /\ told'[m] = told[m] /\ sent'[m] = sent[m] /\ todo' = todo
      /\ \A g \in Flows \ {p} : flow'[g] = flow[g]
  BY DEF Pick, world, Goto, FlowsOK
<1>2. CASE hash[m].whole
  <2>1. hash[m].exists /\ firstAttempt(m)
    BY <1>2 DEF NotHandedOver, firstAttempt
  <2>2. /\ flow' = [flow EXCEPT ![p] = [Idle EXCEPT !.pc = "emitSent", !.msg = m]]
        /\ Transfer(m, "ready", "ns") /\ hash' = [hash EXCEPT ![m] = Picked(@)]
    BY <1>2, <2>1 DEF Pick
  <2>3. queue'[m] \subseteq {"ready", "ns"} /\ due'[m] = {}
    BY <2>2 DEF NotHandedOver, Transfer, RedisOK
  <2>4. (hash'[m].exists <=> hash'[m].whole) /\ hash'[m].retryCount = 0
    BY <2>2 DEF NotHandedOver, RedisOK, Picked, Hash
  <2>5. flow'[p].pc = "emitSent" /\ flow'[p].msg = m
    BY <2>2, PassNoCancel DEF FlowsOK, Idle
  <2>6. InHandOf(p, m)'
    BY <2>5 DEF InHandOf, Unattached
  <2> QED
    BY <1>1, <2>3, <2>4, <2>5, <2>6 DEF NotHandedOver, InHandOf
<1>3. CASE ~hash[m].whole
  <2>1. Leave(m, "ready") /\ UNCHANGED hash /\ Goto(p, "idle") /\ flow[p].pc = "pick"
    BY <1>3 DEF Pick, NotHandedOver
  <2>2. ~InHandOf(p, m) /\ ~InHandOf(p, m)'
    BY <2>1, PassNoCancel DEF Goto, FlowsOK, FlowRecord, InHandOf, Unattached
  <2>3. \A g \in Flows : InHandOf(g, m)' => InHandOf(g, m) /\ flow'[g] = flow[g]
    BY <1>1, <2>2 DEF InHandOf
  <2>4. \A g \in Flows : InHandOf(g, m) => InHandOf(g, m)'
    BY <1>1, <2>2 DEF InHandOf
  <2>5. queue'[m] \subseteq queue[m] /\ due'[m] = {}
    BY <2>1 DEF Leave, NotHandedOver, RedisOK
  <2> QED
    BY <1>1, <2>1, <2>3, <2>4, <2>5, PassNoCancel DEF NotHandedOver
<1> QED
  BY <1>2, <1>3

LEMMA HandOverInHand ==
  ASSUME TypeInv, NEW f \in Flows, FlowStep(f), NEW m \in Messages, NotHandedOver(m),
         InHandOf(f, m), "SENT_TO_NS" \notin told'[m]
  PROVE  NotHandedOver(m)'
<1> USE DEF TypeInv
<1>1. CASE f \in Passes /\ flow[f].pc = "emitSent"
  <2>1. EmitSent(f)
    BY <1>1, PassNoCancel
    DEF FlowStep, PassStep, StartPass, Admit, Sweep, SweepMembers, SweepExists, SweepRemove,
        PickNothing, Pick, VendorAccepts, SendOk, SendFailed, SharedStep, FailRead, Notify, Purge, Zscore, Hmget, RetryExec,
        EventStep, Lookup, ToDevice, NackRead, OkRead
  <2> QED
    BY <2>1 DEF EmitSent, WorldOK, InHandOf
<1>2. CASE f \in Cancels /\ flow[f].pc \in {"claim", "purge"}
  <2>1. Claim(f) \/ Purge(f)
    BY <1>2, CancelNoPass
    DEF FlowStep, SharedStep, FailRead, Notify, Zscore, Hmget, RetryExec,
        EventStep, Lookup, ToDevice, NackRead, OkRead
  <2>2. \A g \in Flows \ {f} : flow'[g] = flow[g]
    BY OthersStay
  <2>3. told'[m] = told[m] /\ sent'[m] = sent[m] /\ todo' = todo /\ flow[f].msg = m
    BY <2>1 DEF Claim, Purge, world, InHandOf
  <2>4. queue'[m] \subseteq queue[m] /\ due'[m] = {}
    BY <2>1, <2>3 DEF Claim, Purge, Leave, NotHandedOver, RedisOK
  <2>5. (hash'[m].exists <=> hash'[m].whole) /\ hash'[m].retryCount = 0
    BY <2>1, <2>3, NoHashFields DEF Claim, Purge, NotHandedOver, RedisOK
  <2>6. flow'[f].pc \in {"idle", "purge"}
    <3>1. CASE Purge(f)
      <4>1. Ended(f, "removed") = Idle
        BY <1>2, CancelNoPass DEF Ended, AfterMember
      <4> QED
        BY <3>1, <4>1 DEF Purge, Finish, FlowsOK, Idle
    <3>2. CASE Claim(f)
      BY <3>2 DEF Claim, Goto, FlowsOK, FlowRecord, Idle
    <3> QED
      BY <2>1, <3>1, <3>2
  <2>7. \A p \in Passes : InHandOf(p, m) => InHandOf(p, m)'
    BY <1>2, <2>2, PassNoCancel DEF InHandOf
  <2>8. ASSUME NEW g \in Flows, InHandOf(g, m)'
        PROVE  \/ g \in Passes /\ flow'[g].pc = "emitSent"
               \/ g \in Cancels /\ flow'[g].pc \in {"claim", "purge"}
    <3>1. CASE g = f
      BY <1>2, <2>6, <2>8, <3>1 DEF InHandOf, Unattached
    <3>2. CASE g # f
      BY <2>2, <2>8, <3>2 DEF InHandOf, NotHandedOver
    <3> QED
      BY <3>1, <3>2
  <2> QED
    BY <2>3, <2>4, <2>5, <2>7, <2>8 DEF NotHandedOver
<1> QED
  BY <1>1, <1>2 DEF NotHandedOver

LEMMA HandOverEnvironment ==
  ASSUME TypeInv, Environment, ~Crash, NEW m \in Messages, NotHandedOver(m)
  PROVE  NotHandedOver(m)'
<1> USE DEF TypeInv
<1>1. ASSUME NEW o \in Messages, Enqueue(o) PROVE NotHandedOver(m)'
  <2>1. UNCHANGED <<due, flow, todo, sent, told>>
    BY <1>1 DEF Enqueue, memory
  <2>2. o # m => hash'[m] = hash[m] /\ queue'[m] = queue[m]
    BY <1>1 DEF Enqueue, RedisOK
  <2>3. o = m => /\ queue'[m] = {"ready"} /\ hash'[m].exists /\ hash'[m].whole
                 /\ hash'[m].retryCount = 0
    BY <1>1 DEF Enqueue, RedisOK, NoHash
  <2>4. \A g \in Flows : InHandOf(g, m)' <=> InHandOf(g, m)
    BY <2>1 DEF InHandOf
  <2> QED
    BY <2>1, <2>2, <2>3, <2>4, PassNoCancel DEF NotHandedOver
<1>2. ASSUME NEW o \in Messages, GrowsOld(o) PROVE NotHandedOver(m)'
  BY <1>2 DEF GrowsOld, redis, memory, NotHandedOver, InHandOf
<1>3. ASSUME NEW o \in Messages, Expire(o) PROVE NotHandedOver(m)'
  <2>1. UNCHANGED <<queue, due, flow, todo, sent, told>>
    BY <1>3 DEF Expire, memory
  <2>2. hash'[m] = hash[m] \/ hash'[m] = NoHash
    BY <1>3 DEF Expire, RedisOK
  <2>3. (hash'[m].exists <=> hash'[m].whole) /\ hash'[m].retryCount = 0
    BY <2>2, NoHashFields DEF NotHandedOver
  <2>4. \A g \in Flows : InHandOf(g, m)' <=> InHandOf(g, m)
    BY <2>1 DEF InHandOf
  <2> QED
    BY <2>1, <2>3, <2>4, PassNoCancel DEF NotHandedOver
<1>4. ASSUME NEW o \in Messages, NEW s \in STAGES, BecomesDue(o, s) PROVE NotHandedOver(m)'
  <2>1. UNCHANGED <<hash, queue, flow, todo, sent, told>>
    BY <1>4 DEF BecomesDue, memory, world
  <2>2. o # m
    <3> SUFFICES ASSUME o = m PROVE FALSE
      OBVIOUS
    <3>1. s = "ns" /\ ~Busy(m)
      BY <1>4 DEF BecomesDue, NotHandedOver, STAGES
    <3>2. PICK p \in Passes : InHandOf(p, m)
      BY <1>4, <3>1 DEF BecomesDue, NotHandedOver
    <3>3. p \in Flows /\ flow[p].pc = "emitSent"
      BY <3>2, PassNoCancel DEF NotHandedOver
    <3> QED
      BY <3>1, <3>2, <3>3 DEF Busy, Working, InHandOf
  <2>3. due'[m] = due[m]
    BY <1>4, <2>2 DEF BecomesDue, RedisOK
  <2>4. \A g \in Flows : InHandOf(g, m)' <=> InHandOf(g, m)
    BY <2>1 DEF InHandOf
  <2> QED
    BY <2>1, <2>3, <2>4, PassNoCancel DEF NotHandedOver
<1>5. ASSUME NEW o \in Messages, NEW c \in Cancels, StartCancel(c, o) PROVE NotHandedOver(m)'
  <2>1. UNCHANGED <<hash, queue, due, todo, sent, told>>
    BY <1>5 DEF StartCancel, redis, world
  <2>2. /\ \A g \in Flows \ {c} : flow'[g] = flow[g]
        /\ flow[c].pc = "idle" /\ flow'[c].pc = "claim"
    BY <1>5, CancelNoPass DEF StartCancel, FlowsOK, Idle
  <2>3. \A p \in Passes : InHandOf(p, m)' <=> InHandOf(p, m)
    BY <2>2, PassNoCancel DEF InHandOf
  <2>4. \A g \in Flows \ {c} : InHandOf(g, m)' => InHandOf(g, m) /\ flow'[g] = flow[g]
    BY <2>2 DEF InHandOf
  <2> QED
    BY <2>1, <2>2, <2>3, <2>4 DEF NotHandedOver
<1>6. ASSUME NEW o \in Messages, NEW h \in Handlers, NEW ref \in Attempts,
             NEW status \in IngressEvents, Ingress(h, o, ref, status)
      PROVE  NotHandedOver(m)'
  <2>1. UNCHANGED <<hash, queue, due, todo, sent, told>>
    BY <1>6 DEF Ingress, redis, world
  <2>2. ref \in 1..sent[o]
    BY <1>6 DEF Ingress
  <2>3. o # m
    BY <2>2 DEF NotHandedOver
  <2>4. h \in Flows /\ h \notin Passes
    BY FlowsAssumption DEF Flows
  <2>5. /\ \A g \in Flows \ {h} : flow'[g] = flow[g]
        /\ flow[h].pc = "idle" /\ flow'[h].msg = o
    BY <1>6, <2>4 DEF Ingress, FlowsOK, Idle
  <2>6. \A p \in Passes : InHandOf(p, m)' <=> InHandOf(p, m)
    BY <2>4, <2>5, PassNoCancel DEF InHandOf
  <2>7. \A g \in Flows : InHandOf(g, m)' => InHandOf(g, m) /\ flow'[g] = flow[g]
    BY <2>3, <2>5 DEF InHandOf
  <2> QED
    BY <2>1, <2>6, <2>7 DEF NotHandedOver
<1> QED
  BY <1>1, <1>2, <1>3, <1>4, <1>5, <1>6 DEF Environment, IngressEvents

\* A step of the engine is a step of one flow.
LEMMA StepCases ==
  ASSUME [Next]_vars
  PROVE  (\E f \in Flows : FlowStep(f)) \/ Environment \/ UNCHANGED vars
  BY DEF Next, Engine, FlowStep, Flows

\* What was told stays told.
LEMMA ToldGrows ==
  ASSUME TypeInv, [Next]_vars
  PROVE  \A m \in Messages : told[m] \subseteq told'[m]
<1> USE DEF TypeInv
<1>1. ASSUME NEW f \in Flows, FlowStep(f), ~(SharedStep(f) /\ (Notify(f) \/ Purge(f))), ~Claim(f)
      PROVE  NothingLost
  BY <1>1, PassHarmless, RowHarmless, RetryHarmless, EventHarmless DEF FlowStep, SharedStep
<1>2. ASSUME NEW f \in Flows, Notify(f) \/ Purge(f) \/ Claim(f)
      PROVE  \A m \in Messages : told[m] \subseteq told'[m]
  BY <1>2 DEF Notify, Purge, Claim, WorldOK, world
<1>3. CASE Environment \/ UNCHANGED vars
  BY <1>3 DEF Environment, Enqueue, GrowsOld, Expire, BecomesDue, StartCancel, Ingress, Crash,
              world, vars
<1> QED
  BY <1>1, <1>2, <1>3, StepCases DEF NothingLost

LEMMA NextHandOver ==
  ASSUME TypeInv, HandOverInv, [Next]_vars, [~Crash]_vars
  PROVE  HandOverInv'
<1> SUFFICES ASSUME NEW m \in Messages, "SENT_TO_NS" \notin told'[m] PROVE NotHandedOver(m)'
  BY DEF HandOverInv
<1>1. NotHandedOver(m)
  BY ToldGrows DEF HandOverInv
<1>2. ASSUME NEW f \in Flows, FlowStep(f) PROVE NotHandedOver(m)'
  <2>1. CASE InHandOf(f, m)
    BY <1>1, <1>2, <2>1, HandOverInHand
  <2>2. CASE PassPicks(f, m)
    BY <1>1, <2>2, HandOverPick DEF PassPicks
  <2>3. CASE ~InHandOf(f, m) /\ ~PassPicks(f, m)
    BY <1>1, <1>2, <2>3, HandOverElsewhere
  <2> QED
    BY <2>1, <2>2, <2>3
<1>3. CASE Environment /\ ~Crash
  BY <1>1, <1>3, HandOverEnvironment
<1>4. CASE UNCHANGED vars
  BY <1>1, <1>4 DEF vars, NotHandedOver, InHandOf
<1> QED
  BY <1>2, <1>3, <1>4, StepCases

\* As long as the process does not die between the pick and the stored event, the
\* adopter hears that a message was handed over before it hears how it ended, for
\* every interleaving of the pass with the runner, ingress, cancels and the TTL.
THEOREM HandOverFirst == Spec /\ [][~Crash]_vars => []SentBeforeVerdict
<1>1. Init => TypeInv /\ HandOverInv
  <2>1. Init => HandOverInv
    BY NoHashFields DEF Init, HandOverInv, NotHandedOver, InHandOf, Idle, Unattached
  <2> QED
    BY <2>1, InitTypeInv
<1>2. TypeInv /\ HandOverInv /\ [Next]_vars /\ [~Crash]_vars => TypeInv' /\ HandOverInv'
  BY NextTypeInv, NextHandOver
<1>3. HandOverInv => SentBeforeVerdict
  BY DEF HandOverInv, NotHandedOver, SentBeforeVerdict
<1> QED
  BY <1>1, <1>2, <1>3, PTL DEF Spec

-----------------------------------------------------------------------------
(* One verdict, and gone for good *)

\* No two flows but cancels end the same message at once.
OneEnding ==
    \A f, g \in Flows \ Cancels :
        flow[f].pc \in Purging /\ flow[g].pc \in Purging /\ flow[f].msg = flow[g].msg => f = g

\* Nobody purges a message that another flow is moving to retry.
NoPurgeMeetsRetry ==
    \A f, g \in Flows :
        /\ flow[f].pc = "purge" /\ flow[g].pc \in {"hmget", "retryExec"}
        /\ flow[f].msg = flow[g].msg
        => ~hash[flow[f].msg].whole

\* A verdict that is told is being carried out, or has been.
VerdictOK(m) ==
    /\ fate[m] = "new" => ~hash[m].whole /\ told[m] \cap TerminalStatuses = {}
    /\ hash[m].whole /\ told[m] \cap TerminalStatuses # {} =>
          \E g \in Flows \ Cancels : flow[g].pc = "purge" /\ flow[g].msg = m
    /\ \A f \in Flows : flow[f].pc = "notify" /\ flow[f].msg = m =>
          fate[m] # "new" /\ told[m] \cap TerminalStatuses = {}
    /\ ~(TerminalStatuses \subseteq told[m])

CancelsOK == \A c \in Cancels : flow[c].pc \in {"idle", "claim", "purge"}

VerdictInv == CancelsOK /\ \A m \in Messages : VerdictOK(m)

\* A hash is there with all its fields or not at all; one that is gone is in no
\* queue, and nobody is about to write it.
NoHalfHash(m) ==
    /\ hash[m].whole <=> hash[m].exists
    /\ ~hash[m].whole =>
          /\ queue[m] = {}
          /\ \A f \in Flows : flow[f].msg = m => flow[f].pc \notin {"hmget", "retryExec"}

\* An expired hash can be brought back in part, by a retry that had read it, but not
\* with all its fields.
GoneOrExpired(m) == IF fate[m] = "expired" THEN ~hash[m].whole ELSE NoHalfHash(m)

GoneInv == \A m \in Messages : GoneOrExpired(m)

\* No flow gives a hash its fields: only accepting a message does.
LEMMA FieldsNotGiven ==
  ASSUME TypeInv, NEW f \in Flows, FlowStep(f), NEW m \in Messages, hash'[m].whole
  PROVE  hash[m].whole
<1> USE DEF TypeInv
<1>1. \A status, ref : \A h \in Hash : Moved(h, status, ref).whole = h.whole
  BY DEF Moved, Hash
<1>2. \A h \in Hash : Picked(h).whole = h.whole /\ Retried(h, flow[f]).whole = h.whole
  BY DEF Picked, Retried, Hash
<1>3. CASE InHandOf(f, m)
  <2>1. \/ hash' = hash
        \/ \E status, ref : hash' = [hash EXCEPT ![m] = Moved(@, status, ref)]
        \/ hash' = [hash EXCEPT ![m] = NoHash]
        \/ hash' = [hash EXCEPT ![m] = Retried(@, flow[f])]
    <3>1. CASE f \in Passes /\ PassStep(f)
      <4>1. CASE StartPass(f) \/ Admit(f) \/ Sweep(f) \/ PickNothing(f)
        BY <3>1, <4>1, AdmissionSteps
      <4>2. ASSUME NEW o \in Messages PROVE ~Pick(f, o)
        BY <1>3 DEF Pick, InHandOf, Unattached
      <4>3. CASE EmitSent(f) \/ VendorAccepts(f) \/ SendFailed(f)
        BY <4>3 DEF EmitSent, VendorAccepts, SendFailed, redis
      <4>4. CASE SendOk(f)
        BY <1>3, <4>4 DEF SendOk, advance, Move, InHandOf
      <4> QED
        BY <3>1, <4>1, <4>2, <4>3, <4>4 DEF PassStep
    <3>2. CASE f \in Rows /\ RowStep(f)
      BY <1>3, <3>2 DEF RowStep, StartDrain, DrainNext, StillQueued, NoLongerQueued, PollAnswered,
         Requeue, ListReady, Scrub, Reschedule, Move, redis, InHandOf, Unattached
    <3>3. CASE SharedStep(f) \/ EventStep(f) \/ Claim(f)
      BY <1>3, <3>3 DEF SharedStep, FailRead, Notify, Purge, Zscore, Hmget, RetryExec, EventStep,
         Lookup, ToDevice, NackRead, OkRead, Claim, advance, Move, redis, InHandOf
    <3> QED
      BY <3>1, <3>2, <3>3 DEF FlowStep
  <2> QED
    BY <1>1, <1>2, <2>1, NoHashFields DEF RedisOK
<1>4. CASE PassPicks(f, m)
  BY <1>2, <1>4 DEF PassPicks, Pick, RedisOK
<1>5. CASE ~InHandOf(f, m) /\ ~PassPicks(f, m)
  BY <1>5, Elsewhere DEF SameAs
<1> QED
  BY <1>3, <1>4, <1>5

\* A flow goes to the notification with a message whose hash it has just read.
LEMMA NotifyEntered ==
  ASSUME TypeInv, NEW f \in Flows, FlowStep(f), flow'[f].pc = "notify"
  PROVE  /\ hash[flow'[f].msg].whole /\ UNCHANGED <<hash, told, fate>>
         /\ flow[f].pc \in {"failRead", "okRead", "drain"}
<1> USE DEF TypeInv
<1>1. \A outcome : Ended(f, outcome).pc # "notify"
  BY DEF Ended, AfterMember, Idle
<1>2. ASSUME NEW step, Goto(f, step) PROVE flow'[f].pc = step
  BY <1>2 DEF Goto, FlowsOK, FlowRecord
<1>3. ~(f \in Passes /\ PassStep(f))
  <2> SUFFICES ASSUME f \in Passes, PassStep(f) PROVE FALSE
    OBVIOUS
  <2>1. CASE StartPass(f) \/ Admit(f) \/ Sweep(f) \/ PickNothing(f) \/ EmitSent(f)
    BY <1>2, <2>1, AdmissionSteps DEF EmitSent, Unattached
  <2>2. ASSUME NEW m \in Messages, Pick(f, m) PROVE FALSE
    <3>1. \A step \in {"emitSent", "calling"} : [Idle EXCEPT !.pc = step, !.msg = m].pc = step
      BY DEF Idle
    <3> QED
      BY <1>2, <2>2, <3>1 DEF Pick, FlowsOK
  <2>3. ~VendorAccepts(f)
    BY DEF VendorAccepts, FlowsOK, FlowRecord
  <2>4. ~SendFailed(f)
    <3>1. \A skip : [Idle EXCEPT !.pc = "failRead", !.msg = flow[f].msg,
                                 !.from = "ns", !.skipRetry = skip].pc = "failRead"
      BY DEF Idle
    <3> QED
      BY <3>1 DEF SendFailed, FlowsOK
  <2>5. CASE SendOk(f)
    BY <1>1, <2>5 DEF SendOk, Finish, FlowsOK
  <2> QED
    BY <2>1, <2>2, <2>3, <2>4, <2>5 DEF PassStep
<1>4. CASE f \in Rows /\ RowStep(f)
  <2>1. ~StartDrain(f) /\ ~NoLongerQueued(f)
    BY <1>2 DEF StartDrain, NoLongerQueued
  <2>2. ~StillQueued(f) /\ ~PollAnswered(f)
    BY DEF StillQueued, PollAnswered, FlowsOK, Idle
  <2>3. ~Requeue(f) /\ ~ListReady(f) /\ ~Scrub(f) /\ ~Reschedule(f)
    <3>1. [Idle EXCEPT !.pc = "listReady", !.msg = flow[f].msg].pc # "notify"
      BY DEF Idle
    <3>2. ~Requeue(f)
      BY <1>1, <3>1 DEF Requeue, FlowsOK
    <3>3. ~ListReady(f) /\ ~Scrub(f) /\ ~Reschedule(f)
      BY <1>1 DEF ListReady, Scrub, Reschedule, Finish, FlowsOK
    <3> QED
      BY <3>2, <3>3
  <2>4. PICK m \in Messages : DrainNext(f, m)
    BY <1>4, <2>1, <2>2, <2>3 DEF RowStep
  <2>5. hash[m].whole /\ flow'[f] = Act(f, m)
    <3>1. Idle.pc # "notify" /\ [Idle EXCEPT !.pc = "orphaned", !.msg = m].pc # "notify"
      BY DEF Idle
    <3> QED
      BY <2>4, <3>1 DEF DrainNext, FlowsOK
  <2>6. Act(f, m).msg = m
    BY <1>4 DEF Act, Idle, Rows, PluginStages
  <2> QED
    BY <2>4, <2>5, <2>6 DEF DrainNext, redis, world
<1>5. CASE SharedStep(f)
  <2>1. ~Notify(f) /\ ~Purge(f) /\ ~Zscore(f) /\ ~RetryExec(f)
    BY <1>1, <1>2 DEF Notify, Purge, Zscore, RetryExec, Finish, FlowsOK
  <2>2. ~Hmget(f)
    BY DEF Hmget, FlowsOK, FlowRecord
  <2>3. FailRead(f)
    BY <1>5, <2>1, <2>2 DEF SharedStep
  <2>4. hash[flow[f].msg].whole
    BY <1>1, <2>3 DEF FailRead, Finish, FlowsOK
  <2>5. flow'[f].msg = flow[f].msg
    <3>1. [Capture(f, FinalStep) EXCEPT !.event = "DELIVERY_FAILED"].msg = flow[f].msg
          /\ Capture(f, "zscore").msg = flow[f].msg
      BY DEF Capture, FlowsOK, FlowRecord
    <3> QED
      BY <1>1, <2>3, <3>1 DEF FailRead, Finish, FlowsOK
  <2> QED
    BY <2>3, <2>4, <2>5 DEF FailRead, redis, world
<1>6. CASE EventStep(f)
  <2>1. ~Lookup(f)
    <3> SUFFICES ASSUME Lookup(f) PROVE FALSE
      OBVIOUS
    <3>1. flow[f].event \in IngressEvents
      BY DEF Lookup, FlowsOK, FlowOK
    <3>2. (\E step \in {"toDevice", "nackRead", "okRead"} : Goto(f, step)) \/ Finish(f, "orphaned")
      BY <3>1 DEF Lookup, IngressEvents, TerminalStatuses
    <3> QED
      BY <1>1, <1>2, <3>2 DEF Finish, FlowsOK
  <2>2. ~ToDevice(f)
    BY <1>1 DEF ToDevice, Finish, FlowsOK
  <2>3. ~NackRead(f)
    BY <1>1 DEF NackRead, Finish, FlowsOK, FlowRecord
  <2>4. OkRead(f)
    BY <1>6, <2>1, <2>2, <2>3 DEF EventStep
  <2>5. hash[flow[f].msg].whole
    BY <1>1, <2>4 DEF OkRead, Finish, FlowsOK
  <2>6. flow'[f].msg = flow[f].msg
    <3>1. Capture(f, "notify").msg = flow[f].msg
      BY DEF Capture, FlowsOK, FlowRecord
    <3> QED
      BY <1>1, <2>4, <3>1 DEF OkRead, Finish, FlowsOK
  <2> QED
    BY <2>4, <2>5, <2>6 DEF OkRead, redis, world
<1>7. ~(f \in Cancels /\ Claim(f))
  BY <1>2 DEF Claim, FlowsOK, Idle
<1> QED
  BY <1>3, <1>4, <1>5, <1>6, <1>7 DEF FlowStep

\* After the notification, or a claim, comes the purge and nothing else.
LEMMA PurgeStep ==
  ASSUME NEW f \in Flows, FlowStep(f), flow[f].pc = "purge"
  PROVE  Purge(f)
  BY DEF FlowStep, PassStep, StartPass, Admit, Sweep, SweepMembers, SweepExists, SweepRemove,
         PickNothing, Pick, EmitSent, VendorAccepts, SendOk, SendFailed, RowStep, StartDrain, DrainNext, StillQueued, NoLongerQueued,
         PollAnswered, Requeue, ListReady, Scrub, Reschedule, SharedStep, FailRead, Notify, Zscore,
         Hmget, RetryExec, EventStep, Lookup, ToDevice, NackRead, OkRead, Claim

\* A purge under way goes on, but for the flow that carries it out.
LEMMA PurgesGoOn ==
  ASSUME TypeInv, NEW f \in Flows, FlowStep(f), ~Purge(f), NEW g \in Flows, flow[g].pc = "purge"
  PROVE  flow'[g] = flow[g]
  BY PurgeStep, OthersStay

\* But for a cancel, a purge follows a notification.
LEMMA PurgeEntered ==
  ASSUME TypeInv, NEW f \in Flows \ Cancels, FlowStep(f), flow'[f].pc = "purge"
  PROVE  Notify(f)
<1>1. ~Purge(f)
  <2>1. \A outcome : Ended(f, outcome).pc # "purge"
    BY DEF Ended, AfterMember, Idle
  <2> QED
    BY <2>1 DEF Purge, Finish, TypeInv, FlowsOK
<1>2. ASSUME ~Notify(f) PROVE FALSE
  <2>1. NoNewPurge
    BY <1>1, <1>2, PassHarmless, RowHarmless, RetryHarmless, EventHarmless DEF FlowStep, SharedStep
  <2> QED
    BY <1>1, <2>1, PurgeStep DEF NoNewPurge
<1> QED
  BY <1>2

\* Only a notification tells a verdict.
LEMMA VerdictsTold ==
  ASSUME TypeInv, NEW f \in Flows, FlowStep(f), NEW m \in Messages
  PROVE  \/ told'[m] \cap TerminalStatuses = told[m] \cap TerminalStatuses
         \/ /\ Notify(f) /\ flow[f].msg = m
            /\ told' = [told EXCEPT ![m] = @ \cup {flow[f].event}]
<1>1. CASE f \in Passes /\ PassStep(f)
  <2>1. told' = told \/ EmitSent(f)
    BY <1>1, AdmissionSteps DEF PassStep, TypeInv, Pick, VendorAccepts, SendOk, SendFailed, world
  <2> QED
    BY <2>1 DEF EmitSent, TypeInv, WorldOK, TerminalStatuses
<1>2. CASE f \in Rows /\ RowStep(f)
  BY <1>2 DEF RowStep, StartDrain, DrainNext, StillQueued, NoLongerQueued, PollAnswered, Requeue,
              ListReady, Scrub, Reschedule, world
<1>3. CASE SharedStep(f) \/ EventStep(f) \/ Claim(f)
  <2>1. told' = told \/ Notify(f)
    BY <1>3 DEF SharedStep, FailRead, Purge, Zscore, Hmget, RetryExec, EventStep, Lookup,
                ToDevice, NackRead, OkRead, Claim, world
  <2> QED
    BY <2>1 DEF Notify, TypeInv, WorldOK
<1> QED
  BY <1>1, <1>2, <1>3 DEF FlowStep

\* Of the flows only a cancel says what became of a message.
LEMMA ClaimOnly ==
  ASSUME NEW f \in Flows, FlowStep(f)
  PROVE  fate' = fate \/ (f \in Cancels /\ Claim(f))
  BY DEF FlowStep, PassStep, StartPass, Admit, Sweep, SweepMembers, SweepExists, SweepRemove,
         PickNothing, Pick, EmitSent, VendorAccepts, SendOk, SendFailed, RowStep, StartDrain, DrainNext, StillQueued, NoLongerQueued,
         PollAnswered, Requeue, ListReady, Scrub, Reschedule, SharedStep, FailRead, Notify, Purge,
         Zscore, Hmget, RetryExec, EventStep, Lookup, ToDevice, NackRead, OkRead, world

\* No flow's step makes an id new, or an accepted one new again.
LEMMA NotNewAgain ==
  ASSUME TypeInv, NEW f \in Flows, FlowStep(f), NEW m \in Messages, fate'[m] = "new"
  PROVE  fate[m] = "new"
  BY ClaimOnly DEF Claim, TypeInv, WorldOK

\* A cancel claims, and purges what it claimed.
LEMMA CancelsKept ==
  ASSUME TypeInv, CancelsOK, NEW f \in Flows, FlowStep(f)
  PROVE  CancelsOK'
<1> SUFFICES ASSUME NEW c \in Cancels PROVE flow'[c].pc \in {"idle", "claim", "purge"}
  BY DEF CancelsOK
<1>1. CASE c # f
  BY <1>1, OthersStay, CancelNoPass DEF CancelsOK
<1>2. CASE c = f
  <2>1. Claim(f) \/ Purge(f)
    BY <1>2, CancelNoPass
    DEF CancelsOK, FlowStep, SharedStep, FailRead, Notify, Zscore, Hmget, RetryExec,
        EventStep, Lookup, ToDevice, NackRead, OkRead
  <2>2. Ended(f, "removed") = Idle
    BY <1>2, CancelNoPass DEF Ended, AfterMember
  <2> QED
    BY <1>2, <2>1, <2>2 DEF Claim, Purge, Finish, Goto, TypeInv, FlowsOK, FlowRecord, Idle
<1> QED
  BY <1>1, <1>2

LEMMA VerdictFlow ==
  ASSUME TypeInv, VerdictInv, OneEnding', NEW f \in Flows, FlowStep(f), NEW m \in Messages
  PROVE  VerdictOK(m)'
<1> USE DEF TypeInv
<1>0. VerdictOK(m) /\ CancelsOK
  BY DEF VerdictInv
<1>1. hash'[m].whole => hash[m].whole
  BY FieldsNotGiven
<1>2. fate'[m] = "new" => fate[m] = "new"
  BY NotNewAgain
<1>3. \A g \in Flows \ {f} : flow'[g] = flow[g]
  BY OthersStay
<1>4. f \in Cancels => flow'[f].pc # "notify" /\ ~Notify(f)
  BY <1>0, CancelsKept DEF CancelsOK, Notify
<1>5. CASE Notify(f) /\ flow[f].msg = m
  <2>1. /\ flow[f].pc = "notify" /\ flow'[f].pc = "purge" /\ flow'[f].msg = m
        /\ f \in Flows \ Cancels /\ flow[f].event \in TerminalStatuses
    BY <1>4, <1>5 DEF Notify, Goto, FlowsOK, FlowOK, FlowRecord
  <2>2. told'[m] = told[m] \cup {flow[f].event} /\ told[m] \cap TerminalStatuses = {}
    BY <1>0, <1>5, <2>1 DEF Notify, WorldOK, VerdictOK
  <2>3. ~(TerminalStatuses \subseteq told'[m])
    BY <2>2 DEF TerminalStatuses
  <2>4. fate[m] # "new"
    BY <1>0, <2>1, <1>5 DEF VerdictOK
  <2>5. ASSUME NEW g \in Flows, flow'[g].pc = "notify", flow'[g].msg = m PROVE FALSE
    <3>1. g # f /\ flow[g].pc = "notify"
      BY <1>3, <2>1, <2>5
    <3>2. g \notin Cancels
      BY <1>0, <3>1 DEF CancelsOK
    <3> QED
      BY <2>1, <2>5, <3>1, <3>2 DEF OneEnding, Purging
  <2> QED
    BY <1>2, <2>1, <2>3, <2>4, <2>5 DEF VerdictOK
<1>6. CASE ~(Notify(f) /\ flow[f].msg = m)
  <2>1. told'[m] \cap TerminalStatuses = told[m] \cap TerminalStatuses
    BY <1>6, VerdictsTold
  <2>2. ~(TerminalStatuses \subseteq told'[m])
    BY <1>0, <2>1 DEF VerdictOK
  <2>3. fate'[m] = "new" => ~hash'[m].whole /\ told'[m] \cap TerminalStatuses = {}
    BY <1>0, <1>1, <1>2, <2>1 DEF VerdictOK
  <2>4. ASSUME hash'[m].whole, told'[m] \cap TerminalStatuses # {}
        PROVE  \E g \in Flows \ Cancels : flow'[g].pc = "purge" /\ flow'[g].msg = m
    <3>1. PICK g \in Flows \ Cancels : flow[g].pc = "purge" /\ flow[g].msg = m
      BY <1>0, <1>1, <2>1, <2>4 DEF VerdictOK
    <3>2. ~Purge(f) \/ f # g
      BY <2>4, <3>1, NoHashFields DEF Purge, RedisOK
    <3> QED
      BY <1>3, <3>1, <3>2, PurgesGoOn
  <2>5. ASSUME NEW g \in Flows, flow'[g].pc = "notify", flow'[g].msg = m
        PROVE  fate'[m] # "new" /\ told'[m] \cap TerminalStatuses = {}
    <3>1. CASE g # f
      BY <1>0, <1>2, <1>3, <2>1, <2>5, <3>1 DEF VerdictOK
    <3>2. CASE g = f
      <4>1. /\ hash[m].whole /\ UNCHANGED <<hash, told, fate>>
            /\ flow[f].pc \in {"failRead", "okRead", "drain"}
        BY <2>5, <3>2, NotifyEntered
      <4>2. ASSUME told[m] \cap TerminalStatuses # {} PROVE FALSE
        <5>1. PICK h \in Flows \ Cancels : flow[h].pc = "purge" /\ flow[h].msg = m
          BY <1>0, <4>1, <4>2 DEF VerdictOK
        <5>2. h # f /\ flow'[h] = flow[h]
          BY <1>3, <4>1, <5>1
        <5>3. f \in Flows \ Cancels
          BY <1>4, <2>5, <3>2
        <5> QED
          BY <2>5, <3>2, <5>1, <5>2, <5>3 DEF OneEnding, Purging
      <4> QED
        BY <1>0, <4>1, <4>2 DEF VerdictOK
    <3> QED
      BY <3>1, <3>2
  <2> QED
    BY <2>2, <2>3, <2>4, <2>5 DEF VerdictOK
<1> QED
  BY <1>5, <1>6

\* The environment neither tells nor ends anything, a crash aside.
LEMMA VerdictEnvironment ==
  ASSUME TypeInv, VerdictInv, Environment, ~Crash
  PROVE  VerdictInv'
<1> USE DEF TypeInv
<1>0. CancelsOK /\ \A m \in Messages : VerdictOK(m)
  BY DEF VerdictInv
<1>1. ASSUME NEW o \in Messages, Enqueue(o) PROVE VerdictInv'
  <2>1. UNCHANGED <<flow, told>> /\ fate[o] = "new" /\ fate'[o] = "accepted"
    BY <1>1 DEF Enqueue, memory, WorldOK
  <2>2. \A m \in Messages \ {o} : hash'[m] = hash[m] /\ fate'[m] = fate[m]
    BY <1>1 DEF Enqueue, RedisOK, WorldOK
  <2>3. CancelsOK'
    BY <1>0, <2>1 DEF CancelsOK
  <2>4. told[o] \cap TerminalStatuses = {}
    BY <1>0, <2>1 DEF VerdictOK
  <2>5. VerdictOK(o)'
    BY <1>0, <2>1, <2>4 DEF VerdictOK
  <2>6. \A m \in Messages \ {o} : VerdictOK(m)'
    BY <1>0, <2>1, <2>2 DEF VerdictOK
  <2> QED
    BY <2>3, <2>5, <2>6 DEF VerdictInv
<1>2. ASSUME NEW o \in Messages, Expire(o) PROVE VerdictInv'
  <2>1. UNCHANGED <<flow, told>>
    BY <1>2 DEF Expire, memory
  <2>2. \A m \in Messages : /\ hash'[m].whole => hash[m].whole
                            /\ fate'[m] = "new" => fate[m] = "new"
    BY <1>2, NoHashFields DEF Expire, RedisOK, WorldOK
  <2> QED
    BY <1>0, <2>1, <2>2 DEF VerdictInv, VerdictOK, CancelsOK
<1>3. CASE \E o \in Messages : GrowsOld(o) \/ \E s \in STAGES : BecomesDue(o, s)
  BY <1>0, <1>3 DEF GrowsOld, BecomesDue, redis, memory, world, VerdictInv, VerdictOK, CancelsOK
<1>4. CASE \/ \E o \in Messages, c \in Cancels : StartCancel(c, o)
           \/ \E o \in Messages, h \in Handlers, ref \in Attempts, status \in IngressEvents :
                 Ingress(h, o, ref, status)
  <2>1. UNCHANGED <<hash, told, fate>>
    BY <1>4 DEF StartCancel, Ingress, redis, world
  <2>2. PICK f \in Handlers \cup Cancels :
           /\ \A g \in Flows \ {f} : flow'[g] = flow[g]
           /\ flow[f].pc = "idle"
           /\ flow'[f].pc = (IF f \in Cancels THEN "claim" ELSE "lookup")
    <3>1. ASSUME NEW o \in Messages, NEW c \in Cancels, StartCancel(c, o)
          PROVE  /\ flow[c].pc = "idle" /\ flow'[c].pc = "claim"
                 /\ \A g \in Flows \ {c} : flow'[g] = flow[g]
      BY <3>1, CancelNoPass DEF StartCancel, FlowsOK, Idle
    <3>2. ASSUME NEW o \in Messages, NEW h \in Handlers, NEW ref \in Attempts,
                 NEW status \in IngressEvents, Ingress(h, o, ref, status)
          PROVE  /\ flow[h].pc = "idle" /\ flow'[h].pc = "lookup" /\ h \notin Cancels
                 /\ \A g \in Flows \ {h} : flow'[g] = flow[g]
      <4>1. h \in Flows /\ h \notin Cancels
        BY FlowsAssumption DEF Flows
      <4> QED
        BY <3>2, <4>1 DEF Ingress, FlowsOK, Idle
    <3> QED
      BY <1>4, <3>1, <3>2
  <2>3. CancelsOK'
    BY <1>0, <2>2, CancelNoPass DEF CancelsOK
  <2>4. f \in Flows /\ flow'[f].pc \notin {"notify", "purge"}
    BY <2>2 DEF Flows
  <2>5. \A g \in Flows : flow[g].pc = "purge" => flow'[g] = flow[g]
    BY <2>2
  <2>6. \A g \in Flows : flow'[g].pc = "notify" => flow'[g] = flow[g]
    BY <2>2, <2>4
  <2>7. \A m \in Messages : VerdictOK(m)'
    BY <1>0, <2>1, <2>5, <2>6 DEF VerdictOK
  <2> QED
    BY <2>3, <2>7 DEF VerdictInv
<1> QED
  BY <1>1, <1>2, <1>3, <1>4 DEF Environment, IngressEvents

LEMMA NextVerdict ==
  ASSUME TypeInv, VerdictInv, OneEnding', [Next]_vars, [~Crash]_vars
  PROVE  VerdictInv'
<1>1. ASSUME NEW f \in Flows, FlowStep(f) PROVE VerdictInv'
  BY <1>1, VerdictFlow, CancelsKept DEF VerdictInv
<1>2. CASE Environment /\ ~Crash
  BY <1>2, VerdictEnvironment
<1>3. CASE UNCHANGED vars
  BY <1>3 DEF vars, VerdictInv, VerdictOK, CancelsOK
<1> QED
  BY <1>1, <1>2, <1>3, StepCases

LEMMA InitVerdict == Init => VerdictInv
<1> SUFFICES ASSUME Init PROVE VerdictInv
  OBVIOUS
<1>1. CancelsOK
  BY CancelNoPass DEF Init, CancelsOK, Idle
<1>2. \A m \in Messages : VerdictOK(m)
  BY NoHashFields DEF Init, VerdictOK, Idle, TerminalStatuses
<1> QED
  BY <1>1, <1>2 DEF VerdictInv

\* enterRetry's last two steps follow its guard.
LEMMA RetryEntered ==
  ASSUME TypeInv, NEW f \in Flows, FlowStep(f), flow'[f].pc \in {"hmget", "retryExec"}
  PROVE  /\ flow'[f].msg = flow[f].msg /\ UNCHANGED <<hash, queue>>
         /\ \/ flow[f].pc = "hmget"
            \/ flow[f].pc = "zscore" /\ flow[f].from \in queue[flow[f].msg]
<1> USE DEF TypeInv
<1> DEFINE Moving == {"hmget", "retryExec"}
<1>1. \A outcome : Ended(f, outcome).pc \notin Moving
  BY DEF Ended, AfterMember, Idle
<1>2. ASSUME NEW step, Goto(f, step) PROVE flow'[f].pc = step
  BY <1>2 DEF Goto, FlowsOK, FlowRecord
<1>3. ~(f \in Passes /\ PassStep(f))
  <2> SUFFICES ASSUME f \in Passes, PassStep(f) PROVE FALSE
    OBVIOUS
  <2>1. CASE StartPass(f) \/ Admit(f) \/ Sweep(f) \/ PickNothing(f) \/ EmitSent(f)
    BY <1>2, <2>1, AdmissionSteps DEF EmitSent, Unattached
  <2>2. ASSUME NEW m \in Messages, Pick(f, m) PROVE FALSE
    <3>1. \A step \in {"emitSent", "calling"} : [Idle EXCEPT !.pc = step, !.msg = m].pc = step
      BY DEF Idle
    <3> QED
      BY <1>2, <2>2, <3>1 DEF Pick, FlowsOK
  <2>3. ~VendorAccepts(f)
    BY DEF VendorAccepts, FlowsOK, FlowRecord
  <2>4. ~SendFailed(f)
    <3>1. \A skip : [Idle EXCEPT !.pc = "failRead", !.msg = flow[f].msg,
                                 !.from = "ns", !.skipRetry = skip].pc = "failRead"
      BY DEF Idle
    <3> QED
      BY <3>1 DEF SendFailed, FlowsOK
  <2>5. CASE SendOk(f)
    BY <1>1, <2>5 DEF SendOk, Finish, FlowsOK
  <2> QED
    BY <2>1, <2>2, <2>3, <2>4, <2>5 DEF PassStep
<1>4. ~(f \in Rows /\ RowStep(f))
  <2> SUFFICES ASSUME f \in Rows, RowStep(f) PROVE FALSE
    OBVIOUS
  <2>1. ~StartDrain(f) /\ ~NoLongerQueued(f)
    BY <1>2 DEF StartDrain, NoLongerQueued
  <2>2. ~StillQueued(f) /\ ~PollAnswered(f)
    BY DEF StillQueued, PollAnswered, FlowsOK, Idle
  <2>3. ~Requeue(f) /\ ~ListReady(f) /\ ~Scrub(f) /\ ~Reschedule(f)
    <3>1. [Idle EXCEPT !.pc = "listReady", !.msg = flow[f].msg].pc \notin Moving
      BY DEF Idle
    <3>2. ~Requeue(f)
      BY <1>1, <3>1 DEF Requeue, FlowsOK
    <3>3. ~ListReady(f) /\ ~Scrub(f) /\ ~Reschedule(f)
      BY <1>1 DEF ListReady, Scrub, Reschedule, Finish, FlowsOK
    <3> QED
      BY <3>2, <3>3
  <2>4. PICK m \in Messages : DrainNext(f, m)
    BY <2>1, <2>2, <2>3 DEF RowStep
  <2>5. /\ Idle.pc \notin Moving /\ [Idle EXCEPT !.pc = "orphaned", !.msg = m].pc \notin Moving
        /\ Act(f, m).pc \notin Moving
    BY DEF Idle, Act, Rows, PluginStages
  <2> QED
    BY <2>4, <2>5 DEF DrainNext, FlowsOK
<1>5. CASE SharedStep(f)
  <2>1. ~Notify(f) /\ ~Purge(f) /\ ~RetryExec(f)
    BY <1>1, <1>2 DEF Notify, Purge, RetryExec, Finish, FlowsOK
  <2>2. ~FailRead(f)
    <3>1. /\ [Capture(f, FinalStep) EXCEPT !.event = "DELIVERY_FAILED"].pc \notin Moving
          /\ Capture(f, "zscore").pc \notin Moving
      BY DEF Capture, FlowsOK, FlowRecord, FinalStep
    <3> QED
      BY <1>1, <3>1 DEF FailRead, Finish, FlowsOK
  <2>3. CASE Zscore(f)
    <3>1. flow[f].from \in queue[flow[f].msg]
      BY <1>1, <2>3 DEF Zscore, Finish, FlowsOK
    <3> QED
      BY <2>3, <3>1 DEF Zscore, Goto, FlowsOK, FlowRecord, redis
  <2>4. CASE Hmget(f)
    BY <2>4 DEF Hmget, FlowsOK, FlowRecord, redis
  <2> QED
    BY <1>5, <2>1, <2>2, <2>3, <2>4 DEF SharedStep
<1>6. ~EventStep(f)
  <2>1. ~Lookup(f)
    <3> SUFFICES ASSUME Lookup(f) PROVE FALSE
      OBVIOUS
    <3>1. flow[f].event \in IngressEvents
      BY DEF Lookup, FlowsOK, FlowOK
    <3>2. (\E step \in {"toDevice", "nackRead", "okRead"} : Goto(f, step)) \/ Finish(f, "orphaned")
      BY <3>1 DEF Lookup, IngressEvents, TerminalStatuses
    <3> QED
      BY <1>1, <1>2, <3>2 DEF Finish, FlowsOK
  <2>2. ~ToDevice(f)
    BY <1>1 DEF ToDevice, Finish, FlowsOK
  <2>3. ~NackRead(f)
    BY <1>1 DEF NackRead, Finish, FlowsOK, FlowRecord
  <2>4. ~OkRead(f)
    <3>1. Capture(f, "notify").pc \notin Moving
      BY DEF Capture, FlowsOK, FlowRecord
    <3> QED
      BY <1>1, <3>1 DEF OkRead, Finish, FlowsOK
  <2> QED
    BY <2>1, <2>2, <2>3, <2>4 DEF EventStep
<1>7. ~(f \in Cancels /\ Claim(f))
  BY <1>2 DEF Claim, FlowsOK, Idle
<1> QED
  BY <1>3, <1>4, <1>5, <1>6, <1>7 DEF FlowStep

\* What a step does to the hash and the queues of a message that is there with all
\* its fields or gone from everywhere.
LEMMA GoneStored ==
  ASSUME TypeInv, NEW f \in Flows, FlowStep(f), NEW m \in Messages, NoHalfHash(m)
  PROVE  /\ hash'[m].whole <=> hash'[m].exists
         /\ ~hash'[m].whole => queue'[m] = {}
         /\ hash[m].whole /\ ~hash'[m].whole => Purge(f) /\ flow[f].msg = m
<1> USE DEF TypeInv
<1>1. \A status, ref : \A h \in Hash : /\ Moved(h, status, ref).whole = h.whole
                                        /\ Moved(h, status, ref).exists = TRUE
  BY DEF Moved, Hash
<1>2. \A h \in Hash : /\ Picked(h).whole = h.whole /\ Picked(h).exists = h.exists
                      /\ Retried(h, flow[f]).whole = h.whole /\ Retried(h, flow[f]).exists = TRUE
  BY DEF Picked, Retried, Hash
<1>3. CASE InHandOf(f, m)
  <2>0. flow[f].msg = m
    BY <1>3 DEF InHandOf
  <2>1. CASE UNCHANGED <<hash, queue>>
    BY <2>1 DEF NoHalfHash
  <2>2. ASSUME NEW from, NEW to, NEW status, NEW ref, Move(m, from, to, status, ref)
        PROVE  /\ hash'[m].whole <=> hash'[m].exists
               /\ hash[m].whole => hash'[m].whole
               /\ ~hash'[m].whole => queue'[m] = {}
    <3>1. CASE Movable(m, from)
      BY <1>1, <2>2, <3>1 DEF Move, Movable, NoHalfHash, RedisOK
    <3>2. CASE ~Movable(m, from)
      BY <2>2, <3>2 DEF Move, Leave, NoHalfHash, RedisOK
    <3> QED
      BY <3>1, <3>2
  <2>3. CASE Purge(f)
    BY <2>0, <2>3, NoHashFields DEF Purge, RedisOK
  <2>4. CASE RetryExec(f)
    BY <1>2, <2>0, <2>4 DEF RetryExec, NoHalfHash, RedisOK
  <2>5. CASE hash' = hash /\ \E from : Leave(m, from)
    BY <2>5 DEF Leave, NoHalfHash, RedisOK
  <2>6. CASE f \in Passes /\ PassStep(f)
    <3>1. CASE SendOk(f)
      BY <2>0, <2>2, <3>1 DEF SendOk, advance
    <3>2. CASE EmitSent(f) \/ VendorAccepts(f) \/ SendFailed(f)
      BY <2>1, <3>2 DEF EmitSent, VendorAccepts, SendFailed, redis
    <3>3. flow[f].pc \notin Unattached
      BY <1>3 DEF InHandOf
    <3>4. \A o \in Messages : ~Pick(f, o)
      BY <3>3 DEF Pick, Unattached
    <3> QED
      BY <2>6, <3>1, <3>2, <3>3, <3>4, AdmissionSteps DEF PassStep
  <2>7. CASE f \in Rows /\ RowStep(f)
    <3>1. CASE Requeue(f)
      BY <2>0, <2>2, <3>1 DEF Requeue
    <3>2. CASE Scrub(f)
      BY <2>0, <2>5, <3>2 DEF Scrub
    <3>3. CASE StillQueued(f) \/ NoLongerQueued(f) \/ PollAnswered(f)
      BY <2>1, <3>3 DEF StillQueued, NoLongerQueued, PollAnswered, redis
    <3>4. CASE ListReady(f) \/ Reschedule(f)
      BY <2>1, <3>4 DEF ListReady, Reschedule
    <3>5. ~StartDrain(f) /\ \A o \in Messages : ~DrainNext(f, o)
      BY <1>3 DEF StartDrain, DrainNext, InHandOf, Unattached
    <3> QED
      BY <2>7, <3>1, <3>2, <3>3, <3>4, <3>5 DEF RowStep
  <2>8. CASE SharedStep(f) \/ EventStep(f) \/ Claim(f)
    BY <2>0, <2>1, <2>2, <2>3, <2>4, <2>5, <2>8 DEF SharedStep, FailRead, Notify, Zscore, Hmget,
       EventStep, Lookup, ToDevice, NackRead, OkRead, Claim, advance, redis
  <2> QED
    BY <2>6, <2>7, <2>8 DEF FlowStep
<1>4. CASE PassPicks(f, m)
  <2>1. hash[m].whole /\ hash[m].exists
    BY <1>4 DEF PassPicks, Pick, NoHalfHash
  <2> QED
    BY <1>2, <1>4, <2>1 DEF PassPicks, Pick, RedisOK
<1>5. CASE ~InHandOf(f, m) /\ ~PassPicks(f, m)
  BY <1>5, Elsewhere DEF SameAs, NoHalfHash
<1> QED
  BY <1>3, <1>4, <1>5

\* No flow's step makes a message expire, or undoes its expiry.
LEMMA ExpiredStays ==
  ASSUME TypeInv, NEW f \in Flows, FlowStep(f), NEW m \in Messages
  PROVE  /\ fate'[m] = "expired" => fate[m] = "expired"
         /\ fate[m] = "expired" /\ ~hash[m].whole => fate'[m] = "expired"
  BY ClaimOnly DEF Claim, TypeInv, WorldOK

\* A message expires in no other step than Expire.
LEMMA NewlyExpired ==
  ASSUME TypeInv, [Next]_vars, NEW m \in Messages, fate[m] # "expired", fate'[m] = "expired"
  PROVE  \E o \in Messages : Expire(o)
<1>1. ASSUME NEW f \in Flows, FlowStep(f) PROVE FALSE
  BY <1>1, ExpiredStays
<1>2. CASE Environment \/ UNCHANGED vars
  <2>1. ASSUME NEW o \in Messages, Enqueue(o) PROVE FALSE
    BY <2>1 DEF Enqueue, TypeInv, WorldOK
  <2>2. ~UNCHANGED fate
    OBVIOUS
  <2> QED
    BY <1>2, <2>1, <2>2 DEF Environment, GrowsOld, BecomesDue, StartCancel, Ingress, Crash,
                            world, vars
<1> QED
  BY <1>1, <1>2, StepCases

LEMMA GoneFlow ==
  ASSUME TypeInv, GoneInv, NoPurgeMeetsRetry, NEW f \in Flows, FlowStep(f)
  PROVE  GoneInv'
<1> SUFFICES ASSUME NEW m \in Messages PROVE GoneOrExpired(m)'
  BY DEF GoneInv
<1>0. /\ fate'[m] = "expired" => fate[m] = "expired"
      /\ fate[m] = "expired" /\ ~hash[m].whole => fate'[m] = "expired"
  BY ExpiredStays
<1>1. CASE fate[m] = "expired"
  BY <1>0, <1>1, FieldsNotGiven DEF GoneInv, GoneOrExpired
<1>2. CASE fate[m] # "expired"
  <2>1. NoHalfHash(m)
    BY <1>2 DEF GoneInv, GoneOrExpired
  <2>2. /\ hash'[m].whole <=> hash'[m].exists
        /\ ~hash'[m].whole => queue'[m] = {}
        /\ hash[m].whole /\ ~hash'[m].whole => Purge(f) /\ flow[f].msg = m
    BY <2>1, GoneStored
  <2>3. ASSUME ~hash'[m].whole, NEW g \in Flows, flow'[g].msg = m,
               flow'[g].pc \in {"hmget", "retryExec"}
        PROVE  FALSE
    <3>1. CASE g = f
      <4>1. /\ flow[f].msg = m /\ UNCHANGED <<hash, queue>>
            /\ \/ flow[f].pc = "hmget"
               \/ flow[f].pc = "zscore" /\ flow[f].from \in queue[m]
        BY <2>3, <3>1, RetryEntered
      <4> QED
        BY <2>1, <2>3, <4>1 DEF NoHalfHash
    <3>2. CASE g # f
      <4>1. flow[g].msg = m /\ flow[g].pc \in {"hmget", "retryExec"}
        BY <2>3, <3>2, OthersStay
      <4>2. hash[m].whole
        BY <2>1, <4>1 DEF NoHalfHash
      <4> QED
        BY <2>2, <2>3, <4>1, <4>2 DEF NoPurgeMeetsRetry, Purge
    <3> QED
      BY <3>1, <3>2
  <2>4. NoHalfHash(m)'
    BY <2>2, <2>3 DEF NoHalfHash
  <2> QED
    BY <1>0, <1>2, <2>4 DEF GoneOrExpired
<1> QED
  BY <1>1, <1>2

\* What the environment does to hashes and queues: only an expiry takes a hash away.
LEMMA GoneEnvironment ==
  ASSUME TypeInv, GoneInv, Environment
  PROVE  GoneInv'
<1> USE DEF TypeInv, GoneOrExpired
<1>1. ASSUME NEW o \in Messages, Enqueue(o) PROVE GoneInv'
  <2>1. UNCHANGED flow /\ fate'[o] = "accepted"
    BY <1>1 DEF Enqueue, memory, WorldOK
  <2>2. hash'[o].whole /\ hash'[o].exists
    BY <1>1 DEF Enqueue, RedisOK, NoHash
  <2>3. \A m \in Messages \ {o} : hash'[m] = hash[m] /\ queue'[m] = queue[m] /\ fate'[m] = fate[m]
    BY <1>1 DEF Enqueue, RedisOK, WorldOK
  <2> QED
    BY <2>1, <2>2, <2>3 DEF GoneInv, NoHalfHash
<1>2. CASE UNCHANGED <<hash, queue, flow, fate>>
  BY <1>2 DEF GoneInv, NoHalfHash
<1>3. CASE Crash
  <2>1. UNCHANGED <<hash, queue, fate>> /\ \A g \in Flows : flow'[g].pc = "idle"
    BY <1>3 DEF Crash, redis, Idle
  <2> QED
    BY <2>1 DEF GoneInv, NoHalfHash
<1>4. ASSUME NEW f \in Flows, flow'[f].pc \in {"claim", "lookup"},
             \A g \in Flows \ {f} : flow'[g] = flow[g], UNCHANGED <<hash, queue, fate>>
      PROVE  GoneInv'
  BY <1>4 DEF GoneInv, NoHalfHash
<1>5. ASSUME NEW o \in Messages, NEW c \in Cancels, StartCancel(c, o) PROVE GoneInv'
  <2> DEFINE g == [Idle EXCEPT !.pc = "claim", !.msg = o,
                     !.from = queueForStatus(hash[o].status), !.ref = hash[o].ref,
                     !.slot = hash[o].slot]
  <2>1. c \in Flows /\ g.pc = "claim"
    BY DEF Flows, Idle
  <2>2. flow' = [flow EXCEPT ![c] = g] /\ UNCHANGED <<hash, queue, fate>>
    BY <1>5 DEF StartCancel, redis, world
  <2>3. flow'[c].pc = "claim" /\ \A h \in Flows \ {c} : flow'[h] = flow[h]
    BY <2>1, <2>2 DEF FlowsOK
  <2> QED
    BY <1>4, <2>1, <2>2, <2>3
<1>6. ASSUME NEW o \in Messages, NEW h \in Handlers, NEW ref \in Attempts,
             NEW status \in IngressEvents, Ingress(h, o, ref, status)
      PROVE  GoneInv'
  <2> DEFINE g == [Idle EXCEPT !.pc = "lookup", !.msg = o, !.ref = ref, !.event = status]
  <2>1. h \in Flows /\ g.pc = "lookup"
    BY DEF Flows, Idle
  <2>2. flow' = [flow EXCEPT ![h] = g] /\ UNCHANGED <<hash, queue, fate>>
    BY <1>6 DEF Ingress, redis, world
  <2>3. flow'[h].pc = "lookup" /\ \A e \in Flows \ {h} : flow'[e] = flow[e]
    BY <2>1, <2>2 DEF FlowsOK
  <2> QED
    BY <1>4, <2>1, <2>2, <2>3
<1>7. ASSUME NEW o \in Messages, Expire(o) PROVE GoneInv'
  <2>1. UNCHANGED <<queue, flow>> /\ fate'[o] = "expired" /\ ~hash'[o].whole
    BY <1>7, NoHashFields DEF Expire, memory, RedisOK, WorldOK
  <2>2. \A m \in Messages \ {o} : hash'[m] = hash[m] /\ fate'[m] = fate[m]
    BY <1>7 DEF Expire, RedisOK, WorldOK
  <2> QED
    BY <2>1, <2>2 DEF GoneInv, NoHalfHash
<1>8. ASSUME NEW o \in Messages, GrowsOld(o) \/ \E s \in STAGES : BecomesDue(o, s) PROVE GoneInv'
  BY <1>2, <1>8 DEF GrowsOld, BecomesDue, redis, memory, world
<1> QED
  BY <1>1, <1>3, <1>5, <1>6, <1>7, <1>8 DEF Environment, IngressEvents

LEMMA NextGone ==
  ASSUME TypeInv, GoneInv, NoPurgeMeetsRetry, [Next]_vars
  PROVE  GoneInv'
<1>1. ASSUME NEW f \in Flows, FlowStep(f) PROVE GoneInv'
  BY <1>1, GoneFlow
<1>2. CASE Environment
  BY <1>2, GoneEnvironment
<1>3. CASE UNCHANGED vars
  BY <1>3 DEF vars, GoneInv, GoneOrExpired, NoHalfHash
<1> QED
  BY <1>1, <1>2, <1>3, StepCases

LEMMA InitGone == Init => GoneInv
  BY NoHashFields DEF Init, GoneInv, GoneOrExpired, NoHalfHash, Idle

\* Only accepting an id that was never accepted makes a hash, but for what an
\* expired one leaves behind.
LEMMA NoHashMade ==
  ASSUME TypeInv, GoneInv, GoneInv', [Next]_vars,
         NEW m \in Messages, fate[m] \notin {"new", "expired"}, ~hash[m].exists
  PROVE  ~hash'[m].exists
<1>1. ~hash[m].whole
  BY DEF GoneInv, GoneOrExpired, NoHalfHash
<1>2. ~hash'[m].whole
  <2>1. ASSUME NEW f \in Flows, FlowStep(f) PROVE ~hash'[m].whole
    BY <1>1, <2>1, FieldsNotGiven
  <2>2. CASE Environment \/ UNCHANGED vars
    <3>1. CASE \E o \in Messages : Enqueue(o) \/ Expire(o)
      BY <1>1, <3>1, NoHashFields DEF Enqueue, Expire, TypeInv, RedisOK
    <3>2. CASE UNCHANGED hash
      BY <1>1, <3>2
    <3> QED
      BY <2>2, <3>1, <3>2 DEF Environment, GrowsOld, BecomesDue, StartCancel, Ingress, Crash,
                              redis, vars
  <2> QED
    BY <2>1, <2>2, StepCases
<1>3. CASE fate'[m] # "expired"
  BY <1>2, <1>3 DEF GoneInv, GoneOrExpired, NoHalfHash
<1>4. CASE fate'[m] = "expired"
  <2>1. PICK o \in Messages : Expire(o)
    BY <1>4, NewlyExpired
  <2>2. hash'[m] = hash[m] \/ hash'[m] = NoHash
    BY <2>1 DEF Expire, TypeInv, RedisOK
  <2> QED
    BY <2>2, NoHashFields
<1> QED
  BY <1>3, <1>4

-----------------------------------------------------------------------------
(* When no two flows overlap inside their round trips on one message *)

LEMMA SerialExcludes ==
  ASSUME TypeInv, Serial
  PROVE  OneEnding /\ NoPurgeMeetsRetry
<1>1. \A f \in Flows : flow[f].pc \in Purging \cup {"hmget", "retryExec"} =>
                          flow[f].msg \in Messages /\ Working(f, flow[f].msg)
  BY DEF TypeInv, FlowsOK, FlowOK, Unattached, Working, Purging
<1>2. OneEnding
  BY <1>1 DEF Serial, OneEnding, Working, Purging
<1>3. NoPurgeMeetsRetry
  BY <1>1 DEF Serial, NoPurgeMeetsRetry, Working, Purging
<1> QED
  BY <1>2, <1>3

\* The spec of the serial run has only behaviours without that overlap.
LEMMA SerialSpecSerial == SerialSpec => Spec /\ []Serial
<1>1. Init => Serial
  BY DEF Init, Serial, Working, Idle
<1>2. Serial /\ [Next /\ (Serial /\ RowsPrompt)']_vars => Serial'
  BY DEF vars, Serial, Working
<1>3. [Next /\ (Serial /\ RowsPrompt)']_vars => [Next]_vars
  OBVIOUS
<1> QED
  BY <1>1, <1>2, <1>3, PTL DEF SerialSpec, Spec

\* The adopter is not told both that a message was delivered and that it failed, as
\* long as no two flows overlap inside their round trips on it and the process does
\* not die between the event and the purge.
THEOREM SerialOneVerdict == Spec /\ []Serial /\ [][~Crash]_vars => []OneVerdict
<1>1. Init => TypeInv /\ VerdictInv
  BY InitTypeInv, InitVerdict
<1>2. TypeInv /\ VerdictInv /\ Serial' /\ [Next]_vars /\ [~Crash]_vars => TypeInv' /\ VerdictInv'
  <2> SUFFICES ASSUME TypeInv, VerdictInv, Serial', [Next]_vars, [~Crash]_vars
               PROVE  TypeInv' /\ VerdictInv'
    OBVIOUS
  <2>1. TypeInv'
    BY NextTypeInv
  <2>2. OneEnding'
    BY <2>1, SerialExcludes, PTL
  <2> QED
    BY <2>1, <2>2, NextVerdict
<1>3. VerdictInv => OneVerdict
  BY DEF VerdictInv, VerdictOK, OneVerdict
<1> QED
  BY <1>1, <1>2, <1>3, PTL DEF Spec

\* A purged hash is not brought back in part by a flow that was still retrying it,
\* crashes and expiry of other hashes included, as long as no two flows overlap
\* inside their round trips on it.
THEOREM SerialGoneStaysGone == Spec /\ []Serial => GoneStaysGone
<1>1. Init => TypeInv /\ GoneInv
  BY InitTypeInv, InitGone
<1>2. TypeInv /\ GoneInv /\ Serial /\ [Next]_vars => TypeInv' /\ GoneInv'
  BY NextTypeInv, NextGone, SerialExcludes
<1>3. TypeInv /\ GoneInv /\ GoneInv' /\ [Next]_vars
        => [\A m \in Messages :
              fate[m] \notin {"new", "expired"} /\ ~hash[m].exists => ~hash'[m].exists]_vars
  BY NoHashMade
<1> QED
  BY <1>1, <1>2, <1>3, PTL DEF Spec, GoneStaysGone

-----------------------------------------------------------------------------
(* The PULL pipeline, in every interleaving *)

\* While the ns row has a message before it the poll of its task is not started.
NsAlone(m) ==
    hash[m].whole /\ RowHas("ns", m) => ~RowHas("awaitingTask", m) /\ "awaitingTask" \notin due[m]

AllNsAlone == \A m \in Messages : NsAlone(m)

\* What a cancel is purging is in no queue.
CancelOwns(m) ==
    \A c \in Cancels :
        hash[m].whole /\ flow[c].msg = m /\ flow[c].pc = "purge" => queue[m] = {}

\* No two flows but cancels end, or move to retry, a message that is there.
EndsApart ==
    \A m \in Messages : \A f, g \in Flows \ Cancels :
        /\ hash[m].whole /\ flow[f].msg = m /\ flow[g].msg = m
        /\ flow[f].pc \in Purging \cup {"hmget", "retryExec"}
        /\ flow[g].pc \in Purging \cup {"hmget", "retryExec"}
        => f = g

EndInv == OneEnding /\ AllNsAlone /\ \A m \in Messages : CancelOwns(m)

\* A row gets due ids before it by its drain only.
LEMMA TodoGrows ==
  ASSUME TypeInv, NEW f \in Flows, FlowStep(f), NEW r \in Rows, NEW m \in Messages, m \in todo'[r]
  PROVE  m \in todo[r] \/ (r \in due[m] /\ r \in queue[m])
<1>1. CASE f \in Passes /\ PassStep(f)
  <2>1. todo'[r] = todo[r]
    <3>1. ASSUME NEW o \in Messages, Pick(f, o) PROVE todo' = todo
      BY <3>1 DEF Pick
    <3> QED
      BY <1>1, <3>1, AdmissionSteps, FlowsAssumption
      DEF PassStep, TypeInv, EmitSent, VendorAccepts, SendOk, SendFailed
  <2> QED
    BY <2>1
<1>2. CASE f \in Rows /\ RowStep(f)
  <2>1. CASE StartDrain(f)
    BY <2>1 DEF StartDrain, TypeInv, MemoryOK
  <2>2. ASSUME NEW o \in Messages, DrainNext(f, o) PROVE m \in todo[r]
    BY <2>2 DEF DrainNext, TypeInv, MemoryOK
  <2>3. CASE todo' = todo
    BY <2>3
  <2> QED
    BY <1>2, <2>1, <2>2, <2>3 DEF RowStep, StillQueued, NoLongerQueued, PollAnswered, Requeue,
                                  ListReady, Scrub, Reschedule
<1>3. CASE SharedStep(f) \/ EventStep(f) \/ Claim(f)
  BY <1>3 DEF SharedStep, FailRead, Notify, Purge, Zscore, Hmget, RetryExec, EventStep, Lookup,
              ToDevice, NackRead, OkRead, Claim
<1> QED
  BY <1>1, <1>2, <1>3 DEF FlowStep

\* No flow makes a score pass.
LEMMA DueShrinks ==
  ASSUME TypeInv, NEW f \in Flows, FlowStep(f), NEW m \in Messages
  PROVE  due'[m] \subseteq due[m]
<1>1. ASSUME NEW o, NEW from, NEW to, Transfer(o, from, to) \/ Leave(o, from)
      PROVE  due'[m] \subseteq due[m]
  BY <1>1 DEF Transfer, Leave, TypeInv, RedisOK
<1>2. ASSUME NEW o, NEW from, NEW to, NEW status, NEW ref, Move(o, from, to, status, ref)
      PROVE  due'[m] \subseteq due[m]
  BY <1>2 DEF Move, Transfer, Leave, TypeInv, RedisOK
<1>3. CASE f \in Passes /\ PassStep(f)
  <2>1. CASE SendOk(f)
    BY <1>2, <2>1 DEF SendOk, advance
  <2>2. ASSUME NEW o \in Messages, Pick(f, o) PROVE due'[m] \subseteq due[m]
    BY <1>1, <2>2 DEF Pick
  <2> QED
    BY <1>3, <2>1, <2>2, AdmissionSteps
    DEF PassStep, TypeInv, EmitSent, VendorAccepts, SendFailed, redis
<1>4. CASE f \in Rows /\ RowStep(f)
  <2>1. CASE Requeue(f)
    BY <1>2, <2>1 DEF Requeue
  <2>2. CASE Scrub(f)
    BY <1>1, <2>2 DEF Scrub
  <2>3. CASE Reschedule(f)
    BY <2>3 DEF Reschedule, TypeInv, RedisOK
  <2> QED
    BY <1>4, <2>1, <2>2, <2>3 DEF RowStep, StartDrain, DrainNext, StillQueued, NoLongerQueued,
                                  PollAnswered, ListReady, redis
<1>5. CASE SharedStep(f) \/ EventStep(f) \/ Claim(f)
  <2>1. CASE ToDevice(f)
    BY <1>2, <2>1 DEF ToDevice, advance
  <2>2. CASE RetryExec(f) \/ Claim(f)
    BY <1>1, <2>2 DEF RetryExec, Claim
  <2>3. CASE Purge(f)
    BY <2>3 DEF Purge, TypeInv, RedisOK
  <2> QED
    BY <1>5, <2>1, <2>2, <2>3 DEF SharedStep, FailRead, Notify, Zscore, Hmget, EventStep, Lookup,
                                  NackRead, OkRead, redis
<1> QED
  BY <1>3, <1>4, <1>5 DEF FlowStep

\* A message in no queue is put into one by enterRetry only.
LEMMA EmptyStays ==
  ASSUME TypeInv, NEW f \in Flows, FlowStep(f), NEW m \in Messages, queue[m] = {},
         flow[f].msg # m \/ ~RetryExec(f)
  PROVE  queue'[m] = {}
<1> USE DEF TypeInv
<1>1. ASSUME NEW o, NEW from, NEW to, NEW status, NEW ref, Move(o, from, to, status, ref)
      PROVE  queue'[m] = {}
  BY <1>1 DEF Move, Movable, Transfer, Leave, RedisOK
<1>2. CASE f \in Passes /\ PassStep(f)
  <2>1. CASE SendOk(f)
    BY <1>1, <2>1 DEF SendOk, advance
  <2>2. ASSUME NEW o \in Messages, Pick(f, o) PROVE queue'[m] = {}
    BY <2>2 DEF Pick, Transfer, Leave, RedisOK
  <2> QED
    BY <1>2, <2>1, <2>2, AdmissionSteps
    DEF PassStep, EmitSent, VendorAccepts, SendFailed, redis
<1>3. CASE f \in Rows /\ RowStep(f)
  <2>1. CASE Requeue(f)
    BY <1>1, <2>1 DEF Requeue
  <2>2. CASE Scrub(f)
    BY <2>2 DEF Scrub, Leave, RedisOK
  <2> QED
    BY <1>3, <2>1, <2>2 DEF RowStep, StartDrain, DrainNext, StillQueued, NoLongerQueued,
                            PollAnswered, ListReady, Reschedule, redis
<1>4. CASE SharedStep(f) \/ EventStep(f) \/ Claim(f)
  <2>1. CASE ToDevice(f)
    BY <1>1, <2>1 DEF ToDevice, advance
  <2>2. CASE Purge(f) \/ Claim(f)
    BY <2>2 DEF Purge, Claim, Leave, RedisOK
  <2>3. CASE RetryExec(f)
    <3>1. flow[f].msg # m /\ flow[f].msg \in Messages
      BY <2>3 DEF RetryExec, FlowsOK, FlowOK, Unattached
    <3> QED
      BY <2>3, <3>1 DEF RetryExec, Transfer, RedisOK
  <2> QED
    BY <1>4, <2>1, <2>2, <2>3 DEF SharedStep, FailRead, Notify, Zscore, Hmget, EventStep, Lookup,
                                  NackRead, OkRead, redis
<1> QED
  BY <1>2, <1>3, <1>4 DEF FlowStep

LEMMA RowGains ==
  ASSUME Pattern = "PULL", PullInv, PullInv', NEW f \in Flows, FlowStep(f),
         NEW r \in Rows, NEW m \in Messages, RowHas(r, m)'
  PROVE  RowHas(r, m) \/ (r \in due[m] /\ r \in queue[m])
<1> USE DEF PullInv, LifeOK
<1>1. r \in Flows /\ r \notin Passes
  BY Kinds
<1>2. CASE m \in todo'[r]
  BY <1>2, TodoGrows DEF RowHas
<1>3. CASE flow'[r].msg = m
  <2>1. InHandOf(r, m)'
    BY <1>1, <1>3, ConstantsAssumption DEF FlowsLegal, Legal, InHandOf
  <2>2. CASE r # f
    BY <1>1, <1>3, <2>2, OthersStay DEF RowHas
  <2>3. CASE r = f /\ InHandOf(f, m)
    BY <2>3 DEF InHandOf, RowHas
  <2>4. CASE r = f /\ ~InHandOf(f, m)
    BY <1>1, <2>1, <2>4, Elsewhere DEF PassPicks, RowHas
  <2> QED
    BY <2>2, <2>3, <2>4
<1> QED
  BY <1>2, <1>3 DEF RowHas

\* It holds on this pipeline in every interleaving.
LEMMA EndsExclusive ==
  ASSUME Pattern = "PULL", PullInv, AllNsAlone
  PROVE  EndsApart
<1> SUFFICES ASSUME NEW m \in Messages, NEW f \in Flows \ Cancels, NEW g \in Flows \ Cancels,
                    hash[m].whole, flow[f].msg = m, flow[g].msg = m,
                    flow[f].pc \in Purging \cup {"hmget", "retryExec"},
                    flow[g].pc \in Purging \cup {"hmget", "retryExec"}
             PROVE  f = g
  BY DEF EndsApart
<1> NsAlone(m)
  BY DEF AllNsAlone
<1> USE PullTable, Kinds DEF PullInv, LifeOK
<1>1. MessageOK(m) /\ Legal(f, flow[f]) /\ Legal(g, flow[g])
  BY DEF FlowsLegal
<1>2. f \in Passes \cup {"ns", "awaitingTask"} /\ g \in Passes \cup {"ns", "awaitingTask"}
  BY <1>1 DEF Legal, Purging, Flows
<1>3. ASSUME NEW p \in Passes, flow[p].msg = m,
             NEW r \in {"ns", "awaitingTask"}, flow[r].msg = m,
             flow[r].pc \in Purging \cup {"hmget", "retryExec"}
      PROVE  FALSE
  <2>1. PassHas(p, m) /\ RowHolds(r, m) /\ RowHas(r, m)
    BY <1>1, <1>3 DEF MessageOK, Holds, RowHas
  <2>2. hash[m].status = "SENT_TO_NS"
    BY <2>1 DEF PassHas
  <2>3. CASE r = "ns"
    BY <1>3, <2>1, <2>3 DEF RowHolds, Purging
  <2>4. CASE r = "awaitingTask"
    BY <1>1, <2>1, <2>2, <2>4 DEF MessageOK, Listed
  <2> QED
    BY <2>3, <2>4
<1>4. ASSUME f \in Passes, g \in Passes PROVE f = g
  BY <1>1, <1>4 DEF MessageOK, Holds, PassHas
<1>5. ASSUME f \in {"ns", "awaitingTask"}, g \in {"ns", "awaitingTask"} PROVE f = g
  BY <1>5 DEF NsAlone, RowHas
<1> QED
  BY <1>2, <1>3, <1>4, <1>5

LEMMA PullExcludes ==
  ASSUME Pattern = "PULL", PullInv, EndInv
  PROVE  NoPurgeMeetsRetry
<1> SUFFICES ASSUME NEW f \in Flows, NEW g \in Flows,
                    flow[f].pc = "purge", flow[g].pc \in {"hmget", "retryExec"},
                    flow[f].msg = flow[g].msg, hash[flow[f].msg].whole
             PROVE  FALSE
  BY DEF NoPurgeMeetsRetry
<1> USE DEF PullInv, LifeOK
<1> DEFINE m == flow[f].msg
<1>1. m \in Messages
  BY DEF TypeInv, FlowsOK, FlowOK, Unattached
<1>2. g \notin Cancels
  BY DEF FlowsLegal, Legal
<1>3. CASE f \in Cancels
  <2>1. queue[m] = {}
    BY <1>1, <1>3 DEF EndInv, CancelOwns
  <2>2. flow[g].from \in queue[m]
    BY <1>1 DEF MessageOK, Holds, Retrying
  <2> QED
    BY <2>1, <2>2
<1>4. CASE f \notin Cancels
  BY <1>1, <1>2, <1>4, EndsExclusive DEF EndInv, EndsApart, Purging
<1> QED
  BY <1>3, <1>4

LEMMA NsAloneFlow ==
  ASSUME Pattern = "PULL", PullInv, PullInv', NEW f \in Flows, FlowStep(f),
         NEW m \in Messages, NsAlone(m)
  PROVE  NsAlone(m)'
<1> USE PullTable DEF PullInv, LifeOK
<1> SUFFICES ASSUME hash'[m].whole, RowHas("ns", m)'
             PROVE  ~RowHas("awaitingTask", m)' /\ "awaitingTask" \notin due'[m]
  BY DEF NsAlone
<1>1. hash[m].whole /\ MessageOK(m)
  BY FieldsNotGiven
<1>2. ~RowHas("awaitingTask", m) /\ "awaitingTask" \notin due[m]
  <2>1. CASE RowHas("ns", m)
    BY <1>1, <2>1 DEF NsAlone
  <2>2. CASE "ns" \in due[m] /\ "ns" \in queue[m]
    <3>1. hash[m].status = "SENT_TO_NS" /\ queue[m] = {"ns"} /\ due[m] \subseteq queue[m]
      BY <1>1, <2>2, StatusQueue
    <3> QED
      BY <1>1, <3>1 DEF MessageOK, Listed
  <2> QED
    BY <2>1, <2>2, RowGains
<1> QED
  BY <1>2, RowGains, DueShrinks

LEMMA CancelOwnsFlow ==
  ASSUME Pattern = "PULL", PullInv, NEW f \in Flows, FlowStep(f), NEW m \in Messages, CancelOwns(m)
  PROVE  CancelOwns(m)'
<1> USE DEF PullInv, LifeOK
<1> SUFFICES ASSUME NEW c \in Cancels, hash'[m].whole, flow'[c].msg = m, flow'[c].pc = "purge"
             PROVE  queue'[m] = {}
  BY DEF CancelOwns
<1>1. hash[m].whole /\ MessageOK(m) /\ Legal(c, flow[c])
  BY FieldsNotGiven, Kinds DEF FlowsLegal
<1>2. CASE c = f
  <2>1. Claim(f) \/ Purge(f)
    BY <1>1, <1>2, Kinds
    DEF Legal, FlowStep, SharedStep, FailRead, Notify, Zscore, Hmget, RetryExec,
        EventStep, Lookup, ToDevice, NackRead, OkRead
  <2>2. ~Purge(f)
    <3>1. Ended(f, "removed") = Idle
      BY <1>2, Kinds DEF Ended, AfterMember
    <3> QED
      BY <1>2, <3>1 DEF Purge, Finish, TypeInv, FlowsOK, Idle
  <2>3. claimed(f) /\ flow[f].msg = m /\ Leave(m, flow[f].from)
    BY <1>2, <2>1, <2>2 DEF Claim, Goto, TypeInv, FlowsOK, FlowRecord, Idle
  <2>4. queue[m] \subseteq {flow[f].from}
    BY <1>1, <2>3 DEF claimed, MessageOK, Stored
  <2> QED
    BY <2>3, <2>4 DEF Leave, TypeInv, RedisOK
<1>3. CASE c # f
  <2>1. flow[c].msg = m /\ flow[c].pc = "purge"
    BY <1>3, OthersStay, Kinds
  <2>2. queue[m] = {}
    BY <1>1, <2>1 DEF CancelOwns
  <2>3. flow[f].msg # m \/ ~RetryExec(f)
    BY <1>1, <2>2 DEF RetryExec, MessageOK, Holds, Retrying
  <2> QED
    BY <2>2, <2>3, EmptyStays
<1> QED
  BY <1>2, <1>3

LEMMA OneEndingFlow ==
  ASSUME Pattern = "PULL", PullInv, PullInv', OneEnding, AllNsAlone',
         NEW f \in Flows, FlowStep(f)
  PROVE  OneEnding'
<1> USE DEF PullInv, LifeOK
<1>0. EndsApart'
  BY EndsExclusive, PTL
<1>1. ASSUME NEW g \in Flows \ Cancels, NEW h \in Flows \ Cancels, g # f, g # h,
             flow'[g].pc \in Purging, flow'[h].pc \in Purging, flow'[g].msg = flow'[h].msg
      PROVE  FALSE
  <2>1. flow'[g] = flow[g]
    BY <1>1, OthersStay
  <2>2. CASE h # f
    BY <1>1, <2>1, <2>2, OthersStay DEF OneEnding
  <2>3. CASE h = f /\ flow'[f].pc = "notify"
    <3>1. hash'[flow'[f].msg].whole
      BY <2>3, NotifyEntered
    <3>2. flow'[f].msg \in Messages
      BY <2>3 DEF TypeInv, FlowsOK, FlowOK, Unattached
    <3> QED
      BY <1>0, <1>1, <2>3, <3>1, <3>2 DEF EndsApart, Purging
  <2>4. CASE h = f /\ flow'[f].pc = "purge"
    <3>1. Notify(f)
      BY <1>1, <2>4, PurgeEntered
    <3>2. flow[f].pc = "notify" /\ flow'[f].msg = flow[f].msg
      BY <3>1 DEF Notify, Goto, TypeInv, FlowsOK, FlowRecord
    <3> QED
      BY <1>1, <2>1, <2>4, <3>2 DEF OneEnding, Purging
  <2> QED
    BY <1>1, <2>2, <2>3, <2>4 DEF Purging
<1> QED
  BY <1>1 DEF OneEnding

LEMMA EndEnvironment ==
  ASSUME Pattern = "PULL", PullInv, EndInv, Environment
  PROVE  EndInv'
<1> USE PullTable, Kinds DEF PullInv, LifeOK, TypeInv
<1>0. OneEnding /\ \A m \in Messages : NsAlone(m) /\ CancelOwns(m)
  BY DEF EndInv, AllNsAlone
<1>1. ASSUME NEW o \in Messages, Enqueue(o) PROVE EndInv'
  <2>1. UNCHANGED <<due, flow, todo>> /\ fate[o] = "new"
    BY <1>1 DEF Enqueue, memory
  <2>2. \A m \in Messages \ {o} : hash'[m] = hash[m] /\ queue'[m] = queue[m]
    BY <1>1 DEF Enqueue, RedisOK
  <2>3. \A m \in Messages \ {o} : NsAlone(m)' /\ CancelOwns(m)'
    BY <1>0, <2>1, <2>2 DEF NsAlone, CancelOwns, RowHas
  <2>4. (\A f \in Flows : flow[f].msg # o) /\ (\A r \in Rows : o \notin todo[r])
    BY <2>1 DEF MessageOK, Unborn
  <2>5. NsAlone(o)' /\ CancelOwns(o)'
    BY <2>1, <2>4 DEF NsAlone, CancelOwns, RowHas
  <2>6. OneEnding'
    BY <1>0, <2>1 DEF OneEnding
  <2> QED
    BY <2>3, <2>5, <2>6 DEF EndInv, AllNsAlone
<1>2. ASSUME NEW o \in Messages, Expire(o) PROVE EndInv'
  <2>1. UNCHANGED <<queue, due, flow, todo>>
    BY <1>2 DEF Expire, memory
  <2>2. \A m \in Messages : hash'[m].whole => hash[m].whole
    BY <1>2, NoHashFields DEF Expire, RedisOK
  <2> QED
    BY <1>0, <2>1, <2>2 DEF EndInv, AllNsAlone, OneEnding, NsAlone, CancelOwns, RowHas
<1>3. ASSUME NEW o \in Messages, GrowsOld(o) PROVE EndInv'
  BY <1>0, <1>3 DEF GrowsOld, redis, memory, EndInv, AllNsAlone, OneEnding, NsAlone, CancelOwns, RowHas
<1>4. ASSUME NEW o \in Messages, NEW s \in STAGES, BecomesDue(o, s) PROVE EndInv'
  <2>1. UNCHANGED <<hash, queue, flow, todo>> /\ ~Busy(o)
    BY <1>4 DEF BecomesDue, memory
  <2>2. \A m \in Messages \ {o} : due'[m] = due[m]
    BY <1>4 DEF BecomesDue, RedisOK
  <2>3. ~RowHas("ns", o)
    <3>1. flow["ns"].msg = o => Working("ns", o)
      BY Attached DEF FlowsLegal, Legal, Working, Unattached, RetrySteps, Purging
    <3> QED
      BY <2>1, <3>1 DEF Busy, RowHas
  <2>4. \A m \in Messages : NsAlone(m)' /\ CancelOwns(m)'
    BY <1>0, <2>1, <2>2, <2>3 DEF NsAlone, CancelOwns, RowHas
  <2> QED
    BY <1>0, <2>1, <2>4 DEF EndInv, AllNsAlone, OneEnding
<1>5. ASSUME NEW o \in Messages, NEW c \in Cancels, StartCancel(c, o) PROVE EndInv'
  <2>1. UNCHANGED <<hash, queue, due, todo>>
    BY <1>5 DEF StartCancel, redis
  <2>2. flow'[c].pc = "claim" /\ \A g \in Flows \ {c} : flow'[g] = flow[g]
    BY <1>5 DEF StartCancel, FlowsOK, Idle
  <2>3. OneEnding'
    BY <1>0, <2>2 DEF OneEnding
  <2>4. \A m \in Messages : NsAlone(m)' /\ CancelOwns(m)'
    BY <1>0, <2>1, <2>2 DEF NsAlone, CancelOwns, RowHas
  <2> QED
    BY <2>3, <2>4 DEF EndInv, AllNsAlone
<1>6. CASE Crash
  <2>1. UNCHANGED <<hash, queue, due>> /\ \A g \in Flows : flow'[g] = Idle
    BY <1>6 DEF Crash, redis
  <2>2. \A r \in Rows : todo'[r] = {}
    BY <1>6 DEF Crash
  <2>3. Idle.pc = "idle" /\ Idle.msg = NoMsg
    BY DEF Idle
  <2>4. OneEnding'
    BY <2>1, <2>3 DEF OneEnding, Purging
  <2>5. \A m \in Messages : NsAlone(m)' /\ CancelOwns(m)'
    BY <2>1, <2>2, <2>3, ConstantsAssumption DEF NsAlone, CancelOwns, RowHas
  <2> QED
    BY <2>4, <2>5 DEF EndInv, AllNsAlone
<1>7. \A o, h, ref, status : ~Ingress(h, o, ref, status)
  BY DEF Ingress
<1> QED
  BY <1>1, <1>2, <1>3, <1>4, <1>5, <1>6, <1>7 DEF Environment

LEMMA NextEnd ==
  ASSUME Pattern = "PULL", PullInv, PullInv', EndInv, [Next]_vars
  PROVE  EndInv'
<1>1. ASSUME NEW f \in Flows, FlowStep(f) PROVE EndInv'
  BY <1>1, NsAloneFlow, CancelOwnsFlow, OneEndingFlow DEF EndInv, AllNsAlone
<1>2. CASE Environment
  BY <1>2, EndEnvironment
<1>3. CASE UNCHANGED vars
  BY <1>3 DEF vars, EndInv, AllNsAlone, OneEnding, NsAlone, CancelOwns, RowHas
<1> QED
  BY <1>1, <1>2, <1>3, StepCases

LEMMA PullEndInvariant == ASSUME Pattern = "PULL" PROVE Spec => [](PullInv /\ EndInv)
<1>1. Init => EndInv
  <2> SUFFICES ASSUME Init PROVE EndInv
    OBVIOUS
  <2>1. \A f \in Flows : flow[f].pc = "idle"
    BY DEF Init, Idle
  <2>2. \A m \in Messages : ~hash[m].whole
    BY NoHashFields DEF Init
  <2> QED
    BY <2>1, <2>2 DEF EndInv, AllNsAlone, OneEnding, NsAlone, CancelOwns, Purging
<1>2. Init => PullInv
  BY InitPullInv
<1>3. PullInv /\ EndInv /\ [Next]_vars => PullInv' /\ EndInv'
  BY NextPullInv, NextEnd
<1> QED
  BY <1>1, <1>2, <1>3, PTL DEF Spec

\* On the PULL pipeline one verdict is told in every interleaving of sends, polls,
\* deadlines and cancels, expiry included, while the process lives.
THEOREM PullOneVerdict == ASSUME Pattern = "PULL" PROVE Spec /\ [][~Crash]_vars => []OneVerdict
<1>1. Init => TypeInv /\ VerdictInv
  BY InitTypeInv, InitVerdict
<1>2. EndInv => OneEnding
  BY DEF EndInv, AllNsAlone
<1>3. TypeInv /\ VerdictInv /\ OneEnding' /\ [Next]_vars /\ [~Crash]_vars => TypeInv' /\ VerdictInv'
  BY NextTypeInv, NextVerdict
<1>4. VerdictInv => OneVerdict
  BY DEF VerdictInv, VerdictOK, OneVerdict
<1> QED
  BY <1>1, <1>2, <1>3, <1>4, PullEndInvariant, PTL DEF Spec

\* On the PULL pipeline a purged hash stays gone in every interleaving, crashes
\* and expiry of other hashes included.
THEOREM PullGoneStaysGone == ASSUME Pattern = "PULL" PROVE Spec => GoneStaysGone
<1>1. Init => TypeInv /\ GoneInv
  BY InitTypeInv, InitGone
<1>2. PullInv /\ EndInv => NoPurgeMeetsRetry
  BY PullExcludes
<1>3. TypeInv /\ GoneInv /\ NoPurgeMeetsRetry /\ [Next]_vars => TypeInv' /\ GoneInv'
  BY NextTypeInv, NextGone
<1>4. TypeInv /\ GoneInv /\ GoneInv' /\ [Next]_vars
        => [\A m \in Messages :
              fate[m] \notin {"new", "expired"} /\ ~hash[m].exists => ~hash'[m].exists]_vars
  BY NoHashMade
<1> QED
  BY <1>1, <1>2, <1>3, <1>4, PullEndInvariant, PTL DEF Spec, GoneStaysGone
=============================================================================
