----------------------------- MODULE Correlator -----------------------------
(***************************************************************************)
(* The request/response correlator of the ChirpStack plugin.  One uplink   *)
(* of a meter may carry the acknowledgement of a downlink and the meter's  *)
(* reply; the network server posts them as two HTTP events with the same   *)
(* deduplicationId, in either order, possibly more than once or not at     *)
(* all.  Handling an event awaits nothing, so it is one step.              *)
(*                                                                         *)
(* Events that never reach the correlator (txack, nack, join, automatic    *)
(* reports, frames that do not decode) go straight to processEvent or are  *)
(* dropped, and change nothing here.                                       *)
(***************************************************************************)
EXTENDS Naturals

CONSTANTS
    Uplinks,       \* uplinks with a decodable solicited reply, by deduplicationId
    Items,         \* queue items of the network server, by queueItemId
    NoItem,        \* "acknowledges nothing"
    TTL,           \* CORRELATION_TTL_MS, in clock units
    GcInterval,    \* GC_INTERVAL_MS, in clock units
    MaxPosts,      \* bound: posts of each half of an uplink while the process lives
    MaxTime,       \* bound: clock
    MaxRestarts    \* bound: process restarts

ASSUME CorrelatorAssumption ==
    /\ TTL \in Nat /\ GcInterval \in Nat \ {0}
    /\ MaxPosts \in Nat /\ MaxTime \in Nat /\ MaxRestarts \in Nat
    /\ NoItem \notin Items

VARIABLES
    carries,   \* world: the item each uplink acknowledges
    pending,   \* in-memory: pendingCorrelations, by deduplicationId
    now,       \* Date.now()
    lastGc,    \* when the garbage collection last ran
    paired,    \* ghost: item and reply of each combined event ever returned
    joins,     \* ghost: combined events with the reply of each uplink, since the start
    acks, ups, \* ghost: posts of each half since the process started...
    ackAt, upAt, \* ghost: ... and when the last one came, 0 if none did
    restarts   \* ghost: restarts so far

ghosts == <<paired, joins, acks, ups, ackAt, upAt, restarts>>
vars   == <<carries, pending, now, lastGc, paired, joins, acks, ups, ackAt, upAt, restarts>>

-----------------------------------------------------------------------------
\* An entry holds the half that came first and the uplink it came with.
Entry == [kind: {"none", "ack", "up"}, from: Uplinks, timestamp: Nat]

NoEntry(u) == [kind |-> "none", from |-> u, timestamp |-> 0]

TypeOK ==
    /\ carries \in [Uplinks -> Items \cup {NoItem}]
    /\ pending \in [Uplinks -> Entry]
    /\ now \in 1..(MaxTime + 1)
    /\ lastGc \in 1..(MaxTime + 1)
    /\ paired \in SUBSET (Items \X Uplinks)
    /\ joins \in [Uplinks -> Nat]
    /\ acks \in [Uplinks -> 0..MaxPosts]
    /\ ups \in [Uplinks -> 0..MaxPosts]
    /\ ackAt \in [Uplinks -> Nat]
    /\ upAt \in [Uplinks -> Nat]
    /\ restarts \in 0..MaxRestarts

NoneYet == [u \in Uplinks |-> 0]

EmptyMap == [u \in Uplinks |-> NoEntry(u)]

Init ==
    /\ carries \in [Uplinks -> Items \cup {NoItem}]
    /\ now = 1
    /\ lastGc = 1
    /\ paired = {}
    /\ restarts = 0
    /\ pending = EmptyMap
    /\ joins = NoneYet
    /\ acks = NoneYet /\ ups = NoneYet
    /\ ackAt = NoneYet /\ upAt = NoneYet

-----------------------------------------------------------------------------
(* The map *)

\* The key of both halves of uplink u.
keyByDevice(u) == CHOOSE v \in Uplinks : TRUE   \* seeded fault: one key per device
deduplicationId(u) == u

\* A combined event: the item of the acknowledgement, the reply of the other half.
Combined(item, reply) ==
    /\ paired' = paired \cup {<<item, reply>>}
    /\ joins' = [joins EXCEPT ![reply] = @ + 1]

JoinKeepsEntry(k, item, reply) ==        \* seeded fault: the entry is not deleted
    /\ pending' = pending
    /\ Combined(item, reply)

Join(k, item, reply) ==
    /\ pending' = [pending EXCEPT ![k] = NoEntry(k)]
    /\ Combined(item, reply)

AwaitStoresItem(k, kind, u) ==           \* seeded fault: the item is stored for the uplink
    /\ pending' = [pending EXCEPT ![k] = [kind |-> kind, from |-> carries[u], timestamp |-> now]]
    /\ UNCHANGED <<paired, joins>>

\* set: it replaces an entry with the same half and stamps it anew.
Await(k, kind, u) ==
    /\ pending' = [pending EXCEPT ![k] = [kind |-> kind, from |-> u, timestamp |-> now]]
    /\ UNCHANGED <<paired, joins>>

\* A positive acknowledgement with a queueItemId.
onAckEvent(u) ==
    LET k == deduplicationId(u)
    IN  /\ carries[u] # NoItem
        /\ acks[u] < MaxPosts
        /\ acks' = [acks EXCEPT ![u] = @ + 1]
        /\ ackAt' = [ackAt EXCEPT ![u] = now]
        /\ IF pending[k].kind = "up" THEN Join(k, carries[u], pending[k].from)
                                     ELSE Await(k, "ack", u)
        /\ UNCHANGED <<carries, now, lastGc, ups, upAt, restarts>>

\* A decoded reply.
onUpEvent(u) ==
    LET k == deduplicationId(u)
    IN  /\ ups[u] < MaxPosts
        /\ ups' = [ups EXCEPT ![u] = @ + 1]
        /\ upAt' = [upAt EXCEPT ![u] = now]
        /\ IF pending[k].kind = "ack" THEN Join(k, carries[pending[k].from], u)
                                      ELSE Await(k, "up", u)
        /\ UNCHANGED <<carries, now, lastGc, acks, ackAt, restarts>>

-----------------------------------------------------------------------------
(* Time and the process *)

staleAtTtl(u) == now - pending[u].timestamp >= TTL   \* seeded fault: off by one
staleNever(u) == FALSE                   \* seeded fault: nothing is collected
stale(u) == now - pending[u].timestamp > TTL

\* The interval timer fires.
runGarbageCollection ==
    /\ now - lastGc = GcInterval
    /\ lastGc' = now
    /\ pending' = [u \in Uplinks |-> IF stale(u) THEN NoEntry(u) ELSE pending[u]]
    /\ UNCHANGED <<carries, now, ghosts>>

\* Time goes on, but not past a due collection: the event loop is not blocked.
Tick ==
    /\ now <= MaxTime
    /\ now - lastGc < GcInterval
    /\ now' = now + 1
    /\ UNCHANGED <<carries, pending, lastGc, ghosts>>

\* The process dies and starts again; the map and the timer start anew.
Restart ==
    /\ restarts < MaxRestarts
    /\ restarts' = restarts + 1
    /\ lastGc' = now
    /\ pending' = EmptyMap
    /\ joins' = NoneYet
    /\ acks' = NoneYet /\ ups' = NoneYet
    /\ ackAt' = NoneYet /\ upAt' = NoneYet
    /\ UNCHANGED <<carries, now, paired>>

Next ==
    \/ \E u \in Uplinks : onAckEvent(u) \/ onUpEvent(u)
    \/ runGarbageCollection \/ Tick \/ Restart

Spec == Init /\ [][Next]_vars

-----------------------------------------------------------------------------
(* Properties *)

\* A combined event reports the reply of the very uplink that acknowledged the
\* item: the reply of one command is never taken for that of another, whatever
\* order the halves of several uplinks come in.
PairedByUplink == \A pair \in paired : carries[pair[2]] = pair[1]

\* Each combined event uses up one post of each half: a repeated half does not
\* report a delivery again by itself.
JoinsUseBothHalves == \A u \in Uplinks : joins[u] <= acks[u] /\ joins[u] <= ups[u]

\* No delivery is missed: when both halves reached this process no further apart
\* than the TTL, in either order and repeated or not, they were combined, even if
\* a collection ran in between.
PromptHalvesJoin ==
    \A u \in Uplinks :
        /\ ackAt[u] > 0 /\ upAt[u] > 0
        /\ ackAt[u] <= upAt[u] + TTL /\ upAt[u] <= ackAt[u] + TTL
        => joins[u] > 0

\* The map does not grow with halves whose other half was lost: none outlives the
\* TTL by more than one collection interval.
HalvesCollected ==
    \A u \in Uplinks :
        pending[u].kind # "none" => now <= pending[u].timestamp + TTL + GcInterval
=============================================================================
