-------------------------- MODULE Correlator_proofs -------------------------
(***************************************************************************)
(* Proofs about Correlator, for every set of uplinks and items, every TTL  *)
(* and collection interval, and any number of repeated posts and restarts. *)
(***************************************************************************)
EXTENDS Correlator, TLAPS

\* An entry was made by the uplink whose key it is under; only an uplink that
\* acknowledges something leaves an "ack" half.
EntryOwned(u) ==
    /\ pending[u].from = u
    /\ pending[u].kind = "ack" => carries[u] # NoItem

\* The half an entry waits with has not been counted in a combined event yet.
HalfSpare(u) ==
    /\ joins[u] <= acks[u] /\ joins[u] <= ups[u]
    /\ pending[u].kind = "ack" => joins[u] < acks[u]
    /\ pending[u].kind = "up" => joins[u] < ups[u]

\* An entry was not stale at the last collection.
EntryYoung(u) ==
    pending[u].kind # "none" => pending[u].timestamp <= now /\ lastGc <= pending[u].timestamp + TTL

\* As long as nothing was combined, a half is waiting or is older than the TTL.
HalfWaitsOrStale(u) ==
    joins[u] = 0 =>
        /\ ackAt[u] > 0 => \/ pending[u].kind = "ack" /\ pending[u].timestamp = ackAt[u]
                           \/ now > ackAt[u] + TTL
        /\ upAt[u] > 0 => \/ pending[u].kind = "up" /\ pending[u].timestamp = upAt[u]
                          \/ now > upAt[u] + TTL

Prompt(u) ==
    /\ ackAt[u] > 0 /\ upAt[u] > 0
    /\ ackAt[u] <= upAt[u] + TTL /\ upAt[u] <= ackAt[u] + TTL
    => joins[u] > 0

UplinkInv(u) ==
    EntryOwned(u) /\ HalfSpare(u) /\ EntryYoung(u) /\ HalfWaitsOrStale(u) /\ Prompt(u)

ClockInv == lastGc <= now /\ now <= lastGc + GcInterval

CorrelatorInv ==
    TypeOK /\ ClockInv /\ PairedByUplink /\ \A u \in Uplinks : UplinkInv(u)

-----------------------------------------------------------------------------
\* The map is empty and nothing has been posted at the start.
LEMMA CorrelatorInit == Init => CorrelatorInv
  BY CorrelatorAssumption
     DEF Init, CorrelatorInv, TypeOK, ClockInv, PairedByUplink, UplinkInv, EntryOwned, HalfSpare,
         EntryYoung, HalfWaitsOrStale, Prompt, EmptyMap, NoneYet, NoEntry, Entry

\* An acknowledgement: what it does to the entry of its own uplink, and that it
\* leaves the others alone.
LEMMA AckStep == ASSUME CorrelatorInv, NEW u \in Uplinks, onAckEvent(u) PROVE CorrelatorInv'
  <1> USE CorrelatorAssumption DEF CorrelatorInv, TypeOK, Entry, NoEntry, deduplicationId
  <1>1. UplinkInv(u)
    OBVIOUS
  <1>2. CASE pending[u].kind = "up"
    <2>1. /\ pending' = [pending EXCEPT ![u] = NoEntry(u)]
          /\ paired' = paired \cup {<<carries[u], u>>}
          /\ joins' = [joins EXCEPT ![u] = @ + 1]
          /\ carries[u] \in Items
      BY <1>1, <1>2 DEF onAckEvent, Join, Combined, UplinkInv, EntryOwned
    <2>2. /\ acks' = [acks EXCEPT ![u] = @ + 1] /\ acks[u] < MaxPosts
          /\ ackAt' = [ackAt EXCEPT ![u] = now]
          /\ UNCHANGED <<carries, now, lastGc, ups, upAt, restarts>>
      BY DEF onAckEvent
    <2>3. TypeOK'
      BY <2>1, <2>2
    <2>4. PairedByUplink'
      BY <2>1, <2>2 DEF PairedByUplink
    <2>5. UplinkInv(u)'
      BY <1>1, <1>2, <2>1, <2>2
         DEF UplinkInv, EntryOwned, HalfSpare, EntryYoung, HalfWaitsOrStale, Prompt
    <2>6. ASSUME NEW v \in Uplinks, v # u PROVE UplinkInv(v)'
      BY <2>1, <2>2, <2>6 DEF UplinkInv, EntryOwned, HalfSpare, EntryYoung, HalfWaitsOrStale, Prompt
    <2> QED
      BY <2>2, <2>3, <2>4, <2>5, <2>6 DEF ClockInv
  <1>3. CASE pending[u].kind # "up"
    <2>1. /\ pending' = [pending EXCEPT ![u] = [kind |-> "ack", from |-> u, timestamp |-> now]]
          /\ UNCHANGED <<paired, joins>>
      BY <1>3 DEF onAckEvent, Await
    <2>2. /\ acks' = [acks EXCEPT ![u] = @ + 1] /\ acks[u] < MaxPosts
          /\ ackAt' = [ackAt EXCEPT ![u] = now]
          /\ carries[u] # NoItem
          /\ UNCHANGED <<carries, now, lastGc, ups, upAt, restarts>>
      BY DEF onAckEvent
    <2>3. TypeOK'
      BY <2>1, <2>2
    <2>4. PairedByUplink'
      BY <2>1, <2>2 DEF PairedByUplink
    <2>5. UplinkInv(u)'
      BY <1>1, <1>3, <2>1, <2>2
         DEF ClockInv, UplinkInv, EntryOwned, HalfSpare, EntryYoung, HalfWaitsOrStale, Prompt
    <2>6. ASSUME NEW v \in Uplinks, v # u PROVE UplinkInv(v)'
      BY <2>1, <2>2, <2>6 DEF UplinkInv, EntryOwned, HalfSpare, EntryYoung, HalfWaitsOrStale, Prompt
    <2> QED
      BY <2>2, <2>3, <2>4, <2>5, <2>6 DEF ClockInv
  <1> QED
    BY <1>2, <1>3

\* A reply, likewise.
LEMMA UpStep == ASSUME CorrelatorInv, NEW u \in Uplinks, onUpEvent(u) PROVE CorrelatorInv'
  <1> USE CorrelatorAssumption DEF CorrelatorInv, TypeOK, Entry, NoEntry, deduplicationId
  <1>1. UplinkInv(u)
    OBVIOUS
  <1>2. CASE pending[u].kind = "ack"
    <2>1. /\ pending' = [pending EXCEPT ![u] = NoEntry(u)]
          /\ paired' = paired \cup {<<carries[u], u>>}
          /\ joins' = [joins EXCEPT ![u] = @ + 1]
          /\ carries[u] \in Items
      BY <1>1, <1>2 DEF onUpEvent, Join, Combined, UplinkInv, EntryOwned
    <2>2. /\ ups' = [ups EXCEPT ![u] = @ + 1] /\ ups[u] < MaxPosts
          /\ upAt' = [upAt EXCEPT ![u] = now]
          /\ UNCHANGED <<carries, now, lastGc, acks, ackAt, restarts>>
      BY DEF onUpEvent
    <2>3. TypeOK'
      BY <2>1, <2>2
    <2>4. PairedByUplink'
      BY <2>1, <2>2 DEF PairedByUplink
    <2>5. UplinkInv(u)'
      BY <1>1, <1>2, <2>1, <2>2
         DEF UplinkInv, EntryOwned, HalfSpare, EntryYoung, HalfWaitsOrStale, Prompt
    <2>6. ASSUME NEW v \in Uplinks, v # u PROVE UplinkInv(v)'
      BY <2>1, <2>2, <2>6 DEF UplinkInv, EntryOwned, HalfSpare, EntryYoung, HalfWaitsOrStale, Prompt
    <2> QED
      BY <2>2, <2>3, <2>4, <2>5, <2>6 DEF ClockInv
  <1>3. CASE pending[u].kind # "ack"
    <2>1. /\ pending' = [pending EXCEPT ![u] = [kind |-> "up", from |-> u, timestamp |-> now]]
          /\ UNCHANGED <<paired, joins>>
      BY <1>3 DEF onUpEvent, Await
    <2>2. /\ ups' = [ups EXCEPT ![u] = @ + 1] /\ ups[u] < MaxPosts
          /\ upAt' = [upAt EXCEPT ![u] = now]
          /\ UNCHANGED <<carries, now, lastGc, acks, ackAt, restarts>>
      BY DEF onUpEvent
    <2>3. TypeOK'
      BY <2>1, <2>2
    <2>4. PairedByUplink'
      BY <2>1, <2>2 DEF PairedByUplink
    <2>5. UplinkInv(u)'
      BY <1>1, <1>3, <2>1, <2>2
         DEF ClockInv, UplinkInv, EntryOwned, HalfSpare, EntryYoung, HalfWaitsOrStale, Prompt
    <2>6. ASSUME NEW v \in Uplinks, v # u PROVE UplinkInv(v)'
      BY <2>1, <2>2, <2>6 DEF UplinkInv, EntryOwned, HalfSpare, EntryYoung, HalfWaitsOrStale, Prompt
    <2> QED
      BY <2>2, <2>3, <2>4, <2>5, <2>6 DEF ClockInv
  <1> QED
    BY <1>2, <1>3

\* The collection removes what is older than the TTL, and nothing else.
LEMMA CollectionStep == ASSUME CorrelatorInv, runGarbageCollection PROVE CorrelatorInv'
  <1> USE CorrelatorAssumption DEF CorrelatorInv, TypeOK, Entry, NoEntry
  <1>1. /\ lastGc' = now
        /\ pending' = [u \in Uplinks |-> IF now - pending[u].timestamp > TTL THEN NoEntry(u)
                                                                            ELSE pending[u]]
        /\ UNCHANGED <<carries, now, paired, joins, acks, ups, ackAt, upAt, restarts>>
    BY DEF runGarbageCollection, stale, ghosts
  <1>2. TypeOK'
    BY <1>1
  <1>3. ASSUME NEW u \in Uplinks PROVE UplinkInv(u)'
    BY <1>1 DEF ClockInv, UplinkInv, EntryOwned, HalfSpare, EntryYoung, HalfWaitsOrStale, Prompt
  <1> QED
    BY <1>1, <1>2, <1>3 DEF ClockInv, PairedByUplink

\* Time only makes halves older, and does not pass a due collection.
LEMMA TickStep == ASSUME CorrelatorInv, Tick PROVE CorrelatorInv'
  <1> USE CorrelatorAssumption DEF CorrelatorInv, TypeOK, Entry
  <1>1. /\ now' = now + 1 /\ now <= MaxTime /\ now < lastGc + GcInterval
        /\ UNCHANGED <<carries, pending, lastGc, paired, joins, acks, ups, ackAt, upAt, restarts>>
    BY DEF Tick, ghosts
  <1>2. TypeOK'
    BY <1>1
  <1>3. ASSUME NEW u \in Uplinks PROVE UplinkInv(u)'
    BY <1>1 DEF UplinkInv, EntryOwned, HalfSpare, EntryYoung, HalfWaitsOrStale, Prompt
  <1> QED
    BY <1>1, <1>2, <1>3 DEF ClockInv, PairedByUplink

\* A restart forgets both the halves and their posts.
LEMMA RestartStep == ASSUME CorrelatorInv, Restart PROVE CorrelatorInv'
  <1> USE CorrelatorAssumption DEF CorrelatorInv, TypeOK, Entry, NoEntry, Restart, EmptyMap, NoneYet
  <1>1. TypeOK'
    OBVIOUS
  <1>2. ASSUME NEW u \in Uplinks PROVE UplinkInv(u)'
    BY DEF UplinkInv, EntryOwned, HalfSpare, EntryYoung, HalfWaitsOrStale, Prompt
  <1> QED
    BY <1>1, <1>2 DEF ClockInv, PairedByUplink

LEMMA CorrelatorStep == CorrelatorInv /\ [Next]_vars => CorrelatorInv'
  <1> SUFFICES ASSUME CorrelatorInv, [Next]_vars PROVE CorrelatorInv'
    OBVIOUS
  <1>1. CASE UNCHANGED vars
    BY <1>1 DEF CorrelatorInv, TypeOK, ClockInv, PairedByUplink, UplinkInv, EntryOwned, HalfSpare,
                EntryYoung, HalfWaitsOrStale, Prompt, vars
  <1>2. CASE \E u \in Uplinks : onAckEvent(u) \/ onUpEvent(u)
    BY <1>2, AckStep, UpStep
  <1> QED
    BY <1>1, <1>2, CollectionStep, TickStep, RestartStep DEF Next

LEMMA CorrelatorInvariant == Spec => []CorrelatorInv
  BY CorrelatorInit, CorrelatorStep, PTL DEF Spec

-----------------------------------------------------------------------------
\* Every reachable state of the correlator has its types.
THEOREM CorrelatorTypeCorrect == Spec => []TypeOK
  BY CorrelatorInvariant, PTL DEF CorrelatorInv

\* onAckEvent and onUpEvent never combine halves of different uplinks.
THEOREM RepliesPaired == Spec => []PairedByUplink
  BY CorrelatorInvariant, PTL DEF CorrelatorInv

\* A repeated half alone never makes a second combined event.
THEOREM HalvesUsedUp == Spec => []JoinsUseBothHalves
  <1>1. CorrelatorInv => JoinsUseBothHalves
    BY DEF CorrelatorInv, UplinkInv, HalfSpare, JoinsUseBothHalves
  <1> QED
    BY CorrelatorInvariant, <1>1, PTL

\* Halves that come within the TTL of each other are combined, whatever the phase
\* of the garbage collection.
THEOREM PromptHalvesJoined == Spec => []PromptHalvesJoin
  <1>1. CorrelatorInv => PromptHalvesJoin
    BY DEF CorrelatorInv, UplinkInv, Prompt, PromptHalvesJoin
  <1> QED
    BY CorrelatorInvariant, <1>1, PTL

\* No half stays longer than the TTL and one collection interval.
THEOREM LostHalvesCollected == Spec => []HalvesCollected
  <1>1. CorrelatorInv => HalvesCollected
    BY CorrelatorAssumption
       DEF CorrelatorInv, ClockInv, UplinkInv, EntryYoung, HalvesCollected, TypeOK, Entry
  <1> QED
    BY CorrelatorInvariant, <1>1, PTL
=============================================================================
