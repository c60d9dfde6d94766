# A TLA+ development of the device messaging service

The service takes *device messages* (a token or a command for an electricity
meter) from an adopter over HTTP, keeps them in Redis, hands them to a vendor's
network server, follows each one until the device has answered, failed or been
given up on, and tells the adopter by webhook.  One Node.js process runs all of
it (ADR-007: a single replica), so every interleaving is one of the event loop:
any flow may run while another awaits a Redis round trip or a vendor.

This directory models that as TLA+ modules checked by TLC, and proves some of
the results for every value of the constants with TLAPS.  Paths below are
relative to the repository; the TypeScript source is under `src/`.

## 1. Inventory

### Components, their state and operations

| component | source | state it keeps | operations | where |
|---|---|---|---|---|
| stage table | `engine/lifecycle/stages.ts` | none (data) | next stage, stage of a status, waits, poll ladder | `StageTable` (waits left out) |
| stage moves | `engine/lifecycle/moves.ts`, two Lua scripts | Redis: sorted set per stage, message hash, slot set, work list | `pickIntoNs`, `advance`, `enterRetry`, `requeue`, `reschedule`, `purge`, `claimFromQueue` | `Lifecycle`; priorities and several queues in `Dispatch` |
| lifecycle runner | `engine/lifecycle/runner.ts`, `actions.ts`, `engine/timers.ts` | which rows are draining; the timer | one drain per row and second; one action per stage | `Lifecycle`; the timer in `Dispatch` |
| outgoing service | `engine/outgoing.ts`, `in-flight-sends.ts` | tracked sends; may an enqueue kick? | enqueue, distribute, send, cancel; drain at shutdown | `Lifecycle`, `Dispatch` |
| incoming service | `engine/incoming.ts` | none | `processEvent` for ingress and for polls | `Lifecycle` (without unsolicited events) |
| base service | `engine/base.ts` | none | `retryOrFail`, `emitDeliveryEvent` | `Lifecycle` |
| stores | `lib/redis-repository/*` | the Redis keys | each MULTI, script and command | `Lifecycle`, `Webhook`; the correlation index in `Dispatch` |
| admission | `outgoing.ts:131`, `admission-store.ts` | slot set; spacing lock | admit, sweep dead slots, take the lock | slots in `Lifecycle`, lock in `Dispatch` |
| webhook | `engine/webhook/*` | Redis: pending set, payload hash, dead letters; the drain chain | store and emit, drain, POST, retry, dead-letter | `Webhook`, `Outbox` (signing left out) |
| command vocabulary, schemas | `lib/device-message/*` | none | which commands, payloads and tokens pass | `Commands`, `Facets` |
| ChirpStack correlator | `plugins/calin-chirpstack/lib/correlate-request-response.ts` | map of half responses in memory | ack half, up half, garbage collection | `Correlator` |
| ChirpStack frames, sending, status | `plugins/calin-chirpstack/*` | none | encode, send, query, decode, nack, join | `CalinFrames`, `PluginCalls` |
| V1 plugin | `plugins/calin-api-v1/*` | none | task of a command, reading a reply, status | `CalinTasks`, `PluginCalls` |
| V2 plugin | `plugins/calin-api-v2/*` | none | task of a command, status | `CalinTasks`, `PluginCalls` |
| V2 HTTP client | `plugins/calin-api-v2/lib/repo.ts` | shared session token, login in flight | `sendRequest`: ensure token, post, refresh, post again | `SessionV2` |
| tokens | `engine/token.ts`, each plugin's `token.ts`, `plugins/nxt-sts` | none | mint one token | `Facets`, `PluginCalls` |
| provisioning | `engine/provisioning.ts`, ChirpStack's `provisioning.ts` | the vendor's register | register a device, set its key | `Facets`, `PluginCalls` (ChirpStack) |
| process | `main.ts` | how far the shutdown is | boot, signal, drain, close, exit | `Dispatch`; crashes also in `Lifecycle`, `Webhook` |
| registry, configuration, HTTP parsing, metrics, logging | `plugins/registry.ts`, `config/`, `http/`, `metrics/` | built at start or nothing | parse, forward, report | not modelled |

(All sources under `src/src/`.  `PROJECT.json` lists the same components with
their files.)

### How they interact

* An HTTP request enqueues: one MULTI writes the hash, the ready queue, the
  work-list entry and the correlation index.  Then it kicks a distribute pass,
  unless a shutdown has begun.
* Every second a distribute pass reads the work list, asks admission for each
  queue, pops one message of each into stage `ns` with a script and starts a send
  that is *tracked but not awaited* by the pass's caller.
* Every second the runner starts a drain of each row: it reads the due ids and
  acts on each in turn.  The action may ask the vendor (`relayNode`,
  `awaitingTask`), fail or retry the message (`ns`, `relayNode`, `device`) or
  put it back into the ready queue (`retry`).
* A PUSH vendor calls back through the ingress route; a PULL vendor is polled by
  the `awaitingTask` row.  Both end in `processEvent`.
* Sends, rows and ingress share `retryOrFail`, the moves and the purge.  They
  share no lock: what keeps them apart is the ZREM gate of the move script, the
  ZSCORE guard of `enterRetry` and the in-memory set of tracked sends.
* A cancel looks its id up in the correlation index and claims each message with a
  ZREM, in a race with the passes and the retry row.
* The ChirpStack plugin joins two HTTP events to one vendor event before
  `processEvent` sees it: each combined event of `Correlator` is one successful
  `Ingress` of `Lifecycle`.
* Sends, polls, tokens and provisioning of V2 all go through one client and share
  its session token: a call of `SessionV2` is what `Lifecycle` sees as one vendor
  answer.
* What a send says to the meter and what an answer says of it are `PluginCalls`: its
  outcomes are the ones `Lifecycle` chooses freely among.
* Every terminal outcome is stored in the webhook's outbox before the message is
  purged; drains of the outbox post it to the adopter.
* A signal stops the timer and the kicks, waits for the tracked sends, closes HTTP,
  then Redis.

### What is hard, and what must hold

| hazard | what must hold |
|---|---|
| two flows at the same message between their round trips | `DurableNotify`, `GoneStaysGone`, `StageIsDerivable`, `OneVerdict` |
| a crash between storing the verdict and purging, or between the two halves of a requeue | `DurableNotify`, `EventuallyResolved` |
| a deadline that fires while the process still holds the send | `HeldSendKeepsStage`, `RetryBudget` |
| an event about an earlier attempt | `ReferencesCurrent` |
| hand-over and verdict stored by different flows | `SentBeforeVerdict` |
| concurrent passes at the concurrency cap; hashes that expire while they hold a slot; a sweep of three round trips | `CapRespected`, `SlotsReturned` |
| work-list entry dropped or not written | `EventuallyResolved`, `EveryQueueServed`, `ReadyIsListed` |
| overlapping passes at the spacing lock; a pass that picks long after it was admitted | `PicksWithinRate` |
| a cancel whose four round trips race passes, retries and other cancels of the id | `CancelAnswersHold` |
| a signal while enqueues, ticks and passes go on | `QuietShutdown` |
| overlapping webhook kicks; a fault between the adopter's 2xx and its record | `OnePostAtATime`, `NothingLost`, `PostsBounded`, `ImplementsOutbox` |
| the last webhook attempt | `DeadLetterEarned`, `EventuallySettled` |
| the two halves of a response in either order, repeated or lost; the collection's phase | `PromptHalvesJoin`, `JoinsUseBothHalves`, `PairedByUplink`, `HalvesCollected` |
| concurrent callers with an expired or refused token; a login that fails or is another caller's | `OneLogin`, `RefusedNotReused`, `EveryCallSettles` |
| a post carried out although its answer is lost | `TasksBounded` (and `OneTaskPerCall`, which fails) |
| dates, addresses, phases and tokens at the edge of what can be encoded | `CommandAsAsked`, `RefusalIsFinal` |
| a damaged uplink, a vendor's text that is no number; a value told under the wrong name or phase | `ReportTruthful` |

`PROJECT.json` lists every hazard at its line, also those no property covers yet.

## 2. Modules

| module | what it is |
|---|---|
| `StageTable` | stages, statuses, pipelines and the two lookups, as data |
| `Lifecycle` (extends it) | the delivery engine over Redis, all flows, crash, expiry; properties |
| `MCLifecycle` | its TLC instance (symmetry) |
| `Lifecycle_proofs` | `TypeCorrect`, `NotificationDurable` |
| `Pull_proofs` (extends it) | stage, budget, cap, slots, held sends and references of PULL plugins; `ReadyListed` for both patterns |
| `Verdict_proofs` (extends it) | hand-over before verdict, one verdict, gone for good: for both patterns and, without assumptions on overlaps, for PULL |
| `Dispatch` | several queues, priorities, spacing, correlation index, cancels, shutdown; properties |
| `MCDispatch` | its TLC instance |
| `Dispatch_proofs` | all its invariants |
| `Outbox` | what the webhook promises: at-least-once or a dead letter |
| `Webhook` | outbox, drains, POST, faults; properties; `ImplementsOutbox` refines `Outbox` |
| `MCWebhook` | its TLC instance |
| `Webhook_proofs` | the refinement and all its invariants |
| `Correlator` | the up/ack correlator with clock, collection and restart; properties |
| `MCCorrelator` | its TLC instance (symmetry) |
| `Correlator_proofs` | all its invariants |
| `SessionV2` | the V2 client: token cache, single-flight login, two waves; properties |
| `MCSessionV2` | its TLC instances |
| `SessionV2_proofs` | all its invariants |
| `Commands` | command types, request schemas, calendar, as data and functions |
| `CalinFrames` (extends it) | the frames of the ChirpStack plugin, encoded and decoded byte by byte |
| `CalinTasks` (extends it) | the tasks, replies and status answers of V1 and V2 |
| `Facets` (extends it) | minting a token, registering a device |
| `PluginCalls` (extends these) | one command from mint to outcome, with vendor and meter; properties |
| `MCPluginCalls` | its TLC instance |
| `PluginCalls_proofs` | all its invariants, damaged frames, the weekday |

### Lifecycle and the code

**Grain.** One action is one Redis round trip, or one vendor answer, with the
synchronous code after it.  A Lua script or a MULTI is one step; a function that
awaits three times is three steps.  `enterRetry` for instance is `Zscore`,
`Hmget`, `RetryExec`, and anything may happen in between.

**Flows.** `Passes` are distribute passes that go on to hold the send they
started; `Rows` are the runner's drains, one per stage (the `draining` set
forbids two); `Handlers` are ingress requests; `Cancels` are cancel requests.
`flow[f]` holds the program point and exactly what the code captured before an
await and uses after it: message, source stage, event, retry count, reference,
slot key.  Staleness is therefore in the model: `Purge` deletes the index and the
slot that the *caller's copy* names, `RetryExec` writes the retry count that
`FailRead` captured.

**Redis.** `hash[m]` has the existence of `device_message:{id}`, whether it has
the fields `deserializeMessage` requires (`whole`), and the fields the engine
decides on.  `queue[m]` is the set of sorted sets the id is in - a set, because
nothing in Redis forbids two.  `due[m]` names those whose score has passed.
`index[m]` are the references that resolve to it, `slots` the concurrency set,
`worklist` whether the ready queue's key is in `queues_to_distribute_from`.

**Memory.** `inFlight` (tracked sends), `flow` and `todo` (the snapshot of a
drain, or what a pass that sweeps dead slots has still to remove) are lost
in a `Crash`; the Redis variables are not.

**Ghosts.** `sent` counts how often the vendor accepted the command, `told` the
events stored for the adopter, `fate` whether the outside took the message away
(cancelled, expired).

| actions | code |
|---|---|
| `Enqueue` | `enqueueDeviceMessage` |
| `StartPass`, `Admit`, `SweepMembers`, `SweepExists`, `SweepRemove`, `Pick`, `PickNothing`, `EmitSent` | `distributeToNetworkServers`, `_canAdmit`, the sweep, the fetch script |
| `VendorAccepts`, `SendOk`, `SendFailed` | `_sendOneToNetworkServer`; the vendor may accept and the answer still be lost |
| `FailRead`, `Notify`, `Purge`, `Zscore`, `Hmget`, `RetryExec` | `retryOrFail`, `emitDeliveryEvent`, `messageFullCleanup`, `enterRetry` |
| `StartDrain`, `DrainNext`/`Act`, `StillQueued`, `NoLongerQueued`, `PollAnswered`, `Requeue`, `ListReady`, `Scrub`, `Reschedule` | `runner.ts`, `actions.ts` |
| `Ingress`, `Lookup`, `ToDevice`, `NackRead`, `OkRead` | `incoming.ts` |
| `StartCancel`, `Claim` (then `Purge`) | `_cancelOneByCorrelationId`, `_cancelOneMessage` |
| `BecomesDue`, `GrowsOld`, `Expire`, `Crash` | the clock, the hash TTL, the process |

Operators marked *seeded fault* (`TransferKeepsSource`, `FinalStepUnnotified`,
...) are not used by the specification.  Each is a plausible slip in the
definition it stands beside; replacing that definition by it makes the property
named in `PROJECT.json` fail, which shows that the property depends on the code.

### Dispatch and the code

`Dispatch` is `outgoing.ts` where `Lifecycle` has one queue and leaves admission by
spacing open.  The two overlap in the message's stages, and divide the rest: what
happens to a message between its send and its end is one step here (`AfterSent`)
and the subject there; several queues, priorities, the lock with its clock, the
index behind a cancel, the timer and the shutdown are here only.

Ticks may overlap, as `setInterval` lets them (`ticks` counts those between their start
and their kick).  A pass works on its queues in parallel and keeps nothing of them but the queue
it is at, so passes are counted, not named: `listing` before the work list has
answered, `admitting[q]` and `picking[q]` per queue, and `emitting` for the
messages whose hand-over event is being stored.  `lock[q]` is the remaining TTL
of the spacing lock, run down by `Elapse`.  `index` has one entry per id and
phase, as `helpers.ts` forms the keys; a purge deletes the entry of its
message's id and phase, *whatever it names by then*.

`cancel[k]` is one id of a cancel request: `Lookup` is the MGET of the index
entries, `Read` the hashes behind them with the test of their statuses, `Claim` a
ZREM from the queue the status stood for when it was read, `PurgeClaimed` the
cleanup.  `Settled` is the answer: CANCELLED only if every message found was
cancelled.  A status of QUEUED outlives the claim until the purge, so a second
cancel of the same id finds the message cancellable, loses the ZREM and answers
NOT_CANCELLABLE although nothing is in flight; the same answer comes when the
retry row requeues a message between the read and the claim.  Neither
contradicts what the answer promises.

The shutdown is `Signal` (timer off, kicks off), `DrainReturns` (nothing is tracked
any more, or the budget is spent), `Exit` (the requests being answered are over;
Redis closes), and `Boot` by the supervisor.  A tick in progress still kicks a
pass after the signal (`EndTick`), and a pass in progress still starts a send: the
drain waits for tracked sends only.  `QuietShutdown` therefore speaks of shutdowns
that met neither; ADR-008 par. 8 accepts the others, whose messages the `ns`
deadline of the next process takes up.

### Webhook and the code

One action is one Redis round trip of `engine/webhook/store.ts` or one answer of
the adopter.  `Emit` is `storeAndEmit` (what `Lifecycle` calls `told` is `stored`
here), `Kick` the timer or the kick after an emit, `ListDue`...`DeadLetter` the
drain of `service.ts`.  `AdopterReceives` is the adopter's side: a request may be
received and its answer still be a timeout.  A `RedisRejects` ends the drain in
the middle; a `Crash` ends all of them.  `drain[d].count` is the attempt count
captured with the record and written after the POST.

`Outbox` states the promise in four actions.  The refinement mapping computes an
event's state from the keys: not stored - new; with a record - pending; without
one - dead when it is among the dead letters, delivered otherwise.

### Correlator and the code

Handling an event awaits nothing, so `onAckEvent(u)` and `onUpEvent(u)` are one
step each.  `pending` is `pendingCorrelations`; an entry holds the half that came
first, and here also the uplink it came with, which is how a reply joined to the
wrong command would show.  `carries[u]` is the queue item the uplink acknowledges:
the world's choice, not known to the code until the halves meet.  The clock is an
integer; `runGarbageCollection` fires when `GcInterval` has passed, and `Tick`
waits for it, because the event loop is not blocked for anything like that long.
`Restart` empties the map.  The ghosts count posts and combined events since the
process started.  Events that bypass the correlator change nothing here.

### SessionV2 and the code

`call[c]` is one call of `sendRequest`: idle, waiting for a login (`ensure` from
`ensureToken`, `refresh` after a 401) or with a post at the vendor (`wave1`,
`wave2`).  A token is the serial number of its login, 0 is `undefined`.
`fetchTokenInFlight` names the caller that leads the login the others wait for;
they all go on in the step in which it settles, because promise reactions run
before the next answer is looked at.  The code details that matter are kept: a
login without an answer leaves an expiring token in the cache, and it is used; a
401 empties the cache even if it holds a newer token by then.  A restart is `Init`.

### PluginCalls and the code

`PluginCalls` follows one command of one plugin: minted (`GenerateToken`), the
device registered (`Provision`), past the gate (`Enqueue`), turned into a frame or a
task (`SendOne`), taken or refused (`VendorTakes`, `VendorRefuses`), carried out by
the meter (`Execute`), and reported (`HandleUp`, `HandleNack`, `GetRemoteStatus`,
`FetchStatus`; `HandleUpUnsolicited` and `HandleJoin` for what nobody asked for).
One attempt is enough: a retry calls `sendOne` again with the same message.

* `CalinFrames` has bytes as numbers 0..255 and computes with them as the code
  does: 33H added and subtracted modulo 256, addresses and data reversed, the sum
  modulo 256, BCD digits (nibbles past 9 included), the 32-bit shifts of
  `reverseAndCombine`.  Byte `k` of the layouts in the code's comments is `At(b, k)`.
* `CalinTasks` has a vendor's text as what it parses to: a number, a credit text, a
  date, one word, garbage, nothing.  `V1sendRequest` is the client's reading of a
  reply, `V1fetchStatus` and `V2fetchStatus` the classification of an answer.
* `Facets` has the requests the four token paths make and the two calls that
  register a device and set its key, with the failures that read as "not new".

The vendor and the meter are external: `MeterHears`, `Uplink`, `DlmsUplink`,
`ReportUplink`, the item tables and `Texts` say what the code's maps, frame comments
and response types take them to do.  `Noise` damages one byte of an uplink.

## 3. What is abstracted, and the assumptions made

**`Lifecycle`.**

* *Time.* A score is in the past or not; `BecomesDue` may happen at any time
  except while a flow is in the middle of engine work on the message: the
  shortest wait (`retryBaseDelayMs`) is much longer than a run of Redis round
  trips.  It *may* happen during vendor calls, which is where the code has to
  cope (a send or a poll can outlast its stage's wait).  `GrowsOld` happens while a drain of
  polls has the message still to come: only a poll looks at the age, so growing old
  earlier could be told from it by nothing.
* *Order in a queue.* Any ready id may be popped, any due id acted on next.
* *One plugin and one ready queue*; the spacing lock is a free choice of admitted
  or not.  `Dispatch` has the queues, the priorities and the lock.
* *The vendor* is unconstrained: it may accept a command without the answer
  arriving, report about any accepted command at any time, repeatedly and in any
  order, including before the answer to the send, or never.
* *Redis errors* are not modelled (a crash at the same point covers what they
  lose); in `Webhook` they are.
* *The TTL* of the index keys is taken to outlive the hash.  The hash TTL is
  `Expire`, in the runs that switch it on.
* *The correlation index* is left out: a cancel is given its message.

**`Dispatch`.** Queues with spacing admission only (the cap is `Lifecycle`'s),
`engine.enabled` true, queue keys of registered plugins (a foreign key in the work
list is dropped by the code with a log line).  What follows a send is one step.  The
clock has steps of the granularity of `minIntervalMs`; the ghost clock `now` stops at
`MaxClock`, and the rate is claimed before that; the locks run on.  The one fault of
`dispatch.cfg` is a failed attempt *or* a signal *or* a crash: a failed attempt and
then a crash at the requeue is the finding `lost_ready`, and `EveryQueueServed` is not
true with both.

**`CancelAnswersHold`** is claimed for ids the caller uses for one message per phase
(`UsedOnce`).  A second message of the same id and phase takes the index entry of
the first; the first runs on, is no longer found by a cancel, and GET looks up the
entry without a phase only.  An id that ends in `_phA` shares its key with the shorter
id at phase A; the model's ids do not.

**`Webhook`.** Leases may run out at any moment.  A chained drain starts when no other
runs; in which order chained drains run is left open.  The dead letters' TTL is left
out.

**`Correlator`.** With `TTL = 1` and `GcInterval = 3` the interval is three times the
TTL, as 30 s is of 10 s.

**`SessionV2`.** The vendor carries out one post at most once, and not one it answers
with a 401.  `Lifecycle` counts one acceptance per `sendOne`; that a V2 `sendOne` may
be up to five is the subject of `SessionV2`.

**`PluginCalls`.** Names, texts and numbers are abstracted as the modules' comments say;
values keep the unit of the frame (the code divides by 10, 100 or 1000), and the two
IEEE floats of a report are their bytes.

* A downlink's size byte keeps eight bits, as `Uint8Array.from` does
  (`plugins/_shared/chirpstack-repository/index.ts:64`); the schema bounds no token's
  length (`lib/device-message/schemas.ts:66`), so a token of more than 506 digits gets a
  size byte that is not its size.  `CommandAsAsked` compares the size byte only for tokens
  that fit (`FitsFrame`); everything else it says holds for all of them.
* A register holds as many decimal digits as its frame (`Capacity`), and the meter's
  frames have the lengths the decoder's offsets imply.  A damaged byte
  that makes a frame start with 0 is excluded: the code takes such a frame for a DLMS
  answer, which has no checksum; DLMS answers are not damaged for the same reason.
* What a meter reports unasked (`Reports`) is what the decoder's types can hold
  (`ReportData`): `reverseAndCombine` shifts the fourth byte by 24 bits, which makes a
  counter of 2^31 or more negative.  `Dates` are dates as the meter's clock shows them.
* A V1 date text has a year of two digits (`DateText`), to which the decoder adds 2000; a
  V2 relay may answer a text other than its two states (`Text("unknown")`).
* A failed read comes without the item it was asked for, so the decoder drops it and
  the deadline resolves the message.
* A date says its weekday only for the years 2000 to 2099, which are what two year
  digits can name.
* `CommandAsAsked` leaves the phase of a V2 read out: `packages/contract/src/index.ts:40`
  asks for a phase, V2 accepts any and reads phase A.
* An impossible date (31 April) is refused by V1 and V2 and sent as asked by
  ChirpStack; `Sendable` says so.
* Minting is one request; that a mint of V2 may be posted twice is `SessionV2`.

## 4. Runs

| run | instance | states | what it shows |
|---|---|---|---|
| `pull` | PULL, 2 messages, 2 passes, cap 1, 1 retry, one crash or expiry | 1 708 533 | types, one queue per status, durable notification, held sends, retry budget, cap and slots, nothing purged comes back, faults included |
| `push` | PUSH, 1 message, 1 pass, 2 handlers, cancel, 1 retry; every interleaving | 857 788 | hand-over before verdict, ready is listed |
| `push_serial` | PUSH, 1 message, 2 passes, 2 handlers, cancel, 2 retries; flows do not overlap mid-way; fairness | 35 071 | never both verdicts, current references, resolution by deadlines |
| `live_cap` | PULL, 2 messages, cap 1, no retry, cancel, fairness | 4 430 | both messages are resolved |
| `dispatch` | 2 queues or 2 phases and a cancel, 2 ticks and 2 passes at once, interval 1, 1 retry, 1 fault, fairness | 544 423 | rate, cancels, quiet shutdown, no queue forgotten |
| `webhook` | 2 events, 2 kicks, batch 1, 2 attempts, 1 fault, fairness | 30 704 | the webhook's invariants, refinement of `Outbox`, settlement |
| `correlator` | 2 uplinks, 2 posts per half, TTL 1, interval 3, time 6, 1 restart | 1 378 151 | pairing, no report from one half, no missed meeting, collection |
| `session` | 2 callers, 3 retries, 4 tokens, fairness | 89 761 | one login, no refused token, bounded executions, settlement |
| `calls` | all commands of 3 plugins with edge dates, tokens, references, keys; 5 readings, 11 kinds of noise, 1 poll | 13 144 | asked, done and told agree, in value, name and phase; what cannot be sent is refused for good |
| `phantom`, `lost_ready`, `resend` | see section 6 | | three disagreements of the code with its documentation |

**Bounds and why they suffice.** `MaxRetries = 1` has a first attempt, a retry
and a final failure; `push_serial` has two, so that a late answer about the first
attempt can meet a second one that is not the last.  `MaxSends` is one
above what the budget allows (`live_cap` apart, where nothing is retried), so a
acceptance too many would be seen.  Two messages with a cap of one are the smallest
instance in which a message waits for another's slot.  Two passes are the
smallest in which two picks race; two handlers the smallest in which two events
about one message overlap, and with the runner's rows, a send and a cancel there
are then up to eight flows at one message.  One crash reaches every half-done
operation; sequences of crashes are only covered by the proofs.

In `dispatch` the call sets are two messages in two queues (one may starve or drop the
other) and two phases of one id in one queue, the second more urgent, with a cancel.
Two passes and an interval of one step are enough for a pass that was admitted before
the lock ran out and picks after the next one was; `MaxTicks = 2` is a tick that starts
before the one before it has kicked its pass.  `MaxClock = 2` has two intervals; the
proof of `RateKept` covers longer ones.

In `calls`, `MCCreates` has every command type, the phases none, A and C, two- and
four-digit years, 29 February in a leap year and not, 2100, references of 1, 11, 12 and 13
digits and one with a letter, tokens that are whole, blank, empty, odd or no hex;
`MCMints` every token type, decoder keys that fit, are padded with a blank, short or
missing, both date formats; `Noise` single and double bits, and 51 (33H), 205 and 255,
which undo the code's own arithmetic; `Readings` the edge of four BCD digits and beyond.
`MaxPolls = 1` is a poll without an outcome before one with.

Two events with a batch of one make a drain leave something behind; two drains are a
running and a chained one.  In `correlator` the clock runs over two collections, so a
half may come just before or just after one, and two posts of a half are a post and
its repetition.  In `session` two callers are one that leads a login and one that waits
for it or refuses its token; `FETCH_RETRIES` has its real value.

Runs whose system comes to rest when every message is resolved say
`CHECK_DEADLOCK FALSE`, and so do `correlator`, `calls` and `dispatch`, whose clocks,
posts and commands are bounded; `webhook` (the timer ticks) and `session` (a caller may
always call) never rest and are checked for deadlock.

**What does not hold everywhere.** In PUSH, when a vendor event overlaps the runner's
work on the same message, `StageIsDerivable`, `ReferencesCurrent` and `GoneStaysGone`
fail (section 6), and `OneVerdict` too (a nack's retry racing an ack).  They hold where
two things are excluded.  `Serial` keeps two flows from being between round trips of the
*same message*, while sends, status queries and polls overlap anything.  `RowsPrompt`
says that a row other than ns has let go of a message before it is sent again, that is,
a status query is answered within the attempt it is about.  `SerialSpec` is `Spec` with
both, and `push_serial` checks it for `OneVerdict` and `ReferencesCurrent`; that
`GoneStaysGone` holds where `Serial` does is proved (section 7).  In PULL the rows are
the only ones that take events; `pull` checks `StageIsDerivable` and `GoneStaysGone` in
every interleaving, with a crash or an expiry, but without
cancels: a cancel that claimed and crashed before its purge leaves a hash in no queue.
After a crash `ReadyIsListed` fails (section 6), and so do `SentBeforeVerdict` and
`OneVerdict` (a crash before the hand-over event, or after a verdict was stored, leaves
the message to the next deadline): those are claimed without crashes.

## 5. Fairness

`Lifecycle!Fairness`, for `live_cap`, `push_serial` and `lost_ready`:

* weak fairness of each flow: the event loop runs every continuation, and the
  one-second tick starts passes and drains;
* strong fairness of `Admit` admitting: a spacing lock expires, and a pass asks
  every second;
* strong fairness of "no longer queued": a network server does not hold an item
  for ever; nothing else is assumed of a vendor but that a call settles, which the
  HTTP clients' timeouts ensure;
* strong fairness of `BecomesDue`: scores are absolute times.  Weak fairness would
  not do, because the step is disabled whenever the engine works on the message;
* strong fairness of `GrowsOld`: 48 hours pass; the step is disabled while no drain has
  the message before it.

`push_serial` restricts the behaviours to those without the overlap of section 6,
because a phantom hash ends every drain of the retry row at that member, and to those
in which no status query outlasts its attempt, because such an answer may take the next
attempt out of its queue; with either, `EventuallyResolved` is not true.

`Dispatch!FairSpec`: the timer fires and its tick ends, the clock runs, round trips,
sends and the requests being answered end, a shutdown goes through and a supervisor
boots the process again.  Nobody has to call, cancel, signal or answer.

`Webhook!Fairness`: the timer ticks, drains run on, a request settles by its abort
timeout, leases and backoffs run out.  The adopter may never answer.

`SessionV2!Fairness`: a login is answered or ends by `CUSTOM_LOGIN_TIMEOUT_MS`, a
post by `CLIENT_SAFETY_DEADLINE_MS`.  Nobody has to call, and the vendor may never
answer anything usefully.

## 6. Disagreements with the documentation

* **`phantom`.** `enterRetry` guards with a ZSCORE and writes with a MULTI two
  round trips later.  An acknowledgement that purges in between is followed by a
  HSET that creates a hash without the fields every reader requires, and without
  TTL.  `moves.ts:9-12` says the gate avoids phantom hashes, `moves.ts:259-261`
  that this guard plays the same role.  The member stays in the retry set and
  each drain of that row throws at it, so due members behind it are not reached.
  In the same window a mid-hop event may advance the message; it is then in two
  stage queues, of which the status names one, although ADR-008 (lines 282-284)
  says status and pattern identify the stage without ambiguity; with two retries
  left, a deadline in the one queue may then retry the message while it is sent again
  from the other, and a reference of an earlier attempt survives.  This is why
  `StageIsDerivable` and `ReferencesCurrent` are claimed for PUSH only where the
  overlap is excluded.
* **`lost_ready`.** A requeue moves the message and lists its queue in two
  commands; a crash in between leaves it ready in a queue nobody looks at until
  another message is enqueued there.  `src/README.md:17-18` says a restart does
  not drop the queue.
* **`resend`.** The V2 client posts the same body again after any failure but a 401,
  create-task included.  If the vendor had carried it out and only the answer was
  lost, the command is created twice or more within one `sendOne`, beyond the
  engine's retry budget.  The decisions log (`docs/archive/decisions-log-extraction.md`,
  line 1308) says create-task skips such retries, and `client-safety-deadline.ts`
  that the mechanism removes this very duplicate.  `TasksBounded` is what does hold:
  at most five executions.

A fourth has no run of its own, since it fails `EventuallyResolved` like `lost_ready`.
`StageOutcome` (`types.ts:126`, ADR-008
line 119) says `orphaned` means that the hash vanished, and the runner removes the
member on it; but `retryOrFail` returns `orphaned` for a missed claim as well
(`base.ts:141`), with the hash alive.  The relayNode row asks the network server for up
to 60 s (`chirpstack-repository/index.ts:35`), a nacked message is ready again after 2 s.
If the answer comes when the next attempt is under way, `enterRetry` misses its claim,
the vendor's acceptance may then put the message into relayNode, and the runner's ZREM
takes it out: a live message in no queue, which no deadline resolves.  Without
`RowsPrompt`, `push_serial`'s instance shows this behaviour.


Four places tell the caller something under a name or a phase that is not what was read or
done.  No document of the repository promises otherwise in so many words, so they
are no findings; `ReportTruthful` lists each as an exception, by plugin, command and text,
and says of everything else that name and phase are right.

* *CALIN API V1, `READ_POWER`.* The item is `Power`, without a phase
  (`calin-api-v1/outgoing.ts:131-136`), and the value is told under the phase of the request
  if it carried one (`incoming.ts:87`, `119-129`).  The contract asks for a phase with
  `READ_VOLTAGE` and `READ_CURRENT` only (`packages/contract/src/index.ts:40-41`) and
  does not refuse one here.
* *CALIN API V1, `READ_DATE`.* A date answered with an empty text is told as
  `dateAccepted`, the acknowledgement of a write (`calin-api-v1/incoming.ts:158`).
* *CALIN API V1 and V2, `READ_DATE`.* A text that is no date is told as a reading
  without one (`noDate` in the model).
* *CALIN API V2, `TURN_ON`.* A relay text other than "Connected" is told as
  `turnOffAccepted`, for either command; the repository's test has it for `TURN_OFF`
  (`test/unit/plugins/calin-api-v2-incoming.spec.ts:209-224`).

ChirpStack tells a `SET_DATE` and a `SET_TIME` as `onOffToggle`, the one
acknowledgement its decoder has for writes; `Label` says so.

## 7. Proofs

All theorems are about the full specifications, for any constants that satisfy
the named assumptions (`ConstantsAssumption`, `FlowsAssumption`,
`PatternAssumption`, `DispatchAssumption`, `WebhookAssumption`,
`CorrelatorAssumption`, `SessionAssumption`, `CallsAssumption`: naturals, distinct kinds of flows, a
pattern of the two, "no item", "no caller" and "no message" not among the items,
callers and messages, commands and mint requests as the schemas let them pass, reports
as the decoder's types hold them).

**`Lifecycle_proofs`.** `TypeCorrect` (`[]TypeOK`) and `NotificationDurable`
(`[]DurableNotify`: an accepted message whose hash is gone has a stored terminal
event), for any number of messages and flows, both patterns, with crashes and
expiry.  `TypeOK` is not inductive: that `Act` or `Notify` yields a typed state
depends on a flow past its first steps naming a message, and on the event it
carries fitting its branch.  `FlowOK` says so and `TypeInv` is `TypeOK` with it.
`DurableNotify` is not inductive either: a flow about to purge might not have
notified.  `PurgeJustified` says that a flow at `purge` has its verdict stored or
that the message was cancelled or has expired; it is kept because only `Notify`
and a successful `Claim` lead to `purge` and neither `told` nor those fates are
ever taken back.  Most actions neither lead to a purge nor remove a hash; the
lemma `HarmlessStep` settles them at once and the four others (`Notify`, `Purge`,
`Claim`, `Expire`) are proved one by one.

**`Pull_proofs`.** The invariants about one message's stored values, assuming
`Pattern = "PULL"`, for any number of messages, passes and cancels, any retry limit and
cap, with crashes and expiry: `PullStageIsDerivable`, `PullRetryBudget`,
`PullCapRespected`, `PullSlotsReturned`, `PullHeldSendKeepsStage` and
`PullReferencesCurrent`.  None is inductive, and each needs the others, so they have one
inductive invariant, `PullInv`: `TypeInv`, `Swept`, `WithinCap` (the slot set is within the cap),
`FlowsLegal` (which steps a flow can be at) and, for each message,

- `Unborn`: an id that was not accepted yet is nowhere;
- `Stored`: queue, status, reference, slot and counts agree, as the six properties say;
- `Listed`: what a drained snapshot says is still true of the hash, so that the ns row
  and the retry row never have one message before them together;
- `Holds`: what a flow knows of the message in its hand.  A pass with a message is the
  only one and its send is tracked (`PassHas`), which is why a deadline leaves the
  message in `ns`; a retry between its three round trips still has the values it read
  (`Retrying`), which is why the count it writes is the successor of the stored one.

`Swept` is about the sweep of dead slots, which reads the members, asks for their hashes
and removes in three round trips: what a pass is about to remove was accepted once and has
no whole hash any more, and no step makes a hash whole again (`NoneReborn`), so what was
dead when it was asked for is dead when it is removed.  `Holds` is where the interleavings are: each
step is shown to keep it for the flow that
steps and, by the lemma `OneTouched`, for every other flow, since a step touches the
stored values of one message.  The argument does not carry over to PUSH plugins, where a
vendor event may move a message while a retry is between its reads and its write (the
`phantom` run).  `ReadyListed` (`ReadyIsListed`) is for both patterns and assumes
`[][~Crash]_vars`: a ready message is listed or a row is about to list it, which fails
when a crash comes in between (the `lost_ready` run).

**`Verdict_proofs`.** What the adopter is told about one message, and that a purged
message stays away.  The proofs rest on lemmas about one step of one flow (`FlowStep`),
in either pattern: which flow has the message in hand (`InHandOf`), that a step leaves
every message alone that is not in the hand of the flow that steps (`SameAs`, `Elsewhere`) and
every other flow as it was (`OthersStay`), that no flow gives a hash its fields
(`FieldsNotGiven`), and from which steps `notify`, `hmget` and `retryExec` are entered
(`NotifyEntered`, `RetryEntered`).

- `HandOverFirst` (`SentBeforeVerdict`), for both patterns and every overlap, expiry
  included, without a crash.  The hand-over event and the verdict come from different
  flows; `NotHandedOver` says that as long as no `SENT_TO_NS` is stored, nobody but the
  pass that will store it, and a cancel, can have the message in hand, because it is due in
  no queue that a row drains and no event finds its reference.
- `SerialOneVerdict` (`OneVerdict`), for both patterns, when no message is in two flows
  at once (`[]Serial`) and no crash happens: `VerdictInv` says that a told verdict is
  being carried out by a flow at `purge` as long as the hash is there, so a second
  flow with the message would be an overlap.
- `SerialGoneStaysGone` (`GoneStaysGone`), for both patterns, under `[]Serial`, crashes
  and the expiry of other messages included: of a message that did not expire no half
  hash exists, and no flow that is about to write a hash has a message whose hash is
  gone (`GoneInv`).
- `PullOneVerdict` and `PullGoneStaysGone` need no `Serial`.  On the PULL pipeline the
  ns row and the retry row may overlap with cancels and with each other, and `PullInv`
  does not say who ends a message; `EndInv` adds that two flows other than cancels never
  end one message (`OneEnding`), that the poll row has nothing to do with a message the
  ns row has before it (`NsAlone`), and that a cancel purges only a message it removed from its queue
  (`CancelOwns`).

The assumptions are those of the runs, and each is needed.  A crash between the vendor's
answer and `SENT_TO_NS`, or between a stored verdict and the purge, leaves the message
to a later deadline, which decides again.  `GoneStaysGone` does not speak of a message
that expired: a retry that read the hash before its 48 hours were over writes some of its
fields back.
`SerialSpec` implies `Spec /\ []Serial` (`SerialSpecSerial`), so these theorems
speak about the behaviours of `push_serial` and more.

**`Webhook_proofs`.** `OutboxInv` is inductive: one drain runs at a time
(`OneRunning`), what it holds is still in the outbox (`HoldsPending`), the count
it holds is the record's or one more (`CountsRight`), and the keys of the outbox
agree (`KeysAgree`).  From it follow `WebhookTypeCorrect`, `StoredEventsKept`
(`NothingLost`), `SettledOnce` (`SettledStaysSettled`) and `WebhookImplementsOutbox`
(each step maps to a step of `Outbox` or a stutter), and `OnePost`
(`OnePostAtATime`), which is `OneRunning` at one step.  Two theorems need a further
invariant that ties the record to the calls made.  `PostsAreBounded` has `Budget`, an
upper bound: the calls are at most the counted ones, one under way and one per fault.
`DeadLettersEarned` has `AttemptsMade`, the lower bound: every attempt on record or
about to be recorded was a call, so a record can never run ahead of the calls,
whatever fault loses the write in between.

**`Correlator_proofs`.** All five invariants follow from `CorrelatorInv`, which says
of each uplink whose half its entry holds (`EntryOwned`), that this half has not been
used (`HalfSpare`), that it was not stale at the last collection (`EntryYoung`), and,
for `PromptHalvesJoin`, that as long as nothing was combined a half that came is
still waiting or older than the TTL (`HalfWaitsOrStale`).  `PromptHalvesJoin` alone is
not inductive: it says nothing of a half that waits.

**`SessionV2_proofs`.** All four invariants follow from `SessionInv`: whoever waits
waits for the login under way, and only its leader leads one (`LoginShared`); after a
refusal the cache stays empty until the awaited login settles (`RefusalForgotten`),
which is what makes the next token a newer one although other callers use the cache;
and a second wave begins with one execution to spare (`TasksCounted`).  A step that
touches one call is settled by the lemma `OneCallChanges`; `SettleStep` treats the
step in which all waiters go on.

**`Dispatch_proofs`.** `DispatchTypeCorrect` needs `AttemptsLeft`: a message that may be
picked has an attempt left.  `RateKept` (`PicksWithinRate`) is an amortised argument.
`RateInv` says for each queue

    (picks + admissions not yet used) * minIntervalMs <= now + (time left on the lock)

so an admission pays with the time its lock covers when the lock is taken, and a pass
that picks late, or finds nothing, costs nothing more; the property alone is not
inductive, because it does not know of the passes that are already admitted.
`ShutdownQuiet` needs `StartersStopped` (after a signal neither the timer nor an enqueue
starts a pass) and `QuietSince` (a shutdown that was quiet stays so: no tick, no pass,
and no tracked send once the drain has returned within its budget).  `CancelledIsGone` (`CancelAnswersHold`) is the
long one.  `CancelInv` has `IndexAgrees` (an id used once per phase is found through the
entry of its phase as long as the message exists), `HeldInNs` (only messages in `ns` are
held by a pass or a send), `ClaimsOwned` (what a
request is about to purge was claimed by it alone) and `StoredAccounted`: every message
stored under the id before the request is gone, or among the keys still to be read, the
claims still to be tried or the purges still to be done, or the request is already bound
to answer NOT_CANCELLABLE.

**`PluginCalls_proofs`.** What the plugins compute, for every reference, token and payload
the schemas admit, every reading, date and report, every damaged byte.  All that `calls`
checks is proved.

- `CallsRefusalIsFinal` (`RefusalIsFinal`) and `CallsTyped` (`TypeOK`).  `Sendable` says
  of the command alone what `RefusalIsFinal` compares the encoder with, so the lemmas
  evaluate the encoder for every input: `HexToBytesOf` and `AddressOf` (which strings are
  bytes, and which are an address of six of them), `ConfigOf` (which commands have a
  configuration), `FrameOf` (a frame is made of bytes and carries the checksum that
  `checksumHolds` compares), `HttpSends`, `GenerateOf` and `VoucherOf`.  `CallsInv` adds to
  the two what they need of earlier steps (`Progress`): a queued command is one its
  plugin takes, nothing has left before it is sent, and what was sent could be sent.
- `CommandsAsAsked` (`CommandAsAsked`).  Inductive is `CallsInv /\ Carried`, where
  `Carried` says where what is on the wire came from: from this command by `sendOne`, its
  token, if minted, from `r` by `generateToken`, and what the meter measured from what it
  was asked for.  The property is then one about functions, in three parts.  `FrameLayout`
  and `MeterHearsOf` say which byte of a frame is where and what the meter makes of it;
  with the lemmas on nibbles, BCD digits and data identifiers, `FrameMeans` concludes that
  it hears the command.  `V1Means` and `V2Means` go through the vendors' tables,
  `MintedMeans` through the mint.
- `WeekdayCounted`: `Date.UTC`'s weekday by formula is the one counted day by day from
  Saturday 1 January 2000.  `YearsCounted` and `MonthsCounted` sum the years and months by
  induction.
- `ReportsTruthful` (`ReportTruthful`), by `TruthInv`: `CallsInv`, `Carried` and the
  property.  It says of every success that value and device are the meter's, that the name is
  that of the command's own reading or acknowledgement (`Label`) and the phase the one that
  was read, but for the exceptions of section 6 (`Misnamed`, the phase of a V1 power).
  An answer that arrives whole decodes to what was measured
  (`UplinkTold`): `RegisterDecoded` for readings, where `BcdDigits` shows that the
  decoder's fold over BCD bytes undoes the meter's digits for every value the register
  holds (`Capacity`); `ClockDecoded`, `RefusedWrite` and `RefusalDropped` for clocks and
  refusals.
  Reports nobody asked for are laid out field by field
  (`ReportLaidOut`) and read back in the decoder's shifted offsets (`ReportDecoded`).
  Replies of V1 and V2 are followed in `HttpResponse`.  Damaged frames never get that far:
- `OneByteOffDropped`: an uplink with any one byte off does not decode.  The running
  totals of the two byte strings differ from the damaged byte on (`OneByteOff`), so the
  checksum fails; where the damaged byte is the checksum itself or a marker, that
  comparison fails.

The library's induction theorems take an operator and cannot be used here;
`NatSetInduction` states induction for a set of naturals and is proved from the
well-foundedness of `<`.  It gives the recursive functions of the model (`TotalMod256`,
`SumTo`) and the folds of the community modules their values, prefix by prefix.

**Only model-checked.** Liveness, and the temporal properties under fairness (out of this
prover's reach); of `Lifecycle`, `ReferencesCurrent` for PUSH plugins.

## 8. Not modelled, and what is left

Not modelled: HTTP parsing and authentication, configuration, metrics, logging, webhook
signing and event formatting, the plugin registry and catalog, the stub plugins (test
doubles), the contract package: they keep no state the other parts depend on, or are
generated.  Of modelled components: wait durations (abstracted to scores that come due),
unsolicited events in `incoming.ts` (they only store a webhook event), connectivity
figures and the signature check of the ChirpStack ingress, and V2's provisioning
passthrough of allowlisted paths.

Left in the plan, in this order:

1. `ReferencesCurrent` and the other invariants of `Pull_proofs` for PUSH plugins, under
   `SerialSpec`.
2. `DeliveryPromise`, an abstract specification of one message's life as the adopter
   sees it, implemented by `Lifecycle`, and its refinement proof.
