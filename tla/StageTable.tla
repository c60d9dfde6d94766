----------------------------- MODULE StageTable -----------------------------
(***************************************************************************)
(* The stage table of the delivery lifecycle as data: the queues, the      *)
(* status each stage gives on entry, the pipelines, and the two lookups    *)
(* (what comes next; which stage a status stands for).  Durations and key  *)
(* strings are abstracted away: a queue is named by its stage, and the     *)
(* ready queue, which is not a stage, by "ready".                          *)
(***************************************************************************)
EXTENDS Naturals

CONSTANT Pattern    \* delivery pattern of the plugin modelled: "PUSH" or "PULL"

ASSUME PatternAssumption == Pattern \in {"PUSH", "PULL"}

\* The five rows of the table; each is a Redis sorted set scored by due time.
STAGES == {"ns", "relayNode", "device", "awaitingTask", "retry"}

\* Every sorted set a message id can be a member of.
Queues == STAGES \cup {"ready"}

\* The outcomes an adopter is told are final.
TerminalStatuses == {"DELIVERY_SUCCESSFUL", "DELIVERY_FAILED"}

\* Status values the message hash holds.  The terminal ones are only ever put
\* on the copy given to the webhook, never written to the hash.
Statuses == {"QUEUED", "SENT_TO_NS", "DELIVERED_TO_NS", "SENT_TO_DEVICE", "TO_RETRY"}

\* The status a message takes when it enters a stage.
entryStatusFailed ==         \* seeded fault: the retry stage writes a terminal status
    [ns |-> "SENT_TO_NS", relayNode |-> "DELIVERED_TO_NS", awaitingTask |-> "DELIVERED_TO_NS",
     device |-> "SENT_TO_DEVICE", retry |-> "DELIVERY_FAILED"]

entryStatus == [ns           |-> "SENT_TO_NS",
                relayNode    |-> "DELIVERED_TO_NS",
                awaitingTask |-> "DELIVERED_TO_NS",
                device       |-> "SENT_TO_DEVICE",
                retry        |-> "TO_RETRY"]

\* The forward path of each pattern, as the successor of each stage on it.
PIPELINES == [PUSH |-> [ns |-> "relayNode", relayNode |-> "device"],
              PULL |-> [ns |-> "awaitingTask"]]

\* The stages this plugin's messages visit.
PluginStages == IF Pattern = "PUSH" THEN {"ns", "relayNode", "device", "retry"}
                                    ELSE {"ns", "awaitingTask", "retry"}

nextStage(current) == PIPELINES[Pattern][current]

\* "none": the message is in the ready queue, not in a stage.
stageForStatus(status) ==
    CASE status = "SENT_TO_NS"      -> "ns"
      [] status = "DELIVERED_TO_NS" -> IF Pattern = "PUSH" THEN "relayNode" ELSE "awaitingTask"
      [] status = "SENT_TO_DEVICE"  -> "device"
      [] status = "TO_RETRY"        -> "retry"
      [] OTHER                      -> "none"

\* The queue a message with this status is expected to wait in.
queueForStatus(status) ==
    IF status = "QUEUED" THEN "ready" ELSE stageForStatus(status)
=============================================================================
