----------------------------- MODULE MCDispatch -----------------------------
(* A message in each of two queues, or two phases of one id in the same queue,
   the second more urgent, and a request to cancel them. *)
EXTENDS Dispatch, TLC

CONSTANTS a, b, c, k

MCqueueKey    == a :> "network1" @@ b :> "network1" @@ c :> "network2"
MCpriority    == a :> 1 @@ b :> 2 @@ c :> 1
MCcorrelation == a :> "id1" @@ b :> "id1" @@ c :> "id2"
MCphase       == a :> "none" @@ b :> "B" @@ c :> "none"
MCasks        == k :> "id1"
MCCallSets    == {{a, c}, {a, b, k}}
=============================================================================
