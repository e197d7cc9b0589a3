-------------------------- MODULE GatewayProperties --------------------------
(* What the requests of the proxy can rely on. *)
EXTENDS Gateway

(* A slot is held exactly while its request is using it: no way out of a    *)
(* handler keeps one, and no dispatch, second release or timeout takes one  *)
(* away or leaves one behind (queue.js:25-34, 72-80; openai.js:425-438).    *)
NoSlotLeak ==
    \A r \in Request :
      (slot[r] # NoEntry /\ ~released[r]) <=> pc[r] \in {"serving", "body"}

(* The queue holds each waiting request once and nothing else, and each of  *)
(* them can still be resolved or time out (queue.js:14-41, 66-67, 77-78).   *)
QueueHoldsWaiters ==
    /\ IsInjective(queue)
    /\ Len(queue) <= MaxQueueSize
    /\ \A r \in Request :
         /\ r \in Range(queue) <=> pc[r] = "queued"
         /\ timer[r] <=> pc[r] = "queued"
         /\ settled[r] <=> pc[r] \notin {"new", "queued"}

(* Somebody waits although a token has room, and nobody is about to see it. *)
Starving == EventLoopFree /\ queue # <<>> /\ ~NoneUsable

(* Requests never leave room behind for the ones that wait: when a token    *)
(* has room while the queue is not empty, an addition or a health check     *)
(* made it (queue.js:72-80 against auth.js:110 and 154).                    *)
StarvingOnlyByUpkeep == [][Starving' => Starving \/ pc' = pc]_vars

(* The waiting queue and the pool implement orderly admission to lanes of   *)
(* bounded width (module Admission).                                        *)
Lanes == INSTANCE Admission WITH
    Lane <- EntryId, NoLane <- NoEntry,
    Limit <- MaxConcurrent, MaxWaiting <- MaxQueueSize,
    line <- queue,
    lane <- [r \in Request |-> IF released[r] THEN NoEntry ELSE slot[r]],
    gone <- {r \in Request : pc[r] \notin {"new", "queued", "serving", "body"}}

ImplementsAdmission == Lanes!Spec

(* A request that waits is granted a slot or told to give up, whatever the  *)
(* upstream service does to the requests before it (queue.js:14-23).        *)
WaitersSettle == \A r \in Request : pc[r] = "queued" ~> settled[r]

(* If upstream calls end, every request that arrives leaves without a slot, *)
(* and its response is ended.  A stream of anthropic.js that fails midway   *)
(* is the exception: its catch clause (anthropic.js:425-431, against        *)
(* openai.js:436) leaves the response open.                                 *)
Answered(r) == status[r] # "none" \/ r \in AnthropicStream

EveryRequestAnswered ==
    \A r \in Request :
      pc[r] # "new" ~> /\ pc[r] = "done" /\ Answered(r)
                       /\ released[r] \/ slot[r] = NoEntry

(* The same, with the assumption on the upstream service spelled out.       *)
RequestsAnswered == UpstreamAnswers => EveryRequestAnswered

=============================================================================
