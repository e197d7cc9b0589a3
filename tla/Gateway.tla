------------------------------- MODULE Gateway -------------------------------
(***************************************************************************)
(* Requests, the waiting queue of src/src/queue.js and the slot discipline *)
(* of the route handlers, over the pool of module TokenPool.               *)
(*                                                                         *)
(* A handler awaits enqueueRequest, uses its slot for upstream calls, and  *)
(* on every way out calls slot.release and then dispatchQueued.            *)
(* dispatchQueued is a loop; it is modelled one iteration per step.  The   *)
(* handler that runs it is in one of the states Busy, and no timer,        *)
(* arrival, upstream answer or pool upkeep can run before it has left      *)
(* them: JavaScript callbacks run to completion.                           *)
(***************************************************************************)
EXTENDS TokenPool

CONSTANTS
    ChatRequest,   \* requests of openai.js and anthropic.js: a try statement
                   \* with a finally inside one with a catch
    AnthropicStream, \* those of anthropic.js that ask for a stream
    MaxQueueSize   \* MAX_QUEUE_SIZE

ASSUME GatewayAssumption == /\ ChatRequest \subseteq Holder
                            /\ AnthropicStream \subseteq ChatRequest
                            /\ MaxQueueSize \in Nat

Request == Holder   \* a request calls enqueueRequest, hence acquireToken, once

VARIABLES
    queue,    \* the waiting entries, first in first out
    settled,  \* per request: the flag in the closure of enqueueRequest
    timer,    \* per request: its queue timeout is pending
    pc,       \* where the request's handler stands
    status    \* what the client was answered

gatewayVars == <<queue, settled, timer, pc, status>>
vars == <<poolVars, gatewayVars>>

(***************************************************************************)
(*   serving    the slot is held, no body stream yet (uploads, completion) *)
(*   body       inside the inner try of a chat handler                     *)
(*   leaving    slot.release was called, dispatchQueued is running         *)
(*   unwinding  the same in a finally clause, with an exception in flight  *)
(*   catching   that exception has reached the outer catch clause          *)
(***************************************************************************)
Location == {"new", "queued", "serving", "body", "leaving", "unwinding",
             "catching", "done"}
Busy == {"leaving", "unwinding", "catching"}
EventLoopFree == \A r \in Request : pc[r] \notin Busy

Status == {"none", "ok", "failed", "queueFull", "timedOut"}

TypeOK ==
    /\ PoolTypeOK
    /\ queue \in Seq(Request)
    /\ settled \in [Request -> BOOLEAN]
    /\ timer \in [Request -> BOOLEAN]
    /\ pc \in [Request -> Location]
    /\ status \in [Request -> Status]

Init ==
    /\ PoolInit
    /\ queue = <<>>
    /\ settled = [r \in Request |-> FALSE]
    /\ timer = [r \in Request |-> FALSE]
    /\ pc = [r \in Request |-> "new"]
    /\ status = [r \in Request |-> "none"]

Goto(r, l) == pc' = [pc EXCEPT ![r] = l]
Answers(r, s) == status' = [status EXCEPT ![r] = s]

-----------------------------------------------------------------------------
(* enqueueRequest: take a slot at once if there is one, whoever waits *)
EnqueueGranted(r) ==
    /\ EventLoopFree /\ pc[r] = "new"
    /\ AcquireToken(r)
    /\ settled' = [settled EXCEPT ![r] = TRUE]
    /\ Goto(r, "serving")
    /\ UNCHANGED <<queue, timer, status>>

EnqueueRejected(r) ==
    /\ EventLoopFree /\ pc[r] = "new"
    /\ NoneUsable
    /\ Len(queue) >= MaxQueueSize
    /\ settled' = [settled EXCEPT ![r] = TRUE]
    /\ Goto(r, "done") /\ Answers(r, "queueFull")
    /\ UNCHANGED <<poolVars, queue, timer>>

(* Mutant: no timer is set. *)
EnqueueWaitsUntimed(r) ==
    /\ EventLoopFree /\ pc[r] = "new"
    /\ NoneUsable
    /\ Len(queue) < MaxQueueSize
    /\ queue' = Append(queue, r)
    /\ Goto(r, "queued")
    /\ UNCHANGED <<poolVars, settled, timer, status>>

EnqueueWaits(r) ==
    /\ EventLoopFree /\ pc[r] = "new"
    /\ NoneUsable
    /\ Len(queue) < MaxQueueSize
    /\ queue' = Append(queue, r)
    /\ timer' = [timer EXCEPT ![r] = TRUE]
    /\ Goto(r, "queued")
    /\ UNCHANGED <<poolVars, settled, status>>

(* Mutant: the entry of a request that timed out stays in the queue. *)
QueueTimeoutLinked(r) ==
    /\ EventLoopFree /\ timer[r]
    /\ timer' = [timer EXCEPT ![r] = FALSE]
    /\ settled' = [settled EXCEPT ![r] = TRUE]
    /\ Goto(r, "done") /\ Answers(r, "timedOut")
    /\ UNCHANGED <<poolVars, queue>>

(* The timer callback: unlink the entry, then reject unless settled. *)
QueueTimeout(r) ==
    /\ EventLoopFree /\ timer[r]
    /\ queue' = RemoveFirst(queue, r)
    /\ timer' = [timer EXCEPT ![r] = FALSE]
    /\ IF settled[r]
       THEN UNCHANGED <<settled, pc, status>>
       ELSE /\ settled' = [settled EXCEPT ![r] = TRUE]
            /\ Goto(r, "done") /\ Answers(r, "timedOut")
    /\ UNCHANGED poolVars

-----------------------------------------------------------------------------
(* dispatchQueued, running inside the handler of h *)

(* resolveSlot hands the slot to the waiter, or releases it at once when    *)
(* the waiter was settled before.                                           *)
DispatchNext(h) ==
    LET r == Head(queue) IN
    /\ pc[h] \in {"leaving", "unwinding"}
    /\ queue # <<>>
    /\ queue' = Tail(queue)
    /\ IF settled[r]
       THEN ~NoneUsable /\ UNCHANGED <<poolVars, settled, timer, pc>>
       ELSE /\ AcquireToken(r)
            /\ settled' = [settled EXCEPT ![r] = TRUE]
            /\ timer' = [timer EXCEPT ![r] = FALSE]
            /\ Goto(r, "serving")
    /\ UNCHANGED status

(* Mutant: the handler leaves whatever the queue holds. *)
DispatchEndEarly(h) ==
    /\ pc[h] \in {"leaving", "unwinding"}
    /\ Goto(h, IF pc[h] = "leaving" THEN "done" ELSE "catching")
    /\ UNCHANGED <<poolVars, queue, settled, timer, status>>

DispatchEnd(h) ==
    /\ pc[h] \in {"leaving", "unwinding"}
    /\ queue = <<>> \/ NoneUsable
    /\ Goto(h, IF pc[h] = "leaving" THEN "done" ELSE "catching")
    /\ UNCHANGED <<poolVars, queue, settled, timer, status>>

-----------------------------------------------------------------------------
(* The handlers *)

(* completion() has answered: a chat handler enters its inner try. *)
BodyStarts(r) ==
    /\ EventLoopFree /\ pc[r] = "serving" /\ r \in ChatRequest
    /\ Goto(r, "body")
    /\ UNCHANGED <<poolVars, queue, settled, timer, status>>

(* An upload, completion() or (outside the chat handlers) anything else the *)
(* slot is used for ends; there is one release on this way out.             *)
(*                                                                          *)
(* Mutant: the catch clause does not release.                               *)
ServingEndsHolding(r, s) ==
    /\ EventLoopFree /\ pc[r] = "serving"
    /\ r \in ChatRequest => s = "failed"
    /\ Goto(r, "leaving") /\ Answers(r, s)
    /\ UNCHANGED <<poolVars, queue, settled, timer>>

ServingEnds(r, s) ==
    /\ EventLoopFree /\ pc[r] = "serving"
    /\ r \in ChatRequest => s = "failed"
    /\ ReleaseToken(r)
    /\ Goto(r, "leaving") /\ Answers(r, s)
    /\ UNCHANGED <<queue, settled, timer>>

(* The body was relayed: the finally clause releases. *)
BodyEnds(r) ==
    /\ EventLoopFree /\ pc[r] = "body"
    /\ ReleaseToken(r)
    /\ Goto(r, "leaving") /\ Answers(r, "ok")
    /\ UNCHANGED <<queue, settled, timer>>

(* Mutant: a reading error is only noted by the finally clause. *)
BodyFailsSilently(r) ==
    /\ EventLoopFree /\ pc[r] = "body"
    /\ ReleaseToken(r)
    /\ Goto(r, "leaving")
    /\ UNCHANGED <<queue, settled, timer, status>>

(* Reading the body threw: the finally clause releases and dispatches, and  *)
(* then the catch clause releases and dispatches a second time.             *)
BodyFails(r) ==
    /\ EventLoopFree /\ pc[r] = "body"
    /\ ReleaseToken(r)
    /\ Goto(r, "unwinding")
    /\ UNCHANGED <<queue, settled, timer, status>>

(* It then ends the response, except that anthropic.js does nothing once    *)
(* the headers of a stream are out.                                         *)
CatchReleases(r) ==
    /\ pc[r] = "catching"
    /\ ReleaseToken(r)
    /\ Goto(r, "leaving")
    /\ IF r \in AnthropicStream THEN UNCHANGED status ELSE Answers(r, "failed")
    /\ UNCHANGED <<queue, settled, timer>>

PoolUpkeep == EventLoopFree /\ Upkeep /\ UNCHANGED gatewayVars

-----------------------------------------------------------------------------
Run(r)      == DispatchNext(r) \/ DispatchEnd(r) \/ CatchReleases(r)
Upstream(r) == \/ BodyStarts(r) \/ BodyEnds(r) \/ BodyFails(r)
               \/ \E s \in {"ok", "failed"} : ServingEnds(r, s)

Next ==
    \/ PoolUpkeep
    \/ \E r \in Request :
         \/ EnqueueGranted(r) \/ EnqueueRejected(r) \/ EnqueueWaits(r)
         \/ QueueTimeout(r)
         \/ Run(r)
         \/ Upstream(r)

(* A callback that has started runs to its end, and a pending timer fires:  *)
(* both are the JavaScript engine's doing.                                  *)
Fairness == \A r \in Request : WF_vars(Run(r)) /\ WF_vars(QueueTimeout(r))

Spec == Init /\ [][Next]_vars /\ Fairness

(* fetch is called without a timeout, so that an upstream call comes to an  *)
(* end is an assumption on the upstream service, kept apart.                *)
UpstreamAnswers == \A r \in Request : WF_vars(Upstream(r))
FairSpec == Spec /\ UpstreamAnswers

=============================================================================
