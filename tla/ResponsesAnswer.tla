--------------------------- MODULE ResponsesAnswer ---------------------------
(***************************************************************************)
(* internal/httpapi/openai/responses: what a streamed response writes.  The *)
(* events of an item name it by its output index.                          *)
(***************************************************************************)
EXTENDS AnswerBase

(* next: nextOutputID; added, part: the message item and its part are open;  *)
(* msg, fun: the output index of the message and of the call, or -1.         *)
NewResponse(tools, required) ==
    [said |-> <<>>, held |-> 0, calls |-> FALSE, out |-> <<[t |-> "created"]>>, tools |-> tools,
     required |-> required, next |-> 0, added |-> FALSE, part |-> FALSE, msg |-> -1, fun |-> -1]

Item(t, i) == [t |-> t, item |-> i]
ItemPiece(t, i, p) == [t |-> t, item |-> i, piece |-> p]

(* ensureMessageOutputIndex, ensureFunctionOutputIndex. *)
MessageIndex(rt) == IF rt.msg >= 0 THEN rt ELSE [rt EXCEPT !.msg = rt.next, !.next = @ + 1]
FunctionIndex(rt) == IF rt.fun >= 0 THEN rt ELSE [rt EXCEPT !.fun = rt.next, !.next = @ + 1]

AddMessage(rt) == [Write(rt, Item("itemAdded", rt.msg)) EXCEPT !.added = TRUE]
AddPart(rt) == [Write(rt, Item("partAdded", rt.msg)) EXCEPT !.part = TRUE]
WriteText(rt, i) == Write(rt, ItemPiece("delta", rt.msg, i))

MessageAdded(rt) == IF rt.added THEN rt ELSE AddMessage(MessageIndex(rt))
PartAdded(rt) == IF rt.part THEN rt ELSE AddPart(MessageAdded(rt))
TextDelta(rt, i) == WriteText(PartAdded(rt), i)

ClosePart(rt) ==
    IF ~rt.part THEN rt
    ELSE [Write(Write(rt, Item("textDone", rt.msg)), Item("partDone", rt.msg)) EXCEPT !.part = FALSE]

MessageDone(rt) == Write(rt, Item("itemDone", rt.msg))
CloseMessage(rt) == IF ~rt.added THEN rt ELSE MessageDone(ClosePart(rt))

(* emitFunctionCallDoneEvents for one call. *)
WriteCall(rt, i) ==
    LET added == Write(rt, Item("itemAdded", rt.fun))
        done  == Write(Write(added, ItemPiece("argsDone", rt.fun, i)), Item("itemDone", rt.fun))
    IN [done EXCEPT !.calls = TRUE]
FunctionCall(rt, i) == WriteCall(FunctionIndex(rt), i)

(* processToolStreamEvents: after a call the next is another item. *)
ResponseEvent(rt, i) ==
    IF rt.said[i] \in Calls THEN [FunctionCall(rt, i) EXCEPT !.fun = -1] ELSE TextDelta(rt, i)
ResponseFlushed(rt) == IF rt.held = 0 THEN rt ELSE ResponseEvent(Released(rt), rt.held)

ResponseOnParsed(rt, kind) ==
    LET i == Len(rt.said) + 1 IN
    CASE kind \in Reasoning -> Write(Given(rt, kind), [t |-> "reasoning", piece |-> i])
      [] kind \in Kept -> Given(rt, kind)
      [] OTHER -> ResponseEvent(Given(ResponseFlushed(rt), kind), i)

ResponseDone(rt) == Write(rt, [t |-> "DONE"])
ResponseFail(rt, status) == ResponseDone(Write(rt, [t |-> "failed", status |-> status]))

(* buildCompletedResponseObject: the output items, each with its index. *)
HasMessage(rt, o) ==
    rt.added \/ (o.calls /\ o.thinking) \/ (~o.calls /\ (o.thinking \/ Has(rt, Shown)))
WithMessage(rt, o) == IF HasMessage(rt, o) THEN MessageIndex(rt) ELSE rt
WithCall(rt, o) == IF o.calls THEN FunctionIndex(rt) ELSE rt
WriteCompleted(rt, o) ==
    Write(rt, [t |-> "completed", message |-> rt.msg, call |-> IF o.calls THEN rt.fun ELSE -1])
Completed(rt, o) == WriteCompleted(WithCall(WithMessage(rt, o), o), o)

Settled(rt, filter, defer) ==
    CASE StatusOf(rt, filter) = OK -> Terminal(ResponseDone(Completed(rt, OutputOf(rt, filter))))
      [] StatusOf(rt, filter) # OK /\ defer -> Deferred(rt)
      [] OTHER -> Terminal(ResponseFail(rt, StatusOf(rt, filter)))

Called(rt) == IF Detected(rt) /\ ~rt.calls THEN FunctionCall(rt, 0) ELSE rt

(* Mutant: what the sieve keeps is not flushed. *)
ResponseFinalizeUnflushed(rt, filter, defer) == Settled(CloseMessage(Called(rt)), filter, defer)

ResponseFinalize(rt, filter, defer) ==
    Settled(CloseMessage(Called(ResponseFlushed(rt))), filter, defer)
============================================================================
