----------------------------- MODULE ChatAnswer -----------------------------
(***************************************************************************)
(* internal/httpapi/openai/chat/chat_stream_runtime.go: what a streamed     *)
(* chat completion writes.                                                 *)
(***************************************************************************)
EXTENDS AnswerBase

(* first: firstChunkSent. *)
NewChat(tools, required) ==
    [said |-> <<>>, held |-> 0, calls |-> FALSE, out |-> <<>>, tools |-> tools,
     required |-> required, first |-> FALSE]

(* sendDelta: the first one has the role. *)
ChatDelta(rt, t, i) ==
    [Write(rt, [t |-> t, piece |-> i, role |-> ~rt.first]) EXCEPT !.first = TRUE]

ChatCalls(rt, i) == [ChatDelta(rt, "calls", i) EXCEPT !.calls = TRUE]

ChatEvent(rt, i) == IF rt.said[i] \in Calls THEN ChatCalls(rt, i) ELSE ChatDelta(rt, "content", i)
ChatFlushed(rt) == IF rt.held = 0 THEN rt ELSE ChatEvent(Released(rt), rt.held)

ChatOnParsed(rt, kind) ==
    LET i == Len(rt.said) + 1 IN
    CASE kind \in Reasoning -> ChatDelta(Given(rt, kind), "reasoning", i)
      [] kind \in Kept -> Given(rt, kind)
      [] OTHER -> ChatEvent(Given(ChatFlushed(rt), kind), i)

ChatDone(rt) == Write(rt, [t |-> "DONE"])
ChatFail(rt, status) == ChatDone(Write(rt, [t |-> "error", status |-> status]))

ChatFinalize(rt, filter, defer) ==
    LET last == IF Detected(rt) /\ ~rt.calls
                THEN ChatCalls(rt, 0)
                ELSE ChatFlushed(rt)
    IN CASE StatusOf(last, filter) = OK ->
              Terminal(ChatDone(Write(last, [t |-> "finish", reason |-> ReasonOf(last, filter)])))
         [] StatusOf(last, filter) # OK /\ defer -> Deferred(last)
         [] OTHER -> Terminal(ChatFail(last, StatusOf(last, filter)))
============================================================================
