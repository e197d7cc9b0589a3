---------------------------- MODULE ClaudeAnswer ----------------------------
(***************************************************************************)
(* internal/httpapi/claude: what a streamed message of the native Claude    *)
(* surface writes.  The events of a block name it by its index.            *)
(***************************************************************************)
EXTENDS AnswerBase

(* next: nextBlockIndex; thinkBlock, textBlock: the open blocks, or -1.      *)
NewMessage(tools) ==
    [said |-> <<>>, held |-> 0, calls |-> FALSE, out |-> <<[t |-> "message_start"]>>,
     tools |-> tools, required |-> FALSE, next |-> 0, thinkBlock |-> -1, textBlock |-> -1]

Block(t, i) == [t |-> t, block |-> i]

CloseThinking(rt) ==
    IF rt.thinkBlock < 0 THEN rt
    ELSE [Write(rt, Block("stop", rt.thinkBlock)) EXCEPT !.thinkBlock = -1]

CloseText(rt) ==
    IF rt.textBlock < 0 THEN rt
    ELSE [Write(rt, Block("stop", rt.textBlock)) EXCEPT !.textBlock = -1]

BlockDelta(rt, i, p) == Write(rt, [t |-> "delta", block |-> i, piece |-> p])

ThinkingDelta(rt, p) ==
    LET r == CloseText(rt)
        o == IF r.thinkBlock >= 0 THEN r
             ELSE [Write(r, Block("start", r.next)) EXCEPT !.thinkBlock = r.next, !.next = @ + 1]
    IN BlockDelta(o, o.thinkBlock, p)

TextBlockDelta(rt, p) ==
    LET o == IF rt.textBlock >= 0 THEN rt
             ELSE [Write(rt, Block("start", rt.next)) EXCEPT !.textBlock = rt.next, !.next = @ + 1]
    IN BlockDelta(o, o.textBlock, p)

(* Mutant: a tool block begins in the open text block. *)
ToolBlockInText(rt, p) ==
    LET i == rt.next
        b == Write(BlockDelta(Write(rt, Block("start", i)), i, p), Block("stop", i))
    IN [b EXCEPT !.next = @ + 1, !.calls = TRUE]

(* sendToolUseBlock, after closeTextBlock; the reasoning stays open. *)
ToolBlock(rt, p) ==
    LET r == CloseText(rt)
        i == r.next
        b == Write(BlockDelta(Write(r, Block("start", i)), i, p), Block("stop", i))
    IN [b EXCEPT !.next = @ + 1, !.calls = TRUE]

ClaudeEvent(rt, i) ==
    IF rt.said[i] \in Calls THEN ToolBlock(rt, i) ELSE TextBlockDelta(CloseThinking(rt), i)
ClaudeSieved(rt) == IF rt.held = 0 THEN rt ELSE ClaudeEvent(Released(rt), rt.held)

ClaudeOnParsed(rt, kind) ==
    LET i == Len(rt.said) + 1 IN
    CASE kind \in Reasoning -> ThinkingDelta(Given(rt, kind), i)
      [] kind \in Kept -> Given(rt, kind)
      [] OTHER -> ClaudeEvent(Given(ClaudeSieved(rt), kind), i)

(* finalize flushes the sieve without closing the reasoning.  Text that was  *)
(* not written yet cannot be left after that.                              *)
ClaudeFlushEvent(rt, i) ==
    IF rt.said[i] \in Calls THEN ToolBlock(rt, i) ELSE TextBlockDelta(rt, i)
ClaudeFlushed(rt) == IF rt.held = 0 THEN rt ELSE ClaudeFlushEvent(Released(rt), rt.held)

ClaudeFail(rt, status) == Write(rt, [t |-> "error", status |-> status])

(* The filter is not looked at. *)
ClaudeFinalize(rt, defer) ==
    LET last   == CloseText(ClaudeFlushed(rt))
        status == StatusOf(last, FALSE)
        closed == CloseThinking(last)
        called == IF Detected(last) /\ ~last.calls THEN ToolBlock(closed, 0) ELSE closed
        reason == IF ReasonOf(last, FALSE) = "tool_calls" THEN "tool_use" ELSE "end_turn"
    IN CASE status = OK ->
              Terminal(Write(Write(called, [t |-> "message_delta", reason |-> reason]),
                          [t |-> "message_stop"]))
         [] status # OK /\ defer -> Deferred(last)
         [] OTHER -> Terminal(ClaudeFail(closed, status))
============================================================================
