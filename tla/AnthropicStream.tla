--------------------------- MODULE AnthropicStream ---------------------------
(***************************************************************************)
(* A streamed message (handleAnthropicStream of anthropic.js): numbered    *)
(* content blocks, each opened, filled and closed.  Thinking is relayed as *)
(* it arrives; content is collected and written as blocks of text and of   *)
(* tool calls at the end.                                                  *)
(*                                                                         *)
(* clientGone is passed by value when the stream starts, so that the test  *)
(* in the loop never sees it set: there is no client in this module.       *)
(***************************************************************************)
EXTENDS EventStream

CONSTANT MaxTool   \* bound: tool calls found in one answer

VARIABLES
    phase,    \* where handleAnthropicStream stands
    block,    \* currentBlockIndex
    open,     \* currentBlockType is not null
    buffer,   \* contentBuffer: the increments collected
    written   \* the events sent to the client

handlerVars == <<phase, block, open, buffer, written>>
vars == <<streamVars, handlerVars>>

(***************************************************************************)
(*   reading    in the loop over the events                                *)
(*   repairing  waiting for the repair agent inside the done event         *)
(*   ended      res.end() was called                                       *)
(*   left       an exception left the response open                        *)
(***************************************************************************)
Phase == {"reading", "repairing", "ended", "left"}

Extraction == {x \in [tools : 0 .. MaxTool, text : BOOLEAN] : x.tools = 0 => x.text}

StopReason == {"tool_use", "end_turn"}
Event ==
    [kind : {"message_start", "message_stop"}]
    \cup [kind : {"start"}, index : Nat, type : {"thinking", "text", "tool_use"}]
    \cup [kind : {"delta"}, index : Nat, what : {"thinking_delta", "text_delta", "input_json_delta"}]
    \cup [kind : {"stop"}, index : Nat]
    \cup [kind : {"message_delta"}, reason : StopReason]

TypeOK ==
    /\ StreamTypeOK
    /\ phase \in Phase
    /\ block \in Nat \cup {-1} /\ open \in BOOLEAN
    /\ buffer \in Seq(Delta) /\ written \in Seq(Event)

Init ==
    /\ StreamInit
    /\ phase = "reading" /\ block = -1 /\ open = FALSE
    /\ buffer = <<>> /\ written = <<[kind |-> "message_start"]>>

Start(i, type) == [kind |-> "start", index |-> i, type |-> type]
Fill(i, what)  == [kind |-> "delta", index |-> i, what |-> what]
Stop(i)        == [kind |-> "stop", index |-> i]
Block(i, type, what) == <<Start(i, type), Fill(i, what), Stop(i)>>
CloseOpen == IF open THEN <<Stop(block)>> ELSE <<>>
EndMessage(reason) ==
    <<[kind |-> "message_delta", reason |-> reason], [kind |-> "message_stop"]>>

-----------------------------------------------------------------------------
OnRead == Read /\ phase = "reading" /\ UNCHANGED handlerVars
OnSkip == SkipLine /\ phase = "reading" /\ UNCHANGED handlerVars

(* ensureBlock("thinking") and the increment. *)
OnThinking ==
    /\ open' = TRUE
    /\ block' = IF open THEN block ELSE block + 1
    /\ written' = written \o (IF open THEN <<>> ELSE <<Start(block', "thinking")>>)
                          \o <<Fill(block', "thinking_delta")>>
    /\ UNCHANGED <<phase, buffer>>

OnDelta ==
    /\ phase = "reading"
    /\ \E d \in Delta :
         /\ YieldDelta(d)
         /\ IF d.part \in Thinking THEN OnThinking
            ELSE /\ buffer' = Append(buffer, d)
                 /\ UNCHANGED <<phase, block, open, written>>

(* The blocks for an extraction, after block b. *)
Blocks(b, x) ==
    LET first == IF x.text THEN b + 1 ELSE b
        tool(i) == Block(first + i, "tool_use", "input_json_delta")
    IN (IF x.text THEN Block(first, "text", "text_delta") ELSE <<>>)
       \o [j \in 1 .. 3 * x.tools |-> tool(1 + ((j - 1) \div 3))[1 + ((j - 1) % 3)]]

Reason(x) == IF x.tools > 0 THEN "tool_use" ELSE "end_turn"

Finish(x) ==
    /\ block' = block + (IF x.text THEN 1 ELSE 0) + x.tools
    /\ phase' = "ended"

(* The done event closes the open block first. *)
OnDone ==
    /\ phase = "reading"
    /\ YieldDone
    /\ open' = FALSE
    /\ buffer' = buffer
    /\ \/ \E x \in IF buffer = <<>> THEN {[tools |-> 0, text |-> FALSE]} ELSE Extraction :
            /\ Finish(x)
            /\ written' = written \o CloseOpen \o Blocks(block, x)
                                  \o EndMessage(Reason(x))
       \/ /\ buffer # <<>>
          /\ phase' = "repairing" /\ block' = block
          /\ written' = written \o CloseOpen

(* Whatever the repair agent made of it; the raw text if nothing. *)
RepairAnswers ==
    /\ phase = "repairing"
    /\ \E x \in Extraction :
         /\ Finish(x)
         /\ written' = written \o Blocks(block, x) \o EndMessage(Reason(x))
    /\ UNCHANGED <<streamVars, open, buffer>>

(* Mutant: the block that is open when the body ends stays open. *)
BodyEndsOpen ==
    /\ phase = "reading" /\ BodyIsRead
    /\ written' = written \o EndMessage("end_turn")
    /\ phase' = "ended"
    /\ UNCHANGED <<block, open, buffer>>

(* The fallback after the loop: the content collected is not written. *)
BodyEnds ==
    /\ phase = "reading" /\ BodyIsRead
    /\ written' = written \o CloseOpen \o EndMessage("end_turn")
    /\ phase' = "ended"
    /\ UNCHANGED <<block, open, buffer>>

(* The reader threw: the catch clause of handleAnthropicMessages does       *)
(* nothing, the head of the response being out.                             *)
ReadFails ==
    /\ phase = "reading" /\ BodyThrows
    /\ phase' = "left"
    /\ UNCHANGED <<block, open, buffer, written>>

Ended == phase \in {"ended", "left"} /\ UNCHANGED vars

Handler == OnRead \/ OnSkip \/ OnDelta \/ OnDone \/ BodyEnds \/ ReadFails

Next == \/ Upstream /\ UNCHANGED handlerVars
        \/ Handler \/ RepairAnswers \/ Ended

(* The handler runs when there is something to read.  That the repair       *)
(* agent answers is an assumption on the upstream service.                  *)
Spec == Init /\ [][Next]_vars /\ WF_vars(Handler) /\ WF_vars(RepairAnswers)

-----------------------------------------------------------------------------
(* Properties *)

IsKind(kind) == {i \in DOMAIN written : written[i].kind = kind}

(* What may come right after event e. *)
Holds == [thinking |-> "thinking_delta", text |-> "text_delta", tool_use |-> "input_json_delta"]

Follows(e, f) ==
    \/ f.kind = "start" /\ \/ e.kind = "message_start" /\ f.index = 0
                           \/ e.kind = "stop" /\ f.index = e.index + 1
    \/ f.kind = "delta" /\ \/ e.kind = "start" /\ e.index = f.index /\ f.what = Holds[e.type]
                           \/ e.kind = "delta" /\ e.index = f.index /\ f.what = e.what
    \/ f.kind = "stop" /\ e.kind = "delta" /\ e.index = f.index
    \/ f.kind = "message_delta" /\ e.kind \in {"message_start", "stop"}
    \/ f.kind = "message_stop" /\ e.kind = "message_delta"

(* Block protocol: blocks are numbered 0, 1, 2, ... in the order they are   *)
(* opened; each is closed before the next one opens, is filled only while   *)
(* it is open and only with what its type holds, and is closed when the     *)
(* message ends, whether with the done event, after a repair, or because    *)
(* the body stopped (anthropic.js:524-537, 560-626, 643-646).               *)
BlockProtocol ==
    /\ written[1].kind = "message_start"
    /\ \A i \in 2 .. Len(written) : Follows(written[i - 1], written[i])

(* A message that is ended was stopped once, at its end, with the reason    *)
(* that its blocks show: "tool_use" if and only if there is a tool call     *)
(* (anthropic.js:628-635, 647-654).                                         *)
StopMatchesBlocks ==
    LET stops == IsKind("message_stop")
        calls == {i \in IsKind("start") : written[i].type = "tool_use"} IN
    /\ phase = "ended" <=> stops = {Len(written)}
    /\ phase # "ended" => stops = {}
    /\ \A i \in IsKind("message_delta") :
         written[i].reason = "tool_use" <=> calls # {}

(* Once the body has stopped, the handler leaves the loop: no stream keeps  *)
(* its token (anthropic.js:540, 636, 643-654; chat.js:361-362).             *)
StreamLeaves == body # "open" ~> phase \in {"ended", "left"}

=============================================================================
