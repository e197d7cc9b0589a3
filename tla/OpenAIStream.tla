----------------------------- MODULE OpenAIStream ----------------------------
(***************************************************************************)
(* A streamed chat completion (openai.js, the stream branch): reasoning is *)
(* relayed as it arrives; content is collected, searched for tool calls at *)
(* the end, and written then, followed by the finish reason and [DONE].    *)
(***************************************************************************)
EXTENDS EventStream

CONSTANT MaxTool   \* bound: tool calls found in one answer

ASSUME ToolBound == MaxTool \in Nat

VARIABLES
    phase,       \* where handleOpenAICompletion stands
    clientGone,  \* set by the close event of the request
    buffer,      \* contentBuffer: the increments collected
    written      \* the chunks sent to the client

handlerVars == <<phase, clientGone, buffer, written>>
vars == <<streamVars, handlerVars>>

(***************************************************************************)
(*   reading    in the loop over the events                                *)
(*   repairing  waiting for the repair agent inside the done event         *)
(*   finishing  [DONE] was written, the loop is about to end               *)
(*   ended      res.end() was called                                       *)
(***************************************************************************)
Phase == {"reading", "repairing", "finishing", "ended"}

Chunk == [kind : {"role", "content", "toolCall", "toolArgs", "finish", "[DONE]"}]
         \cup [kind : {"reasoning"}, delta : Delta]

(* What extractToolCallsUnified finds in a text: tool calls, and whether    *)
(* there is text beside them.  Without tool calls there is text.            *)
Extraction == {x \in [tools : 0 .. MaxTool, text : BOOLEAN] : x.tools = 0 => x.text}

TypeOK ==
    /\ StreamTypeOK
    /\ phase \in Phase /\ clientGone \in BOOLEAN
    /\ buffer \in Seq(Delta) /\ written \in Seq(Chunk)

Init ==
    /\ StreamInit
    /\ phase = "reading" /\ clientGone = FALSE
    /\ buffer = <<>> /\ written = <<[kind |-> "role"]>>

-----------------------------------------------------------------------------
OnRead == Read /\ phase = "reading" /\ UNCHANGED handlerVars
OnSkip == SkipLine /\ phase = "reading" /\ UNCHANGED handlerVars

(* The close event: the body is locked by its reader, so that cancelling it *)
(* has no effect; only the flag remains.                                    *)
ClientCloses ==
    /\ lines = <<>> /\ phase \in {"reading", "repairing"}
    /\ clientGone' = TRUE
    /\ UNCHANGED <<streamVars, phase, buffer, written>>

(* if (clientGone) break, and what follows the loop. *)
Breaks == phase' = "ended" /\ UNCHANGED <<clientGone, buffer, written>>

OnDelta ==
    /\ phase = "reading"
    /\ \E d \in Delta :
         /\ YieldDelta(d)
         /\ \/ clientGone /\ Breaks
            \/ ~clientGone /\ d.part \in Thinking
               /\ written' = Append(written, [kind |-> "reasoning", delta |-> d])
               /\ UNCHANGED <<phase, clientGone, buffer>>
            \/ ~clientGone /\ d.part \notin Thinking
               /\ buffer' = Append(buffer, d)
               /\ UNCHANGED <<phase, clientGone, written>>

Just(kind) == <<[kind |-> kind]>>
(* toolArgs stands for the pieces a call's arguments are cut into. *)
ToolCalls(n) == [i \in 1 .. 2 * n |-> [kind |-> IF i % 2 = 1 THEN "toolCall" ELSE "toolArgs"]]

(* Mutant: the finish chunk comes before the tool calls. *)
ClosingFinishFirst(x) ==
    (IF x.text THEN Just("content") ELSE <<>>) \o Just("finish")
    \o ToolCalls(x.tools) \o Just("[DONE]")

(* What is written for an extraction. *)
Closing(x) ==
    (IF x.text THEN Just("content") ELSE <<>>) \o ToolCalls(x.tools)
    \o Just("finish") \o Just("[DONE]")

Finish(x) ==
    /\ written' = written \o Closing(x)
    /\ phase' = "finishing"
    /\ UNCHANGED <<clientGone, buffer>>

(* An answer without content finishes at once.  Otherwise tool calls or     *)
(* text are found, or the repair agent is asked.                            *)
OnDone ==
    /\ phase = "reading"
    /\ YieldDone
    /\ IF clientGone THEN Breaks
       ELSE \/ buffer = <<>> /\ Finish([tools |-> 0, text |-> FALSE])
            \/ buffer # <<>> /\ \E x \in Extraction : Finish(x)
            \/ /\ buffer # <<>>
               /\ phase' = "repairing"
               /\ UNCHANGED <<clientGone, buffer, written>>

(* Whatever the repair agent made of it; the raw text if nothing. *)
RepairAnswers ==
    /\ phase = "repairing"
    /\ \E x \in Extraction : Finish(x)
    /\ UNCHANGED streamVars

(* Mutant: only the done event ends the loop. *)
LoopEndsOnDone == phase = "finishing" /\ Breaks /\ UNCHANGED streamVars

(* The generator has returned, or its reader met the end of the body. *)
LoopEnds ==
    /\ \/ phase = "finishing" /\ UNCHANGED streamVars
       \/ phase = "reading" /\ BodyIsRead
    /\ Breaks

(* The reader threw: the catch clause ends a response whose head is out. *)
ReadFails == phase = "reading" /\ BodyThrows /\ Breaks

Handler == OnRead \/ OnSkip \/ OnDelta \/ OnDone \/ LoopEnds \/ ReadFails

Ended == phase = "ended" /\ UNCHANGED vars

Next == \/ Upstream /\ UNCHANGED handlerVars
        \/ Handler \/ RepairAnswers \/ ClientCloses \/ Ended

(* The handler runs when there is something to read.  That the repair       *)
(* agent answers is an assumption on the upstream service.                  *)
Spec == Init /\ [][Next]_vars /\ WF_vars(Handler) /\ WF_vars(RepairAnswers)

-----------------------------------------------------------------------------
(* Properties *)

Kinds == <<{"role"}, {"reasoning"}, {"content"}, {"toolCall", "toolArgs"},
           {"finish"}, {"[DONE]"}>>
Position(c) == CHOOSE i \in DOMAIN Kinds : c.kind \in Kinds[i]
Count(kind) == Cardinality({i \in DOMAIN written : written[i].kind = kind})

(* However the stream is cut, repaired or abandoned, the chunks a client    *)
(* sees keep the order role, reasoning, content, tool calls, finish,        *)
(* [DONE], the single ones come once, and a finish is never without [DONE]  *)
(* (openai.js:262-349).                                                     *)
StreamOrder ==
    /\ \A i, j \in DOMAIN written : i <= j => Position(written[i]) <= Position(written[j])
    /\ Count("role") = 1 /\ Count("content") <= 1
    /\ Count("finish") = Count("[DONE]") /\ Count("[DONE]") <= 1

(* The places of the increments of a part: reasoning is relayed, content    *)
(* collected.                                                               *)
Places(p) ==
    IF p \in Thinking
    THEN {i \in DOMAIN written : written[i].kind = "reasoning" /\ written[i].delta.part = p}
    ELSE {i \in DOMAIN buffer : buffer[i].part = p}
Increment(p, i) == IF p \in Thinking THEN written[i].delta ELSE buffer[i]

(* They have each of the first n characters, in order and once. *)
Tiles(p, n) ==
    /\ \A c \in 1 .. n : \E i \in Places(p) : Increment(p, i).from < c /\ c <= Increment(p, i).to
    /\ \A i, j \in Places(p) : i < j => Increment(p, i).to <= Increment(p, j).from
    /\ \A i \in Places(p) : Increment(p, i).from < Increment(p, i).to /\ Increment(p, i).to <= n

(* When a client is told that the answer is finished, the increments it got *)
(* (reasoning) or that went into the answer (content) are all of what       *)
(* chatglm.cn wrote, nothing twice, nothing missing, wherever the network   *)
(* cut the stream (chat.js:358-399, openai.js:277-292).                     *)
WholeText == Count("[DONE]") = 1 => \A p \in Part : Tiles(p, text[p])

(* Once the body has stopped, in whatever way, the response is ended.       *)
(* (openai.js:274-275, 360, 435-437; chat.js:361-362).                      *)
StreamEnds == body # "open" ~> phase = "ended"

(* API.en.md:110, "terminated by `data: [DONE]`": a response that is ended  *)
(* without an error, for a client still there, ends with [DONE]             *)
(* (openai.js:348, 360).                                                    *)
TerminatedByDone ==
    phase = "ended" /\ body # "failed" /\ ~clientGone
        => Last(written).kind = "[DONE]"

=============================================================================
