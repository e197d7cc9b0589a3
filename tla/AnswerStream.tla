---------------------------- MODULE AnswerStream ----------------------------
(***************************************************************************)
(* A streamed answer of ds2api on one of its four surfaces, over all its    *)
(* attempts: ExecuteStreamWithRetry with the hooks of the surface.  An      *)
(* attempt whose output is empty writes no end; the answer goes on with a   *)
(* retry, and then with one on another account, over the same record.       *)
(***************************************************************************)
EXTENDS ChatAnswer, ResponsesAnswer, ClaudeAnswer, GeminiAnswer, FiniteSets

CONSTANTS
    StreamRetries, \* RetryMaxAttempts
    MaxPieces      \* bound: pieces of all attempts

ASSUME AnswerBounds == StreamRetries \in Nat /\ MaxPieces \in Nat

VARIABLES
    surface,   \* "chat", "responses", "claude" or "gemini"
    managed,   \* UseConfigToken: there may be another account
    rt,        \* the runtime of the surface
    retries,   \* attempts
    moved,     \* accountSwitchAttempted
    gone,      \* the context of the request is done
    loop       \* "consume", "retry" or "over"

answerVars == <<surface, managed, rt, retries, moved, gone, loop>>

OnParsed(kind) ==
    CASE surface = "chat" -> ChatOnParsed(rt, kind)
      [] surface = "responses" -> ResponseOnParsed(rt, kind)
      [] surface = "claude" -> ClaudeOnParsed(rt, kind)
      [] surface = "gemini" -> GeminiOnParsed(rt, kind)

(* The OpenAI surfaces do not defer what the filter stopped. *)
FinalizeAnswer(filter, defer) ==
    CASE surface = "chat" -> ChatFinalize(rt, filter, defer /\ ~filter)
      [] surface = "responses" -> ResponseFinalize(rt, filter, defer /\ ~filter)
      [] surface = "claude" -> ClaudeFinalize(rt, defer)
      [] surface = "gemini" -> GeminiFinalize(rt, filter, defer)

FailAnswer(status) ==
    CASE surface = "chat" -> ChatFail(rt, status)
      [] surface = "responses" -> ResponseFail(rt, status)
      [] surface = "claude" -> ClaudeFail(rt, status)
      [] surface = "gemini" -> GeminiFail(rt, status)

AnswerInit ==
    /\ managed \in BOOLEAN
    /\ \E tools, required \in BOOLEAN :
          \/ surface = "chat" /\ rt = NewChat(tools, required)
          \/ surface = "responses" /\ rt = NewResponse(tools, required)
          \/ surface = "claude" /\ rt = NewMessage(tools)
          \/ surface = "gemini" /\ rt = NewGenerate(tools)
    /\ retries = 0 /\ moved = FALSE /\ gone = FALSE /\ loop = "consume"

----------------------------------------------------------------------------
(* An attempt: ConsumeAttempt. *)

Settle(result) ==
    /\ rt' = result.rt
    /\ loop' = IF result.terminal THEN "over" ELSE "retry"

AllowDefer == retries < StreamRetries \/ (managed /\ ~moved)

Piece ==
    /\ loop = "consume" /\ Len(rt.said) < MaxPieces
    /\ \E kind \in PieceKinds : MayCome(rt, kind) /\ rt' = OnParsed(kind)
    /\ UNCHANGED <<surface, managed, retries, moved, gone, loop>>

(* The body ends, by itself or by a stop, the filter or a timer. *)
AttemptEnds ==
    /\ loop = "consume"
    /\ \E filter \in BOOLEAN : Settle(FinalizeAnswer(filter, AllowDefer))
    /\ UNCHANGED <<surface, managed, retries, moved, gone>>

(* An error in the body, or of it, is an end of its own for Claude only. *)
BodyError ==
    /\ loop = "consume" /\ surface = "claude"
    /\ Settle(Terminal(ClaudeFail(rt, Failed)))
    /\ UNCHANGED <<surface, managed, retries, moved, gone>>

(* The client goes away: the OpenAI surfaces write nothing more. *)
ClientLeaves ==
    /\ loop = "consume" /\ ~gone
    /\ gone' = TRUE
    /\ IF surface \in {"chat", "responses"} THEN Settle(Terminal(rt))
       ELSE Settle(FinalizeAnswer(FALSE, AllowDefer))
    /\ UNCHANGED <<surface, managed, retries, moved>>

----------------------------------------------------------------------------
(* Between attempts. *)

NextAttempt == loop' = "consume" /\ ~gone /\ UNCHANGED rt
NoAttempt == loop' = "over" /\ \E status \in {Unauthorized, Failed} : rt' = FailAnswer(status)

RetrySame ==
    /\ loop = "retry" /\ retries < StreamRetries
    /\ retries' = retries + 1
    /\ NextAttempt \/ NoAttempt
    /\ UNCHANGED <<surface, managed, moved, gone>>

(* The switch may find no account: then the answer ends as it is. *)
RetryElsewhere ==
    /\ loop = "retry" /\ retries >= StreamRetries
    /\ moved' = (moved \/ managed)
    /\ \/ managed /\ ~moved /\ (NextAttempt \/ NoAttempt)
       \/ Settle(FinalizeAnswer(FALSE, FALSE))
    /\ UNCHANGED <<surface, managed, retries, gone>>

AnswerOver == loop = "over" /\ UNCHANGED answerVars

AnswerStep == AttemptEnds \/ RetrySame \/ RetryElsewhere
AnswerNext == Piece \/ BodyError \/ ClientLeaves \/ AnswerStep \/ AnswerOver

----------------------------------------------------------------------------
Events(out, t) == {i \in DOMAIN out : out[i].t \in t}
Before(out, t, i) == Cardinality({j \in Events(out, t) : j < i})
Ends(out, t) == out # <<>> /\ out[Len(out)].t \in t

(* The first delta, and no other, has the role; the stream ends with the    *)
(* finish chunk or with the error, and [DONE]; the reason is tool_calls if   *)
(* calls were written, which an error never follows; and calls that the     *)
(* sieve found are not written again                                        *)
(* (chat_stream_runtime.go:142-181, 239-298).                               *)
ChatFrames(out, final) ==
    /\ \A i \in Events(out, {"content", "reasoning", "calls"}) : out[i].role = (i = 1)
    /\ \A i \in Events(out, {"DONE"}) :
          i = Len(out) /\ i > 1 /\ out[i - 1].t \in {"finish", "error"}
    /\ \A i, j \in Events(out, {"finish", "error"}) : i = j
    /\ final => Ends(out, {"DONE"})
    /\ \A i \in Events(out, {"error"}) : Events(out, {"calls"}) = {}
    /\ \A i \in Events(out, {"finish"}) : out[i].reason = "tool_calls" <=> Events(out, {"calls"}) # {}
    /\ \A i \in Events(out, {"calls"}) : out[i].piece = 0 => Events(out, {"calls"}) = {i}

OfItem(out, n, t) == {i \in Events(out, t) : out[i].item = n}

(* Before the event at i the part of item n was begun and not ended since.   *)
PartOpen(out, n, i) ==
    \E j \in OfItem(out, n, {"partAdded"}) :
       j < i /\ \A k \in OfItem(out, n, {"partDone"}) : k < j \/ k >= i

(* An item that is done is gone on with, or done again. *)
Reopened(out) ==
    \E i, j \in Events(out, {"delta", "itemDone"}) :
       i < j /\ out[i].t = "itemDone" /\ out[i].item = out[j].item

(* The items of a response are numbered as they begin, what belongs to one   *)
(* comes while it is open, and the message that the response is completed    *)
(* with is the one that was streamed, which is done as all calls are; the    *)
(* stream ends with one end and [DONE].  A message that an empty attempt has *)
(* closed is gone on with, and closed again, by the next: attempts with one  *)
(* are left out (responses_stream_runtime_toolcalls.go:14-257,               *)
(* responses_stream_runtime_core.go:159-236).                               *)
ResponseItems(out, again, final) ==
    /\ Events(out, {"created"}) = {1}
    /\ \A i \in Events(out, {"itemAdded"}) : out[i].item = Before(out, {"itemAdded"}, i)
    /\ \A i \in Events(out, {"partAdded", "delta", "textDone", "partDone", "argsDone", "itemDone"}) :
          \E j \in OfItem(out, out[i].item, {"itemAdded"}) : j < i
    /\ \A i \in Events(out, {"delta", "textDone", "partDone"}) : PartOpen(out, out[i].item, i)
    /\ \A i \in Events(out, {"partAdded"}) : ~PartOpen(out, out[i].item, i)
    /\ Reopened(out) => again
    /\ \A i \in Events(out, {"completed"}) :
          /\ Reopened(out) \/ \A j \in Events(out, {"itemAdded"}) :
                                 \E k \in Events(out, {"itemDone"}) :
                                    OfItem(out, out[j].item, {"itemDone"}) = {k}
          /\ \A j \in Events(out, {"delta"}) : out[j].item = out[i].message
          /\ out[i].call >= 0 <=> Events(out, {"argsDone"}) # {}
    /\ \A i \in Events(out, {"failed"}) : Events(out, {"argsDone"}) = {}
    /\ \A i \in Events(out, {"DONE"}) :
          i = Len(out) /\ i > 1 /\ out[i - 1].t \in {"completed", "failed"}
    /\ \A i, j \in Events(out, {"completed", "failed"}) : i = j
    /\ final => Ends(out, {"DONE"})

OfBlock(out, n, t) == {i \in Events(out, t) : out[i].block = n}

(* Before the event at i block n was started and not stopped. *)
BlockOpen(out, n, i) ==
    /\ \E j \in OfBlock(out, n, {"start"}) : j < i
    /\ \A j \in OfBlock(out, n, {"stop"}) : j >= i

Thinks(said, out, n) ==
    \E i \in OfBlock(out, n, {"delta"}) : out[i].piece > 0 /\ said[out[i].piece] \in Reasoning
ToolDeltas(said, out) ==
    {i \in Events(out, {"delta"}) : out[i].piece = 0 \/ said[out[i].piece] \in Calls}

(* The blocks of a message are numbered as they begin, a delta comes while   *)
(* its block is open, and none but a reasoning block is open while another   *)
(* begins; a message that stops has closed them all, and stops for tool use  *)
(* if there was a tool block (claude/stream_runtime_core.go:90-250,          *)
(* stream_runtime_finalize.go:14-218).                                      *)
ClaudeBlocks(said, out, final) ==
    /\ Events(out, {"message_start"}) = {1}
    /\ \A i \in Events(out, {"start"}) : out[i].block = Before(out, {"start"}, i)
    /\ \A i \in Events(out, {"delta", "stop"}) : BlockOpen(out, out[i].block, i)
    /\ \A i, j \in Events(out, {"start"}) :
          i < j /\ BlockOpen(out, out[i].block, j) => Thinks(said, out, out[i].block)
    /\ \A i \in Events(out, {"message_stop"}) :
          /\ i = Len(out) /\ out[i - 1].t = "message_delta"
          /\ \A j \in Events(out, {"start"}) : ~BlockOpen(out, out[j].block, i)
          /\ out[i - 1].reason = "tool_use" <=> ToolDeltas(said, out) # {}
    /\ final => Ends(out, {"message_stop", "error"})

(* A native Gemini answer has one end, and with tools all of it comes there  *)
(* (gemini/handler_stream_runtime.go:240-383).                               *)
GeminiChunks(said, out, tools, final) ==
    /\ \A i \in Events(out, {"finish", "error"}) : i = Len(out)
    /\ final => Ends(out, {"finish", "error"})
    /\ tools => \A i \in DOMAIN out :
          out[i].t \in {"parts", "finish", "error"} /\ (out[i].t = "parts" => out[i].said = Len(said))

Final == loop = "over" /\ ~gone

(* What a surface writes keeps to its protocol over all attempts            *)
(* (stream_retry.go:39-147 and, for each surface, the lines above).         *)
AnswerProtocol ==
    CASE surface = "chat" -> ChatFrames(rt.out, Final)
      [] surface = "responses" -> ResponseItems(rt.out, retries > 0 \/ moved, Final)
      [] surface = "claude" -> ClaudeBlocks(rt.said, rt.out, Final)
      [] surface = "gemini" -> GeminiChunks(rt.said, rt.out, rt.tools, Final)

Carriers == {"content", "reasoning", "calls", "delta", "argsDone"}
Carried(out) == {i \in Events(out, Carriers) : out[i].piece > 0}
SameKind(said, p, q) == said[p] \in Reasoning <=> said[q] \in Reasoning

InOrder(said, out) ==
    \A i, j \in Carried(out) :
       i < j /\ SameKind(said, out[i].piece, out[j].piece) => out[i].piece < out[j].piece
Written(said, out) ==
    \A p \in DOMAIN said : said[p] \in Shown \cup Reasoning =>
       \E i \in Carried(out) : out[i].piece = p

(* Over all attempts every piece is written once at most, text in its order  *)
(* and reasoning in its own, and all of both before an end that is not an    *)
(* error; and an attempt that leaves an answer empty leaves the sieve empty  *)
(* (stream_retry.go:58-133 and the onParsed and finalize of each surface).   *)
AnswerWhole ==
    /\ InOrder(rt.said, rt.out)
    /\ loop = "retry" => rt.held = 0
    /\ Events(rt.out, {"finish", "completed", "message_stop"}) # {} =>
          Written(rt.said, rt.out) \/ (surface = "gemini" /\ rt.tools)
============================================================================
