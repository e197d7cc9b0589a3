--------------------------- MODULE AssistantTurn ---------------------------
(***************************************************************************)
(* What ds2api makes of the output of one completion                       *)
(* (internal/assistantturn, internal/httpapi/openai/shared): whether it is *)
(* an answer, an error, or empty and worth asking for again.               *)
(*                                                                         *)
(* An output is what there is of it: visible text, reasoning, tool calls,  *)
(* and whether the content filter of DeepSeek stopped it.                  *)
(***************************************************************************)
EXTENDS Integers

Output == [text : BOOLEAN, thinking : BOOLEAN, calls : BOOLEAN, filter : BOOLEAN]

NoOutput == [text |-> FALSE, thinking |-> FALSE, calls |-> FALSE, filter |-> FALSE]

OK == 200
Unauthorized == 401
TooMany == 429
Failed == 500

EmptyOutputDetail(o) ==
    IF o.filter THEN 400 ELSE IF o.thinking THEN TooMany ELSE 503

(* The status of the error of a turn; OK when it has none.  "required" is  *)
(* tool_choice = required.                                                 *)
ValidateTurn(o, required) ==
    IF required /\ ~o.calls THEN 422
    ELSE IF o.calls \/ o.text THEN OK
    ELSE EmptyOutputDetail(o)

StopReason(o, required) ==
    IF ValidateTurn(o, required) # OK THEN "error"
    ELSE IF o.calls THEN "tool_calls"
    ELSE IF o.filter THEN "content_filter"
    ELSE "stop"

(* Mutant: what the content filter stopped is asked for again. *)
ShouldRetryEmptyOutputFiltered(o, attempts, retryMax) ==
    attempts < retryMax /\ ~o.calls /\ ~o.text

ShouldRetryEmptyOutput(o, attempts, retryMax) ==
    attempts < retryMax /\ ~o.filter /\ ~o.calls /\ ~o.text

(* FinalizeTurn: tool calls that are already sent excuse a missing text. *)
FinalStatus(o, required, emitted) ==
    IF o.calls \/ emitted THEN OK ELSE ValidateTurn(o, required)

FinishReason(o, required, emitted) ==
    IF o.calls \/ emitted THEN "tool_calls"
    ELSE IF StopReason(o, required) = "content_filter" THEN "content_filter"
    ELSE "stop"
============================================================================
