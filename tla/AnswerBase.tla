----------------------------- MODULE AnswerBase -----------------------------
(***************************************************************************)
(* What the four streamed surfaces of ds2api share: the record of an answer *)
(* under way (StreamAccumulator and the sieve), and what it amounts to.     *)
(*                                                                         *)
(* DeepSeek sends pieces, and an answer keeps the kinds of those it was     *)
(* given, of all its attempts; an event written for a piece names its      *)
(* position.                                                               *)
(*   think, thinkcall   reasoning; with a tool call in it                  *)
(*   text, space        text that is passed on at once; of white space only *)
(*   keep               text that the sieve keeps back until it is safe     *)
(*   call, late         a tool call; one that is found when the sieve is    *)
(*                      flushed                                            *)
(* Without tools there is no sieve, and calls are left out.                *)
(***************************************************************************)
EXTENDS AssistantTurn, Sequences

PieceKinds == {"think", "thinkcall", "text", "space", "keep", "call", "late"}
PlainKinds == {"think", "text", "space"}
Reasoning == {"think", "thinkcall"}
Shown == {"text", "space", "keep"}
Kept == {"keep", "late"}
Calls == {"call", "late"}

(* The record of an answer has at least the fields                         *)
(*   said             the pieces                                           *)
(*   held             the one that is in the sieve, or 0                   *)
(*   calls            tool calls were written                              *)
(*   out              the events written                                   *)
(*   tools, required  there are tools; tool_choice is required             *)
Write(rt, event) == [rt EXCEPT !.out = Append(@, event)]
Has(rt, kinds) == \E i \in DOMAIN rt.said : rt.said[i] \in kinds

(* What may come next: a call that is not closed takes in all text after it. *)
MayCome(rt, kind) ==
    /\ kind \in (IF rt.tools THEN PieceKinds ELSE PlainKinds)
    /\ rt.held # 0 => /\ kind \notin Kept
                      /\ rt.said[rt.held] = "late" => kind \in Reasoning

(* The sieve: what it keeps comes out before what is next, or at its flush. *)
Given(rt, kind) ==
    [rt EXCEPT !.said = Append(@, kind),
               !.held = IF kind \in Kept THEN Len(rt.said) + 1 ELSE @]

Released(rt) == [rt EXCEPT !.held = 0]

(* DetectAssistantToolCalls: calls in the reasoning count when nothing else  *)
(* is to be seen.                                                          *)
Detected(rt) == Has(rt, Calls) \/ (Has(rt, {"thinkcall"}) /\ ~Has(rt, {"text", "keep"}))

OutputOf(rt, filter) ==
    [text |-> Has(rt, {"text", "keep"}), thinking |-> Has(rt, Reasoning),
     calls |-> Detected(rt), filter |-> filter]

StatusOf(rt, filter) == FinalStatus(OutputOf(rt, filter), rt.required, rt.calls)
ReasonOf(rt, filter) == FinishReason(OutputOf(rt, filter), rt.required, rt.calls)

(* What a finalize hook returns. *)
Terminal(rt) == [rt |-> rt, terminal |-> TRUE]
Deferred(rt) == [rt |-> rt, terminal |-> FALSE]
============================================================================
