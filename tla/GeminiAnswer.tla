---------------------------- MODULE GeminiAnswer ----------------------------
(***************************************************************************)
(* internal/httpapi/gemini/handler_stream_runtime.go: what a streamed answer *)
(* of the native Gemini surface writes.  With tools nothing is written      *)
(* before the end, and there is no sieve.                                   *)
(***************************************************************************)
EXTENDS AnswerBase

NewGenerate(tools) ==
    [said |-> <<>>, held |-> 0, calls |-> FALSE, out |-> <<>>, tools |-> tools,
     required |-> FALSE, filtered |-> FALSE]

GeminiOnParsed(rt, kind) ==
    LET r == Released(Given(rt, kind)) IN
    IF rt.tools THEN r
    ELSE Write(r, [t |-> IF kind \in Reasoning THEN "reasoning" ELSE "content",
                   piece |-> Len(r.said)])

GeminiFail(rt, status) == Write(rt, [t |-> "error", status |-> status])

(* A filter that stopped an attempt is remembered, and deferred all the same. *)
GeminiFinalize(rt, filter, defer) ==
    LET last   == [rt EXCEPT !.filtered = @ \/ filter]
        status == StatusOf(last, last.filtered)
        parts  == IF last.tools
                  THEN Write(last, [t |-> "parts", calls |-> Detected(last), said |-> Len(last.said)])
                  ELSE last
    IN CASE status = OK -> Terminal(Write(parts, [t |-> "finish"]))
         [] status # OK /\ defer -> Deferred(last)
         [] OTHER -> Terminal(GeminiFail(last, status))
============================================================================
