----------------------------- MODULE EventStream -----------------------------
(***************************************************************************)
(* parseSSEStream of src/src/chat.js: the event stream of chatglm.cn, in   *)
(* which every update repeats a part's whole text so far, cut into the     *)
(* increments the handlers relay.                                          *)
(*                                                                         *)
(* A text is the number of characters of a part that are there; a line of  *)
(* the stream names one part (the code loops over the parts of a line, so  *)
(* several are like several lines read at once).  The network cuts the     *)
(* stream anywhere: a chunk ends inside a line or between two.             *)
(*                                                                         *)
(* The generator runs on the handler's demand, so the handlers' modules    *)
(* extend this one and say what becomes of an increment and of the end.    *)
(* The conversation id, stored by the handlers and read by none, is left   *)
(* out.                                                                    *)
(***************************************************************************)
EXTENDS Integers, Sequences, FiniteSets, SequencesExt

CONSTANTS
    Part,      \* the parts of an answer: pairs of a type and a logic_id
    Thinking,  \* those of type think; the others are of type text
    MaxText,   \* bound: characters of a part
    MaxLine    \* bound: lines of a stream

ASSUME StreamBounds == MaxText \in Nat /\ MaxLine \in Nat

(* A line shows the first "shown" characters of a part (0: the line has no  *)
(* text, or it is not JSON), and may carry the status "finish".             *)
Line == [part : Part, shown : 0 .. MaxText, finish : BOOLEAN]

(* An increment: the characters after "from" up to "to" of a part. *)
Delta == [part : Part, from : 0 .. MaxText, to : 0 .. MaxText]

VARIABLES
    text,     \* per part: what chatglm.cn has written so far
    sent,     \* lines sent
    wire,     \* lines sent and not yet read to their end
    torn,     \* the first of them has been read in part, into "buffer"
    body,     \* the response body: "open", "ended", "cut" inside the last
              \* line of wire, or "failed"
    lines,    \* lines of the chunk at hand
    shown     \* lastContent: per part, the text already turned into events

upstreamVars == <<text, sent, body>>
parserVars   == <<wire, torn, lines, shown>>
streamVars   == <<upstreamVars, parserVars>>

StreamTypeOK ==
    /\ text \in [Part -> 0 .. MaxText]
    /\ sent \in 0 .. MaxLine
    /\ wire \in Seq(Line) /\ torn \in BOOLEAN
    /\ body \in {"open", "ended", "cut", "failed"}
    /\ lines \in Seq(Line)
    /\ shown \in [Part -> 0 .. MaxText]

StreamInit ==
    /\ text = [p \in Part |-> 0] /\ sent = 0 /\ body = "open"
    /\ wire = <<>> /\ torn = FALSE
    /\ lines = <<>> /\ shown = text

-----------------------------------------------------------------------------
(* chatglm.cn and the network *)

Send(p, n, finish) ==
    /\ body = "open" /\ sent < MaxLine
    /\ n = 0 \/ n >= text[p]
    /\ text' = [text EXCEPT ![p] = IF n = 0 THEN @ ELSE n]
    /\ sent' = sent + 1
    /\ wire' = Append(wire, [part |-> p, shown |-> n, finish |-> finish])
    /\ body' = IF finish THEN "ended" ELSE "open"
    /\ UNCHANGED <<torn, lines, shown>>

(* The body ends: after a line, inside the last one, or with an error. *)
BodyStops(how) ==
    /\ body \in {"open", "ended"}
    /\ \/ how = "ended" /\ body = "open"
       \/ how = "failed"
       \/ how = "cut" /\ wire # <<>>
    /\ body' = how
    /\ UNCHANGED <<text, sent, parserVars>>

Upstream == \/ \E p \in Part, n \in 0 .. MaxText, finish \in BOOLEAN : Send(p, n, finish)
            \/ \E how \in {"ended", "cut", "failed"} : BodyStops(how)

-----------------------------------------------------------------------------
(* The generator.  What is on the wire can be read except the end of a      *)
(* line that was cut off.                                                   *)
Whole == Len(wire) - (IF body = "cut" THEN 1 ELSE 0)

(* Mutant: the unfinished line is forgotten between two chunks. *)
ReadChunkForgetful(n, inside) ==
    /\ lines = <<>>
    /\ n <= Whole
    /\ inside => n < Len(wire)
    /\ n > 0 \/ (inside /\ ~torn)
    /\ lines' = SubSeq(wire, IF torn THEN 2 ELSE 1, n)
    /\ wire' = SubSeq(wire, n + 1, Len(wire))
    /\ torn' = inside
    /\ UNCHANGED <<upstreamVars, shown>>

(* One reader.read(): n lines are completed, and the chunk may end inside   *)
(* the next one, which is kept in "buffer".                                 *)
ReadChunk(n, inside) ==
    /\ lines = <<>>
    /\ n <= Whole
    /\ inside => n < Len(wire)
    /\ n > 0 \/ (inside /\ ~torn)
    /\ lines' = SubSeq(wire, 1, n)
    /\ wire' = SubSeq(wire, n + 1, Len(wire))
    /\ torn' = inside
    /\ UNCHANGED <<upstreamVars, shown>>

Read == \E n \in 0 .. Len(wire), inside \in BOOLEAN : ReadChunk(n, inside)

(* The line shows more of its part than was yielded. *)
Grows(l) == l.shown > shown[l.part]

(* yield of the increment; the rest of the line is looked at afterwards. *)
YieldDelta(d) ==
    /\ lines # <<>> /\ Grows(Head(lines))
    /\ d = [part |-> Head(lines).part,
            from |-> shown[Head(lines).part], to |-> Head(lines).shown]
    /\ shown' = [shown EXCEPT ![d.part] = d.to]
    /\ UNCHANGED <<upstreamVars, wire, torn, lines>>

SkipLine ==
    /\ lines # <<>> /\ ~Grows(Head(lines)) /\ ~Head(lines).finish
    /\ lines' = Tail(lines)
    /\ UNCHANGED <<upstreamVars, wire, torn, shown>>

(* yield of done; the generator returns, whatever follows on the wire. *)
YieldDone ==
    /\ lines # <<>> /\ ~Grows(Head(lines)) /\ Head(lines).finish
    /\ lines' = <<>>
    /\ UNCHANGED <<upstreamVars, wire, torn, shown>>

(* reader.read() reports the end (what is left of a line is dropped), or    *)
(* throws.                                                                  *)
BodyIsRead ==
    /\ lines = <<>>
    /\ \/ body = "ended" /\ wire = <<>>
       \/ body = "cut" /\ Whole = 0 /\ torn
    /\ UNCHANGED streamVars

BodyThrows == lines = <<>> /\ body = "failed" /\ UNCHANGED streamVars

=============================================================================
