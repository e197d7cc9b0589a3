------------------------------ MODULE ToolSieve ------------------------------
(***************************************************************************)
(* internal/toolstream: the answer of the model arrives in chunks, and tool *)
(* calls are cut out of it while the rest is passed on as text.            *)
(*                                                                         *)
(* A document is a sequence of tokens:                                     *)
(*    t     a word               nl     a line break                       *)
(*    b     one backtick         f      three of them                      *)
(*    lt    <tool_               gt     calls>                             *)
(*    inv   a whole <invoke>     close  </tool_calls>                      *)
(* so that lt gt inv close is a call, in which a chunk may end anywhere.   *)
(* Runs of backticks do not touch, and fences of tildes or more backticks, *)
(* CDATA sections and the stripping of a json fence are left out.  The     *)
(* text of the sieve is always the end of what it was given, so it is kept *)
(* as a position: "next" is the first token that has not become an event,  *)
(* and all from there on is "capture" or, if it is not capturing, pending. *)
(***************************************************************************)
EXTENDS Integers, Sequences, FiniteSets, SequencesExt

CONSTANT Documents  \* the answers considered

VARIABLES
    document,
    given,      \* tokens of it given to the sieve
    sieve,      \* its State
    blank,      \* history: a chunk of white space alone was given
    flushed     \* Flush was called

sieveVars == <<document, given, sieve, blank, flushed>>

Width(c) == CASE c = "b" -> 1 [] c = "f" -> 3 [] OTHER -> 0

----------------------------------------------------------------------------
(* Fences and spans.  A fence is known by a run of three at the start of a   *)
(* line, once the run has ended.                                            *)

FenceStep(fence, c) ==
    IF Width(c) > 0 THEN [fence EXCEPT !.run = @ + Width(c)]
    ELSE [inside |-> IF fence.run >= 3 /\ fence.atStart THEN ~fence.inside ELSE fence.inside,
          run |-> 0, atStart |-> c = "nl"]

SimulateCodeFence(fence, s) ==
    LET after[i \in 0 .. Len(s)] ==
            IF i = 0 THEN fence ELSE FenceStep(after[i - 1], s[i])
    IN after[Len(s)]

(* Mutant: what came before s is forgotten. *)
InsideCodeFenceAfresh(w, s) ==
    SimulateCodeFence([inside |-> FALSE, run |-> 0, atStart |-> TRUE], s).inside

InsideCodeFence(w, s) == SimulateCodeFence(w.fence, s).inside

(* The width of the span that is open after s, and whether it was open      *)
(* before s (markdownCodeSpanStateAt).                                      *)
SpanAt(w, s) ==
    LET Begins(i) == /\ ~(Width(s[i]) >= 3 /\ (i = 1 \/ s[i - 1] = "nl"))
                     /\ ~InsideCodeFence(w, SubSeq(s, 1, i - 1))
        after[i \in 0 .. Len(s)] ==
            IF i = 0 THEN [ticks |-> w.span, prior |-> w.span > 0]
            ELSE LET span == after[i - 1] IN
                 CASE Width(s[i]) > 0 /\ span.ticks = 0 /\ Begins(i) ->
                        [ticks |-> Width(s[i]), prior |-> FALSE]
                   [] Width(s[i]) > 0 /\ span.ticks = Width(s[i]) ->
                        [ticks |-> 0, prior |-> FALSE]
                   [] OTHER -> span
    IN after[Len(s)]

SpanCloses(s, ticks) == \E i \in DOMAIN s : Width(s[i]) = ticks

(* noteText: white space alone is not noted. *)
NoteText(w, s) == IF \A i \in DOMAIN s : s[i] = "nl" THEN w
    ELSE [w EXCEPT !.span = SpanAt(w, s).ticks, !.fence = SimulateCodeFence(w.fence, s)]

----------------------------------------------------------------------------
(* Tags (internal/toolcall). *)

None == [kind |-> "none", start |-> 0, end |-> 0]

(* The first tag from i on that is not in a span that is closed in s. *)
RECURSIVE FindTag(_, _)
FindTag(s, i) ==
    IF i > Len(s) THEN None
    ELSE LET ends == {j \in i + 1 .. Len(s) : Width(s[j]) = Width(s[i])} IN
         CASE Width(s[i]) > 0 /\ ends # {} ->
                FindTag(s, 1 + CHOOSE j \in ends : \A k \in ends : j <= k)
           [] s[i] = "lt" /\ i < Len(s) /\ s[i + 1] = "gt" ->
                [kind |-> "open", start |-> i, end |-> i + 1]
           [] s[i] \in {"inv", "close"} -> [kind |-> s[i], start |-> i, end |-> i]
           [] OTHER -> FindTag(s, i + 1)

RECURSIVE FindTagOf(_, _, _)
FindTagOf(kind, s, i) ==
    LET tag == FindTag(s, i) IN
    IF tag.kind \in {"none", kind} THEN tag ELSE FindTagOf(kind, s, tag.end + 1)

(* FindMatchingToolMarkupClose: where the wrapper opened before i is closed. *)
RECURSIVE MatchingClose(_, _, _)
MatchingClose(s, i, depth) ==
    LET tag == FindTag(s, i) IN
    CASE tag.kind = "none" -> 0
      [] tag.kind = "open" -> MatchingClose(s, tag.end + 1, depth + 1)
      [] tag.kind = "close" /\ depth = 1 -> tag.end
      [] OTHER -> MatchingClose(s, tag.end + 1, IF tag.kind = "close" THEN depth - 1 ELSE depth)

(* A wrapper holds a call if there is an invoke in it. *)
Parses(s) == \E i \in DOMAIN s : s[i] = "inv"

----------------------------------------------------------------------------
(* What to do with a capture: text first, then a call of so many tokens. *)

NotReady == [ready |-> FALSE, text |-> 0, call |-> 0]
Ready(text, call) == [ready |-> TRUE, text |-> text, call |-> call]

(* The wrappers from i on: the first that parses, or else whether one is    *)
(* open, or else the end of the first that does not parse.                  *)
RECURSIVE Wrappers(_, _, _, _)
Wrappers(s, i, open, rejected) ==
    LET tag   == FindTagOf("open", s, i)
        close == MatchingClose(s, tag.end + 1, 1)
    IN CASE tag.kind = "none" /\ open -> NotReady
         [] tag.kind = "none" /\ ~open -> IF rejected > 0 THEN Ready(rejected, 0) ELSE None
         [] tag.kind # "none" /\ close = 0 -> Wrappers(s, tag.end + 1, TRUE, rejected)
         [] OTHER -> IF Parses(SubSeq(s, tag.start, close))
                     THEN Ready(tag.start - 1, close - tag.start + 1)
                     ELSE Wrappers(s, tag.end + 1, open, IF rejected > 0 THEN rejected ELSE close)

(* An invoke with no wrapper opened before it. *)
BareInvoke(s) ==
    LET inv == FindTagOf("inv", s, 1)  open == FindTagOf("open", s, 1) IN
    IF inv.kind = "none" \/ (open.kind # "none" /\ open.start < inv.start) THEN None ELSE inv

(* consumeToolCapture. *)
ConsumeCapture(s) ==
    LET wrapped == Wrappers(s, 1, FALSE, 0)
        inv     == BareInvoke(s)
        close   == FindTagOf("close", s, inv.start + 1)
    IN IF wrapped # None THEN wrapped
       ELSE IF inv = None THEN Ready(Len(s), 0)
       ELSE IF close # None THEN Ready(inv.start - 1, close.end - inv.start + 1)
       ELSE IF \A i \in inv.end + 1 .. Len(s) : s[i] = "nl" THEN NotReady
       ELSE Ready(Len(s), 0)
----------------------------------------------------------------------------
(* The sieve. *)

NewSieve ==
    [next |-> 1, capturing |-> FALSE, calls |-> <<>>, events |-> <<>>, span |-> 0,
     fence |-> [inside |-> FALSE, run |-> 0, atStart |-> TRUE]]

Held(w, n) == SubSeq(document, w.next, n)

Piece(kind, from, to) == [kind |-> kind, from |-> from, to |-> to]

(* The next n tokens become an event of text. *)
EmitText(w, n) ==
    IF n = 0 THEN w
    ELSE [NoteText(w, SubSeq(document, w.next, w.next + n - 1)) EXCEPT
            !.events = Append(@, Piece("text", w.next, w.next + n - 1)),
            !.next = @ + n]

EmitCalls(w) == [w EXCEPT !.events = @ \o w.calls, !.calls = <<>>]

Hold == -1

(* findToolSegmentStart: the first tag from i on that is not code, 0 if     *)
(* there is none, or Hold.                                                  *)
RECURSIVE SegmentStart(_, _, _)
SegmentStart(w, s, i) ==
    LET tag  == FindTag(s, i)
        span == SpanAt(w, SubSeq(s, 1, tag.start - 1))
    IN CASE tag = None -> 0
         [] tag # None /\ InsideCodeFence(w, SubSeq(s, 1, tag.start - 1)) ->
              SegmentStart(w, s, tag.end + 1)
         [] OTHER ->
              IF span.ticks = 0 THEN tag.start
              ELSE IF SpanCloses(SubSeq(s, tag.start, Len(s)), span.ticks)
                   THEN SegmentStart(w, s, tag.end + 1)
              ELSE IF span.prior THEN Hold ELSE tag.start

(* splitSafeContentForToolDetection: how much of s is text for sure, when   *)
(* the end of it may be the beginning of a tag.                             *)
Safe(w, s) ==
    LET before == Front(s)  span == SpanAt(w, before) IN
    IF Last(s) # "lt" \/ InsideCodeFence(w, before) THEN Len(s)
    ELSE IF span.ticks > 0 /\ span.prior THEN 0
    ELSE Len(s) - 1

(* A span opened in the text before a tag, and not closed after it, is not  *)
(* one (shouldResetUnclosedMarkdownPrefix).                                 *)
EmitPrefix(w, s, n) ==
    LET span == SpanAt(w, SubSeq(s, 1, n))
        w2   == EmitText(w, n)
    IN IF n > 0 /\ span.ticks > 0 /\ ~span.prior
          /\ ~SpanCloses(SubSeq(s, n + 1, Len(s)), span.ticks)
       THEN [w2 EXCEPT !.span = 0] ELSE w2

(* A call found replaces those that wait for the next chunk. *)
TakeCapture(w, c) ==
    LET w2 == [EmitText(w, c.text) EXCEPT !.capturing = FALSE] IN
    IF c.call = 0 THEN w2
    ELSE [w2 EXCEPT !.calls = <<Piece("call", w2.next, w2.next + c.call - 1)>>,
                    !.next = @ + c.call]

(* The loop of ProcessChunk, over the first n tokens. *)
RECURSIVE Loop(_, _)
Loop(w, n) ==
    LET s     == Held(w, n)
        c     == ConsumeCapture(s)
        start == SegmentStart(w, s, 1)
        safe  == Safe(w, s)
    IN CASE s = <<>> -> w
         [] s # <<>> /\ w.capturing -> IF c.ready THEN Loop(TakeCapture(w, c), n) ELSE w
         [] OTHER ->
              IF start = Hold THEN w
              ELSE IF start > 0
                   THEN Loop([EmitPrefix(w, s, start - 1) EXCEPT !.capturing = TRUE], n)
              ELSE IF safe = 0 THEN w
              ELSE Loop(EmitText(w, safe), n)

ProcessChunk(w, n) == Loop(EmitCalls(w), n)

(* What is held at the end is text, after another look at what an open span *)
(* hid.                                                                     *)
LookAgain(w, n) ==
    IF ~w.capturing /\ w.next <= n /\ w.span > 0
    THEN ProcessChunk([w EXCEPT !.span = 0], n) ELSE w

EmitRest(w, n) == [EmitText(w, n - w.next + 1) EXCEPT !.capturing = FALSE]

FlushSieve(w, n) == EmitRest(EmitCalls(LookAgain(ProcessChunk(w, n), n)), n)

----------------------------------------------------------------------------
SieveInit ==
    /\ document \in Documents
    /\ given = 0 /\ sieve = NewSieve /\ blank = FALSE /\ flushed = FALSE

Chunk(n) ==
    /\ ~flushed /\ n \in given + 1 .. Len(document)
    /\ given' = n
    /\ sieve' = ProcessChunk(sieve, n)
    /\ blank' = (blank \/ \A i \in given + 1 .. n : document[i] = "nl")
    /\ UNCHANGED <<document, flushed>>

Flush ==
    /\ ~flushed /\ given = Len(document)
    /\ sieve' = FlushSieve(sieve, given)
    /\ flushed' = TRUE
    /\ UNCHANGED <<document, given, blank>>

SieveNext ==
    \/ Flush
    \/ \E n \in 1 .. Len(document) : Chunk(n)
    \/ flushed /\ UNCHANGED sieveVars

----------------------------------------------------------------------------
Places(event) == event.from .. event.to
Events(kind) == {i \in DOMAIN sieve.events : sieve.events[i].kind = kind}
Executed(p) == \E i \in Events("call") : p \in Places(sieve.events[i])

(* A place in a fence of the whole document. *)
Fenced(p) == SimulateCodeFence(NewSieve.fence, SubSeq(document, 1, p - 1)).inside

(* Every token becomes one event, text in its order, calls apart from it     *)
(* (tool_sieve_core.go:5-165).                                              *)
NothingLost ==
    /\ \A i, j \in DOMAIN sieve.events : i # j => Places(sieve.events[i]) \cap Places(sieve.events[j]) = {}
    /\ \A i, j \in Events("text") : i < j => sieve.events[i].to < sieve.events[j].from
    /\ flushed => UNION {Places(sieve.events[i]) : i \in DOMAIN sieve.events} = DOMAIN document

(* However the document is cut into chunks, a call in a fence stays text and *)
(* one that no fence and no backtick can hide is executed; unless a chunk    *)
(* was white space alone, which the sieve does not note                     *)
(* (tool_sieve_state.go:50-56).                                             *)
CallsFound == ~blank => \A p \in DOMAIN document : document[p] = "inv" =>
    /\ Executed(p) => ~Fenced(p)
    /\ flushed /\ ~Fenced(p) /\ (\A k \in DOMAIN document :
           document[k] # "b" /\ (k > p => document[k] # "f")) => Executed(p)

SieveFaithful == NothingLost /\ CallsFound

(* docs/toolcall-semantics.md:65: calls in a fenced code block or in an      *)
(* inline code span are always text.                                        *)
CodeIsText == \A i \in Events("call") : ~Fenced(sieve.events[i].from)
=============================================================================
