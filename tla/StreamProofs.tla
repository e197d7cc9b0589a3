----------------------------- MODULE StreamProofs ----------------------------
(***************************************************************************)
(* Proofs about NodeStreams: the order and the whole of a streamed         *)
(* completion, and the block protocol of a streamed message.               *)
(*                                                                         *)
(* What both rest on is what the generator still has ahead of it (Ahead):  *)
(* whatever of a part's text has not become an event is in a line that     *)
(* waits, and a finish line is the last of all.                            *)
(***************************************************************************)
EXTENDS NodeStreams, FiniteSetTheorems, SequenceTheorems, TLAPS

-----------------------------------------------------------------------------
(* The event stream *)

(* A line that waits shows no more than chatglm.cn wrote. *)
Honest(waiting) == \A i \in DOMAIN waiting : waiting[i].shown <= text[waiting[i].part]

(* A line that waits shows the whole text of part p. *)
Carries(waiting, p) ==
    \E i \in DOMAIN waiting : waiting[i].part = p /\ waiting[i].shown = text[p]

FinishIsLast(waiting) == \A i \in DOMAIN waiting : waiting[i].finish => i = Len(waiting)
NoFinish(waiting) == \A i \in DOMAIN waiting : ~waiting[i].finish

Ahead ==
    /\ Honest(lines) /\ Honest(wire)
    /\ \A p \in Part : /\ shown[p] <= text[p]
                       /\ shown[p] = text[p] \/ Carries(lines, p) \/ Carries(wire, p)
    /\ FinishIsLast(lines) /\ FinishIsLast(wire)
    /\ NoFinish(lines) \/ wire = <<>>
    /\ body = "open" => NoFinish(lines) /\ NoFinish(wire)

StreamInv == StreamTypeOK /\ Ahead

(* Sequence t is s with one element more, e in place k. *)
Lengthens(s, e, k, t) ==
    /\ k = Len(s) + 1 /\ k \in Nat /\ k \notin DOMAIN s
    /\ DOMAIN t = DOMAIN s \cup {k} /\ t[k] = e
    /\ \A i \in DOMAIN s : i < k /\ t[i] = s[i]

LEMMA Appended ==
    ASSUME NEW S, NEW s \in Seq(S), NEW e \in S
    PROVE  Lengthens(s, e, Len(s) + 1, Append(s, e))
BY AppendProperties DEF Lengthens

LEMMA LineTyped ==
    ASSUME NEW waiting \in Seq(Line), NEW i \in DOMAIN waiting
    PROVE  /\ waiting[i].part \in Part /\ waiting[i].shown \in 0 .. MaxText
           /\ waiting[i].finish \in BOOLEAN
<1>1. waiting[i] \in Line
  BY ElementOfSeq
<1> QED BY <1>1 DEF Line

LEMMA StreamStarts == StreamInit => StreamInv
<1> SUFFICES ASSUME StreamInit PROVE StreamInv
  OBVIOUS
<1>1. /\ text = [p \in Part |-> 0] /\ shown = text /\ lines = <<>> /\ wire = <<>>
      /\ sent = 0 /\ torn = FALSE /\ body = "open"
  BY DEF StreamInit
<1>2. StreamTypeOK
  <2>1. text \in [Part -> 0 .. MaxText] /\ shown \in [Part -> 0 .. MaxText]
    BY <1>1, StreamBounds
  <2>2. sent \in 0 .. MaxLine /\ body \in {"open", "ended", "cut", "failed"}
    BY <1>1, StreamBounds
  <2>4. torn \in BOOLEAN
    BY <1>1
  <2>3. lines \in Seq(Line) /\ wire \in Seq(Line)
    BY <1>1
  <2> QED BY <2>1, <2>2, <2>3, <2>4 DEF StreamTypeOK
<1>3. \A p \in Part : shown[p] <= text[p] /\ shown[p] = text[p]
  BY <1>1
<1> QED BY <1>1, <1>2, <1>3 DEF StreamInv, Ahead, Honest, FinishIsLast, NoFinish

(* chatglm.cn writes a line, or the body stops. *)
LEMMA UpstreamAhead ==
    ASSUME StreamInv, Upstream
    PROVE  StreamInv' /\ shown' = shown /\ (body # "open" => body' # "open" /\ text' = text)
<1>1. ASSUME NEW p \in Part, NEW n \in 0 .. MaxText, NEW finish \in BOOLEAN, Send(p, n, finish)
      PROVE  StreamInv' /\ shown' = shown /\ body = "open"
  <2> DEFINE line == [part |-> p, shown |-> n, finish |-> finish]
  <2>1. /\ body = "open" /\ sent < MaxLine /\ sent' = sent + 1
        /\ wire' = Append(wire, line) /\ lines' = lines /\ shown' = shown /\ torn' = torn
        /\ text' = [text EXCEPT ![p] = IF n = 0 THEN @ ELSE n]
        /\ n = 0 \/ n >= text[p]
        /\ body' = IF finish THEN "ended" ELSE "open"
    BY <1>1 DEF Send
  <2>2. line \in Line
    BY DEF Line
  <2>3. StreamTypeOK'
    BY <2>1, <2>2, StreamBounds DEF StreamInv, StreamTypeOK
  <2>4. \A q \in Part : text[q] <= text'[q] /\ (q # p => text'[q] = text[q])
    BY <2>1, StreamBounds DEF StreamInv, StreamTypeOK
  <2>5. /\ wire' \in Seq(Line) /\ Len(wire') = Len(wire) + 1
        /\ \A i \in DOMAIN wire : wire'[i] = wire[i] /\ i \in DOMAIN wire'
        /\ wire'[Len(wire')] = line
        /\ \A i \in DOMAIN wire' : i \in DOMAIN wire \/ i = Len(wire')
    BY <2>1, <2>2, AppendProperties DEF StreamInv, StreamTypeOK
  <2>6. Honest(lines)' /\ Honest(wire)'
    <3>1. \A i \in DOMAIN lines : lines[i].part \in Part /\ lines[i].shown \in 0 .. MaxText
      BY LineTyped DEF StreamInv, StreamTypeOK
    <3>2. \A i \in DOMAIN wire : wire[i].part \in Part /\ wire[i].shown \in 0 .. MaxText
      BY LineTyped DEF StreamInv, StreamTypeOK
    <3>3. \A q \in Part : text[q] \in Nat /\ text'[q] \in Nat
      BY <2>3, StreamBounds DEF StreamInv, StreamTypeOK
    <3>4. n <= text'[p]
      BY <2>1, StreamBounds DEF StreamInv, StreamTypeOK
    <3>5. Honest(lines)'
      BY <2>1, <2>4, <3>1, <3>3, StreamBounds DEF StreamInv, Ahead, Honest
    <3>6. Honest(wire)'
      BY <2>5, <2>4, <3>2, <3>3, <3>4, StreamBounds DEF StreamInv, Ahead, Honest
    <3> QED BY <3>5, <3>6
  <2>7. ASSUME NEW q \in Part
        PROVE  /\ shown[q] <= text'[q]
               /\ shown[q] = text'[q] \/ Carries(lines, q)' \/ Carries(wire, q)'
    <3>1. shown[q] \in Nat /\ text[q] \in Nat /\ text'[q] \in Nat
      BY <2>3, StreamBounds DEF StreamInv, StreamTypeOK
    <3>2. CASE text'[q] = text[q]
      BY <3>1, <3>2, <2>1, <2>5 DEF StreamInv, Ahead, Carries
    <3>3. CASE text'[q] # text[q]
      <4>1. q = p /\ text'[q] = n
        BY <3>3, <2>4, <2>1 DEF StreamInv, StreamTypeOK
      <4>2. Carries(wire, q)'
        BY <4>1, <2>5, Len(wire') \in DOMAIN wire' DEF Carries
      <4> QED BY <4>2, <3>1, <2>4 DEF StreamInv, Ahead
    <3> QED BY <3>2, <3>3
  <2>8. /\ FinishIsLast(lines)' /\ FinishIsLast(wire)' /\ NoFinish(lines)'
        /\ body' = "open" => NoFinish(wire)'
    BY <2>1, <2>5 DEF StreamInv, Ahead, FinishIsLast, NoFinish
  <2> QED BY <2>1, <2>3, <2>6, <2>7, <2>8 DEF StreamInv, Ahead
<1>2. ASSUME NEW how \in {"ended", "cut", "failed"}, BodyStops(how)
      PROVE  StreamInv' /\ shown' = shown /\ body' # "open" /\ text' = text
  BY <1>2 DEF BodyStops, parserVars, StreamInv, StreamTypeOK, Ahead, Honest, Carries, FinishIsLast, NoFinish
<1> QED BY <1>1, <1>2 DEF Upstream

LEMMA ReadAhead ==
    ASSUME StreamInv, Read
    PROVE  StreamInv' /\ UNCHANGED <<text, body, shown>>
<1>1. PICK n \in 0 .. Len(wire), inside \in BOOLEAN : ReadChunk(n, inside)
  BY DEF Read
<1>2. /\ lines = <<>> /\ lines' = SubSeq(wire, 1, n) /\ wire' = SubSeq(wire, n + 1, Len(wire))
      /\ torn' = inside /\ UNCHANGED <<text, sent, body, shown>>
  BY <1>1 DEF ReadChunk, upstreamVars
<1>3. wire \in Seq(Line) /\ n \in Nat /\ n <= Len(wire)
  BY DEF StreamInv, StreamTypeOK
<1>4. /\ lines' \in Seq(Line) /\ Len(lines') = n
      /\ \A i \in DOMAIN lines' : i \in DOMAIN wire /\ lines'[i] = wire[i]
      /\ \A i \in DOMAIN wire : i <= n => i \in DOMAIN lines'
  BY <1>2, <1>3, SubSeqProperties
<1>5. /\ wire' \in Seq(Line) /\ Len(wire') = Len(wire) - n
      /\ \A i \in DOMAIN wire' : n + i \in DOMAIN wire /\ wire'[i] = wire[n + i]
      /\ \A i \in DOMAIN wire : i > n => i - n \in DOMAIN wire'
  BY <1>2, <1>3, SubSeqProperties
<1>6. StreamTypeOK'
  BY <1>2, <1>4, <1>5 DEF StreamInv, StreamTypeOK
<1>7. Honest(lines)' /\ Honest(wire)'
  BY <1>2, <1>4, <1>5 DEF StreamInv, Ahead, Honest
<1>8. ASSUME NEW p \in Part, Carries(wire, p)
      PROVE  Carries(lines, p)' \/ Carries(wire, p)'
  <2>1. PICK i \in DOMAIN wire : wire[i].part = p /\ wire[i].shown = text[p]
    BY <1>8 DEF Carries
  <2>2. CASE i <= n
    BY <2>1, <2>2, <1>2, <1>4 DEF Carries
  <2>3. CASE i > n
    <3>1. i - n \in DOMAIN wire' /\ wire'[i - n] = wire[i]
      BY <2>1, <2>3, <1>5, <1>3
    <3> QED BY <2>1, <3>1, <1>2 DEF Carries
  <2> QED BY <2>1, <2>2, <2>3, <1>3
<1>9. ASSUME NEW p \in Part
      PROVE  /\ shown[p] <= text[p]
             /\ shown[p] = text[p] \/ Carries(lines, p)' \/ Carries(wire, p)'
  <2>1. ~Carries(lines, p)
    BY <1>2 DEF Carries
  <2>2. shown[p] <= text[p] /\ (shown[p] = text[p] \/ Carries(wire, p))
    BY <2>1 DEF StreamInv, Ahead
  <2> QED BY <2>2, <1>8
<1>10. FinishIsLast(lines)' /\ FinishIsLast(wire)' /\ (body = "open" => NoFinish(lines)' /\ NoFinish(wire)')
  BY <1>3, <1>4, <1>5 DEF StreamInv, Ahead, FinishIsLast, NoFinish
<1>11. NoFinish(lines)' \/ wire' = <<>>
  <2>1. ASSUME NEW i \in DOMAIN lines', lines'[i].finish
        PROVE  wire' = <<>>
    <3>1. i = Len(wire)
      BY <2>1, <1>4 DEF StreamInv, Ahead, FinishIsLast
    <3>2. n = Len(wire)
      BY <3>1, <2>1, <1>3, <1>4
    <3> QED BY <3>2, <1>5, <1>3
  <2> QED BY <2>1 DEF NoFinish
<1> QED BY <1>2, <1>6, <1>7, <1>9, <1>10, <1>11 DEF StreamInv, Ahead

(* What is left of the lines when the first is done with. *)
LEMMA HeadDone ==
    ASSUME StreamInv, lines # <<>>
    PROVE  /\ Head(lines) = lines[1] /\ 1 \in DOMAIN lines
           /\ Head(lines).part \in Part /\ Head(lines).shown \in 0 .. MaxText
           /\ Tail(lines) \in Seq(Line) /\ Len(Tail(lines)) = Len(lines) - 1
           /\ \A i \in DOMAIN Tail(lines) : i + 1 \in DOMAIN lines /\ Tail(lines)[i] = lines[i + 1]
           /\ \A i \in DOMAIN lines : i # 1 => i - 1 \in DOMAIN Tail(lines)
<1>1. lines \in Seq(Line)
  BY DEF StreamInv, StreamTypeOK
<1>2. Head(lines) = lines[1] /\ 1 \in DOMAIN lines
  BY <1>1
<1>3. Tail(lines) \in Seq(Line) /\ Len(Tail(lines)) = Len(lines) - 1
  BY <1>1, HeadTailProperties
<1>4. \A i \in 1 .. Len(lines) - 1 : Tail(lines)[i] = lines[i + 1]
  BY <1>1, HeadTailProperties
<1> QED BY <1>1, <1>2, <1>3, <1>4, LineTyped

LEMMA SkipAhead ==
    ASSUME StreamInv, SkipLine
    PROVE  StreamInv' /\ UNCHANGED <<text, body, shown>>
<1>1. /\ lines # <<>> /\ ~Grows(Head(lines)) /\ lines' = Tail(lines)
      /\ UNCHANGED <<text, sent, body, wire, torn, shown>>
  BY DEF SkipLine, upstreamVars
<1>2. StreamTypeOK'
  BY <1>1, HeadDone DEF StreamInv, StreamTypeOK
<1>3. Honest(lines)' /\ Honest(wire)'
  BY <1>1, HeadDone DEF StreamInv, Ahead, Honest
<1>4. ASSUME NEW p \in Part
      PROVE  shown[p] = text[p] \/ Carries(lines, p)' \/ Carries(wire, p)'
  <2>1. CASE shown[p] = text[p] \/ Carries(wire, p)
    BY <2>1, <1>1 DEF Carries
  <2>2. CASE shown[p] # text[p] /\ Carries(lines, p)
    <3>1. PICK i \in DOMAIN lines : lines[i].part = p /\ lines[i].shown = text[p]
      BY <2>2 DEF Carries
    <3>2. shown[p] \in Nat /\ text[p] \in Nat /\ shown[p] < text[p]
      BY <2>2, StreamBounds DEF StreamInv, StreamTypeOK, Ahead
    <3>3. i # 1
      BY <3>1, <3>2, <1>1, HeadDone DEF Grows
    <3>4. i - 1 \in DOMAIN lines' /\ lines'[i - 1] = lines[i]
      BY <3>1, <3>3, <1>1, HeadDone
    <3> QED BY <3>1, <3>4, <1>1 DEF Carries
  <2> QED BY <2>1, <2>2 DEF StreamInv, Ahead
<1>5. FinishIsLast(lines)' /\ (NoFinish(lines) => NoFinish(lines)')
  BY <1>1, HeadDone DEF StreamInv, Ahead, FinishIsLast, NoFinish
<1>6. FinishIsLast(wire)' /\ (NoFinish(wire) => NoFinish(wire)')
  BY <1>1 DEF StreamInv, Ahead, FinishIsLast, NoFinish
<1> QED BY <1>1, <1>2, <1>3, <1>4, <1>5, <1>6 DEF StreamInv, Ahead

LEMMA YieldAhead ==
    ASSUME StreamInv, NEW d \in Delta, YieldDelta(d)
    PROVE  /\ StreamInv' /\ UNCHANGED <<text, body>>
           /\ d.part \in Part /\ d.from = shown[d.part] /\ d.to = shown'[d.part]
           /\ shown[d.part] < shown'[d.part]
           /\ \A p \in Part : p # d.part => shown'[p] = shown[p]
<1>1. /\ lines # <<>> /\ Grows(Head(lines))
      /\ d = [part |-> Head(lines).part,
              from |-> shown[Head(lines).part], to |-> Head(lines).shown]
      /\ shown' = [shown EXCEPT ![d.part] = d.to]
      /\ UNCHANGED <<text, sent, body, wire, torn, lines>>
  BY DEF YieldDelta, upstreamVars
<1>2. /\ d.part = lines[1].part /\ d.to = lines[1].shown /\ d.from = shown[d.part]
      /\ d.part \in Part /\ d.to \in 0 .. MaxText /\ 1 \in DOMAIN lines
  BY <1>1, HeadDone
<1>3. d.to > shown[d.part]
  BY <1>1, <1>2 DEF Grows
<1>4. d.to <= text[d.part]
  BY <1>2 DEF StreamInv, Ahead, Honest
<1>5. shown'[d.part] = d.to /\ \A p \in Part : p # d.part => shown'[p] = shown[p]
  BY <1>1, <1>2 DEF StreamInv, StreamTypeOK
<1>6. StreamTypeOK'
  BY <1>1, <1>2 DEF StreamInv, StreamTypeOK
<1>7. Honest(lines)' /\ Honest(wire)' /\ FinishIsLast(lines)' /\ FinishIsLast(wire)'
  BY <1>1 DEF StreamInv, Ahead, Honest, FinishIsLast
<1>8. /\ NoFinish(lines) <=> NoFinish(lines)'
      /\ NoFinish(wire) <=> NoFinish(wire)'
  BY <1>1 DEF NoFinish
<1>9. ASSUME NEW p \in Part
      PROVE  /\ shown'[p] <= text'[p]
             /\ shown'[p] = text'[p] \/ Carries(lines, p)' \/ Carries(wire, p)'
  <2>1. CASE p # d.part
    BY <2>1, <1>5, <1>1 DEF StreamInv, Ahead, Carries
  <2>2. CASE p = d.part
    <3>1. shown'[p] <= text'[p]
      BY <2>2, <1>1, <1>4, <1>5
    <3>2. shown[p] \in Nat /\ text[p] \in Nat
      BY StreamBounds DEF StreamInv, StreamTypeOK
    <3>3. Carries(lines, p)' \/ Carries(wire, p)'
      BY <2>2, <3>2, <1>1, <1>2, <1>3, <1>4, StreamBounds DEF StreamInv, Ahead, Carries
    <3> QED BY <3>1, <3>3
  <2> QED BY <2>1, <2>2
<1> QED BY <1>1, <1>2, <1>3, <1>5, <1>6, <1>7, <1>8, <1>9 DEF StreamInv, Ahead

(* A finish line comes when nothing is left: every part has been shown. *)
LEMMA DoneShowsAll ==
    ASSUME StreamInv, YieldDone
    PROVE  StreamInv' /\ UNCHANGED <<text, body, shown>> /\ shown = text /\ body # "open"
<1>1. /\ lines # <<>> /\ ~Grows(Head(lines)) /\ Head(lines).finish /\ lines' = <<>>
      /\ UNCHANGED <<text, sent, body, wire, torn, shown>>
  BY DEF YieldDone, upstreamVars
<1>2. wire = <<>> /\ Len(lines) = 1 /\ body # "open"
  BY <1>1, HeadDone DEF StreamInv, Ahead, FinishIsLast, NoFinish
<1>3. ASSUME NEW p \in Part
      PROVE  shown[p] = text[p]
  <2>1. shown[p] \in Nat /\ text[p] \in Nat /\ shown[p] <= text[p]
    BY StreamBounds DEF StreamInv, StreamTypeOK, Ahead
  <2>2. ~Carries(wire, p)
    BY <1>2 DEF Carries
  <2>3. Carries(lines, p) => text[p] <= shown[p]
    <3>1. lines \in Seq(Line)
      BY DEF StreamInv, StreamTypeOK
    <3>2. ASSUME NEW i \in DOMAIN lines, lines[i].part = p, lines[i].shown = text[p]
          PROVE  text[p] <= shown[p]
      BY <3>1, <3>2, <2>1, <1>1, <1>2, HeadDone DEF Grows
    <3> QED BY <3>2 DEF Carries
  <2> QED BY <2>1, <2>2, <2>3 DEF StreamInv, Ahead
<1>4. shown = text
  BY <1>3 DEF StreamInv, StreamTypeOK
<1>5. StreamTypeOK'
  BY <1>1 DEF StreamInv, StreamTypeOK
<1> QED BY <1>1, <1>2, <1>3, <1>4, <1>5
        DEF StreamInv, Ahead, Honest, FinishIsLast, NoFinish, Carries

LEMMA StreamStands ==
    ASSUME StreamInv, UNCHANGED streamVars
    PROVE  StreamInv' /\ UNCHANGED <<text, body, shown>>
BY DEF streamVars, upstreamVars, parserVars, StreamInv, StreamTypeOK, Ahead, Honest, Carries,
       FinishIsLast, NoFinish

-----------------------------------------------------------------------------
(* A streamed completion: the order of the chunks *)

LEMMA PositionOf ==
    ASSUME NEW c
    PROVE  /\ c.kind = "role" => Position(c) = 1
           /\ c.kind = "reasoning" => Position(c) = 2
           /\ c.kind = "content" => Position(c) = 3
           /\ c.kind \in {"toolCall", "toolArgs"} => Position(c) = 4
           /\ c.kind = "finish" => Position(c) = 5
           /\ c.kind = "[DONE]" => Position(c) = 6
<1>1. DOMAIN Kinds = 1 .. 6
  BY DEF Kinds
<1>2. ASSUME NEW k \in 1 .. 6, c.kind \in Kinds[k]
      PROVE  Position(c) = k
  <2>1. \A j \in 1 .. 6 : c.kind \in Kinds[j] => j = k
    BY <1>2 DEF Kinds
  <2>2. Position(c) \in DOMAIN Kinds /\ c.kind \in Kinds[Position(c)]
    BY <1>1, <1>2 DEF Position
  <2> QED BY <2>1, <2>2, <1>1
<1> QED BY <1>2 DEF Kinds

LEMMA NoneCounted ==
    ASSUME NEW kind, \A i \in DOMAIN written : written[i].kind # kind
    PROVE  Count(kind) = 0
<1>1. {i \in DOMAIN written : written[i].kind = kind} = {}
  OBVIOUS
<1> QED BY <1>1, FS_EmptySet DEF Count

LEMMA OneCounted ==
    ASSUME NEW kind, NEW k \in DOMAIN written, written[k].kind = kind,
           \A i \in DOMAIN written : written[i].kind = kind => i = k
    PROVE  Count(kind) = 1
<1>1. {i \in DOMAIN written : written[i].kind = kind} = {k}
  OBVIOUS
<1> QED BY <1>1, FS_Singleton DEF Count

(* While the handler reads, it has written the role and reasoning alone. *)
Relaying ==
    /\ written # <<>> /\ written[1].kind = "role"
    /\ \A i \in 2 .. Len(written) : written[i].kind = "reasoning"

Terminated == Count("[DONE]") = 1

LEMMA RelayingInOrder ==
    TypeOK /\ Relaying => StreamOrder /\ ~Terminated
<1> SUFFICES ASSUME TypeOK, Relaying
             PROVE  StreamOrder /\ ~Terminated
  OBVIOUS
<1>1. written \in Seq(Chunk) /\ 1 \in DOMAIN written /\ DOMAIN written = 1 .. Len(written)
  BY DEF TypeOK, Relaying
<1>2. \A i \in DOMAIN written : Position(written[i]) = IF i = 1 THEN 1 ELSE 2
  BY <1>1, PositionOf DEF Relaying
<1>3. Count("role") = 1
  BY <1>1, OneCounted DEF Relaying
<1>4. Count("content") = 0 /\ Count("finish") = 0 /\ Count("[DONE]") = 0
  BY <1>1, NoneCounted DEF Relaying
<1> QED BY <1>1, <1>2, <1>3, <1>4 DEF StreamOrder, Terminated

LEMMA ClosingShape ==
    ASSUME NEW tools \in Nat, NEW said \in BOOLEAN
    PROVE  LET closing == Closing([tools |-> tools, text |-> said])
               n == Len(closing) IN
           /\ closing \in Seq(Chunk) /\ n >= 2
           /\ closing[n].kind = "[DONE]" /\ closing[n - 1].kind = "finish"
           /\ \A i \in 1 .. n - 2 : closing[i].kind \in {"content", "toolCall", "toolArgs"}
           /\ \A i \in 2 .. n - 2 : closing[i].kind # "content"
<1> DEFINE x == [tools |-> tools, text |-> said]
           beginning == IF said THEN Just("content") ELSE <<>>
           calls == ToolCalls(tools)
           answer == beginning \o calls
           finished == answer \o Just("finish")
           closing == finished \o Just("[DONE]")
<1>1. Closing(x) = closing
  BY DEF Closing
<1>2. /\ beginning \in Seq(Chunk) /\ Len(beginning) \in 0 .. 1
      /\ \A i \in DOMAIN beginning : beginning[i].kind = "content"
  <2>1. CASE said
    BY <2>1 DEF Just, Chunk
  <2>2. CASE ~said
    BY <2>2
  <2> QED BY <2>1, <2>2
<1>3. /\ calls \in Seq(Chunk)
      /\ \A i \in DOMAIN calls : calls[i].kind \in {"toolCall", "toolArgs"}
  BY DEF ToolCalls, Chunk
<1> HIDE DEF beginning, calls
<1>4. /\ answer \in Seq(Chunk)
      /\ \A i \in DOMAIN answer : answer[i].kind \in {"content", "toolCall", "toolArgs"}
      /\ \A i \in DOMAIN answer : i >= 2 => answer[i].kind # "content"
  <2>1. answer \in Seq(Chunk) /\ Len(answer) = Len(beginning) + Len(calls)
    BY <1>2, <1>3
  <2>2. ASSUME NEW i \in DOMAIN answer
        PROVE  \/ i = 1 /\ answer[i].kind = "content"
               \/ answer[i].kind \in {"toolCall", "toolArgs"}
    <3>1. CASE i <= Len(beginning)
      BY <3>1, <2>1, <1>2, <1>3
    <3>2. CASE i > Len(beginning)
      <4>1. i - Len(beginning) \in DOMAIN calls /\ answer[i] = calls[i - Len(beginning)]
        BY <3>2, <2>1, <1>2, <1>3
      <4> QED BY <4>1, <1>3
    <3> QED BY <3>1, <3>2, <2>1, <1>2
  <2> QED BY <2>1, <2>2
<1> HIDE DEF answer
<1>5. /\ finished \in Seq(Chunk) /\ Len(finished) = Len(answer) + 1
      /\ \A i \in DOMAIN answer : finished[i] = answer[i]
      /\ finished[Len(finished)].kind = "finish"
  BY <1>4 DEF Just, Chunk
<1> HIDE DEF finished
<1>6. /\ closing \in Seq(Chunk) /\ Len(closing) = Len(finished) + 1
      /\ \A i \in DOMAIN finished : closing[i] = finished[i]
      /\ closing[Len(closing)].kind = "[DONE]"
  BY <1>5 DEF Just, Chunk
<1> HIDE DEF closing
<1> DEFINE n == Len(closing)
<1>7. /\ n = Len(answer) + 2 /\ Len(answer) \in Nat
      /\ DOMAIN answer = 1 .. n - 2 /\ DOMAIN finished = 1 .. n - 1
  BY <1>4, <1>5, <1>6
<1>8. closing[n].kind = "[DONE]" /\ closing[n - 1].kind = "finish"
  BY <1>5, <1>6, <1>7
<1>9. \A i \in 1 .. n - 2 : closing[i] = answer[i]
  BY <1>5, <1>6, <1>7
<1>10. /\ \A i \in 1 .. n - 2 : closing[i].kind \in {"content", "toolCall", "toolArgs"}
       /\ \A i \in 2 .. n - 2 : closing[i].kind # "content"
  BY <1>4, <1>7, <1>9
<1>11. n >= 2
  BY <1>7
<1> QED BY <1>1, <1>6, <1>8, <1>10, <1>11

(* What is written at the end keeps the order. *)
LEMMA FinishInOrder ==
    ASSUME TypeOK, Relaying, NEW tools \in Nat, NEW said \in BOOLEAN,
           Finish([tools |-> tools, text |-> said])
    PROVE  /\ StreamOrder' /\ written' \in Seq(Chunk) /\ Count("[DONE]")' = 1
           /\ \A i \in DOMAIN written : i \in DOMAIN written' /\ written'[i] = written[i]
           /\ \A i \in DOMAIN written' : written'[i].kind = "reasoning" => i \in DOMAIN written
<1> DEFINE closing == Closing([tools |-> tools, text |-> said])
           n == Len(closing)
           m == Len(written)
<1>1. /\ closing \in Seq(Chunk) /\ n >= 2 /\ n \in Nat
      /\ closing[n].kind = "[DONE]" /\ closing[n - 1].kind = "finish"
      /\ \A i \in 1 .. n - 2 : closing[i].kind \in {"content", "toolCall", "toolArgs"}
      /\ \A i \in 2 .. n - 2 : closing[i].kind # "content"
  BY ClosingShape
<1>2. written' = written \o closing /\ written \in Seq(Chunk) /\ m \in Nat /\ m >= 1
  BY DEF Finish, TypeOK, Relaying
<1> HIDE DEF closing
<1>3. /\ written' \in Seq(Chunk) /\ Len(written') = m + n /\ DOMAIN written' = 1 .. m + n
      /\ \A i \in 1 .. m : written'[i] = written[i]
      /\ \A i \in m + 1 .. m + n : i - m \in 1 .. n /\ written'[i] = closing[i - m]
  BY <1>1, <1>2
<1>4. /\ written'[1].kind = "role"
      /\ \A i \in 2 .. m : written'[i].kind = "reasoning"
      /\ \A i \in m + 1 .. m + n - 2 : written'[i].kind \in {"content", "toolCall", "toolArgs"}
      /\ \A i \in m + 2 .. m + n - 2 : written'[i].kind # "content"
      /\ written'[m + n - 1].kind = "finish" /\ written'[m + n].kind = "[DONE]"
  <2>1. \A i \in m + 1 .. m + n - 2 : i - m \in 1 .. n - 2
    BY <1>1, <1>2
  <2>2. \A i \in m + 2 .. m + n - 2 : i - m \in 2 .. n - 2
    BY <1>1, <1>2
  <2>3. /\ m + n \in m + 1 .. m + n /\ (m + n) - m = n
        /\ m + n - 1 \in m + 1 .. m + n /\ (m + n - 1) - m = n - 1
    BY <1>1, <1>2
  <2>4. written'[m + n - 1].kind = "finish" /\ written'[m + n].kind = "[DONE]"
    BY <2>3, <1>1, <1>3
  <2>5. \A i \in m + 1 .. m + n - 2 : i \in m + 1 .. m + n
    BY <1>1, <1>2
  <2>6. \A i \in m + 2 .. m + n - 2 : i \in m + 1 .. m + n
    BY <1>1, <1>2
  <2>7. /\ \A i \in m + 1 .. m + n - 2 : written'[i].kind \in {"content", "toolCall", "toolArgs"}
        /\ \A i \in m + 2 .. m + n - 2 : written'[i].kind # "content"
    BY <2>1, <2>2, <2>5, <2>6, <1>1, <1>3
  <2> QED BY <2>4, <2>7, <1>2, <1>3 DEF Relaying
<1>5. ASSUME NEW i \in 1 .. m + n
      PROVE  \/ i = 1 \/ i \in 2 .. m \/ (i = m + 1 /\ i \in m + 1 .. m + n - 2)
             \/ i \in m + 2 .. m + n - 2
             \/ i = m + n - 1 \/ i = m + n
  <2>1. m \in Nat /\ n \in Nat /\ m >= 1 /\ n >= 2 /\ i \in Int /\ 1 <= i /\ i <= m + n
    BY <1>1, <1>2
  <2> HIDE DEF m, n
  <2> QED BY <2>1
<1>6. ASSUME NEW i \in 1 .. m + n
       PROVE  \/ i = 1 /\ written'[i].kind = "role"
              \/ i \in 2 .. m /\ written'[i].kind = "reasoning"
              \/ written'[i].kind \in {"content", "toolCall", "toolArgs"}
              \/ i = m + n - 1 /\ written'[i].kind = "finish"
              \/ i = m + n /\ written'[i].kind = "[DONE]"
  <2>1. i \in m + 2 .. m + n - 2 => i \in m + 1 .. m + n - 2
    BY <1>1, <1>2
  <2> QED BY <1>4, <1>5, <2>1
<1>7. \A i, j \in 1 .. m + n : i <= j => Position(written'[i]) <= Position(written'[j])
  <2> DEFINE P(i) == IF i = 1 THEN 1 ELSE IF i <= m THEN 2
                     ELSE IF i = m + 1 /\ written'[i].kind = "content" THEN 3
                     ELSE IF i <= m + n - 2 THEN 4 ELSE IF i = m + n - 1 THEN 5 ELSE 6
  <2>1. /\ P(1) = 1 /\ \A i \in 2 .. m : P(i) = 2
        /\ P(m + n - 1) = 5
        /\ P(m + n) = 6
        /\ \A i \in m + 2 .. m + n - 2 : P(i) = 4
    BY <1>1, <1>2, <1>4
  <2>2. ASSUME NEW i \in 1 .. m + n
        PROVE  Position(written'[i]) = P(i)
    <3>1. CASE i = 1
      BY <3>1, <2>1, <1>4, PositionOf
    <3>2. CASE i \in 2 .. m
      BY <3>2, <2>1, <1>4, PositionOf
    <3>3. CASE i = m + 1 /\ i \in m + 1 .. m + n - 2
      BY <3>3, <1>1, <1>2, <1>4, PositionOf
    <3>4. CASE i \in m + 2 .. m + n - 2
      BY <3>4, <2>1, <1>4, PositionOf
    <3>5. CASE i = m + n - 1
      BY <3>5, <2>1, <1>4, PositionOf
    <3>6. CASE i = m + n
      BY <3>6, <2>1, <1>4, PositionOf
    <3> QED BY <3>1, <3>2, <3>3, <3>4, <3>5, <3>6, <1>5
  <2>3. ASSUME NEW i \in 1 .. m + n, NEW j \in 1 .. m + n, i <= j
        PROVE  P(i) <= P(j)
    <3>1. m \in Nat /\ n \in Nat /\ m >= 1 /\ n >= 2 /\ i \in Int /\ j \in Int
          /\ 1 <= i /\ j <= m + n
      BY <1>1, <1>2
    <3>2. i = m + n - 1 => ~(i = m + 1 /\ written'[i].kind = "content")
      BY <1>4
    <3>3. j = m + n - 1 => ~(j = m + 1 /\ written'[j].kind = "content")
      BY <1>4
    <3>4. j = m + n => ~(j = m + 1 /\ written'[j].kind = "content")
      BY <1>4
    <3> HIDE DEF m, n
    <3> QED BY <2>3, <3>1, <3>2, <3>3, <3>4
  <2> HIDE DEF P
  <2> QED BY <2>2, <2>3
<1>8. Count("role")' = 1 /\ Count("finish")' = 1 /\ Count("[DONE]")' = 1
  <2>1. ASSUME NEW kind, NEW k \in 1 .. m + n, written'[k].kind = kind,
               \A i \in 1 .. m + n : written'[i].kind = kind => i = k
        PROVE  Count(kind)' = 1
    <3>1. {i \in DOMAIN written' : written'[i].kind = kind} = {k}
      BY <2>1, <1>3
    <3> QED BY <3>1, FS_Singleton DEF Count
  <2>2. 1 \in 1 .. m + n /\ m + n - 1 \in 1 .. m + n /\ m + n \in 1 .. m + n
    BY <1>1, <1>2
  <2>3. \A i \in 1 .. m + n : written'[i].kind = "role" => i = 1
    BY <1>6
  <2>4. \A i \in 1 .. m + n : written'[i].kind = "finish" => i = m + n - 1
    BY <1>6
  <2>5. \A i \in 1 .. m + n : written'[i].kind = "[DONE]" => i = m + n
    BY <1>6
  <2> QED BY <2>1, <2>2, <2>3, <2>4, <2>5, <1>4
<1>9. Count("content")' <= 1
  <2>1. \A i \in 1 .. m + n : written'[i].kind = "content" => i = m + 1
    BY <1>4, <1>5
  <2>2. {i \in DOMAIN written' : written'[i].kind = "content"} \subseteq {m + 1}
    BY <2>1, <1>3
  <2>3. Cardinality({i \in DOMAIN written' : written'[i].kind = "content"}) <= Cardinality({m + 1})
    BY <2>2, FS_Singleton, FS_Subset
  <2> QED BY <2>3, FS_Singleton DEF Count
<1>10. \A i \in 1 .. m + n : written'[i].kind = "reasoning" => i \in 1 .. m
  <2>1. \A i \in 1 .. m + n : written'[i].kind = "reasoning" => i \in 2 .. m
    BY <1>6
  <2> QED BY <2>1, <1>2
<1> QED BY <1>2, <1>3, <1>7, <1>8, <1>9, <1>10 DEF StreamOrder

-----------------------------------------------------------------------------
(* A streamed completion: the whole of the text *)

LEMMA IncrementTyped ==
    ASSUME TypeOK, NEW p \in Part, NEW i \in Places(p)
    PROVE  i \in Nat /\ Increment(p, i).from \in Nat /\ Increment(p, i).to \in Nat
<1>1. buffer \in Seq(Delta) /\ written \in Seq(Chunk)
  BY DEF TypeOK
<1>2. Increment(p, i) \in Delta /\ i \in Nat
  <2>1. CASE p \in Thinking
    <3>1. i \in DOMAIN written /\ written[i].kind = "reasoning"
      BY <2>1 DEF Places
    <3>2. written[i] \in Chunk
      BY <1>1, <3>1, ElementOfSeq
    <3>3. written[i].delta \in Delta
      BY <3>1, <3>2 DEF Chunk
    <3> QED BY <2>1, <3>1, <3>3, <1>1 DEF Increment
  <2>2. CASE p \notin Thinking
    <3>1. i \in DOMAIN buffer
      BY <2>2 DEF Places
    <3>2. buffer[i] \in Delta
      BY <1>1, <3>1, ElementOfSeq
    <3> QED BY <2>2, <3>1, <3>2, <1>1 DEF Increment
  <2> QED BY <2>1, <2>2
<1> QED BY <1>2, StreamBounds DEF Delta

(* An increment put behind the others lengthens what they tile. *)
LEMMA Lengthened ==
    ASSUME TypeOK, NEW p \in Part, NEW d \in Delta, NEW k \in Nat,
           Tiles(p, d.from), d.from < d.to,
           Places(p)' = Places(p) \cup {k},
           \A i \in Places(p) : i < k /\ Increment(p, i)' = Increment(p, i),
           Increment(p, k)' = d
    PROVE  Tiles(p, d.to)'
<1>1. d.from \in Nat /\ d.to \in Nat
  BY StreamBounds DEF Delta
<1>2. \A i \in Places(p) : i \in Nat /\ Increment(p, i).from \in Nat /\ Increment(p, i).to \in Nat
  BY IncrementTyped
<1>3. ASSUME NEW c \in 1 .. d.to
      PROVE  \E i \in Places(p)' : Increment(p, i)'.from < c /\ c <= Increment(p, i)'.to
  <2>1. CASE c <= d.from
    <3>1. PICK i \in Places(p) : Increment(p, i).from < c /\ c <= Increment(p, i).to
      BY <2>1, <1>1 DEF Tiles
    <3> QED BY <3>1
  <2>2. CASE d.from < c
    BY <2>2, <1>1
  <2> QED BY <2>1, <2>2, <1>1
<1>4. ASSUME NEW i \in Places(p)', NEW j \in Places(p)', i < j
      PROVE  Increment(p, i)'.to <= Increment(p, j)'.from
  <2>1. i \in Places(p)
    BY <1>2, <1>4
  <2>2. CASE j \in Places(p)
    BY <1>4, <2>1, <2>2 DEF Tiles
  <2>3. CASE j = k
    BY <2>1, <2>3 DEF Tiles
  <2> QED BY <2>2, <2>3
<1>5. ASSUME NEW i \in Places(p)'
      PROVE  Increment(p, i)'.from < Increment(p, i)'.to /\ Increment(p, i)'.to <= d.to
  <2>1. CASE i \in Places(p)
    <3>1. Increment(p, i).from < Increment(p, i).to /\ Increment(p, i).to <= d.from
      BY <2>1 DEF Tiles
    <3> QED BY <2>1, <3>1, <1>1, <1>2
  <2>2. CASE i = k
    BY <2>2, <1>1
  <2> QED BY <2>1, <2>2
<1> QED BY <1>3, <1>4, <1>5 DEF Tiles

LEMMA StillTiled ==
    ASSUME NEW p \in Part, NEW n, Tiles(p, n), Places(p)' = Places(p),
           \A i \in Places(p) : Increment(p, i)' = Increment(p, i)
    PROVE  Tiles(p, n)'
BY DEF Tiles

Tiled == \A p \in Part : Tiles(p, shown[p])

LEMMA StartTiled ==
    ASSUME Init
    PROVE  Tiled
<1>1. ASSUME NEW p \in Part
      PROVE  shown[p] = 0 /\ Places(p) = {}
  BY DEF Init, StreamInit, Places
<1> QED BY <1>1 DEF Tiled, Tiles

(* Reasoning is relayed, content collected. *)
LEMMA DeltaTiled ==
    ASSUME TypeOK, Ahead, Tiled, NEW d \in Delta, YieldDelta(d),
           \/ /\ d.part \in Thinking
              /\ written' = Append(written, [kind |-> "reasoning", delta |-> d])
              /\ buffer' = buffer
           \/ d.part \notin Thinking /\ buffer' = Append(buffer, d) /\ written' = written
    PROVE  Tiled'
<1>1. /\ d.part \in Part /\ d.from = shown[d.part] /\ d.to = shown'[d.part] /\ d.from < d.to
      /\ \A p \in Part : p # d.part => shown'[p] = shown[p]
  BY YieldAhead DEF StreamInv, TypeOK
<1>2. buffer \in Seq(Delta) /\ written \in Seq(Chunk)
  BY DEF TypeOK
<1> DEFINE chunk == [kind |-> "reasoning", delta |-> d]
<1>3. chunk \in Chunk
  BY DEF Chunk
<1>3a. d.part \in Thinking => written' = Append(written, chunk)
  OBVIOUS
<1>4. ASSUME NEW p \in Part, p # d.part
      PROVE  Tiles(p, shown[p])'
  <2>1. Places(p)' = Places(p) /\ \A i \in Places(p) : Increment(p, i)' = Increment(p, i)
    <3>1. CASE d.part \in Thinking /\ p \in Thinking
      <4>1. Lengthens(written, chunk, Len(written) + 1, Append(written, chunk))
        BY <1>2, <1>3, Appended
      <4>2. chunk.delta.part # p
        BY <1>4
      <4> HIDE DEF chunk
      <4> QED BY <3>1, <4>1, <4>2, <1>3a DEF Places, Increment, Lengthens
    <3>2. CASE d.part \in Thinking /\ p \notin Thinking
      BY <3>2 DEF Places, Increment
    <3>3. CASE d.part \notin Thinking /\ p \in Thinking
      BY <3>3 DEF Places, Increment
    <3>4. CASE d.part \notin Thinking /\ p \notin Thinking
      <4>1. Lengthens(buffer, d, Len(buffer) + 1, Append(buffer, d))
        BY <1>2, Appended
      <4> QED BY <1>4, <3>4, <4>1 DEF Places, Increment, Lengthens
    <3> QED BY <3>1, <3>2, <3>3, <3>4
  <2>2. ASSUME NEW n, n = shown[p] PROVE Tiles(p, n)'
    BY <2>1, <2>2, StillTiled DEF Tiled
  <2>3. shown'[p] = shown[p]
    BY <1>1, <1>4
  <2> QED BY <2>2, <2>3 DEF Tiles
<1>5. Tiles(d.part, d.to)'
  <2> DEFINE p == d.part
  <2>0. PICK k \in Nat : k = IF p \in Thinking THEN Len(written) + 1 ELSE Len(buffer) + 1
    BY <1>2
  <2>1. /\ k \in Nat /\ Places(p)' = Places(p) \cup {k} /\ Increment(p, k)' = d
        /\ \A i \in Places(p) : i < k /\ Increment(p, i)' = Increment(p, i)
    <3>1. CASE p \in Thinking
      <4>1. Lengthens(written, chunk, k, Append(written, chunk))
        BY <1>2, <1>3, <3>1, <2>0, Appended
      <4>2. chunk.kind = "reasoning" /\ chunk.delta = d /\ chunk.delta.part = p
        OBVIOUS
      <4> HIDE DEF chunk
      <4> QED BY <3>1, <4>1, <4>2, <1>3a DEF Places, Increment, Lengthens
    <3>2. CASE p \notin Thinking
      <4>1. Lengthens(buffer, d, k, Append(buffer, d))
        BY <1>2, <3>2, <2>0, Appended
      <4> QED BY <3>2, <4>1 DEF Places, Increment, Lengthens
    <3> QED BY <3>1, <3>2
  <2>2. Tiles(p, d.from)
    BY <1>1 DEF Tiled
  <2> QED BY <1>1, <2>1, <2>2, Lengthened
<1>6. Tiles(d.part, shown[d.part])'
  BY <1>1, <1>5 DEF Tiles
<1> QED BY <1>4, <1>6 DEF Tiled

(* Chunks that are no reasoning leave the increments as they are. *)
LEMMA FinishTiled ==
    ASSUME TypeOK, Tiled, buffer' = buffer, shown' = shown,
           \A i \in DOMAIN written : i \in DOMAIN written' /\ written'[i] = written[i],
           \A i \in DOMAIN written' : written'[i].kind = "reasoning" => i \in DOMAIN written
    PROVE  Tiled'
<1>1. ASSUME NEW p \in Part
      PROVE  Places(p)' = Places(p) /\ \A i \in Places(p) : Increment(p, i)' = Increment(p, i)
  BY DEF Places, Increment
<1> QED BY <1>1 DEF Tiled, Tiles

-----------------------------------------------------------------------------
(* A streamed completion: the inductive invariant *)

OpenAIInv ==
    /\ TypeOK /\ Ahead /\ StreamOrder
    /\ phase \in {"reading", "repairing"} => Relaying
    /\ (phase # "ended" \/ Terminated) => Tiled
    /\ (phase \in {"repairing", "finishing"} \/ Terminated) => body # "open" /\ shown = text

LEMMA OpenAIStarts == Init => OpenAIInv
<1> SUFFICES ASSUME Init PROVE OpenAIInv
  OBVIOUS
<1>1. phase = "reading" /\ buffer = <<>> /\ written = <<[kind |-> "role"]>> /\ StreamInit
  BY DEF Init
<1>2. clientGone \in BOOLEAN
  <2>1. clientGone = FALSE
    BY DEF Init
  <2> QED BY <2>1
<1>3. buffer \in Seq(Delta) /\ written \in Seq(Chunk) /\ phase \in Phase
  BY <1>1 DEF Chunk, Phase
<1>4. StreamInv
  BY <1>1, StreamStarts
<1>5. TypeOK
  BY <1>2, <1>3, <1>4 DEF TypeOK, StreamInv
<1>6. Relaying
  BY <1>1 DEF Relaying
<1>7. StreamOrder /\ ~Terminated
  BY <1>5, <1>6, RelayingInOrder
<1> QED BY <1>1, <1>4, <1>5, <1>6, <1>7, StartTiled DEF OpenAIInv, StreamInv

(* The handler stays where it is, or leaves, while nothing more is shown. *)
LEMMA Rests ==
    ASSUME OpenAIInv, StreamInv', UNCHANGED <<buffer, written, shown>>,
           clientGone' \in BOOLEAN, phase' \in {phase, "ended"},
           body # "open" => body' # "open" /\ text' = text
    PROVE  OpenAIInv'
<1>1. TypeOK'
  BY DEF OpenAIInv, TypeOK, StreamInv, Phase
<1>2. StreamOrder' /\ Relaying' = Relaying /\ Terminated' = Terminated
  BY DEF OpenAIInv, StreamOrder, Relaying, Terminated, Count
<1>3. Tiled => Tiled'
  BY DEF Tiled, Tiles, Places, Increment
<1> QED BY <1>1, <1>2, <1>3 DEF OpenAIInv, StreamInv

(* Any extraction, and none, closes the answer in order. *)
LEMMA Closes ==
    ASSUME OpenAIInv, StreamInv', UNCHANGED <<shown, text, body>>, shown = text, body # "open",
           phase \in {"reading", "repairing"},
           NEW x \in Extraction \cup {[tools |-> 0, text |-> FALSE]}, Finish(x)
    PROVE  OpenAIInv'
<1>1. \E tools \in Nat, said \in BOOLEAN : x = [tools |-> tools, text |-> said]
  <2>1. CASE x \in Extraction
    BY <2>1, ToolBound DEF Extraction
  <2>2. CASE x = [tools |-> 0, text |-> FALSE]
    BY <2>2
  <2> QED BY <2>1, <2>2
<1>2. PICK tools \in Nat, said \in BOOLEAN : x = [tools |-> tools, text |-> said]
  BY <1>1
<1>3. TypeOK /\ Relaying /\ Tiled
  BY DEF OpenAIInv
<1>4. Finish([tools |-> tools, text |-> said])
  BY <1>2
<1>5. /\ StreamOrder' /\ written' \in Seq(Chunk) /\ Terminated'
      /\ \A i \in DOMAIN written : i \in DOMAIN written' /\ written'[i] = written[i]
      /\ \A i \in DOMAIN written' : written'[i].kind = "reasoning" => i \in DOMAIN written
  BY <1>3, <1>4, FinishInOrder DEF Terminated
<1>6. phase' = "finishing" /\ clientGone' = clientGone /\ buffer' = buffer
  BY DEF Finish
<1>7. Tiled'
  BY <1>3, <1>5, <1>6, FinishTiled
<1>8. TypeOK'
  BY <1>3, <1>5, <1>6 DEF TypeOK, StreamInv, Phase
<1> QED BY <1>5, <1>6, <1>7, <1>8 DEF OpenAIInv, StreamInv

LEMMA DeltaStep ==
    ASSUME OpenAIInv, OnDelta
    PROVE  OpenAIInv'
<1>1. PICK d \in Delta :
         /\ YieldDelta(d)
         /\ \/ clientGone /\ Breaks
            \/ ~clientGone /\ d.part \in Thinking
               /\ written' = Append(written, [kind |-> "reasoning", delta |-> d])
               /\ UNCHANGED <<phase, clientGone, buffer>>
            \/ ~clientGone /\ d.part \notin Thinking
               /\ buffer' = Append(buffer, d)
               /\ UNCHANGED <<phase, clientGone, written>>
  BY DEF OnDelta
<1>2. phase = "reading" /\ TypeOK /\ Ahead /\ Tiled /\ Relaying /\ ~Terminated
  BY RelayingInOrder DEF OnDelta, OpenAIInv
<1>3. StreamInv' /\ UNCHANGED <<text, body>>
  BY <1>1, <1>2, YieldAhead DEF StreamInv, TypeOK
<1>4. CASE clientGone /\ Breaks
  <2>1. phase' = "ended" /\ UNCHANGED <<clientGone, buffer, written>>
    BY <1>4 DEF Breaks
  <2>2. TypeOK'
    BY <2>1, <1>2, <1>3 DEF TypeOK, StreamInv, Phase
  <2>3. StreamOrder' /\ ~Terminated'
    BY <2>1, <1>2 DEF OpenAIInv, StreamOrder, Terminated, Count
  <2> QED BY <2>1, <2>2, <2>3, <1>3 DEF OpenAIInv, StreamInv
<1>5. CASE ~clientGone /\ d.part \in Thinking
           /\ written' = Append(written, [kind |-> "reasoning", delta |-> d])
           /\ UNCHANGED <<phase, clientGone, buffer>>
  <2> DEFINE chunk == [kind |-> "reasoning", delta |-> d]
  <2>1. written' = Append(written, chunk) /\ UNCHANGED <<phase, clientGone, buffer>>
    BY <1>5
  <2>2. chunk \in Chunk /\ chunk.kind = "reasoning" /\ written \in Seq(Chunk)
    BY <1>2 DEF Chunk, TypeOK
  <2>3. TypeOK'
    BY <2>1, <2>2, <1>2, <1>3, AppendProperties DEF TypeOK, StreamInv
  <2>4. Lengthens(written, chunk, Len(written) + 1, written')
    BY <2>1, <2>2, Appended
  <2>5. Relaying'
    <3> HIDE DEF chunk
    <3>1. Len(written') = Len(written) + 1 /\ Len(written) \in Nat /\ DOMAIN written = 1 .. Len(written)
      BY <2>1, <2>2
    <3>2. written' # <<>> /\ 1 \in DOMAIN written
      BY <3>1, <2>2, <1>2 DEF Relaying
    <3>3. \A i \in 2 .. Len(written') : i \in 2 .. Len(written) \/ i = Len(written) + 1
      BY <3>1
    <3> QED BY <2>2, <2>4, <3>1, <3>2, <3>3, <1>2 DEF Lengthens, Relaying
  <2>6. StreamOrder' /\ ~Terminated'
    <3>1. TypeOK' /\ Relaying' => StreamOrder' /\ ~Terminated'
      BY RelayingInOrder, PTL
    <3> QED BY <3>1, <2>3, <2>5
  <2>7. Tiled'
    BY <1>1, <1>2, <1>5, DeltaTiled
  <2> QED BY <1>2, <1>3, <2>1, <2>3, <2>5, <2>6, <2>7 DEF OpenAIInv, StreamInv
<1>6. CASE ~clientGone /\ d.part \notin Thinking
           /\ buffer' = Append(buffer, d)
           /\ UNCHANGED <<phase, clientGone, written>>
  <2>1. buffer' = Append(buffer, d) /\ UNCHANGED <<phase, clientGone, written>> /\ buffer \in Seq(Delta)
    BY <1>6, <1>2 DEF TypeOK
  <2>2. TypeOK'
    BY <2>1, <1>2, <1>3, AppendProperties DEF TypeOK, StreamInv
  <2>3. StreamOrder' /\ ~Terminated' /\ Relaying'
    BY <2>1, <1>2 DEF OpenAIInv, StreamOrder, Terminated, Count, Relaying
  <2>4. Tiled'
    BY <1>1, <1>2, <1>6, DeltaTiled
  <2> QED BY <1>2, <1>3, <2>1, <2>2, <2>3, <2>4 DEF OpenAIInv, StreamInv
<1> QED BY <1>1, <1>4, <1>5, <1>6

LEMMA DoneStep ==
    ASSUME OpenAIInv, OnDone
    PROVE  OpenAIInv'
<1>1. phase = "reading" /\ StreamInv /\ YieldDone /\ clientGone \in BOOLEAN
  BY DEF OnDone, OpenAIInv, TypeOK, StreamInv
<1>2. StreamInv' /\ UNCHANGED <<text, body, shown>> /\ shown = text /\ body # "open"
  BY <1>1, DoneShowsAll
<1>3. CASE clientGone
  <2>1. phase' = "ended" /\ UNCHANGED <<clientGone, buffer, written>>
    BY <1>3 DEF OnDone, Breaks
  <2> QED BY <2>1, <1>1, <1>2, Rests
<1>4. ASSUME NEW x \in Extraction \cup {[tools |-> 0, text |-> FALSE]}, Finish(x)
      PROVE  OpenAIInv'
  BY <1>1, <1>2, <1>4, Closes
<1>5. CASE phase' = "repairing" /\ UNCHANGED <<clientGone, buffer, written>>
  <2>1. TypeOK'
    BY <1>2, <1>5 DEF OpenAIInv, TypeOK, StreamInv, Phase
  <2>2. StreamOrder' /\ Relaying'
    BY <1>1, <1>5 DEF OpenAIInv, StreamOrder, Relaying, Count
  <2>3. Tiled'
    BY <1>1, <1>2, <1>5 DEF OpenAIInv, Tiled, Tiles, Places, Increment
  <2> QED BY <1>2, <1>5, <2>1, <2>2, <2>3 DEF OpenAIInv, StreamInv
<1> QED BY <1>1, <1>3, <1>4, <1>5 DEF OnDone

LEMMA OpenAIStepHolds == OpenAIInv /\ [Next]_vars => OpenAIInv'
<1> SUFFICES ASSUME OpenAIInv, [Next]_vars PROVE OpenAIInv'
  OBVIOUS
<1>0. StreamInv /\ clientGone \in BOOLEAN
  BY DEF OpenAIInv, TypeOK, StreamInv
<1>1. CASE Upstream /\ UNCHANGED handlerVars
  <2>1. UNCHANGED <<phase, clientGone, buffer, written>>
    BY <1>1 DEF handlerVars
  <2>2. StreamInv' /\ shown' = shown /\ (body # "open" => body' # "open" /\ text' = text)
    BY <1>0, <1>1, UpstreamAhead
  <2> QED BY <1>0, <2>1, <2>2, Rests
<1>2. CASE OnRead
  <2>1. UNCHANGED <<phase, clientGone, buffer, written>>
    BY <1>2 DEF OnRead, handlerVars
  <2>2. StreamInv' /\ UNCHANGED <<text, body, shown>>
    BY <1>0, <1>2, ReadAhead DEF OnRead
  <2> QED BY <1>0, <2>1, <2>2, Rests
<1>3. CASE OnSkip
  <2>1. UNCHANGED <<phase, clientGone, buffer, written>>
    BY <1>3 DEF OnSkip, handlerVars
  <2>2. StreamInv' /\ UNCHANGED <<text, body, shown>>
    BY <1>0, <1>3, SkipAhead DEF OnSkip
  <2> QED BY <1>0, <2>1, <2>2, Rests
<1>4. CASE OnDelta
  BY <1>4, DeltaStep
<1>5. CASE OnDone
  BY <1>5, DoneStep
<1>6. CASE LoopEnds \/ ReadFails
  <2>1. phase' = "ended" /\ UNCHANGED <<clientGone, buffer, written>> /\ UNCHANGED streamVars
    BY <1>6 DEF LoopEnds, ReadFails, Breaks, BodyIsRead, BodyThrows
  <2> QED BY <1>0, <2>1, StreamStands, Rests
<1>7. CASE RepairAnswers
  <2>1. phase = "repairing" /\ UNCHANGED streamVars
    BY <1>7 DEF RepairAnswers
  <2>2. PICK x \in Extraction : Finish(x)
    BY <1>7 DEF RepairAnswers
  <2>3. StreamInv' /\ UNCHANGED <<text, body, shown>> /\ shown = text /\ body # "open"
    BY <1>0, <2>1, StreamStands DEF OpenAIInv
  <2> QED BY <2>1, <2>2, <2>3, Closes
<1>8. CASE ClientCloses
  <2>1. UNCHANGED <<streamVars, phase, buffer, written>> /\ clientGone' \in BOOLEAN
    <3>1. clientGone' = TRUE
      BY <1>8 DEF ClientCloses
    <3> QED BY <1>8, <3>1 DEF ClientCloses
  <2> QED BY <1>0, <2>1, StreamStands, Rests
<1>9. CASE UNCHANGED vars
  <2>1. UNCHANGED <<streamVars, phase, clientGone, buffer, written>>
    BY <1>9 DEF vars, handlerVars
  <2> QED BY <1>0, <2>1, StreamStands, Rests
<1> QED BY <1>1, <1>2, <1>3, <1>4, <1>5, <1>6, <1>7, <1>8, <1>9 DEF Next, Handler, Ended

-----------------------------------------------------------------------------
(* A streamed message: sequences of events in which each may follow the     *)
(* one before                                                               *)

Event == Anthropic!Event
Index == Nat \cup {-1}

Chained(s) == \A i \in 2 .. Len(s) : Anthropic!Follows(s[i - 1], s[i])

(* Whole blocks, from number i to number j. *)
Run(s, i, j) ==
    /\ s \in Seq(Event) /\ s # <<>> /\ Chained(s)
    /\ s[1].kind = "start" /\ s[1].index = i
    /\ s[Len(s)].kind = "stop" /\ s[Len(s)].index = j
    /\ \A k \in DOMAIN s : s[k].kind \in {"start", "delta", "stop"}

HasCall(s) == \E k \in DOMAIN s : s[k].kind = "start" /\ s[k].type = "tool_use"

LEMMA Glued ==
    ASSUME NEW s \in Seq(Event), NEW t \in Seq(Event), s # <<>>, t # <<>>,
           Chained(s), Chained(t), Anthropic!Follows(s[Len(s)], t[1])
    PROVE  /\ s \o t \in Seq(Event) /\ Len(s \o t) = Len(s) + Len(t) /\ Chained(s \o t)
           /\ \A i \in DOMAIN s : (s \o t)[i] = s[i]
           /\ \A i \in DOMAIN t : (s \o t)[Len(s) + i] = t[i]
<1> DEFINE m == Len(s)
           n == Len(t)
<1>1. /\ s \o t \in Seq(Event) /\ Len(s \o t) = m + n
      /\ \A i \in 1 .. m : (s \o t)[i] = s[i]
      /\ \A i \in m + 1 .. m + n : (s \o t)[i] = t[i - m]
      /\ m \in Nat /\ n \in Nat /\ m >= 1 /\ n >= 1
      /\ DOMAIN s = 1 .. m /\ DOMAIN t = 1 .. n
  OBVIOUS
<1>2. ASSUME NEW i \in 2 .. m + n
      PROVE  Anthropic!Follows((s \o t)[i - 1], (s \o t)[i])
  <2>1. CASE i <= m
    <3>1. i \in 1 .. m /\ i - 1 \in 1 .. m /\ i \in 2 .. m
      BY <2>1, <1>1
    <3> QED BY <3>1, <1>1 DEF Chained
  <2>2. CASE i = m + 1
    <3>1. i - 1 = m /\ m \in 1 .. m /\ i - m = 1 /\ i \in m + 1 .. m + n
      BY <2>2, <1>1
    <3> QED BY <3>1, <1>1
  <2>3. CASE i > m + 1
    <3>1. /\ i \in m + 1 .. m + n /\ i - 1 \in m + 1 .. m + n
          /\ i - m \in 2 .. n /\ (i - 1) - m = (i - m) - 1
      BY <2>3, <1>1
    <3>2. Anthropic!Follows(t[(i - m) - 1], t[i - m])
      BY <3>1 DEF Chained
    <3> QED BY <3>1, <3>2, <1>1
  <2> QED BY <2>1, <2>2, <2>3, <1>1
<1>3. \A i \in 1 .. n : m + i \in m + 1 .. m + n /\ (m + i) - m = i
  BY <1>1
<1> QED BY <1>1, <1>2, <1>3 DEF Chained

LEMMA BlockRun ==
    ASSUME NEW i \in Nat, NEW type \in {"text", "tool_use"}
    PROVE  LET s == Anthropic!Block(i, type, Anthropic!Holds[type]) IN
           Run(s, i, i) /\ Len(s) = 3 /\ (HasCall(s) <=> type = "tool_use")
<1> DEFINE what == Anthropic!Holds[type]
           first == Anthropic!Start(i, type)
           second == Anthropic!Fill(i, what)
           third == Anthropic!Stop(i)
           s == <<first, second, third>>
<1>1. Anthropic!Block(i, type, what) = s
  BY DEF Anthropic!Block
<1>2. /\ first.kind = "start" /\ first.index = i /\ first.type = type
      /\ second.kind = "delta" /\ second.index = i /\ second.what = what
      /\ third.kind = "stop" /\ third.index = i
  BY DEF Anthropic!Start, Anthropic!Fill, Anthropic!Stop
<1>3. what \in {"text_delta", "input_json_delta"}
  BY DEF Anthropic!Holds
<1>4. first \in Event /\ second \in Event /\ third \in Event
  BY <1>3 DEF Event, Anthropic!Event, Anthropic!Start, Anthropic!Fill, Anthropic!Stop
<1>5. what = Anthropic!Holds[first.type]
  BY <1>2
<1> HIDE DEF first, second, third, what
<1>6. s \in Seq(Event) /\ s # <<>> /\ Len(s) = 3 /\ s[1] = first /\ s[2] = second /\ s[3] = third
  BY <1>4
<1>7. Chained(s)
  <2>1. Anthropic!Follows(first, second) /\ Anthropic!Follows(second, third)
    BY <1>2, <1>5 DEF Anthropic!Follows
  <2>2. \A k \in 2 .. 3 : (k = 2 /\ k - 1 = 1) \/ (k = 3 /\ k - 1 = 2)
    OBVIOUS
  <2> QED BY <1>6, <2>1, <2>2 DEF Chained
<1>8. DOMAIN s = 1 .. 3 /\ \A k \in 1 .. 3 : k = 1 \/ k = 2 \/ k = 3
  BY <1>6
<1> HIDE DEF s
<1>9. Run(s, i, i)
  BY <1>2, <1>6, <1>7, <1>8 DEF Run
<1>10. HasCall(s) <=> type = "tool_use"
  BY <1>2, <1>6, <1>8 DEF HasCall
<1> QED BY <1>1, <1>6, <1>9, <1>10 DEF what

LEMMA ThreeDivided ==
    ASSUME NEW q \in Nat, NEW r \in 0 .. 2, NEW j \in Nat, j = 3 * q + r + 1
    PROVE  (j - 1) \div 3 = q /\ (j - 1) % 3 = r
OBVIOUS

LEMMA InThrees ==
    ASSUME NEW n \in Nat, NEW j \in 1 .. 3 * n
    PROVE  \E q \in 0 .. n - 1 : j = 3 * q + 1 \/ j = 3 * q + 2 \/ j = 3 * q + 3
<1>1. PICK q \in Int, r \in 0 .. 2 : j - 1 = 3 * q + r
  <2>1. (j - 1) \div 3 \in Int /\ (j - 1) % 3 \in 0 .. 2
    OBVIOUS
  <2>2. j - 1 = 3 * ((j - 1) \div 3) + ((j - 1) % 3)
    OBVIOUS
  <2> QED BY <2>1, <2>2
<1>2. q \in 0 .. n - 1
  BY <1>1
<1>3. r = 0 \/ r = 1 \/ r = 2
  OBVIOUS
<1> QED BY <1>1, <1>2, <1>3

(* The blocks of n tool calls after block b. *)
Tools(b, n) ==
    [j \in 1 .. 3 * n |->
        Anthropic!Block(b + (1 + ((j - 1) \div 3)), "tool_use", "input_json_delta")[1 + ((j - 1) % 3)]]

LEMMA ToolRun ==
    ASSUME NEW b \in Index, NEW n \in Nat, n > 0
    PROVE  Run(Tools(b, n), b + 1, b + n) /\ HasCall(Tools(b, n))
<1> DEFINE s == Tools(b, n)
           Tool(i) == Anthropic!Block(i, "tool_use", "input_json_delta")
           At(j) == Tool(b + (1 + ((j - 1) \div 3)))[1 + ((j - 1) % 3)]
<1>1. ASSUME NEW i
      PROVE  /\ Tool(i)[1] = Anthropic!Start(i, "tool_use")
             /\ Tool(i)[2] = Anthropic!Fill(i, "input_json_delta")
             /\ Tool(i)[3] = Anthropic!Stop(i)
  BY DEF Anthropic!Block
<1>2. DOMAIN s = 1 .. 3 * n /\ \A j \in 1 .. 3 * n : s[j] = At(j)
  BY DEF Tools
<1>2a. s = [j \in 1 .. 3 * n |-> s[j]]
  BY DEF Tools
<1> HIDE DEF Tool, s
<1>3. ASSUME NEW q \in 0 .. n - 1, NEW j \in 1 .. 3 * n, NEW r \in 0 .. 2, j = 3 * q + r + 1
      PROVE  s[j] = Tool(b + 1 + q)[1 + r]
  <2>1. (j - 1) \div 3 = q /\ (j - 1) % 3 = r
    BY <1>3, ThreeDivided
  <2>2. b + (1 + q) = b + 1 + q
    BY DEF Index
  <2> QED BY <1>2, <2>1, <2>2
<1>4. ASSUME NEW q \in 0 .. n - 1
      PROVE  /\ 3 * q + 1 \in 1 .. 3 * n /\ s[3 * q + 1] = Anthropic!Start(b + 1 + q, "tool_use")
             /\ 3 * q + 2 \in 1 .. 3 * n /\ s[3 * q + 2] = Anthropic!Fill(b + 1 + q, "input_json_delta")
             /\ 3 * q + 3 \in 1 .. 3 * n /\ s[3 * q + 3] = Anthropic!Stop(b + 1 + q)
  <2>1. /\ 3 * q + 1 \in 1 .. 3 * n /\ 3 * q + 2 \in 1 .. 3 * n /\ 3 * q + 3 \in 1 .. 3 * n
        /\ 3 * q + 1 = 3 * q + 0 + 1 /\ 3 * q + 2 = 3 * q + 1 + 1 /\ 3 * q + 3 = 3 * q + 2 + 1
        /\ 1 + 0 = 1 /\ 1 + 1 = 2 /\ 1 + 2 = 3 /\ 0 \in 0 .. 2 /\ 1 \in 0 .. 2 /\ 2 \in 0 .. 2
    OBVIOUS
  <2>2. ASSUME NEW j \in 1 .. 3 * n, NEW r \in 0 .. 2, j = 3 * q + r + 1, NEW k, 1 + r = k
        PROVE  s[j] = Tool(b + 1 + q)[k]
    BY <2>2, <1>3
  <2>3. s[3 * q + 1] = Tool(b + 1 + q)[1]
    BY <2>1, <2>2
  <2>4. s[3 * q + 2] = Tool(b + 1 + q)[2]
    BY <2>1, <2>2
  <2>5. s[3 * q + 3] = Tool(b + 1 + q)[3]
    BY <2>1, <2>2
  <2> QED BY <2>1, <2>3, <2>4, <2>5, <1>1
<1>5. ASSUME NEW j \in 1 .. 3 * n
      PROVE  \E q \in 0 .. n - 1 : j = 3 * q + 1 \/ j = 3 * q + 2 \/ j = 3 * q + 3
  BY InThrees
<1>6. ASSUME NEW q \in 0 .. n - 1
      PROVE  LET i == b + 1 + q
                 first == Anthropic!Start(i, "tool_use")
                 second == Anthropic!Fill(i, "input_json_delta")
                 third == Anthropic!Stop(i) IN
             /\ first \in Event /\ second \in Event /\ third \in Event
             /\ first.kind = "start" /\ second.kind = "delta" /\ third.kind = "stop"
             /\ first.index = i /\ third.index = i /\ first.type = "tool_use"
             /\ Anthropic!Follows(first, second) /\ Anthropic!Follows(second, third)
  <2>1. b + 1 + q \in Nat
    BY DEF Index
  <2> QED BY <2>1 DEF Event, Anthropic!Event, Anthropic!Start, Anthropic!Fill, Anthropic!Stop,
                      Anthropic!Follows, Anthropic!Holds
<1> DEFINE First(q) == Anthropic!Start(b + 1 + q, "tool_use")
           Second(q) == Anthropic!Fill(b + 1 + q, "input_json_delta")
           Third(q) == Anthropic!Stop(b + 1 + q)
<1>7. ASSUME NEW q \in 0 .. n - 1
      PROVE  /\ 3 * q + 1 \in 1 .. 3 * n /\ s[3 * q + 1] = First(q)
             /\ 3 * q + 2 \in 1 .. 3 * n /\ s[3 * q + 2] = Second(q)
             /\ 3 * q + 3 \in 1 .. 3 * n /\ s[3 * q + 3] = Third(q)
             /\ First(q) \in Event /\ Second(q) \in Event /\ Third(q) \in Event
             /\ First(q).kind = "start" /\ Second(q).kind = "delta" /\ Third(q).kind = "stop"
             /\ First(q).index = b + 1 + q /\ Third(q).index = b + 1 + q
             /\ First(q).type = "tool_use"
             /\ Anthropic!Follows(First(q), Second(q)) /\ Anthropic!Follows(Second(q), Third(q))
  BY <1>4, <1>6
<1> HIDE DEF First, Second, Third
<1>8. ASSUME NEW j \in 1 .. 3 * n
      PROVE  s[j] \in Event /\ s[j].kind \in {"start", "delta", "stop"}
  <2>1. PICK q \in 0 .. n - 1 : j = 3 * q + 1 \/ j = 3 * q + 2 \/ j = 3 * q + 3
    BY <1>5
  <2>2. s[j] = First(q) \/ s[j] = Second(q) \/ s[j] = Third(q)
    BY <2>1, <1>7
  <2> QED BY <2>2, <1>7
<1>9. s \in Seq(Event) /\ Len(s) = 3 * n /\ DOMAIN s = 1 .. 3 * n /\ s # <<>>
  <2>1. DOMAIN s = 1 .. 3 * n
    BY <1>2
  <2>2. s \in [1 .. 3 * n -> Event] /\ 3 * n \in Nat
    BY <1>8, <1>2a
  <2>3. s \in Seq(Event) /\ Len(s) = 3 * n
    BY <2>2
  <2>4. 1 \in 1 .. 3 * n
    OBVIOUS
  <2> QED BY <2>1, <2>3, <2>4
<1>10. ASSUME NEW j \in 2 .. 3 * n
       PROVE  Anthropic!Follows(s[j - 1], s[j])
  <2>1. PICK q \in 0 .. n - 1 : j = 3 * q + 1 \/ j = 3 * q + 2 \/ j = 3 * q + 3
    <3>1. j \in 1 .. 3 * n
      OBVIOUS
    <3> QED BY <3>1, <1>5
  <2>2. CASE j = 3 * q + 1
    <3>1. q - 1 \in 0 .. n - 1 /\ j - 1 = 3 * (q - 1) + 3
      BY <2>2
    <3>2. s[j - 1] = Third(q - 1) /\ Third(q - 1).kind = "stop" /\ Third(q - 1).index = b + 1 + (q - 1)
      BY <3>1, <1>7
    <3>3. s[j] = First(q) /\ First(q).kind = "start" /\ First(q).index = b + 1 + q
      BY <2>2, <1>7
    <3>4. b + 1 + q = (b + 1 + (q - 1)) + 1
      BY DEF Index
    <3> QED BY <3>2, <3>3, <3>4 DEF Anthropic!Follows
  <2>3. CASE j = 3 * q + 2
    <3>1. j - 1 = 3 * q + 1
      BY <2>3
    <3> QED BY <2>3, <3>1, <1>7
  <2>4. CASE j = 3 * q + 3
    <3>1. j - 1 = 3 * q + 2
      BY <2>4
    <3> QED BY <2>4, <3>1, <1>7
  <2> QED BY <2>1, <2>2, <2>3, <2>4
<1>11. /\ s[1].kind = "start" /\ s[1].index = b + 1 /\ s[1].type = "tool_use"
       /\ s[3 * n].kind = "stop" /\ s[3 * n].index = b + n
  <2>1. 0 \in 0 .. n - 1 /\ 3 * 0 + 1 = 1 /\ b + 1 + 0 = b + 1
    BY DEF Index
  <2>2. n - 1 \in 0 .. n - 1 /\ 3 * (n - 1) + 3 = 3 * n /\ b + 1 + (n - 1) = b + n
    BY DEF Index
  <2>3. s[1] = First(0) /\ First(0).index = b + 1
    BY <2>1, <1>7
  <2>4. s[3 * n] = Third(n - 1) /\ Third(n - 1).index = b + n
    BY <2>2, <1>7
  <2> QED BY <2>1, <2>2, <2>3, <2>4, <1>7
<1>12. HasCall(s)
  <2>1. 1 \in DOMAIN s
    BY <1>9
  <2> QED BY <2>1, <1>11 DEF HasCall
<1>13. \A k \in DOMAIN s : s[k].kind \in {"start", "delta", "stop"}
  BY <1>8, <1>9
<1> QED BY <1>9, <1>10, <1>11, <1>12, <1>13 DEF Run, Chained, s

LEMMA RunsGlued ==
    ASSUME NEW b \in Index, NEW c \in Index, NEW s, NEW t, NEW i,
           Run(s, i, b), Run(t, b + 1, c)
    PROVE  Run(s \o t, i, c) /\ (HasCall(s \o t) <=> HasCall(s) \/ HasCall(t))
<1>1. /\ s \in Seq(Event) /\ t \in Seq(Event) /\ s # <<>> /\ t # <<>> /\ Chained(s) /\ Chained(t)
      /\ s[Len(s)].kind = "stop" /\ s[Len(s)].index = b
      /\ t[1].kind = "start" /\ t[1].index = b + 1
  BY DEF Run
<1>2. Anthropic!Follows(s[Len(s)], t[1])
  BY <1>1 DEF Anthropic!Follows
<1>3. /\ s \o t \in Seq(Event) /\ Len(s \o t) = Len(s) + Len(t) /\ Chained(s \o t)
      /\ \A k \in DOMAIN s : (s \o t)[k] = s[k]
      /\ \A k \in DOMAIN t : (s \o t)[Len(s) + k] = t[k]
  BY <1>1, <1>2, Glued
<1>4. /\ Len(s) \in Nat /\ Len(t) \in Nat /\ 1 \in DOMAIN s /\ Len(t) \in DOMAIN t
      /\ DOMAIN s = 1 .. Len(s) /\ DOMAIN t = 1 .. Len(t)
      /\ DOMAIN (s \o t) = 1 .. Len(s) + Len(t)
  BY <1>1, <1>3
<1>5. \A k \in DOMAIN (s \o t) : k \in DOMAIN s \/ \E l \in DOMAIN t : k = Len(s) + l
  <2>1. ASSUME NEW k \in DOMAIN (s \o t), k \notin DOMAIN s
        PROVE  k - Len(s) \in DOMAIN t /\ k = Len(s) + (k - Len(s))
    BY <2>1, <1>4
  <2> QED BY <2>1
<1>6. /\ \A k \in DOMAIN s : k \in DOMAIN (s \o t)
      /\ \A l \in DOMAIN t : Len(s) + l \in DOMAIN (s \o t)
  BY <1>4
<1>7. Run(s \o t, i, c)
  <2>1. (s \o t)[1] = s[1] /\ (s \o t)[Len(s \o t)] = t[Len(t)]
    BY <1>3, <1>4
  <2>2. \A k \in DOMAIN (s \o t) : (s \o t)[k].kind \in {"start", "delta", "stop"}
    BY <1>3, <1>5 DEF Run
  <2>3. s \o t # <<>>
    BY <1>1, <1>3, <1>4
  <2> QED BY <1>3, <2>1, <2>2, <2>3 DEF Run
<1>8. HasCall(s \o t) <=> HasCall(s) \/ HasCall(t)
  BY <1>3, <1>5, <1>6 DEF HasCall
<1> QED BY <1>7, <1>8

(* The blocks of an extraction. *)
LEMMA BlocksRun ==
    ASSUME NEW b \in Index, NEW tools \in Nat, NEW said \in BOOLEAN
    PROVE  LET x == [tools |-> tools, text |-> said]
               s == Anthropic!Blocks(b, x)
               c == b + (IF said THEN 1 ELSE 0) + tools IN
           /\ c \in Index
           /\ \/ s = <<>> /\ ~said /\ tools = 0
              \/ Run(s, b + 1, c) /\ (HasCall(s) <=> tools > 0)
<1> DEFINE x == [tools |-> tools, text |-> said]
           first == IF said THEN b + 1 ELSE b
           textBlock == Anthropic!Block(first, "text", "text_delta")
           start == IF said THEN textBlock ELSE <<>>
           c == b + (IF said THEN 1 ELSE 0) + tools
<1>1. /\ first \in Index /\ c = first + tools /\ c \in Index
      /\ said => first = b + 1 /\ first \in Nat
      /\ ~said => first = b
  BY DEF Index
<1>2. Anthropic!Blocks(b, x) = start \o Tools(first, tools)
  BY DEF Anthropic!Blocks, Tools
<1>3. said => Run(textBlock, b + 1, first) /\ ~HasCall(textBlock)
  <2>1. Anthropic!Holds["text"] = "text_delta"
    BY DEF Anthropic!Holds
  <2> QED BY <2>1, <1>1, BlockRun
<1>4. tools > 0 => Run(Tools(first, tools), first + 1, c) /\ HasCall(Tools(first, tools))
  BY <1>1, ToolRun
<1>5. tools = 0 => Tools(first, tools) = <<>>
  <2>1. ASSUME tools = 0 PROVE Tools(first, tools) = <<>>
    <3>1. DOMAIN Tools(first, tools) = {}
      BY <2>1 DEF Tools
    <3>2. Tools(first, tools) = [j \in {} |-> Tools(first, tools)[j]]
      BY <3>1 DEF Tools
    <3> QED BY <3>2
  <2> QED BY <2>1
<1> HIDE DEF first, textBlock, c
<1>6. CASE said /\ tools > 0
  <2>1. Run(textBlock \o Tools(first, tools), b + 1, c)
        /\ HasCall(textBlock \o Tools(first, tools))
    BY <1>1, <1>3, <1>4, <1>6, RunsGlued
  <2> QED BY <1>1, <1>2, <1>6, <2>1 DEF c
<1>7. CASE said /\ tools = 0
  <2>1. textBlock \in Seq(Event)
    BY <1>3, <1>7 DEF Run
  <2>2. textBlock \o <<>> = textBlock
    BY <2>1
  <2>3. Anthropic!Blocks(b, x) = textBlock
    BY <1>2, <1>5, <1>7, <2>2
  <2>4. c = first
    BY <1>1, <1>7 DEF Index
  <2> QED BY <1>1, <1>3, <1>7, <2>3, <2>4 DEF c
<1>8. CASE ~said /\ tools > 0
  <2>1. Tools(first, tools) \in Seq(Event)
    BY <1>4, <1>8 DEF Run
  <2>2. <<>> \o Tools(first, tools) = Tools(first, tools)
    BY <2>1
  <2>3. Anthropic!Blocks(b, x) = Tools(first, tools)
    BY <1>2, <1>8, <2>2
  <2> QED BY <1>1, <1>4, <1>8, <2>3 DEF c
<1>9. CASE ~said /\ tools = 0
  <2>1. Anthropic!Blocks(b, x) = <<>>
    <3>1. <<>> \o <<>> = <<>>
      OBVIOUS
    <3> QED BY <1>2, <1>5, <1>9, <3>1
  <2> QED BY <1>1, <1>9, <2>1 DEF c
<1> QED BY <1>6, <1>7, <1>8, <1>9

(* A message begins with its start and keeps to the protocol. *)
Begun(s) == s \in Seq(Event) /\ s # <<>> /\ Chained(s) /\ s[1].kind = "message_start"

(* All its blocks up to b are closed. *)
Between(s, b) ==
    /\ Begun(s)
    /\ \/ s[Len(s)].kind = "message_start" /\ b = -1
       \/ s[Len(s)].kind = "stop" /\ s[Len(s)].index = b

(* No event of the message's end. *)
Unended(s) == \A i \in DOMAIN s : s[i].kind \notin {"message_delta", "message_stop"}

(* An ended message, with its reason. *)
EndedWith(s, reason) ==
    /\ Begun(s)
    /\ \A i \in DOMAIN s : s[i].kind = "message_stop" <=> i = Len(s)
    /\ \A i \in DOMAIN s : s[i].kind = "message_delta" => s[i].reason = reason

LEMMA RunAfter ==
    ASSUME NEW b \in Index, NEW c \in Index, NEW s, NEW t,
           Between(s, b), Unended(s), Run(t, b + 1, c)
    PROVE  Between(s \o t, c) /\ Unended(s \o t) /\ (HasCall(s \o t) <=> HasCall(s) \/ HasCall(t))
<1>1. /\ s \in Seq(Event) /\ t \in Seq(Event) /\ s # <<>> /\ t # <<>> /\ Chained(s) /\ Chained(t)
      /\ t[1].kind = "start" /\ t[1].index = b + 1
  BY DEF Run, Between, Begun
<1>2. Anthropic!Follows(s[Len(s)], t[1])
  <2>1. CASE s[Len(s)].kind = "message_start" /\ b = -1
    BY <1>1, <2>1 DEF Anthropic!Follows
  <2>2. CASE s[Len(s)].kind = "stop" /\ s[Len(s)].index = b
    BY <1>1, <2>2 DEF Anthropic!Follows
  <2> QED BY <2>1, <2>2 DEF Between
<1>3. /\ s \o t \in Seq(Event) /\ Len(s \o t) = Len(s) + Len(t) /\ Chained(s \o t)
      /\ \A k \in DOMAIN s : (s \o t)[k] = s[k]
      /\ \A k \in DOMAIN t : (s \o t)[Len(s) + k] = t[k]
  BY <1>1, <1>2, Glued
<1>4. /\ Len(s) \in Nat /\ Len(t) \in Nat /\ 1 \in DOMAIN s /\ Len(t) \in DOMAIN t
      /\ DOMAIN s = 1 .. Len(s) /\ DOMAIN t = 1 .. Len(t)
      /\ DOMAIN (s \o t) = 1 .. Len(s) + Len(t)
  BY <1>1, <1>3
<1>5. \A k \in DOMAIN (s \o t) : k \in DOMAIN s \/ \E l \in DOMAIN t : k = Len(s) + l
  <2>1. ASSUME NEW k \in DOMAIN (s \o t), k \notin DOMAIN s
        PROVE  k - Len(s) \in DOMAIN t /\ k = Len(s) + (k - Len(s))
    BY <2>1, <1>4
  <2> QED BY <2>1
<1>6. /\ \A k \in DOMAIN s : k \in DOMAIN (s \o t)
      /\ \A l \in DOMAIN t : Len(s) + l \in DOMAIN (s \o t)
  BY <1>4
<1>7. Between(s \o t, c)
  <2>1. (s \o t)[1] = s[1] /\ (s \o t)[Len(s \o t)] = t[Len(t)]
    BY <1>3, <1>4
  <2>2. s \o t # <<>>
    BY <1>1, <1>3, <1>4
  <2> QED BY <1>3, <2>1, <2>2 DEF Run, Between, Begun
<1>8. HasCall(s \o t) <=> HasCall(s) \/ HasCall(t)
  BY <1>3, <1>5, <1>6 DEF HasCall
<1>9. Unended(s \o t)
  BY <1>3, <1>5 DEF Unended, Run
<1> QED BY <1>7, <1>8, <1>9

LEMMA EndAfter ==
    ASSUME NEW b \in Index, NEW s, NEW reason \in Anthropic!StopReason, Between(s, b), Unended(s)
    PROVE  LET t == s \o Anthropic!EndMessage(reason) IN
           EndedWith(t, reason) /\ (HasCall(t) <=> HasCall(s))
<1> DEFINE delta == [kind |-> "message_delta", reason |-> reason]
           stop == [kind |-> "message_stop"]
           e == <<delta, stop>>
           t == s \o e
           n == Len(s)
<1>1. Anthropic!EndMessage(reason) = e
  BY DEF Anthropic!EndMessage
<1>2. delta \in Event /\ stop \in Event
  BY DEF Event, Anthropic!Event
<1>3. delta.kind = "message_delta" /\ delta.reason = reason /\ stop.kind = "message_stop"
  OBVIOUS
<1> HIDE DEF delta, stop
<1>4. e \in Seq(Event) /\ e # <<>> /\ Len(e) = 2 /\ e[1] = delta /\ e[2] = stop /\ DOMAIN e = 1 .. 2
  BY <1>2
<1> HIDE DEF e
<1>5. Chained(e)
  <2>1. \A i \in 2 .. 2 : i = 2 /\ i - 1 = 1
    OBVIOUS
  <2>2. Anthropic!Follows(delta, stop)
    BY <1>3 DEF Anthropic!Follows
  <2> QED BY <1>4, <2>1, <2>2 DEF Chained
<1>6. Anthropic!Follows(s[n], delta)
  BY <1>3 DEF Between, Anthropic!Follows
<1>7. /\ t \in Seq(Event) /\ Len(t) = n + 2 /\ Chained(t)
      /\ \A i \in DOMAIN s : t[i] = s[i]
      /\ t[n + 1] = delta /\ t[n + 2] = stop
  <2>1. s \in Seq(Event) /\ s # <<>> /\ Chained(s)
    BY DEF Between, Begun
  <2>2. /\ t \in Seq(Event) /\ Len(t) = n + Len(e) /\ Chained(t)
        /\ \A i \in DOMAIN s : t[i] = s[i]
        /\ \A i \in DOMAIN e : t[n + i] = e[i]
    BY <2>1, <1>4, <1>5, <1>6, Glued
  <2>3. 1 \in DOMAIN e /\ 2 \in DOMAIN e
    BY <1>4
  <2> QED BY <2>2, <2>3, <1>4
<1>8. /\ n \in Nat /\ n >= 1 /\ DOMAIN s = 1 .. n /\ DOMAIN t = 1 .. n + 2
      /\ \A i \in 1 .. n + 2 : i \in 1 .. n \/ i = n + 1 \/ i = n + 2
  BY <1>7 DEF Between, Begun
<1> HIDE DEF t, n
<1>9. EndedWith(t, reason)
  <2>1. t # <<>> /\ t[1].kind = "message_start"
    BY <1>7, <1>8 DEF Between, Begun
  <2>2. \A i \in DOMAIN t : t[i].kind = "message_stop" <=> i = Len(t)
    <3>1. ASSUME NEW i \in 1 .. n
          PROVE  t[i].kind # "message_stop" /\ i # n + 2
      BY <1>7, <1>8 DEF Unended
    <3> QED BY <3>1, <1>3, <1>7, <1>8
  <2>3. \A i \in DOMAIN t : t[i].kind = "message_delta" => t[i].reason = reason
    <3>1. ASSUME NEW i \in 1 .. n
          PROVE  t[i].kind # "message_delta"
      BY <1>7, <1>8 DEF Unended
    <3> QED BY <3>1, <1>3, <1>7, <1>8
  <2> QED BY <1>7, <2>1, <2>2, <2>3 DEF EndedWith, Begun
<1>10. HasCall(t) <=> HasCall(s)
  <2>1. \A i \in 1 .. n : i \in 1 .. n + 2
    BY <1>8
  <2> QED BY <2>1, <1>3, <1>7, <1>8 DEF HasCall
<1> QED BY <1>1, <1>9, <1>10 DEF t

(* One event of a block more. *)
LEMMA OneMore ==
    ASSUME NEW s, Begun(s), Unended(s), ~HasCall(s), NEW e \in Event,
           Anthropic!Follows(s[Len(s)], e), e.kind \in {"start", "delta", "stop"},
           e.kind = "start" => e.type # "tool_use"
    PROVE  LET t == s \o <<e>> IN
           Begun(t) /\ Unended(t) /\ ~HasCall(t) /\ t[Len(t)] = e
<1> DEFINE u == <<e>>
           t == s \o u
           n == Len(s)
<1>1. u \in Seq(Event) /\ u # <<>> /\ Len(u) = 1 /\ u[1] = e /\ DOMAIN u = 1 .. 1
  OBVIOUS
<1> HIDE DEF u
<1>2. Chained(u)
  <2>1. \A i \in 2 .. 1 : FALSE
    OBVIOUS
  <2> QED BY <1>1, <2>1 DEF Chained
<1>3. s \in Seq(Event) /\ s # <<>> /\ Chained(s) /\ s[1].kind = "message_start"
  BY DEF Begun
<1>4. /\ t \in Seq(Event) /\ Len(t) = n + 1 /\ Chained(t)
      /\ \A i \in DOMAIN s : t[i] = s[i]
      /\ t[n + 1] = e
  <2>1. /\ t \in Seq(Event) /\ Len(t) = n + Len(u) /\ Chained(t)
        /\ \A i \in DOMAIN s : t[i] = s[i]
        /\ \A i \in DOMAIN u : t[n + i] = u[i]
    BY <1>1, <1>2, <1>3, Glued
  <2>2. 1 \in DOMAIN u
    BY <1>1
  <2> QED BY <2>1, <2>2, <1>1
<1>5. /\ n \in Nat /\ n >= 1 /\ DOMAIN s = 1 .. n /\ DOMAIN t = 1 .. n + 1
      /\ \A i \in 1 .. n + 1 : i \in 1 .. n \/ i = n + 1
  BY <1>3, <1>4
<1> HIDE DEF t, n
<1>6. t # <<>> /\ t[1] = s[1]
  BY <1>4, <1>5
<1>7. Begun(t)
  BY <1>3, <1>4, <1>6 DEF Begun
<1>8. Unended(t)
  BY <1>4, <1>5 DEF Unended
<1>9. ~HasCall(t)
  BY <1>4, <1>5 DEF HasCall
<1> QED BY <1>4, <1>7, <1>8, <1>9 DEF t, u

LEMMA NothingMore == ASSUME NEW s, Begun(s) PROVE s \o <<>> = s
<1>1. s \in Seq(Event)
  BY DEF Begun
<1> QED BY <1>1

(* The blocks of an extraction and the end of the message. *)
LEMMA MessageEnds ==
    ASSUME NEW b \in Index, NEW s, Between(s, b), Unended(s), ~HasCall(s),
           NEW tools \in Nat, NEW said \in BOOLEAN
    PROVE  LET x == [tools |-> tools, text |-> said]
               t == s \o Anthropic!Blocks(b, x) \o Anthropic!EndMessage(Anthropic!Reason(x)) IN
           EndedWith(t, Anthropic!Reason(x)) /\ (HasCall(t) <=> Anthropic!Reason(x) = "tool_use")
<1> DEFINE x == [tools |-> tools, text |-> said]
           reason == Anthropic!Reason(x)
           c == b + (IF said THEN 1 ELSE 0) + tools
           u == s \o Anthropic!Blocks(b, x)
           t == u \o Anthropic!EndMessage(reason)
<1>1. c \in Index
  BY DEF Index
<1>2. \/ Anthropic!Blocks(b, x) = <<>> /\ ~said /\ tools = 0
      \/ Run(Anthropic!Blocks(b, x), b + 1, c) /\ (HasCall(Anthropic!Blocks(b, x)) <=> tools > 0)
  BY BlocksRun
<1>3. reason \in Anthropic!StopReason /\ (reason = "tool_use" <=> tools > 0)
  BY DEF Anthropic!Reason, Anthropic!StopReason
<1> HIDE DEF x, reason
<1>4. \E d \in Index : Between(u, d) /\ Unended(u) /\ (HasCall(u) <=> tools > 0)
  <2>1. CASE Anthropic!Blocks(b, x) = <<>> /\ ~said /\ tools = 0
    <3>1. u = s
      BY <2>1, NothingMore DEF Between
    <3> QED BY <2>1, <3>1
  <2>2. CASE Run(Anthropic!Blocks(b, x), b + 1, c) /\ (HasCall(Anthropic!Blocks(b, x)) <=> tools > 0)
    <3> HIDE DEF c
    <3>1. Between(u, c) /\ Unended(u) /\ (HasCall(u) <=> HasCall(s) \/ HasCall(Anthropic!Blocks(b, x)))
      BY <1>1, <2>2, RunAfter
    <3> QED BY <1>1, <2>2, <3>1
  <2> QED BY <1>2, <2>1, <2>2
<1>5. PICK d \in Index : Between(u, d) /\ Unended(u) /\ (HasCall(u) <=> tools > 0)
  BY <1>4
<1> HIDE DEF u
<1>6. EndedWith(t, reason) /\ (HasCall(t) <=> HasCall(u))
  BY <1>3, <1>5, EndAfter
<1>7. HasCall(t) <=> reason = "tool_use"
  BY <1>3, <1>5, <1>6
<1> QED BY <1>6, <1>7 DEF reason, x, u

-----------------------------------------------------------------------------
(* A streamed message: the inductive invariant *)

(* The block of thinking is open and holds what was relayed. *)
InThinking(s, b) ==
    LET last == s[Len(s)] IN
    Begun(s) /\ b \in Nat /\ last.kind = "delta" /\ last.index = b /\ last.what = "thinking_delta"

AnthropicInv ==
    /\ Anthropic!TypeOK /\ Ahead
    /\ Begun(written)
    /\ phase = "reading" => IF open THEN InThinking(written, block) ELSE Between(written, block)
    /\ phase = "repairing" => Between(written, block) /\ ~open
    /\ phase # "ended" => Unended(written) /\ ~HasCall(written)
    /\ phase = "ended" => \E reason \in Anthropic!StopReason :
                             EndedWith(written, reason) /\ (HasCall(written) <=> reason = "tool_use")

LEMMA AnthropicProtocol ==
    ASSUME AnthropicInv
    PROVE  Anthropic!TypeOK /\ Anthropic!BlockProtocol /\ Anthropic!StopMatchesBlocks
<1>1. Anthropic!TypeOK /\ Anthropic!BlockProtocol
  BY DEF AnthropicInv, Begun, Chained, Anthropic!BlockProtocol
<1>2. written \in Seq(Event) /\ written # <<>>
  BY DEF AnthropicInv, Begun
<1>3. Len(written) \in DOMAIN written
  BY <1>2
<1>4. CASE phase # "ended"
  <2>1. Unended(written)
    BY <1>4 DEF AnthropicInv
  <2>2. Anthropic!IsKind("message_stop") = {} /\ Anthropic!IsKind("message_delta") = {}
    BY <2>1 DEF Unended, Anthropic!IsKind
  <2> QED BY <1>1, <1>4, <2>2 DEF Anthropic!StopMatchesBlocks
<1>5. CASE phase = "ended"
  <2>1. PICK reason \in Anthropic!StopReason :
           EndedWith(written, reason) /\ (HasCall(written) <=> reason = "tool_use")
    BY <1>5 DEF AnthropicInv
  <2>2. Anthropic!IsKind("message_stop") = {Len(written)}
    BY <2>1, <1>3 DEF EndedWith, Anthropic!IsKind
  <2>3. HasCall(written)
          <=> {i \in Anthropic!IsKind("start") : written[i].type = "tool_use"} # {}
    BY DEF HasCall, Anthropic!IsKind
  <2>4. \A i \in Anthropic!IsKind("message_delta") : written[i].reason = reason
    BY <2>1 DEF EndedWith, Anthropic!IsKind
  <2> QED BY <1>1, <1>5, <2>1, <2>2, <2>3, <2>4 DEF Anthropic!StopMatchesBlocks
<1> QED BY <1>4, <1>5

(* The event stream is the same for both surfaces. *)
LEMMA SameStream ==
    /\ Anthropic!StreamTypeOK <=> StreamTypeOK
    /\ Anthropic!Upstream <=> Upstream
    /\ Anthropic!Read <=> Read
    /\ Anthropic!SkipLine <=> SkipLine
    /\ Anthropic!YieldDone <=> YieldDone
    /\ Anthropic!Delta = Delta
    /\ UNCHANGED Anthropic!streamVars <=> UNCHANGED streamVars
    /\ Anthropic!StreamInit <=> StreamInit
<1>1. /\ UNCHANGED Anthropic!streamVars <=> UNCHANGED streamVars
      /\ Anthropic!Delta = Delta /\ Anthropic!Line = Line
  BY DEF Anthropic!streamVars, Anthropic!upstreamVars, Anthropic!parserVars, Anthropic!Delta,
         Anthropic!Line, streamVars, upstreamVars, parserVars, Delta, Line
<1>2. Anthropic!StreamTypeOK <=> StreamTypeOK
  BY <1>1 DEF Anthropic!StreamTypeOK, StreamTypeOK
<1>3. Anthropic!Upstream <=> Upstream
  <2>1. ASSUME NEW p, NEW n, NEW finish
        PROVE  Anthropic!Send(p, n, finish) <=> Send(p, n, finish)
    BY DEF Anthropic!Send, Send
  <2>2. ASSUME NEW how
        PROVE  Anthropic!BodyStops(how) <=> BodyStops(how)
    BY DEF Anthropic!BodyStops, BodyStops, Anthropic!parserVars, parserVars
  <2> QED BY <2>1, <2>2 DEF Anthropic!Upstream, Upstream
<1>4. Anthropic!Read <=> Read
  BY DEF Anthropic!Read, Anthropic!ReadChunk, Anthropic!Whole, Anthropic!upstreamVars,
         Read, ReadChunk, Whole, upstreamVars
<1>5. (Anthropic!SkipLine <=> SkipLine) /\ (Anthropic!YieldDone <=> YieldDone)
  BY DEF Anthropic!SkipLine, Anthropic!YieldDone, Anthropic!Grows, Anthropic!upstreamVars,
         SkipLine, YieldDone, Grows, upstreamVars
<1>6. Anthropic!StreamInit <=> StreamInit
  BY DEF Anthropic!StreamInit, StreamInit
<1> QED BY <1>1, <1>2, <1>3, <1>4, <1>5, <1>6

LEMMA SameYield ==
    ASSUME NEW d
    PROVE  Anthropic!YieldDelta(d) <=> YieldDelta(d)
BY DEF Anthropic!YieldDelta, Anthropic!Grows, Anthropic!upstreamVars, YieldDelta, Grows, upstreamVars

Typed ==
    /\ StreamTypeOK /\ phase \in Anthropic!Phase /\ block \in Index /\ open \in BOOLEAN
    /\ buffer \in Seq(Delta) /\ written \in Seq(Event)

LEMMA AnthropicTyped == Anthropic!TypeOK <=> Typed
BY SameStream DEF Anthropic!TypeOK, Typed, Index, Event

LEMMA AnthropicStarts == Anthropic!Init => AnthropicInv
<1> SUFFICES ASSUME Anthropic!Init PROVE AnthropicInv
  OBVIOUS
<1> DEFINE e == [kind |-> "message_start"]
<1>1. /\ phase = "reading" /\ block = -1 /\ buffer = <<>> /\ written = <<e>> /\ StreamInit
  BY SameStream DEF Anthropic!Init
<1>2. open = FALSE
  BY DEF Anthropic!Init
<1>3. e \in Event /\ e.kind = "message_start"
  BY DEF Event, Anthropic!Event
<1> HIDE DEF e
<1>4. written \in Seq(Event) /\ written # <<>> /\ Len(written) = 1 /\ written[1] = e
      /\ DOMAIN written = 1 .. 1
  BY <1>1, <1>3
<1>5. Begun(written)
  <2>1. \A i \in 2 .. 1 : FALSE
    OBVIOUS
  <2>2. Chained(written)
    BY <1>4, <2>1 DEF Chained
  <2> QED BY <1>3, <1>4, <2>2 DEF Begun
<1>6. Between(written, block) /\ Unended(written) /\ ~HasCall(written)
  BY <1>1, <1>3, <1>4, <1>5 DEF Between, Unended, HasCall
<1>7. StreamInv
  BY <1>1, StreamStarts
<1>8. open \in BOOLEAN
  BY <1>2
<1>9. phase \in Anthropic!Phase /\ block \in Index /\ buffer \in Seq(Delta)
  BY <1>1 DEF Anthropic!Phase, Index
<1>10. Anthropic!TypeOK
  BY <1>4, <1>7, <1>8, <1>9, AnthropicTyped DEF StreamInv, Typed
<1> QED BY <1>1, <1>2, <1>5, <1>6, <1>7, <1>10 DEF AnthropicInv, StreamInv

(* The handler stays where it is, or leaves the message as it is. *)
LEMMA AnthropicRests ==
    ASSUME AnthropicInv, StreamInv', UNCHANGED <<block, open, written>>, buffer' \in Seq(Delta),
           phase' = phase \/ (phase = "reading" /\ phase' = "left")
    PROVE  AnthropicInv'
<1>1. /\ StreamTypeOK /\ phase \in Anthropic!Phase /\ block \in Index /\ open \in BOOLEAN
      /\ buffer \in Seq(Delta) /\ written \in Seq(Event)
  BY AnthropicTyped DEF AnthropicInv, Typed
<1>2. phase' \in Anthropic!Phase
  BY <1>1 DEF Anthropic!Phase
<1>3. (Anthropic!TypeOK)'
  <2>1. Typed'
    BY <1>1, <1>2 DEF StreamInv, Typed
  <2> QED BY <2>1, AnthropicTyped, PTL
<1> QED BY <1>3 DEF AnthropicInv, StreamInv

(* An ended message is right whatever extraction it was ended for. *)
LEMMA AnthropicEnds ==
    ASSUME AnthropicInv, StreamInv', buffer' \in Seq(Delta), open' \in BOOLEAN, block' \in Index,
           phase' = "ended", NEW s, Between(s, block), Unended(s), ~HasCall(s),
           NEW tools \in Nat, NEW said \in BOOLEAN,
           written' = s \o Anthropic!Blocks(block, [tools |-> tools, text |-> said])
                        \o Anthropic!EndMessage(Anthropic!Reason([tools |-> tools, text |-> said]))
    PROVE  AnthropicInv'
<1> DEFINE x == [tools |-> tools, text |-> said]
           reason == Anthropic!Reason(x)
<1>1. block \in Index
  BY AnthropicTyped DEF AnthropicInv, Typed
<1>2. EndedWith(written', reason) /\ (HasCall(written') <=> reason = "tool_use")
  BY <1>1, MessageEnds
<1>3. reason \in Anthropic!StopReason
  BY DEF Anthropic!Reason, Anthropic!StopReason
<1>4. (Anthropic!TypeOK)'
  <2>1. Typed'
    BY <1>2 DEF StreamInv, Typed, EndedWith, Begun, Anthropic!Phase
  <2> QED BY <2>1, AnthropicTyped, PTL
<1> HIDE DEF reason
<1>5. Begun(written')
  BY <1>2 DEF EndedWith
<1>6. \E r \in Anthropic!StopReason : EndedWith(written', r) /\ (HasCall(written') <=> r = "tool_use")
  BY <1>2, <1>3
<1> QED BY <1>4, <1>5, <1>6 DEF AnthropicInv, StreamInv

(* Closing the block that is open, if one is. *)
LEMMA OpenClosed ==
    ASSUME AnthropicInv, phase = "reading"
    PROVE  LET s == written \o Anthropic!CloseOpen IN
           Between(s, block) /\ Unended(s) /\ ~HasCall(s)
<1>1. Begun(written) /\ Unended(written) /\ ~HasCall(written) /\ open \in BOOLEAN
  BY AnthropicTyped DEF AnthropicInv, Typed
<1>2. CASE open
  <2> DEFINE e == Anthropic!Stop(block)
  <2>1. InThinking(written, block)
    BY <1>2 DEF AnthropicInv
  <2>2. e \in Event /\ e.kind = "stop" /\ e.index = block
    BY <2>1 DEF InThinking, Event, Anthropic!Event, Anthropic!Stop
  <2> HIDE DEF e
  <2>3. Anthropic!Follows(written[Len(written)], e)
    BY <2>1, <2>2 DEF InThinking, Anthropic!Follows
  <2>4. LET t == written \o <<e>> IN Begun(t) /\ Unended(t) /\ ~HasCall(t) /\ t[Len(t)] = e
    BY <1>1, <2>2, <2>3, OneMore
  <2>5. Anthropic!CloseOpen = <<e>>
    BY <1>2 DEF Anthropic!CloseOpen, e
  <2> QED BY <2>2, <2>4, <2>5 DEF Between
<1>3. CASE ~open
  <2>1. Between(written, block)
    BY <1>3 DEF AnthropicInv
  <2>2. Anthropic!CloseOpen = <<>>
    BY <1>3 DEF Anthropic!CloseOpen
  <2>3. written \o Anthropic!CloseOpen = written
    BY <1>1, <2>2, NothingMore
  <2> QED BY <1>1, <2>1, <2>3
<1> QED BY <1>1, <1>2, <1>3

(* Thinking opens a block, unless one is open, and goes into it. *)
LEMMA ThinkingStep ==
    ASSUME AnthropicInv, StreamInv', phase = "reading", Anthropic!OnThinking
    PROVE  AnthropicInv'
<1>1. /\ Begun(written) /\ Unended(written) /\ ~HasCall(written) /\ open \in BOOLEAN
      /\ block \in Index /\ buffer \in Seq(Delta)
  BY AnthropicTyped DEF AnthropicInv, Typed
<1>2. /\ open' = TRUE /\ UNCHANGED <<phase, buffer>>
      /\ block' = IF open THEN block ELSE block + 1
      /\ written' = written \o (IF open THEN <<>> ELSE <<Anthropic!Start(block', "thinking")>>)
                            \o <<Anthropic!Fill(block', "thinking_delta")>>
  BY DEF Anthropic!OnThinking
<1> DEFINE u == written \o (IF open THEN <<>> ELSE <<Anthropic!Start(block', "thinking")>>)
           e == Anthropic!Fill(block', "thinking_delta")
<1>3. block' \in Nat
  BY <1>1, <1>2 DEF AnthropicInv, InThinking, Index
<1>4. e \in Event /\ e.kind = "delta" /\ e.index = block' /\ e.what = "thinking_delta"
  BY <1>3 DEF Event, Anthropic!Event, Anthropic!Fill
<1>5. Begun(u) /\ Unended(u) /\ ~HasCall(u) /\ Anthropic!Follows(u[Len(u)], e)
  <2>1. CASE open
    <3>1. InThinking(written, block) /\ block' = block
      BY <1>2, <2>1 DEF AnthropicInv
    <3>2. u = written
      BY <1>1, <2>1, NothingMore
    <3>3. Anthropic!Follows(written[Len(written)], e)
      BY <1>4, <3>1 DEF InThinking, Anthropic!Follows
    <3> QED BY <1>1, <3>2, <3>3
  <2>2. CASE ~open
    <3> DEFINE f == Anthropic!Start(block', "thinking")
    <3>1. f \in Event /\ f.kind = "start" /\ f.index = block' /\ f.type = "thinking"
      BY <1>3 DEF Event, Anthropic!Event, Anthropic!Start
    <3>2. Between(written, block) /\ block' = block + 1
      BY <1>2, <2>2 DEF AnthropicInv
    <3>3. u = written \o <<f>>
      BY <2>2
    <3> HIDE DEF f, u, e
    <3>4. Anthropic!Follows(written[Len(written)], f)
      BY <3>1, <3>2, <1>1 DEF Between, Anthropic!Follows
    <3>5. Begun(u) /\ Unended(u) /\ ~HasCall(u) /\ u[Len(u)] = f
      BY <1>1, <3>1, <3>3, <3>4, OneMore
    <3>6. Anthropic!Follows(f, e)
      BY <1>4, <3>1 DEF Anthropic!Follows, Anthropic!Holds
    <3> QED BY <3>5, <3>6
  <2> QED BY <1>1, <2>1, <2>2
<1>6. written' = u \o <<e>>
  BY <1>2
<1> HIDE DEF u, e
<1>7. Begun(written') /\ Unended(written') /\ ~HasCall(written') /\ written'[Len(written')] = e
  BY <1>4, <1>5, <1>6, OneMore
<1>8. InThinking(written', block')
  BY <1>3, <1>4, <1>7 DEF InThinking
<1>9. (Anthropic!TypeOK)'
  <2>1. open' \in BOOLEAN
    BY <1>2
  <2>2. Typed'
    BY <2>1, <1>1, <1>2, <1>3, <1>7 DEF StreamInv, Typed, Begun, Index, Anthropic!Phase
  <2> QED BY <2>2, AnthropicTyped, PTL
<1> QED BY <1>2, <1>7, <1>8, <1>9 DEF AnthropicInv, StreamInv

LEMMA ExtractionShape ==
    ASSUME NEW x, x \in Anthropic!Extraction \/ x = [tools |-> 0, text |-> FALSE]
    PROVE  \E tools \in Nat, said \in BOOLEAN : x = [tools |-> tools, text |-> said]
<1>1. CASE x \in Anthropic!Extraction
  BY <1>1, ToolBound DEF Anthropic!Extraction
<1>2. CASE x = [tools |-> 0, text |-> FALSE]
  BY <1>2
<1> QED BY <1>1, <1>2

LEMMA FinishPlace ==
    ASSUME NEW tools \in Nat, NEW said \in BOOLEAN, block \in Index,
           Anthropic!Finish([tools |-> tools, text |-> said])
    PROVE  phase' = "ended" /\ block' \in Index
BY DEF Anthropic!Finish, Index

LEMMA AnthropicDone ==
    ASSUME AnthropicInv, Anthropic!OnDone
    PROVE  AnthropicInv'
<1>1. /\ phase = "reading" /\ YieldDone /\ open' = FALSE /\ buffer' = buffer
      /\ StreamInv /\ block \in Index /\ buffer \in Seq(Delta)
  BY SameStream, AnthropicTyped DEF Anthropic!OnDone, AnthropicInv, StreamInv, Typed
<1>2. StreamInv' /\ open' \in BOOLEAN
  BY <1>1, DoneShowsAll
<1> DEFINE s == written \o Anthropic!CloseOpen
<1>3. Between(s, block) /\ Unended(s) /\ ~HasCall(s)
  BY <1>1, OpenClosed
<1>4. ASSUME NEW x \in IF buffer = <<>> THEN {[tools |-> 0, text |-> FALSE]} ELSE Anthropic!Extraction,
             Anthropic!Finish(x),
             written' = s \o Anthropic!Blocks(block, x) \o Anthropic!EndMessage(Anthropic!Reason(x))
      PROVE  AnthropicInv'
  <2>1. x \in Anthropic!Extraction \/ x = [tools |-> 0, text |-> FALSE]
    OBVIOUS
  <2>2. PICK tools \in Nat, said \in BOOLEAN : x = [tools |-> tools, text |-> said]
    BY <2>1, ExtractionShape
  <2>3. phase' = "ended" /\ block' \in Index
    BY <1>1, <1>4, <2>2, FinishPlace
  <2> HIDE DEF s
  <2>4. written' = s \o Anthropic!Blocks(block, [tools |-> tools, text |-> said])
                     \o Anthropic!EndMessage(Anthropic!Reason([tools |-> tools, text |-> said]))
    BY <1>4, <2>2
  <2>5. buffer' \in Seq(Delta)
    BY <1>1
  <2> QED BY <1>2, <1>3, <2>3, <2>4, <2>5, AnthropicEnds
<1>5. CASE phase' = "repairing" /\ block' = block /\ written' = s
  <2>1. Between(written', block') /\ Unended(written') /\ ~HasCall(written')
    BY <1>3, <1>5
  <2>2. (Anthropic!TypeOK)'
    <3>1. Typed'
      BY <1>1, <1>2, <1>5, <2>1 DEF Typed, StreamInv, Between, Begun, Anthropic!Phase
    <3> QED BY <3>1, AnthropicTyped, PTL
  <2>3. Begun(written')
    BY <2>1 DEF Between
  <2> QED BY <1>1, <1>2, <1>5, <2>1, <2>2, <2>3 DEF AnthropicInv, StreamInv
<1> QED BY <1>4, <1>5 DEF Anthropic!OnDone

LEMMA AnthropicRepaired ==
    ASSUME AnthropicInv, Anthropic!RepairAnswers
    PROVE  AnthropicInv'
<1>1. /\ phase = "repairing" /\ UNCHANGED <<open, buffer>> /\ UNCHANGED streamVars
      /\ StreamInv /\ block \in Index /\ buffer \in Seq(Delta) /\ open \in BOOLEAN
  BY SameStream, AnthropicTyped DEF Anthropic!RepairAnswers, AnthropicInv, StreamInv, Typed
<1>2. StreamInv'
  BY <1>1, StreamStands
<1>3. Between(written, block) /\ Unended(written) /\ ~HasCall(written)
  BY <1>1 DEF AnthropicInv
<1>4. PICK x \in Anthropic!Extraction :
         /\ Anthropic!Finish(x)
         /\ written' = written \o Anthropic!Blocks(block, x) \o Anthropic!EndMessage(Anthropic!Reason(x))
  BY DEF Anthropic!RepairAnswers
<1>5. PICK tools \in Nat, said \in BOOLEAN : x = [tools |-> tools, text |-> said]
  BY ExtractionShape
<1>6. phase' = "ended" /\ block' \in Index
  BY <1>1, <1>4, <1>5, FinishPlace
<1>7. written' = written \o Anthropic!Blocks(block, [tools |-> tools, text |-> said])
                   \o Anthropic!EndMessage(Anthropic!Reason([tools |-> tools, text |-> said]))
  BY <1>4, <1>5
<1>8. buffer' \in Seq(Delta) /\ open' \in BOOLEAN
  BY <1>1
<1> QED BY <1>2, <1>3, <1>6, <1>7, <1>8, AnthropicEnds

(* The end of the body without a done event: the open block is closed, the  *)
(* reason is that of a message without calls.                               *)
LEMMA AnthropicBodyEnds ==
    ASSUME AnthropicInv, Anthropic!BodyEnds
    PROVE  AnthropicInv'
<1>1. /\ phase = "reading" /\ UNCHANGED <<block, open, buffer>> /\ UNCHANGED streamVars
      /\ phase' = "ended"
      /\ written' = written \o Anthropic!CloseOpen \o Anthropic!EndMessage("end_turn")
      /\ StreamInv /\ block \in Index /\ buffer \in Seq(Delta) /\ open \in BOOLEAN
  BY SameStream, AnthropicTyped
     DEF Anthropic!BodyEnds, Anthropic!BodyIsRead, AnthropicInv, StreamInv, Typed
<1>2. StreamInv'
  BY <1>1, StreamStands
<1> DEFINE s == written \o Anthropic!CloseOpen
<1>3. Between(s, block) /\ Unended(s) /\ ~HasCall(s)
  BY <1>1, OpenClosed
<1>4. written' = s \o Anthropic!EndMessage("end_turn") /\ "end_turn" \in Anthropic!StopReason
  BY <1>1 DEF Anthropic!StopReason
<1> HIDE DEF s
<1>5. EndedWith(written', "end_turn") /\ ~HasCall(written')
  BY <1>1, <1>3, <1>4, EndAfter
<1>6. Begun(written')
  BY <1>5 DEF EndedWith
<1>7. (Anthropic!TypeOK)'
  <2>1. Typed'
    BY <1>1, <1>2, <1>6 DEF Typed, StreamInv, Begun, Anthropic!Phase
  <2> QED BY <2>1, AnthropicTyped, PTL
<1>8. \E r \in Anthropic!StopReason : EndedWith(written', r) /\ (HasCall(written') <=> r = "tool_use")
  <2>1. ~("end_turn" = "tool_use")
    OBVIOUS
  <2> QED BY <1>4, <1>5, <2>1
<1> QED BY <1>1, <1>2, <1>6, <1>7, <1>8 DEF AnthropicInv, StreamInv

LEMMA AnthropicStepHolds == AnthropicInv /\ [Anthropic!Next]_(Anthropic!vars) => AnthropicInv'
<1> SUFFICES ASSUME AnthropicInv, [Anthropic!Next]_(Anthropic!vars) PROVE AnthropicInv'
  OBVIOUS
<1>0. StreamInv /\ buffer \in Seq(Delta)
  BY AnthropicTyped DEF AnthropicInv, StreamInv, Typed
<1>1. CASE Anthropic!Upstream /\ UNCHANGED Anthropic!handlerVars
  <2>1. UNCHANGED <<phase, block, open, buffer, written>>
    BY <1>1 DEF Anthropic!handlerVars
  <2>2. StreamInv'
    BY <1>0, <1>1, SameStream, UpstreamAhead
  <2> QED BY <1>0, <2>1, <2>2, AnthropicRests
<1>2. CASE Anthropic!OnRead
  <2>1. UNCHANGED <<phase, block, open, buffer, written>> /\ Read
    BY <1>2, SameStream DEF Anthropic!OnRead, Anthropic!handlerVars
  <2>2. StreamInv'
    BY <1>0, <2>1, ReadAhead
  <2> QED BY <1>0, <2>1, <2>2, AnthropicRests
<1>3. CASE Anthropic!OnSkip
  <2>1. UNCHANGED <<phase, block, open, buffer, written>> /\ SkipLine
    BY <1>3, SameStream DEF Anthropic!OnSkip, Anthropic!handlerVars
  <2>2. StreamInv'
    BY <1>0, <2>1, SkipAhead
  <2> QED BY <1>0, <2>1, <2>2, AnthropicRests
<1>4. CASE Anthropic!OnDelta
  <2>1. PICK d \in Delta :
           /\ YieldDelta(d)
           /\ \/ Anthropic!OnThinking
              \/ buffer' = Append(buffer, d) /\ UNCHANGED <<phase, block, open, written>>
    BY <1>4, SameStream, SameYield DEF Anthropic!OnDelta
  <2>2. StreamInv' /\ phase = "reading"
    BY <1>0, <1>4, <2>1, YieldAhead DEF Anthropic!OnDelta
  <2>3. CASE Anthropic!OnThinking
    BY <2>2, <2>3, ThinkingStep
  <2>4. CASE buffer' = Append(buffer, d) /\ UNCHANGED <<phase, block, open, written>>
    <3>1. buffer' \in Seq(Delta)
      BY <1>0, <2>4
    <3> QED BY <2>2, <2>4, <3>1, AnthropicRests
  <2> QED BY <2>1, <2>3, <2>4
<1>5. CASE Anthropic!OnDone
  BY <1>5, AnthropicDone
<1>6. CASE Anthropic!BodyEnds
  BY <1>6, AnthropicBodyEnds
<1>7. CASE Anthropic!ReadFails
  <2>1. /\ phase = "reading" /\ phase' = "left" /\ UNCHANGED <<block, open, buffer, written>>
        /\ UNCHANGED streamVars
    BY <1>7, SameStream DEF Anthropic!ReadFails, Anthropic!BodyThrows
  <2> QED BY <1>0, <2>1, StreamStands, AnthropicRests
<1>8. CASE Anthropic!RepairAnswers
  BY <1>8, AnthropicRepaired
<1>9. CASE UNCHANGED Anthropic!vars
  <2>1. UNCHANGED <<phase, block, open, buffer, written>> /\ UNCHANGED streamVars
    BY <1>9, SameStream DEF Anthropic!vars, Anthropic!handlerVars
  <2> QED BY <1>0, <2>1, StreamStands, AnthropicRests
<1> QED BY <1>1, <1>2, <1>3, <1>4, <1>5, <1>6, <1>7, <1>8, <1>9
        DEF Anthropic!Next, Anthropic!Handler, Anthropic!Ended

-----------------------------------------------------------------------------
(* Theorems *)

NodeInv ==
    /\ part = "openai" => OpenAIInv
    /\ part = "anthropic" => AnthropicInv

LEMMA NodeStarts == NodeInit => NodeInv
BY OpenAIStarts, AnthropicStarts DEF NodeInit, NodeInv, OpenAIInit, AnthropicInit

LEMMA NodeStepHolds == NodeInv /\ [NodeNext]_<<part, nodeVars>> => NodeInv'
<1> SUFFICES ASSUME NodeInv, [NodeNext]_<<part, nodeVars>> PROVE NodeInv'
  OBVIOUS
<1>1. CASE OpenAIStep(Next)
  BY <1>1, OpenAIStepHolds DEF OpenAIStep, NodeInv
<1>2. CASE AnthropicStep(Anthropic!Next)
  BY <1>2, AnthropicStepHolds DEF AnthropicStep, NodeInv
<1>3. CASE UNCHANGED <<part, nodeVars>>
  <2>1. UNCHANGED vars /\ UNCHANGED Anthropic!vars /\ part' = part
    BY <1>3, SameStream DEF nodeVars, vars, handlerVars, Anthropic!vars, Anthropic!handlerVars, streamVars
  <2> QED BY <2>1, OpenAIStepHolds, AnthropicStepHolds DEF NodeInv
<1> QED BY <1>1, <1>2, <1>3 DEF NodeNext

LEMMA NodeInvHolds == NodeSpec => []NodeInv
<1>1. NodeInit => NodeInv
  BY NodeStarts
<1>2. NodeInv /\ [NodeNext]_<<part, nodeVars>> => NodeInv'
  BY NodeStepHolds
<1> QED BY <1>1, <1>2, PTL DEF NodeSpec

(* However the network cuts the stream, the repair agent answers or the     *)
(* client leaves: the chunks of a completion keep their order, and none of  *)
(* the single ones comes twice (openai.js:262-349).                         *)
THEOREM CompletionOrderCorrect == NodeSpec => []CompletionOrder
<1>1. NodeInv => CompletionOrder
  BY DEF NodeInv, CompletionOrder, OpenAIInv
<1> QED BY <1>1, NodeInvHolds, PTL

(* A completion that is ended with [DONE] has relayed or collected all that *)
(* chatglm.cn wrote, in order, each character once (chat.js:358-399,        *)
(* openai.js:277-292).                                                      *)
THEOREM CompletionWholeCorrect == NodeSpec => []CompletionWhole
<1>1. NodeInv => CompletionWhole
  BY DEF NodeInv, CompletionWhole, OpenAIInv, WholeText, Terminated, Tiled
<1> QED BY <1>1, NodeInvHolds, PTL

(* The blocks of a message are numbered and nested as the protocol has it,  *)
(* and its stop reason is that of its blocks, at every moment of the stream *)
(* (anthropic.js:524-654).                                                  *)
THEOREM BlockProtocolCorrect == NodeSpec => []BlockProtocol
<1>1. NodeInv => BlockProtocol
  BY AnthropicProtocol DEF NodeInv, BlockProtocol
<1> QED BY <1>1, NodeInvHolds, PTL

=============================================================================
