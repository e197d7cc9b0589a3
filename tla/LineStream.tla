------------------------------ MODULE LineStream ------------------------------
(***************************************************************************)
(* internal/sse and internal/stream: the reader of a completion body.  One  *)
(* goroutine parses its lines and gathers small increments for a moment     *)
(* (StartParsedLinePump); the handler takes what they make from a channel   *)
(* beside its timer and the end of the request (ConsumeSSE), and drops what *)
(* a continued answer repeats (StreamAccumulator).                          *)
(*                                                                         *)
(* Reasoning is wanted; citations, markers and </think> inside a part are   *)
(* left out, and so is that channels may be full.                           *)
(***************************************************************************)
EXTENDS ContinuedBody, Subsequences

CONSTANTS
    MaxKeepAlive,  \* MaxKeepaliveCount
    MaxLag         \* bound: lines in the pipe that are not parsed yet

VARIABLES
    scanned,     \* lines that were parsed
    currentType, \* of a line that does not say
    buffered,    \* characters not sent on yet, by kind
    pendingId,   \* pendingResponseMessageID
    channel,     \* results not taken yet
    linesEnd,    \* "none", or how the lines ended: "eof" or "error"
    seen,        \* what the handler has been given
    messageId,   \* responseMessageID
    ticks,       \* keepaliveCount
    engine       \* "running", or the reason to stop

lineVars == <<scanned, currentType, buffered, pendingId, channel, linesEnd,
              seen, messageId, ticks, engine>>
readerVars == <<bodyVars, lineVars>>

Nothing == [thinking |-> <<>>, text |-> <<>>]
Result(b, id, stop) == [thinking |-> b.thinking, text |-> b.text, id |-> id, stop |-> stop]

LineInit ==
    /\ BodyInit
    /\ scanned = 0 /\ currentType = "thinking" /\ buffered = Nothing /\ pendingId = 0
    /\ channel = <<>> /\ linesEnd = "none" /\ seen = <<>> /\ messageId = 0
    /\ ticks = 0 /\ engine = "running"

----------------------------------------------------------------------------
(* The goroutine of the lines. *)

(* ParseDeepSeekContentLine: whether a line stops the stream. *)
StopOf(line) ==
    CASE line.sign = "error" -> "error"
      [] line.status = "CONTENT_FILTER" -> "filter"
      [] line.sign = "done" \/ (line.status = "FINISHED" /\ ~line.quasi) -> "finished"
      [] OTHER -> "none"

KindOf(line) == IF line.kind = "none" THEN currentType ELSE line.kind

(* flushBuffer: nothing to flush makes no result. *)
Flushed(b, id) == IF b = Nothing THEN <<>> ELSE <<Result(b, id, "none")>>

(* processLine for a line that stops the stream: the buffer is flushed first, *)
(* and takes the id with it.                                                *)
StopLine(stop, id) ==
    /\ channel' = channel \o Flushed(buffered, id)
                          \o <<Result(Nothing, IF stop = "finished" /\ buffered = Nothing THEN id ELSE 0,
                                      stop)>>
    /\ buffered' = Nothing
    /\ pendingId' = IF buffered # Nothing \/ stop = "finished" THEN 0 ELSE id

Buffering(b, kind, chars) ==
    IF kind = "thinking" THEN [b EXCEPT !.thinking = @ \o chars]
    ELSE [b EXCEPT !.text = @ \o chars]

(* processLine for another: reasoning after text sends the text on, and text *)
(* with a line break, or enough of it, goes on at once.                     *)
ContentLine(line, id) ==
    LET kind   == KindOf(line)
        first  == kind = "thinking" /\ line.chars # <<>> /\ buffered.text # <<>>
        before == IF first THEN Flushed(buffered, id) ELSE <<>>
        base   == IF first THEN Nothing ELSE buffered
        after  == IF line.chars = <<>> THEN base ELSE Buffering(base, kind, line.chars)
        id2    == IF first THEN 0 ELSE id
    IN \/ /\ channel' = channel \o before
          /\ buffered' = after /\ pendingId' = id2
       \/ /\ kind = "text" /\ line.chars # <<>>
          /\ channel' = channel \o before \o Flushed(after, id2)
          /\ buffered' = Nothing /\ pendingId' = 0

ReadLine ==
    /\ linesEnd = "none" /\ scanned < Len(piped)
    /\ LET line == piped[scanned + 1]
           id   == IF line.id > 0 THEN line.id ELSE pendingId
       IN /\ currentType' = IF line.chars = <<>> THEN currentType ELSE KindOf(line)
          /\ IF StopOf(line) # "none" THEN StopLine(StopOf(line), id) ELSE ContentLine(line, id)
    /\ scanned' = scanned + 1
    /\ UNCHANGED <<bodyVars, linesEnd, seen, messageId, ticks, engine>>

(* The timer of the buffer. *)
MaxWaitOver ==
    /\ linesEnd = "none" /\ buffered # Nothing
    /\ channel' = channel \o Flushed(buffered, pendingId)
    /\ buffered' = Nothing /\ pendingId' = 0
    /\ UNCHANGED <<bodyVars, scanned, currentType, linesEnd, seen, messageId, ticks, engine>>

(* The pipe is at its end, or the request is over: what is buffered is sent. *)
LinesEnd ==
    /\ linesEnd = "none"
    /\ cancelled \/ (scanned = Len(piped) /\ pump \in {"ended", "failed"})
    /\ linesEnd' = IF pump = "ended" /\ ~cancelled THEN "eof" ELSE "error"
    /\ channel' = channel \o Flushed(buffered, pendingId)
    /\ buffered' = Nothing
    /\ UNCHANGED <<bodyVars, scanned, currentType, pendingId, seen, messageId, ticks, engine>>

----------------------------------------------------------------------------
(* The handler: ConsumeSSE with what its hooks accumulate. *)

(* TrimContinuationOverlap. *)
Trim(existing, incoming) ==
    CASE Len(incoming) < MinSnapshot -> incoming
      [] Len(incoming) > Len(existing) /\ IsPrefix(existing, incoming) ->
           SubSeq(incoming, Len(existing) + 1, Len(incoming))
      [] Len(incoming) < Len(existing) /\ IsPrefix(incoming, existing) -> <<>>
      [] OTHER -> incoming

OfKind(given, kind) ==
    LET some == Picked(given, {i \in DOMAIN given : given[i].kind = kind})
    IN [i \in DOMAIN some |-> some[i].char]

(* StreamAccumulator.Apply, for one part. *)
Apply(given, kind, chars) ==
    LET new == Trim(OfKind(given, kind), chars)
    IN given \o [i \in DOMAIN new |-> [kind |-> kind, char |-> new[i]]]

(* finalize, after which the handler closes the body. *)
Finalize(reason) == engine' = reason /\ closed' = TRUE

(* OnParsed of a chat completion. *)
Receive ==
    /\ engine = "running" /\ ~cancelled /\ channel # <<>>
    /\ LET r == Head(channel) IN
       /\ messageId' = IF r.id > 0 THEN r.id ELSE messageId
       /\ seen' = Apply(Apply(seen, "thinking", r.thinking), "text", r.text)
       /\ CASE r.stop = "none" -> UNCHANGED <<engine, closed>>
            [] r.stop = "finished" -> Finalize("handler_requested")
            [] r.stop = "error" -> Finalize("content_filter")
            [] r.stop = "filter" -> Finalize(IF OfKind(seen, "text") = <<>> THEN "content_filter"
                                             ELSE "handler_requested")
    /\ channel' = Tail(channel)
    /\ UNCHANGED <<answer, round, state, hadDone, piped, pump, cancelled,
                   scanned, currentType, buffered, pendingId, linesEnd, ticks>>

ChannelClosed ==
    /\ engine = "running" /\ ~cancelled /\ channel = <<>> /\ linesEnd # "none"
    /\ Finalize("upstream_completed")
    /\ UNCHANGED <<answer, round, state, hadDone, piped, pump, cancelled,
                   scanned, currentType, buffered, pendingId, channel, linesEnd, seen, messageId, ticks>>

(* The timer of the handler: no content for too long, at first or after some. *)
Tick ==
    /\ engine = "running" /\ ~cancelled
    /\ IF seen = <<>>
       THEN /\ ticks' = ticks + 1
            /\ IF ticks' >= MaxKeepAlive THEN Finalize("no_content_timeout")
               ELSE UNCHANGED <<engine, closed>>
       ELSE Finalize("idle_timeout") /\ UNCHANGED ticks
    /\ UNCHANGED <<answer, round, state, hadDone, piped, pump, cancelled,
                   scanned, currentType, buffered, pendingId, channel, linesEnd, seen, messageId>>

(* The client goes away. *)
Cancel ==
    /\ ~cancelled /\ engine = "running"
    /\ cancelled' = TRUE
    /\ UNCHANGED <<answer, round, state, hadDone, piped, pump, closed, lineVars>>

ContextDone ==
    /\ engine = "running" /\ cancelled
    /\ Finalize("context_cancelled")
    /\ UNCHANGED <<answer, round, state, hadDone, piped, pump, cancelled,
                   scanned, currentType, buffered, pendingId, channel, linesEnd, seen, messageId, ticks>>

----------------------------------------------------------------------------
(* The call that continues an answer takes longer than the buffer waits. *)
Calm == scanned = Len(piped) /\ buffered = Nothing

DeepSeek ==
    /\ Len(piped) - scanned <= MaxLag /\ UNCHANGED lineVars
    /\ \/ \E line \in Offered : (Len(line.chars) > 1 => Calm) /\ PumpLine(line)
       \/ RoundEnds \/ BodyFails \/ ContinueOpens \/ ContinueFails

(* What nobody takes from the channel is left out. *)
Lines == engine = "running" /\ (ReadLine \/ MaxWaitOver \/ LinesEnd)
ConsumeSSE == Receive \/ ChannelClosed \/ Tick \/ ContextDone

Over == engine # "running" /\ UNCHANGED readerVars

LineNext == DeepSeek \/ Lines \/ ConsumeSSE \/ Cancel \/ Over

LineSpec == LineInit /\ [][LineNext]_readerVars /\ WF_readerVars(ConsumeSSE)

----------------------------------------------------------------------------
(* CollectStream, for an answer that is not streamed. *)

(* What CollectResult does with a line. *)
Collect(c, line) ==
    LET kind == IF line.kind = "none" THEN c.kind ELSE line.kind IN
    CASE c.stopped \/ StopOf(line) # "none" -> [c EXCEPT !.stopped = TRUE]
      [] ~c.stopped /\ StopOf(line) = "none" /\ line.chars # <<>> ->
           [kind |-> kind, given |-> Apply(c.given, kind, line.chars), stopped |-> FALSE]
      [] OTHER -> c

Collected ==
    LET after[i \in 0 .. Len(piped)] ==
            IF i = 0 THEN [kind |-> "thinking", given |-> <<>>, stopped |-> FALSE]
            ELSE Collect(after[i - 1], piped[i])
    IN after[Len(piped)].given

Orderly == engine \in {"handler_requested", "content_filter", "upstream_completed"}

(* The client is given the answer, every character once, in order and of its *)
(* kind, however its lines are gathered and whatever a round repeats; all of *)
(* it when the stream ends on its own, and just what a client that does not  *)
(* stream would get; an answer that is incomplete is continued before its    *)
(* end shows; and a retry knows the message to follow                       *)
(* (client_continue.go:97-181, sse/stream.go:126-360, engine.go:84-139).     *)
SeamlessAnswer ==
    /\ \A i \in DOMAIN seen : i <= Len(answer) /\ seen[i] = [kind |-> answer[i], char |-> i]
    /\ Orderly => Len(seen) = Len(answer) /\ Collected = seen
    /\ Orderly /\ pump = "ended" => ~ShouldContinue \/ round = MaxRounds
    /\ engine = "handler_requested" /\ pump # "failed"
          /\ (\A i \in DOMAIN piped : piped[i].status # "CONTENT_FILTER") => messageId = state.id
============================================================================
