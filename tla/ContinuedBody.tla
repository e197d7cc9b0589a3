---------------------------- MODULE ContinuedBody ----------------------------
(***************************************************************************)
(* internal/deepseek/client/client_continue.go: the body of a completion.   *)
(* When DeepSeek breaks an answer off as incomplete, pumpAutoContinue asks  *)
(* it to go on and appends the lines of the next round, so that the reader  *)
(* of the pipe sees one stream.                                            *)
(*                                                                         *)
(* An answer is a sequence of characters, of the reasoning or of the text;  *)
(* a line names them by their positions.                                   *)
(***************************************************************************)
EXTENDS Integers, Sequences, SequencesExt

CONSTANTS
    MaxRounds,   \* defaultAutoContinueLimit
    MinSnapshot, \* minContinuationSnapshotLen (see LineStream)
    MaxChars,    \* bound: characters of an answer
    MaxLines     \* bound: lines of all its rounds

ASSUME BodyBounds == MaxRounds \in Nat /\ MinSnapshot \in Nat

VARIABLES
    answer,      \* the kind of each character that DeepSeek has sent
    round,       \* continue calls made
    state,       \* continueState
    hadDone,     \* [DONE] in this round
    piped,       \* lines written to the pipe
    pump,        \* "reading", "opening", "ended" or "failed"
    closed,      \* the reader has closed the pipe
    cancelled    \* the context of the request is done

bodyVars == <<answer, round, state, hadDone, piped, pump, closed, cancelled>>

(* A line that says nothing. *)
Blank == [kind |-> "none", chars |-> <<>>, id |-> 0,
          status |-> "none", quasi |-> FALSE, sign |-> "none"]
Done == [Blank EXCEPT !.sign = "done"]

----------------------------------------------------------------------------
(* What DeepSeek may send next. *)

(* One more character; the lines after the first of a fragment do not repeat *)
(* what kind it is.                                                         *)
Growth ==
    {[Blank EXCEPT !.kind = k, !.chars = <<Len(answer) + 1>>] :
        k \in {"thinking", "text"} \cup (IF answer = <<>> THEN {} ELSE {"none"})}

(* A round that continues an answer may begin with all there is of it and   *)
(* more.  Only long answers of one kind are considered: what LineStream     *)
(* does with the others is another matter.                                  *)
Snapshots ==
    {[Blank EXCEPT !.kind = k, !.chars = [i \in 1 .. Len(answer) + 1 |-> i],
                   !.id = round + 1, !.status = "WIP"] :
        k \in {k \in Range(answer) : Range(answer) = {k} /\ Len(answer) + 1 >= MinSnapshot}}

(* The status may come as the quasi status, which only the pump looks at.    *)
(* INCOMPLETE stands for AUTO_CONTINUE too.                                 *)
Statuses ==
    {[Blank EXCEPT !.status = "FINISHED", !.quasi = q] : q \in BOOLEAN}
    \cup {[Blank EXCEPT !.status = "INCOMPLETE"], [Blank EXCEPT !.status = "CONTENT_FILTER"],
          [Blank EXCEPT !.sign = "error"]}
    \cup {[Blank EXCEPT !.id = n] : n \in {round + 1} \ {state.id}}

(* What is sent after an error, or to a reader that has left, is of no       *)
(* concern.                                                                 *)
Silent == hadDone \/ closed \/ (piped # <<>> /\ Last(piped).sign = "error")
Offered ==
    CASE Silent -> {}
      [] ~Silent /\ (state.finished \/ Len(piped) >= MaxLines) ->
           {Done} \cup (IF state.status = "FINISHED" /\ Len(piped) < MaxLines
                        THEN {[Blank EXCEPT !.status = "FINISHED"]} ELSE {})
      [] OTHER ->
           {Done} \cup Statuses
           \cup (IF Len(answer) < MaxChars THEN Growth ELSE {})
           \cup (IF Len(answer) < MaxChars /\ round > 0 /\ state.status = "none" THEN Snapshots ELSE {})

Grown(line) ==
    IF line.chars = <<>> THEN answer
    ELSE Append(answer, IF line.kind = "none" THEN Last(answer) ELSE line.kind)

----------------------------------------------------------------------------
(* pumpAutoContinue. *)

BodyInit ==
    /\ answer = <<>> /\ round = 0 /\ hadDone = FALSE /\ piped = <<>>
    /\ state = [id |-> 0, status |-> "none", finished |-> FALSE]
    /\ pump = "reading" /\ closed = FALSE /\ cancelled = FALSE

Observe(line) ==
    [id       |-> IF line.id > 0 THEN line.id ELSE state.id,
     status   |-> IF line.status # "none" THEN line.status ELSE state.status,
     finished |-> state.finished \/ line.status \in {"FINISHED", "CONTENT_FILTER"}]

ShouldContinue == ~state.finished /\ state.id > 0 /\ state.status = "INCOMPLETE"

(* Mutant: every [DONE] is passed on. *)
PumpLineThrough(line) ==
    /\ pump = "reading" /\ line \in Offered
    /\ answer' = Grown(line)
    /\ hadDone' = (line = Done)
    /\ state' = Observe(line)
    /\ piped' = Append(piped, line)
    /\ UNCHANGED <<pump, round, closed, cancelled>>

(* streamBodyWithContinueState: a [DONE] is kept back. *)
PumpLine(line) ==
    /\ pump = "reading" /\ line \in Offered
    /\ answer' = Grown(line)
    /\ IF line = Done
       THEN hadDone' = TRUE /\ UNCHANGED <<state, piped, pump>>
       ELSE /\ state' = Observe(line)
            /\ piped' = Append(piped, line)
            /\ UNCHANGED <<hadDone, pump>>
    /\ UNCHANGED <<round, closed, cancelled>>

(* The body of a round is at its end. *)
RoundEnds ==
    /\ pump = "reading"
    /\ IF ShouldContinue /\ round < MaxRounds
       THEN pump' = "opening" /\ UNCHANGED piped
       ELSE /\ pump' = "ended"
            /\ piped' = IF hadDone /\ ~closed THEN Append(piped, Done) ELSE piped
    /\ UNCHANGED <<answer, round, state, hadDone, closed, cancelled>>

(* The body cannot be read to its end, or nobody reads the pipe any more, or *)
(* the request is over.                                                     *)
BodyFails ==
    /\ pump = "reading"
    /\ pump' = "failed"
    /\ UNCHANGED <<answer, round, state, hadDone, piped, closed, cancelled>>

ContinueOpens ==
    /\ pump = "opening" /\ ~cancelled
    /\ pump' = "reading" /\ round' = round + 1 /\ hadDone' = FALSE
    /\ state' = [state EXCEPT !.finished = FALSE, !.status = "none"]
    /\ UNCHANGED <<answer, piped, closed, cancelled>>

ContinueFails ==
    /\ pump = "opening"
    /\ pump' = "failed"
    /\ UNCHANGED <<answer, round, state, hadDone, piped, closed, cancelled>>
============================================================================
