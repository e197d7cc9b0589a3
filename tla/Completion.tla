----------------------------- MODULE Completion -----------------------------
(***************************************************************************)
(* A chat request of ds2api from its account to its answer: the retry loop *)
(* of the DeepSeek calls (internal/deepseek/client), the completion runtime *)
(* (internal/completionruntime), which asks once more for an empty output  *)
(* and then once on another account, and the end of the handler            *)
(* (ChatCompletions), which deletes the remote session and gives the       *)
(* account back.                                                           *)
(*                                                                         *)
(* A remote session is named by its number in the request's list of the    *)
(* sessions it created; the list says whose token created it.              *)
(***************************************************************************)
EXTENDS RequestAuth, AssistantTurn

CONSTANTS
    MaxAttempts,  \* attempts of one DeepSeek call (3 in the code)
    RetryMax,     \* EmptyOutputRetryMaxAttempts
    Mode          \* the ways of answering: "stream", "whole"

ASSUME RetryAssumption == MaxAttempts \in Nat \ {0} /\ RetryMax \in Nat
ASSUME ModeAssumption == Mode \subseteq {"stream", "whole"} /\ Mode # {}

VARIABLES
    mode,      \* how the request is answered
    stage,     \* what the calls under way are for: first, retry, alternate
    step,      \* the DeepSeek call under way: session, pow; none
    attempts,  \* its attempts
    refreshed, \* its token was refreshed
    empties,   \* empty-output retries so far
    switched,  \* accountSwitchAttempted
    sessions,  \* history: the account whose token created each remote session
    known,     \* the session the handler knows, 0 for none
    payload,   \* the completion payload: its session, and whether it has a parent
    output,    \* the last output, with the reasoning of the ones before
    sent,      \* history: the completions sent
    deleted,   \* history: sessions asked to be deleted, and with whose token
    answer     \* the status the client was answered, 0 before

callVars == <<step, attempts, refreshed>>
flowVars == <<mode, stage, callVars, empties, switched, sessions, known, payload, output,
              sent, deleted, answer>>
everything == <<allVars, flowVars>>

(* A step of the handler that leaves account and token alone. *)
Keep == UNCHANGED <<storeVars, queue, inUse, waiters, limits, target, tried, accountID, gone,
                    holding, woken, wasted, adminVars, authVars>>

Set(f, r, v) == [f EXCEPT ![r] = v]

StartCall(r, s) ==
    /\ step' = Set(step, r, s)
    /\ attempts' = Set(attempts, r, 0)
    /\ refreshed' = Set(refreshed, r, FALSE)

EndCall(r) ==
    /\ step' = Set(step, r, "none")
    /\ UNCHANGED <<attempts, refreshed>>

----------------------------------------------------------------------------
(* StartCompletion, startStandardCompletionOnAlternateAccount,             *)
(* startPayloadCompletionOnAlternateAccount.                               *)

Begin(r) ==
    /\ At(r, "held") /\ stage[r] = "none"
    /\ \E m \in Mode : mode' = Set(mode, r, m)
    /\ stage' = Set(stage, r, "first")
    /\ StartCall(r, "session")
    /\ Goto(r, "call")
    /\ Keep
    /\ UNCHANGED <<empties, switched, sessions, known, payload, output, sent, deleted, answer>>

Finish(r, status) ==
    /\ answer' = Set(answer, r, status)
    /\ Goto(r, "closing")

(* Mutant: the payload for the other account keeps the old session. *)
CallSucceedsOldSession(r) ==
    /\ At(r, "call")
    /\ \/ /\ step[r] = "session"
          /\ sessions' = Set(sessions, r, Append(sessions[r], cred[r]))
          /\ payload' = IF stage[r] = "first"
                        THEN Set(payload, r, [session |-> 1, parent |-> FALSE]) ELSE payload
          /\ known' = IF stage[r] = "first" THEN Set(known, r, Len(sessions[r]) + 1) ELSE known
          /\ StartCall(r, "pow")
          /\ UNCHANGED pc
       \/ /\ step[r] = "pow"
          /\ EndCall(r)
          /\ Goto(r, "send")
          /\ UNCHANGED <<sessions, payload, known>>
    /\ Keep
    /\ UNCHANGED <<mode, stage, empties, switched, output, sent, deleted, answer>>

(* The call succeeds: a session exists for the account whose token was     *)
(* sent, and the proof of work is next; or the completion can be sent.     *)
CallSucceeds(r) ==
    /\ At(r, "call")
    /\ \/ /\ step[r] = "session"
          /\ sessions' = Set(sessions, r, Append(sessions[r], cred[r]))
          /\ payload' = Set(payload, r, [session |-> Len(sessions[r]) + 1, parent |-> FALSE])
          /\ known' = IF stage[r] = "first" THEN Set(known, r, Len(sessions[r]) + 1) ELSE known
          /\ StartCall(r, "pow")
          /\ UNCHANGED pc
       \/ /\ step[r] = "pow"
          /\ EndCall(r)
          /\ Goto(r, "send")
          /\ UNCHANGED <<sessions, payload, known>>
    /\ Keep
    /\ UNCHANGED <<mode, stage, empties, switched, output, sent, deleted, answer>>

(* The request fails on the way, or is refused and nothing can be done about *)
(* it: the account is given or the request brings its own token.             *)
CallMisses(r) ==
    /\ At(r, "call") /\ attempts[r] < MaxAttempts
    /\ attempts' = Set(attempts, r, attempts[r] + 1)
    /\ Keep
    /\ UNCHANGED <<pc, mode, stage, step, refreshed, empties, switched, sessions, known,
                   payload, output, sent, deleted, answer>>

(* A refusal that looks like a bad token is met with one refresh. *)
CallRefreshes(r) ==
    /\ At(r, "call") /\ attempts[r] < MaxAttempts /\ ~refreshed[r]
    /\ RefreshStarts(r, {"call"})
    /\ UNCHANGED flowVars

CallRefreshed(r) ==
    \/ /\ LoginSucceeds(r, "refresh", "call")
       /\ refreshed' = Set(refreshed, r, TRUE)
       /\ UNCHANGED <<mode, stage, step, attempts, empties, switched, sessions, known, payload,
                      output, sent, deleted, answer>>
    \/ /\ RefreshFails(r, "refused")
       /\ UNCHANGED flowVars

(* Any other refusal, or a failed refresh, is met with another account.     *)
CallSwitches(r) ==
    /\ At(r, "call") => attempts[r] < MaxAttempts
    /\ step[r] # "none"
    /\ IF MaySwitch(r)
       THEN SwitchReleases(r, {"call", "refused"}) /\ UNCHANGED flowVars
       ELSE /\ At(r, "refused")
            /\ Goto(r, "call")
            /\ attempts' = Set(attempts, r, attempts[r] + 1)
            /\ Keep
            /\ UNCHANGED <<mode, stage, step, refreshed, empties, switched, sessions, known,
                           payload, output, sent, deleted, answer>>

(* Mutant: a switch that finds no account does not count as an attempt. *)
CallSwitchedUncounted(r) ==
    /\ step[r] # "none" /\ pc[r] \in {"switched", "stuck"}
    /\ Goto(r, "call")
    /\ refreshed' = Set(refreshed, r, refreshed[r] /\ At(r, "stuck"))
    /\ attempts' = Set(attempts, r, IF At(r, "stuck") THEN attempts[r] ELSE attempts[r] + 1)
    /\ Keep
    /\ UNCHANGED <<mode, stage, step, empties, switched, sessions, known, payload, output, sent,
                   deleted, answer>>

CallSwitched(r) ==
    /\ step[r] # "none" /\ pc[r] \in {"switched", "stuck"}
    /\ Goto(r, "call")
    /\ refreshed' = Set(refreshed, r, refreshed[r] /\ At(r, "stuck"))
    /\ attempts' = Set(attempts, r, attempts[r] + 1)
    /\ Keep
    /\ UNCHANGED <<mode, stage, step, empties, switched, sessions, known, payload, output, sent,
                   deleted, answer>>

(* No attempt is left.  For an empty-output retry the first proof of work  *)
(* does; otherwise the request ends.                                       *)
CallFails(r) ==
    /\ At(r, "call") /\ attempts[r] >= MaxAttempts
    /\ EndCall(r)
    /\ IF stage[r] = "retry"
       THEN Goto(r, "send") /\ UNCHANGED answer
       ELSE Finish(r, Unauthorized)
    /\ Keep
    /\ UNCHANGED <<mode, stage, empties, switched, sessions, known, payload, output, sent, deleted>>

----------------------------------------------------------------------------
(* The completion and what becomes of its output. *)

(* CallCompletion: one attempt.  Without a response the request ends. *)
Send(r) ==
    /\ At(r, "send")
    /\ sent' = Set(sent, r, Append(sent[r],
                   [account |-> cred[r], stage |-> stage[r],
                    session |-> payload[r].session, parent |-> payload[r].parent]))
    /\ \/ Finish(r, Failed) /\ UNCHANGED known
       \/ /\ Goto(r, "reply")
          /\ known' = IF stage[r] = "alternate" THEN Set(known, r, payload[r].session) ELSE known
          /\ UNCHANGED answer
    /\ Keep
    /\ UNCHANGED <<mode, stage, callVars, empties, switched, sessions, payload, output, deleted>>

(* The same session is asked again, below the empty output if that had a   *)
(* message id.                                                             *)
RetryEmpty(r) ==
    /\ empties' = Set(empties, r, empties[r] + 1)
    /\ stage' = Set(stage, r, "retry")
    /\ \E p \in BOOLEAN : payload' = Set(payload, r, [payload[r] EXCEPT !.parent = p])
    /\ StartCall(r, "pow")
    /\ Goto(r, "call")
    /\ UNCHANGED <<answer, switched>>

(* canRetryOnAlternateAccount: once per request, after a 429. *)
AlternateOr(r, status) ==
    /\ IF status = TooMany /\ ~switched[r] /\ r \notin Direct
       THEN /\ switched' = Set(switched, r, TRUE)
            /\ stage' = Set(stage, r, "alternate")
            /\ Goto(r, "alternate")
            /\ UNCHANGED answer
       ELSE Finish(r, status) /\ UNCHANGED <<switched, stage>>
    /\ UNCHANGED <<empties, payload, callVars>>

(* The reasoning of the attempts on one account adds up. *)
Accumulated(r, o) == [o EXCEPT !.thinking = @ \/ output[r].thinking]

(* ExecuteNonStreamStartedWithRetry with an output. *)
WholeReply(r, o) ==
    IF ShouldRetryEmptyOutput(o, empties[r], RetryMax)
    THEN RetryEmpty(r)
    ELSE AlternateOr(r, FinalStatus(o, FALSE, FALSE))

(* ExecuteStreamWithRetry: an empty output is held back while a retry or    *)
(* another account is left; then the other account is asked for whatever    *)
(* the error would be.                                                      *)
StreamReply(r, o) ==
    IF o.text \/ o.calls \/ o.filter
    THEN /\ Finish(r, FinalStatus(o, FALSE, FALSE))
         /\ UNCHANGED <<stage, callVars, empties, switched, payload>>
    ELSE IF empties[r] < RetryMax
    THEN RetryEmpty(r)
    ELSE IF switched[r] \/ r \in Direct
    THEN /\ Finish(r, EmptyOutputDetail(o))
         /\ UNCHANGED <<stage, callVars, empties, switched, payload>>
    ELSE AlternateOr(r, TooMany)

Reply(r) ==
    /\ At(r, "reply")
    /\ \E o \in Output :
          LET all == Accumulated(r, o) IN
          /\ output' = Set(output, r, all)
          /\ IF mode[r] = "whole" THEN WholeReply(r, all) ELSE StreamReply(r, all)
    /\ Keep
    /\ UNCHANGED <<mode, sessions, known, sent, deleted>>

(* DeepSeek answers with an error status.  A stream looks at it except      *)
(* after a change of account, when it reads the error as an empty output.   *)
ErrorReply(r) ==
    /\ At(r, "reply")
    /\ \E status \in {TooMany, Failed} :
          IF mode[r] = "whole"
          THEN AlternateOr(r, status)
          ELSE IF stage[r] = "alternate"
          THEN StreamReply(r, Accumulated(r, NoOutput))
          ELSE /\ Finish(r, status)
               /\ UNCHANGED <<stage, callVars, empties, switched, payload>>
    /\ Keep
    /\ UNCHANGED <<mode, sessions, known, output, sent, deleted>>

(* The client of a stream goes away. *)
StreamCancelled(r) ==
    /\ At(r, "reply") /\ mode[r] = "stream"
    /\ Finish(r, 499)
    /\ Keep
    /\ UNCHANGED <<mode, stage, callVars, empties, switched, sessions, known, payload, output,
                   sent, deleted>>

(* The other account: SwitchAccount, then a session of its own. *)
AlternateStarts(r) ==
    /\ At(r, "alternate")
    /\ IF MaySwitch(r)
       THEN SwitchReleases(r, {"alternate"})
       ELSE Goto(r, "stuck") /\ Keep
    /\ UNCHANGED flowVars

AlternateGoes(r) ==
    /\ step[r] = "none" /\ stage[r] = "alternate"
    /\ \/ /\ At(r, "switched")
          /\ output' = IF mode[r] = "whole" THEN Set(output, r, NoOutput) ELSE output
          /\ StartCall(r, "session")
          /\ Goto(r, "call")
          /\ UNCHANGED answer
       \/ /\ At(r, "stuck")
          /\ Finish(r, TooMany)
          /\ UNCHANGED <<output, callVars>>
    /\ Keep
    /\ UNCHANGED <<mode, stage, empties, switched, sessions, known, payload, sent, deleted>>

----------------------------------------------------------------------------
(* The deferred end of the handler: autoDeleteRemoteSession (mode single), *)
(* then Release.                                                           *)
AutoDelete(r) ==
    /\ At(r, "closing")
    /\ deleted' = IF known[r] = 0 THEN deleted
                  ELSE Set(deleted, r, {[session |-> known[r], account |-> cred[r]]})
    /\ Goto(r, "closed")
    /\ Keep
    /\ UNCHANGED <<mode, stage, callVars, empties, switched, sessions, known, payload, output,
                   sent, answer>>

End(r) == ReleaseAuth(r, {"closed"}) /\ UNCHANGED flowVars

----------------------------------------------------------------------------
FlowInit ==
    /\ AuthInit
    /\ mode = [r \in Request |-> "none"] /\ stage = [r \in Request |-> "none"]
    /\ step = [r \in Request |-> "none"] /\ attempts = [r \in Request |-> 0]
    /\ refreshed = [r \in Request |-> FALSE]
    /\ empties = [r \in Request |-> 0] /\ switched = [r \in Request |-> FALSE]
    /\ sessions = [r \in Request |-> <<>>] /\ known = [r \in Request |-> 0]
    /\ payload = [r \in Request |-> [session |-> 0, parent |-> FALSE]]
    /\ output = [r \in Request |-> NoOutput]
    /\ sent = [r \in Request |-> <<>>] /\ deleted = [r \in Request |-> {}]
    /\ answer = [r \in Request |-> 0]

Handle(r) ==
    \/ Begin(r) \/ CallSucceeds(r) \/ CallMisses(r) \/ CallRefreshes(r) \/ CallRefreshed(r)
    \/ CallSwitches(r) \/ CallSwitched(r) \/ CallFails(r)
    \/ Switch(r, "switched", "stuck") /\ UNCHANGED flowVars
    \/ Send(r) \/ Reply(r) \/ ErrorReply(r) \/ StreamCancelled(r)
    \/ AlternateStarts(r) \/ AlternateGoes(r)
    \/ AutoDelete(r) \/ End(r)

FlowNext ==
    \E r \in Request :
        \/ (Arrives(r) \/ Determine(r)) /\ UNCHANGED flowVars
        \/ Handle(r)

FlowSpec == FlowInit /\ [][FlowNext]_everything

(* Every DeepSeek call has a timeout, so handlers go on. *)
FlowFairSpec ==
    /\ FlowSpec
    /\ \A r \in Request : /\ WF_everything(Determine(r) /\ UNCHANGED flowVars)
                          /\ WF_everything(Handle(r))

----------------------------------------------------------------------------
(* An empty-output retry goes to the session of the completion before it;   *)
(* every other completion starts a session, so it has no parent message     *)
(* (nonstream.go:184, stream_retry.go:116, 166-167).                        *)
RetryInSession == \A r \in Request : \A i \in DOMAIN sent[r] :
    LET s == sent[r][i] IN
    IF s.stage = "retry"
    THEN i > 1 /\ s.session = sent[r][i - 1].session
    ELSE ~s.parent /\ \A j \in 1 .. i - 1 : sent[r][j].session # s.session

(* What the content filter stopped is not asked for again: the next          *)
(* completion follows an unfiltered output (turn.go:227-232).                *)
FilteredIsFinal == [][\A r \in Request :
    sent'[r] # sent[r] => ~output[r].filter]_everything

(* A request that has an account is answered and ends, however often its     *)
(* calls are refused (client_auth.go:53-159, stream_retry.go:39-147).        *)
RequestEnds(r) == At(r, "call") ~> At(r, "left")
============================================================================
