-------------------------- MODULE CompletionProofs --------------------------
(***************************************************************************)
(* Which session a completion of ds2api goes to, and what an output that    *)
(* the content filter stopped means for the request, for every number of    *)
(* requests, accounts, attempts, retries and renewals; and the account of   *)
(* a leased stream, as long as its calls may not switch accounts.           *)
(***************************************************************************)
EXTENDS Completion, StreamLease, SequenceTheorems, TLAPS

IsSequence(s) == \E S : s \in Seq(S)

(* The phases after the answer. *)
Answered == {"closing", "closed", "left"}

(* The phases in which a DeepSeek call is under way and nobody is asked for *)
(* another account.                                                        *)
Calling == {"call", "refresh", "refused"}

Completed == <<pc, step, stage, sessions, sent, payload, output>>

Domains ==
    /\ DOMAIN pc = Request /\ DOMAIN step = Request /\ DOMAIN stage = Request
    /\ DOMAIN sessions = Request /\ DOMAIN sent = Request
    /\ DOMAIN payload = Request /\ output = [r \in Request |-> output[r]]

Typed(r) ==
    /\ step[r] \in {"none", "session", "pow"}
    /\ IsSequence(sessions[r]) /\ IsSequence(sent[r])
    /\ payload[r] \in [session : Nat, parent : BOOLEAN]
    /\ output[r] \in Output

(* Completions go to sessions that exist, and as RetryInSession says.       *)
Asked(r) ==
    \A i \in DOMAIN sent[r] :
       LET s == sent[r][i] IN
       /\ s.session \in Nat /\ s.session <= Len(sessions[r])
       /\ IF s.stage = "retry"
          THEN i > 1 /\ s.session = sent[r][i - 1].session
          ELSE ~s.parent /\ \A j \in 1 .. i - 1 : sent[r][j].session # s.session

(* The payload refers to the session of the last completion.                *)
AsBefore(r) == sent[r] # <<>> /\ payload[r].session = sent[r][Len(sent[r])].session

(* It refers to the session created last, and none was asked in it.         *)
Afresh(r) ==
    /\ ~payload[r].parent
    /\ payload[r].session = Len(sessions[r])
    /\ \A i \in DOMAIN sent[r] : sent[r][i].session < Len(sessions[r])

(* From the proof of work on, the payload is the one that will be sent.     *)
Prepared(r) ==
    /\ step[r] = "session" => stage[r] # "retry"
    /\ step[r] = "pow" \/ At(r, "send") => IF stage[r] = "retry" THEN AsBefore(r) ELSE Afresh(r)
    /\ At(r, "reply") => AsBefore(r)

(* What the calls, the completion and the answer have done already.         *)
Ordered(r) ==
    /\ pc[r] \in Calling => step[r] # "none"
    /\ pc[r] \in {"send", "reply"} => step[r] = "none"
    /\ output[r].filter => pc[r] \in Answered

OneRequest(r) == Typed(r) /\ Asked(r) /\ Prepared(r) /\ Ordered(r)

FlowInv == Domains /\ \A r \in Request : OneRequest(r)

(* A step of one request. *)
StepOf(r) ==
    /\ Domains'
    /\ \A q \in Request \ {r} :
          /\ pc'[q] = pc[q] /\ step'[q] = step[q] /\ stage'[q] = stage[q]
          /\ sessions'[q] = sessions[q] /\ sent'[q] = sent[q]
          /\ payload'[q] = payload[q] /\ output'[q] = output[q]

LEMMA Appended ==
    ASSUME NEW s, IsSequence(s), NEW e
    PROVE  /\ IsSequence(Append(s, e))
           /\ Len(s) \in Nat /\ DOMAIN s = 1 .. Len(s)
           /\ DOMAIN Append(s, e) = 1 .. Len(s) + 1 /\ Len(Append(s, e)) = Len(s) + 1
           /\ \A i \in 1 .. Len(s) : Append(s, e)[i] = s[i]
           /\ Append(s, e)[Len(s) + 1] = e
           /\ Append(s, e) # <<>>
<1> PICK S : s \in Seq(S)
  BY DEF IsSequence
<1>1. s \in Seq(S \cup {e}) /\ e \in S \cup {e}
  BY SeqMonotonic
<1>2. Append(s, e) \in Seq(S \cup {e})
  BY <1>1
<1> QED
  BY <1>1, <1>2 DEF IsSequence

LEMMA FlowInvInit == FlowInit => FlowInv
<1> SUFFICES ASSUME FlowInit PROVE FlowInv
  OBVIOUS
<1>1. /\ pc = [r \in Request |-> "new"]
      /\ step = [r \in Request |-> "none"] /\ stage = [r \in Request |-> "none"]
      /\ sessions = [r \in Request |-> <<>>] /\ sent = [r \in Request |-> <<>>]
      /\ payload = [r \in Request |-> [session |-> 0, parent |-> FALSE]]
      /\ output = [r \in Request |-> NoOutput]
  BY Zenon DEF FlowInit, AuthInit, Init
<1>2. Domains
  BY <1>1 DEF Domains
<1>3. IsSequence(<<>>)
  BY EmptySeq DEF IsSequence
<1>4. ASSUME NEW r \in Request PROVE OneRequest(r)
  <2>1. Typed(r)
    BY <1>1, <1>3 DEF Typed, Output, NoOutput
  <2>2. Asked(r)
    BY <1>1 DEF Asked
  <2>3. Prepared(r) /\ Ordered(r)
    BY <1>1 DEF Prepared, Ordered, At, Calling, NoOutput
  <2> QED
    BY <2>1, <2>2, <2>3 DEF OneRequest
<1> QED
  BY <1>2, <1>4 DEF FlowInv

LEMMA StepOfKeeps ==
    ASSUME FlowInv, NEW r \in Request, StepOf(r), OneRequest(r)' PROVE FlowInv'
<1>1. ASSUME NEW q \in Request \ {r} PROVE OneRequest(q)'
  <2>1. OneRequest(q)
    BY DEF FlowInv
  <2> QED
    BY <2>1 DEF StepOf, OneRequest, Typed, Asked, Prepared, AsBefore, Afresh, Ordered, At
<1> QED
  BY <1>1 DEF FlowInv, StepOf

(* A request moves to a phase in which nothing is sent or awaited.          *)
LEMMA MoveKeeps ==
    ASSUME FlowInv, NEW r \in Request, NEW p, pc' = [pc EXCEPT ![r] = p],
           UNCHANGED <<step, stage, sessions, sent, payload, output>>,
           p \notin {"send", "reply"},
           p \in Calling => step[r] # "none",
           pc[r] \notin Answered \/ p \in Answered
    PROVE  FlowInv'
<1>1. OneRequest(r) /\ Domains
  BY DEF FlowInv
<1>2. pc'[r] = p /\ StepOf(r)
  BY <1>1 DEF StepOf, Domains
<1>3. OneRequest(r)'
  BY <1>1, <1>2 DEF OneRequest, Typed, Asked, Prepared, AsBefore, Afresh, Ordered, At
<1> QED
  BY <1>2, <1>3, StepOfKeeps

LEMMA RestKeeps == FlowInv /\ UNCHANGED Completed => FlowInv'
BY DEF FlowInv, Domains, OneRequest, Typed, Asked, Prepared, AsBefore, Afresh, Ordered, At, Completed

(* Until a request holds an account, and while it looks for another or       *)
(* renews its token, its completion stands still.                           *)
LEMMA DetermineKeeps ==
    ASSUME FlowInv, NEW r \in Request, Arrives(r) \/ Determine(r), UNCHANGED flowVars
    PROVE  FlowInv'
<1> DEFINE Before == {"new", "loop", "enter", "select", "ensure", "login"}
           Next1 == {"loop", "enter", "select", "ensure", "login", "held", "left"}
<1>1. pc[r] \in Before /\ \E p \in Next1 : pc' = [pc EXCEPT ![r] = p]
  <2>1. CASE Arrives(r)
    BY <2>1 DEF Arrives, DirectArrives, ManagedArrives, Arrive, At, Goto
  <2>2. CASE LoopHead(r)
    BY <2>2 DEF LoopHead, At, Goto
  <2>3. CASE Acquire(r)
    BY <2>3 DEF Acquire, TryAcquire
  <2>4. CASE Queued(r)
    BY <2>4 DEF Queued, WakeUp, GiveUp, Waiting
  <2>5. CASE EnsureToken(r, "ensure", "held", "login")
    BY <2>5 DEF EnsureToken, At, Goto
  <2>6. CASE LoginSucceeds(r, "login", "held")
    BY <2>6 DEF LoginSucceeds, At, Goto
  <2>7. CASE DetermineFails(r)
    BY <2>7 DEF DetermineFails, LoginFails, At, Goto
  <2> QED
    BY <2>1, <2>2, <2>3, <2>4, <2>5, <2>6, <2>7 DEF Determine
<1>2. UNCHANGED <<step, stage, sessions, sent, payload, output>>
  BY DEF flowVars, callVars
<1> QED
  BY <1>1, <1>2, MoveKeeps DEF Calling, Answered

LEMMA SwitchKeeps ==
    ASSUME FlowInv, NEW r \in Request, Switch(r, "switched", "stuck"), UNCHANGED flowVars
    PROVE  FlowInv'
<1>1. /\ pc[r] \in {"swTry", "swEnsure", "swLogin"}
      /\ \E p \in {"swTry", "swEnsure", "swLogin", "switched", "stuck"} : pc' = [pc EXCEPT ![r] = p]
  <2>1. CASE SwitchTries(r, "stuck")
    BY <2>1 DEF SwitchTries, At, Goto
  <2>2. CASE EnsureToken(r, "swEnsure", "switched", "swLogin")
    BY <2>2 DEF EnsureToken, At, Goto
  <2>3. CASE LoginSucceeds(r, "swLogin", "switched")
    BY <2>3 DEF LoginSucceeds, At, Goto
  <2>4. CASE SwitchFails(r)
    BY <2>4 DEF SwitchFails, LoginFails, At, Goto
  <2> QED
    BY <2>1, <2>2, <2>3, <2>4 DEF Switch
<1>2. UNCHANGED <<step, stage, sessions, sent, payload, output>>
  BY DEF flowVars, callVars
<1> QED
  BY <1>1, <1>2, MoveKeeps DEF Calling, Answered

LEMMA BeginKeeps == ASSUME FlowInv, NEW r \in Request, Begin(r) PROVE FlowInv'
<1>1. OneRequest(r) /\ Domains
  BY DEF FlowInv
<1>2. /\ pc[r] = "held" /\ pc' = [pc EXCEPT ![r] = "call"]
      /\ stage' = [stage EXCEPT ![r] = "first"] /\ step' = [step EXCEPT ![r] = "session"]
      /\ UNCHANGED <<sessions, sent, payload, output>>
  BY DEF Begin, StartCall, Set, At, Goto
<1>3. StepOf(r)
  BY <1>1, <1>2 DEF StepOf, Domains
<1>4. pc'[r] = "call" /\ stage'[r] = "first" /\ step'[r] = "session"
  BY <1>1, <1>2 DEF Domains
<1>5. OneRequest(r)'
  BY <1>1, <1>2, <1>4 DEF OneRequest, Typed, Asked, Prepared, Ordered, At, Calling, Answered
<1> QED
  BY <1>3, <1>5, StepOfKeeps

(* A new session is newer than all that were asked. *)
LEMMA SessionKeeps ==
    ASSUME FlowInv, NEW r \in Request, CallSucceeds(r), step[r] = "session" PROVE FlowInv'
<1>1. OneRequest(r) /\ Domains
  BY DEF FlowInv
<1>2. /\ pc[r] = "call" /\ pc' = pc
      /\ sessions' = [sessions EXCEPT ![r] = Append(sessions[r], cred[r])]
      /\ payload' = [payload EXCEPT ![r] = [session |-> Len(sessions[r]) + 1, parent |-> FALSE]]
      /\ step' = [step EXCEPT ![r] = "pow"]
      /\ UNCHANGED <<stage, sent, output>>
  BY DEF CallSucceeds, StartCall, Set, At
<1>3. StepOf(r)
  BY <1>1, <1>2 DEF StepOf, Domains
<1>4. /\ sessions'[r] = Append(sessions[r], cred[r]) /\ step'[r] = "pow"
      /\ payload'[r] = [session |-> Len(sessions[r]) + 1, parent |-> FALSE]
  BY <1>1, <1>2 DEF Domains
<1>5. /\ IsSequence(sessions'[r]) /\ Len(sessions[r]) \in Nat
      /\ Len(sessions'[r]) = Len(sessions[r]) + 1
  BY <1>1, <1>4, Appended DEF OneRequest, Typed
<1>6. Typed(r)'
  BY <1>1, <1>2, <1>4, <1>5 DEF OneRequest, Typed
<1>7. Asked(r)'
  BY <1>1, <1>2, <1>5 DEF OneRequest, Asked
<1>8. stage[r] # "retry" /\ \A i \in DOMAIN sent[r] : sent[r][i].session < Len(sessions'[r])
  BY <1>1, <1>5 DEF OneRequest, Asked, Prepared
<1>9. Prepared(r)' /\ Ordered(r)'
  BY <1>1, <1>2, <1>4, <1>5, <1>8 DEF OneRequest, Prepared, Afresh, Ordered, At, Calling
<1> QED
  BY <1>3, <1>6, <1>7, <1>9, StepOfKeeps DEF OneRequest

LEMMA PowKeeps ==
    ASSUME FlowInv, NEW r \in Request, CallSucceeds(r), step[r] # "session" PROVE FlowInv'
<1>1. OneRequest(r) /\ Domains
  BY DEF FlowInv
<1>2. /\ pc[r] = "call" /\ pc' = [pc EXCEPT ![r] = "send"]
      /\ step[r] = "pow" /\ step' = [step EXCEPT ![r] = "none"]
      /\ UNCHANGED <<stage, sessions, sent, payload, output>>
  BY DEF CallSucceeds, EndCall, Set, At, Goto
<1>3. StepOf(r) /\ pc'[r] = "send" /\ step'[r] = "none"
  BY <1>1, <1>2 DEF StepOf, Domains
<1>4. OneRequest(r)'
  BY <1>1, <1>2, <1>3
     DEF OneRequest, Typed, Asked, Prepared, AsBefore, Afresh, Ordered, At, Calling, Answered
<1> QED
  BY <1>3, <1>4, StepOfKeeps

(* Misses, refreshes and switches change nothing of what will be sent.      *)
LEMMA CallGoesOnKeeps ==
    ASSUME FlowInv, NEW r \in Request,
           \/ CallMisses(r) \/ CallRefreshes(r) \/ CallRefreshed(r)
           \/ CallSwitches(r) \/ CallSwitched(r)
    PROVE  FlowInv'
<1>1. OneRequest(r)
  BY DEF FlowInv
<1>2. CASE CallMisses(r)
  BY <1>2, RestKeeps DEF CallMisses, Completed, Keep
<1>3. CASE ~CallMisses(r)
  <2>1. UNCHANGED <<step, stage, sessions, sent, payload, output>>
    BY <1>3 DEF CallRefreshes, CallRefreshed, CallSwitches, CallSwitched, flowVars, callVars
  <2>2. /\ pc[r] \in Calling \cup {"switched", "stuck"}
        /\ \E p \in Calling \cup {"swTry"} : pc' = [pc EXCEPT ![r] = p]
        /\ step[r] # "none"
    <3>1. CASE CallRefreshes(r)
      BY <1>1, <3>1 DEF CallRefreshes, RefreshStarts, At, Goto, Calling, OneRequest, Ordered
    <3>2. CASE CallRefreshed(r)
      BY <1>1, <3>2 DEF CallRefreshed, LoginSucceeds, RefreshFails, LoginFails, At, Goto, Calling,
                        OneRequest, Ordered
    <3>3. CASE CallSwitches(r)
      BY <3>3 DEF CallSwitches, SwitchReleases, At, Goto, Calling
    <3>4. CASE CallSwitched(r)
      BY <3>4 DEF CallSwitched, At, Goto, Calling
    <3> QED
      BY <1>3, <3>1, <3>2, <3>3, <3>4
  <2> QED
    BY <2>1, <2>2, MoveKeeps DEF Calling, Answered
<1> QED
  BY <1>2, <1>3

LEMMA CallFailsKeeps == ASSUME FlowInv, NEW r \in Request, CallFails(r) PROVE FlowInv'
<1>1. OneRequest(r) /\ Domains
  BY DEF FlowInv
<1>2. /\ pc[r] = "call" /\ step' = [step EXCEPT ![r] = "none"]
      /\ pc' = [pc EXCEPT ![r] = IF stage[r] = "retry" THEN "send" ELSE "closing"]
      /\ UNCHANGED <<stage, sessions, sent, payload, output>>
  BY DEF CallFails, EndCall, Finish, Set, At, Goto
<1>3. /\ StepOf(r) /\ step'[r] = "none"
      /\ pc'[r] = IF stage[r] = "retry" THEN "send" ELSE "closing"
  BY <1>1, <1>2 DEF StepOf, Domains
<1>4. step[r] = "pow" \/ stage[r] # "retry"
  BY <1>1, <1>2 DEF OneRequest, Typed, Prepared, Ordered, Calling
<1>5. OneRequest(r)'
  BY <1>1, <1>2, <1>3, <1>4
     DEF OneRequest, Typed, Asked, Prepared, AsBefore, Afresh, Ordered, At, Calling, Answered
<1> QED
  BY <1>3, <1>5, StepOfKeeps

(* The completion sent is an admissible one. *)
LEMMA SendKeeps == ASSUME FlowInv, NEW r \in Request, Send(r) PROVE FlowInv'
<1>1. OneRequest(r) /\ Domains
  BY DEF FlowInv
<1> DEFINE s == [account |-> cred[r], stage |-> stage[r],
                 session |-> payload[r].session, parent |-> payload[r].parent]
<1>2. /\ pc[r] = "send" /\ (pc' = [pc EXCEPT ![r] = "closing"] \/ pc' = [pc EXCEPT ![r] = "reply"])
      /\ sent' = [sent EXCEPT ![r] = Append(sent[r], s)]
      /\ UNCHANGED <<step, stage, sessions, payload, output>>
  BY DEF Send, Finish, Set, At, Goto, callVars
<1>3. s.stage = stage[r] /\ s.session = payload[r].session /\ s.parent = payload[r].parent
  OBVIOUS
<1>4. StepOf(r) /\ sent'[r] = Append(sent[r], s) /\ pc'[r] \in {"closing", "reply"}
  BY <1>1, <1>2 DEF StepOf, Domains
<1> HIDE DEF s
<1>5. /\ IsSequence(sent'[r]) /\ Len(sent[r]) \in Nat /\ DOMAIN sent[r] = 1 .. Len(sent[r])
      /\ DOMAIN sent'[r] = 1 .. Len(sent[r]) + 1 /\ Len(sent'[r]) = Len(sent[r]) + 1
      /\ \A i \in 1 .. Len(sent[r]) : sent'[r][i] = sent[r][i]
      /\ sent'[r][Len(sent[r]) + 1] = s /\ sent'[r] # <<>>
  BY <1>1, <1>4, Appended DEF OneRequest, Typed
<1>6. Typed(r)'
  BY <1>1, <1>2, <1>5 DEF OneRequest, Typed
<1>7. IF stage[r] = "retry" THEN AsBefore(r) ELSE Afresh(r)
  BY <1>1, <1>2 DEF OneRequest, Prepared, At
<1>8. Len(sessions[r]) \in Nat /\ payload[r].session \in Nat
  <2>1. PICK S : sessions[r] \in Seq(S)
    BY <1>1 DEF OneRequest, Typed, IsSequence
  <2> QED
    BY <1>1, <2>1 DEF OneRequest, Typed
<1>9. Len(sent[r]) > 0 \/ stage[r] # "retry"
  <2>1. PICK S : sent[r] \in Seq(S)
    BY <1>1 DEF OneRequest, Typed, IsSequence
  <2> QED
    BY <1>7, <2>1 DEF AsBefore
<1>10. s.session <= Len(sessions[r])
  BY <1>1, <1>3, <1>5, <1>7, <1>8, <1>9 DEF OneRequest, Asked, AsBefore, Afresh
<1>11. Asked(r)'
  <2> SUFFICES ASSUME NEW i \in 1 .. Len(sent[r]) + 1
               PROVE  LET t == sent'[r][i] IN
                      /\ t.session \in Nat /\ t.session <= Len(sessions[r])
                      /\ IF t.stage = "retry"
                         THEN i > 1 /\ t.session = sent'[r][i - 1].session
                         ELSE ~t.parent /\ \A j \in 1 .. i - 1 : sent'[r][j].session # t.session
    BY <1>2, <1>5 DEF Asked
  <2>1. CASE i \in 1 .. Len(sent[r])
    <3>1. \A j \in 1 .. i : j \in DOMAIN sent[r] /\ sent'[r][j] = sent[r][j]
      BY <1>5, <2>1
    <3>2. sent'[r][i] = sent[r][i] /\ i > 1 => sent'[r][i - 1] = sent[r][i - 1]
      BY <3>1
    <3>3. \A j \in 1 .. i - 1 : sent'[r][j] = sent[r][j]
      BY <3>1
    <3>4. i \in DOMAIN sent[r] /\ Asked(r) /\ sent'[r][i] = sent[r][i]
      BY <1>1, <3>1, <2>1 DEF OneRequest
    <3> QED
      BY <3>2, <3>3, <3>4 DEF Asked
  <2>2. CASE i = Len(sent[r]) + 1 /\ stage[r] = "retry"
    BY <1>3, <1>5, <1>7, <1>8, <1>9, <1>10, <2>2 DEF AsBefore
  <2>3. CASE i = Len(sent[r]) + 1 /\ stage[r] # "retry"
    <3>1. \A j \in 1 .. i - 1 : sent'[r][j].session # s.session
      <4> TAKE j \in 1 .. i - 1
      <4>1. sent'[r][j] = sent[r][j] /\ sent[r][j].session \in Nat
        BY <1>1, <1>5, <2>3 DEF OneRequest, Asked
      <4> QED
        BY <1>3, <1>5, <1>7, <1>8, <2>3, <4>1 DEF Afresh
    <3> QED
      BY <1>3, <1>5, <1>7, <1>8, <1>10, <2>3, <3>1 DEF Afresh
  <2> QED
    BY <1>5, <2>1, <2>2, <2>3
<1>12. Prepared(r)' /\ Ordered(r)'
  BY <1>1, <1>2, <1>3, <1>4, <1>5
     DEF OneRequest, Typed, Prepared, AsBefore, Ordered, At, Calling, Answered
<1> QED
  BY <1>4, <1>6, <1>11, <1>12, StepOfKeeps DEF OneRequest

(* What the client is answered for an output that the filter stopped.       *)
LEMMA FilteredEnds ==
    ASSUME NEW o \in Output, o.filter
    PROVE  /\ \A n, m : ~ShouldRetryEmptyOutput(o, n, m)
           /\ FinalStatus(o, FALSE, FALSE) # TooMany
BY DEF ShouldRetryEmptyOutput, FinalStatus, ValidateTurn, EmptyOutputDetail, OK, TooMany

(* The three ways on from a reply: an answer, a retry in the same session,   *)
(* or another account; the last two for an output that was not filtered.    *)
LEMMA RepliedKeeps ==
    ASSUME FlowInv, NEW r \in Request, At(r, "reply"), NEW o \in Output,
           output' = [output EXCEPT ![r] = o], UNCHANGED <<sessions, sent>>,
           \/ Goto(r, "closing") /\ UNCHANGED <<step, stage, payload>>
           \/ RetryEmpty(r) /\ ~o.filter
           \/ /\ Goto(r, "alternate") /\ stage' = [stage EXCEPT ![r] = "alternate"] /\ ~o.filter
              /\ UNCHANGED <<step, payload>>
    PROVE  FlowInv'
<1>1. OneRequest(r) /\ Domains /\ pc[r] = "reply" /\ step[r] = "none" /\ AsBefore(r)
  BY DEF FlowInv, OneRequest, Ordered, Prepared, At
<1>2. output'[r] = o
  BY <1>1 DEF Domains
<1>3. CASE Goto(r, "closing") /\ UNCHANGED <<step, stage, payload>>
  <2>1. StepOf(r) /\ pc'[r] = "closing"
    BY <1>1, <1>3 DEF StepOf, Domains, Goto
  <2>2. OneRequest(r)'
    BY <1>1, <1>2, <1>3, <2>1 DEF OneRequest, Typed, Asked, Prepared, Ordered, At, Calling, Answered
  <2> QED
    BY <2>1, <2>2, StepOfKeeps
<1>4. CASE RetryEmpty(r) /\ ~o.filter
  <2>1. PICK p \in BOOLEAN : payload' = [payload EXCEPT ![r] = [payload[r] EXCEPT !.parent = p]]
    BY <1>4 DEF RetryEmpty, Set
  <2>2. /\ stage' = [stage EXCEPT ![r] = "retry"] /\ step' = [step EXCEPT ![r] = "pow"]
        /\ pc' = [pc EXCEPT ![r] = "call"]
    BY <1>4 DEF RetryEmpty, StartCall, Set, Goto
  <2>3. /\ StepOf(r) /\ pc'[r] = "call" /\ stage'[r] = "retry" /\ step'[r] = "pow"
        /\ payload'[r] = [payload[r] EXCEPT !.parent = p]
    BY <1>1, <2>1, <2>2 DEF StepOf, Domains
  <2>4. /\ payload'[r] \in [session : Nat, parent : BOOLEAN]
        /\ payload'[r].session = payload[r].session
    BY <1>1, <2>3 DEF OneRequest, Typed
  <2>5. OneRequest(r)'
    BY <1>1, <1>2, <1>4, <2>3, <2>4
       DEF OneRequest, Typed, Asked, Prepared, AsBefore, Ordered, At, Calling
  <2> QED
    BY <2>3, <2>5, StepOfKeeps
<1>5. CASE /\ Goto(r, "alternate") /\ stage' = [stage EXCEPT ![r] = "alternate"] /\ ~o.filter
           /\ UNCHANGED <<step, payload>>
  <2>1. StepOf(r) /\ pc'[r] = "alternate" /\ stage'[r] = "alternate"
    BY <1>1, <1>5 DEF StepOf, Domains, Goto
  <2>2. OneRequest(r)'
    BY <1>1, <1>2, <1>5, <2>1 DEF OneRequest, Typed, Asked, Prepared, Ordered, At, Calling, Answered
  <2> QED
    BY <2>1, <2>2, StepOfKeeps
<1> QED
  BY <1>3, <1>4, <1>5

LEMMA AlternateOrGoes ==
    ASSUME NEW r, NEW status, AlternateOr(r, status)
    PROVE  \/ Goto(r, "closing") /\ UNCHANGED <<step, stage, payload>>
           \/ /\ status = TooMany
              /\ Goto(r, "alternate") /\ stage' = [stage EXCEPT ![r] = "alternate"]
              /\ UNCHANGED <<step, payload>>
BY DEF AlternateOr, Finish, Set, callVars

(* The whole answer and the stream both go one of the three ways. *)
LEMMA ReplyGoes ==
    ASSUME NEW r, NEW o \in Output, WholeReply(r, o) \/ StreamReply(r, o)
    PROVE  \/ Goto(r, "closing") /\ UNCHANGED <<step, stage, payload>>
           \/ RetryEmpty(r) /\ ~o.filter
           \/ /\ Goto(r, "alternate") /\ stage' = [stage EXCEPT ![r] = "alternate"] /\ ~o.filter
              /\ UNCHANGED <<step, payload>>
<1>1. CASE WholeReply(r, o)
  <2>1. CASE ShouldRetryEmptyOutput(o, empties[r], RetryMax)
    BY <1>1, <2>1, FilteredEnds DEF WholeReply
  <2>2. CASE ~ShouldRetryEmptyOutput(o, empties[r], RetryMax)
    BY <1>1, <2>2, FilteredEnds, AlternateOrGoes DEF WholeReply
  <2> QED
    BY <2>1, <2>2
<1>2. CASE StreamReply(r, o)
  <2>1. CASE o.text \/ o.calls \/ o.filter
    BY <1>2, <2>1 DEF StreamReply, Finish, callVars
  <2>2. CASE ~(o.text \/ o.calls \/ o.filter)
    BY <1>2, <2>2, AlternateOrGoes DEF StreamReply, Finish, callVars
  <2> QED
    BY <2>1, <2>2
<1> QED
  BY <1>1, <1>2

LEMMA ReplyKeeps ==
    ASSUME FlowInv, NEW r \in Request, Reply(r) \/ ErrorReply(r) \/ StreamCancelled(r)
    PROVE  FlowInv'
<1>1. /\ At(r, "reply") /\ UNCHANGED <<sessions, sent>>
      /\ output[r] \in Output /\ ~output[r].filter /\ DOMAIN output = Request
  <2>1. At(r, "reply") /\ UNCHANGED <<sessions, sent>>
    BY DEF Reply, ErrorReply, StreamCancelled
  <2> QED
    BY <2>1 DEF FlowInv, Domains, OneRequest, Typed, Ordered, Answered, At
<1>2. CASE Reply(r)
  <2>1. PICK o \in Output :
          LET all == Accumulated(r, o) IN
          /\ output' = [output EXCEPT ![r] = all]
          /\ WholeReply(r, all) \/ StreamReply(r, all)
    BY <1>2 DEF Reply, Set
  <2>2. Accumulated(r, o) \in Output
    BY <1>1 DEF Accumulated, Output
  <2>3. PICK all \in Output : /\ output' = [output EXCEPT ![r] = all]
                              /\ WholeReply(r, all) \/ StreamReply(r, all)
    BY <2>1, <2>2
  <2>4. \/ Goto(r, "closing") /\ UNCHANGED <<step, stage, payload>>
        \/ RetryEmpty(r) /\ ~all.filter
        \/ /\ Goto(r, "alternate") /\ stage' = [stage EXCEPT ![r] = "alternate"] /\ ~all.filter
           /\ UNCHANGED <<step, payload>>
    BY <2>3, ReplyGoes
  <2> QED
    BY <1>1, <2>3, <2>4, RepliedKeeps
<1>3. CASE ErrorReply(r) \/ StreamCancelled(r)
  <2>1. output' = [output EXCEPT ![r] = output[r]]
    BY <1>1, <1>3 DEF ErrorReply, StreamCancelled, FlowInv, Domains
  <2>2. \/ Goto(r, "closing") /\ UNCHANGED <<step, stage, payload>>
        \/ RetryEmpty(r)
        \/ /\ Goto(r, "alternate") /\ stage' = [stage EXCEPT ![r] = "alternate"]
           /\ UNCHANGED <<step, payload>>
    <3>1. CASE StreamCancelled(r)
      BY <3>1 DEF StreamCancelled, Finish, callVars
    <3>2. CASE ErrorReply(r)
      <4>1. PICK status \in {TooMany, Failed} :
              \/ AlternateOr(r, status)
              \/ StreamReply(r, Accumulated(r, NoOutput))
              \/ Finish(r, status) /\ UNCHANGED <<stage, callVars, empties, switched, payload>>
        BY <3>2 DEF ErrorReply
      <4>2. Accumulated(r, NoOutput) \in Output
        BY <1>1 DEF Accumulated, Output, NoOutput
      <4> QED
        BY <4>1, <4>2, AlternateOrGoes, ReplyGoes DEF Finish, callVars
    <3> QED
      BY <1>3, <3>1, <3>2
  <2> QED
    BY <1>1, <2>1, <2>2, RepliedKeeps
<1> QED
  BY <1>2, <1>3

(* The other account: its output starts from nothing or from the reasoning   *)
(* so far, neither of them filtered.                                        *)
LEMMA AlternateKeeps ==
    ASSUME FlowInv, NEW r \in Request, AlternateStarts(r) \/ AlternateGoes(r)
    PROVE  FlowInv'
<1>1. OneRequest(r) /\ Domains
  BY DEF FlowInv
<1>2. CASE AlternateStarts(r)
  <2>1. /\ pc[r] = "alternate"
        /\ \E p \in {"swTry", "stuck"} : pc' = [pc EXCEPT ![r] = p]
        /\ UNCHANGED <<step, stage, sessions, sent, payload, output>>
    BY <1>2 DEF AlternateStarts, SwitchReleases, At, Goto, flowVars, callVars
  <2> QED
    BY <2>1, MoveKeeps DEF Calling, Answered
<1>3. CASE AlternateGoes(r) /\ At(r, "switched")
  <2>1. /\ pc' = [pc EXCEPT ![r] = "call"] /\ step' = [step EXCEPT ![r] = "session"]
        /\ stage[r] = "alternate" /\ pc[r] = "switched"
        /\ output' = [output EXCEPT ![r] = NoOutput] \/ output' = output
        /\ UNCHANGED <<stage, sessions, sent, payload>>
    BY <1>3 DEF AlternateGoes, StartCall, Set, At, Goto
  <2>2. /\ StepOf(r) /\ pc'[r] = "call" /\ step'[r] = "session"
        /\ output'[r] = NoOutput \/ output'[r] = output[r]
    BY <1>1, <2>1 DEF StepOf, Domains
  <2>3. output'[r] \in Output /\ ~output'[r].filter
    <3>1. NoOutput \in Output /\ ~NoOutput.filter
      BY DEF NoOutput, Output
    <3>2. output[r] \in Output /\ ~output[r].filter
      BY <1>1, <2>1 DEF OneRequest, Typed, Ordered, Answered
    <3> QED
      BY <2>2, <3>1, <3>2
  <2>4. Typed(r)' /\ Asked(r)'
    BY <1>1, <2>1, <2>2, <2>3 DEF OneRequest, Typed, Asked
  <2>5. Prepared(r)' /\ Ordered(r)'
    BY <1>1, <2>1, <2>2, <2>3 DEF OneRequest, Prepared, Ordered, At, Calling
  <2> QED
    BY <2>2, <2>4, <2>5, StepOfKeeps DEF OneRequest
<1>4. CASE AlternateGoes(r) /\ ~At(r, "switched")
  <2>1. /\ pc[r] = "stuck" /\ pc' = [pc EXCEPT ![r] = "closing"]
        /\ UNCHANGED <<step, stage, sessions, sent, payload, output>>
    BY <1>4 DEF AlternateGoes, Finish, At, Goto, callVars
  <2> QED
    BY <2>1, MoveKeeps DEF Calling, Answered
<1> QED
  BY <1>2, <1>3, <1>4

LEMMA EndKeeps ==
    ASSUME FlowInv, NEW r \in Request, AutoDelete(r) \/ End(r) PROVE FlowInv'
<1>1. /\ pc[r] \in {"closing", "closed"}
      /\ \E p \in {"closed", "left"} : pc' = [pc EXCEPT ![r] = p]
      /\ UNCHANGED <<step, stage, sessions, sent, payload, output>>
  BY DEF AutoDelete, End, ReleaseAuth, At, Goto, flowVars, callVars
<1> QED
  BY <1>1, MoveKeeps DEF Calling, Answered

LEMMA HandleKeeps == ASSUME FlowInv, NEW r \in Request, Handle(r) PROVE FlowInv'
<1>1. CASE CallSucceeds(r)
  BY <1>1, SessionKeeps, PowKeeps
<1>2. CASE Switch(r, "switched", "stuck") /\ UNCHANGED flowVars
  BY <1>2, SwitchKeeps
<1> QED
  BY <1>1, <1>2, BeginKeeps, CallGoesOnKeeps, CallFailsKeeps, SendKeeps, ReplyKeeps,
     AlternateKeeps, EndKeeps DEF Handle

LEMMA FlowInvStep == FlowInv /\ [FlowNext]_everything => FlowInv'
<1> SUFFICES ASSUME FlowInv, [FlowNext]_everything PROVE FlowInv'
  OBVIOUS
<1>1. CASE UNCHANGED everything
  BY <1>1, RestKeeps DEF everything, allVars, vars, callerVars, flowVars, callVars, Completed
<1> QED
  BY <1>1, DetermineKeeps, HandleKeeps DEF FlowNext

LEMMA FlowInvHolds == FlowSpec => []FlowInv
BY FlowInvInit, FlowInvStep, PTL DEF FlowSpec

(* Through refused calls, refreshes, switches and retries, an empty-output   *)
(* retry goes to the session of the completion before it, and every other   *)
(* completion to a session of its own (nonstream.go:184,                    *)
(* stream_retry.go:116, 166-167).                                           *)
THEOREM RetryInSessionCorrect == FlowSpec => []RetryInSession
<1>1. FlowInv => RetryInSession
  BY DEF FlowInv, OneRequest, Asked, RetryInSession
<1> QED
  BY <1>1, FlowInvHolds, PTL

(* Completions are sent by Send alone. *)
LEMMA OthersSendNothing ==
    ASSUME NEW r \in Request, Handle(r), ~Send(r) PROVE UNCHANGED sent
<1>1. CASE \/ Begin(r) \/ CallSucceeds(r) \/ CallMisses(r) \/ CallRefreshes(r) \/ CallRefreshed(r)
           \/ CallSwitches(r) \/ CallSwitched(r) \/ CallFails(r)
  BY <1>1 DEF Begin, CallSucceeds, CallMisses, CallRefreshes, CallRefreshed, CallSwitches,
              CallSwitched, CallFails, flowVars
<1>2. CASE \/ Switch(r, "switched", "stuck") /\ UNCHANGED flowVars
           \/ Reply(r) \/ ErrorReply(r) \/ StreamCancelled(r)
           \/ AlternateStarts(r) \/ AlternateGoes(r) \/ AutoDelete(r) \/ End(r)
  BY <1>2 DEF Reply, ErrorReply, StreamCancelled, AlternateStarts, AlternateGoes, AutoDelete, End,
              flowVars
<1> QED
  BY <1>1, <1>2 DEF Handle

(* What the content filter stopped is not asked for again, on this account   *)
(* or another, whole or streamed (turn.go:227-232).                         *)
THEOREM FilteredIsFinalCorrect == FlowSpec => FilteredIsFinal
<1> DEFINE Final == \A r \in Request : sent'[r] # sent[r] => ~output[r].filter
<1>1. ASSUME FlowInv, [FlowNext]_everything PROVE Final
  <2>1. CASE UNCHANGED sent
    BY <2>1
  <2>2. ASSUME NEW r \in Request, Send(r) PROVE Final
    <3>1. ~output[r].filter
      BY <1>1, <2>2 DEF FlowInv, OneRequest, Ordered, Answered, Send, At
    <3>2. \A q \in Request \ {r} : sent'[q] = sent[q]
      BY <1>1, <2>2 DEF FlowInv, Domains, Send, Set
    <3> QED
      BY <3>1, <3>2
  <2>3. CASE UNCHANGED everything
    BY <2>1, <2>3 DEF everything, flowVars
  <2>4. ASSUME NEW r \in Request, UNCHANGED flowVars PROVE Final
    BY <2>1, <2>4 DEF flowVars
  <2> HIDE DEF Final
  <2> QED
    BY <1>1, <2>1, <2>2, <2>3, <2>4, OthersSendNothing DEF FlowNext
<1> QED
  BY <1>1, FlowInvHolds, PTL DEF FlowSpec, FilteredIsFinal

----------------------------------------------------------------------------
(* The account of a leased stream. *)

(* A request that cannot switch: it has a token or a target of its own.     *)
(* Before it arrives nothing is known of it.                                *)
Fixed(r) == ~MaySwitch(r) \/ pc[r] = "new"

(* The phases of a request before it has a lease in which it has an account, *)
(* those in which it has none, and the phases under a lease.                *)
Preparing == {"ensure", "login", "held", "calling", "refresh"}
Without == {"new", "loop", "enter", "select", "left"}
Under == {"idle", "using", "refresh"}

(* Before the lease the account goes with the phase; then it stays until    *)
(* the lease is popped and whoever popped it has given it back.             *)
Held(r) ==
    CASE lease[r] = "none" -> IF pc[r] \in Preparing THEN accountID[r] ELSE NoAccount
      [] lease[r] = "held" -> accountID[r]
      [] lease[r] = "gone" -> IF r \in popped THEN accountID[r] ELSE NoAccount

OneLease(r) ==
    /\ lease[r] \in {"none", "held", "gone"}
    /\ r \in popped => lease[r] = "gone"
    /\ Fixed(r) => /\ pc[r] \in IF lease[r] = "none" THEN Preparing \cup Without ELSE Under
                   /\ holding[r] = Held(r)
    /\ r \in Direct => /\ accountID[r] = NoAccount
                       /\ pc[r] \in {"new", "left", "held", "calling", "idle", "using"}

LeaseDomains == /\ DOMAIN pc = Request /\ DOMAIN accountID = Request /\ DOMAIN target = Request
           /\ DOMAIN holding = Request /\ DOMAIN lease = Request

LeaseInv == LeaseDomains /\ \A r \in Request : OneLease(r)

leased == <<pc, accountID, target, holding, lease, popped>>

(* A step of one request. *)
LeaseStepOf(r) ==
    /\ LeaseDomains'
    /\ \A q \in Request \ {r} :
          /\ pc'[q] = pc[q] /\ accountID'[q] = accountID[q] /\ target'[q] = target[q]
          /\ holding'[q] = holding[q] /\ lease'[q] = lease[q]
          /\ q \in popped' <=> q \in popped

LEMMA LeaseStepOfKeeps ==
    ASSUME LeaseInv, NEW r \in Request, LeaseStepOf(r), OneLease(r)' PROVE LeaseInv'
BY DEF LeaseInv, LeaseStepOf, OneLease, Fixed, MaySwitch, Held

LEMMA LeaseInvInit == LeaseInit => LeaseInv
<1> SUFFICES ASSUME LeaseInit PROVE LeaseInv
  OBVIOUS
<1>1. /\ pc = [r \in Request |-> "new"]
      /\ accountID = [r \in Request |-> NoAccount]
      /\ target = [r \in Request |-> NoAccount]
      /\ holding = [r \in Request |-> NoAccount]
      /\ lease = [r \in Request |-> "none"] /\ popped = {}
  BY Zenon DEF LeaseInit, AuthInit, Init
<1> QED
  BY <1>1 DEF LeaseInv, LeaseDomains, OneLease, Fixed, Held, Preparing, Without

(* Steps that only move a request on. *)
LEMMA LeaseMoveKeeps ==
    ASSUME LeaseInv, NEW r \in Request, NEW p, pc' = [pc EXCEPT ![r] = p],
           UNCHANGED <<accountID, target, holding, lease, popped>>,
           pc[r] # "new",
           r \in Direct => p \in {"held", "left", "calling", "idle", "using"},
           Fixed(r) => IF lease[r] = "none"
                       THEN \/ pc[r] \in Preparing /\ p \in Preparing
                            \/ pc[r] \in Without /\ p \in Without \ {"new"}
                       ELSE p \in Under,
           p # "new"
    PROVE  LeaseInv'
<1>1. LeaseStepOf(r)
  BY DEF LeaseInv, LeaseStepOf, LeaseDomains
<1>2. OneLease(r)'
  BY DEF LeaseInv, LeaseDomains, OneLease, Fixed, MaySwitch, Held, Preparing, Without, Under
<1> QED
  BY <1>1, <1>2, LeaseStepOfKeeps

LEMMA LeaseArrivesKeeps ==
    ASSUME LeaseInv, NEW r \in Request, Arrives(r), UNCHANGED leaseVars PROVE LeaseInv'
<1>1. UNCHANGED <<accountID, holding, lease, popped>> /\ pc[r] = "new"
  BY DEF Arrives, DirectArrives, ManagedArrives, Arrive, leaseVars, At
<1>2. /\ DOMAIN target' = Request
      /\ \A q \in Request \ {r} : target'[q] = target[q]
      /\ \/ r \in Direct /\ pc' = [pc EXCEPT ![r] = "held"]
         \/ r \notin Direct /\ pc' = [pc EXCEPT ![r] = "loop"]
  BY DEF Arrives, DirectArrives, ManagedArrives, Arrive, Goto, LeaseInv, LeaseDomains
<1>3. LeaseStepOf(r)
  BY <1>1, <1>2 DEF LeaseInv, LeaseStepOf, LeaseDomains
<1>4. lease[r] = "none" /\ holding[r] = NoAccount
  BY <1>1 DEF LeaseInv, OneLease, Fixed, Held, Preparing, Without, Under
<1>5. OneLease(r)'
  BY <1>1, <1>2, <1>4
     DEF LeaseInv, LeaseDomains, OneLease, Fixed, MaySwitch, Held, Preparing, Without
<1> QED
  BY <1>3, <1>5, LeaseStepOfKeeps

(* Steps in which a request that can switch takes, trades or gives back an  *)
(* account.                                                                 *)
LEMMA LeaseSwitchingKeeps ==
    ASSUME LeaseInv, NEW r \in Request, MaySwitch(r), LeaseStepOf(r),
           UNCHANGED <<target, lease, popped>>, pc'[r] # "new"
    PROVE  LeaseInv'
<1>1. OneLease(r)'
  BY DEF LeaseInv, OneLease, Fixed, MaySwitch
<1> QED
  BY <1>1, LeaseStepOfKeeps

(* An account is taken before there is a lease. *)
LEMMA LeaseAcquireKeeps ==
    ASSUME LeaseInv, NEW r \in Request, Acquire(r), UNCHANGED leaseVars PROVE LeaseInv'
<1> DEFINE a == Choice(target[r], tried[r])
<1>1. /\ pc[r] = "enter" /\ UNCHANGED <<target, lease, popped>>
      /\ TryAcquire(r, "ensure", "left")
  BY DEF Acquire, TryAcquire, leaseVars
<1>2. r \notin Direct /\ (Fixed(r) => lease[r] = "none")
  BY <1>1 DEF LeaseInv, OneLease, Under
<1>3. CASE r \notin gone /\ a # NoAccount
  <2>1. /\ accountID' = [accountID EXCEPT ![r] = a]
        /\ holding' = [holding EXCEPT ![r] = a]
        /\ pc' = [pc EXCEPT ![r] = "ensure"]
    BY <1>1, <1>3 DEF TryAcquire
  <2> HIDE DEF a
  <2>2. LeaseStepOf(r)
    BY <1>1, <2>1 DEF LeaseInv, LeaseStepOf, LeaseDomains
  <2>3. OneLease(r)'
    BY <1>1, <1>2, <2>1
       DEF LeaseInv, LeaseDomains, OneLease, Fixed, MaySwitch, Held, Preparing, Without
  <2> QED
    BY <2>2, <2>3, LeaseStepOfKeeps
<1>4. CASE ~(r \notin gone /\ a # NoAccount)
  <2>1. /\ UNCHANGED <<accountID, holding>>
        /\ pc' = [pc EXCEPT ![r] = "select"] \/ pc' = [pc EXCEPT ![r] = "left"]
    BY <1>1, <1>4 DEF TryAcquire
  <2> QED
    BY <1>1, <1>2, <2>1, LeaseMoveKeeps DEF Without
<1> QED
  BY <1>3, <1>4

LEMMA LeaseEnsureTokenKeeps ==
    ASSUME LeaseInv, NEW r \in Request, UNCHANGED leaseVars,
           NEW here, NEW ok, NEW login,
           EnsureToken(r, here, ok, login),
           \/ here = "ensure" /\ ok = "held" /\ login = "login"
           \/ here = "swEnsure" /\ ok = Back(r) /\ login = "swLogin"
    PROVE  LeaseInv'
<1>1. /\ pc[r] = here
      /\ pc' = [pc EXCEPT ![r] = ok] \/ pc' = [pc EXCEPT ![r] = login]
      /\ UNCHANGED <<accountID, target, holding, lease, popped>>
  BY DEF EnsureToken, At, Goto, leaseVars
<1>2. r \notin Direct
  BY <1>1 DEF LeaseInv, OneLease
<1>3. here = "swEnsure" => ~Fixed(r)
  BY <1>1 DEF LeaseInv, OneLease, Preparing, Without, Under
<1>4. here = "ensure" => (Fixed(r) => lease[r] = "none")
  BY <1>1 DEF LeaseInv, OneLease, Under
<1> QED
  BY <1>1, <1>2, <1>3, <1>4, LeaseMoveKeeps DEF Back, Preparing

LEMMA LeaseLoginSucceedsKeeps ==
    ASSUME LeaseInv, NEW r \in Request, UNCHANGED leaseVars,
           NEW here, NEW ok,
           LoginSucceeds(r, here, ok),
           \/ here = "login" /\ ok = "held"
           \/ here \in {"swLogin", "refresh"} /\ ok = Back(r)
    PROVE  LeaseInv'
<1>1. /\ pc[r] = here /\ pc' = [pc EXCEPT ![r] = ok]
      /\ UNCHANGED <<accountID, target, holding, lease, popped>>
  BY DEF LoginSucceeds, At, Goto, leaseVars
<1>2. r \notin Direct
  BY <1>1 DEF LeaseInv, OneLease
<1>3. here = "swLogin" => ~Fixed(r)
  BY <1>1 DEF LeaseInv, OneLease, Preparing, Without, Under
<1>4. here = "login" => (Fixed(r) => lease[r] = "none")
  BY <1>1 DEF LeaseInv, OneLease, Under
<1> QED
  BY <1>1, <1>2, <1>3, <1>4, LeaseMoveKeeps DEF Back, Preparing, Under

LEMMA LeaseDetermineFailsKeeps ==
    ASSUME LeaseInv, NEW r \in Request, DetermineFails(r), UNCHANGED leaseVars
    PROVE  LeaseInv'
<1>1. /\ pc[r] = "login" /\ UNCHANGED <<accountID, target, lease, popped>>
      /\ holding' = [holding EXCEPT ![r] = NoAccount]
      /\ pc' = [pc EXCEPT ![r] = "left"] \/ pc' = [pc EXCEPT ![r] = "loop"]
  BY DEF DetermineFails, LoginFails, Disown, At, Goto, leaseVars
<1>2. r \notin Direct /\ (Fixed(r) => lease[r] = "none")
  BY <1>1 DEF LeaseInv, OneLease, Under
<1>3. LeaseStepOf(r)
  BY <1>1 DEF LeaseInv, LeaseStepOf, LeaseDomains
<1>4. OneLease(r)'
  BY <1>1, <1>2
     DEF LeaseInv, LeaseDomains, OneLease, Fixed, MaySwitch, Held, Preparing, Without
<1> QED
  BY <1>3, <1>4, LeaseStepOfKeeps

LEMMA LeaseDetermineKeeps ==
    ASSUME LeaseInv, NEW r \in Request, Determine(r), UNCHANGED leaseVars PROVE LeaseInv'
<1>1. CASE LoopHead(r) \/ Queued(r)
  <2>1. /\ pc[r] \in {"loop", "select"}
        /\ pc' = [pc EXCEPT ![r] = "left"] \/ pc' = [pc EXCEPT ![r] = "enter"]
        /\ UNCHANGED <<accountID, target, holding, lease, popped>>
    BY <1>1 DEF LoopHead, Queued, WakeUp, GiveUp, Waiting, At, Goto, leaseVars
  <2>2. r \notin Direct /\ (Fixed(r) => lease[r] = "none")
    BY <2>1 DEF LeaseInv, OneLease, Under
  <2> QED
    BY <2>1, <2>2, LeaseMoveKeeps DEF Without
<1>2. CASE Acquire(r)
  BY <1>2, LeaseAcquireKeeps
<1>3. CASE EnsureToken(r, "ensure", "held", "login")
  BY <1>3, LeaseEnsureTokenKeeps
<1>4. CASE LoginSucceeds(r, "login", "held")
  BY <1>4, LeaseLoginSucceedsKeeps
<1>5. CASE DetermineFails(r)
  BY <1>5, LeaseDetermineFailsKeeps
<1> QED
  BY <1>1, <1>2, <1>3, <1>4, <1>5 DEF Determine

(* What a request does in a switch, it does because it can. *)
LEMMA LeaseSwitchKeeps ==
    ASSUME LeaseInv, NEW r \in Request, UNCHANGED leaseVars,
           SwitchReleases(r, Calls) \/ SwitchTries(r, "stuck") \/ SwitchFails(r)
    PROVE  LeaseInv'
<1>1. UNCHANGED <<target, lease, popped>>
  BY DEF SwitchReleases, SwitchTries, SwitchFails, LoginFails, leaseVars
<1>2. SwitchReleases(r, Calls) \/ pc[r] \in {"swTry", "swLogin"}
  BY DEF SwitchTries, SwitchFails, LoginFails, At
<1>3. MaySwitch(r)
  <2>1. CASE SwitchReleases(r, Calls)
    BY <2>1 DEF SwitchReleases
  <2>2. CASE pc[r] \in {"swTry", "swLogin"}
    BY <2>2 DEF LeaseInv, OneLease, Fixed, Preparing, Without, Under
  <2> QED
    BY <1>2, <2>1, <2>2
<1>4. LeaseStepOf(r) /\ pc'[r] # "new"
  <2>1. CASE SwitchReleases(r, Calls) \/ SwitchFails(r)
    <3>1. /\ accountID' = accountID
          /\ holding' = [holding EXCEPT ![r] = NoAccount]
          /\ pc' = [pc EXCEPT ![r] = "swTry"]
      BY <2>1 DEF SwitchReleases, SwitchFails, LoginFails, Disown, Goto
    <3> QED
      BY <1>1, <3>1 DEF LeaseInv, LeaseStepOf, LeaseDomains
  <2>2. CASE SwitchTries(r, "stuck")
    <3> DEFINE a == Choice(NoAccount, tried[r])
    <3>1. \/ /\ accountID' = [accountID EXCEPT ![r] = a]
             /\ holding' = [holding EXCEPT ![r] = a]
             /\ pc' = [pc EXCEPT ![r] = "swEnsure"]
          \/ /\ UNCHANGED <<accountID, holding>>
             /\ pc' = [pc EXCEPT ![r] = "stuck"]
      BY <2>2 DEF SwitchTries, Goto
    <3> HIDE DEF a
    <3> QED
      BY <1>1, <3>1 DEF LeaseInv, LeaseStepOf, LeaseDomains
  <2> QED
    BY <2>1, <2>2
<1> QED
  BY <1>1, <1>3, <1>4, LeaseSwitchingKeeps

LEMMA LeaseRefreshKeeps ==
    ASSUME LeaseInv, NEW r \in Request, UNCHANGED leaseVars,
           RefreshStarts(r, Calls) \/ RefreshFails(r, Back(r))
    PROVE  LeaseInv'
<1>1. UNCHANGED <<accountID, target, holding, lease, popped>>
  BY DEF RefreshStarts, RefreshFails, LoginFails, leaseVars
<1>2. CASE RefreshStarts(r, Calls)
  <2>1. r \notin Direct /\ pc[r] \in Calls /\ pc' = [pc EXCEPT ![r] = "refresh"]
    BY <1>2 DEF RefreshStarts, Goto
  <2>2. Fixed(r) /\ lease[r] = "none" => pc[r] \in Preparing
    BY <2>1 DEF LeaseInv, OneLease, Calls, Preparing, Without
  <2> QED
    BY <1>1, <2>1, <2>2, LeaseMoveKeeps DEF Calls, Preparing, Under
<1>3. CASE RefreshFails(r, Back(r))
  <2>1. pc[r] = "refresh" /\ pc' = [pc EXCEPT ![r] = Back(r)]
    BY <1>3 DEF RefreshFails, LoginFails, At, Goto
  <2>2. r \notin Direct
    BY <2>1 DEF LeaseInv, OneLease
  <2> QED
    BY <1>1, <2>1, <2>2, LeaseMoveKeeps DEF Back, Preparing, Under
<1> QED
  BY <1>2, <1>3

LEMMA LeaseDeepSeekCallKeeps ==
    ASSUME LeaseInv, NEW r \in Request, DeepSeekCall(r) PROVE LeaseInv'
<1>1. UNCHANGED leaseVars
  BY DEF DeepSeekCall
<1>2. CASE EnsureToken(r, "swEnsure", Back(r), "swLogin")
  BY <1>1, <1>2, LeaseEnsureTokenKeeps
<1>3. CASE LoginSucceeds(r, "swLogin", Back(r)) \/ LoginSucceeds(r, "refresh", Back(r))
  BY <1>1, <1>3, LeaseLoginSucceedsKeeps
<1> QED
  BY <1>1, <1>2, <1>3, LeaseSwitchKeeps, LeaseRefreshKeeps DEF DeepSeekCall, Switch, Refresh

(* Starts and ends of the handlers, and the wait after a failed switch. *)
LEMMA LeaseHandlerKeeps ==
    ASSUME LeaseInv, NEW r \in Request, Stuck(r) \/ EndpointStarts(r) \/ EndpointEnds(r)
    PROVE  LeaseInv'
<1>1. UNCHANGED <<accountID, target, holding, lease, popped>>
  BY DEF Stuck, EndpointStarts, EndpointEnds, KeepAuth, leaseVars
<1>2. CASE Stuck(r)
  <2>1. pc[r] = "stuck" /\ pc' = [pc EXCEPT ![r] = Back(r)]
    BY <1>2 DEF Stuck, At, Goto
  <2>2. ~Fixed(r) /\ r \notin Direct
    BY <2>1 DEF LeaseInv, OneLease, Preparing, Without, Under
  <2> QED
    BY <1>1, <2>1, <2>2, LeaseMoveKeeps DEF Back
<1>3. CASE EndpointStarts(r)
  <2>1. pc[r] = "idle" /\ pc' = [pc EXCEPT ![r] = "using"] /\ lease[r] = "held"
    BY <1>3 DEF EndpointStarts, At, Goto, Leased
  <2> QED
    BY <1>1, <2>1, LeaseMoveKeeps DEF Under
<1>4. CASE EndpointEnds(r)
  <2>1. pc[r] = "using" /\ pc' = [pc EXCEPT ![r] = "idle"]
    BY <1>4 DEF EndpointEnds, At, Goto
  <2>2. Fixed(r) => lease[r] # "none"
    BY <2>1 DEF LeaseInv, OneLease, Preparing, Without
  <2> QED
    BY <1>1, <2>1, <2>2, LeaseMoveKeeps DEF Under
<1> QED
  BY <1>2, <1>3, <1>4

LEMMA PrepareHoldsKeeps ==
    ASSUME LeaseInv, NEW r \in Request, PrepareHolds(r) PROVE LeaseInv'
<1>1. /\ pc[r] \in {"held", "calling"} /\ lease[r] = "none"
      /\ lease' = [lease EXCEPT ![r] = "held"]
      /\ pc' = [pc EXCEPT ![r] = "idle"]
      /\ UNCHANGED <<accountID, target, holding, popped>>
  BY DEF PrepareHolds, Goto, KeepAuth
<1>2. LeaseStepOf(r)
  BY <1>1 DEF LeaseInv, LeaseStepOf, LeaseDomains
<1>3. OneLease(r)'
  BY <1>1 DEF LeaseInv, LeaseDomains, OneLease, Fixed, MaySwitch, Held, Preparing, Under
<1> QED
  BY <1>2, <1>3, LeaseStepOfKeeps

LEMMA PrepareFailsKeeps ==
    ASSUME LeaseInv, NEW r \in Request, PrepareFails(r) PROVE LeaseInv'
<1>1. /\ pc[r] \in {"held", "calling"} /\ lease[r] = "none"
      /\ holding' = [holding EXCEPT ![r] = NoAccount]
      /\ pc' = [pc EXCEPT ![r] = "left"]
      /\ UNCHANGED <<accountID, target, lease, popped>>
  BY DEF PrepareFails, ReleaseAuth, Goto, leaseVars
<1>2. LeaseStepOf(r)
  BY <1>1 DEF LeaseInv, LeaseStepOf, LeaseDomains
<1>3. OneLease(r)'
  BY <1>1 DEF LeaseInv, LeaseDomains, OneLease, Fixed, MaySwitch, Held, Preparing, Without
<1> QED
  BY <1>2, <1>3, LeaseStepOfKeeps

(* Several leases may be popped in one critical section: each passes its    *)
(* account to the popper.                                                   *)
LEMMA PopKeeps ==
    ASSUME LeaseInv, NEW rs \in SUBSET {r \in Request : Leased(r)}, Pop(rs) PROVE LeaseInv'
<1>1. /\ lease' = [r \in Request |-> IF r \in rs THEN "gone" ELSE lease[r]]
      /\ popped' = popped \cup rs
      /\ UNCHANGED <<pc, accountID, target, holding>>
  BY DEF Pop, KeepAuth
<1>2. LeaseDomains'
  BY <1>1 DEF LeaseInv, LeaseDomains
<1>3. ASSUME NEW r \in Request PROVE OneLease(r)'
  BY <1>1 DEF LeaseInv, OneLease, Fixed, MaySwitch, Held, Leased
<1> QED
  BY <1>2, <1>3 DEF LeaseInv

LEMMA PoppedReleasedKeeps ==
    ASSUME LeaseInv, NEW r \in Request, PoppedReleased(r) PROVE LeaseInv'
<1>1. /\ r \in popped /\ popped' = popped \ {r}
      /\ holding' = [holding EXCEPT ![r] = NoAccount]
      /\ UNCHANGED <<pc, accountID, target, lease>>
  BY DEF PoppedReleased
<1>2. LeaseStepOf(r)
  BY <1>1 DEF LeaseInv, LeaseStepOf, LeaseDomains
<1>3. OneLease(r)'
  BY <1>1 DEF LeaseInv, LeaseDomains, OneLease, Fixed, MaySwitch, Held
<1> QED
  BY <1>2, <1>3, LeaseStepOfKeeps

LEMMA LeaseUnchanged == LeaseInv /\ UNCHANGED leased => LeaseInv'
BY DEF LeaseInv, LeaseDomains, OneLease, Fixed, MaySwitch, Held, leased

(* Only leases of requests expire and are popped. *)
OfRequests == expired \subseteq Request /\ popped \subseteq Request

LEMMA OfRequestsStep == OfRequests /\ [LeaseNext]_leaseAll => OfRequests'
<1> SUFFICES ASSUME OfRequests, [LeaseNext]_leaseAll PROVE OfRequests'
  OBVIOUS
<1>1. ASSUME NEW r \in Request, Work(r) \/ EndpointStarts(r) PROVE UNCHANGED <<expired, popped>>
  BY <1>1 DEF Work, DeepSeekCall, Stuck, PrepareHolds, PrepareFails, EndpointEnds,
              EndpointStarts, leaseVars
<1>2. CASE Sweep
  BY <1>2 DEF Sweep, Pop, Overdue, OfRequests
<1>3. ASSUME NEW r \in Request, ReleaseCall(r) PROVE OfRequests'
  BY <1>3 DEF ReleaseCall, Pop, Overdue, OfRequests
<1>4. ASSUME NEW r \in Request, Expires(r) \/ PoppedReleased(r) PROVE OfRequests'
  BY <1>4 DEF Expires, PoppedReleased, OfRequests
<1>5. CASE UNCHANGED leaseAll
  BY <1>5 DEF leaseAll, leaseVars, OfRequests
<1> QED
  BY <1>1, <1>2, <1>3, <1>4, <1>5 DEF LeaseNext, OfRequests

LEMMA LeaseInvStep == LeaseInv /\ OfRequests /\ [LeaseNext]_leaseAll => LeaseInv'
<1> SUFFICES ASSUME LeaseInv, OfRequests, [LeaseNext]_leaseAll PROVE LeaseInv'
  OBVIOUS
<1>1. CASE Sweep
  <2>1. Overdue \in SUBSET {r \in Request : Leased(r)}
    BY DEF Overdue, OfRequests
  <2> QED
    BY <1>1, <2>1, PopKeeps DEF Sweep
<1>2. ASSUME NEW r \in Request, ReleaseCall(r) PROVE LeaseInv'
  <2>1. Overdue \cup {r} \in SUBSET {q \in Request : Leased(q)}
    BY <1>2 DEF ReleaseCall, Overdue, OfRequests
  <2> QED
    BY <1>2, <2>1, PopKeeps DEF ReleaseCall
<1>3. ASSUME NEW r \in Request, Work(r) PROVE LeaseInv'
  BY <1>3, LeaseArrivesKeeps, LeaseDetermineKeeps, LeaseDeepSeekCallKeeps, LeaseHandlerKeeps,
     PrepareHoldsKeeps, PrepareFailsKeeps DEF Work
<1>4. ASSUME NEW r \in Request, Expires(r) PROVE LeaseInv'
  BY <1>4, LeaseUnchanged DEF Expires, KeepAuth, leased
<1>5. CASE UNCHANGED leaseAll
  BY <1>5, LeaseUnchanged DEF leaseAll, allVars, vars, callerVars, leaseVars, leased
<1> QED
  BY <1>1, <1>2, <1>3, <1>4, <1>5, LeaseHandlerKeeps, PoppedReleasedKeeps DEF LeaseNext

(* Whatever calls the other runtime makes, in whatever order leases expire   *)
(* and are swept or released, an account that is taken has a handler at work *)
(* or a lease, or is about to be given back, by one holder alone             *)
(* (vercel_stream.go:42-48, 308-333, 373-422).                               *)
THEOREM LeaseOrWorkCorrect == LeaseSpec => []LeaseOrWork
<1>1. LeaseInv /\ OfRequests => LeaseOrWork
  <2> SUFFICES ASSUME LeaseInv, OfRequests PROVE LeaseOrWork
    OBVIOUS
  <2>1. ASSUME NEW r \in Request, ~MaySwitch(r) PROVE Accounted(r)
    BY <2>1 DEF LeaseInv, OneLease, Fixed, Held, Accounted, Leased, Working,
                Preparing, Without, Under
  <2>2. ASSUME NEW r \in popped
        PROVE  ~Leased(r) /\ (~MaySwitch(r) => holding[r] = accountID[r])
    BY <2>2 DEF LeaseInv, OfRequests, OneLease, Fixed, Held, Leased
  <2> QED
    BY <2>1, <2>2 DEF LeaseOrWork
<1>2. LeaseInit => OfRequests
  BY Zenon DEF LeaseInit, OfRequests
<1> QED
  BY <1>1, <1>2, LeaseInvInit, LeaseInvStep, OfRequestsStep, PTL DEF LeaseSpec
============================================================================
