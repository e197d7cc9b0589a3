----------------------------- MODULE HealthSweep -----------------------------
(***************************************************************************)
(* What one health-check sweep of auth.js visits while tokens are added to *)
(* and deleted from the array it iterates over.  The pool is that of       *)
(* module TokenPool; the variables here only record what the sweeps did.   *)
(***************************************************************************)
EXTENDS TokenPool

VARIABLES
    due,     \* per sweep: the entries alive when it started or added since
    probed,  \* per sweep: the entries it has asked chatglm.cn about
    cuts     \* per sweep: deletions at a place its iterator had passed

historyVars == <<due, probed, cuts>>
sweepVars   == <<poolVars, historyVars>>

Running(s) == sweep[s] # Idle

SweepInit ==
    /\ PoolInit
    /\ due = [s \in Tick |-> {}]
    /\ probed = [s \in Tick |-> {}]
    /\ cuts = [s \in Tick |-> 0]

(* The entry a step of sweep s moves to, if it does not end the sweep. *)
Visited(s) == IF sweep'[s].entry = NoEntry THEN {} ELSE {sweep'[s].entry}

Starts(s) ==
    /\ SweepStart(s)
    /\ due' = [due EXCEPT ![s] = {e \in Range(pool) : ~dead[e]}]
    /\ probed' = [probed EXCEPT ![s] = Visited(s)]
    /\ cuts' = [cuts EXCEPT ![s] = 0]

Continues(s) ==
    /\ \E answer \in Answer : SweepAnswer(s, answer)
    /\ probed' = [probed EXCEPT ![s] = @ \cup Visited(s)]
    /\ UNCHANGED <<due, cuts>>

Adds ==
    /\ \E answer \in Answer : \/ BootAnswer(answer)
                              \/ \E c \in AdminCall : AddAnswer(c, answer)
    /\ due' = [s \in Tick |-> due[s] \cup
                 IF Running(s) THEN Range(pool') \ Range(pool) ELSE {}]
    /\ UNCHANGED <<probed, cuts>>

Deletes ==
    \E i \in DOMAIN pool :
      /\ DeleteToken(i)
      /\ cuts' = [s \in Tick |-> cuts[s] +
                    IF Running(s) /\ i < sweep[s].next THEN 1 ELSE 0]
      /\ UNCHANGED <<due, probed>>

Asks == /\ \E c \in AdminCall, a \in Account : AddStart(c, a)
        /\ UNCHANGED historyVars

SweepNext == Adds \/ Deletes \/ Asks \/ \E s \in Tick : Starts(s) \/ Continues(s)

SweepSpec == SweepInit /\ [][SweepNext]_sweepVars

-----------------------------------------------------------------------------
(* Living entries due in sweep s that its iterator has left behind unasked. *)
Passed(s) == IF Running(s) THEN {pool[i] : i \in {j \in DOMAIN pool : j < sweep[s].next}}
                           ELSE Range(pool)
Missed(s) == {e \in due[s] \cap Passed(s) : ~dead[e] /\ e \notin probed[s]}

(* Deleting a token while a sweep awaits an answer makes the sweep jump     *)
(* over an entry (auth.js:122 under the iterator of auth.js:150); nothing   *)
(* else does: a sweep misses at most as many living tokens as were deleted  *)
(* at places it had passed, also counting those added while it runs.        *)
MissedPerDeletion == \A s \in Tick : Cardinality(Missed(s)) <= cuts[s]

=============================================================================
