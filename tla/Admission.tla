------------------------------ MODULE Admission ------------------------------
(***************************************************************************)
(* What the pool and the waiting queue together promise to the requests of *)
(* the proxy: every request is admitted to a lane (a token) at most once,  *)
(* or is turned away; a lane never has more than Limit requests on it;     *)
(* those who wait are admitted in the order in which they joined.          *)
(*                                                                         *)
(* Lane occupancy is a set here; the code keeps a counter per entry, and a *)
(* flag per slot and per waiter, to the same effect.                       *)
(***************************************************************************)
EXTENDS Integers, Sequences, FiniteSets, SequencesExt

CONSTANTS Request, Lane, NoLane, Limit, MaxWaiting

VARIABLES
    line,   \* the waiting requests
    lane,   \* the lane a request is on
    gone    \* requests that have left, served or not

admissionVars == <<line, lane, gone>>

Occupants(l) == {r \in Request : lane[r] = l}
HasRoom(l)   == Cardinality(Occupants(l)) < Limit
Fresh(r)     == r \notin gone /\ lane[r] = NoLane /\ r \notin Range(line)

Init ==
    /\ line = <<>>
    /\ lane = [r \in Request |-> NoLane]
    /\ gone = {}

Admit(r, l) ==
    /\ HasRoom(l)
    /\ lane' = [lane EXCEPT ![r] = l]
    /\ gone' = gone

AdmitNewcomer(r, l) == Fresh(r) /\ Admit(r, l) /\ line' = line

AdmitHead(l) ==
    /\ line # <<>>
    /\ Admit(Head(line), l)
    /\ line' = Tail(line)

Join(r) ==
    /\ Fresh(r)
    /\ Len(line) < MaxWaiting
    /\ line' = Append(line, r)
    /\ UNCHANGED <<lane, gone>>

Refuse(r) ==
    /\ Fresh(r)
    /\ Len(line) >= MaxWaiting
    /\ gone' = gone \cup {r}
    /\ UNCHANGED <<line, lane>>

GiveUp(i) ==
    /\ line' = RemoveAt(line, i)
    /\ gone' = gone \cup {line[i]}
    /\ lane' = lane

Leave(r) ==
    /\ lane[r] # NoLane
    /\ lane' = [lane EXCEPT ![r] = NoLane]
    /\ gone' = gone \cup {r}
    /\ line' = line

Next ==
    \/ \E r \in Request : Join(r) \/ Refuse(r) \/ Leave(r)
    \/ \E l \in Lane : AdmitHead(l) \/ \E r \in Request : AdmitNewcomer(r, l)
    \/ \E i \in DOMAIN line : GiveUp(i)

Spec == Init /\ [][Next]_admissionVars

=============================================================================
