----------------------------- MODULE MCTokenPool -----------------------------
(***************************************************************************)
(* Small instances of TokenPool and of HealthSweep, checked together: a    *)
(* behaviour picks one part, "pool" (any callers, admin calls, sweeps) or  *)
(* "sweep" (what two sweeps visit), and runs that part alone.              *)
(***************************************************************************)
EXTENDS HealthSweep

CONSTANTS a1, a2

OneConfigured == <<a1>>
Interchangeable == Permutations(Holder) \cup Permutations(Tick)

VARIABLE part

(* The sweeps of a smaller pool. *)
Sweeps == INSTANCE HealthSweep WITH
    Account <- {a1}, Configured <- <<a1, a1>>, DeadThreshold <- 1

partVars == <<part, sweepVars>>

PartInit ==
    \/ /\ part = "pool" /\ PoolInit
       /\ due = [s \in Tick |-> {}] /\ probed = due /\ cuts = [s \in Tick |-> 0]
    \/ part = "sweep" /\ Sweeps!SweepInit

(* Two entries in the pool part; three in the other, where a success always *)
(* brings a token: the sweeps do not look at it.                            *)
PartNext ==
    \/ /\ part = "pool" /\ PoolNext /\ nextId' <= MaxEntry
       /\ UNCHANGED <<part, historyVars>>
    \/ /\ part = "sweep" /\ Sweeps!SweepNext /\ UNCHANGED part
       /\ \A e \in EntryId : token'[e] <=> e < nextId'

PartSpec == PartInit /\ [][PartNext]_partVars

(* README.en.md:101, "Max concurrent requests per token": requests in flight *)
(* on one refresh token, over all the entries that were created for it       *)
(* (auth.js:94-124).                                                         *)
OnAccount(a) == {h \in Holder : slot[h] # NoEntry /\ ~released[h] /\ account[slot[h]] = a}
PerTokenLimit == \A a \in Account : Cardinality(OnAccount(a)) <= MaxConcurrent

=============================================================================
