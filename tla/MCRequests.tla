----------------------------- MODULE MCRequests -----------------------------
(***************************************************************************)
(* Small instances of the modules about the requests of ds2api, checked    *)
(* together: a behaviour picks one part and runs that part alone.          *)
(*   pool   requests that only take and give back accounts (AccountPool)   *)
(*   auth   requests that log in, refresh and switch (RequestAuth)         *)
(*   flow   a completion from its account to its answer (Completion)       *)
(*   lease  the leases of the stream copied elsewhere (StreamLease)        *)
(***************************************************************************)
EXTENDS Completion, StreamLease

CONSTANTS
    a1, a2, r1, r2, r3,
    Part      \* the parts of a run

(* The bounds of each part. *)
CONSTANTS
    Requests,    \* managed requests that arrive
    DirectToo,   \* parts with requests that bring their own token
    AdminCalls,  \* admin calls
    Renewals,    \* switches and refreshes of a request
    Targets,     \* accounts asked for
    Starts,      \* accounts configured at start
    LimitsOf,    \* limits an operator sets
    Order        \* requests that arrive in this order, if at all

Two == {<<a1, a2>>}
OneOrTwo == {<<a1>>, <<a1, a2>>}
Narrow == [per |-> 1, queue |-> 2, global |-> 1]
OneEach == [per |-> 1, queue |-> 2, global |-> 2]
TwoEach == [per |-> 2, queue |-> 2, global |-> 2]
AllLimits == {Narrow, OneEach, TwoEach}

Of(p, a, f, l) == [pool |-> p, auth |-> a, flow |-> f, lease |-> l]

SafetyRequests == Of(3, 2, 1, 2)
SafetyAdmin    == Of(1, 1, 0, 0)
SafetyRenewals == Of(0, 1, 20, 1)
SafetyTargets  == Of({NoAccount, a1}, {NoAccount}, {NoAccount, a1}, {NoAccount, a1, a2})
SafetyStarts   == Of(Two, Two, Two, Two)
SafetyLimits   == Of({Narrow, OneEach}, {OneEach}, {OneEach}, {OneEach})

LiveRequests == Of(3, 2, 1, 2)
LiveAdmin    == Of(1, 0, 0, 0)
LiveRenewals == Of(0, 1, 20, 1)
LiveTargets  == Of({NoAccount}, {NoAccount}, {NoAccount}, {a1, a2})
LiveStarts   == Of({<<a1>>}, Two, Two, Two)
LiveLimits   == Of({OneEach, TwoEach}, {OneEach}, {OneEach}, {OneEach})

(* Arriving has no effect on others: the order of the arrivals may be fixed. *)
AnyOrder == <<>>
InOrder  == <<r1, r2, r3>>

FindRequests == Of(0, 3, 0, 1)
FindRenewals == Of(0, 1, 0, 2)
FindAdmin    == Of(0, 0, 0, 0)
FindTargets  == Of({NoAccount}, {NoAccount}, {NoAccount}, {NoAccount})
FindStarts   == Of(Two, {<<a1>>}, Two, Two)
OnlyOneEach  == {OneEach}

Interchangeable == Permutations(Request \ Direct)

VARIABLE part

allParts == <<part, everything, leaseVars>>

PartInit ==
    /\ part \in Part
    /\ FlowInit
    /\ lease = [r \in Request |-> "none"] /\ expired = {} /\ popped = {}
    /\ stored \in Starts[part] /\ limits \in LimitsOf[part]

Bounded ==
    /\ Cardinality({r \in Request \ Direct : pc'[r] # "new"}) <= Requests[part]
    /\ part \in DirectToo \/ \A r \in Direct : pc'[r] = "new"
    /\ calls' <= AdminCalls[part]
    /\ \A r \in Request : renewals'[r] <= Renewals[part]
    /\ \A r \in Request \ Direct : pc'[r] # "new" => target'[r] \in Targets[part]
    /\ limits' \in LimitsOf[part]
    /\ \A i \in 2 .. Len(Order) : pc'[Order[i]] # "new" => pc'[Order[i - 1]] # "new"

PoolStep(A)  ==
    part = "pool" /\ A /\ UNCHANGED <<part, authVars, flowVars, leaseVars>> /\ Bounded
AuthStep(A)  == part = "auth" /\ A /\ UNCHANGED <<part, flowVars, leaseVars>> /\ Bounded
FlowStep(A)  == part = "flow" /\ A /\ UNCHANGED <<part, leaseVars>> /\ Bounded
LeaseStep(A) == part = "lease" /\ A /\ UNCHANGED <<part, flowVars>> /\ Bounded

PartNext == PoolStep(Next) \/ AuthStep(AuthNext) \/ FlowStep(FlowNext) \/ LeaseStep(LeaseNext)

PartSpec == PartInit /\ [][PartNext]_allParts

(* The steps each module is fair to, for its part; of one request they     *)
(* exclude each other.                                                      *)
Goes(r) ==
    \/ PoolStep(Wait(r) \/ Release(r))
    \/ AuthStep(\/ Determine(r) \/ Switch(r, "held", "stuck") \/ Refresh(r, "held", "held")
                \/ ReleaseAuth(r, {"held", "stuck"}))
    \/ FlowStep((Determine(r) /\ UNCHANGED flowVars) \/ Handle(r))
    \/ LeaseStep(Work(r))

PartFairSpec ==
    /\ PartSpec
    /\ \A m \in Admin : WF_allParts(PoolStep(ResetReads(m) \/ ResetApplies(m)))
    /\ WF_allParts(LeaseStep(Sweep))
    /\ \A r \in Request : /\ WF_allParts(Goes(r))
                          /\ WF_allParts(LeaseStep(Expires(r) \/ PoppedReleased(r)))

-----------------------------------------------------------------------------
(* Requests are interchangeable, so that what is promised to one of them is *)
(* promised to all.                                                         *)

(* A waiting request is served unless a wake-up was wasted                  *)
(* (pool_acquire.go:15-47).                                                 *)
WaitersServed == WaiterServed(r1)

(* The search for an account ends (request.go:81-120). *)
SearchEnds == DetermineEnds(r1)

(* A request with an account is answered and ends (client_auth.go:53-159,   *)
(* stream_retry.go:39-147).                                                 *)
CompletionEnds == RequestEnds(r1)

(* A lease ends and its account is given back (vercel_stream.go:394-406).   *)
LeasesReturned == LeaseReturned(r1)

============================================================================
