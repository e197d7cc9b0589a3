---------------------------- MODULE StreamLease ----------------------------
(***************************************************************************)
(* The leases of ds2api on Vercel (httpapi/openai/chat/vercel_stream.go).  *)
(* There the stream is copied by a function of another runtime, between    *)
(* the calls it makes to this handler: prepare takes an account and stores *)
(* it under a lease, pow and switch use the account of the lease, release  *)
(* ends it.  A lease nobody releases expires and is swept by a later call. *)
(*                                                                         *)
(* Each critical section of leaseMu is one step; accounts are released     *)
(* after it.  pc is the prepare handler of a request until it has a lease  *)
(* and then its pow or switch handler, if one runs.                        *)
(***************************************************************************)
EXTENDS RequestAuth

VARIABLES
    lease,    \* streamLeases: none, held, gone
    expired,  \* requests whose lease is past its ExpiresAt
    popped    \* requests whose lease was popped and whose account was not yet released

leaseVars == <<lease, expired, popped>>
leaseAll == <<allVars, leaseVars>>

KeepAuth == UNCHANGED <<storeVars, queue, inUse, waiters, limits, target, tried, accountID,
                        gone, holding, woken, wasted, adminVars, authVars>>

Leased(r) == lease[r] = "held"

----------------------------------------------------------------------------
(* The DeepSeek calls of prepare, pow and switch: sessions, proofs of work, *)
(* uploads.  Each may refresh the token or switch the account on the way.   *)

Calls == {"held", "calling", "using"}

Back(r) == IF lease[r] = "none" THEN "calling" ELSE "using"

(* A failed switch is one attempt of the call; the next uses the old token. *)
Stuck(r) ==
    /\ At(r, "stuck")
    /\ Goto(r, Back(r))
    /\ KeepAuth
    /\ UNCHANGED leaseVars

DeepSeekCall(r) ==
    /\ \/ SwitchReleases(r, Calls)
       \/ Switch(r, Back(r), "stuck")
       \/ RefreshStarts(r, Calls)
       \/ Refresh(r, Back(r), Back(r))
    /\ UNCHANGED leaseVars

(* holdStreamLease, at the end of a successful prepare. *)
PrepareHolds(r) ==
    /\ pc[r] \in {"held", "calling"} /\ lease[r] = "none"
    /\ lease' = [lease EXCEPT ![r] = "held"]
    /\ Goto(r, "idle")
    /\ KeepAuth
    /\ UNCHANGED <<expired, popped>>

(* Prepare fails: the deferred function gives the account back. *)
PrepareFails(r) ==
    /\ lease[r] = "none"
    /\ ReleaseAuth(r, {"held", "calling"})
    /\ UNCHANGED leaseVars

(* lookupStreamLease, at the start of pow and of switch. *)
EndpointStarts(r) ==
    /\ At(r, "idle") /\ Leased(r) /\ r \notin expired
    /\ Goto(r, "using")
    /\ KeepAuth
    /\ UNCHANGED leaseVars

(* The end of pow, or of switch (updateStreamLeaseState changes nothing of  *)
(* a lease but its request and session, and nothing if it is gone).         *)
EndpointEnds(r) ==
    /\ At(r, "using")
    /\ Goto(r, "idle")
    /\ KeepAuth
    /\ UNCHANGED leaseVars

(* The time of a lease runs out. *)
Expires(r) ==
    /\ Leased(r) /\ r \notin expired
    /\ expired' = expired \cup {r}
    /\ KeepAuth
    /\ UNCHANGED <<pc, lease, popped>>

(* popExpiredLeasesLocked, in every call but pow; the release call takes    *)
(* its own lease too.                                                       *)
Pop(rs) ==
    /\ rs # {}
    /\ lease' = [r \in Request |-> IF r \in rs THEN "gone" ELSE lease[r]]
    /\ popped' = popped \cup rs
    /\ KeepAuth
    /\ UNCHANGED <<pc, expired>>

Overdue == {r \in expired : Leased(r)}

Sweep == Pop(Overdue)

(* Mutant: the account of a lease that is over is not given back. *)
PoppedReleasedNot(r) ==
    /\ r \in popped
    /\ popped' = popped \ {r}
    /\ UNCHANGED <<allVars, lease, expired>>

ReleaseCall(r) == Leased(r) /\ Pop(Overdue \cup {r})

(* releaseExpiredAuths, and the deferred Release of the release call. *)
PoppedReleased(r) ==
    /\ r \in popped
    /\ popped' = popped \ {r}
    /\ PoolRelease(accountID[r])
    /\ holding' = [holding EXCEPT ![r] = NoAccount]
    /\ UNCHANGED <<storeVars, queue, limits, pc, target, tried, accountID, gone, wasted,
                   adminVars, authVars, lease, expired>>

----------------------------------------------------------------------------
LeaseInit ==
    /\ AuthInit
    /\ lease = [r \in Request |-> "none"]
    /\ expired = {} /\ popped = {}

Work(r) ==
    \/ (Arrives(r) \/ Determine(r)) /\ UNCHANGED leaseVars
    \/ DeepSeekCall(r) \/ Stuck(r) \/ PrepareHolds(r) \/ PrepareFails(r) \/ EndpointEnds(r)

LeaseNext ==
    \/ Sweep
    \/ \E r \in Request : \/ Work(r) \/ EndpointStarts(r) \/ Expires(r)
                          \/ ReleaseCall(r) \/ PoppedReleased(r)

LeaseSpec == LeaseInit /\ [][LeaseNext]_leaseAll

(* Handlers go on, leases run out, and calls that sweep keep coming. *)
LeaseFairSpec ==
    /\ LeaseSpec
    /\ WF_leaseAll(Sweep)
    /\ \A r \in Request : /\ WF_leaseAll(Work(r)) /\ WF_leaseAll(Expires(r))
                          /\ WF_leaseAll(PoppedReleased(r))

----------------------------------------------------------------------------
Working(r) == pc[r] \notin {"new", "left", "idle"}

Accounted(r) == holding[r] # NoAccount => Leased(r) \/ r \in popped \/ Working(r)

(* If the calls of the request may not switch accounts, an account that is   *)
(* taken is in the hands of a handler at work or of a lease, or about to be  *)
(* given back; and whoever pops a lease has it alone, so that the account is *)
(* given back once (vercel_stream.go:42-48, 308-333, 373-422).               *)
LeaseOrWork ==
    /\ \A r \in Request : ~MaySwitch(r) => Accounted(r)
    /\ \A r \in popped : ~Leased(r) /\ (~MaySwitch(r) => holding[r] = accountID[r])

(* Whatever the other runtime does, a lease ends and its account is given   *)
(* back (http_internal.js:187; popExpiredLeasesLocked, 394-406).            *)
LeaseReturned(r) == Leased(r) /\ ~MaySwitch(r) ~> holding[r] = NoAccount

(* http_internal.js:187, "Lease TTL cleanup on Go side still prevents        *)
(* permanent leaks": an account in use has a lease, which expires, or a      *)
(* handler, which ends.  A lease that is swept while its switch handler runs *)
(* takes back the old account; the new one stays taken (225-255).            *)
NoPermanentLeak == \A r \in Request : Accounted(r)
============================================================================
