---------------------------- MODULE AccountPool ----------------------------
(***************************************************************************)
(* The pool of DeepSeek accounts of ds2api (internal/account), shared by   *)
(* the goroutines of all requests and by the admin handlers.               *)
(*                                                                         *)
(* A critical section of Pool.mu is one step.  A request that finds no     *)
(* account joins the waiters with a channel made for that wait; releasing  *)
(* an account closes the channel of the first waiter, which then competes  *)
(* for an account again.  Reset is two steps: it reads the accounts of the *)
(* configuration store before it takes the lock.                           *)
(***************************************************************************)
EXTENDS Subsequences, SequencesExt, FiniteSetsExt

CONSTANTS
    Account, NoAccount, \* account identifiers, and ""
    Request,            \* the goroutines that serve requests
    Admin,              \* the goroutines that serve admin calls
    Target,             \* what X-Ds2-Target-Account may ask for; NoAccount: nothing
    Limits,             \* the limits an operator may set: [per, queue, global]
    StartAccounts,      \* the lists of accounts an operator may start with
    MaxAdminCalls       \* bound: admin calls of a behaviour

ASSUME PoolAssumption ==
    /\ NoAccount \notin Account
    /\ IsFiniteSet(Request) /\ IsFiniteSet(Account)
    /\ Target \subseteq Account \cup {NoAccount}
    /\ Limits # {}
    /\ Limits \subseteq [per : Nat \ {0}, queue : Nat, global : Nat]
    /\ StartAccounts \subseteq Seq(Account)
    /\ MaxAdminCalls \in Nat

(* Admin calls refuse or merge an account that is there already; a            *)
(* configuration file written by hand that has one twice is left out.        *)
ASSUME AccountsOnce == \A s \in StartAccounts : IsInjective(s)

VARIABLES
    stored,    \* Store.Accounts(): the configured accounts, in order
    tokened,   \* the accounts whose Token is set in the store
    queue,     \* Pool.queue
    inUse,     \* Pool.inUse
    waiters,   \* Pool.waiters: the requests whose channel is in the list
    limits,    \* maxInflightPerAccount, maxQueueSize, globalMaxInflight
    pc,        \* what a request is doing
    target,    \* its target account
    tried,     \* the accounts it excludes
    accountID, \* RequestAuth.AccountID
    woken,     \* requests whose channel was closed and that have not tried since
    gone,      \* requests whose context is done
    holding,   \* history: the account a request was given and has not given back
    wasted,    \* history: a wake-up was spent while an account was free
    apc,       \* what an admin call is doing
    read,      \* the accounts a Reset has read
    calls      \* admin calls so far

storeVars  == <<stored, tokened>>
callerVars == <<pc, target, tried, accountID, gone, holding>>
adminVars  == <<apc, read, calls>>
vars == <<storeVars, queue, inUse, waiters, limits, callerVars, woken, wasted, adminVars>>

----------------------------------------------------------------------------
(* Decisions taken under Pool.mu. *)

InUseSlots == MapThenSumSet(LAMBDA a : inUse[a], Account)

(* A global limit of zero is none: it is what an empty pool is given. *)
CanAcquire(a) ==
    inUse[a] < limits.per /\ (limits.global = 0 \/ InUseSlots < limits.global)

(* An account must still be configured to be handed out. *)
Grantable(a, exclude) == a \notin exclude /\ CanAcquire(a) /\ Contains(stored, a)

(* acquireLocked: the target, which need not be in the queue, or the first *)
(* account of the queue that can be granted.                               *)
Choice(t, exclude) ==
    IF t # NoAccount
    THEN IF Grantable(t, exclude) THEN t ELSE NoAccount
    ELSE LET open == {i \in DOMAIN queue : Grantable(queue[i], exclude)}
         IN IF open = {} THEN NoAccount ELSE queue[Min(open)]

CanQueue(t, exclude) ==
    /\ t # NoAccount => t \notin exclude /\ Contains(stored, t)
    /\ Len(waiters) < limits.queue

(* A granted account goes to the end of the queue. *)
BumpQueue(a) ==
    queue' = IF Contains(queue, a) THEN Append(Dropping(queue, {a}), a) ELSE queue

Grant(a) ==
    /\ inUse' = [inUse EXCEPT ![a] = @ + 1]
    /\ BumpQueue(a)

NotifyWaiter ==
    /\ waiters' = IF waiters = <<>> THEN <<>> ELSE Tail(waiters)
    /\ woken' = IF waiters = <<>> THEN woken ELSE woken \cup {Head(waiters)}

(* Mutant: a release that nothing is counted for counts down all the same. *)
PoolReleaseUnfloored(a) ==
    IF a = NoAccount
    THEN UNCHANGED <<inUse, waiters, woken>>
    ELSE inUse' = [inUse EXCEPT ![a] = @ - 1] /\ NotifyWaiter

(* Mutant: the slot is not given back. *)
PoolReleaseKeeps(a) ==
    IF a = NoAccount \/ inUse[a] = 0
    THEN UNCHANGED <<inUse, waiters, woken>>
    ELSE UNCHANGED inUse /\ NotifyWaiter

PoolRelease(a) ==
    IF a = NoAccount \/ inUse[a] = 0
    THEN UNCHANGED <<inUse, waiters, woken>>
    ELSE /\ inUse' = [inUse EXCEPT ![a] = @ - 1]
         /\ NotifyWaiter

(* Some request that waits could be given an account now. *)
SomethingFree == \E a \in ToSet(queue) : CanAcquire(a)

----------------------------------------------------------------------------
(* Requests. *)

Waiting(r) == pc[r] = "select"

Arrive(r, first) ==
    /\ pc[r] = "new"
    /\ \E t \in Target : target' = [target EXCEPT ![r] = t]
    /\ pc' = [pc EXCEPT ![r] = first]
    /\ UNCHANGED <<storeVars, queue, inUse, waiters, limits, tried, accountID, gone,
                   holding, woken, wasted, adminVars>>

(* The client of a request goes away. *)
ContextDone(r) ==
    /\ pc[r] \in {"enter", "select"} /\ r \notin gone
    /\ gone' = gone \cup {r}
    /\ UNCHANGED <<storeVars, queue, inUse, waiters, limits, pc, target, tried, accountID,
                   holding, woken, wasted, adminVars>>

(* One round of AcquireWait up to the select. *)
TryAcquire(r, got, refused) ==
    LET a == Choice(target[r], tried[r]) IN
    /\ pc[r] = "enter"
    /\ woken' = woken \ {r}
    /\ IF r \notin gone /\ a # NoAccount
       THEN /\ Grant(a)
            /\ accountID' = [accountID EXCEPT ![r] = a]
            /\ holding' = [holding EXCEPT ![r] = a]
            /\ pc' = [pc EXCEPT ![r] = got]
            /\ UNCHANGED <<waiters, wasted>>
       ELSE /\ wasted' = (wasted \/ (r \in woken /\ SomethingFree))
            /\ IF r \notin gone /\ CanQueue(target[r], tried[r])
               THEN /\ waiters' = Append(waiters, r)
                    /\ pc' = [pc EXCEPT ![r] = "select"]
               ELSE pc' = [pc EXCEPT ![r] = refused] /\ UNCHANGED waiters
            /\ UNCHANGED <<queue, inUse, accountID, holding>>
    /\ UNCHANGED <<storeVars, limits, target, tried, gone, adminVars>>

(* The two branches of the select; when both are ready either may be taken. *)
WakeUp(r) ==
    /\ Waiting(r) /\ r \in woken
    /\ pc' = [pc EXCEPT ![r] = "enter"]
    /\ UNCHANGED <<storeVars, queue, inUse, waiters, limits, target, tried, accountID, gone,
                   holding, woken, wasted, adminVars>>

GiveUp(r, refused) ==
    /\ Waiting(r) /\ r \in gone
    /\ waiters' = Dropping(waiters, {r})
    /\ wasted' = (wasted \/ (r \in woken /\ SomethingFree))
    /\ woken' = woken \ {r}
    /\ pc' = [pc EXCEPT ![r] = refused]
    /\ UNCHANGED <<storeVars, queue, inUse, limits, target, tried, accountID, gone,
                   holding, adminVars>>

(* Pool.Release of what the request was given, once, at its end. *)
Release(r) ==
    /\ pc[r] = "served"
    /\ PoolRelease(accountID[r])
    /\ holding' = [holding EXCEPT ![r] = NoAccount]
    /\ pc' = [pc EXCEPT ![r] = "left"]
    /\ UNCHANGED <<storeVars, queue, limits, target, tried, accountID, gone, wasted, adminVars>>

----------------------------------------------------------------------------
(* Admin calls. *)

(* The queue of a Reset: accounts with a token come first. *)
TokensFirst == Dropping(stored, Account \ tokened) \o Dropping(stored, tokened)

(* The configuration of a call is stored; its Reset is still to come. *)
ChangeAccounts(m) ==
    /\ apc[m] = "idle" /\ calls < MaxAdminCalls
    /\ \/ \E a \in Account : ~Contains(stored, a) /\ stored' = Append(stored, a)
       \/ \E a \in ToSet(stored) : stored' = Dropping(stored, {a})
    /\ apc' = [apc EXCEPT ![m] = "changed"]
    /\ calls' = calls + 1
    /\ UNCHANGED <<tokened, queue, inUse, waiters, limits, callerVars, woken, wasted, read>>

(* Reset before the lock. *)
ResetReads(m) ==
    /\ apc[m] = "changed"
    /\ read' = [read EXCEPT ![m] = TokensFirst]
    /\ apc' = [apc EXCEPT ![m] = "resetting"]
    /\ UNCHANGED <<storeVars, queue, inUse, waiters, limits, callerVars, woken, wasted, calls>>

(* Mutant: the waiters are left in the list. *)
ResetAppliesUndrained(m) ==
    /\ apc[m] = "resetting"
    /\ queue' = read[m]
    /\ inUse' = [a \in Account |-> 0]
    /\ \E l \in Limits : limits' = l
    /\ apc' = [apc EXCEPT ![m] = "idle"]
    /\ read' = [read EXCEPT ![m] = <<>>]
    /\ UNCHANGED <<waiters, woken, storeVars, callerVars, wasted, calls>>

(* Reset under the lock: the counters start again and everybody is woken. *)
(* The limits follow the configuration.                                   *)
ResetApplies(m) ==
    /\ apc[m] = "resetting"
    /\ queue' = read[m]
    /\ inUse' = [a \in Account |-> 0]
    /\ woken' = woken \cup ToSet(waiters)
    /\ waiters' = <<>>
    /\ \E l \in Limits : limits' = l
    /\ apc' = [apc EXCEPT ![m] = "idle"]
    /\ read' = [read EXCEPT ![m] = <<>>]
    /\ UNCHANGED <<storeVars, callerVars, wasted, calls>>

(* Hot reload of the limits wakes one waiter, however many slots it adds. *)
ApplyRuntimeLimits(m) ==
    /\ apc[m] = "idle" /\ calls < MaxAdminCalls
    /\ \E l \in Limits \ {limits} : limits' = l
    /\ NotifyWaiter
    /\ wasted' = (wasted \/ Len(waiters) > 1)
    /\ calls' = calls + 1
    /\ UNCHANGED <<storeVars, queue, inUse, callerVars, apc, read>>

Upkeep == \E m \in Admin :
    \/ ChangeAccounts(m) \/ ResetReads(m) \/ ResetApplies(m) \/ ApplyRuntimeLimits(m)

----------------------------------------------------------------------------
Init ==
    /\ stored \in StartAccounts /\ tokened \in SUBSET ToSet(stored)
    /\ queue = TokensFirst
    /\ inUse = [a \in Account |-> 0]
    /\ waiters = <<>> /\ limits \in Limits
    /\ pc = [r \in Request |-> "new"]
    /\ target = [r \in Request |-> NoAccount]
    /\ tried = [r \in Request |-> {}]
    /\ accountID = [r \in Request |-> NoAccount]
    /\ woken = {} /\ gone = {}
    /\ holding = [r \in Request |-> NoAccount]
    /\ wasted = FALSE
    /\ apc = [m \in Admin |-> "idle"]
    /\ read = [m \in Admin |-> <<>>]
    /\ calls = 0

Wait(r) == TryAcquire(r, "served", "left") \/ WakeUp(r) \/ GiveUp(r, "left")

Next == \/ \E r \in Request : Arrive(r, "enter") \/ ContextDone(r) \/ Wait(r) \/ Release(r)
        \/ Upkeep

Spec == Init /\ [][Next]_vars

(* A goroutine that can run does so; requests end; an admin call that has *)
(* changed the configuration goes on to its Reset.                        *)
FairSpec ==
    /\ Spec
    /\ \A r \in Request : WF_vars(Wait(r)) /\ WF_vars(Release(r))
    /\ \A m \in Admin : WF_vars(ResetReads(m) \/ ResetApplies(m))

----------------------------------------------------------------------------
Users(a) == {r \in Request : holding[r] = a}

(* The shape of the state; the counters never fall below zero               *)
(* (pool_core.go:11-34, 83-100).                                            *)
TypeOK ==
    /\ stored \in Seq(Account) /\ IsInjective(stored) /\ tokened \subseteq Account
    /\ queue \in Seq(Account) /\ inUse \in [Account -> Nat]
    /\ waiters \in Seq(Request) /\ limits \in Limits
    /\ DOMAIN pc = Request
    /\ target \in [Request -> Account \cup {NoAccount}]
    /\ tried \in [Request -> SUBSET Account]
    /\ accountID \in [Request -> Account \cup {NoAccount}]
    /\ holding \in [Request -> Account \cup {NoAccount}]
    /\ woken \subseteq Request /\ gone \subseteq Request /\ wasted \in BOOLEAN
    /\ apc \in [Admin -> {"idle", "changed", "resetting"}]
    /\ read \in [Admin -> Seq(Account)] /\ calls \in 0 .. MaxAdminCalls

(* No capacity is lost: an account is never counted as used by more requests *)
(* than have it, whatever Reset forgets (Release, pool_core.go:83-100).      *)
NoSlotLeak == \A a \in Account : inUse[a] <= Cardinality(Users(a))

(* A waiting request leaves the line, unless a wake-up was wasted (given to  *)
(* a request that had gone or wanted another account, or shared by several   *)
(* new slots) or the last account was removed while it waited (AcquireWait,  *)
(* pool_acquire.go:15-47, notifyWaiterLocked).                               *)
WaiterServed(r) == Waiting(r) ~> (~Waiting(r) \/ wasted \/ queue = <<>>)

(* DEPLOY.en.md:295, "Per-account inflight limit": no account serves more *)
(* requests than the limit (canAcquireIDLocked, pool_limits.go:62-73).    *)
PerAccountLimit == \A a \in Account :
    Cardinality(Users(a)) <= Max({l.per : l \in Limits})
============================================================================
