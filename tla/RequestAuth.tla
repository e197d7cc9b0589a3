---------------------------- MODULE RequestAuth ----------------------------
(***************************************************************************)
(* Who a request of ds2api runs as (internal/auth/request.go): the account *)
(* it is given when it arrives, the login that makes the account usable,   *)
(* the refresh of a rejected token, and SwitchAccount, which trades the    *)
(* account for another one while the request is under way.                 *)
(*                                                                         *)
(* A login is a call to DeepSeek: it is split into the step that issues it *)
(* and the one that takes the answer.                                      *)
(***************************************************************************)
EXTENDS AccountPool

CONSTANTS
    Direct,     \* the requests whose key is not configured: it is their token
    MaxRenewals \* bound: calls of SwitchAccount and RefreshToken of a request

ASSUME DirectAssumption == Direct \subseteq Request /\ MaxRenewals \in Nat

VARIABLES
    copied,    \* requests whose copy of the account (a.Account) has a token
    cred,      \* the account whose token is in a.DeepSeekToken
    mark,      \* Resolver.tokenRefreshedAt: absent, recent, or over the interval
    renewals   \* calls of SwitchAccount and RefreshToken so far

authVars == <<copied, cred, mark, renewals>>
allVars == <<vars, authVars>>

At(r, p) == pc[r] = p
Goto(r, p) == pc' = [pc EXCEPT ![r] = p]

----------------------------------------------------------------------------
(* Determine. *)

(* A key that is not configured needs no account of the pool. *)
DirectArrives(r) ==
    /\ At(r, "new") /\ r \in Direct
    /\ Goto(r, "held")
    /\ UNCHANGED <<storeVars, queue, inUse, waiters, limits, target, tried, accountID, gone,
                   holding, woken, wasted, adminVars, authVars>>

ManagedArrives(r) ==
    r \notin Direct /\ Arrive(r, "loop") /\ UNCHANGED authVars

Arrives(r) == DirectArrives(r) \/ ManagedArrives(r)

(* The head of the loop of acquireManagedRequestAuth. *)
LoopHead(r) ==
    /\ At(r, "loop")
    /\ Goto(r, IF target[r] = NoAccount /\ Cardinality(tried[r]) >= Len(stored)
               THEN "left" ELSE "enter")
    /\ UNCHANGED <<storeVars, queue, inUse, waiters, limits, target, tried, accountID, gone,
                   holding, woken, wasted, adminVars, authVars>>

(* The request gets a copy of the account as it is in the store. *)
CopyAccount(r) ==
    copied' = IF accountID'[r] \in tokened THEN copied \cup {r} ELSE copied \ {r}

Acquire(r) ==
    /\ TryAcquire(r, "ensure", "left")
    /\ IF At(r, "enter") /\ holding' # holding THEN CopyAccount(r) ELSE UNCHANGED copied
    /\ UNCHANGED <<cred, mark, renewals>>

Queued(r) == (WakeUp(r) \/ GiveUp(r, "left")) /\ UNCHANGED authVars

(* ensureManagedToken: an account without a token, or with one older than   *)
(* the interval, logs in first; an account not seen before starts its clock. *)
EnsureToken(r, here, ok, login) ==
    LET a == accountID[r] IN
    /\ At(r, here)
    /\ IF r \notin copied \/ mark[a] = "old"
       THEN Goto(r, login) /\ UNCHANGED <<cred, mark>>
       ELSE /\ Goto(r, ok)
            /\ cred' = [cred EXCEPT ![r] = a]
            /\ mark' = [mark EXCEPT ![a] = "recent"]
    /\ UNCHANGED <<storeVars, queue, inUse, waiters, limits, target, tried, accountID, gone,
                   holding, woken, wasted, adminVars, copied, renewals>>

(* loginAndPersist with a token for an answer. *)
LoggedIn(r) ==
    /\ copied' = copied \cup {r}
    /\ cred' = [cred EXCEPT ![r] = accountID[r]]
    /\ mark' = [mark EXCEPT ![accountID[r]] = "recent"]

(* The token is persisted: the account must still be configured. *)
LoginSucceeds(r, here, ok) ==
    /\ At(r, here)
    /\ Contains(stored, accountID[r])
    /\ LoggedIn(r)
    /\ tokened' = tokened \cup {accountID[r]}
    /\ Goto(r, ok)
    /\ UNCHANGED <<stored, queue, inUse, waiters, limits, target, tried, accountID, gone,
                   holding, woken, wasted, adminVars, renewals>>

(* The login is refused, or its token cannot be persisted. *)
LoginFails(r, here) ==
    /\ At(r, here)
    /\ \/ UNCHANGED <<copied, cred, mark>>
       \/ ~Contains(stored, accountID[r]) /\ LoggedIn(r)
    /\ UNCHANGED <<storeVars, queue, limits, target, accountID, gone, wasted, adminVars,
                   renewals>>

(* An account that cannot log in is put aside and given back. *)
Disown(r) ==
    /\ tried' = [tried EXCEPT ![r] = @ \cup {accountID[r]}]
    /\ PoolRelease(accountID[r])
    /\ holding' = [holding EXCEPT ![r] = NoAccount]

(* Mutant: the account that cannot log in is tried again. *)
DetermineFailsUntried(r) ==
    /\ LoginFails(r, "login")
    /\ PoolRelease(accountID[r])
    /\ holding' = [holding EXCEPT ![r] = NoAccount]
    /\ UNCHANGED tried
    /\ Goto(r, IF target[r] # NoAccount THEN "left" ELSE "loop")

DetermineFails(r) ==
    /\ LoginFails(r, "login")
    /\ Disown(r)
    /\ Goto(r, IF target[r] # NoAccount THEN "left" ELSE "loop")

Determine(r) ==
    \/ LoopHead(r)
    \/ Acquire(r)
    \/ Queued(r)
    \/ EnsureToken(r, "ensure", "held", "login")
    \/ LoginSucceeds(r, "login", "held")
    \/ DetermineFails(r)

----------------------------------------------------------------------------
(* SwitchAccount. *)

MaySwitch(r) == r \notin Direct /\ target[r] = NoAccount

(* The account is given back; AccountID still names it. *)
SwitchReleases(r, from) ==
    /\ pc[r] \in from /\ MaySwitch(r) /\ renewals[r] < MaxRenewals
    /\ renewals' = [renewals EXCEPT ![r] = @ + 1]
    /\ Disown(r)
    /\ Goto(r, "swTry")
    /\ UNCHANGED <<storeVars, queue, limits, target, accountID, gone, wasted, adminVars,
                   copied, cred, mark>>

(* Mutant: the request keeps the name of the account it had. *)
SwitchTriesUnnamed(r, none) ==
    LET a == Choice(NoAccount, tried[r]) IN
    /\ At(r, "swTry")
    /\ IF a # NoAccount
       THEN /\ Grant(a)
            /\ holding' = [holding EXCEPT ![r] = a]
            /\ UNCHANGED <<accountID, copied>>
            /\ Goto(r, "swEnsure")
       ELSE Goto(r, none) /\ UNCHANGED <<queue, inUse, accountID, holding, copied>>
    /\ UNCHANGED <<storeVars, waiters, limits, target, tried, gone, woken, wasted, adminVars,
                   cred, mark, renewals>>

(* Pool.Acquire: it does not wait. *)
SwitchTries(r, none) ==
    LET a == Choice(NoAccount, tried[r]) IN
    /\ At(r, "swTry")
    /\ IF a # NoAccount
       THEN /\ Grant(a)
            /\ accountID' = [accountID EXCEPT ![r] = a]
            /\ holding' = [holding EXCEPT ![r] = a]
            /\ CopyAccount(r)
            /\ Goto(r, "swEnsure")
       ELSE Goto(r, none) /\ UNCHANGED <<queue, inUse, accountID, holding, copied>>
    /\ UNCHANGED <<storeVars, waiters, limits, target, tried, gone, woken, wasted, adminVars,
                   cred, mark, renewals>>

SwitchFails(r) ==
    /\ LoginFails(r, "swLogin")
    /\ Disown(r)
    /\ Goto(r, "swTry")

Switch(r, ok, none) ==
    \/ SwitchTries(r, none)
    \/ EnsureToken(r, "swEnsure", ok, "swLogin")
    \/ LoginSucceeds(r, "swLogin", ok)
    \/ SwitchFails(r)

----------------------------------------------------------------------------
(* RefreshToken: the token is dropped, in the store too, and the request    *)
(* logs in again; if it cannot, it goes on with the token it had.           *)
RefreshStarts(r, from) ==
    /\ pc[r] \in from /\ r \notin Direct /\ renewals[r] < MaxRenewals
    /\ renewals' = [renewals EXCEPT ![r] = @ + 1]
    /\ tokened' = tokened \ {accountID[r]}
    /\ copied' = copied \ {r}
    /\ Goto(r, "refresh")
    /\ UNCHANGED <<stored, queue, inUse, waiters, limits, target, tried, accountID, gone,
                   holding, woken, wasted, adminVars, cred, mark>>

RefreshFails(r, no) ==
    /\ LoginFails(r, "refresh")
    /\ Goto(r, no)
    /\ UNCHANGED <<inUse, waiters, woken, tried, holding>>

Refresh(r, ok, no) == LoginSucceeds(r, "refresh", ok) \/ RefreshFails(r, no)

(* The token of an account gets older than the refresh interval. *)
TokenAges(a) ==
    /\ mark[a] = "recent"
    /\ mark' = [mark EXCEPT ![a] = "old"]
    /\ UNCHANGED <<vars, copied, cred, renewals>>

(* Resolver.Release gives back whatever AccountID names. *)
ReleaseAuth(r, from) ==
    /\ pc[r] \in from
    /\ IF r \in Direct THEN UNCHANGED <<inUse, waiters, woken>> ELSE PoolRelease(accountID[r])
    /\ holding' = [holding EXCEPT ![r] = NoAccount]
    /\ Goto(r, "left")
    /\ UNCHANGED <<storeVars, queue, limits, target, tried, accountID, gone, wasted, adminVars,
                   authVars>>

----------------------------------------------------------------------------
AuthInit ==
    /\ Init
    /\ copied = {}
    /\ cred = [r \in Request |-> NoAccount]
    /\ mark = [a \in Account |-> "absent"]
    /\ renewals = [r \in Request |-> 0]

(* A request may use its account as it likes: refresh, switch, end. *)
Use(r) ==
    \/ SwitchReleases(r, {"held", "stuck"})
    \/ Switch(r, "held", "stuck")
    \/ RefreshStarts(r, {"held"})
    \/ Refresh(r, "held", "held")
    \/ ReleaseAuth(r, {"held", "stuck"})

AuthNext ==
    \/ \E r \in Request : \/ Arrives(r)
                          \/ ContextDone(r) /\ UNCHANGED authVars
                          \/ Determine(r) \/ Use(r)
    \/ \E a \in Account : TokenAges(a)
    \/ Upkeep /\ UNCHANGED authVars

AuthSpec == AuthInit /\ [][AuthNext]_allVars

(* Logins are answered (the client of the DeepSeek API has a timeout) and   *)
(* requests end.                                                            *)
AuthFairSpec ==
    /\ AuthSpec
    /\ \A r \in Request : /\ WF_allVars(Determine(r))
                          /\ WF_allVars(Switch(r, "held", "stuck"))
                          /\ WF_allVars(Refresh(r, "held", "held"))
                          /\ WF_allVars(ReleaseAuth(r, {"held", "stuck"}))
    /\ \A m \in Admin : WF_allVars((ResetReads(m) \/ ResetApplies(m)) /\ UNCHANGED authVars)

----------------------------------------------------------------------------
(* A request at work that has not failed to switch holds the account it     *)
(* names and sends that account's token (request.go:99-118, 201-212).       *)
HeldIsSent == \A r \in Request \ Direct :
    At(r, "held") => holding[r] = accountID[r] /\ cred[r] = accountID[r]

(* Finding an account ends: the request gets one or is refused, unless a     *)
(* wake-up was wasted or only accounts it has tried are left                 *)
(* (acquireManagedRequestAuth, request.go:81-120).                           *)
DetermineEnds(r) ==
    At(r, "loop") ~>
        \/ pc[r] \in {"held", "left"}
        \/ wasted
        \/ ToSet(queue) \subseteq tried[r]
============================================================================
