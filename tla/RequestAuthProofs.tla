------------------------- MODULE RequestAuthProofs -------------------------
(***************************************************************************)
(* Which account a request of ds2api holds and whose token it sends, and    *)
(* the pool's counters with callers that refresh tokens and switch          *)
(* accounts, for every number of accounts, requests, renewals and admin     *)
(* calls.                                                                   *)
(***************************************************************************)
EXTENDS RequestAuth, SubsequenceProofs

----------------------------------------------------------------------------
(* The counters of the account pool. *)

Types ==
    /\ inUse \in [Account -> Nat]
    /\ DOMAIN pc = Request
    /\ DOMAIN accountID = Request
    /\ DOMAIN holding = Request

(* A request that is served has the account that it will give back; every   *)
(* other request has none, so that it counts for at most one account.       *)
HoldsWhileServed ==
    \A r \in Request : holding[r] = IF pc[r] = "served" THEN accountID[r] ELSE NoAccount

PoolInv == Types /\ HoldsWhileServed /\ NoSlotLeak

(* What PoolInv says of the state depends on four variables only. *)
counted == <<inUse, pc, accountID, holding>>

LEMMA UsersFinite == \A a : IsFiniteSet(Users(a)) /\ Cardinality(Users(a)) \in Nat
<1> TAKE a
<1>1. Users(a) \subseteq Request
  BY DEF Users
<1>2. IsFiniteSet(Users(a))
  BY <1>1, PoolAssumption, FS_Subset
<1> QED
  BY <1>2, FS_CardinalityType

LEMMA PoolInvInit == Init => PoolInv
<1> SUFFICES ASSUME Init PROVE PoolInv
  OBVIOUS
<1>1. /\ inUse = [a \in Account |-> 0]
      /\ pc = [r \in Request |-> "new"]
      /\ accountID = [r \in Request |-> NoAccount]
      /\ holding = [r \in Request |-> NoAccount]
  BY Zenon DEF Init
<1>2. Types
  BY <1>1 DEF Types
<1>3. HoldsWhileServed
  BY <1>1 DEF HoldsWhileServed
<1>4. NoSlotLeak
  BY <1>1, UsersFinite DEF NoSlotLeak
<1> QED
  BY <1>2, <1>3, <1>4 DEF PoolInv

(* Steps of a request before it is served and after it has left move pc     *)
(* between phases without an account.                                       *)
LEMMA PhaseKeeps ==
    ASSUME PoolInv, NEW r \in Request, NEW p,
           pc[r] # "served", p # "served", pc' = [pc EXCEPT ![r] = p],
           UNCHANGED <<inUse, accountID, holding>>
    PROVE  PoolInv'
<1>1. Types'
  BY DEF PoolInv, Types
<1>2. HoldsWhileServed'
  BY DEF PoolInv, Types, HoldsWhileServed
<1>3. \A a : Users(a)' = Users(a)
  BY DEF Users
<1>4. NoSlotLeak'
  BY <1>3 DEF PoolInv, NoSlotLeak
<1> QED
  BY <1>1, <1>2, <1>4 DEF PoolInv

(* A granted account has one user more, and one is counted. *)
LEMMA GrantCounts ==
    ASSUME inUse \in [Account -> Nat], NoSlotLeak, DOMAIN holding = Request,
           NEW r \in Request, holding[r] = NoAccount,
           NEW a, a # NoAccount, Grant(a), holding' = [holding EXCEPT ![r] = a]
    PROVE  inUse' \in [Account -> Nat] /\ NoSlotLeak'
<1>1. inUse' = [inUse EXCEPT ![a] = @ + 1]
  BY DEF Grant
<1>2. \A b \in Account : inUse[b] \in Nat /\ inUse[b] + 1 \in Nat
  OBVIOUS
<1>3. inUse' \in [Account -> Nat]
  BY <1>1, <1>2
<1>4. ASSUME NEW b \in Account PROVE inUse'[b] <= Cardinality(Users(b)')
  <2>1. inUse[b] <= Cardinality(Users(b)) /\ inUse[b] \in Nat
    BY DEF NoSlotLeak
  <2>2. CASE b = a
    <3>1. Users(b)' = Users(b) \cup {r} /\ r \notin Users(b)
      BY <2>2 DEF Users
    <3>2. Cardinality(Users(b)') = Cardinality(Users(b)) + 1
      BY <3>1, UsersFinite, FS_AddElement
    <3>3. inUse'[b] = inUse[b] + 1
      BY <1>1, <2>2
    <3> QED
      BY <2>1, <3>2, <3>3, UsersFinite
  <2>3. CASE b # a
    <3>1. Users(b)' = Users(b)
      BY <2>3, PoolAssumption DEF Users
    <3>2. inUse'[b] = inUse[b]
      BY <1>1, <2>3
    <3> QED
      BY <2>1, <3>1, <3>2
  <2> QED
    BY <2>2, <2>3
<1> QED
  BY <1>3, <1>4 DEF NoSlotLeak

(* A release takes one user away and counts one down, unless Reset has       *)
(* forgotten it: then the counter stays at zero.  It may count one down      *)
(* though the caller had given its account back before: less is counted.     *)
LEMMA ReleaseCounts ==
    ASSUME inUse \in [Account -> Nat], NoSlotLeak, DOMAIN holding = Request,
           NEW r \in Request, NEW a, holding[r] = a \/ holding[r] = NoAccount,
           PoolRelease(a), holding' = [holding EXCEPT ![r] = NoAccount]
    PROVE  inUse' \in [Account -> Nat] /\ NoSlotLeak'
<1>1. inUse' = IF a = NoAccount \/ inUse[a] = 0 THEN inUse ELSE [inUse EXCEPT ![a] = @ - 1]
  BY DEF PoolRelease
<1>2. \A b \in Account : inUse[b] \in Nat /\ (inUse[b] # 0 => inUse[b] - 1 \in Nat)
  OBVIOUS
<1>3. inUse' \in [Account -> Nat]
  BY <1>1, <1>2
<1>4. ASSUME NEW b \in Account PROVE inUse'[b] <= Cardinality(Users(b)')
  <2>1. inUse[b] <= Cardinality(Users(b)) /\ inUse[b] \in Nat
    BY DEF NoSlotLeak
  <2>2. CASE b = holding[r]
    <3>1. b = a /\ Users(b)' = Users(b) \ {r} /\ r \in Users(b)
      BY <2>2, PoolAssumption DEF Users
    <3>2. Cardinality(Users(b)') = Cardinality(Users(b)) - 1
      BY <3>1, UsersFinite, FS_RemoveElement
    <3>3. Cardinality(Users(b)') \in Nat
      BY <3>1, UsersFinite, FS_RemoveElement, FS_CardinalityType
    <3>4. inUse'[b] = IF inUse[b] = 0 THEN 0 ELSE inUse[b] - 1
      BY <1>1, <3>1, PoolAssumption
    <3> QED
      BY <2>1, <3>2, <3>3, <3>4, UsersFinite
  <2>3. CASE b # holding[r]
    <3>1. Users(b)' = Users(b)
      BY <2>3, PoolAssumption DEF Users
    <3>2. inUse'[b] \in {inUse[b], inUse[b] - 1}
      BY <1>1
    <3> QED
      BY <2>1, <3>1, <3>2, UsersFinite
  <2> QED
    BY <2>2, <2>3
<1> QED
  BY <1>3, <1>4 DEF NoSlotLeak

LEMMA ReleaseKeeps == ASSUME PoolInv, NEW r \in Request, Release(r) PROVE PoolInv'
<1>1. /\ inUse \in [Account -> Nat] /\ NoSlotLeak
      /\ DOMAIN pc = Request /\ DOMAIN accountID = Request /\ DOMAIN holding = Request
      /\ pc[r] = "served" /\ holding[r] = accountID[r]
      /\ PoolRelease(accountID[r])
      /\ holding' = [holding EXCEPT ![r] = NoAccount]
      /\ pc' = [pc EXCEPT ![r] = "left"]
      /\ accountID' = accountID
  BY DEF PoolInv, Types, HoldsWhileServed, Release
<1>2. inUse' \in [Account -> Nat] /\ NoSlotLeak'
  <2> DEFINE a == accountID[r]
  <2>1. (holding[r] = a \/ holding[r] = NoAccount) /\ PoolRelease(a)
    BY <1>1
  <2> HIDE DEF a
  <2> QED
    BY <1>1, <2>1, ReleaseCounts
<1>3. Types'
  BY <1>1, <1>2 DEF Types
<1>4. HoldsWhileServed'
  <2>1. HoldsWhileServed
    BY DEF PoolInv
  <2> QED
    BY <1>1, <2>1 DEF HoldsWhileServed
<1> QED
  BY <1>2, <1>3, <1>4 DEF PoolInv

(* Reset forgets all users at once: it counts less than there are. *)
LEMMA ResetCounts ==
    ASSUME NEW m \in Admin, ResetApplies(m)
    PROVE  inUse' \in [Account -> Nat] /\ NoSlotLeak'
<1>1. inUse' = [a \in Account |-> 0] /\ UNCHANGED holding
  BY DEF ResetApplies, callerVars
<1>2. \A a : Users(a)' = Users(a)
  BY <1>1 DEF Users
<1> QED
  BY <1>1, <1>2, UsersFinite DEF NoSlotLeak

LEMMA ResetKeeps == ASSUME PoolInv, NEW m \in Admin, ResetApplies(m) PROVE PoolInv'
<1>1. UNCHANGED <<pc, accountID, holding>>
  BY DEF ResetApplies, callerVars
<1>2. Types' /\ HoldsWhileServed'
  BY <1>1, ResetCounts DEF PoolInv, Types, HoldsWhileServed
<1> QED
  BY <1>2, ResetCounts DEF PoolInv

LEMMA CountedKeeps == PoolInv /\ UNCHANGED counted => PoolInv'
BY DEF counted, PoolInv, Types, HoldsWhileServed, NoSlotLeak, Users

LEMMA TryAcquireKeeps ==
    ASSUME PoolInv, NEW r \in Request, TryAcquire(r, "served", "left") PROVE PoolInv'
<1> DEFINE a == Choice(target[r], tried[r])
<1>1. pc[r] = "enter"
  BY DEF TryAcquire
<1>2. CASE r \notin gone /\ a # NoAccount
  <2>1. /\ Grant(a)
        /\ accountID' = [accountID EXCEPT ![r] = a]
        /\ holding' = [holding EXCEPT ![r] = a]
        /\ pc' = [pc EXCEPT ![r] = "served"]
    BY <1>2 DEF TryAcquire
  <2> HIDE DEF a
  <2>2. /\ inUse \in [Account -> Nat] /\ NoSlotLeak
        /\ DOMAIN pc = Request /\ DOMAIN accountID = Request /\ DOMAIN holding = Request
        /\ holding[r] = NoAccount
    BY <1>1 DEF PoolInv, Types, HoldsWhileServed
  <2>3. inUse' \in [Account -> Nat] /\ NoSlotLeak'
    BY <1>2, <2>1, <2>2, GrantCounts
  <2>4. Types' /\ HoldsWhileServed'
    BY <2>1, <2>2, <2>3 DEF PoolInv, Types, HoldsWhileServed
  <2> QED
    BY <2>3, <2>4 DEF PoolInv
<1>3. CASE ~(r \notin gone /\ a # NoAccount)
  <2>1. /\ UNCHANGED <<inUse, accountID, holding>>
        /\ \/ pc' = [pc EXCEPT ![r] = "select"]
           \/ pc' = [pc EXCEPT ![r] = "left"]
    BY <1>3 DEF TryAcquire
  <2> QED
    BY <1>1, <2>1, PhaseKeeps
<1> QED
  BY <1>2, <1>3

LEMMA PoolInvStep == PoolInv /\ [Next]_vars => PoolInv'
<1> SUFFICES ASSUME PoolInv, [Next]_vars PROVE PoolInv'
  OBVIOUS
<1>1. ASSUME NEW r \in Request, Arrive(r, "enter") PROVE PoolInv'
  BY <1>1, PhaseKeeps DEF Arrive
<1>2. ASSUME NEW r \in Request, ContextDone(r) PROVE PoolInv'
  BY <1>2, CountedKeeps DEF ContextDone, counted
<1>3. ASSUME NEW r \in Request, WakeUp(r) PROVE PoolInv'
  BY <1>3, PhaseKeeps DEF WakeUp, Waiting
<1>4. ASSUME NEW r \in Request, GiveUp(r, "left") PROVE PoolInv'
  BY <1>4, PhaseKeeps DEF GiveUp, Waiting
<1>5. ASSUME NEW m \in Admin, ChangeAccounts(m) PROVE PoolInv'
  BY <1>5, CountedKeeps DEF ChangeAccounts, counted, callerVars
<1>6. ASSUME NEW m \in Admin, ResetReads(m) PROVE PoolInv'
  BY <1>6, CountedKeeps DEF ResetReads, counted, callerVars
<1>7. ASSUME NEW m \in Admin, ApplyRuntimeLimits(m) PROVE PoolInv'
  BY <1>7, CountedKeeps DEF ApplyRuntimeLimits, counted, callerVars
<1>8. CASE UNCHANGED vars
  BY <1>8, CountedKeeps DEF vars, counted, callerVars
<1> QED
  BY <1>1, <1>2, <1>3, <1>4, <1>5, <1>6, <1>7, <1>8,
     TryAcquireKeeps, ReleaseKeeps, ResetKeeps DEF Next, Wait, Upkeep

(* No account is counted as used by more requests than have it, however      *)
(* resets, removals of accounts and changes of the limits interleave with    *)
(* acquisitions and releases (pool_core.go:83-100, pool_acquire.go:15-47).   *)
THEOREM PoolSlotsCorrect == Spec => []NoSlotLeak
<1>1. PoolInv => NoSlotLeak
  BY DEF PoolInv
<1> QED
  BY <1>1, PoolInvInit, PoolInvStep, PTL DEF Spec

----------------------------------------------------------------------------
(* Its callers: accounts and tokens. *)

(* The phases in which a managed request has an account. *)
HasAccount == {"ensure", "login", "swEnsure", "swLogin", "held", "refresh"}

(* It holds the account it names in these phases, and none in the others;   *)
(* once logged in its token is that account's.  A direct request runs none  *)
(* of the phases in between.                                                *)
InPhase(r) ==
    /\ holding[r] = IF r \notin Direct /\ pc[r] \in HasAccount THEN accountID[r] ELSE NoAccount
    /\ r \in Direct => pc[r] \in {"new", "held", "left"}
    /\ r \notin Direct /\ pc[r] \in {"held", "refresh"} => cred[r] = accountID[r]

Domains == /\ DOMAIN pc = Request /\ DOMAIN accountID = Request
           /\ DOMAIN holding = Request /\ DOMAIN cred = Request

Phases == Domains /\ \A r \in Request : InPhase(r)

Counts == inUse \in [Account -> Nat] /\ NoSlotLeak

AuthInv == Phases /\ Counts

(* What the invariant says of a request. *)
phased == <<pc, accountID, holding, cred>>

(* A step of one request. *)
StepOf(r) ==
    /\ Domains'
    /\ \A q \in Request \ {r} :
          /\ pc'[q] = pc[q] /\ accountID'[q] = accountID[q]
          /\ holding'[q] = holding[q] /\ cred'[q] = cred[q]

LEMMA AuthInvInit == AuthInit => AuthInv
<1> SUFFICES ASSUME AuthInit PROVE AuthInv
  OBVIOUS
<1>1. Init
  BY Zenon DEF AuthInit
<1>2. Counts
  BY <1>1, PoolInvInit DEF PoolInv, Types, Counts
<1>3. /\ pc = [r \in Request |-> "new"]
      /\ accountID = [r \in Request |-> NoAccount]
      /\ holding = [r \in Request |-> NoAccount]
      /\ cred = [r \in Request |-> NoAccount]
  BY <1>1, Zenon DEF Init, AuthInit
<1>4. Phases
  BY <1>3 DEF Phases, Domains, InPhase, HasAccount
<1> QED
  BY <1>2, <1>4 DEF AuthInv

LEMMA StepOfKeeps ==
    ASSUME Phases, NEW r \in Request, StepOf(r), InPhase(r)' PROVE Phases'
BY DEF Phases, StepOf, InPhase

LEMMA CountsKept == Counts /\ UNCHANGED <<inUse, holding>> => Counts'
BY DEF Counts, NoSlotLeak, Users

(* Steps that move a request between phases of the same kind. *)
LEMMA MoveKeeps ==
    ASSUME AuthInv, NEW r \in Request, NEW p, pc' = [pc EXCEPT ![r] = p],
           UNCHANGED <<inUse, accountID, holding, cred>>,
           \/ r \in Direct /\ p \in {"held", "left"}
           \/ /\ r \notin Direct
              /\ p \in HasAccount <=> pc[r] \in HasAccount
              /\ p \in {"held", "refresh"} => cred[r] = accountID[r]
    PROVE  AuthInv'
<1>1. StepOf(r) /\ InPhase(r)'
  BY DEF AuthInv, Phases, StepOf, Domains, InPhase, HasAccount
<1> QED
  BY <1>1, StepOfKeeps, CountsKept DEF AuthInv

(* A request that had no account is given one. *)
LEMMA GrantedKeeps ==
    ASSUME AuthInv, NEW r \in Request, r \notin Direct, NEW p,
           p \in HasAccount \ {"held", "refresh"}, pc[r] \notin HasAccount,
           NEW a, a # NoAccount, Grant(a),
           accountID' = [accountID EXCEPT ![r] = a],
           holding' = [holding EXCEPT ![r] = a],
           pc' = [pc EXCEPT ![r] = p], UNCHANGED cred
    PROVE  AuthInv'
<1>1. /\ inUse \in [Account -> Nat] /\ NoSlotLeak /\ DOMAIN holding = Request
      /\ holding[r] = NoAccount
  BY DEF AuthInv, Phases, Counts, Domains, InPhase
<1>2. Counts'
  BY <1>1, GrantCounts DEF Counts
<1>3. StepOf(r) /\ InPhase(r)'
  BY DEF AuthInv, Phases, StepOf, Domains, InPhase, HasAccount
<1> QED
  BY <1>2, <1>3, StepOfKeeps DEF AuthInv

(* A request gives back the account it names, or names still. *)
LEMMA GivenBackKeeps ==
    ASSUME AuthInv, NEW r \in Request, r \notin Direct, NEW p, p \notin HasAccount,
           PoolRelease(accountID[r]),
           holding' = [holding EXCEPT ![r] = NoAccount],
           pc' = [pc EXCEPT ![r] = p], UNCHANGED accountID,
           \/ UNCHANGED cred
           \/ cred' = [cred EXCEPT ![r] = accountID[r]]
    PROVE  AuthInv'
<1> DEFINE a == accountID[r]
<1>1. /\ inUse \in [Account -> Nat] /\ NoSlotLeak /\ DOMAIN holding = Request
      /\ holding[r] = a \/ holding[r] = NoAccount
      /\ PoolRelease(a)
  BY DEF AuthInv, Phases, Counts, Domains, InPhase
<1>2. Counts'
  <2> HIDE DEF a
  <2> QED
    BY <1>1, ReleaseCounts DEF Counts
<1>3. StepOf(r) /\ InPhase(r)'
  BY DEF AuthInv, Phases, StepOf, Domains, InPhase, HasAccount
<1> QED
  BY <1>2, <1>3, StepOfKeeps DEF AuthInv

(* A login that ends with a token of the account named. *)
LEMMA LoggedInKeeps ==
    ASSUME AuthInv, NEW r \in Request, r \notin Direct, pc[r] \in HasAccount,
           pc' = [pc EXCEPT ![r] = "held"],
           UNCHANGED <<inUse, accountID, holding>>,
           cred' = [cred EXCEPT ![r] = accountID[r]]
    PROVE  AuthInv'
<1>1. StepOf(r) /\ InPhase(r)'
  BY DEF AuthInv, Phases, StepOf, Domains, InPhase, HasAccount
<1> QED
  BY <1>1, StepOfKeeps, CountsKept DEF AuthInv

LEMMA AuthUnchanged == AuthInv /\ UNCHANGED <<phased, inUse>> => AuthInv'
BY DEF AuthInv, Phases, Domains, InPhase, Counts, NoSlotLeak, Users, phased

LEMMA EnsureTokenKeeps ==
    ASSUME AuthInv, NEW r \in Request, NEW here, NEW login,
           <<here, login>> \in {<<"ensure", "login">>, <<"swEnsure", "swLogin">>},
           EnsureToken(r, here, "held", login)
    PROVE  AuthInv'
<1>1. /\ pc[r] = here /\ here \in HasAccount \ {"held"} /\ login \in HasAccount \ {"held", "refresh"}
      /\ UNCHANGED <<inUse, accountID, holding>>
  BY DEF EnsureToken, At, HasAccount
<1>2. r \notin Direct
  BY <1>1 DEF AuthInv, Phases, InPhase, HasAccount
<1>3. CASE r \notin copied \/ mark[accountID[r]] = "old"
  <2>1. pc' = [pc EXCEPT ![r] = login] /\ cred' = cred
    BY <1>3 DEF EnsureToken, Goto
  <2> QED
    BY <1>1, <1>2, <2>1, MoveKeeps
<1>4. CASE ~(r \notin copied \/ mark[accountID[r]] = "old")
  <2>1. pc' = [pc EXCEPT ![r] = "held"] /\ cred' = [cred EXCEPT ![r] = accountID[r]]
    BY <1>4 DEF EnsureToken, Goto
  <2> QED
    BY <1>1, <1>2, <2>1, LoggedInKeeps
<1> QED
  BY <1>3, <1>4

LEMMA LoginSucceedsKeeps ==
    ASSUME AuthInv, NEW r \in Request, NEW here \in {"login", "swLogin", "refresh"},
           LoginSucceeds(r, here, "held")
    PROVE  AuthInv'
<1>1. /\ pc[r] = here /\ pc' = [pc EXCEPT ![r] = "held"]
      /\ cred' = [cred EXCEPT ![r] = accountID[r]]
      /\ UNCHANGED <<inUse, accountID, holding>>
  BY DEF LoginSucceeds, LoggedIn, At, Goto
<1>2. r \notin Direct /\ pc[r] \in HasAccount
  BY <1>1 DEF AuthInv, Phases, InPhase, HasAccount
<1> QED
  BY <1>1, <1>2, LoggedInKeeps

(* A failed login leaves the token, or sets it to one of the same account   *)
(* that could not be persisted.                                             *)
LEMMA LoginFailsSays ==
    ASSUME AuthInv, NEW r \in Request, NEW here \in {"login", "swLogin", "refresh"},
           LoginFails(r, here)
    PROVE  /\ r \notin Direct /\ pc[r] = here
           /\ UNCHANGED accountID
           /\ UNCHANGED cred \/ cred' = [cred EXCEPT ![r] = accountID[r]]
<1>1. pc[r] = here
  BY DEF LoginFails, At
<1>2. r \notin Direct
  BY <1>1 DEF AuthInv, Phases, InPhase
<1>3. UNCHANGED accountID /\ (UNCHANGED cred \/ cred' = [cred EXCEPT ![r] = accountID[r]])
  BY DEF LoginFails, LoggedIn
<1> QED
  BY <1>1, <1>2, <1>3

(* An account that cannot log in is given back, and another is looked for. *)
LEMMA DisownKeeps ==
    ASSUME AuthInv, NEW r \in Request, NEW here \in {"login", "swLogin"}, NEW p,
           p \in {"left", "loop", "swTry"},
           LoginFails(r, here), Disown(r), pc' = [pc EXCEPT ![r] = p]
    PROVE  AuthInv'
<1>1. /\ r \notin Direct /\ UNCHANGED accountID
      /\ UNCHANGED cred \/ cred' = [cred EXCEPT ![r] = accountID[r]]
  BY LoginFailsSays
<1>2. PoolRelease(accountID[r]) /\ holding' = [holding EXCEPT ![r] = NoAccount]
  BY DEF Disown
<1>3. p \notin HasAccount
  BY DEF HasAccount
<1> QED
  BY <1>1, <1>2, <1>3, GivenBackKeeps

LEMMA ArrivesKeeps == ASSUME AuthInv, NEW r \in Request, Arrives(r) PROVE AuthInv'
<1>1. CASE DirectArrives(r)
  <2>1. /\ r \in Direct /\ pc' = [pc EXCEPT ![r] = "held"]
        /\ UNCHANGED <<inUse, accountID, holding, cred>>
    BY <1>1 DEF DirectArrives, Goto, authVars
  <2> QED
    BY <2>1, MoveKeeps
<1>2. CASE ManagedArrives(r)
  <2>1. /\ r \notin Direct /\ pc[r] = "new" /\ pc' = [pc EXCEPT ![r] = "loop"]
        /\ UNCHANGED <<inUse, accountID, holding, cred>>
    BY <1>2 DEF ManagedArrives, Arrive, authVars
  <2> QED
    BY <2>1, MoveKeeps DEF HasAccount
<1> QED
  BY <1>1, <1>2 DEF Arrives

LEMMA AcquireKeeps == ASSUME AuthInv, NEW r \in Request, Acquire(r) PROVE AuthInv'
<1> DEFINE a == Choice(target[r], tried[r])
<1>1. pc[r] = "enter" /\ UNCHANGED cred /\ TryAcquire(r, "ensure", "left")
  BY DEF Acquire, TryAcquire
<1>2. r \notin Direct
  BY <1>1 DEF AuthInv, Phases, InPhase
<1>3. CASE r \notin gone /\ a # NoAccount
  <2>1. /\ Grant(a)
        /\ accountID' = [accountID EXCEPT ![r] = a]
        /\ holding' = [holding EXCEPT ![r] = a]
        /\ pc' = [pc EXCEPT ![r] = "ensure"]
    BY <1>1, <1>3 DEF TryAcquire
  <2>2. "ensure" \in HasAccount \ {"held", "refresh"} /\ pc[r] \notin HasAccount
    BY <1>1 DEF HasAccount
  <2> HIDE DEF a
  <2> QED
    BY <1>1, <1>2, <1>3, <2>1, <2>2, GrantedKeeps
<1>4. CASE ~(r \notin gone /\ a # NoAccount)
  <2>1. /\ UNCHANGED <<inUse, accountID, holding>>
        /\ pc' = [pc EXCEPT ![r] = "select"] \/ pc' = [pc EXCEPT ![r] = "left"]
    BY <1>1, <1>4 DEF TryAcquire
  <2> QED
    BY <1>1, <1>2, <2>1, MoveKeeps DEF HasAccount
<1> QED
  BY <1>3, <1>4

(* Between the phases without an account. *)
LEMMA WaitsKeep ==
    ASSUME AuthInv, NEW r \in Request, LoopHead(r) \/ Queued(r) PROVE AuthInv'
<1>1. /\ pc[r] \in {"loop", "select"}
      /\ \/ pc' = [pc EXCEPT ![r] = "left"]
         \/ pc' = [pc EXCEPT ![r] = "enter"]
      /\ UNCHANGED <<inUse, accountID, holding, cred>>
  BY DEF LoopHead, Queued, WakeUp, GiveUp, Waiting, At, Goto, authVars
<1>2. r \notin Direct
  BY <1>1 DEF AuthInv, Phases, InPhase
<1> QED
  BY <1>1, <1>2, MoveKeeps DEF HasAccount

LEMMA DetermineKeeps == ASSUME AuthInv, NEW r \in Request, Determine(r) PROVE AuthInv'
<1>1. CASE LoopHead(r) \/ Queued(r)
  BY <1>1, WaitsKeep
<1>2. CASE Acquire(r)
  BY <1>2, AcquireKeeps
<1>3. CASE EnsureToken(r, "ensure", "held", "login")
  BY <1>3, EnsureTokenKeeps
<1>4. CASE LoginSucceeds(r, "login", "held")
  BY <1>4, LoginSucceedsKeeps
<1>5. CASE DetermineFails(r)
  <2>1. LoginFails(r, "login") /\ Disown(r)
    BY <1>5 DEF DetermineFails
  <2>2. pc' = [pc EXCEPT ![r] = "left"] \/ pc' = [pc EXCEPT ![r] = "loop"]
    BY <1>5 DEF DetermineFails, Goto
  <2> QED
    BY <2>1, <2>2, DisownKeeps
<1> QED
  BY <1>1, <1>2, <1>3, <1>4, <1>5 DEF Determine

LEMMA SwitchTriesKeeps ==
    ASSUME AuthInv, NEW r \in Request, SwitchTries(r, "stuck") PROVE AuthInv'
<1> DEFINE a == Choice(NoAccount, tried[r])
<1>1. pc[r] = "swTry" /\ UNCHANGED cred
  BY DEF SwitchTries, At
<1>2. r \notin Direct
  BY <1>1 DEF AuthInv, Phases, InPhase
<1>3. CASE a # NoAccount
  <2>1. /\ Grant(a)
        /\ accountID' = [accountID EXCEPT ![r] = a]
        /\ holding' = [holding EXCEPT ![r] = a]
        /\ pc' = [pc EXCEPT ![r] = "swEnsure"]
    BY <1>3 DEF SwitchTries, Goto
  <2>2. "swEnsure" \in HasAccount \ {"held", "refresh"} /\ pc[r] \notin HasAccount
    BY <1>1 DEF HasAccount
  <2> HIDE DEF a
  <2> QED
    BY <1>1, <1>2, <1>3, <2>1, <2>2, GrantedKeeps
<1>4. CASE a = NoAccount
  <2>1. UNCHANGED <<inUse, accountID, holding>> /\ pc' = [pc EXCEPT ![r] = "stuck"]
    BY <1>4 DEF SwitchTries, Goto
  <2> QED
    BY <1>1, <1>2, <2>1, MoveKeeps DEF HasAccount
<1> QED
  BY <1>3, <1>4

LEMMA SwitchKeeps ==
    ASSUME AuthInv, NEW r \in Request, Switch(r, "held", "stuck") PROVE AuthInv'
<1>1. CASE EnsureToken(r, "swEnsure", "held", "swLogin")
  BY <1>1, EnsureTokenKeeps
<1>2. CASE LoginSucceeds(r, "swLogin", "held")
  BY <1>2, LoginSucceedsKeeps
<1>3. CASE SwitchFails(r)
  <2>1. LoginFails(r, "swLogin") /\ Disown(r) /\ pc' = [pc EXCEPT ![r] = "swTry"]
    BY <1>3 DEF SwitchFails, Goto
  <2> QED
    BY <2>1, DisownKeeps
<1> QED
  BY <1>1, <1>2, <1>3, SwitchTriesKeeps DEF Switch

LEMMA SwitchReleasesKeeps ==
    ASSUME AuthInv, NEW r \in Request, SwitchReleases(r, {"held", "stuck"}) PROVE AuthInv'
<1>1. /\ r \notin Direct
      /\ PoolRelease(accountID[r]) /\ holding' = [holding EXCEPT ![r] = NoAccount]
      /\ pc' = [pc EXCEPT ![r] = "swTry"]
      /\ UNCHANGED <<accountID, cred>>
  BY DEF SwitchReleases, MaySwitch, Disown, Goto
<1>2. "swTry" \notin HasAccount
  BY DEF HasAccount
<1> QED
  BY <1>1, <1>2, GivenBackKeeps

LEMMA RefreshKeeps ==
    ASSUME AuthInv, NEW r \in Request,
           RefreshStarts(r, {"held"}) \/ Refresh(r, "held", "held")
    PROVE  AuthInv'
<1>1. CASE RefreshStarts(r, {"held"})
  <2>1. /\ r \notin Direct /\ pc[r] = "held" /\ pc' = [pc EXCEPT ![r] = "refresh"]
        /\ UNCHANGED <<inUse, accountID, holding, cred>>
    BY <1>1 DEF RefreshStarts, Goto
  <2>2. cred[r] = accountID[r]
    BY <2>1 DEF AuthInv, Phases, InPhase
  <2> QED
    BY <2>1, <2>2, MoveKeeps DEF HasAccount
<1>2. CASE LoginSucceeds(r, "refresh", "held")
  BY <1>2, LoginSucceedsKeeps
<1>3. CASE RefreshFails(r, "held")
  <2>1. LoginFails(r, "refresh")
    BY <1>3 DEF RefreshFails
  <2>2. UNCHANGED <<inUse, holding>> /\ pc' = [pc EXCEPT ![r] = "held"]
    BY <1>3 DEF RefreshFails, Goto
  <2>3. /\ r \notin Direct /\ pc[r] = "refresh" /\ UNCHANGED accountID
        /\ UNCHANGED cred \/ cred' = [cred EXCEPT ![r] = accountID[r]]
    BY <2>1, LoginFailsSays
  <2>4. cred[r] = accountID[r]
    BY <2>3 DEF AuthInv, Phases, InPhase
  <2>5. CASE UNCHANGED cred
    BY <2>2, <2>3, <2>4, <2>5, MoveKeeps DEF HasAccount
  <2>6. CASE cred' = [cred EXCEPT ![r] = accountID[r]]
    BY <2>2, <2>3, <2>6, LoggedInKeeps DEF HasAccount
  <2> QED
    BY <2>3, <2>5, <2>6
<1> QED
  BY <1>1, <1>2, <1>3 DEF Refresh

LEMMA ReleaseAuthKeeps ==
    ASSUME AuthInv, NEW r \in Request, ReleaseAuth(r, {"held", "stuck"}) PROVE AuthInv'
<1>1. /\ holding' = [holding EXCEPT ![r] = NoAccount]
      /\ pc' = [pc EXCEPT ![r] = "left"]
      /\ UNCHANGED <<accountID, cred>>
  BY DEF ReleaseAuth, Goto, authVars
<1>2. CASE r \in Direct
  <2>1. UNCHANGED inUse
    BY <1>2 DEF ReleaseAuth
  <2>2. holding[r] = NoAccount /\ DOMAIN holding = Request
    BY <1>2 DEF AuthInv, Phases, Domains, InPhase
  <2>3. StepOf(r) /\ InPhase(r)'
    BY <1>1, <1>2 DEF AuthInv, Phases, StepOf, Domains, InPhase, HasAccount
  <2>4. \A b \in Account : Users(b)' = Users(b)
    BY <1>1, <2>2 DEF Users
  <2>5. Counts'
    BY <2>1, <2>4 DEF AuthInv, Counts, NoSlotLeak
  <2> QED
    BY <2>3, <2>5, StepOfKeeps DEF AuthInv
<1>3. CASE r \notin Direct
  <2>1. PoolRelease(accountID[r])
    BY <1>3 DEF ReleaseAuth
  <2>2. "left" \notin HasAccount
    BY DEF HasAccount
  <2> QED
    BY <1>1, <1>3, <2>1, <2>2, GivenBackKeeps
<1> QED
  BY <1>2, <1>3

LEMMA UpkeepKeeps == AuthInv /\ Upkeep /\ UNCHANGED authVars => AuthInv'
<1> SUFFICES ASSUME AuthInv, UNCHANGED authVars, NEW m \in Admin,
                    \/ ChangeAccounts(m) \/ ResetReads(m)
                    \/ ResetApplies(m) \/ ApplyRuntimeLimits(m)
             PROVE  AuthInv'
  BY DEF Upkeep
<1>1. CASE ChangeAccounts(m) \/ ResetReads(m) \/ ApplyRuntimeLimits(m)
  <2>1. UNCHANGED <<phased, inUse>>
    BY <1>1 DEF ChangeAccounts, ResetReads, ApplyRuntimeLimits, phased, callerVars, authVars
  <2> QED
    BY <2>1, AuthUnchanged
<1>2. CASE ResetApplies(m)
  <2>1. UNCHANGED phased
    BY <1>2 DEF ResetApplies, phased, callerVars, authVars
  <2>2. Phases'
    BY <2>1 DEF AuthInv, Phases, Domains, InPhase, phased
  <2> QED
    BY <1>2, <2>2, ResetCounts DEF AuthInv, Counts
<1> QED
  BY <1>1, <1>2

LEMMA AuthInvStep == AuthInv /\ [AuthNext]_allVars => AuthInv'
<1> SUFFICES ASSUME AuthInv, [AuthNext]_allVars PROVE AuthInv'
  OBVIOUS
<1>1. ASSUME NEW r \in Request, ContextDone(r), UNCHANGED authVars PROVE AuthInv'
  BY <1>1, AuthUnchanged DEF ContextDone, authVars, phased
<1>2. ASSUME NEW r \in Request, Use(r) PROVE AuthInv'
  BY <1>2, SwitchReleasesKeeps, SwitchKeeps, RefreshKeeps, ReleaseAuthKeeps DEF Use
<1>3. ASSUME NEW a \in Account, TokenAges(a) PROVE AuthInv'
  BY <1>3, AuthUnchanged DEF TokenAges, vars, callerVars, phased
<1>4. CASE UNCHANGED allVars
  BY <1>4, AuthUnchanged DEF allVars, vars, callerVars, authVars, phased
<1> QED
  BY <1>1, <1>2, <1>3, <1>4, ArrivesKeeps, DetermineKeeps, UpkeepKeeps DEF AuthNext

LEMMA AuthInvHolds == AuthSpec => []AuthInv
BY AuthInvInit, AuthInvStep, PTL DEF AuthSpec

(* Through logins that fail, refreshes and switches of accounts, a managed   *)
(* request at work holds the account it names and sends that account's      *)
(* token (request.go:99-118, 201-212).                                      *)
THEOREM HeldIsSentCorrect == AuthSpec => []HeldIsSent
<1>1. AuthInv => HeldIsSent
  BY DEF AuthInv, Phases, InPhase, HeldIsSent, At, HasAccount
<1> QED
  BY <1>1, AuthInvHolds, PTL

(* No capacity is lost by any of them either, although a request that could  *)
(* not switch gives back an account it has already given back               *)
(* (request.go:201-212, pool_core.go:83-100).                                *)
THEOREM AuthSlotsCorrect == AuthSpec => []NoSlotLeak
<1>1. AuthInv => NoSlotLeak
  BY DEF AuthInv, Counts
<1> QED
  BY <1>1, AuthInvHolds, PTL

----------------------------------------------------------------------------
(* The types. *)

PoolTyped ==
    /\ queue \in Seq(Account) /\ inUse \in [Account -> Nat]
    /\ waiters \in Seq(Request) /\ limits \in Limits /\ woken \subseteq Request

StoreTyped == stored \in Seq(Account) /\ IsInjective(stored) /\ tokened \subseteq Account

CallersTyped ==
    /\ DOMAIN pc = Request
    /\ target \in [Request -> Account \cup {NoAccount}]
    /\ tried \in [Request -> SUBSET Account]
    /\ accountID \in [Request -> Account \cup {NoAccount}]
    /\ holding \in [Request -> Account \cup {NoAccount}]
    /\ gone \subseteq Request /\ wasted \in BOOLEAN

AdminTyped ==
    /\ apc \in [Admin -> {"idle", "changed", "resetting"}]
    /\ read \in [Admin -> Seq(Account)] /\ calls \in 0 .. MaxAdminCalls

LEMMA TypeParts == TypeOK <=> PoolTyped /\ StoreTyped /\ CallersTyped /\ AdminTyped
BY DEF TypeOK, PoolTyped, StoreTyped, CallersTyped, AdminTyped

LEMMA TypePartsNext == PoolTyped' /\ StoreTyped' /\ CallersTyped' /\ AdminTyped' => TypeOK'
BY DEF TypeOK, PoolTyped, StoreTyped, CallersTyped, AdminTyped

(* Taking elements out of a list. *)
LEMMA DroppingTyped ==
    ASSUME NEW S, NEW s \in Seq(S), NEW A
    PROVE  /\ Dropping(s, A) \in Seq(S)
           /\ IsInjective(s) => IsInjective(Dropping(s, A))
<1> DEFINE P == {i \in DOMAIN s : s[i] \notin A}
<1>1. P \subseteq DOMAIN s
  OBVIOUS
<1>2. Dropping(s, A) = Picked(s, P)
  BY DEF Dropping
<1> HIDE DEF P
<1>3. Picked(s, P) \in Seq(S)
  BY <1>1, PickedInOrder
<1>4. ASSUME IsInjective(s) PROVE IsInjective(Picked(s, P))
  <2>1. \A i, j \in P : i # j => s[i] # s[j]
    BY <1>1, <1>4 DEF IsInjective
  <2>2. \A m, n \in DOMAIN Picked(s, P) : m # n => Picked(s, P)[m] # Picked(s, P)[n]
    BY <1>1, <2>1, PickedInjective
  <2> QED
    BY <2>2 DEF IsInjective
<1> QED
  BY <1>2, <1>3, <1>4

(* An element that is not in a list is added to it. *)
LEMMA AddedOnce ==
    ASSUME NEW S, NEW s \in Seq(S), NEW a \in S, IsInjective(s), ~Contains(s, a)
    PROVE  Append(s, a) \in Seq(S) /\ IsInjective(Append(s, a))
<1> DEFINE t == Append(s, a)
<1>1. /\ Len(s) \in Nat /\ DOMAIN s = 1 .. Len(s) /\ t \in Seq(S) /\ DOMAIN t = 1 .. Len(s) + 1
      /\ \A i \in 1 .. Len(s) : t[i] = s[i]
      /\ t[Len(s) + 1] = a
  BY LenProperties, AppendProperties
<1> HIDE DEF t
<1>2. \A i \in 1 .. Len(s) : t[i] # a
  BY <1>1 DEF Contains
<1>3. ASSUME NEW i \in DOMAIN t, NEW j \in DOMAIN t, t[i] = t[j] PROVE i = j
  <2>1. i \in 1 .. Len(s) \/ i = Len(s) + 1
    BY <1>1
  <2>2. j \in 1 .. Len(s) \/ j = Len(s) + 1
    BY <1>1
  <2>3. i \in 1 .. Len(s) /\ j \in 1 .. Len(s) => i = j
    BY <1>1, <1>3 DEF IsInjective
  <2> QED
    BY <1>1, <1>2, <1>3, <2>1, <2>2, <2>3
<1>4. IsInjective(t)
  BY <1>3 DEF IsInjective
<1> QED
  BY <1>1, <1>4 DEF t

(* What a request is given is an account, and one of the queue or its target. *)
LEMMA ChoiceTyped ==
    ASSUME queue \in Seq(Account), NEW t \in Account \cup {NoAccount}, NEW exclude
    PROVE  Choice(t, exclude) \in Account \cup {NoAccount}
<1> DEFINE open == {i \in DOMAIN queue : Grantable(queue[i], exclude)}
<1>1. CASE t # NoAccount
  BY <1>1 DEF Choice
<1>2. CASE t = NoAccount /\ open = {}
  BY <1>2 DEF Choice
<1>3. CASE t = NoAccount /\ open # {}
  <2>1. open \subseteq DOMAIN queue /\ DOMAIN queue \subseteq Nat
    BY LenProperties
  <2>2. Choice(t, exclude) = queue[Min(open)]
    BY <1>3 DEF Choice
  <2> HIDE DEF open
  <2>3. \E x \in open : \A y \in open : x <= y
    BY <1>3, <2>1, Least
  <2>4. Min(open) \in open
    BY <2>3 DEF Min
  <2> QED
    BY <2>1, <2>2, <2>4, ElementOfSeq, LenProperties
<1> QED
  BY <1>1, <1>2, <1>3

LEMMA GrantTyped ==
    ASSUME PoolTyped, NEW a \in Account, Grant(a)
    PROVE  queue' \in Seq(Account) /\ inUse' \in [Account -> Nat]
<1>1. Dropping(queue, {a}) \in Seq(Account)
  BY DroppingTyped DEF PoolTyped
<1>2. Append(Dropping(queue, {a}), a) \in Seq(Account)
  BY <1>1, AppendProperties
<1>3. queue' \in Seq(Account)
  BY <1>2 DEF Grant, BumpQueue, PoolTyped
<1>4. inUse' \in [Account -> Nat]
  BY DEF Grant, PoolTyped
<1> QED
  BY <1>3, <1>4

LEMMA NotifyTyped ==
    ASSUME PoolTyped, NotifyWaiter
    PROVE  waiters' \in Seq(Request) /\ woken' \subseteq Request
<1>1. CASE waiters = <<>>
  BY <1>1 DEF NotifyWaiter, PoolTyped
<1>2. CASE waiters # <<>>
  <2>1. Head(waiters) \in Request /\ Tail(waiters) \in Seq(Request)
    BY <1>2, HeadTailProperties DEF PoolTyped
  <2> QED
    BY <1>2, <2>1 DEF NotifyWaiter, PoolTyped
<1> QED
  BY <1>1, <1>2

LEMMA PoolReleaseTyped ==
    ASSUME PoolTyped, NEW a \in Account \cup {NoAccount}, PoolRelease(a), UNCHANGED <<queue, limits>>
    PROVE  PoolTyped'
<1>1. CASE a = NoAccount \/ inUse[a] = 0
  BY <1>1 DEF PoolRelease, PoolTyped
<1>2. CASE ~(a = NoAccount \/ inUse[a] = 0)
  <2>1. inUse' = [inUse EXCEPT ![a] = @ - 1] /\ NotifyWaiter /\ a \in Account
    BY <1>2 DEF PoolRelease
  <2>2. inUse[a] - 1 \in Nat
    BY <1>2, <2>1 DEF PoolTyped
  <2>3. inUse' \in [Account -> Nat]
    BY <2>1, <2>2 DEF PoolTyped
  <2> QED
    BY <2>1, <2>3, NotifyTyped DEF PoolTyped
<1> QED
  BY <1>1, <1>2

(* A request's step, whichever phases it goes between. *)
LEMMA ArriveTyped ==
    ASSUME TypeOK, NEW r \in Request, NEW p, Arrive(r, p)
    PROVE  TypeOK'
<1>1. PICK t \in Target : target' = [target EXCEPT ![r] = t]
  BY DEF Arrive
<1>2. t \in Account \cup {NoAccount}
  BY <1>1, PoolAssumption
<1> QED
  BY <1>1, <1>2 DEF Arrive, TypeOK, storeVars, adminVars

LEMMA MovesTyped ==
    ASSUME TypeOK, NEW r \in Request, ContextDone(r) \/ WakeUp(r)
    PROVE  TypeOK'
BY DEF ContextDone, WakeUp, TypeOK, storeVars, adminVars

LEMMA TryAcquireTyped ==
    ASSUME TypeOK, NEW r \in Request, NEW p, NEW q, TryAcquire(r, p, q)
    PROVE  TypeOK'
<1> DEFINE a == Choice(target[r], tried[r])
<1>1. PoolTyped /\ StoreTyped /\ CallersTyped /\ AdminTyped
  BY TypeParts
<1>2. a \in Account \cup {NoAccount}
  BY <1>1, ChoiceTyped DEF PoolTyped, CallersTyped
<1> HIDE DEF a
<1>3. /\ woken' = woken \ {r}
      /\ UNCHANGED <<stored, tokened, limits, target, tried, gone, apc, read, calls>>
  BY DEF TryAcquire, storeVars, adminVars
<1>4. CASE r \notin gone /\ a # NoAccount
  <2>1. /\ Grant(a) /\ accountID' = [accountID EXCEPT ![r] = a]
        /\ holding' = [holding EXCEPT ![r] = a]
        /\ pc' = [pc EXCEPT ![r] = p]
        /\ UNCHANGED <<waiters, wasted>>
    BY <1>4, Zenon DEF TryAcquire, a
  <2>2. queue' \in Seq(Account) /\ inUse' \in [Account -> Nat]
    BY <1>1, <1>2, <1>4, <2>1, GrantTyped
  <2>3. PoolTyped'
    BY <1>1, <1>3, <2>1, <2>2 DEF PoolTyped
  <2>4. CallersTyped'
    BY <1>1, <1>2, <1>3, <2>1 DEF CallersTyped
  <2>5. StoreTyped' /\ AdminTyped'
    BY <1>1, <1>3 DEF StoreTyped, AdminTyped
  <2> QED
    BY <2>3, <2>4, <2>5, TypePartsNext
<1>5. CASE ~(r \notin gone /\ a # NoAccount)
  <2>1. /\ wasted' = (wasted \/ (r \in woken /\ SomethingFree))
        /\ UNCHANGED <<queue, inUse, accountID, holding>>
        /\ \/ waiters' = Append(waiters, r) /\ pc' = [pc EXCEPT ![r] = "select"]
           \/ waiters' = waiters /\ pc' = [pc EXCEPT ![r] = q]
    BY <1>5, Zenon DEF TryAcquire, a
  <2>2. wasted' \in BOOLEAN
    BY <2>1, Zenon
  <2>3. waiters' \in Seq(Request)
    BY <1>1, <2>1, AppendProperties DEF PoolTyped
  <2>4. PoolTyped'
    BY <1>1, <1>3, <2>1, <2>3 DEF PoolTyped
  <2>5. DOMAIN pc' = Request
    BY <1>1, <2>1 DEF CallersTyped
  <2>6. CallersTyped'
    BY <1>1, <1>3, <2>1, <2>2, <2>5 DEF CallersTyped
  <2>7. StoreTyped' /\ AdminTyped'
    BY <1>1, <1>3 DEF StoreTyped, AdminTyped
  <2> QED
    BY <2>4, <2>6, <2>7, TypePartsNext
<1> QED
  BY <1>4, <1>5

LEMMA GiveUpTyped ==
    ASSUME TypeOK, NEW r \in Request, NEW p, GiveUp(r, p)
    PROVE  TypeOK'
<1>1. PoolTyped /\ StoreTyped /\ CallersTyped /\ AdminTyped
  BY TypeParts
<1>2. /\ waiters' = Dropping(waiters, {r}) /\ woken' = woken \ {r} /\ pc' = [pc EXCEPT ![r] = p]
      /\ UNCHANGED <<stored, tokened, queue, inUse, limits, target, tried, accountID, gone,
                     holding, apc, read, calls>>
  BY DEF GiveUp, storeVars, adminVars
<1>3. wasted' = (wasted \/ (r \in woken /\ SomethingFree))
  BY Zenon DEF GiveUp
<1>4. wasted' \in BOOLEAN
  BY <1>3, Zenon
<1>5. waiters' \in Seq(Request)
  BY <1>1, <1>2, DroppingTyped DEF PoolTyped
<1>6. PoolTyped'
  BY <1>1, <1>2, <1>5 DEF PoolTyped
<1>7. CallersTyped'
  BY <1>1, <1>2, <1>4 DEF CallersTyped
<1>8. StoreTyped' /\ AdminTyped'
  BY <1>1, <1>2 DEF StoreTyped, AdminTyped
<1> QED
  BY <1>6, <1>7, <1>8, TypePartsNext

LEMMA ReleaseTyped == ASSUME TypeOK, NEW r \in Request, Release(r) PROVE TypeOK'
<1>1. PoolTyped /\ StoreTyped /\ CallersTyped /\ AdminTyped
  BY TypeParts
<1>2. /\ PoolRelease(accountID[r]) /\ holding' = [holding EXCEPT ![r] = NoAccount]
      /\ pc' = [pc EXCEPT ![r] = "left"]
      /\ UNCHANGED <<stored, tokened, queue, limits, target, tried, accountID, gone, wasted,
                     apc, read, calls>>
  BY DEF Release, storeVars, adminVars
<1>3. accountID[r] \in Account \cup {NoAccount}
  BY <1>1 DEF CallersTyped
<1>4. PoolTyped'
  BY <1>1, <1>2, <1>3, PoolReleaseTyped
<1>5. CallersTyped'
  BY <1>1, <1>2 DEF CallersTyped
<1>6. StoreTyped' /\ AdminTyped'
  BY <1>1, <1>2 DEF StoreTyped, AdminTyped
<1> QED
  BY <1>4, <1>5, <1>6, TypePartsNext

LEMMA TokensFirstTyped == ASSUME stored \in Seq(Account) PROVE TokensFirst \in Seq(Account)
<1>1. Dropping(stored, Account \ tokened) \in Seq(Account) /\ Dropping(stored, tokened) \in Seq(Account)
  BY DroppingTyped
<1> QED
  BY <1>1, ConcatProperties DEF TokensFirst

LEMMA UpkeepTyped == ASSUME TypeOK, Upkeep PROVE TypeOK'
<1>1. PoolTyped /\ StoreTyped /\ CallersTyped /\ AdminTyped /\ MaxAdminCalls \in Nat
  BY TypeParts, PoolAssumption
<1>2. PICK m \in Admin : \/ ChangeAccounts(m) \/ ResetReads(m)
                         \/ ResetApplies(m) \/ ApplyRuntimeLimits(m)
  BY DEF Upkeep
<1>3. CASE ChangeAccounts(m)
  <2>1. /\ UNCHANGED <<tokened, queue, inUse, waiters, limits, woken, wasted, read>>
        /\ UNCHANGED <<pc, target, tried, accountID, gone, holding>>
        /\ apc' = [apc EXCEPT ![m] = "changed"] /\ calls < MaxAdminCalls /\ calls' = calls + 1
        /\ \/ \E a \in Account : ~Contains(stored, a) /\ stored' = Append(stored, a)
           \/ \E a \in ToSet(stored) : stored' = Dropping(stored, {a})
    BY <1>3 DEF ChangeAccounts, callerVars
  <2>2. stored' \in Seq(Account) /\ IsInjective(stored')
    <3>1. stored \in Seq(Account) /\ IsInjective(stored)
      BY <1>1 DEF StoreTyped
    <3>2. CASE \E a \in Account : ~Contains(stored, a) /\ stored' = Append(stored, a)
      BY <3>1, <3>2, AddedOnce
    <3>3. CASE \E a \in ToSet(stored) : stored' = Dropping(stored, {a})
      BY <3>1, <3>3, DroppingTyped
    <3> QED
      BY <2>1, <3>2, <3>3
  <2>3. StoreTyped'
    BY <1>1, <2>1, <2>2 DEF StoreTyped
  <2>4. AdminTyped'
    BY <1>1, <2>1 DEF AdminTyped
  <2>5. PoolTyped' /\ CallersTyped'
    BY <1>1, <2>1 DEF PoolTyped, CallersTyped
  <2> QED
    BY <2>3, <2>4, <2>5, TypePartsNext
<1>4. CASE ResetReads(m)
  <2>1. TokensFirst \in Seq(Account)
    BY <1>1, TokensFirstTyped DEF StoreTyped
  <2>2. /\ UNCHANGED <<stored, tokened, queue, inUse, waiters, limits, woken, wasted, calls>>
        /\ UNCHANGED <<pc, target, tried, accountID, gone, holding>>
        /\ apc' = [apc EXCEPT ![m] = "resetting"] /\ read' = [read EXCEPT ![m] = TokensFirst]
    BY <1>4 DEF ResetReads, callerVars, storeVars
  <2>3. AdminTyped'
    BY <1>1, <2>1, <2>2 DEF AdminTyped
  <2>4. PoolTyped' /\ StoreTyped' /\ CallersTyped'
    BY <1>1, <2>2 DEF PoolTyped, StoreTyped, CallersTyped
  <2> QED
    BY <2>3, <2>4, TypePartsNext
<1>5. CASE ResetApplies(m)
  <2>1. /\ UNCHANGED <<stored, tokened, wasted, calls>>
        /\ UNCHANGED <<pc, target, tried, accountID, gone, holding>>
        /\ apc' = [apc EXCEPT ![m] = "idle"] /\ read' = [read EXCEPT ![m] = <<>>]
        /\ queue' = read[m] /\ inUse' = [a \in Account |-> 0] /\ woken' = woken \cup ToSet(waiters)
        /\ waiters' = <<>> /\ limits' \in Limits
    BY <1>5 DEF ResetApplies, callerVars, storeVars
  <2>2. ToSet(waiters) \subseteq Request
    BY <1>1, ElementOfSeq, LenProperties DEF ToSet, PoolTyped
  <2>3. PoolTyped'
    BY <1>1, <2>1, <2>2 DEF PoolTyped, AdminTyped
  <2>4. AdminTyped'
    BY <1>1, <2>1 DEF AdminTyped
  <2>5. StoreTyped' /\ CallersTyped'
    BY <1>1, <2>1 DEF StoreTyped, CallersTyped
  <2> QED
    BY <2>3, <2>4, <2>5, TypePartsNext
<1>6. CASE ApplyRuntimeLimits(m)
  <2>1. /\ UNCHANGED <<stored, tokened, queue, inUse, apc, read>>
        /\ UNCHANGED <<pc, target, tried, accountID, gone, holding>>
        /\ limits' \in Limits /\ NotifyWaiter /\ calls < MaxAdminCalls /\ calls' = calls + 1
    BY <1>6 DEF ApplyRuntimeLimits, callerVars, storeVars
  <2>2. wasted' = (wasted \/ Len(waiters) > 1)
    BY <1>6, Zenon DEF ApplyRuntimeLimits
  <2>3. wasted' \in BOOLEAN
    BY <2>2, Zenon
  <2>4. PoolTyped'
    BY <1>1, <2>1, NotifyTyped DEF PoolTyped
  <2>5. AdminTyped'
    BY <1>1, <2>1 DEF AdminTyped
  <2>6. StoreTyped' /\ CallersTyped'
    BY <1>1, <2>1, <2>3 DEF StoreTyped, CallersTyped
  <2> QED
    BY <2>4, <2>5, <2>6, TypePartsNext
<1> QED
  BY <1>2, <1>3, <1>4, <1>5, <1>6

LEMMA InitTyped == Init => TypeOK
<1> SUFFICES ASSUME Init PROVE TypeOK
  OBVIOUS
<1>1. /\ stored \in StartAccounts /\ tokened \in SUBSET ToSet(stored) /\ queue = TokensFirst
      /\ inUse = [a \in Account |-> 0] /\ waiters = <<>> /\ limits \in Limits
      /\ pc = [r \in Request |-> "new"] /\ target = [r \in Request |-> NoAccount]
      /\ tried = [r \in Request |-> {}] /\ accountID = [r \in Request |-> NoAccount]
      /\ woken = {} /\ gone = {} /\ holding = [r \in Request |-> NoAccount] /\ wasted = FALSE
      /\ apc = [m \in Admin |-> "idle"] /\ read = [m \in Admin |-> <<>>] /\ calls = 0
  BY Zenon DEF Init
<1>2. stored \in Seq(Account) /\ IsInjective(stored)
  BY <1>1, PoolAssumption, AccountsOnce
<1>3. ToSet(stored) \subseteq Account
  BY <1>2, ElementOfSeq, LenProperties DEF ToSet
<1>4. PoolTyped
  BY <1>1, <1>2, TokensFirstTyped DEF PoolTyped
<1>5. StoreTyped
  BY <1>1, <1>2, <1>3 DEF StoreTyped
<1>6. CallersTyped
  BY <1>1 DEF CallersTyped
<1>7. AdminTyped
  BY <1>1, PoolAssumption DEF AdminTyped
<1> QED
  BY <1>4, <1>5, <1>6, <1>7, TypeParts

LEMMA TypeUnchanged == TypeOK /\ UNCHANGED vars => TypeOK'
BY DEF TypeOK, vars, storeVars, callerVars, adminVars

(* The counters of the pool never fall below zero, its queue and the list of *)
(* waiters have nothing but accounts and requests, and the store has no      *)
(* account twice, whatever requests and admin calls do (pool_core.go:11-34,  *)
(* 83-100).                                                                 *)
THEOREM PoolTypesCorrect == Spec => []TypeOK
<1>1. TypeOK /\ [Next]_vars => TypeOK'
  <2> SUFFICES ASSUME TypeOK, [Next]_vars PROVE TypeOK'
    OBVIOUS
  <2>1. ASSUME NEW r \in Request, Arrive(r, "enter") \/ ContextDone(r) \/ Wait(r) \/ Release(r)
        PROVE  TypeOK'
    BY <2>1, ArriveTyped, MovesTyped, TryAcquireTyped, GiveUpTyped, ReleaseTyped DEF Wait
  <2> QED
    BY <2>1, UpkeepTyped, TypeUnchanged DEF Next
<1> QED
  BY <1>1, InitTyped, PTL DEF Spec

(* A request that has an account, or has had to give one back to switch,     *)
(* names it.                                                                *)
Named == \A r \in Request \ Direct :
    pc[r] \in HasAccount \cup {"swTry", "stuck"} => accountID[r] \in Account

LEMMA NamedKept ==
    ASSUME Named, NEW r \in Request, UNCHANGED accountID,
           \A q \in Request \ {r} : pc'[q] = pc[q],
           r \notin Direct /\ pc'[r] \in HasAccount \cup {"swTry", "stuck"} =>
               pc[r] \in HasAccount \cup {"swTry", "stuck"}
    PROVE  Named'
BY DEF Named

LEMMA NamedMoves ==
    ASSUME Named, TypeOK, NEW r \in Request, NEW p, pc' = [pc EXCEPT ![r] = p], UNCHANGED accountID,
           \/ p \notin HasAccount \cup {"swTry", "stuck"}
           \/ pc[r] \in HasAccount \cup {"swTry", "stuck"}
           \/ r \in Direct
    PROVE  Named'
<1>1. DOMAIN pc = Request
  BY DEF TypeOK
<1>2. pc'[r] = p /\ \A q \in Request \ {r} : pc'[q] = pc[q]
  BY <1>1
<1> QED
  BY <1>2, NamedKept

LEMMA NamedGrant ==
    ASSUME Named, TypeOK, NEW r \in Request, NEW p, NEW a \in Account, pc' = [pc EXCEPT ![r] = p],
           accountID' = [accountID EXCEPT ![r] = a]
    PROVE  Named'
<1>1. DOMAIN pc = Request /\ DOMAIN accountID = Request
  BY DEF TypeOK
<1> QED
  BY <1>1 DEF Named

(* A managed request that logs in names its account. *)
LEMMA DisownTyped ==
    ASSUME TypeOK, Named, NEW r \in Request, r \notin Direct,
           pc[r] \in HasAccount \cup {"swTry", "stuck"}, Disown(r), UNCHANGED <<queue, limits>>
    PROVE  /\ PoolTyped' /\ tried' \in [Request -> SUBSET Account]
           /\ holding' \in [Request -> Account \cup {NoAccount}]
<1>1. PoolTyped /\ CallersTyped
  BY TypeParts
<1>2. accountID[r] \in Account
  BY DEF Named
<1>3. PoolTyped'
  BY <1>1, <1>2, PoolReleaseTyped DEF Disown
<1>4. tried' \in [Request -> SUBSET Account]
  BY <1>1, <1>2 DEF Disown, CallersTyped
<1>5. holding' \in [Request -> Account \cup {NoAccount}]
  BY <1>1 DEF Disown, CallersTyped
<1> QED
  BY <1>3, <1>4, <1>5

NamesAccount == HasAccount \cup {"swTry", "stuck"}
Typed == TypeOK /\ Named

(* Steps that move a request and change nothing that has a type. *)
LEMMA GotoTyped ==
    ASSUME Typed, NEW r \in Request, NEW p, Goto(r, p),
           p \notin NamesAccount \/ pc[r] \in NamesAccount \/ r \in Direct,
           UNCHANGED <<stored, queue, inUse, waiters, limits, target, tried, accountID, gone,
                       holding, woken, wasted, adminVars>>,
           tokened' \subseteq Account
    PROVE  Typed'
<1>1. TypeOK'
  BY DEF Typed, TypeOK, Goto, adminVars
<1>2. Named'
  BY NamedMoves DEF Typed, NamesAccount, Goto
<1> QED
  BY <1>1, <1>2 DEF Typed

LEMMA LoggingInTyped ==
    ASSUME AuthInv, Typed, NEW r \in Request, NEW here, NEW ok, NEW login,
           {here, ok, login} \subseteq NamesAccount, EnsureToken(r, here, ok, login) \/ LoginSucceeds(r, here, ok)
    PROVE  Typed'
<1>1. tokened \subseteq Account
  BY DEF Typed, TypeOK
<1>2. pc[r] \in NamesAccount
  BY DEF EnsureToken, LoginSucceeds, At
<1>3. CASE EnsureToken(r, here, ok, login)
  <2>1. Goto(r, ok) \/ Goto(r, login)
    BY <1>3 DEF EnsureToken
  <2>2. UNCHANGED <<stored, tokened, queue, inUse, waiters, limits, target, tried, accountID, gone,
                    holding, woken, wasted, adminVars>>
    BY <1>3 DEF EnsureToken, storeVars
  <2> QED
    BY <1>1, <1>2, <2>1, <2>2, GotoTyped
<1>4. CASE LoginSucceeds(r, here, ok)
  <2>1. accountID[r] \in Account
    <3>1. Contains(stored, accountID[r]) /\ stored \in Seq(Account)
      BY <1>4 DEF LoginSucceeds, Typed, TypeOK
    <3> QED
      BY <3>1, ElementOfSeq DEF Contains
  <2>2. tokened' \subseteq Account
    BY <1>1, <1>4, <2>1 DEF LoginSucceeds
  <2>3. /\ UNCHANGED <<stored, queue, inUse, waiters, limits, target, tried, accountID, gone,
                       holding, woken, wasted, adminVars>>
        /\ Goto(r, ok)
    BY <1>4 DEF LoginSucceeds
  <2> QED
    BY <1>2, <2>2, <2>3, GotoTyped
<1> QED
  BY <1>3, <1>4

LEMMA DisowningTyped ==
    ASSUME AuthInv, Typed, NEW r \in Request, r \notin Direct, pc[r] \in NamesAccount,
           Disown(r), NEW p, Goto(r, p),
           UNCHANGED <<storeVars, queue, limits, target, accountID, gone, wasted, adminVars>>
    PROVE  Typed'
<1>1. TypeOK /\ Named /\ PoolTyped /\ StoreTyped /\ CallersTyped /\ AdminTyped
  BY TypeParts DEF Typed
<1>2. /\ UNCHANGED <<stored, tokened, queue, limits, target, accountID, gone, wasted, apc, read, calls>>
      /\ pc' = [pc EXCEPT ![r] = p]
  BY DEF storeVars, adminVars, Goto
<1>3. /\ PoolTyped' /\ tried' \in [Request -> SUBSET Account]
      /\ holding' \in [Request -> Account \cup {NoAccount}]
  BY <1>1, <1>2, DisownTyped DEF NamesAccount
<1>4. CallersTyped'
  BY <1>1, <1>2, <1>3 DEF CallersTyped
<1>5. StoreTyped' /\ AdminTyped'
  BY <1>1, <1>2 DEF StoreTyped, AdminTyped
<1>6. Named'
  BY <1>1, <1>2, NamedMoves DEF NamesAccount
<1> QED
  BY <1>3, <1>4, <1>5, <1>6, TypePartsNext DEF Typed

LEMMA ArrivesTyped == ASSUME AuthInv, Typed, NEW r \in Request, Arrives(r) PROVE Typed'
<1>1. CASE DirectArrives(r)
  <2>1. /\ UNCHANGED <<stored, tokened, queue, inUse, waiters, limits, target, tried, accountID,
                       gone, holding, woken, wasted, adminVars>>
        /\ Goto(r, "held") /\ r \in Direct
    BY <1>1 DEF DirectArrives, storeVars
  <2>2. tokened' \subseteq Account
    BY <2>1 DEF Typed, TypeOK
  <2> QED
    BY <2>1, <2>2, GotoTyped
<1>2. CASE ManagedArrives(r)
  <2>1. TypeOK'
    BY <1>2, ArriveTyped DEF ManagedArrives, Typed
  <2>2. pc' = [pc EXCEPT ![r] = "loop"] /\ UNCHANGED accountID
    BY <1>2 DEF ManagedArrives, Arrive
  <2>3. Named'
    BY <2>2, NamedMoves DEF Typed, HasAccount
  <2> QED
    BY <2>1, <2>3 DEF Typed
<1> QED
  BY <1>1, <1>2 DEF Arrives

LEMMA AcquireTyped == ASSUME AuthInv, Typed, NEW r \in Request, Acquire(r) PROVE Typed'
<1> DEFINE a == Choice(target[r], tried[r])
<1>1. TypeOK' /\ TryAcquire(r, "ensure", "left")
  BY TryAcquireTyped DEF Acquire, Typed
<1>2. a \in Account \cup {NoAccount}
  BY ChoiceTyped DEF Typed, TypeOK
<1> HIDE DEF a
<1>3. CASE r \notin gone /\ a # NoAccount
  <2>1. accountID' = [accountID EXCEPT ![r] = a] /\ pc' = [pc EXCEPT ![r] = "ensure"]
    BY <1>1, <1>3, Zenon DEF TryAcquire, a
  <2> QED
    BY <1>1, <1>2, <1>3, <2>1, NamedGrant DEF Typed
<1>4. CASE ~(r \notin gone /\ a # NoAccount)
  <2>1. /\ UNCHANGED accountID
        /\ pc' = [pc EXCEPT ![r] = "select"] \/ pc' = [pc EXCEPT ![r] = "left"]
    BY <1>1, <1>4, Zenon DEF TryAcquire, a
  <2> QED
    BY <1>1, <2>1, NamedMoves DEF Typed, HasAccount
<1> QED
  BY <1>3, <1>4

LEMMA DetermineTyped == ASSUME AuthInv, Typed, NEW r \in Request, Determine(r) PROVE Typed'
<1>1. CASE LoopHead(r)
  <2>1. /\ UNCHANGED <<stored, tokened, queue, inUse, waiters, limits, target, tried, accountID,
                       gone, holding, woken, wasted, adminVars>>
        /\ Goto(r, "left") \/ Goto(r, "enter")
    BY <1>1 DEF LoopHead, storeVars
  <2>2. tokened' \subseteq Account
    BY <2>1 DEF Typed, TypeOK
  <2> QED
    BY <2>1, <2>2, GotoTyped DEF NamesAccount, HasAccount
<1>2. CASE Acquire(r)
  BY <1>2, AcquireTyped
<1>3. CASE Queued(r)
  <2>1. TypeOK'
    BY <1>3, MovesTyped, GiveUpTyped DEF Queued, Typed
  <2>2. /\ UNCHANGED accountID
        /\ pc' = [pc EXCEPT ![r] = "enter"] \/ pc' = [pc EXCEPT ![r] = "left"]
    BY <1>3 DEF Queued, WakeUp, GiveUp
  <2> QED
    BY <2>1, <2>2, NamedMoves DEF Typed, HasAccount
<1>4. CASE EnsureToken(r, "ensure", "held", "login") \/ LoginSucceeds(r, "login", "held")
  BY <1>4, LoggingInTyped DEF NamesAccount, HasAccount
<1>5. CASE DetermineFails(r)
  <2>1. /\ UNCHANGED <<storeVars, queue, limits, target, accountID, gone, wasted, adminVars>>
        /\ Disown(r) /\ pc[r] = "login"
    BY <1>5 DEF DetermineFails, LoginFails, At
  <2>2. PICK p : Goto(r, p)
    BY <1>5 DEF DetermineFails
  <2>3. r \notin Direct
    BY <2>1 DEF AuthInv, Phases, InPhase
  <2> QED
    BY <2>1, <2>2, <2>3, DisowningTyped DEF NamesAccount, HasAccount
<1> QED
  BY <1>1, <1>2, <1>3, <1>4, <1>5 DEF Determine

LEMMA UseTyped == ASSUME AuthInv, Typed, NEW r \in Request, Use(r) PROVE Typed'
<1>1. CASE SwitchReleases(r, {"held", "stuck"})
  <2>1. /\ UNCHANGED <<storeVars, queue, limits, target, accountID, gone, wasted, adminVars>>
        /\ Disown(r) /\ pc[r] \in {"held", "stuck"} /\ r \notin Direct /\ Goto(r, "swTry")
    BY <1>1 DEF SwitchReleases, MaySwitch
  <2> QED
    BY <2>1, DisowningTyped DEF NamesAccount, HasAccount
<1>2. CASE SwitchTries(r, "stuck")
  <2> DEFINE a == Choice(NoAccount, tried[r])
  <2>1. TypeOK /\ Named /\ PoolTyped /\ StoreTyped /\ CallersTyped /\ AdminTyped
    BY TypeParts DEF Typed
  <2>2. a \in Account \cup {NoAccount}
    BY <2>1, ChoiceTyped DEF PoolTyped
  <2> HIDE DEF a
  <2>3. /\ pc[r] = "swTry"
        /\ UNCHANGED <<stored, tokened, waiters, limits, target, tried, gone, woken, wasted, apc, read, calls>>
    BY <1>2 DEF SwitchTries, At, storeVars, adminVars
  <2>4. CASE a # NoAccount
    <3>1. /\ Grant(a) /\ accountID' = [accountID EXCEPT ![r] = a]
          /\ holding' = [holding EXCEPT ![r] = a] /\ pc' = [pc EXCEPT ![r] = "swEnsure"]
      BY <1>2, <2>4, Zenon DEF SwitchTries, Goto, a
    <3>2. PoolTyped'
      BY <2>1, <2>2, <2>3, <2>4, <3>1, GrantTyped DEF PoolTyped
    <3>3. CallersTyped'
      BY <2>1, <2>2, <2>3, <3>1 DEF CallersTyped
    <3>4. StoreTyped' /\ AdminTyped'
      BY <2>1, <2>3 DEF StoreTyped, AdminTyped
    <3>5. Named'
      BY <2>1, <2>2, <2>4, <3>1, NamedGrant
    <3> QED
      BY <3>2, <3>3, <3>4, <3>5, TypePartsNext DEF Typed
  <2>5. CASE a = NoAccount
    <3>1. Goto(r, "stuck") /\ UNCHANGED <<queue, inUse, accountID, holding>>
      BY <1>2, <2>5, Zenon DEF SwitchTries, a
    <3>2. tokened' \subseteq Account /\ UNCHANGED adminVars
      BY <2>1, <2>3 DEF StoreTyped, adminVars
    <3> QED
      BY <2>3, <3>1, <3>2, GotoTyped DEF NamesAccount
  <2> QED
    BY <2>4, <2>5
<1>3. CASE EnsureToken(r, "swEnsure", "held", "swLogin") \/ LoginSucceeds(r, "swLogin", "held")
           \/ LoginSucceeds(r, "refresh", "held")
  BY <1>3, LoggingInTyped DEF NamesAccount, HasAccount
<1>4. CASE SwitchFails(r)
  <2>1. /\ UNCHANGED <<storeVars, queue, limits, target, accountID, gone, wasted, adminVars>>
        /\ Disown(r) /\ pc[r] = "swLogin" /\ Goto(r, "swTry")
    BY <1>4 DEF SwitchFails, LoginFails, At
  <2>2. r \notin Direct
    BY <2>1 DEF AuthInv, Phases, InPhase
  <2> QED
    BY <2>1, <2>2, DisowningTyped DEF NamesAccount, HasAccount
<1>5. CASE RefreshStarts(r, {"held"}) \/ RefreshFails(r, "held")
  <2>1. /\ UNCHANGED <<stored, queue, inUse, waiters, limits, target, tried, accountID,
                       gone, holding, woken, wasted, adminVars>>
        /\ tokened' \subseteq tokened /\ pc[r] \in {"held", "refresh"}
        /\ Goto(r, "held") \/ Goto(r, "refresh")
    BY <1>5 DEF RefreshStarts, RefreshFails, LoginFails, At, storeVars
  <2>2. tokened' \subseteq Account
    BY <2>1 DEF Typed, TypeOK
  <2> QED
    BY <2>1, <2>2, GotoTyped DEF NamesAccount, HasAccount
<1>6. CASE ReleaseAuth(r, {"held", "stuck"})
  <2>1. TypeOK /\ Named /\ PoolTyped /\ StoreTyped /\ CallersTyped /\ AdminTyped
    BY TypeParts DEF Typed
  <2>2. /\ UNCHANGED <<stored, tokened, queue, limits, target, tried, accountID, gone, wasted, apc, read, calls>>
        /\ PoolRelease(accountID[r]) \/ UNCHANGED <<inUse, waiters, woken>>
        /\ holding' = [holding EXCEPT ![r] = NoAccount] /\ pc' = [pc EXCEPT ![r] = "left"]
    BY <1>6 DEF ReleaseAuth, storeVars, adminVars, Goto
  <2>3. accountID[r] \in Account \cup {NoAccount}
    BY <2>1 DEF CallersTyped
  <2>4. PoolTyped'
    <3>1. CASE PoolRelease(accountID[r])
      BY <2>1, <2>2, <2>3, <3>1, PoolReleaseTyped
    <3>2. CASE UNCHANGED <<inUse, waiters, woken>>
      BY <2>1, <2>2, <3>2 DEF PoolTyped
    <3> QED
      BY <2>2, <3>1, <3>2
  <2>5. CallersTyped'
    BY <2>1, <2>2 DEF CallersTyped
  <2>6. StoreTyped' /\ AdminTyped'
    BY <2>1, <2>2 DEF StoreTyped, AdminTyped
  <2>7. Named'
    BY <2>1, <2>2, NamedMoves DEF HasAccount
  <2> QED
    BY <2>4, <2>5, <2>6, <2>7, TypePartsNext DEF Typed
<1> QED
  BY <1>1, <1>2, <1>3, <1>4, <1>5, <1>6 DEF Use, Switch, Refresh

(* They keep their types when requests log in, refresh and switch accounts   *)
(* too: what is put aside and given back is an account the request names     *)
(* (request.go:81-212).                                                      *)
THEOREM AuthTypesCorrect == AuthSpec => []TypeOK
<1>1. AuthInit => Typed
  <2> SUFFICES ASSUME AuthInit PROVE Typed
    OBVIOUS
  <2>1. Init
    BY Zenon DEF AuthInit
  <2>2. pc = [r \in Request |-> "new"]
    BY <2>1, Zenon DEF Init
  <2>3. Named
    BY <2>2 DEF Named, HasAccount
  <2> QED
    BY <2>1, <2>3, InitTyped DEF Typed
<1>2. AuthInv /\ Typed /\ [AuthNext]_allVars => Typed'
  <2> SUFFICES ASSUME AuthInv, Typed, [AuthNext]_allVars PROVE Typed'
    OBVIOUS
  <2>1. ASSUME NEW r \in Request,
               Arrives(r) \/ (ContextDone(r) /\ UNCHANGED authVars) \/ Determine(r) \/ Use(r)
        PROVE  Typed'
    <3>1. CASE ContextDone(r) /\ UNCHANGED authVars
      <4>1. TypeOK'
        BY <3>1, MovesTyped DEF Typed
      <4>2. UNCHANGED <<pc, accountID>>
        BY <3>1 DEF ContextDone
      <4> QED
        BY <4>1, <4>2 DEF Typed, Named
    <3> QED
      BY <2>1, <3>1, ArrivesTyped, DetermineTyped, UseTyped
  <2>2. CASE Upkeep /\ UNCHANGED authVars
    <3>1. TypeOK'
      BY <2>2, UpkeepTyped DEF Typed
    <3>2. UNCHANGED callerVars
      BY <2>2 DEF Upkeep, ChangeAccounts, ResetReads, ResetApplies, ApplyRuntimeLimits
    <3>3. UNCHANGED <<pc, accountID>>
      BY <3>2 DEF callerVars
    <3> QED
      BY <3>1, <3>3 DEF Typed, Named
  <2>3. CASE (\E a \in Account : TokenAges(a)) \/ UNCHANGED allVars
    <3>1. UNCHANGED vars
      BY <2>3 DEF TokenAges, allVars
    <3>2. UNCHANGED <<pc, accountID>>
      BY <3>1 DEF vars, callerVars
    <3> QED
      BY <3>1, <3>2, TypeUnchanged DEF Typed, Named
  <2> QED
    BY <2>1, <2>2, <2>3 DEF AuthNext
<1>3. AuthSpec => []Typed
  BY <1>1, <1>2, AuthInvHolds, PTL DEF AuthSpec
<1>4. Typed => TypeOK
  BY DEF Typed
<1> QED
  BY <1>3, <1>4, PTL
============================================================================
