------------------------------ MODULE TokenPool ------------------------------
(***************************************************************************)
(* The pool of chatglm.cn refresh tokens kept by src/src/auth.js.          *)
(*                                                                         *)
(* A pool entry is created when a refresh token has been exchanged for an  *)
(* access token, counts the requests that use it (activeRequests), and is  *)
(* probed by a periodic health check.  An entry is an object: a slot and a *)
(* health check that hold a reference to it keep working on it after it    *)
(* has been deleted from the pool.  Entries are named by their id, so the  *)
(* fields of a deleted entry live on in the functions below.               *)
(*                                                                         *)
(* JavaScript runs one callback at a time.  Every action is what one       *)
(* callback does between two awaits; getAccessToken (a network call) is    *)
(* split into the step that issues it and the step that gets its answer.   *)
(***************************************************************************)
EXTENDS Integers, Sequences, FiniteSets, SequencesExt

CONSTANTS
    Account,        \* the refresh tokens an operator may configure or add
    NoAccount,      \* "no call in flight"
    Holder,         \* the callers of acquireToken: one slot each
    Configured,     \* REFRESH_TOKEN: the sequence of accounts added at start
    AdminCall,      \* concurrent POST /admin/api/token/add requests
    Tick,           \* health-check sweeps that may be under way at once
    MaxConcurrent,  \* MAX_CONCURRENT_PER_TOKEN
    DeadThreshold,  \* TOKEN_DEAD_THRESHOLD
    MaxEntry        \* bound: how many entries are ever created

ASSUME AccountAssumption == NoAccount \notin Account /\ Configured \in Seq(Account)
ASSUME HolderAssumption == IsFiniteSet(Holder)
ASSUME LimitAssumption == /\ MaxConcurrent \in Nat \ {0}
                          /\ DeadThreshold \in Nat \ {0}
                          /\ MaxEntry \in Nat

EntryId == 1 .. MaxEntry
NoEntry == 0

(***************************************************************************)
(* What getAccessToken may answer: an access token, a success code without *)
(* an access token in the result, or an error (refused or unreachable).    *)
(***************************************************************************)
Answer == {"token", "noToken", "error"}

VARIABLES
    pool,      \* the live entries, in the order acquireToken scans them
    nextId,    \* id of the next entry
    account,   \* entry.refreshToken
    token,     \* whether entry.accessToken is set
    errors,    \* entry.errorCount
    dead,      \* entry.dead
    active,    \* entry.activeRequests
    slot,      \* per holder: the entry its slot counts on, NoEntry before
    released,  \* per holder: the flag in the closure of slot.release
    booting,   \* accounts initTokenPool has still to add; the head is in flight
    adding,    \* per admin call: the account being exchanged, or NoAccount
    sweep      \* per health-check sweep: the probed entry, and where the
               \* iterator over the live pool array stands

entryVars == <<account, token, errors, dead>>
callVars  == <<booting, adding, sweep>>
poolVars  == <<pool, nextId, entryVars, active, slot, released, callVars>>

Idle == [entry |-> NoEntry, next |-> 1]

PoolTypeOK ==
    /\ pool \in Seq(EntryId)
    /\ nextId \in 1 .. MaxEntry + 1
    /\ account \in [EntryId -> Account \cup {NoAccount}]
    /\ token \in [EntryId -> BOOLEAN]
    /\ errors \in [EntryId -> Nat]
    /\ dead \in [EntryId -> BOOLEAN]
    /\ active \in [EntryId -> Nat]
    /\ slot \in [Holder -> EntryId \cup {NoEntry}]
    /\ released \in [Holder -> BOOLEAN]
    /\ booting \in Seq(Account)
    /\ adding \in [AdminCall -> Account \cup {NoAccount}]
    /\ sweep \in [Tick -> [entry : EntryId \cup {NoEntry}, next : Nat \ {0}]]

PoolInit ==
    /\ pool = <<>> /\ nextId = 1
    /\ account = [e \in EntryId |-> NoAccount]
    /\ token = [e \in EntryId |-> FALSE]
    /\ errors = [e \in EntryId |-> 0]
    /\ dead = [e \in EntryId |-> FALSE]
    /\ active = [e \in EntryId |-> 0]
    /\ slot = [h \in Holder |-> NoEntry]
    /\ released = [h \in Holder |-> FALSE]
    /\ booting = Configured
    /\ adding = [c \in AdminCall |-> NoAccount]
    /\ sweep = [s \in Tick |-> Idle]

-----------------------------------------------------------------------------
(* acquireToken and slot.release.  Here and below, a definition marked as a *)
(* mutant is a version of its successor with one mistake in it: the         *)
(* properties are shown to be able to tell the two apart.                   *)

(* Mutants: a limit off by one; dead entries still handed out. *)
UsableOneOver(e) == ~dead[e] /\ token[e] /\ active[e] <= MaxConcurrent
UsableWhenDead(e) == token[e] /\ active[e] < MaxConcurrent

Usable(e) == ~dead[e] /\ token[e] /\ active[e] < MaxConcurrent

NoneUsable == \A i \in DOMAIN pool : ~Usable(pool[i])

(* The scan keeps the first entry with the fewest active requests. *)
IsBest(i) ==
    /\ Usable(pool[i])
    /\ \A j \in DOMAIN pool : Usable(pool[j]) =>
          \/ active[pool[i]] < active[pool[j]]
          \/ active[pool[i]] = active[pool[j]] /\ i <= j

AcquireToken(h) ==
    \E i \in DOMAIN pool :
      /\ IsBest(i)
      /\ active' = [active EXCEPT ![pool[i]] = @ + 1]
      /\ slot' = [slot EXCEPT ![h] = pool[i]]
      /\ released' = [released EXCEPT ![h] = FALSE]
      /\ UNCHANGED <<pool, nextId, entryVars, callVars>>

(* Mutant: release counts down at every call. *)
ReleaseTokenUnflagged(h) ==
    /\ slot[h] # NoEntry
    /\ released' = [released EXCEPT ![h] = TRUE]
    /\ active' = [active EXCEPT ![slot[h]] = IF @ = 0 THEN 0 ELSE @ - 1]
    /\ UNCHANGED <<pool, nextId, entryVars, slot, callVars>>

(* Mutant: as before, and without the floor of zero. *)
ReleaseTokenUnfloored(h) ==
    /\ slot[h] # NoEntry
    /\ released' = [released EXCEPT ![h] = TRUE]
    /\ active' = [active EXCEPT ![slot[h]] = @ - 1]
    /\ UNCHANGED <<pool, nextId, entryVars, slot, callVars>>

(* The closure runs its body once; later calls return at the flag. *)
ReleaseToken(h) ==
    /\ slot[h] # NoEntry
    /\ released' = [released EXCEPT ![h] = TRUE]
    /\ active' = IF released[h] THEN active
                 ELSE [active EXCEPT ![slot[h]] = IF @ = 0 THEN 0 ELSE @ - 1]
    /\ UNCHANGED <<pool, nextId, entryVars, slot, callVars>>

-----------------------------------------------------------------------------
(* addTokenToPool, from the start-up list and from the admin endpoints, and *)
(* deleteTokenFromPool                                                      *)

(* No search for an entry with the same refresh token is made. *)
AppendEntry(a, answer) ==
    IF answer = "error"
    THEN UNCHANGED <<pool, nextId, entryVars, active>>
    ELSE /\ nextId \in EntryId
         /\ pool' = Append(pool, nextId)
         /\ nextId' = nextId + 1
         /\ account' = [account EXCEPT ![nextId] = a]
         /\ token' = [token EXCEPT ![nextId] = (answer = "token")]
         /\ errors' = [errors EXCEPT ![nextId] = 0]
         /\ dead' = [dead EXCEPT ![nextId] = FALSE]
         /\ active' = [active EXCEPT ![nextId] = 0]

BootAnswer(answer) ==
    /\ booting # <<>>
    /\ AppendEntry(Head(booting), answer)
    /\ booting' = Tail(booting)
    /\ UNCHANGED <<slot, released, adding, sweep>>

AddStart(c, a) ==
    /\ adding[c] = NoAccount
    /\ adding' = [adding EXCEPT ![c] = a]
    /\ UNCHANGED <<pool, nextId, entryVars, active, slot, released, booting, sweep>>

AddAnswer(c, answer) ==
    /\ adding[c] # NoAccount
    /\ AppendEntry(adding[c], answer)
    /\ adding' = [adding EXCEPT ![c] = NoAccount]
    /\ UNCHANGED <<slot, released, booting, sweep>>

DeleteToken(i) ==
    /\ pool' = RemoveAt(pool, i)
    /\ UNCHANGED <<nextId, entryVars, active, slot, released, callVars>>

-----------------------------------------------------------------------------
(* startHealthCheck: for (const t of pool) with an await in its body.  The  *)
(* iterator holds an index into the live array, and a timer tick starts a   *)
(* sweep whether or not the previous one has ended.                         *)

(* Mutant: the last entry is left out. *)
AdvanceStopsShort(s, k, isDead) ==
    LET alive == {i \in k .. Len(pool) - 1 : ~isDead[pool[i]]} IN
    \/ alive = {} /\ sweep' = [sweep EXCEPT ![s] = Idle]
    \/ \E i \in alive :
         /\ \A j \in alive : i <= j
         /\ sweep' = [sweep EXCEPT ![s] = [entry |-> pool[i], next |-> i + 1]]

(* The loop of sweep s from index k on, up to the next await or the end of  *)
(* the array.                                                               *)
Advance(s, k, isDead) ==
    LET alive == {i \in k .. Len(pool) : ~isDead[pool[i]]} IN
    \/ alive = {} /\ sweep' = [sweep EXCEPT ![s] = Idle]
    \/ \E i \in alive :
         /\ \A j \in alive : i <= j
         /\ sweep' = [sweep EXCEPT ![s] = [entry |-> pool[i], next |-> i + 1]]

SweepStart(s) ==
    /\ booting = <<>>
    /\ sweep[s] = Idle
    /\ Advance(s, 1, dead)
    /\ UNCHANGED <<pool, nextId, entryVars, active, slot, released, booting, adding>>

SweepAnswer(s, answer) ==
    LET e == sweep[s].entry IN
    /\ e # NoEntry
    /\ IF answer = "error"
       THEN /\ errors' = [errors EXCEPT ![e] = @ + 1]
            /\ dead' = [dead EXCEPT ![e] = @ \/ errors[e] + 1 >= DeadThreshold]
            /\ token' = token
       ELSE /\ errors' = [errors EXCEPT ![e] = 0]
            /\ dead' = dead
            /\ token' = [token EXCEPT ![e] = (answer = "token")]
    /\ Advance(s, sweep[s].next, dead')
    /\ UNCHANGED <<pool, nextId, account, active, slot, released, booting, adding>>

-----------------------------------------------------------------------------
(* Everything that changes the pool besides the requests that use it. *)
Upkeep ==
    \/ \E answer \in Answer : BootAnswer(answer)
    \/ \E c \in AdminCall : \/ \E a \in Account : AddStart(c, a)
                            \/ \E answer \in Answer : AddAnswer(c, answer)
    \/ \E i \in DOMAIN pool : DeleteToken(i)
    \/ \E s \in Tick : \/ SweepStart(s)
                       \/ \E answer \in Answer : SweepAnswer(s, answer)

(* Any caller: one acquisition, then any number of calls of release. *)
Use(h) == \/ slot[h] = NoEntry /\ AcquireToken(h)
          \/ ReleaseToken(h)

PoolNext == Upkeep \/ \E h \in Holder : Use(h)

PoolSpec == PoolInit /\ [][PoolNext]_poolVars

-----------------------------------------------------------------------------
(* Properties *)

OnEntry(e) == {h \in Holder : slot[h] = e /\ ~released[h]}

(* Slot accounting: activeRequests of an entry is exactly the number of     *)
(* slots on it that have not been released, also after the entry was        *)
(* deleted, and however often release is called (auth.js:46-60).            *)
SlotAccounting == \A e \in EntryId : active[e] = Cardinality(OnEntry(e))

(* No entry ever serves more than MAX_CONCURRENT_PER_TOKEN requests: the    *)
(* slots held on it, counted from the holders and not from the counter that *)
(* acquireToken tests (auth.js:39).                                         *)
ConcurrencyBounded == \A e \in EntryId : Cardinality(OnEntry(e)) <= MaxConcurrent

(* A token that is dead or has been deleted is only drained: whatever the   *)
(* sweeps, additions and callers do from then on, its load never grows and  *)
(* it never comes back to life (auth.js:37, 120-123, 151).                  *)
Withdrawn(e) == e < nextId /\ (dead[e] \/ e \notin Range(pool))

WithdrawnDrains ==
    [][\A e \in EntryId : Withdrawn(e) => Withdrawn(e)' /\ active'[e] <= active[e]]_poolVars

=============================================================================
