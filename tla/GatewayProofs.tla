---------------------------- MODULE GatewayProofs ----------------------------
(***************************************************************************)
(* Proofs about the gateway.  Of its token pool: the types, the slot        *)
(* accounting and the concurrency bound it gives, and that a withdrawn      *)
(* token is only drained.  The inductive invariant PoolInv adds to the      *)
(* properties that ids are handed out once: an entry about to be created    *)
(* has no slots on it yet, which is what allows the code to start it at     *)
(* zero.  Of the sweeps of the health check (HealthSweep): what they miss   *)
(* is paid for by deletions behind their iterators.                         *)
(*                                                                         *)
(* Of the requests and the waiting queue: the gateway uses the pool only as *)
(* the pool allows, a slot is held exactly while its request is served, and *)
(* the queue holds exactly the requests that wait.  The two properties      *)
(* support each other: a waiter that is dispatched must not hold a slot     *)
(* already, which is known from its place in the queue, and its place in    *)
(* the queue from its handler's location.                                   *)
(***************************************************************************)
EXTENDS GatewayProperties, HealthSweep, FiniteSetTheorems, SequenceTheorems, TLAPS

IdsFresh ==
    /\ \A i \in DOMAIN pool : pool[i] < nextId
    /\ \A h \in Holder : slot[h] < nextId
    /\ \A s \in Tick : sweep[s].entry < nextId

PoolInv ==
    /\ PoolTypeOK
    /\ IdsFresh
    /\ SlotAccounting
    /\ \A e \in EntryId : active[e] <= MaxConcurrent

-----------------------------------------------------------------------------
(* Deleting a position of a sequence leaves a sequence of the other elements. *)
LEMMA RemoveAtKeeps ==
  ASSUME NEW S, NEW seq \in Seq(S), NEW i \in DOMAIN seq
  PROVE  /\ RemoveAt(seq, i) \in Seq(S)
         /\ Len(RemoveAt(seq, i)) = Len(seq) - 1
         /\ \A j \in 1 .. Len(seq) - 1 :
              RemoveAt(seq, i)[j] = IF j < i THEN seq[j] ELSE seq[j + 1]
<1> DEFINE front == SubSeq(seq, 1, i - 1)
           back  == SubSeq(seq, i + 1, Len(seq))
<1>1. i \in 1 .. Len(seq) /\ Len(seq) \in Nat
  OBVIOUS
<1>2. /\ front \in Seq(S) /\ Len(front) = i - 1
      /\ \A j \in 1 .. i - 1 : front[j] = seq[j]
  BY <1>1, SubSeqProperties
<1>3. /\ back \in Seq(S) /\ Len(back) = Len(seq) - i
      /\ \A j \in 1 .. Len(seq) - i : back[j] = seq[i + j]
  BY <1>1, SubSeqProperties
<1>4. RemoveAt(seq, i) = front \o back
  BY DEF RemoveAt
<1> HIDE DEF front, back
<1> QED
  BY <1>1, <1>2, <1>3, <1>4

(* Ids are natural numbers, wherever they are kept. *)
LEMMA IdsAreNat ==
  ASSUME PoolTypeOK
  PROVE  /\ nextId \in Nat
         /\ DOMAIN pool = 1 .. Len(pool) /\ Len(pool) \in Nat
         /\ \A i \in DOMAIN pool : pool[i] \in EntryId /\ pool[i] \in Nat
         /\ \A h \in Holder : slot[h] \in Nat
         /\ \A s \in Tick : sweep[s].entry \in Nat /\ sweep[s].next \in Nat \ {0}
<1>1. \A e \in EntryId \cup {NoEntry} : e \in Nat
  BY LimitAssumption DEF EntryId, NoEntry
<1>2. nextId \in Nat
  BY LimitAssumption DEF PoolTypeOK
<1>3. /\ DOMAIN pool = 1 .. Len(pool) /\ Len(pool) \in Nat
      /\ \A i \in DOMAIN pool : pool[i] \in EntryId
  BY DEF PoolTypeOK
<1>4. \A h \in Holder : slot[h] \in Nat
  BY <1>1 DEF PoolTypeOK
<1>5. \A s \in Tick : sweep[s].entry \in Nat /\ sweep[s].next \in Nat \ {0}
  BY <1>1 DEF PoolTypeOK
<1> QED
  BY <1>1, <1>2, <1>3, <1>4, <1>5

(* One holder more, or one less, on an entry. *)
LEMMA OnEntryFinite ==
  ASSUME PoolTypeOK, NEW e \in EntryId
  PROVE  IsFiniteSet(OnEntry(e)) /\ Cardinality(OnEntry(e)) \in Nat
<1>1. OnEntry(e) \subseteq Holder
  BY DEF OnEntry
<1> QED
  BY <1>1, HolderAssumption, FS_Subset, FS_CardinalityType

(* The accounting depends on the slots alone. *)
LEMMA SameSlots ==
  ASSUME UNCHANGED <<slot, released>>, NEW e \in EntryId
  PROVE  OnEntry(e)' = OnEntry(e)
BY DEF OnEntry

-----------------------------------------------------------------------------
LEMMA PoolInvInit == PoolInit => PoolInv
<1> SUFFICES ASSUME PoolInit PROVE PoolInv
  OBVIOUS
<1>1. PoolTypeOK
  BY AccountAssumption, LimitAssumption
     DEF PoolInit, PoolTypeOK, Idle, NoEntry, EntryId
<1>2. IdsFresh
  BY DEF PoolInit, IdsFresh, Idle, NoEntry
<1>3. \A e \in EntryId : OnEntry(e) = {}
  BY DEF PoolInit, OnEntry, EntryId, NoEntry
<1>4. SlotAccounting
  BY <1>3, FS_EmptySet DEF PoolInit, SlotAccounting
<1>5. \A e \in EntryId : active[e] <= MaxConcurrent
  BY LimitAssumption DEF PoolInit
<1> QED
  BY <1>1, <1>2, <1>4, <1>5 DEF PoolInv

(* A holder without a slot takes one: its entry gains exactly that holder. *)
LEMMA AcquireKeepsPoolInv ==
  ASSUME PoolInv, NEW h \in Holder, slot[h] = NoEntry, AcquireToken(h)
  PROVE  PoolInv'
<1> USE DEF PoolInv
<1>1. PICK i \in DOMAIN pool :
        /\ IsBest(i)
        /\ active' = [active EXCEPT ![pool[i]] = @ + 1]
        /\ slot' = [slot EXCEPT ![h] = pool[i]]
        /\ released' = [released EXCEPT ![h] = FALSE]
        /\ UNCHANGED <<pool, nextId, entryVars, callVars>>
  BY DEF AcquireToken
<1>2. pool[i] \in EntryId /\ active[pool[i]] \in Nat /\ active[pool[i]] < MaxConcurrent
  BY <1>1 DEF PoolTypeOK, IsBest, Usable
<1>3. PoolTypeOK'
  BY <1>1, <1>2 DEF PoolTypeOK, entryVars, callVars
<1>4. IdsFresh'
  BY <1>1, <1>2 DEF PoolTypeOK, IdsFresh, callVars
<1>5. ASSUME NEW e \in EntryId PROVE active'[e] = Cardinality(OnEntry(e)')
  <2>1. CASE e = pool[i]
    <3>1. OnEntry(e)' = OnEntry(e) \cup {h} /\ h \notin OnEntry(e)
      BY <1>1, <1>2, <2>1 DEF OnEntry, PoolTypeOK, NoEntry, EntryId
    <3>2. Cardinality(OnEntry(e)') = Cardinality(OnEntry(e)) + 1
      BY <3>1, OnEntryFinite, FS_AddElement
    <3> QED
      BY <1>1, <1>2, <2>1, <3>2 DEF SlotAccounting, PoolTypeOK
  <2>2. CASE e # pool[i]
    <3>1. OnEntry(e)' = OnEntry(e)
      BY <1>1, <1>2, <2>2 DEF OnEntry, PoolTypeOK, NoEntry, EntryId
    <3> QED
      BY <1>1, <2>2, <3>1 DEF SlotAccounting, PoolTypeOK
  <2> QED
    BY <2>1, <2>2
<1>6. \A e \in EntryId : active'[e] <= MaxConcurrent
  BY <1>1, <1>2, LimitAssumption DEF PoolTypeOK
<1> QED
  BY <1>3, <1>4, <1>5, <1>6 DEF SlotAccounting

(* The first release takes its holder off the entry, a later one changes    *)
(* nothing; the counter is then not at its floor of zero.                   *)
LEMMA ReleaseKeepsPoolInv ==
  ASSUME PoolInv, NEW h \in Holder, ReleaseToken(h)
  PROVE  PoolInv'
<1> USE DEF PoolInv
<1>1. CASE released[h]
  <2>1. /\ UNCHANGED <<pool, nextId, entryVars, callVars, active, slot>>
        /\ released' = released
    BY <1>1 DEF ReleaseToken, PoolTypeOK
  <2>2. PoolTypeOK' /\ IdsFresh'
    BY <2>1 DEF PoolTypeOK, IdsFresh, entryVars, callVars
  <2>3. SlotAccounting'
    BY <2>1, SameSlots DEF SlotAccounting
  <2> QED
    BY <2>1, <2>2, <2>3
<1>2. CASE ~released[h]
  <2> DEFINE f == slot[h]
  <2>1. f \in EntryId
    BY DEF ReleaseToken, PoolTypeOK
  <2>2. /\ active' = [active EXCEPT ![f] = IF @ = 0 THEN 0 ELSE @ - 1]
        /\ slot' = slot
        /\ released' = [released EXCEPT ![h] = TRUE]
        /\ UNCHANGED <<pool, nextId, entryVars, callVars>>
    BY <1>2 DEF ReleaseToken
  <2>3. OnEntry(f)' = OnEntry(f) \ {h} /\ h \in OnEntry(f)
    BY <1>2, <2>1, <2>2 DEF OnEntry, PoolTypeOK
  <2>4. Cardinality(OnEntry(f)') = Cardinality(OnEntry(f)) - 1
    BY <2>1, <2>3, OnEntryFinite, FS_RemoveElement
  <2>5. Cardinality(OnEntry(f)) \in Nat /\ Cardinality(OnEntry(f)') \in Nat
    <3>1. IsFiniteSet(OnEntry(f)')
      BY <2>1, <2>3, OnEntryFinite, FS_RemoveElement
    <3> QED
      BY <2>1, <3>1, OnEntryFinite, FS_CardinalityType
  <2>6. PoolTypeOK' /\ IdsFresh'
    BY <2>1, <2>2 DEF PoolTypeOK, IdsFresh, entryVars, callVars
  <2>7. ASSUME NEW e \in EntryId PROVE active'[e] = Cardinality(OnEntry(e)')
    <3>1. CASE e = f
      BY <2>1, <2>2, <2>4, <2>5, <3>1 DEF SlotAccounting, PoolTypeOK
    <3>2. CASE e # f
      <4>1. OnEntry(e)' = OnEntry(e)
        BY <2>2, <3>2 DEF OnEntry, PoolTypeOK
      <4> QED
        BY <2>2, <3>2, <4>1 DEF SlotAccounting, PoolTypeOK
    <3> QED
      BY <3>1, <3>2
  <2>8. \A e \in EntryId : active'[e] <= MaxConcurrent
    BY <2>1, <2>2, LimitAssumption DEF PoolTypeOK
  <2> QED
    BY <2>6, <2>7, <2>8 DEF SlotAccounting
<1> QED
  BY <1>1, <1>2 DEF ReleaseToken, PoolTypeOK

-----------------------------------------------------------------------------
(* A new entry takes a fresh id, which no slot is on. *)
LEMMA AppendKeepsPoolInv ==
  ASSUME PoolInv, NEW a \in Account, NEW answer \in Answer,
         AppendEntry(a, answer), UNCHANGED <<slot, released, sweep>>,
         booting' \in Seq(Account),
         adding' \in [AdminCall -> Account \cup {NoAccount}]
  PROVE  PoolInv'
<1> USE DEF PoolInv
<1>1. CASE answer = "error"
  <2>1. UNCHANGED <<pool, nextId, entryVars, active>>
    BY <1>1 DEF AppendEntry
  <2>2. PoolTypeOK' /\ IdsFresh'
    BY <2>1 DEF PoolTypeOK, IdsFresh, entryVars
  <2>3. SlotAccounting'
    BY <2>1, SameSlots DEF SlotAccounting
  <2> QED
    BY <2>1, <2>2, <2>3
<1>2. CASE answer # "error"
  <2>1. /\ nextId \in EntryId
        /\ pool' = Append(pool, nextId)
        /\ nextId' = nextId + 1
        /\ account' = [account EXCEPT ![nextId] = a]
        /\ token' = [token EXCEPT ![nextId] = (answer = "token")]
        /\ errors' = [errors EXCEPT ![nextId] = 0]
        /\ dead' = [dead EXCEPT ![nextId] = FALSE]
        /\ active' = [active EXCEPT ![nextId] = 0]
    BY <1>2 DEF AppendEntry
  <2>2. /\ pool' \in Seq(EntryId) /\ Len(pool') = Len(pool) + 1
        /\ \A i \in 1 .. Len(pool) : pool'[i] = pool[i]
        /\ pool'[Len(pool) + 1] = nextId
    BY <2>1, AppendProperties DEF PoolTypeOK
  <2>3. PoolTypeOK'
    <3>1. nextId' \in 1 .. MaxEntry + 1
      BY <2>1, LimitAssumption DEF EntryId
    <3> QED
      BY <2>1, <2>2, <3>1 DEF PoolTypeOK
  <2>4. IdsFresh'
    <3>1. \A i \in DOMAIN pool' : pool'[i] < nextId'
      BY <2>1, <2>2, IdsAreNat DEF IdsFresh
    <3>2. \A h \in Holder : slot'[h] < nextId'
      BY <2>1, IdsAreNat DEF IdsFresh
    <3>3. \A s \in Tick : sweep'[s].entry < nextId'
      BY <2>1, IdsAreNat DEF IdsFresh
    <3> QED
      BY <3>1, <3>2, <3>3 DEF IdsFresh
  <2>5. OnEntry(nextId) = {}
    BY <2>1 DEF OnEntry, IdsFresh, PoolTypeOK, EntryId
  <2>6. ASSUME NEW e \in EntryId PROVE active'[e] = Cardinality(OnEntry(e)')
    <3>1. OnEntry(e)' = OnEntry(e)
      BY SameSlots
    <3>2. CASE e = nextId
      BY <2>1, <2>5, <3>1, <3>2, FS_EmptySet DEF PoolTypeOK
    <3>3. CASE e # nextId
      BY <2>1, <3>1, <3>3 DEF SlotAccounting, PoolTypeOK
    <3> QED
      BY <3>2, <3>3
  <2>7. \A e \in EntryId : active'[e] <= MaxConcurrent
    BY <2>1, LimitAssumption DEF PoolTypeOK
  <2> QED
    BY <2>3, <2>4, <2>6, <2>7 DEF SlotAccounting
<1> QED
  BY <1>1, <1>2

(* A sweep moves to an entry of the pool, or ends. *)
LEMMA AdvanceType ==
  ASSUME PoolTypeOK, IdsFresh, NEW s \in Tick, NEW k \in Nat \ {0}, NEW isDead,
         Advance(s, k, isDead)
  PROVE  /\ sweep' \in [Tick -> [entry : EntryId \cup {NoEntry}, next : Nat \ {0}]]
         /\ \A q \in Tick : sweep'[q].entry < nextId
<1> DEFINE alive == {i \in k .. Len(pool) : ~isDead[pool[i]]}
<1>1. CASE sweep' = [sweep EXCEPT ![s] = Idle]
  BY <1>1 DEF PoolTypeOK, IdsFresh, Idle, NoEntry
<1>2. CASE \E i \in alive :
             sweep' = [sweep EXCEPT ![s] = [entry |-> pool[i], next |-> i + 1]]
  <2>1. PICK i \in alive :
          sweep' = [sweep EXCEPT ![s] = [entry |-> pool[i], next |-> i + 1]]
    BY <1>2
  <2>2. i \in Nat /\ pool[i] \in EntryId /\ pool[i] < nextId
    BY IdsAreNat DEF IdsFresh
  <2> QED
    BY <2>1, <2>2 DEF PoolTypeOK, IdsFresh
<1> QED
  BY <1>1, <1>2 DEF Advance

(* Upkeep other than a completed addition leaves slots and counters alone,   *)
(* and takes entries out of the pool at most.                                *)
LEMMA UpkeepKeepsPoolInv ==
  ASSUME PoolInv, Upkeep
  PROVE  PoolInv'
<1> USE DEF PoolInv
<1>1. ASSUME NEW answer \in Answer, BootAnswer(answer) PROVE PoolInv'
  <2>1. Head(booting) \in Account /\ Tail(booting) \in Seq(Account)
    BY <1>1, HeadTailProperties DEF BootAnswer, PoolTypeOK
  <2> QED
    BY <1>1, <2>1, AppendKeepsPoolInv DEF BootAnswer, PoolTypeOK
<1>2. ASSUME NEW c \in AdminCall, NEW a \in Account, AddStart(c, a) PROVE PoolInv'
  <2>1. PoolTypeOK' /\ IdsFresh' /\ active' = active
    BY <1>2 DEF AddStart, PoolTypeOK, IdsFresh, entryVars
  <2>2. SlotAccounting'
    BY <1>2, SameSlots DEF AddStart, SlotAccounting
  <2> QED
    BY <2>1, <2>2
<1>3. ASSUME NEW c \in AdminCall, NEW answer \in Answer, AddAnswer(c, answer)
      PROVE PoolInv'
  <2>1. adding[c] \in Account
    BY <1>3 DEF AddAnswer, PoolTypeOK
  <2>2. booting' \in Seq(Account) /\ adding' \in [AdminCall -> Account \cup {NoAccount}]
    BY <1>3 DEF AddAnswer, PoolTypeOK
  <2> QED
    BY <1>3, <2>1, <2>2, AppendKeepsPoolInv DEF AddAnswer
<1>4. ASSUME NEW i \in DOMAIN pool, DeleteToken(i) PROVE PoolInv'
  <2>1. /\ pool' \in Seq(EntryId) /\ Len(pool') = Len(pool) - 1
        /\ \A j \in 1 .. Len(pool) - 1 : pool'[j] = IF j < i THEN pool[j] ELSE pool[j + 1]
    BY <1>4, RemoveAtKeeps DEF DeleteToken, PoolTypeOK
  <2>2. PoolTypeOK' /\ active' = active
    BY <1>4, <2>1 DEF DeleteToken, PoolTypeOK, entryVars, callVars
  <2>3. IdsFresh'
    <3>1. \A j \in DOMAIN pool' : pool'[j] < nextId
      <4>1. DOMAIN pool' = 1 .. Len(pool) - 1
        BY <2>1, IdsAreNat
      <4>2. \A j \in 1 .. Len(pool) - 1 : pool'[j] < nextId
        BY <2>1, IdsAreNat DEF IdsFresh
      <4> QED
        BY <4>1, <4>2
    <3> QED
      BY <1>4, <3>1 DEF DeleteToken, IdsFresh, callVars
  <2>4. SlotAccounting'
    BY <1>4, SameSlots DEF DeleteToken, SlotAccounting
  <2> QED
    BY <2>2, <2>3, <2>4
<1>5. ASSUME NEW s \in Tick, SweepStart(s) PROVE PoolInv'
  <2>1. PoolTypeOK' /\ IdsFresh' /\ active' = active
    BY <1>5, AdvanceType DEF SweepStart, PoolTypeOK, IdsFresh, entryVars
  <2>2. SlotAccounting'
    BY <1>5, SameSlots DEF SweepStart, SlotAccounting
  <2> QED
    BY <2>1, <2>2
<1>6. ASSUME NEW s \in Tick, NEW answer \in Answer, SweepAnswer(s, answer) PROVE PoolInv'
  <2> DEFINE e == sweep[s].entry
  <2>1. e \in EntryId /\ sweep[s].next \in Nat \ {0}
    BY <1>6 DEF SweepAnswer, PoolTypeOK
  <2>2. /\ errors' \in [EntryId -> Nat]
        /\ dead' \in [EntryId -> BOOLEAN]
        /\ token' \in [EntryId -> BOOLEAN]
    <3>1. CASE answer = "error"
      <4>1. /\ errors' = [errors EXCEPT ![e] = @ + 1]
            /\ dead' = [dead EXCEPT ![e] = @ \/ errors[e] + 1 >= DeadThreshold]
            /\ token' = token
        BY <1>6, <3>1 DEF SweepAnswer
      <4> QED
        BY <2>1, <4>1 DEF PoolTypeOK
    <3>2. CASE answer # "error"
      <4>1. /\ errors' = [errors EXCEPT ![e] = 0]
            /\ dead' = dead
            /\ token' = [token EXCEPT ![e] = (answer = "token")]
        BY <1>6, <3>2 DEF SweepAnswer
      <4> QED
        BY <2>1, <4>1 DEF PoolTypeOK
    <3> QED
      BY <3>1, <3>2
  <2>3. /\ sweep' \in [Tick -> [entry : EntryId \cup {NoEntry}, next : Nat \ {0}]]
        /\ \A q \in Tick : sweep'[q].entry < nextId
    BY <1>6, <2>1, AdvanceType DEF SweepAnswer
  <2>4. PoolTypeOK' /\ IdsFresh' /\ active' = active
    BY <1>6, <2>2, <2>3 DEF SweepAnswer, PoolTypeOK, IdsFresh
  <2>5. SlotAccounting'
    BY <1>6, SameSlots DEF SweepAnswer, SlotAccounting
  <2> QED
    BY <2>4, <2>5
<1> QED
  BY <1>1, <1>2, <1>3, <1>4, <1>5, <1>6 DEF Upkeep

LEMMA StutterKeepsPoolInv ==
  ASSUME PoolInv, UNCHANGED poolVars
  PROVE  PoolInv'
<1> USE DEF PoolInv
<1>1. SlotAccounting'
  BY SameSlots DEF SlotAccounting, poolVars
<1> QED
  BY <1>1 DEF PoolTypeOK, IdsFresh, poolVars, entryVars, callVars

-----------------------------------------------------------------------------
(* No step of the pool, with whatever callers, breaks the invariant. *)
LEMMA PoolStepKeepsPoolInv ==
  ASSUME PoolInv, [PoolNext]_poolVars
  PROVE  PoolInv'
<1>1. CASE Upkeep
  BY <1>1, UpkeepKeepsPoolInv
<1>2. ASSUME NEW h \in Holder, Use(h) PROVE PoolInv'
  BY <1>2, AcquireKeepsPoolInv, ReleaseKeepsPoolInv DEF Use
<1>3. CASE UNCHANGED poolVars
  BY <1>3, StutterKeepsPoolInv
<1> QED
  BY <1>1, <1>2, <1>3 DEF PoolNext

(* Every reachable state of the pool satisfies the inductive invariant:     *)
(* fields have their types, ids are fresh when they are handed out, and     *)
(* activeRequests counts the unreleased slots.                              *)
THEOREM PoolInvariant == PoolSpec => []PoolInv
<1> QED
  BY PoolStepKeepsPoolInv, PoolInvInit, PTL DEF PoolSpec

(* The fields of the pool keep their types (auth.js:94-109). *)
THEOREM PoolTypeCorrect == PoolSpec => []PoolTypeOK
<1>1. PoolInv => PoolTypeOK
  BY DEF PoolInv
<1> QED
  BY <1>1, PoolInvariant, PTL

(* activeRequests of every entry is the number of slots held on it, for any *)
(* number of callers, entries and sweeps (auth.js:46-60).                   *)
THEOREM SlotAccountingCorrect == PoolSpec => []SlotAccounting
<1>1. PoolInv => SlotAccounting
  BY DEF PoolInv
<1> QED
  BY <1>1, PoolInvariant, PTL

(* No entry ever has more than MaxConcurrent slots held on it (auth.js:39). *)
THEOREM ConcurrencyCorrect == PoolSpec => []ConcurrencyBounded
<1>1. PoolInv => ConcurrencyBounded
  BY DEF PoolInv, SlotAccounting, ConcurrencyBounded
<1> QED
  BY <1>1, PoolInvariant, PTL

-----------------------------------------------------------------------------
(* One step of the pool leaves a withdrawn entry withdrawn and does not add *)
(* to its load.                                                             *)
LEMMA AppendDrains ==
  ASSUME PoolInv, NEW e \in EntryId, Withdrawn(e), NEW a, NEW answer,
         AppendEntry(a, answer)
  PROVE  Withdrawn(e)' /\ active'[e] <= active[e]
<1> USE DEF PoolInv
<1>1. CASE answer = "error"
  BY <1>1 DEF AppendEntry, Withdrawn, entryVars, PoolTypeOK
<1>2. CASE answer # "error"
  <2>1. /\ nextId \in EntryId
        /\ pool' = Append(pool, nextId)
        /\ nextId' = nextId + 1
        /\ dead' = [dead EXCEPT ![nextId] = FALSE]
        /\ active' = [active EXCEPT ![nextId] = 0]
    BY <1>2 DEF AppendEntry
  <2>2. e < nextId /\ e # nextId /\ e \in Nat /\ nextId \in Nat
    BY IdsAreNat, LimitAssumption DEF Withdrawn, EntryId
  <2>3. e \notin Range(pool) => e \notin Range(pool')
    <3>1. /\ Len(pool') = Len(pool) + 1 /\ pool' \in Seq(EntryId)
          /\ \A i \in 1 .. Len(pool) : pool'[i] = pool[i]
          /\ pool'[Len(pool) + 1] = nextId
      BY <2>1, AppendProperties DEF PoolTypeOK
    <3>2. DOMAIN pool' = 1 .. Len(pool) + 1
      BY <3>1
    <3> QED
      BY <2>2, <3>1, <3>2, IdsAreNat DEF Range
  <2> QED
    BY <2>1, <2>2, <2>3 DEF Withdrawn, PoolTypeOK
<1> QED
  BY <1>1, <1>2

LEMMA UpkeepDrains ==
  ASSUME PoolInv, NEW e \in EntryId, Withdrawn(e), Upkeep
  PROVE  Withdrawn(e)' /\ active'[e] <= active[e]
<1> USE DEF PoolInv
<1>1. ASSUME NEW answer \in Answer, BootAnswer(answer)
      PROVE  Withdrawn(e)' /\ active'[e] <= active[e]
  BY <1>1, AppendDrains DEF BootAnswer
<1>2. ASSUME NEW c \in AdminCall, NEW answer \in Answer, AddAnswer(c, answer)
      PROVE  Withdrawn(e)' /\ active'[e] <= active[e]
  BY <1>2, AppendDrains DEF AddAnswer
<1>3. ASSUME NEW c \in AdminCall, NEW a \in Account, AddStart(c, a)
      PROVE  Withdrawn(e)' /\ active'[e] <= active[e]
  BY <1>3 DEF AddStart, Withdrawn, entryVars, PoolTypeOK
<1>4. ASSUME NEW i \in DOMAIN pool, DeleteToken(i)
      PROVE  Withdrawn(e)' /\ active'[e] <= active[e]
  <2>1. /\ pool' \in Seq(EntryId) /\ Len(pool') = Len(pool) - 1
        /\ \A j \in 1 .. Len(pool) - 1 : pool'[j] = IF j < i THEN pool[j] ELSE pool[j + 1]
    BY <1>4, RemoveAtKeeps DEF DeleteToken, PoolTypeOK
  <2>2. DOMAIN pool' = 1 .. Len(pool) - 1
    BY <2>1, IdsAreNat
  <2>3. e \notin Range(pool) => e \notin Range(pool')
    <3>1. ASSUME NEW j \in 1 .. Len(pool) - 1
          PROVE  \E k \in DOMAIN pool : pool'[j] = pool[k]
      <4>1. j \in DOMAIN pool /\ j + 1 \in DOMAIN pool
        BY IdsAreNat
      <4> QED
        BY <2>1, <4>1
    <3> QED
      BY <2>2, <3>1 DEF Range
  <2> QED
    BY <1>4, <2>3 DEF DeleteToken, Withdrawn, entryVars, PoolTypeOK
<1>5. ASSUME NEW s \in Tick, SweepStart(s)
      PROVE  Withdrawn(e)' /\ active'[e] <= active[e]
  BY <1>5 DEF SweepStart, Withdrawn, entryVars, PoolTypeOK
<1>6. ASSUME NEW s \in Tick, NEW answer \in Answer, SweepAnswer(s, answer)
      PROVE  Withdrawn(e)' /\ active'[e] <= active[e]
  <2>1. dead[e] => dead'[e]
    <3> DEFINE f == sweep[s].entry
    <3>1. CASE answer = "error"
      <4>1. dead' = [dead EXCEPT ![f] = @ \/ errors[f] + 1 >= DeadThreshold]
        BY <1>6, <3>1 DEF SweepAnswer
      <4> QED
        BY <4>1 DEF PoolTypeOK
    <3>2. CASE answer # "error"
      BY <1>6, <3>2 DEF SweepAnswer
    <3> QED
      BY <3>1, <3>2
  <2> QED
    BY <1>6, <2>1 DEF SweepAnswer, Withdrawn, PoolTypeOK
<1> QED
  BY <1>1, <1>2, <1>3, <1>4, <1>5, <1>6 DEF Upkeep

(* A dead or deleted token is only drained: it stays withdrawn and its load *)
(* never grows (auth.js:37, 119-123, 151).                                  *)
THEOREM WithdrawnDrainsCorrect == PoolSpec => WithdrawnDrains
<1>1. ASSUME PoolInv, [PoolNext]_poolVars, NEW e \in EntryId, Withdrawn(e)
      PROVE  Withdrawn(e)' /\ active'[e] <= active[e]
  <2> USE DEF PoolInv
  <2>1. CASE Upkeep
    BY <1>1, <2>1, UpkeepDrains
  <2>2. ASSUME NEW h \in Holder, AcquireToken(h)
        PROVE  Withdrawn(e)' /\ active'[e] <= active[e]
    <3>1. PICK i \in DOMAIN pool :
            /\ IsBest(i)
            /\ active' = [active EXCEPT ![pool[i]] = @ + 1]
            /\ UNCHANGED <<pool, nextId, entryVars>>
      BY <2>2 DEF AcquireToken
    <3>2. pool[i] # e
      BY <1>1, <3>1 DEF Withdrawn, IsBest, Usable, Range
    <3> QED
      BY <1>1, <3>1, <3>2 DEF Withdrawn, entryVars, PoolTypeOK
  <2>3. ASSUME NEW h \in Holder, ReleaseToken(h)
        PROVE  Withdrawn(e)' /\ active'[e] <= active[e]
    <3>1. active'[e] <= active[e]
      <4>1. CASE released[h]
        BY <1>1, <2>3, <4>1 DEF ReleaseToken, PoolTypeOK
      <4>2. CASE ~released[h]
        <5>1. active' = [active EXCEPT ![slot[h]] = IF @ = 0 THEN 0 ELSE @ - 1]
          BY <2>3, <4>2 DEF ReleaseToken
        <5> QED
          BY <1>1, <5>1 DEF PoolTypeOK
      <4> QED
        BY <4>1, <4>2
    <3> QED
      BY <1>1, <2>3, <3>1 DEF ReleaseToken, Withdrawn, entryVars
  <2>4. CASE UNCHANGED poolVars
    BY <1>1, <2>4 DEF poolVars, entryVars, Withdrawn, PoolTypeOK
  <2> QED
    BY <1>1, <2>1, <2>2, <2>3, <2>4 DEF PoolNext, Use
<1>2. PoolInv /\ [PoolNext]_poolVars =>
        [\A e \in EntryId : Withdrawn(e) => Withdrawn(e)' /\ active'[e] <= active[e]]_poolVars
  BY <1>1
<1> QED
  BY <1>2, PoolInvariant, PTL DEF PoolSpec, WithdrawnDrains

-----------------------------------------------------------------------------
(* What a sweep misses.  Its iterator may stand beyond the end of the array *)
(* after deletions; each place between is a deletion that has not yet cost  *)
(* an entry, but will cost the next one that is added.                      *)
Gap(s) == IF Running(s) /\ sweep[s].next > Len(pool) + 1
          THEN sweep[s].next - 1 - Len(pool) ELSE 0

SweepInv ==
    /\ \A s \in Tick : due[s] \subseteq 1 .. nextId - 1 /\ cuts[s] \in Nat
    /\ due = [s \in Tick |-> due[s]] /\ probed = [s \in Tick |-> probed[s]]
    /\ cuts = [s \in Tick |-> cuts[s]]
    /\ \A s \in Tick : Cardinality(Missed(s)) + Gap(s) <= cuts[s]

LEMMA MissedFinite ==
  ASSUME PoolInv, SweepInv, NEW s \in Tick
  PROVE  IsFiniteSet(Missed(s)) /\ Cardinality(Missed(s)) \in Nat /\ Gap(s) \in Nat
<1>1. nextId - 1 \in Int
  BY IdsAreNat DEF PoolInv
<1>2. IsFiniteSet(1 .. nextId - 1)
  BY <1>1, FS_Interval
<1>3. Missed(s) \subseteq 1 .. nextId - 1
  BY DEF Missed, SweepInv
<1>4. Gap(s) \in Nat
  BY IdsAreNat DEF Gap, PoolInv
<1> QED
  BY <1>2, <1>3, <1>4, FS_Subset, FS_CardinalityType

(* What is missed never grows by more than what has been cut.               *)
LEMMA StillCounted ==
  ASSUME PoolInv, SweepInv, NEW s \in Tick, Missed(s)' \subseteq Missed(s),
         Gap(s)' <= Gap(s), Gap(s)' \in Nat, cuts'[s] = cuts[s]
  PROVE  Cardinality(Missed(s)') + Gap(s)' <= cuts'[s]
<1>1. Cardinality(Missed(s)') <= Cardinality(Missed(s)) /\ Cardinality(Missed(s)') \in Nat
  BY MissedFinite, FS_Subset, FS_CardinalityType
<1> QED
  BY <1>1, MissedFinite DEF SweepInv

LEMMA OneMore ==
  ASSUME PoolInv, SweepInv, NEW s \in Tick, NEW e, Missed(s)' \subseteq Missed(s) \cup {e}
  PROVE  Cardinality(Missed(s)') \in Nat /\ Cardinality(Missed(s)') <= Cardinality(Missed(s)) + 1
<1> DEFINE M == Missed(s)
           N == Missed(s)'
<1>1. IsFiniteSet(M) /\ Cardinality(M) \in Nat
  BY MissedFinite
<1> HIDE DEF M, N
<1>2. /\ IsFiniteSet(M \cup {e}) /\ Cardinality(M \cup {e}) <= Cardinality(M) + 1
      /\ Cardinality(M \cup {e}) \in Nat
  BY <1>1, FS_AddElement, FS_CardinalityType
<1>3. N \subseteq M \cup {e}
  BY DEF M, N
<1>4. IsFiniteSet(N) /\ Cardinality(N) <= Cardinality(M \cup {e}) /\ Cardinality(N) \in Nat
  BY <1>2, <1>3, FS_Subset, FS_CardinalityType
<1>5. Cardinality(N) \in Nat /\ Cardinality(N) <= Cardinality(M) + 1
  BY <1>1, <1>2, <1>4
<1> QED
  BY <1>5 DEF M, N

(* A sweep that moves on passes only dead entries and the one it asks for.  *)
LEMMA AdvanceMisses ==
  ASSUME PoolInv, NEW s \in Tick, NEW k \in Nat \ {0}, UNCHANGED pool,
         dead' \in [EntryId -> BOOLEAN],
         Advance(s, k, dead'),
         k = sweep[s].next \/ k = 1
  PROVE  /\ Gap(s)' = 0
         /\ \A q \in Tick : q # s => sweep'[q] = sweep[q]
         /\ \A e \in Passed(s)' :
              \/ dead'[e]
              \/ e \in Visited(s)
              \/ \E j \in DOMAIN pool : j < k /\ pool[j] = e
<1> DEFINE alive == {i \in k .. Len(pool) : ~dead'[pool[i]]}
<1>0. /\ DOMAIN pool = 1 .. Len(pool) /\ Len(pool) \in Nat
      /\ sweep = [q \in Tick |-> sweep[q]]
  BY IdsAreNat DEF PoolInv, PoolTypeOK
<1>1. CASE alive = {} /\ sweep' = [sweep EXCEPT ![s] = Idle]
  <2>1. sweep'[s] = Idle /\ \A q \in Tick : q # s => sweep'[q] = sweep[q]
    BY <1>0, <1>1
  <2>2. Passed(s)' = Range(pool) /\ Gap(s)' = 0
    BY <2>1 DEF Passed, Gap, Running
  <2>3. \A i \in DOMAIN pool : i < k \/ dead'[pool[i]]
    BY <1>0, <1>1
  <2> QED
    BY <2>1, <2>2, <2>3 DEF Range
<1>2. ASSUME NEW i \in alive, \A j \in alive : i <= j,
             sweep' = [sweep EXCEPT ![s] = [entry |-> pool[i], next |-> i + 1]]
      PROVE  /\ Gap(s)' = 0
             /\ \A q \in Tick : q # s => sweep'[q] = sweep[q]
             /\ \A e \in Passed(s)' :
                  \/ dead'[e]
                  \/ e \in Visited(s)
                  \/ \E j \in DOMAIN pool : j < k /\ pool[j] = e
  <2>1. /\ sweep'[s] = [entry |-> pool[i], next |-> i + 1]
        /\ \A q \in Tick : q # s => sweep'[q] = sweep[q]
    BY <1>0, <1>2
  <2>2. i \in DOMAIN pool /\ i \in Nat /\ pool[i] # NoEntry /\ i + 1 <= Len(pool) + 1
    BY <1>0, IdsAreNat DEF PoolInv, EntryId, NoEntry
  <2>3. Running(s)' /\ Gap(s)' = 0
    BY <2>1, <2>2, <1>0 DEF Running, Idle, Gap
  <2>4. Visited(s) = {pool[i]}
    BY <2>1, <2>2 DEF Visited
  <2>5. Passed(s)' = {pool[j] : j \in {j \in DOMAIN pool : j < i + 1}}
    BY <2>1, <2>3 DEF Passed
  <2>6. \A j \in DOMAIN pool : j < i + 1 => j = i \/ j < k \/ dead'[pool[j]]
    BY <1>0, <1>2, <2>2
  <2> QED
    BY <2>1, <2>3, <2>4, <2>5, <2>6
<1> QED
  BY <1>1, <1>2 DEF Advance

LEMMA StartsKeepsSweepInv ==
  ASSUME PoolInv, SweepInv, NEW s \in Tick, Starts(s) PROVE SweepInv'
<1>1. /\ UNCHANGED <<pool, dead, nextId>> /\ Advance(s, 1, dead')
      /\ due' = [due EXCEPT ![s] = {e \in Range(pool) : ~dead[e]}]
      /\ probed' = [probed EXCEPT ![s] = Visited(s)]
      /\ cuts' = [cuts EXCEPT ![s] = 0]
  BY DEF Starts, SweepStart, entryVars
<1>2. /\ Gap(s)' = 0
      /\ \A q \in Tick : q # s => sweep'[q] = sweep[q]
      /\ \A e \in Passed(s)' :
              \/ dead'[e]
              \/ e \in Visited(s)
              \/ \E j \in DOMAIN pool : j < 1 /\ pool[j] = e
  BY <1>1, AdvanceMisses DEF PoolInv, PoolTypeOK
<1>3. Missed(s)' = {}
  <2>1. \A j \in DOMAIN pool : ~(j < 1)
    BY IdsAreNat DEF PoolInv
  <2>2. probed'[s] = Visited(s)
    BY <1>1 DEF SweepInv
  <2> QED
    BY <1>2, <2>1, <2>2 DEF Missed
<1>4. ASSUME NEW q \in Tick, q # s PROVE Cardinality(Missed(q)') + Gap(q)' <= cuts'[q]
  <2>1. Missed(q)' = Missed(q) /\ Gap(q)' = Gap(q) /\ cuts'[q] = cuts[q]
    BY <1>1, <1>2, <1>4 DEF Missed, Passed, Running, Gap, SweepInv
  <2> QED
    BY <2>1 DEF SweepInv
<1>5. Range(pool) \subseteq 1 .. nextId - 1
  BY IdsAreNat DEF PoolInv, IdsFresh, Range, EntryId
<1>6. \A q \in Tick : due'[q] \subseteq 1 .. nextId' - 1 /\ cuts'[q] \in Nat
  BY <1>1, <1>5 DEF SweepInv
<1>7. Cardinality(Missed(s)') + Gap(s)' <= cuts'[s]
  BY <1>1, <1>2, <1>3, FS_EmptySet DEF SweepInv
<1>8. /\ due' = [q \in Tick |-> due'[q]] /\ probed' = [q \in Tick |-> probed'[q]]
      /\ cuts' = [q \in Tick |-> cuts'[q]]
  BY <1>1 DEF SweepInv
<1> QED
  BY <1>4, <1>6, <1>7, <1>8 DEF SweepInv

LEMMA ContinuesKeepsSweepInv ==
  ASSUME PoolInv, PoolInv', SweepInv, NEW s \in Tick, Continues(s) PROVE SweepInv'
<1>1. PICK answer \in Answer : SweepAnswer(s, answer)
  BY DEF Continues
<1>2. /\ UNCHANGED <<pool, nextId, due, cuts>> /\ Advance(s, sweep[s].next, dead')
      /\ probed' = [probed EXCEPT ![s] = @ \cup Visited(s)]
      /\ sweep[s].entry # NoEntry
  BY <1>1 DEF Continues, SweepAnswer
<1>3. \A e \in EntryId : dead[e] => dead'[e]
  <2> DEFINE f == sweep[s].entry
  <2>1. CASE answer = "error"
    <3>1. dead' = [dead EXCEPT ![f] = @ \/ errors[f] + 1 >= DeadThreshold]
      BY <1>1, <2>1 DEF SweepAnswer
    <3> QED
      BY <3>1 DEF PoolInv, PoolTypeOK
  <2>2. CASE answer # "error"
    BY <1>1, <2>2 DEF SweepAnswer
  <2> QED
    BY <2>1, <2>2
<1>4. sweep[s].next \in Nat \ {0} /\ dead' \in [EntryId -> BOOLEAN]
  BY IdsAreNat DEF PoolInv, PoolTypeOK
<1>5. /\ Gap(s)' = 0
      /\ \A q \in Tick : q # s => sweep'[q] = sweep[q]
      /\ \A e \in Passed(s)' :
              \/ dead'[e]
              \/ e \in Visited(s)
              \/ \E j \in DOMAIN pool : j < sweep[s].next /\ pool[j] = e
  BY <1>2, <1>4, AdvanceMisses
<1>6. Running(s)
  BY <1>2 DEF Running, Idle
<1>7. Missed(s)' \subseteq Missed(s)
  <2> SUFFICES ASSUME NEW e \in Missed(s)' PROVE e \in Missed(s)
    OBVIOUS
  <2>1. e \in due[s] /\ e \in Passed(s)' /\ ~dead'[e] /\ e \notin probed[s] /\ e \notin Visited(s)
    BY <1>2 DEF Missed, SweepInv
  <2>2. PICK j \in DOMAIN pool : j < sweep[s].next /\ pool[j] = e
    BY <1>5, <2>1
  <2>3. e \in EntryId /\ ~dead[e]
    BY <1>3, <2>1, <2>2, IdsAreNat DEF PoolInv
  <2> QED
    BY <1>6, <2>1, <2>2, <2>3 DEF Missed, Passed
<1>8. ASSUME NEW q \in Tick, q # s PROVE Missed(q)' \subseteq Missed(q) /\ Gap(q)' = Gap(q)
  <2>1. probed'[q] = probed[q] /\ sweep'[q] = sweep[q]
    BY <1>2, <1>5, <1>8 DEF SweepInv
  <2>2. Passed(q)' = Passed(q) /\ Gap(q)' = Gap(q)
    BY <1>2, <2>1 DEF Passed, Running, Gap
  <2>3. Passed(q) \subseteq EntryId
    BY IdsAreNat DEF Passed, PoolInv, Range
  <2> QED
    BY <1>2, <1>3, <2>1, <2>2, <2>3 DEF Missed
<1>9. \A q \in Tick : Cardinality(Missed(q)') + Gap(q)' <= cuts'[q]
  <2> TAKE q \in Tick
  <2>1. Missed(q)' \subseteq Missed(q) /\ Gap(q)' <= Gap(q) /\ Gap(q)' \in Nat
    BY <1>5, <1>7, <1>8, MissedFinite
  <2> QED
    BY <1>2, <2>1, StillCounted
<1>10. probed' = [q \in Tick |-> probed'[q]]
  BY <1>2 DEF SweepInv
<1> QED
  BY <1>2, <1>9, <1>10 DEF SweepInv

LEMMA DeletesKeepsSweepInv ==
  ASSUME PoolInv, SweepInv, Deletes PROVE SweepInv'
<1>1. PICK i \in DOMAIN pool :
        /\ DeleteToken(i)
        /\ cuts' = [s \in Tick |-> cuts[s] + IF Running(s) /\ i < sweep[s].next THEN 1 ELSE 0]
        /\ UNCHANGED <<due, probed>>
  BY DEF Deletes
<1>2. /\ UNCHANGED <<nextId, dead, sweep>>
      /\ DOMAIN pool = 1 .. Len(pool) /\ Len(pool) \in Nat
      /\ DOMAIN pool' = 1 .. Len(pool) - 1 /\ Len(pool') = Len(pool) - 1
      /\ \A j \in 1 .. Len(pool) - 1 : pool'[j] = IF j < i THEN pool[j] ELSE pool[j + 1]
  <2>1. /\ pool' \in Seq(EntryId) /\ Len(pool') = Len(pool) - 1
        /\ \A j \in 1 .. Len(pool) - 1 : pool'[j] = IF j < i THEN pool[j] ELSE pool[j + 1]
    BY <1>1, RemoveAtKeeps DEF DeleteToken, PoolInv, PoolTypeOK
  <2>2. DOMAIN pool = 1 .. Len(pool) /\ Len(pool) \in Nat /\ DOMAIN pool' = 1 .. Len(pool) - 1
    BY <2>1, IdsAreNat DEF PoolInv
  <2> QED
    BY <1>1, <2>1, <2>2 DEF DeleteToken, entryVars, callVars
<1>3. ASSUME NEW s \in Tick PROVE Cardinality(Missed(s)') + Gap(s)' <= cuts'[s]
  <2> DEFINE k == sweep[s].next
  <2>1. k \in Nat /\ i \in Nat
    BY <1>2, IdsAreNat DEF PoolInv
  <2>2. CASE Running(s) /\ i < k
    <3>1. Running(s)' /\ cuts'[s] = cuts[s] + 1
      BY <1>1, <1>2, <2>2 DEF Running
    <3>2. CASE k <= Len(pool)
      <4>1. Missed(s)' \subseteq Missed(s) \cup {pool[k]}
        <5> SUFFICES ASSUME NEW e \in Missed(s)', e # pool[k] PROVE e \in Missed(s)
          OBVIOUS
        <5>1. PICK j \in 1 .. Len(pool) - 1 : j < k /\ pool'[j] = e
          BY <1>2, <3>1 DEF Missed, Passed
        <5>2. \E m \in DOMAIN pool : m < k /\ pool[m] = e
          <6>1. CASE j < i
            <7>1. j \in DOMAIN pool /\ pool[j] = e
              BY <1>2, <2>1, <5>1, <6>1
            <7> QED
              BY <5>1, <7>1
          <6>2. CASE ~(j < i)
            <7>1. j + 1 \in DOMAIN pool /\ pool[j + 1] = e
              BY <1>2, <2>1, <5>1, <6>2
            <7>2. j + 1 # k
              BY <7>1
            <7>3. j + 1 < k
              BY <2>1, <5>1, <7>2
            <7> QED
              BY <7>1, <7>3
          <6> QED
            BY <6>1, <6>2
        <5> QED
          BY <1>1, <1>2, <2>2, <5>2 DEF Missed, Passed
      <4>2. Gap(s)' = 0 /\ Gap(s) = 0
        BY <1>2, <2>1, <3>2 DEF Gap
      <4>3. \E e : Missed(s)' \subseteq Missed(s) \cup {e}
        BY <4>1
      <4>4. Cardinality(Missed(s)') \in Nat /\ Cardinality(Missed(s)') <= Cardinality(Missed(s)) + 1
        BY <4>3, OneMore
      <4> QED
        BY <3>1, <4>2, <4>4, MissedFinite DEF SweepInv
    <3>3. CASE ~(k <= Len(pool))
      <4>1. Missed(s)' \subseteq Missed(s)
        <5> SUFFICES ASSUME NEW e \in Missed(s)' PROVE e \in Missed(s)
          OBVIOUS
        <5>1. PICK j \in 1 .. Len(pool) - 1 : pool'[j] = e
          BY <1>2, <3>1 DEF Missed, Passed
        <5>2. \E m \in DOMAIN pool : m < k /\ pool[m] = e
          BY <1>2, <2>1, <3>3, <5>1
        <5> QED
          BY <1>1, <1>2, <2>2, <5>2 DEF Missed, Passed
      <4>2. Gap(s)' = Gap(s) + 1
        BY <1>2, <2>1, <2>2, <3>1, <3>3 DEF Gap
      <4>3. Cardinality(Missed(s)') <= Cardinality(Missed(s)) /\ Cardinality(Missed(s)') \in Nat
        BY <4>1, MissedFinite, FS_Subset, FS_CardinalityType
      <4> QED
        BY <3>1, <4>2, <4>3, MissedFinite DEF SweepInv
    <3> QED
      BY <3>2, <3>3
  <2>3. CASE ~(Running(s) /\ i < k)
    <3>1. cuts'[s] = cuts[s]
      BY <1>1, <2>3 DEF SweepInv
    <3>2. Gap(s)' <= Gap(s) /\ Gap(s)' \in Nat
      BY <1>2, <2>1, <2>3 DEF Gap, Running
    <3>3. Passed(s)' \subseteq Passed(s)
      <4>1. CASE Running(s)
        <5>1. \A j \in 1 .. Len(pool) - 1 : j < k => pool'[j] = pool[j]
          BY <1>2, <2>1, <2>3, <4>1
        <5> QED
          BY <1>2, <2>1, <4>1, <5>1 DEF Passed, Running
      <4>2. CASE ~Running(s)
        <5>1. \A j \in 1 .. Len(pool) - 1 : \E m \in DOMAIN pool : pool'[j] = pool[m]
          BY <1>2
        <5> QED
          BY <1>2, <4>2, <5>1 DEF Passed, Running, Range
      <4> QED
        BY <4>1, <4>2
    <3>4. Missed(s)' \subseteq Missed(s)
      BY <1>1, <1>2, <3>3 DEF Missed
    <3> QED
      BY <3>1, <3>2, <3>4, StillCounted
  <2> QED
    BY <2>2, <2>3
<1>4. /\ \A s \in Tick : due'[s] \subseteq 1 .. nextId' - 1 /\ cuts'[s] \in Nat
      /\ cuts' = [s \in Tick |-> cuts'[s]]
  BY <1>1, <1>2 DEF SweepInv
<1> QED
  BY <1>1, <1>3, <1>4 DEF SweepInv

LEMMA AddsKeepsSweepInv ==
  ASSUME PoolInv, SweepInv, Adds PROVE SweepInv'
<1>1. /\ due' = [s \in Tick |-> due[s] \cup IF Running(s) THEN Range(pool') \ Range(pool) ELSE {}]
      /\ UNCHANGED <<probed, cuts, sweep>>
  BY DEF Adds, BootAnswer, AddAnswer
<1>2. PICK a, answer : AppendEntry(a, answer)
  BY DEF Adds, BootAnswer, AddAnswer
<1>3. CASE answer = "error"
  <2>1. UNCHANGED <<pool, nextId, dead>>
    BY <1>2, <1>3 DEF AppendEntry, entryVars
  <2>2. \A s \in Tick : due'[s] = due[s]
    BY <1>1, <2>1 DEF SweepInv
  <2>3. ASSUME NEW s \in Tick PROVE Missed(s)' = Missed(s) /\ Gap(s)' = Gap(s)
    BY <1>1, <2>1, <2>2 DEF Missed, Passed, Running, Gap
  <2>4. due' = [s \in Tick |-> due'[s]]
    BY <1>1
  <2> QED
    BY <1>1, <2>1, <2>2, <2>3, <2>4 DEF SweepInv
<1>4. CASE answer # "error"
  <2>1. /\ nextId \in EntryId /\ nextId' = nextId + 1
        /\ pool' = Append(pool, nextId)
        /\ dead' = [dead EXCEPT ![nextId] = FALSE]
    BY <1>2, <1>4 DEF AppendEntry
  <2>2. /\ DOMAIN pool = 1 .. Len(pool) /\ Len(pool) \in Nat
        /\ DOMAIN pool' = 1 .. Len(pool) + 1 /\ Len(pool') = Len(pool) + 1
        /\ \A j \in 1 .. Len(pool) : pool'[j] = pool[j]
        /\ pool'[Len(pool) + 1] = nextId
    BY <2>1, IdsAreNat, AppendProperties DEF PoolInv, PoolTypeOK
  <2>3. Range(pool') = Range(pool) \cup {nextId} /\ nextId \in Nat
    BY <2>2, IdsAreNat DEF Range, PoolInv
  <2>4. \A e \in EntryId : e # nextId => dead'[e] = dead[e]
    BY <2>1 DEF PoolInv, PoolTypeOK
  <2>5. \A s \in Tick : due'[s] \subseteq due[s] \cup {nextId} /\ nextId \notin due[s]
    BY <1>1, <2>3 DEF SweepInv
  <2>6. ASSUME NEW s \in Tick, NEW e \in Missed(s)', e # nextId PROVE e \in Missed(s)
    <3>1. e \in due[s] /\ e \in Passed(s)' /\ e \notin probed[s] /\ ~dead'[e]
      BY <1>1, <2>5, <2>6 DEF Missed
    <3>2. e \in Passed(s)
      BY <1>1, <2>2, <2>3, <2>6, <3>1 DEF Passed, Running
    <3>3. e \in EntryId
      BY <2>2, <3>2, IdsAreNat DEF Passed, Range, PoolInv
    <3> QED
      BY <2>4, <2>6, <3>1, <3>2, <3>3 DEF Missed
  <2>7. ASSUME NEW s \in Tick PROVE Cardinality(Missed(s)') + Gap(s)' <= cuts'[s]
    <3> DEFINE k == sweep[s].next
    <3>1. k \in Nat
      BY IdsAreNat DEF PoolInv
    <3>2. CASE Running(s) /\ k > Len(pool) + 1
      <4>1. Gap(s)' = Gap(s) - 1 /\ Gap(s) \in Nat /\ Gap(s)' \in Int
        BY <1>1, <2>2, <3>1, <3>2 DEF Gap, Running
      <4>2. Missed(s)' \subseteq Missed(s) \cup {nextId}
        BY <2>6
      <4>3. \E e : e = nextId /\ Missed(s)' \subseteq Missed(s) \cup {e}
        BY <4>2
      <4> QED
        BY <1>1, <4>1, <4>3, OneMore, MissedFinite DEF SweepInv
    <3>3. CASE ~(Running(s) /\ k > Len(pool) + 1)
      <4>1. Gap(s)' = 0 /\ Gap(s) = 0
        BY <1>1, <2>2, <3>1, <3>3 DEF Gap, Running
      <4>2. nextId \notin Missed(s)'
        <5>1. CASE Running(s)
          <6>1. \A j \in DOMAIN pool' : j < k => j \in DOMAIN pool
            BY <2>2, <3>1, <3>3, <5>1
          <6>2. \A j \in DOMAIN pool' : j < k => pool'[j] # nextId
            BY <2>2, <6>1, IdsAreNat DEF PoolInv, IdsFresh
          <6> QED
            BY <1>1, <5>1, <6>2 DEF Missed, Passed, Running
        <5>2. CASE ~Running(s)
          <6>1. due'[s] = due[s]
            BY <1>1, <5>2 DEF SweepInv
          <6> QED
            BY <2>5, <6>1 DEF Missed
        <5> QED
          BY <5>1, <5>2
      <4>3. Missed(s)' \subseteq Missed(s)
        BY <2>6, <4>2
      <4> QED
        BY <1>1, <4>1, <4>3, StillCounted
    <3> QED
      BY <3>2, <3>3
  <2>8. \A s \in Tick : due'[s] \subseteq 1 .. nextId' - 1
    BY <2>1, <2>3, <2>5 DEF SweepInv, EntryId
  <2>9. due' = [s \in Tick |-> due'[s]]
    BY <1>1
  <2> QED
    BY <1>1, <2>7, <2>8, <2>9 DEF SweepInv
<1> QED
  BY <1>3, <1>4

LEMMA SweepInvInit == SweepInit => PoolInv /\ SweepInv
<1> SUFFICES ASSUME SweepInit PROVE SweepInv
  BY PoolInvInit DEF SweepInit
<1>1. /\ \A s \in Tick : due[s] = {} /\ cuts[s] = 0 /\ sweep[s] = Idle
      /\ due = [s \in Tick |-> due[s]] /\ probed = [s \in Tick |-> probed[s]]
      /\ cuts = [s \in Tick |-> cuts[s]]
  BY DEF SweepInit, PoolInit
<1>2. \A s \in Tick : Missed(s) = {} /\ Gap(s) = 0
  BY <1>1 DEF Missed, Gap, Running
<1> QED
  BY <1>1, <1>2, FS_EmptySet DEF SweepInv

LEMMA SweepStep ==
  ASSUME PoolInv, SweepInv, [SweepNext]_sweepVars PROVE PoolInv' /\ SweepInv'
<1>1. [PoolNext]_poolVars
  BY DEF SweepNext, sweepVars, PoolNext, Upkeep, Adds, Deletes, Asks, Starts, Continues
<1>2. PoolInv'
  BY <1>1, PoolStepKeepsPoolInv
<1>3. ASSUME UNCHANGED <<pool, nextId, dead, sweep, due, probed, cuts>> PROVE SweepInv'
  BY <1>3 DEF SweepInv, Missed, Passed, Running, Gap
<1>4. ASSUME Asks PROVE SweepInv'
  BY <1>3, <1>4 DEF Asks, AddStart, entryVars, historyVars
<1>5. ASSUME UNCHANGED sweepVars PROVE SweepInv'
  BY <1>3, <1>5 DEF sweepVars, poolVars, entryVars, callVars, historyVars
<1>6. SweepInv'
  BY <1>2, <1>4, <1>5, AddsKeepsSweepInv, DeletesKeepsSweepInv, StartsKeepsSweepInv,
     ContinuesKeepsSweepInv DEF SweepNext
<1> QED
  BY <1>2, <1>6

(* For any number of overlapping sweeps, additions and deletions: a sweep    *)
(* misses at most one living token per deletion behind its iterator          *)
(* (auth.js:150-160).                                                        *)
THEOREM MissedPerDeletionCorrect == SweepSpec => []MissedPerDeletion
<1>1. PoolInv /\ SweepInv => MissedPerDeletion
  BY MissedFinite DEF SweepInv, MissedPerDeletion
<1> QED
  BY <1>1, SweepInvInit, SweepStep, PTL DEF SweepSpec

-----------------------------------------------------------------------------
(* The requests and the waiting queue. *)

GatewayTypes ==
    /\ queue \in Seq(Request)
    /\ settled \in [Request -> BOOLEAN]
    /\ timer \in [Request -> BOOLEAN]
    /\ pc \in [Request -> Location]
    /\ status \in [Request -> Status]

WaitersHoldNothing == \A r \in Request : pc[r] \in {"new", "queued"} => slot[r] = NoEntry

GatewayInv ==
    /\ PoolInv
    /\ GatewayTypes
    /\ WaitersHoldNothing
    /\ NoSlotLeak
    /\ QueueHoldsWaiters

-----------------------------------------------------------------------------
(* A queue without repetitions, and what joining and leaving it does.       *)

LEMMA JoinQueue ==
  ASSUME NEW S, NEW q \in Seq(S), NEW x \in S, IsInjective(q), x \notin Range(q)
  PROVE  /\ Append(q, x) \in Seq(S)
         /\ Len(Append(q, x)) = Len(q) + 1
         /\ IsInjective(Append(q, x))
         /\ Range(Append(q, x)) = Range(q) \cup {x}
<1> DEFINE p == Append(q, x)
<1>1. /\ p \in Seq(S) /\ Len(p) = Len(q) + 1
      /\ \A i \in 1 .. Len(q) : p[i] = q[i]
      /\ p[Len(q) + 1] = x
  BY AppendProperties
<1>2. DOMAIN q = 1 .. Len(q) /\ Len(q) \in Nat /\ DOMAIN p = 1 .. Len(q) + 1
  BY <1>1
<1> HIDE DEF p
<1>3. \A i \in DOMAIN q : q[i] # x
  BY DEF Range
<1>4. IsInjective(p)
  BY <1>1, <1>2, <1>3 DEF IsInjective
<1>5. Range(p) = Range(q) \cup {x}
  BY <1>1, <1>2 DEF Range
<1> QED
  BY <1>1, <1>4, <1>5 DEF p

LEMMA LeaveQueue ==
  ASSUME NEW S, NEW q \in Seq(S), NEW k \in DOMAIN q, IsInjective(q)
  PROVE  /\ RemoveAt(q, k) \in Seq(S)
         /\ Len(RemoveAt(q, k)) = Len(q) - 1
         /\ IsInjective(RemoveAt(q, k))
         /\ Range(RemoveAt(q, k)) = Range(q) \ {q[k]}
<1> DEFINE p == RemoveAt(q, k)
<1>1. /\ p \in Seq(S) /\ Len(p) = Len(q) - 1
      /\ \A j \in 1 .. Len(q) - 1 : p[j] = IF j < k THEN q[j] ELSE q[j + 1]
  BY RemoveAtKeeps
<1>2. /\ DOMAIN q = 1 .. Len(q) /\ Len(q) \in Nat /\ DOMAIN p = 1 .. Len(q) - 1
      /\ k \in 1 .. Len(q)
  BY <1>1
<1> HIDE DEF p
<1>3. IsInjective(p)
  <2> SUFFICES ASSUME NEW i \in DOMAIN p, NEW j \in DOMAIN p, p[i] = p[j] PROVE i = j
    BY DEF IsInjective
  <2> DEFINE at(m) == IF m < k THEN m ELSE m + 1
  <2>1. /\ at(i) \in DOMAIN q /\ at(j) \in DOMAIN q
        /\ p[i] = q[at(i)] /\ p[j] = q[at(j)]
    BY <1>1, <1>2
  <2>2. at(i) = at(j)
    BY <2>1 DEF IsInjective
  <2> QED
    BY <1>2, <2>2
<1>4. ASSUME NEW j \in DOMAIN p PROVE p[j] \in Range(q) \ {q[k]}
  BY <1>1, <1>2 DEF Range, IsInjective
<1>5. ASSUME NEW j \in DOMAIN q, q[j] # q[k] PROVE \E i \in DOMAIN p : p[i] = q[j]
  <2>1. CASE j < k
    BY <1>1, <1>2, <2>1
  <2>2. CASE j > k
    <3>1. j - 1 \in DOMAIN p /\ p[j - 1] = q[j]
      BY <1>1, <1>2, <2>2
    <3> QED
      BY <3>1
  <2> QED
    BY <1>2, <1>5, <2>1, <2>2
<1>6. Range(p) = Range(q) \ {q[k]}
  BY <1>4, <1>5 DEF Range
<1> QED
  BY <1>1, <1>3, <1>6 DEF p

(* Taking the first element, and removing an element by its value. *)
LEMMA TailIsRemoval ==
  ASSUME NEW S, NEW q \in Seq(S), q # <<>>
  PROVE  1 \in DOMAIN q /\ Head(q) = q[1] /\ Tail(q) = RemoveAt(q, 1)
<1>1. Len(q) \in Nat \ {0} /\ DOMAIN q = 1 .. Len(q)
  BY EmptySeq
<1>2. Tail(q) \in Seq(S) /\ Len(Tail(q)) = Len(q) - 1
      /\ \A i \in 1 .. Len(Tail(q)) : Tail(q)[i] = q[i + 1]
  BY HeadTailProperties
<1>3. /\ RemoveAt(q, 1) \in Seq(S) /\ Len(RemoveAt(q, 1)) = Len(q) - 1
      /\ \A j \in 1 .. Len(q) - 1 :
           RemoveAt(q, 1)[j] = IF j < 1 THEN q[j] ELSE q[j + 1]
  <2>1. 1 \in DOMAIN q
    BY <1>1
  <2> QED
    BY <2>1, RemoveAtKeeps
<1> QED
  BY <1>1, <1>2, <1>3, SeqEqual

LEMMA RemoveFirstIsRemoval ==
  ASSUME NEW S, NEW q \in Seq(S), IsInjective(q), NEW k \in DOMAIN q
  PROVE  RemoveFirst(q, q[k]) = RemoveAt(q, k)
<1>1. k \in 1 .. Len(q) /\ Len(q) \in Nat
  OBVIOUS
<1>2. {i \in 1 .. Len(q) : q[i] = q[k]} = {k}
  BY <1>1 DEF IsInjective
<1>3. Min({k}) = k
  BY <1>1 DEF Min
<1>4. SelectInSeq(q, LAMBDA v : v = q[k]) = k
  BY <1>2, <1>3 DEF SelectInSeq
<1> QED
  BY <1>1, <1>4 DEF RemoveFirst

-----------------------------------------------------------------------------
(* What a waiting request can be sure of.                                   *)
LEMMA HeadWaits ==
  ASSUME GatewayInv, queue # <<>>
  PROVE  /\ Head(queue) \in Request
         /\ pc[Head(queue)] = "queued"
         /\ ~settled[Head(queue)]
         /\ slot[Head(queue)] = NoEntry
<1>1. 1 \in DOMAIN queue /\ Head(queue) = queue[1]
  BY TailIsRemoval DEF GatewayInv, GatewayTypes
<1>2. Head(queue) \in Range(queue) /\ Head(queue) \in Request
  BY <1>1 DEF GatewayInv, GatewayTypes, Range
<1> QED
  BY <1>2 DEF GatewayInv, QueueHoldsWaiters, WaitersHoldNothing

(* What an acquisition does to the slots. *)
LEMMA AcquireTakes ==
  ASSUME PoolTypeOK, NEW h \in Holder, AcquireToken(h)
  PROVE  \E e \in EntryId : /\ e # NoEntry
                            /\ slot' = [slot EXCEPT ![h] = e]
                            /\ released' = [released EXCEPT ![h] = FALSE]
<1>1. PICK i \in DOMAIN pool : /\ slot' = [slot EXCEPT ![h] = pool[i]]
                              /\ released' = [released EXCEPT ![h] = FALSE]
  BY DEF AcquireToken
<1>2. pool[i] \in EntryId /\ pool[i] # NoEntry
  BY LimitAssumption DEF PoolTypeOK, EntryId, NoEntry
<1> QED
  BY <1>1, <1>2

(* Whatever the gateway does is something callers of the pool may do: it    *)
(* acquires for a request only once.                                        *)
LEMMA StepIsPoolStep ==
  ASSUME GatewayInv, Next
  PROVE  [PoolNext]_poolVars
<1>1. CASE PoolUpkeep
  BY <1>1 DEF PoolUpkeep, PoolNext
<1>2. ASSUME NEW r \in Request, EnqueueGranted(r) PROVE PoolNext
  BY <1>2 DEF EnqueueGranted, GatewayInv, WaitersHoldNothing, PoolNext, Use, Request
<1>3. ASSUME NEW r \in Request,
             EnqueueRejected(r) \/ EnqueueWaits(r) \/ QueueTimeout(r)
             \/ DispatchEnd(r) \/ BodyStarts(r)
      PROVE  UNCHANGED poolVars
  BY <1>3 DEF EnqueueRejected, EnqueueWaits, QueueTimeout, DispatchEnd, BodyStarts
<1>4. ASSUME NEW r \in Request, DispatchNext(r) PROVE PoolNext
  BY <1>4, HeadWaits DEF DispatchNext, PoolNext, Use, Request
<1>5. ASSUME NEW r \in Request,
             \/ CatchReleases(r) \/ BodyEnds(r) \/ BodyFails(r)
             \/ \E s \in {"ok", "failed"} : ServingEnds(r, s)
      PROVE  PoolNext
  BY <1>5 DEF CatchReleases, BodyEnds, BodyFails, ServingEnds, PoolNext, Use, Request
<1> QED
  BY <1>1, <1>2, <1>3, <1>4, <1>5 DEF Next, Run, Upstream

-----------------------------------------------------------------------------
(* What the steps do to the invariant, by what they do to the slots and to  *)
(* the location of a handler.                                               *)

QueueInv == GatewayTypes /\ WaitersHoldNothing /\ NoSlotLeak /\ QueueHoldsWaiters

(* A request is served from now on: as a newcomer, or from the queue.       *)
LEMMA Granted ==
  ASSUME GatewayInv, NEW r \in Request, pc[r] \in {"new", "queued"},
         AcquireToken(r),
         settled' = [settled EXCEPT ![r] = TRUE],
         timer' \in [Request -> BOOLEAN], ~timer'[r],
         \A q \in Request \ {r} : timer'[q] = timer[q],
         Goto(r, "serving"),
         queue' \in Seq(Request), IsInjective(queue'), Len(queue') <= MaxQueueSize,
         Range(queue') = Range(queue) \ {r},
         UNCHANGED status
  PROVE  QueueInv'
<1> USE DEF GatewayInv
<1>1. PICK e \in EntryId : /\ e # NoEntry
                          /\ slot' = [slot EXCEPT ![r] = e]
                          /\ released' = [released EXCEPT ![r] = FALSE]
  BY AcquireTakes DEF PoolInv, Request
<1>2. pc' = [pc EXCEPT ![r] = "serving"]
  BY DEF Goto
<1>3. slot \in [Request -> EntryId \cup {NoEntry}] /\ released \in [Request -> BOOLEAN]
  BY DEF PoolInv, PoolTypeOK, Request
<1>4. GatewayTypes'
  BY <1>2 DEF GatewayTypes, Location
<1>5. WaitersHoldNothing' /\ NoSlotLeak'
  BY <1>1, <1>2, <1>3 DEF GatewayTypes, WaitersHoldNothing, NoSlotLeak
<1>6. QueueHoldsWaiters'
  BY <1>2 DEF GatewayTypes, QueueHoldsWaiters
<1> QED
  BY <1>4, <1>5, <1>6 DEF QueueInv

(* A served request moves on, keeping or giving back its slot.              *)
LEMMA MovesOn ==
  ASSUME GatewayInv, NEW r \in Request,
         pc[r] \notin {"new", "queued"}, NEW l \in Location \ {"new", "queued"},
         Goto(r, l),
         \/ UNCHANGED poolVars /\ (pc[r] \in {"serving", "body"} <=> l \in {"serving", "body"})
         \/ ReleaseToken(r) /\ l \notin {"serving", "body"},
         status' \in [Request -> Status],
         UNCHANGED <<queue, settled, timer>>
  PROVE  QueueInv'
<1> USE DEF GatewayInv
<1>1. pc' = [pc EXCEPT ![r] = l]
  BY DEF Goto
<1>2. slot \in [Request -> EntryId \cup {NoEntry}] /\ released \in [Request -> BOOLEAN]
  BY DEF PoolInv, PoolTypeOK, Request
<1>3. GatewayTypes'
  BY <1>1 DEF GatewayTypes
<1>4. QueueHoldsWaiters'
  BY <1>1 DEF GatewayTypes, QueueHoldsWaiters
<1>5. CASE UNCHANGED poolVars /\ (pc[r] \in {"serving", "body"} <=> l \in {"serving", "body"})
  <2>1. slot' = slot /\ released' = released
    BY <1>5 DEF poolVars
  <2> QED
    BY <1>1, <1>2, <1>3, <1>4, <1>5, <2>1
       DEF GatewayTypes, WaitersHoldNothing, NoSlotLeak, QueueInv
<1>6. CASE ReleaseToken(r) /\ l \notin {"serving", "body"}
  <2>1. slot' = slot /\ released' = [released EXCEPT ![r] = TRUE]
    BY <1>6 DEF ReleaseToken
  <2> QED
    BY <1>1, <1>2, <1>3, <1>4, <1>6, <2>1
       DEF GatewayTypes, WaitersHoldNothing, NoSlotLeak, QueueInv
<1> QED
  BY <1>5, <1>6

(* Upkeep leaves the slots alone. *)
LEMMA UpkeepKeepsSlots ==
  ASSUME Upkeep
  PROVE  slot' = slot /\ released' = released
BY DEF Upkeep, BootAnswer, AddStart, AddAnswer, DeleteToken, SweepStart, SweepAnswer

(* A step that leaves the slots and the gateway alone. *)
LEMMA GatewayRests ==
  ASSUME GatewayInv, UNCHANGED <<gatewayVars, slot, released>>
  PROVE  QueueInv'
BY DEF GatewayInv, QueueInv, GatewayTypes, WaitersHoldNothing, NoSlotLeak,
       QueueHoldsWaiters, gatewayVars

LEMMA InitEstablishesInv == Init => GatewayInv
<1> SUFFICES ASSUME Init PROVE GatewayInv
  OBVIOUS
<1>1. PoolInv
  BY PoolInvInit DEF Init
<1>2. GatewayTypes
  BY DEF Init, GatewayTypes, Location, Status
<1>3. WaitersHoldNothing /\ NoSlotLeak
  BY DEF Init, PoolInit, WaitersHoldNothing, NoSlotLeak, Request
<1>4. IsInjective(queue) /\ Len(queue) = 0 /\ Range(queue) = {}
  BY DEF Init, IsInjective, Range
<1>5. QueueHoldsWaiters
  BY <1>4, GatewayAssumption DEF Init, QueueHoldsWaiters
<1> QED
  BY <1>1, <1>2, <1>3, <1>5 DEF GatewayInv

LEMMA ArrivalKeepsInv ==
  ASSUME GatewayInv, NEW r \in Request,
         EnqueueGranted(r) \/ EnqueueRejected(r) \/ EnqueueWaits(r)
  PROVE  QueueInv'
<1> USE DEF GatewayInv
<1>1. CASE EnqueueGranted(r)
  <2>1. ~timer[r] /\ r \notin Range(queue)
    BY <1>1 DEF EnqueueGranted, QueueHoldsWaiters
  <2> QED
    BY <1>1, <2>1, Granted DEF EnqueueGranted, GatewayTypes, QueueHoldsWaiters
<1>2. CASE EnqueueRejected(r)
  <2>1. /\ pc' = [pc EXCEPT ![r] = "done"]
        /\ settled' = [settled EXCEPT ![r] = TRUE]
        /\ status' = [status EXCEPT ![r] = "queueFull"]
        /\ UNCHANGED <<queue, timer, slot, released>>
    BY <1>2 DEF EnqueueRejected, Goto, Answers, poolVars
  <2>2. pc[r] = "new"
    BY <1>2 DEF EnqueueRejected
  <2> QED
    BY <2>1, <2>2 DEF QueueInv, GatewayTypes, Location, Status, WaitersHoldNothing,
                      NoSlotLeak, QueueHoldsWaiters
<1>3. CASE EnqueueWaits(r)
  <2>1. /\ pc[r] = "new" /\ pc' = [pc EXCEPT ![r] = "queued"]
        /\ timer' = [timer EXCEPT ![r] = TRUE]
        /\ queue' = Append(queue, r) /\ Len(queue) < MaxQueueSize
        /\ UNCHANGED <<settled, status, slot, released>>
    BY <1>3 DEF EnqueueWaits, Goto, poolVars
  <2>2. r \notin Range(queue)
    BY <2>1 DEF QueueHoldsWaiters
  <2>3. /\ queue' \in Seq(Request) /\ Len(queue') = Len(queue) + 1
        /\ IsInjective(queue') /\ Range(queue') = Range(queue) \cup {r}
    BY <2>1, <2>2, JoinQueue DEF GatewayTypes, QueueHoldsWaiters
  <2>4. GatewayTypes' /\ WaitersHoldNothing' /\ NoSlotLeak'
    BY <2>1, <2>3 DEF GatewayTypes, Location, WaitersHoldNothing, NoSlotLeak
  <2>5. Len(queue') <= MaxQueueSize
    BY <2>1, <2>3, GatewayAssumption DEF GatewayTypes
  <2>6. QueueHoldsWaiters'
    BY <2>1, <2>3, <2>5 DEF GatewayTypes, QueueHoldsWaiters
  <2> QED
    BY <2>4, <2>6 DEF QueueInv
<1> QED
  BY <1>1, <1>2, <1>3

(* The place of a request in the queue, and the queue without it. *)
LEMMA TimeoutUnlinks ==
  ASSUME GatewayInv, NEW r \in Request, timer[r]
  PROVE  \E k \in DOMAIN queue :
           /\ queue[k] = r
           /\ RemoveFirst(queue, r) = RemoveAt(queue, k)
           /\ RemoveFirst(queue, r) \in Seq(Request)
           /\ IsInjective(RemoveFirst(queue, r))
           /\ Len(RemoveFirst(queue, r)) = Len(queue) - 1
           /\ Range(RemoveFirst(queue, r)) = Range(queue) \ {r}
<1>1. queue \in Seq(Request) /\ IsInjective(queue) /\ r \in Range(queue)
  BY DEF GatewayInv, GatewayTypes, QueueHoldsWaiters
<1>2. PICK k \in DOMAIN queue : queue[k] = r
  BY <1>1 DEF Range
<1>3. RemoveFirst(queue, r) = RemoveAt(queue, k)
  BY <1>1, <1>2, RemoveFirstIsRemoval
<1>4. /\ RemoveAt(queue, k) \in Seq(Request)
      /\ Len(RemoveAt(queue, k)) = Len(queue) - 1
      /\ IsInjective(RemoveAt(queue, k))
      /\ Range(RemoveAt(queue, k)) = Range(queue) \ {queue[k]}
  BY <1>1, LeaveQueue
<1> QED
  BY <1>2, <1>3, <1>4

LEMMA TimeoutKeepsInv ==
  ASSUME GatewayInv, NEW r \in Request, QueueTimeout(r)
  PROVE  QueueInv'
<1> USE DEF GatewayInv
<1>1. timer[r] /\ pc[r] = "queued" /\ ~settled[r]
  BY DEF QueueTimeout, QueueHoldsWaiters
<1>2. /\ queue' = RemoveFirst(queue, r)
      /\ timer' = [timer EXCEPT ![r] = FALSE]
      /\ settled' = [settled EXCEPT ![r] = TRUE]
      /\ pc' = [pc EXCEPT ![r] = "done"]
      /\ status' = [status EXCEPT ![r] = "timedOut"]
      /\ UNCHANGED <<slot, released>>
  BY <1>1 DEF QueueTimeout, Goto, Answers, poolVars
<1>3. /\ queue' \in Seq(Request) /\ IsInjective(queue')
      /\ Len(queue') = Len(queue) - 1
      /\ Range(queue') = Range(queue) \ {r}
  BY <1>1, <1>2, TimeoutUnlinks
<1>4. Len(queue') <= MaxQueueSize
  BY <1>3, GatewayAssumption DEF GatewayTypes, QueueHoldsWaiters
<1>5. GatewayTypes' /\ WaitersHoldNothing' /\ NoSlotLeak'
  BY <1>1, <1>2, <1>3 DEF GatewayTypes, Location, Status, WaitersHoldNothing, NoSlotLeak
<1>6. QueueHoldsWaiters'
  BY <1>1, <1>2, <1>3, <1>4 DEF GatewayTypes, QueueHoldsWaiters
<1> QED
  BY <1>5, <1>6 DEF QueueInv

LEMMA DispatchKeepsInv ==
  ASSUME GatewayInv, NEW h \in Request, DispatchNext(h)
  PROVE  QueueInv'
<1> DEFINE r == Head(queue)
<1> USE DEF GatewayInv
<1>1. /\ queue # <<>> /\ queue' = Tail(queue)
      /\ r \in Request /\ pc[r] = "queued" /\ ~settled[r]
  BY HeadWaits DEF DispatchNext
<1>2. /\ AcquireToken(r) /\ Goto(r, "serving") /\ UNCHANGED status
      /\ settled' = [settled EXCEPT ![r] = TRUE]
      /\ timer' = [timer EXCEPT ![r] = FALSE]
  BY <1>1 DEF DispatchNext
<1>3. /\ queue' \in Seq(Request) /\ IsInjective(queue')
      /\ Len(queue') = Len(queue) - 1
      /\ Range(queue') = Range(queue) \ {r}
  <2>1. queue \in Seq(Request) /\ IsInjective(queue)
    BY DEF GatewayTypes, QueueHoldsWaiters
  <2>2. 1 \in DOMAIN queue /\ r = queue[1] /\ queue' = RemoveAt(queue, 1)
    BY <1>1, <2>1, TailIsRemoval
  <2>3. /\ RemoveAt(queue, 1) \in Seq(Request)
        /\ Len(RemoveAt(queue, 1)) = Len(queue) - 1
        /\ IsInjective(RemoveAt(queue, 1))
        /\ Range(RemoveAt(queue, 1)) = Range(queue) \ {queue[1]}
    BY <2>1, <2>2, LeaveQueue
  <2> QED
    BY <2>2, <2>3
<1>4. Len(queue') <= MaxQueueSize
  BY <1>3, GatewayAssumption DEF GatewayTypes, QueueHoldsWaiters
<1>5. /\ timer' \in [Request -> BOOLEAN] /\ ~timer'[r]
      /\ \A q \in Request \ {r} : timer'[q] = timer[q]
  BY <1>1, <1>2 DEF GatewayTypes
<1> HIDE DEF r
<1> QED
  BY <1>1, <1>2, <1>3, <1>4, <1>5, Granted

LEMMA HandlerKeepsInv ==
  ASSUME GatewayInv, NEW r \in Request,
         DispatchEnd(r) \/ CatchReleases(r) \/ Upstream(r)
  PROVE  QueueInv'
<1> USE DEF GatewayInv
<1>1. CASE DispatchEnd(r)
  BY <1>1, MovesOn DEF DispatchEnd, GatewayTypes, Location
<1>2. CASE CatchReleases(r)
  BY <1>2, MovesOn DEF CatchReleases, GatewayTypes, Location, Status, Answers
<1>3. CASE BodyStarts(r)
  BY <1>3, MovesOn DEF BodyStarts, GatewayTypes, Location
<1>4. CASE BodyEnds(r)
  BY <1>4, MovesOn DEF BodyEnds, GatewayTypes, Location, Status, Answers
<1>5. CASE BodyFails(r)
  BY <1>5, MovesOn DEF BodyFails, GatewayTypes, Location
<1>6. ASSUME NEW s \in {"ok", "failed"}, ServingEnds(r, s) PROVE QueueInv'
  BY <1>6, MovesOn DEF ServingEnds, GatewayTypes, Location, Status, Answers
<1> QED
  BY <1>1, <1>2, <1>3, <1>4, <1>5, <1>6 DEF Upstream

LEMMA StepKeepsInv ==
  ASSUME GatewayInv, [Next]_vars
  PROVE  GatewayInv'
<1>1. CASE UNCHANGED vars
  <2>1. UNCHANGED <<gatewayVars, slot, released>> /\ UNCHANGED poolVars
    BY <1>1 DEF vars, poolVars
  <2> QED
    BY <2>1, GatewayRests, PoolStepKeepsPoolInv DEF GatewayInv, QueueInv
<1>2. CASE Next
  <2>1. PoolInv'
    BY <1>2, StepIsPoolStep, PoolStepKeepsPoolInv DEF GatewayInv
  <2>2. ASSUME PoolUpkeep PROVE QueueInv'
    <3>1. UNCHANGED <<gatewayVars, slot, released>>
      BY <2>2, UpkeepKeepsSlots DEF PoolUpkeep
    <3> QED
      BY <3>1, GatewayRests
  <2>3. ASSUME NEW r \in Request,
               EnqueueGranted(r) \/ EnqueueRejected(r) \/ EnqueueWaits(r)
        PROVE  QueueInv'
    BY <2>3, ArrivalKeepsInv
  <2>4. ASSUME NEW r \in Request, QueueTimeout(r) PROVE QueueInv'
    BY <2>4, TimeoutKeepsInv
  <2>5. ASSUME NEW r \in Request, Run(r) \/ Upstream(r) PROVE QueueInv'
    BY <2>5, DispatchKeepsInv, HandlerKeepsInv DEF Run
  <2>6. ASSUME NEW r \in Request,
               \/ EnqueueGranted(r) \/ EnqueueRejected(r) \/ EnqueueWaits(r)
               \/ QueueTimeout(r) \/ Run(r) \/ Upstream(r)
        PROVE  QueueInv'
    BY <2>3, <2>4, <2>5, <2>6
  <2>7. QueueInv'
    BY <1>2, <2>2, <2>6 DEF Next
  <2> QED
    BY <2>1, <2>7 DEF GatewayInv, QueueInv
<1> QED
  BY <1>1, <1>2

-----------------------------------------------------------------------------
(* Every reachable state of the gateway satisfies the inductive invariant. *)
THEOREM GatewayInvariant == Spec => []GatewayInv
<1> QED
  BY InitEstablishesInv, StepKeepsInv, PTL DEF Spec

(* All variables of the pool, the queue and the handlers keep their types.  *)
THEOREM GatewayTypeCorrect == Spec => []TypeOK
<1>1. GatewayInv => TypeOK
  BY DEF GatewayInv, GatewayTypes, PoolInv, TypeOK
<1> QED
  BY <1>1, GatewayInvariant, PTL

(* A slot is held exactly while its request is served, for any number of    *)
(* requests, tokens and interleavings (queue.js:25-34; openai.js:425-438).  *)
THEOREM NoSlotLeakCorrect == Spec => []NoSlotLeak
<1>1. GatewayInv => NoSlotLeak
  BY DEF GatewayInv
<1> QED
  BY <1>1, GatewayInvariant, PTL

(* The queue holds the waiting requests, each once, with a pending timer,   *)
(* and never more of them than MAX_QUEUE_SIZE (queue.js:14-41, 60-67).      *)
THEOREM QueueHoldsWaitersCorrect == Spec => []QueueHoldsWaiters
<1>1. GatewayInv => QueueHoldsWaiters
  BY DEF GatewayInv
<1> QED
  BY <1>1, GatewayInvariant, PTL

(* The gateway is a client of the pool like any other: what is proved of    *)
(* the pool under arbitrary callers holds of it (queue.js:44, 75).          *)
THEOREM GatewayUsesPool == Spec => PoolSpec
<1>1. Init => PoolInit
  BY DEF Init
<1>2. GatewayInv /\ [Next]_vars => [PoolNext]_poolVars
  <2> SUFFICES ASSUME GatewayInv, [Next]_vars PROVE [PoolNext]_poolVars
    OBVIOUS
  <2>1. CASE UNCHANGED vars
    BY <2>1 DEF vars
  <2> QED
    BY <2>1, StepIsPoolStep
<1> QED
  BY <1>1, <1>2, GatewayInvariant, PTL DEF Spec, PoolSpec

-----------------------------------------------------------------------------
(* Room appears behind the back of a waiter only by pool upkeep: a request  *)
(* that gives a slot back is not done before the queue is empty or the pool *)
(* is full again, and an arrival only takes room.                           *)

LEMMA RequestsLeaveNoRoom ==
  ASSUME GatewayInv, NEW r \in Request,
         \/ EnqueueGranted(r) \/ EnqueueRejected(r) \/ EnqueueWaits(r)
         \/ QueueTimeout(r) \/ Run(r) \/ Upstream(r),
         Starving'
  PROVE  Starving \/ pc' = pc
<1>1. pc \in [Request -> Location]
  BY DEF GatewayInv, GatewayTypes
<1>2. ASSUME NEW l \in Busy, Goto(r, l) PROVE FALSE
  BY <1>1, <1>2 DEF Goto, Starving, EventLoopFree
<1>3. CASE EnqueueGranted(r)
  <2>1. ~NoneUsable
    BY <1>3 DEF EnqueueGranted, AcquireToken, IsBest, NoneUsable
  <2> QED
    BY <1>3, <2>1 DEF EnqueueGranted, Starving
<1>4. CASE EnqueueRejected(r) \/ EnqueueWaits(r)
  <2>1. NoneUsable /\ UNCHANGED poolVars
    BY <1>4 DEF EnqueueRejected, EnqueueWaits
  <2> QED
    BY <2>1 DEF Starving, NoneUsable, Usable, poolVars, entryVars
<1>5. CASE QueueTimeout(r)
  <2>1. /\ EventLoopFree /\ UNCHANGED poolVars /\ timer[r]
    BY <1>5 DEF QueueTimeout
  <2>2. queue # <<>>
    BY <2>1 DEF GatewayInv, QueueHoldsWaiters, Range
  <2> QED
    BY <2>1, <2>2 DEF Starving, NoneUsable, Usable, poolVars, entryVars
<1>6. CASE DispatchNext(r)
  <2>1. /\ queue # <<>> /\ Head(queue) \in Request
        /\ pc' = [pc EXCEPT ![Head(queue)] = "serving"]
        /\ pc[r] \in {"leaving", "unwinding"} /\ pc[Head(queue)] = "queued"
    BY <1>6, HeadWaits DEF DispatchNext, Goto
  <2>2. pc'[r] \in Busy
    BY <1>1, <2>1 DEF Busy
  <2> QED
    BY <2>2 DEF Starving, EventLoopFree
<1>7. CASE DispatchEnd(r)
  <2>1. (queue = <<>> \/ NoneUsable) /\ UNCHANGED poolVars /\ queue' = queue
    BY <1>7 DEF DispatchEnd
  <2> QED
    BY <2>1 DEF Starving, NoneUsable, Usable, poolVars, entryVars
<1>8. CASE CatchReleases(r) \/ BodyEnds(r) \/ BodyFails(r)
           \/ \E s \in {"ok", "failed"} : ServingEnds(r, s)
  BY <1>2, <1>8 DEF CatchReleases, BodyEnds, BodyFails, ServingEnds, Busy
<1>9. CASE BodyStarts(r)
  <2>1. EventLoopFree /\ UNCHANGED poolVars /\ queue' = queue
    BY <1>9 DEF BodyStarts
  <2> QED
    BY <2>1 DEF Starving, NoneUsable, Usable, poolVars, entryVars
<1> QED
  BY <1>3, <1>4, <1>5, <1>6, <1>7, <1>8, <1>9 DEF Run, Upstream

(* Requests never leave room behind for the ones that wait (queue.js:72-80  *)
(* against auth.js:110 and 154), whatever the sizes of pool and queue.      *)
THEOREM StarvingOnlyByUpkeepCorrect == Spec => StarvingOnlyByUpkeep
<1>1. GatewayInv /\ [Next]_vars => [Starving' => Starving \/ pc' = pc]_vars
  <2> SUFFICES ASSUME GatewayInv, Next, Starving'
               PROVE  Starving \/ pc' = pc
    OBVIOUS
  <2>1. CASE PoolUpkeep
    BY <2>1 DEF PoolUpkeep, gatewayVars
  <2> QED
    BY <2>1, RequestsLeaveNoRoom DEF Next
<1> QED
  BY <1>1, GatewayInvariant, PTL DEF Spec, StarvingOnlyByUpkeep

----------------------------------------------------------------------------
(***************************************************************************)
(* Proof that the waiting queue and the pool together implement orderly    *)
(* admission: under the mapping of GatewayProperties (a request is on the  *)
(* lane of the entry its unreleased slot names, and is gone once its slot  *)
(* was released or it was turned away) every step of the gateway is a step *)
(* of module Admission or leaves its variables alone.                      *)
(*                                                                         *)
(* What carries the proof is SlotAccounting: acquireToken tests a counter, *)
(* Admission counts the occupants of the lane.                             *)
(***************************************************************************)

Here == {"new", "queued", "serving", "body"}
LaneOf == [r \in Request |-> IF released[r] THEN NoEntry ELSE slot[r]]
Gone == {r \in Request : pc[r] \notin Here}

(* The instance has its own copies of the library's operators. *)
LEMMA SameOperators ==
  /\ \A S : Lanes!Cardinality(S) = Cardinality(S)
  /\ Lanes!Range(queue) = Range(queue)
  /\ \A i : Lanes!RemoveAt(queue, i) = RemoveAt(queue, i)
<1>1. \A S : Lanes!Cardinality(S) = Cardinality(S)
  BY DEF Cardinality, Lanes!Cardinality
<1>2. Lanes!Range(queue) = Range(queue)
  BY DEF Range, Lanes!Range
<1>3. \A i : Lanes!RemoveAt(queue, i) = RemoveAt(queue, i)
  BY DEF RemoveAt, Lanes!RemoveAt
<1> QED
  BY <1>1, <1>2, <1>3

(* The mapping spelled out. *)
LEMMA Occupancy ==
  ASSUME GatewayInv, NEW e \in EntryId
  PROVE  {r \in Request : LaneOf[r] = e} = OnEntry(e)
<1>1. e # NoEntry
  BY LimitAssumption DEF EntryId, NoEntry
<1> QED
  BY <1>1 DEF LaneOf, OnEntry, Request

(* A request that is neither gone nor served nor waiting is fresh. *)
LEMMA NewIsFresh ==
  ASSUME GatewayInv, NEW r \in Request, pc[r] = "new"
  PROVE  r \notin Gone /\ LaneOf[r] = NoEntry /\ r \notin Range(queue)
BY DEF GatewayInv, Gone, Here, LaneOf, WaitersHoldNothing, QueueHoldsWaiters

(* acquireToken admits to a lane that has room. *)
LEMMA AcquireAdmits ==
  ASSUME GatewayInv, NEW r \in Request, pc[r] \in {"new", "queued"},
         AcquireToken(r), Goto(r, "serving")
  PROVE  \E e \in EntryId :
           /\ Cardinality({q \in Request : LaneOf[q] = e}) < MaxConcurrent
           /\ LaneOf' = [LaneOf EXCEPT ![r] = e]
           /\ Gone' = Gone
<1> USE DEF GatewayInv
<1>1. PICK i \in DOMAIN pool : /\ IsBest(i)
                              /\ slot' = [slot EXCEPT ![r] = pool[i]]
                              /\ released' = [released EXCEPT ![r] = FALSE]
  BY DEF AcquireToken
<1>2. pool[i] \in EntryId
  BY DEF PoolInv, PoolTypeOK
<1>3. Cardinality({q \in Request : LaneOf[q] = pool[i]}) < MaxConcurrent
  <2>1. active[pool[i]] < MaxConcurrent
    BY <1>1 DEF IsBest, Usable
  <2> QED
    BY <1>2, <2>1, Occupancy DEF PoolInv, SlotAccounting
<1>4. slot \in [Request -> EntryId \cup {NoEntry}] /\ released \in [Request -> BOOLEAN]
  BY DEF PoolInv, PoolTypeOK, Request
<1>5. LaneOf' = [LaneOf EXCEPT ![r] = pool[i]]
  BY <1>1, <1>4 DEF LaneOf
<1>6. Gone' = Gone
  BY DEF Goto, GatewayTypes, Gone, Here
<1> QED
  BY <1>2, <1>3, <1>5, <1>6

(* The first call of release leaves the lane, the second changes nothing.   *)
LEMMA ReleaseLeaves ==
  ASSUME GatewayInv, NEW r \in Request, pc[r] \in {"serving", "body"},
         ReleaseToken(r), NEW l \in Busy, Goto(r, l)
  PROVE  /\ LaneOf[r] # NoEntry
         /\ LaneOf' = [LaneOf EXCEPT ![r] = NoEntry]
         /\ Gone' = Gone \cup {r}
<1> USE DEF GatewayInv
<1>1. slot[r] # NoEntry /\ ~released[r]
  BY DEF NoSlotLeak
<1>2. slot' = slot /\ released' = [released EXCEPT ![r] = TRUE]
  BY DEF ReleaseToken
<1>3. slot \in [Request -> EntryId \cup {NoEntry}] /\ released \in [Request -> BOOLEAN]
  BY DEF PoolInv, PoolTypeOK, Request
<1>4. LaneOf' = [LaneOf EXCEPT ![r] = NoEntry] /\ LaneOf[r] # NoEntry
  BY <1>1, <1>2, <1>3 DEF LaneOf
<1>5. Gone' = Gone \cup {r}
  BY DEF Goto, GatewayTypes, Gone, Here, Busy
<1> QED
  BY <1>4, <1>5

LEMMA SecondReleaseRests ==
  ASSUME GatewayInv, NEW r \in Request, CatchReleases(r)
  PROVE  LaneOf' = LaneOf /\ Gone' = Gone
<1> USE DEF GatewayInv
<1>1. /\ slot[r] # NoEntry /\ slot' = slot /\ pc[r] = "catching"
      /\ released' = [released EXCEPT ![r] = TRUE]
      /\ pc' = [pc EXCEPT ![r] = "leaving"]
  BY DEF CatchReleases, ReleaseToken, Goto
<1>2. released[r] /\ released \in [Request -> BOOLEAN]
  BY <1>1 DEF NoSlotLeak, PoolInv, PoolTypeOK, Request
<1>3. released' = released
  BY <1>1, <1>2
<1> QED
  BY <1>1, <1>3 DEF LaneOf, Gone, Here, GatewayTypes

-----------------------------------------------------------------------------
(* The steps of the gateway as steps of Admission. *)

LEMMA InitAdmits == Init => Lanes!Init
<1> SUFFICES ASSUME Init PROVE Lanes!Init
  OBVIOUS
<1>1. queue = <<>> /\ slot = [r \in Request |-> NoEntry]
      /\ pc = [r \in Request |-> "new"]
  BY DEF Init, PoolInit, Request
<1> QED
  BY <1>1 DEF Lanes!Init

LEMMA ArrivalAdmits ==
  ASSUME GatewayInv, NEW r \in Request,
         EnqueueGranted(r) \/ EnqueueRejected(r) \/ EnqueueWaits(r)
  PROVE  Lanes!Next
<1> USE DEF GatewayInv
<1>1. CASE EnqueueGranted(r)
  <2>1. PICK e \in EntryId :
           /\ Cardinality({q \in Request : LaneOf[q] = e}) < MaxConcurrent
           /\ LaneOf' = [LaneOf EXCEPT ![r] = e]
           /\ Gone' = Gone
    BY <1>1, AcquireAdmits DEF EnqueueGranted
  <2>2. r \notin Gone /\ LaneOf[r] = NoEntry /\ r \notin Range(queue) /\ queue' = queue
    BY <1>1, NewIsFresh DEF EnqueueGranted
  <2>3. Lanes!AdmitNewcomer(r, e)
    BY <2>1, <2>2, SameOperators DEF LaneOf, Gone, Here, Lanes!AdmitNewcomer, Lanes!Admit,
                      Lanes!HasRoom, Lanes!Occupants, Lanes!Fresh
  <2> QED
    BY <2>3 DEF Lanes!Next
<1>2. CASE EnqueueRejected(r)
  <2>1. /\ UNCHANGED <<slot, released, queue>> /\ Len(queue) >= MaxQueueSize
        /\ pc[r] = "new" /\ pc' = [pc EXCEPT ![r] = "done"]
    BY <1>2 DEF EnqueueRejected, Goto, poolVars
  <2>2. r \notin Gone /\ LaneOf[r] = NoEntry /\ r \notin Range(queue)
    BY <2>1, NewIsFresh
  <2>3. LaneOf' = LaneOf /\ Gone' = Gone \cup {r}
    BY <2>1 DEF LaneOf, Gone, Here, GatewayTypes
  <2>4. Lanes!Refuse(r)
    BY <2>1, <2>2, <2>3, SameOperators DEF LaneOf, Gone, Here, Lanes!Refuse, Lanes!Fresh
  <2> QED
    BY <2>4 DEF Lanes!Next
<1>3. CASE EnqueueWaits(r)
  <2>1. /\ UNCHANGED <<slot, released>> /\ Len(queue) < MaxQueueSize
        /\ queue' = Append(queue, r)
        /\ pc[r] = "new" /\ pc' = [pc EXCEPT ![r] = "queued"]
    BY <1>3 DEF EnqueueWaits, Goto, poolVars
  <2>2. r \notin Gone /\ LaneOf[r] = NoEntry /\ r \notin Range(queue)
    BY <2>1, NewIsFresh
  <2>3. LaneOf' = LaneOf /\ Gone' = Gone
    BY <2>1 DEF LaneOf, Gone, Here, GatewayTypes
  <2>4. Lanes!Join(r)
    BY <2>1, <2>2, <2>3, SameOperators DEF LaneOf, Gone, Here, Lanes!Join, Lanes!Fresh
  <2> QED
    BY <2>4 DEF Lanes!Next
<1> QED
  BY <1>1, <1>2, <1>3

LEMMA TimeoutGivesUp ==
  ASSUME GatewayInv, NEW r \in Request, QueueTimeout(r)
  PROVE  Lanes!Next
<1> USE DEF GatewayInv
<1>1. timer[r] /\ pc[r] = "queued" /\ ~settled[r]
  BY DEF QueueTimeout, QueueHoldsWaiters
<1>2. /\ queue' = RemoveFirst(queue, r) /\ UNCHANGED <<slot, released>>
      /\ pc' = [pc EXCEPT ![r] = "done"]
  BY <1>1 DEF QueueTimeout, Goto, poolVars
<1>3. PICK k \in DOMAIN queue : queue[k] = r /\ queue' = RemoveAt(queue, k)
  BY <1>1, <1>2, TimeoutUnlinks
<1>4. LaneOf' = LaneOf /\ Gone' = Gone \cup {r}
  BY <1>2 DEF LaneOf, Gone, Here, GatewayTypes
<1>5. Lanes!GiveUp(k)
  BY <1>3, <1>4, SameOperators DEF LaneOf, Gone, Here, Lanes!GiveUp
<1> QED
  BY <1>5 DEF Lanes!Next

LEMMA DispatchAdmits ==
  ASSUME GatewayInv, NEW h \in Request, DispatchNext(h)
  PROVE  Lanes!Next
<1> DEFINE r == Head(queue)
<1>1. /\ r \in Request /\ pc[r] = "queued" /\ queue # <<>> /\ queue' = Tail(queue)
      /\ AcquireToken(r) /\ Goto(r, "serving")
  BY HeadWaits DEF DispatchNext
<1>2. PICK e \in EntryId :
         /\ Cardinality({q \in Request : LaneOf[q] = e}) < MaxConcurrent
         /\ LaneOf' = [LaneOf EXCEPT ![r] = e]
         /\ Gone' = Gone
  BY <1>1, AcquireAdmits
<1>3. Lanes!AdmitHead(e)
  BY <1>1, <1>2, SameOperators DEF LaneOf, Gone, Here, Lanes!AdmitHead, Lanes!Admit,
                    Lanes!HasRoom, Lanes!Occupants
<1> QED
  BY <1>3 DEF Lanes!Next

LEMMA ServiceLeaves ==
  ASSUME GatewayInv, NEW r \in Request,
         BodyEnds(r) \/ BodyFails(r) \/ \E s \in {"ok", "failed"} : ServingEnds(r, s)
  PROVE  Lanes!Next
<1>1. PICK l \in Busy : Goto(r, l)
  BY DEF BodyEnds, BodyFails, ServingEnds, Busy
<1>2. pc[r] \in {"serving", "body"} /\ ReleaseToken(r) /\ queue' = queue
  BY DEF BodyEnds, BodyFails, ServingEnds
<1>3. /\ LaneOf[r] # NoEntry
      /\ LaneOf' = [LaneOf EXCEPT ![r] = NoEntry]
      /\ Gone' = Gone \cup {r}
  BY <1>1, <1>2, ReleaseLeaves
<1>4. Lanes!Leave(r)
  BY <1>2, <1>3 DEF LaneOf, Gone, Here, Lanes!Leave
<1> QED
  BY <1>4 DEF Lanes!Next

(* The remaining steps are invisible to Admission. *)
LEMMA RestIsInvisible ==
  ASSUME GatewayInv,
         \/ PoolUpkeep
         \/ \E r \in Request : DispatchEnd(r) \/ BodyStarts(r) \/ CatchReleases(r)
  PROVE  LaneOf' = LaneOf /\ Gone' = Gone /\ queue' = queue
<1> USE DEF GatewayInv
<1>1. CASE PoolUpkeep
  BY <1>1, UpkeepKeepsSlots DEF PoolUpkeep, gatewayVars, LaneOf, Gone
<1>2. ASSUME NEW r \in Request, DispatchEnd(r)
      PROVE  LaneOf' = LaneOf /\ Gone' = Gone /\ queue' = queue
  <2>1. /\ UNCHANGED <<slot, released, queue>> /\ pc[r] \in {"leaving", "unwinding"}
        /\ \E l \in {"done", "catching"} : pc' = [pc EXCEPT ![r] = l]
    BY <1>2 DEF DispatchEnd, Goto, poolVars
  <2> QED
    BY <2>1 DEF LaneOf, Gone, Here, GatewayTypes
<1>3. ASSUME NEW r \in Request, BodyStarts(r)
      PROVE  LaneOf' = LaneOf /\ Gone' = Gone /\ queue' = queue
  <2>1. /\ UNCHANGED <<slot, released, queue>> /\ pc[r] = "serving"
        /\ pc' = [pc EXCEPT ![r] = "body"]
    BY <1>3 DEF BodyStarts, Goto, poolVars
  <2> QED
    BY <2>1 DEF LaneOf, Gone, Here, GatewayTypes
<1>4. ASSUME NEW r \in Request, CatchReleases(r)
      PROVE  LaneOf' = LaneOf /\ Gone' = Gone /\ queue' = queue
  BY <1>4, SecondReleaseRests DEF CatchReleases
<1> QED
  BY <1>1, <1>2, <1>3, <1>4

(* The queue and the pool implement orderly admission (queue.js:8-69, with  *)
(* auth.js:31-62): requests are admitted in the order they joined, never    *)
(* twice, and never to a token that serves MaxConcurrent already.           *)
THEOREM ImplementsAdmissionCorrect == Spec => ImplementsAdmission
<1>1. GatewayInv /\ [Next]_vars => [Lanes!Next]_(Lanes!admissionVars)
  <2> SUFFICES ASSUME GatewayInv, [Next]_vars, ~Lanes!Next
               PROVE  UNCHANGED Lanes!admissionVars
    OBVIOUS
  <2>1. LaneOf' = LaneOf /\ Gone' = Gone /\ queue' = queue
    <3>1. CASE UNCHANGED vars
      BY <3>1 DEF vars, gatewayVars, poolVars, LaneOf, Gone
    <3>2. CASE Next
      BY <3>2, ArrivalAdmits, TimeoutGivesUp, DispatchAdmits, ServiceLeaves,
         RestIsInvisible DEF Next, Run, Upstream
    <3> QED
      BY <3>1, <3>2
  <2> QED
    BY <2>1 DEF LaneOf, Gone, Here, Lanes!admissionVars
<1> QED
  BY <1>1, InitAdmits, GatewayInvariant, PTL DEF Spec, ImplementsAdmission, Lanes!Spec
=============================================================================
