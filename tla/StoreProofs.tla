---------------------------- MODULE StoreProofs ----------------------------
(***************************************************************************)
(* What ds2api keeps beyond a call.  The chat history in memory and on disk *)
(* and the sessions of the administration, whatever the passwords, the life *)
(* of a session and the clock; the samples saved of what DeepSeek answered; *)
(* the files that a completion refers to; and the configuration, which no   *)
(* restart undoes, which the program can start with, and with which the     *)
(* pool, the test statuses and the project at Vercel agree.  For every      *)
(* number of requests, entries, limits, failed saves, crashes and starts,   *)
(* every environment, every file found at the first start, and any          *)
(* configurations brought by administrators.                                *)
(***************************************************************************)
EXTENDS ChatHistory, AdminSession, Captures, Uploads, ConfigAdmin, SubsequenceProofs,
        FiniteSetTheorems, WellFoundedInduction, TLAPS

HistorySpec == HistoryInit /\ [][HistoryNext]_historyVars

(* Versions of entries: in memory, on disk, in a browser, and in the index   *)
(* file of older releases.                                                  *)
Pairs(d) == {<<i, d[i]>> : i \in DOMAIN d}

Versions == Pairs(details) \cup Pairs(files) \cup Pairs(cache.list)
            \cup (IF index.kind = "legacy" THEN Pairs(index.items) ELSE {})

(* A revision is given to one version of one entry.                         *)
Honest(V) == \A v, w \in V : v[2].rev = w[2].rev => v = w

Known(V, entry, rev) ==
    \A v \in V : v[1] \in 1 .. entry - 1 /\ v[2] \in Entries /\ v[2].rev < rev

Counted ==
    /\ nextEntry \in 1 .. MaxEntryId + 1 /\ nextRev \in 1 .. MaxRevision + 1 /\ now \in Nat
    /\ limit \in EntryLimits \cup {0, DefaultLimit}
    /\ revision \in Nat /\ revision < nextRev
    /\ unread \in BOOLEAN

Indexed ==
    /\ index.kind \in {"none", "legacy", "index"}
    /\ index.kind # "none" => index.limit \in EntryLimits \cup {0, DefaultLimit}
    /\ index.revision \in Nat /\ index.revision < nextRev

(* What a save must still do, and what it need not.                         *)
Pending(d, dy, dl, others) ==
    /\ dl \cap DOMAIN d = {}
    /\ \A i \in DOMAIN d \ dy : i \in DOMAIN files /\ files[i] = d[i]
    /\ DOMAIN files \subseteq DOMAIN d \cup dl \cup others
    /\ index.kind = "index" => DOMAIN index.items \subseteq DOMAIN files \cup dl

Marked ==
    /\ deleted \subseteq 1 .. nextEntry - 1 /\ dirty \subseteq DOMAIN details
    /\ deleted \cap DOMAIN details = {}
    /\ Serving => Pending(details, dirty, deleted, orphans)
    /\ ~Serving => details = NoEntries /\ dirty = {} /\ deleted = {}

Bounded == limit # 0 => Cardinality(DOMAIN details) <= limit

Cached ==
    /\ run \in Nat /\ cache.run \in Nat /\ cache.run <= run
    /\ cache.revision \in Nat /\ cache.revision < nextRev
    /\ Serving /\ cache.run = run /\ cache.revision = revision => cache.list = details

(* What a session still wants recorded is a status.                         *)
Recording ==
    /\ session = [s \in Session |-> session[s]]
    /\ \A s \in Session :
         session[s].phase \in {"missing", "retry"} => session[s].want \in {"streaming", "success"}

HistoryInv ==
    /\ Counted /\ Indexed /\ Marked /\ Bounded /\ Cached
    /\ Honest(Versions) /\ Known(Versions, nextEntry, nextRev)

----------------------------------------------------------------------------
(* The oldest of some entries: created first, and then first revised.       *)
LEMMA Oldest ==
    ASSUME NEW d, NEW K \in SUBSET DOMAIN d, K # {},
           \A i \in DOMAIN d : d[i].created \in Nat /\ d[i].rev \in Nat,
           \A i, j \in DOMAIN d : d[i].rev = d[j].rev => i = j
    PROVE  \E m \in K : \A i \in K \ {m} : Newer(d, i, m)
<1> DEFINE C == {d[i].created : i \in K}
<1>1. PICK c \in C : \A n \in C : c <= n
  <2>1. C \subseteq Nat /\ C # {}
    OBVIOUS
  <2> HIDE DEF C
  <2> QED
    BY <2>1, Least
<1> DEFINE R == {d[i].rev : i \in {j \in K : d[j].created = c}}
<1>2. PICK r \in R : \A n \in R : r <= n
  <2>1. R \subseteq Nat /\ R # {}
    BY <1>1
  <2> HIDE DEF R
  <2> QED
    BY <2>1, Least
<1>3. PICK m \in K : d[m].created = c /\ d[m].rev = r
  BY <1>2
<1>4. \A i \in K \ {m} : Newer(d, i, m)
  <2> TAKE i \in K \ {m}
  <2>1. d[i].created >= c /\ d[i].rev # d[m].rev
    BY <1>1, <1>3
  <2>2. CASE d[i].created = c
    <3>1. d[i].rev >= r
      BY <1>2, <2>2
    <3> QED
      BY <1>3, <2>1, <2>2, <3>1 DEF Newer
  <2>3. CASE d[i].created # c
    BY <1>1, <1>3, <2>1, <2>3 DEF Newer
  <2> QED
    BY <2>2, <2>3
<1> QED
  BY <1>4

(* What rebuildIndexLocked keeps is no more than the limit.                 *)
LEMMA KeptIsBounded ==
    ASSUME NEW d, IsFiniteSet(DOMAIN d), NEW lim \in Nat, lim # 0,
           \A i \in DOMAIN d : d[i].created \in Nat /\ d[i].rev \in Nat,
           \A i, j \in DOMAIN d : d[i].rev = d[j].rev => i = j
    PROVE  IsFiniteSet(Kept(d, lim)) /\ Cardinality(Kept(d, lim)) <= lim
<1> DEFINE K == Kept(d, lim)
           N(m) == {j \in DOMAIN d : Newer(d, j, m)}
<1>1. K \subseteq DOMAIN d /\ \A i \in K : Cardinality(N(i)) < lim
  BY DEF Kept
<1>2. IsFiniteSet(K) /\ Cardinality(K) \in Nat
  BY <1>1, FS_Subset, FS_CardinalityType
<1>3. CASE K = {}
  BY <1>3, FS_EmptySet
<1>4. CASE K # {}
  <2>1. PICK m \in K : \A i \in K \ {m} : Newer(d, i, m)
    <3> HIDE DEF K
    <3> QED
      BY <1>1, <1>4, Oldest
  <2>2. K \ {m} \subseteq N(m) /\ N(m) \subseteq DOMAIN d
    BY <1>1, <2>1
  <2>3. IsFiniteSet(N(m)) /\ Cardinality(N(m)) \in Nat
    <3> HIDE DEF N
    <3> QED
      BY <2>2, FS_Subset, FS_CardinalityType
  <2>4. Cardinality(K \ {m}) <= Cardinality(N(m))
    <3> HIDE DEF N, K
    <3> QED
      BY <2>2, <2>3, FS_Subset
  <2>5. Cardinality(K \ {m}) = Cardinality(K) - 1
    <3> HIDE DEF K
    <3> QED
      BY <1>2, <2>1, FS_RemoveElement
  <2>6. Cardinality(N(m)) < lim
    BY <1>1, <2>1
  <2>7. Cardinality(K) <= lim
    <3> HIDE DEF K, N
    <3> QED
      BY <1>2, <2>3, <2>4, <2>5, <2>6
  <2> QED
    BY <1>2, <2>7
<1> QED
  BY <1>2, <1>3, <1>4

LEMMA PairsOf ==
    ASSUME NEW d
    PROVE  /\ \A i \in DOMAIN d : <<i, d[i]>> \in Pairs(d)
           /\ \A v \in Pairs(d) : v[1] \in DOMAIN d /\ v[2] = d[v[1]] /\ v = <<v[1], v[2]>>
BY DEF Pairs

LEMMA PairsWithin ==
    ASSUME NEW d, NEW e, \A i \in DOMAIN e : i \in DOMAIN d /\ e[i] = d[i]
    PROVE  Pairs(e) \subseteq Pairs(d)
BY DEF Pairs

(* Every method ends in Store: whatever its save gets to, what is pending    *)
(* covers the difference, and no version takes the revision of another.     *)
LEMMA StoreKeeps ==
    ASSUME HistoryInv, NEW d, NEW lim \in EntryLimits \cup {0, DefaultLimit}, NEW rev \in Nat,
           NEW dy, NEW dl, Store(d, lim, rev, dy, dl),
           Pending(d, dy, dl, orphans'), Serving', unread' \in BOOLEAN,
           run' \in Nat, cache' = cache, cache.run <= run',
           cache.run # run' \/ cache.revision # rev,
           nextEntry' \in {nextEntry, nextEntry + 1}, nextEntry' <= MaxEntryId + 1,
           nextRev' \in {nextRev, nextRev + 1}, nextRev' <= MaxRevision + 1,
           rev < nextRev', now' \in Nat, dl \subseteq 1 .. nextEntry' - 1,
           Honest(Versions \cup Pairs(d)), Known(Versions \cup Pairs(d), nextEntry', nextRev')
    PROVE  HistoryInv'
<1> DEFINE left == Kept(d, lim)
           dy2 == dy \cap left
           dl2 == dl \cup (DOMAIN d \ left)
<1>1. /\ left \subseteq DOMAIN d /\ limit' = lim /\ revision' = rev
      /\ DOMAIN details' = left /\ \A i \in left : details'[i] = d[i]
      /\ Save(details', lim, rev, dy2, dl2)
  BY DEF Store, Kept, Restrict
<1> HIDE DEF left, dy2, dl2
<1>2. /\ DOMAIN files' \subseteq DOMAIN files \cup dy2
      /\ \A i \in DOMAIN files' :
           \/ i \in dy2 /\ files'[i] = details'[i]
           \/ i \in DOMAIN files /\ files'[i] = files[i]
      /\ \A i \in DOMAIN files \ dl2 : i \in DOMAIN files' /\ (i \notin dy2 => files'[i] = files[i])
      /\ \/ /\ index' = index /\ dirty' = dy2 /\ deleted' = dl2
         \/ /\ index'.kind = "index" /\ index'.limit = lim /\ index'.revision = rev
            /\ index'.items = details' /\ dirty' = {} /\ deleted' = {}
            /\ DOMAIN files' = (DOMAIN files \ dl2) \cup dy2
            /\ \A i \in dy2 : files'[i] = details'[i]
  <2>1. PICK removed \in SUBSET dl2, written \in SUBSET dy2, done \in BOOLEAN :
          /\ done => removed = dl2 /\ written = dy2
          /\ files' = [i \in (DOMAIN files \ removed) \cup written |->
                         IF i \in written THEN details'[i] ELSE files[i]]
          /\ index' = IF done THEN [kind |-> "index", limit |-> lim, revision |-> rev,
                                    items |-> details']
                              ELSE index
          /\ dirty' = IF done THEN {} ELSE dy2
          /\ deleted' = IF done THEN {} ELSE dl2
    BY <1>1 DEF Save
  <2>2. /\ DOMAIN files' = (DOMAIN files \ removed) \cup written
        /\ \A i \in DOMAIN files' : files'[i] = IF i \in written THEN details'[i] ELSE files[i]
    BY <2>1
  <2>3. CASE done
    BY <2>1, <2>2, <2>3
  <2>4. CASE ~done
    BY <2>1, <2>2, <2>4
  <2> QED
    BY <2>3, <2>4
<1>3. dl2 \cap left = {} /\ dy2 \subseteq left /\ dl2 \subseteq dl \cup DOMAIN d
  BY <1>1 DEF Pending, dl2, dy2
<1>4. Versions' \subseteq Versions \cup Pairs(d)
  <2>1. Pairs(details') \subseteq Pairs(d)
    BY <1>1, PairsWithin
  <2>2. Pairs(files') \subseteq Pairs(files) \cup Pairs(d)
    <3> SUFFICES ASSUME NEW i \in DOMAIN files'
                 PROVE  <<i, files'[i]>> \in Pairs(files) \cup Pairs(d)
      BY DEF Pairs
    <3>1. CASE i \in dy2 /\ files'[i] = details'[i]
      BY <1>1, <1>3, <3>1, PairsOf
    <3>2. CASE i \in DOMAIN files /\ files'[i] = files[i]
      BY <3>2, PairsOf
    <3> QED
      BY <1>2, <3>1, <3>2
  <2>3. index'.kind = "legacy" => index' = index
    BY <1>2
  <2> QED
    BY <2>1, <2>2, <2>3 DEF Versions
<1>5. Honest(Versions') /\ Known(Versions', nextEntry', nextRev')
  BY <1>4 DEF Honest, Known
<1>6. /\ DOMAIN d \subseteq 1 .. nextEntry' - 1
      /\ \A i \in DOMAIN d : d[i].created \in Nat /\ d[i].rev \in Nat
      /\ \A i, j \in DOMAIN d : d[i].rev = d[j].rev => i = j
  <2>1. \A i \in DOMAIN d : <<i, d[i]>> \in Pairs(d)
    BY PairsOf
  <2>2. ASSUME NEW i \in DOMAIN d PROVE i \in 1 .. nextEntry' - 1 /\ d[i] \in Entries
    <3>1. <<i, d[i]>> \in Versions \cup Pairs(d)
      BY <2>1
    <3> DEFINE v == <<i, d[i]>>
    <3>2. v[1] \in 1 .. nextEntry' - 1 /\ v[2] \in Entries
      BY <3>1 DEF Known
    <3> QED
      BY <3>2
  <2>3. ASSUME NEW i \in DOMAIN d, NEW j \in DOMAIN d, d[i].rev = d[j].rev PROVE i = j
    <3>1. <<i, d[i]>> = <<j, d[j]>>
      BY <2>1, <2>3 DEF Honest
    <3> QED
      BY <3>1
  <2>4. \A e \in Entries : e.created \in Nat /\ e.rev \in Nat
    BY HistoryAssumption DEF Entries
  <2> QED
    BY <2>2, <2>3, <2>4
<1>7. Counted' /\ Indexed'
  <2>1. Counted'
    BY <1>1, HistoryAssumption DEF HistoryInv, Counted
  <2>2. Indexed'
    BY <1>2 DEF HistoryInv, Counted, Indexed
  <2> QED
    BY <2>1, <2>2
<1>8. Marked'
  <2>1. deleted' \subseteq 1 .. nextEntry' - 1 /\ dirty' \subseteq DOMAIN details'
        /\ deleted' \cap DOMAIN details' = {}
    BY <1>1, <1>2, <1>3, <1>6
  <2>2. \A i \in DOMAIN details' \ dirty' : i \in DOMAIN files' /\ files'[i] = details'[i]
    <3> TAKE i \in DOMAIN details' \ dirty'
    <3>1. CASE i \in dy2
      BY <1>2, <3>1
    <3>2. CASE i \notin dy2
      <4>1. i \in DOMAIN d \ dy /\ i \notin dl2
        BY <1>1, <1>3, <3>2 DEF dy2
      <4>2. i \in DOMAIN files /\ files[i] = details'[i]
        BY <1>1, <4>1 DEF Pending
      <4> QED
        BY <1>2, <3>2, <4>1, <4>2
    <3> QED
      BY <3>1, <3>2
  <2>3. DOMAIN files' \subseteq DOMAIN details' \cup deleted' \cup orphans'
    <3>1. DOMAIN files \subseteq left \cup dl2 \cup orphans'
      BY DEF Pending, dl2
    <3> QED
      BY <1>1, <1>2, <1>3, <3>1
  <2>4. index'.kind = "index" => DOMAIN index'.items \subseteq DOMAIN files' \cup deleted'
    <3>1. CASE index' = index /\ deleted' = dl2
      BY <1>2, <3>1 DEF Pending, dl2
    <3>2. CASE dirty' = {} /\ index'.items = details'
      BY <2>2, <3>2
    <3> QED
      BY <1>2, <3>1, <3>2
  <2> QED
    BY <2>1, <2>2, <2>3, <2>4 DEF Marked, Pending
<1>9. Bounded'
  <2> SUFFICES ASSUME lim # 0 PROVE Cardinality(left) <= lim
    BY <1>1 DEF Bounded
  <2>1. IsFiniteSet(DOMAIN d)
    <3>1. nextEntry' - 1 \in Int
      BY <1>7, HistoryAssumption DEF Counted
    <3>2. IsFiniteSet(1 .. nextEntry' - 1)
      BY <3>1, FS_Interval
    <3> QED
      BY <1>6, <3>2, FS_Subset
  <2>2. lim \in Nat
    BY HistoryAssumption
  <2> QED
    BY <1>6, <2>1, <2>2, KeptIsBounded DEF left
<1>10. Cached'
  BY <1>1 DEF HistoryInv, Cached, Counted
<1> QED
  BY <1>5, <1>7, <1>8, <1>9, <1>10 DEF HistoryInv

(* An entry that is new, or a new version of an old one.                    *)
LEMMA PutIsHonest ==
    ASSUME HistoryInv, NEW id \in 1 .. nextEntry, NEW entry \in Entries, entry.rev = nextRev,
           NEW d, \A i \in DOMAIN d : i = id \/ i \in DOMAIN details,
           \A i \in DOMAIN d : d[i] = IF i = id THEN entry ELSE details[i]
    PROVE  /\ Honest(Versions \cup Pairs(d))
           /\ Known(Versions \cup Pairs(d), nextEntry + 1, nextRev + 1)
           /\ id \in 1 .. nextEntry - 1 => Known(Versions \cup Pairs(d), nextEntry, nextRev + 1)
<1> DEFINE v0 == <<id, entry>>
<1>1. Pairs(d) \subseteq Pairs(details) \cup {v0}
  BY DEF Pairs
<1>2. Versions \cup Pairs(d) \subseteq Versions \cup {v0}
  BY <1>1 DEF Versions
<1>3. \A v \in Versions : v[1] \in 1 .. nextEntry - 1 /\ v[2] \in Entries /\ v[2].rev < nextRev
  BY DEF HistoryInv, Known
<1>4. v0[1] = id /\ v0[2] = entry /\ nextEntry \in Int /\ nextRev \in Int
  BY HistoryAssumption DEF HistoryInv, Counted
<1>5. \A e \in Entries : e.rev \in Int
  BY DEF Entries
<1> HIDE DEF v0
<1>6. Honest(Versions \cup {v0})
  BY <1>3, <1>4, <1>5 DEF HistoryInv, Honest
<1>7. Known(Versions \cup {v0}, nextEntry + 1, nextRev + 1)
  BY <1>3, <1>4, <1>5 DEF Known
<1>8. ASSUME id \in 1 .. nextEntry - 1 PROVE Known(Versions \cup {v0}, nextEntry, nextRev + 1)
  BY <1>3, <1>4, <1>5, <1>8 DEF Known
<1> QED
  BY <1>2, <1>6, <1>7, <1>8 DEF Honest, Known

LEMMA KnownOf ==
    ASSUME NEW V, NEW entry, NEW rev, Known(V, entry, rev), NEW d, Pairs(d) \subseteq V,
           NEW i \in DOMAIN d
    PROVE  i \in 1 .. entry - 1 /\ d[i] \in Entries /\ d[i].rev < rev
<1> DEFINE v == <<i, d[i]>>
<1>1. v \in V
  BY DEF Pairs
<1>2. v[1] \in 1 .. entry - 1 /\ v[2] \in Entries /\ v[2].rev < rev
  BY <1>1 DEF Known
<1> QED
  BY <1>2

LEMMA EntriesKnown ==
    ASSUME HistoryInv
    PROVE  /\ \A i \in DOMAIN details :
                i \in 1 .. nextEntry - 1 /\ details[i] \in Entries /\ details[i].rev < nextRev
           /\ \A i \in DOMAIN files :
                i \in 1 .. nextEntry - 1 /\ files[i] \in Entries /\ files[i].rev < nextRev
<1>1. Pairs(details) \subseteq Versions /\ Pairs(files) \subseteq Versions
  BY DEF Versions
<1> QED
  BY <1>1, KnownOf DEF HistoryInv

(* A new version of an entry.                                               *)
LEMMA UpdateKeeps ==
    ASSUME HistoryInv, Serving, NEW id \in DOMAIN details,
           NEW status \in {"streaming", "success", "error", "stopped"},
           StoreUpdate(id, status), UNCHANGED <<unread, run, up, orphans, cache>>
    PROVE  HistoryInv'
<1>1. PICK d, dy, dl :
        /\ d = [details EXCEPT ![id].rev = nextRev, ![id].status = status]
        /\ dy = dirty \cup {id} /\ dl = deleted \ {id}
        /\ Store(d, limit, nextRev, dy, dl)
  BY DEF StoreUpdate, Store, Save
<1>2. nextRev <= MaxRevision /\ nextRev' = nextRev + 1 /\ UNCHANGED <<nextEntry, now>>
  BY DEF StoreUpdate, NextRevision
<1>3. /\ id \in 1 .. nextEntry - 1 /\ details[id] \in Entries /\ nextEntry \in Nat
      /\ id \in 1 .. nextEntry /\ nextRev \in 1 .. MaxRevision
  BY <1>2, EntriesKnown, HistoryAssumption DEF HistoryInv, Counted
<1>4. [details[id] EXCEPT !.rev = nextRev, !.status = status] \in Entries
  BY <1>3 DEF Entries
<1>5. /\ DOMAIN d = DOMAIN details
      /\ d[id] = [details[id] EXCEPT !.rev = nextRev, !.status = status]
      /\ \A i \in DOMAIN details : i # id => d[i] = details[i]
  BY <1>1
<1>6. d[id] \in Entries /\ d[id].rev = nextRev
  BY <1>3, <1>4, <1>5 DEF Entries
<1>7. /\ Honest(Versions \cup Pairs(d))
      /\ Known(Versions \cup Pairs(d), nextEntry', nextRev')
  <2> DEFINE entry == d[id]
  <2>1. /\ entry \in Entries /\ entry.rev = nextRev
        /\ \A i \in DOMAIN d : d[i] = IF i = id THEN entry ELSE details[i]
    BY <1>5, <1>6
  <2> HIDE DEF entry
  <2> QED
    BY <1>2, <1>3, <1>5, <2>1, PutIsHonest
<1>8. Pending(d, dy, dl, orphans')
  BY <1>1, <1>5 DEF HistoryInv, Marked, Pending
<1>9. /\ limit \in EntryLimits \cup {0, DefaultLimit} /\ nextRev \in Nat /\ run \in Nat
      /\ unread \in BOOLEAN /\ now \in Nat /\ cache.run <= run /\ nextEntry <= MaxEntryId + 1
      /\ nextRev' <= MaxRevision + 1 /\ nextRev < nextRev' /\ cache.revision # nextRev
      /\ dl \subseteq 1 .. nextEntry' - 1
  BY <1>1, <1>2, <1>3, HistoryAssumption DEF HistoryInv, Counted, Cached, Marked
<1> QED
  BY <1>1, <1>2, <1>7, <1>8, <1>9, StoreKeeps DEF Serving

(* A new entry.                                                             *)
LEMMA StartKeeps ==
    ASSUME HistoryInv, Serving, StoreStart, UNCHANGED <<unread, run, up, orphans, cache>>
    PROVE  HistoryInv'
<1>0. PICK t \in {now, now + 1} :
        /\ now' = t
        /\ Store(Put(details, nextEntry,
                     [rev |-> nextRev, created |-> t, status |-> "streaming"]),
                 limit, nextRev, dirty \cup {nextEntry}, deleted)
  BY DEF StoreStart
<1> DEFINE entry == [rev |-> nextRev, created |-> t, status |-> "streaming"]
<1>1. PICK d, dy :
        /\ d = Put(details, nextEntry, entry)
        /\ dy = dirty \cup {nextEntry}
        /\ Store(d, limit, nextRev, dy, deleted)
  BY <1>0 DEF Store, Save
<1>2. /\ nextEntry <= MaxEntryId /\ nextEntry' = nextEntry + 1
      /\ nextRev <= MaxRevision /\ nextRev' = nextRev + 1
  BY DEF StoreStart, NextRevision
<1>3. /\ nextEntry \in 1 .. nextEntry /\ nextRev \in 1 .. MaxRevision /\ t \in Nat
      /\ \A i \in DOMAIN details : i # nextEntry
      /\ nextEntry \notin deleted
  BY <1>2, EntriesKnown, HistoryAssumption DEF HistoryInv, Counted, Marked
<1>4. entry \in Entries /\ entry.rev = nextRev
  BY <1>1, <1>3 DEF Entries
<1> HIDE DEF entry
<1>5. /\ DOMAIN d = DOMAIN details \cup {nextEntry}
      /\ \A i \in DOMAIN d : d[i] = IF i = nextEntry THEN entry ELSE details[i]
  BY <1>1 DEF Put
<1>7. /\ Honest(Versions \cup Pairs(d))
      /\ Known(Versions \cup Pairs(d), nextEntry', nextRev')
  BY <1>2, <1>3, <1>4, <1>5, PutIsHonest
<1>8. Pending(d, dy, deleted, orphans')
  BY <1>1, <1>3, <1>5 DEF HistoryInv, Marked, Pending
<1>9. /\ limit \in EntryLimits \cup {0, DefaultLimit} /\ nextRev \in Nat /\ run \in Nat
      /\ unread \in BOOLEAN /\ now' \in Nat /\ cache.run <= run /\ nextEntry' <= MaxEntryId + 1
      /\ nextRev' <= MaxRevision + 1 /\ nextRev < nextRev' /\ cache.revision # nextRev
      /\ deleted \subseteq 1 .. nextEntry' - 1
  BY <1>0, <1>1, <1>2, <1>3, HistoryAssumption DEF HistoryInv, Counted, Cached, Marked
<1> QED
  BY <1>1, <1>2, <1>7, <1>8, <1>9, StoreKeeps DEF Serving

(* An admin call, whatever it leaves of the entries.                        *)
LEMMA AdminKeeps ==
    ASSUME HistoryInv, Serving, NEW d, NEW dy, NEW dl,
           NEW lim \in EntryLimits \cup {0, DefaultLimit},
           NextRevision, Store(d, lim, nextRev, dy, dl),
           UNCHANGED <<unread, run, up, nextEntry, now, orphans, cache>>,
           DOMAIN d \subseteq DOMAIN details, \A i \in DOMAIN d : d[i] = details[i],
           DOMAIN details \subseteq DOMAIN d \cup dl, deleted \subseteq dl,
           dl \subseteq deleted \cup DOMAIN details, dl \cap DOMAIN d = {},
           dirty \subseteq dy \cup dl
    PROVE  HistoryInv'
<1>2. nextRev <= MaxRevision /\ nextRev' = nextRev + 1
  BY DEF NextRevision
<1>3. Pairs(d) \subseteq Versions
  BY PairsWithin DEF Versions
<1>7. /\ Honest(Versions \cup Pairs(d))
      /\ Known(Versions \cup Pairs(d), nextEntry', nextRev')
  <2>1. \A e \in Entries : e.rev \in Int
    BY DEF Entries
  <2>2. nextRev \in Int
    BY DEF HistoryInv, Counted
  <2> QED
    BY <1>2, <1>3, <2>1, <2>2 DEF HistoryInv, Honest, Known
<1>8. Pending(d, dy, dl, orphans')
  BY DEF HistoryInv, Marked, Pending
<1>9. /\ nextRev \in Nat /\ run \in Nat
      /\ unread \in BOOLEAN /\ now \in Nat /\ cache.run <= run /\ nextEntry <= MaxEntryId + 1
      /\ nextRev' <= MaxRevision + 1 /\ nextRev < nextRev' /\ cache.revision # nextRev
      /\ dl \subseteq 1 .. nextEntry' - 1
  BY <1>2, EntriesKnown, HistoryAssumption DEF HistoryInv, Counted, Cached, Marked
<1> QED
  BY <1>2, <1>7, <1>8, <1>9, StoreKeeps DEF Serving

LEMMA DeleteKeeps ==
    ASSUME HistoryInv, NEW id, Delete(id) PROVE HistoryInv'
<1>1. PICK d, dy, dl :
        /\ d = Restrict(details, DOMAIN details \ {id})
        /\ dy = dirty \ {id} /\ dl = deleted \cup {id}
        /\ Store(d, limit, nextRev, dy, dl)
  BY DEF Delete, Store, Save
<1>2. DOMAIN d = DOMAIN details \ {id} /\ \A i \in DOMAIN d : d[i] = details[i]
  BY <1>1 DEF Restrict
<1>3. limit \in EntryLimits \cup {0, DefaultLimit} /\ deleted \cap DOMAIN details = {}
  BY DEF HistoryInv, Counted, Marked
<1> QED
  BY <1>1, <1>2, <1>3, AdminKeeps DEF Delete

LEMMA ClearKeeps ==
    ASSUME HistoryInv, Clear PROVE HistoryInv'
<1>1. PICK d, dy, dl :
        /\ d = NoEntries /\ dy = dirty \ DOMAIN details /\ dl = deleted \cup DOMAIN details
        /\ Store(d, limit, nextRev, dy, dl)
  BY DEF Clear, Store, Save
<1>2. DOMAIN d = {}
  BY <1>1 DEF NoEntries
<1>3. limit \in EntryLimits \cup {0, DefaultLimit}
  BY DEF HistoryInv, Counted
<1> QED
  BY <1>1, <1>2, <1>3, AdminKeeps DEF Clear

LEMMA SetLimitKeeps ==
    ASSUME HistoryInv, NEW l \in EntryLimits \cup {0}, SetLimit(l) PROVE HistoryInv'
<1>1. PICK d, dy, dl :
        d = details /\ dy = dirty /\ dl = deleted /\ Store(d, l, nextRev, dy, dl)
  BY DEF SetLimit, Store, Save
<1>2. deleted \cap DOMAIN details = {}
  BY DEF HistoryInv, Marked
<1> QED
  BY <1>1, <1>2, AdminKeeps DEF SetLimit

(* Steps that touch neither the store nor its files.                        *)
LEMMA IdleKeeps ==
    ASSUME HistoryInv, UNCHANGED <<memoryVars, run, up, files, index, clockVars, orphans, cache>>
    PROVE  HistoryInv'
BY DEF HistoryInv, memoryVars, clockVars, Counted, Indexed, Marked, Pending, Bounded, Cached,
       Serving, Versions, Pairs, Honest, Known

LEMMA SessionKeeps ==
    ASSUME HistoryInv, NEW s \in Session,
           \/ BeginSession(s) \/ Recreate(s) \/ RecordAgain(s)
           \/ \E status \in {"streaming", "success"} : Record(s, status),
           Recording
    PROVE  HistoryInv'
<1>1. CASE BeginSession(s)
  <2>1. CASE unread \/ limit = 0
    BY <1>1, <2>1, IdleKeeps DEF BeginSession
  <2>2. CASE ~(unread \/ limit = 0)
    BY <1>1, <2>2, StartKeeps DEF BeginSession, Serving
  <2> QED
    BY <2>1, <2>2
<1>2. CASE Recreate(s)
  <2>1. CASE limit = 0
    BY <1>2, <2>1, IdleKeeps DEF Recreate
  <2>2. CASE limit # 0
    BY <1>2, <2>2, StartKeeps DEF Recreate
  <2> QED
    BY <2>1, <2>2
<1>3. CASE RecordAgain(s)
  <2>1. CASE session[s].entry \in DOMAIN details
    <3> DEFINE id == session[s].entry
               status == session[s].want
    <3>1. StoreUpdate(id, status) /\ Serving /\ UNCHANGED <<unread, run, up, orphans, cache>>
      BY <1>3, <2>1 DEF RecordAgain
    <3>2. id \in DOMAIN details /\ status \in {"streaming", "success", "error", "stopped"}
      BY <1>3, <2>1 DEF RecordAgain, Recording, Phase
    <3> HIDE DEF id, status
    <3> QED
      BY <3>1, <3>2, UpdateKeeps
  <2>2. CASE session[s].entry \notin DOMAIN details
    BY <1>3, <2>2, IdleKeeps DEF RecordAgain
  <2> QED
    BY <2>1, <2>2
<1>4. ASSUME NEW status \in {"streaming", "success"}, Record(s, status) PROVE HistoryInv'
  <2>1. CASE session[s].entry \in DOMAIN details
    <3> DEFINE id == session[s].entry
    <3>1. StoreUpdate(id, status) /\ Serving /\ UNCHANGED <<unread, run, up, orphans, cache>>
      BY <1>4, <2>1 DEF Record
    <3>2. id \in DOMAIN details
      BY <2>1
    <3> HIDE DEF id
    <3> QED
      BY <3>1, <3>2, UpdateKeeps
  <2>2. CASE session[s].entry \notin DOMAIN details
    BY <1>4, <2>2, IdleKeeps DEF Record
  <2> QED
    BY <2>1, <2>2
<1> QED
  BY <1>1, <1>2, <1>3, <1>4

LEMMA FetchKeeps ==
    ASSUME HistoryInv, FetchList PROVE HistoryInv'
<1>1. Versions' \subseteq Versions
  BY DEF FetchList, Versions, Pairs, memoryVars
<1>2. Honest(Versions') /\ Known(Versions', nextEntry', nextRev')
  BY <1>1 DEF HistoryInv, Honest, Known, FetchList, clockVars
<1> QED
  BY <1>2 DEF HistoryInv, FetchList, memoryVars, clockVars, Counted, Indexed, Marked, Pending,
              Bounded, Cached, Serving

LEMMA CrashKeeps ==
    ASSUME HistoryInv, HistoryCrash PROVE HistoryInv'
<1>1. Versions' \subseteq Versions
  BY DEF HistoryCrash, Versions, Pairs, NoEntries
<1>2. Honest(Versions') /\ Known(Versions', nextEntry', nextRev')
  BY <1>1 DEF HistoryInv, Honest, Known, HistoryCrash, clockVars
<1>3. Cardinality(DOMAIN details') = 0 /\ DOMAIN details' = {}
  BY FS_EmptySet DEF HistoryCrash, NoEntries
<1>4. Bounded'
  <2>1. limit' = limit
    BY DEF HistoryCrash
  <2>2. limit \in EntryLimits \cup {0, DefaultLimit}
    BY DEF HistoryInv, Counted
  <2>3. limit \in Nat
    BY <2>2, HistoryAssumption
  <2> QED
    BY <1>3, <2>1, <2>3 DEF Bounded
<1>5. Counted' /\ Indexed'
  BY DEF HistoryInv, HistoryCrash, clockVars, Counted, Indexed
<1>6. Marked'
  BY DEF HistoryInv, HistoryCrash, clockVars, Counted, Marked, Serving, NoEntries
<1>7. Cached'
  <2>1. /\ up' = FALSE /\ run' = run /\ cache' = cache /\ revision' = revision /\ nextRev' = nextRev
    BY DEF HistoryCrash, clockVars
  <2>2. Cached
    BY DEF HistoryInv
  <2>3. ~Serving'
    BY <2>1 DEF Serving
  <2> QED
    BY <2>1, <2>2, <2>3 DEF Cached
<1> QED
  BY <1>2, <1>4, <1>5, <1>6, <1>7 DEF HistoryInv

LEMMA LoadKeeps ==
    ASSUME HistoryInv, Load PROVE HistoryInv'
<1>1. /\ up' = TRUE /\ run' = run + 1 /\ UNCHANGED <<nextEntry, nextRev, now, cache>>
      /\ ~Serving /\ details = NoEntries /\ dirty = {} /\ deleted = {}
  BY DEF Load, clockVars, HistoryInv, Marked, Serving
<1>2. /\ run' \in Nat /\ cache.run <= run' /\ cache.run # run' /\ now \in Nat
      /\ nextEntry <= MaxEntryId + 1 /\ nextRev <= MaxRevision + 1
  BY <1>1, HistoryAssumption DEF HistoryInv, Counted, Cached
<1>3. ASSUME NEW d, NEW lim \in EntryLimits \cup {0, DefaultLimit}, NEW rev \in Nat, rev < nextRev,
             NEW dy, Store(d, lim, rev, dy, {}), unread' = FALSE, Pairs(d) \subseteq Versions,
             Pending(d, dy, {}, orphans')
      PROVE  HistoryInv'
  <2>1. Honest(Versions \cup Pairs(d)) /\ Known(Versions \cup Pairs(d), nextEntry', nextRev')
    BY <1>1, <1>3 DEF HistoryInv, Honest, Known
  <2>2. \E dl : dl = {} /\ Store(d, lim, rev, dy, dl)
    BY <1>3
  <2> QED
    BY <1>1, <1>2, <1>3, <2>1, <2>2, StoreKeeps DEF Serving, Store, Save
<1>4. CASE LoadIndex
  <2> DEFINE listed == DOMAIN index.items
  <2>1. CASE listed \subseteq DOMAIN files
    <3>0. Store(Restrict(files, listed), index.limit, index.revision, {}, {})
      BY <1>4, <2>1 DEF LoadIndex
    <3> DEFINE d == Restrict(files, listed)
               lim == index.limit
               rev == index.revision
               dy == {}
    <3>1. d = Restrict(files, listed) /\ lim = index.limit /\ rev = index.revision /\ dy = {}
      OBVIOUS
    <3> HIDE DEF d, lim, rev, dy
    <3>6. Store(d, lim, rev, dy, {})
      BY <3>0 DEF d, lim, rev, dy
    <3>2. DOMAIN d = listed /\ \A i \in listed : d[i] = files[i]
      BY <2>1, <3>1 DEF Restrict
    <3>3. Pairs(d) \subseteq Versions
      BY <2>1, <3>2, PairsWithin DEF Versions
    <3>4. Pending(d, dy, {}, orphans')
      BY <1>4, <2>1, <3>1, <3>2 DEF Pending, LoadIndex
    <3>5. lim \in EntryLimits \cup {0, DefaultLimit} /\ rev \in Nat /\ rev < nextRev
          /\ unread' = FALSE
      BY <1>4, <2>1, <3>1 DEF HistoryInv, Indexed, LoadIndex
    <3> QED
      BY <1>3, <3>3, <3>4, <3>5, <3>6
  <2>2. CASE ~(listed \subseteq DOMAIN files)
    <3>1. /\ unread' = TRUE /\ limit' = index.limit /\ revision' = index.revision
          /\ UNCHANGED <<details, dirty, deleted, files, index>> /\ index.kind = "index"
      BY <1>4, <2>2 DEF LoadIndex
    <3>2. Versions' = Versions
      BY <1>1, <3>1 DEF Versions, Pairs
    <3>3. Cardinality(DOMAIN details') = 0 /\ DOMAIN details' = {}
      BY <1>1, <3>1, FS_EmptySet DEF NoEntries
    <3>4. limit' \in EntryLimits \cup {0, DefaultLimit} /\ revision' \in Nat /\ revision' < nextRev'
      BY <1>1, <3>1 DEF HistoryInv, Indexed
    <3>5. Bounded'
      BY <3>3, <3>4, HistoryAssumption DEF Bounded
    <3>6. Counted' /\ Indexed' /\ Marked' /\ Cached'
      BY <1>1, <1>2, <3>1, <3>3, <3>4 DEF HistoryInv, Counted, Indexed, Marked, Cached, Serving
    <3> QED
      BY <1>1, <3>2, <3>5, <3>6 DEF HistoryInv
  <2> QED
    BY <2>1, <2>2
<1>5. CASE LoadLegacy
  <2>0. Store(index.items, index.limit, index.revision, DOMAIN index.items, {})
    BY <1>5 DEF LoadLegacy
  <2> DEFINE d == index.items
             lim == index.limit
             rev == index.revision
             dy == DOMAIN d
  <2>1. d = index.items /\ lim = index.limit /\ rev = index.revision /\ dy = DOMAIN d
    OBVIOUS
  <2> HIDE DEF d, lim, rev, dy
  <2>4. Store(d, lim, rev, dy, {})
    BY <2>0 DEF d, lim, rev, dy
  <2>2. Pairs(d) \subseteq Versions /\ Pending(d, dy, {}, orphans')
    BY <1>5, <2>1 DEF Versions, Pending, LoadLegacy
  <2>3. lim \in EntryLimits \cup {0, DefaultLimit} /\ rev \in Nat /\ rev < nextRev
        /\ unread' = FALSE
    BY <1>5, <2>1 DEF HistoryInv, Indexed, LoadLegacy
  <2> QED
    BY <1>3, <2>2, <2>3, <2>4
<1>6. CASE LoadNothing
  <2>0. Store(NoEntries, DefaultLimit, 0, {}, {})
    BY <1>6 DEF LoadNothing
  <2> DEFINE d == NoEntries
             lim == DefaultLimit
             rev == 0
             dy == {}
  <2>1. d = NoEntries /\ lim = DefaultLimit /\ rev = 0 /\ dy = {}
    OBVIOUS
  <2> HIDE DEF d, lim, rev, dy
  <2>4. Store(d, lim, rev, dy, {})
    BY <2>0 DEF d, lim, rev, dy
  <2>2. Pairs(d) \subseteq Versions /\ Pending(d, dy, {}, orphans')
    BY <1>6, <2>1 DEF Pairs, NoEntries, Pending, LoadNothing
  <2>3. lim \in EntryLimits \cup {0, DefaultLimit} /\ rev \in Nat /\ rev < nextRev
        /\ unread' = FALSE
    BY <1>6, <2>1, HistoryAssumption DEF HistoryInv, Counted, LoadNothing
  <2> QED
    BY <1>3, <2>2, <2>3, <2>4
<1> QED
  BY <1>4, <1>5, <1>6 DEF Load

LEMMA HistoryInitInv == HistoryInit => HistoryInv /\ Recording
<1> SUFFICES ASSUME HistoryInit PROVE HistoryInv /\ Recording
  OBVIOUS
<1>1. /\ details = NoEntries /\ limit = DefaultLimit /\ revision = 0
      /\ dirty = {} /\ deleted = {} /\ unread = FALSE /\ run = 0 /\ up = FALSE
      /\ files = NoEntries /\ cache = [run |-> 0, revision |-> 0, list |-> NoEntries]
      /\ session = [s \in Session |-> [phase |-> "new", entry |-> 0, want |-> "none"]]
  BY DEF HistoryInit
<1>2. DOMAIN NoEntries = {} /\ Pairs(NoEntries) = {} /\ Cardinality({}) = 0
  BY FS_EmptySet DEF Pairs, NoEntries
<1>3. Recording
  BY <1>1 DEF Recording
<1>4. Marked /\ Bounded
  BY <1>1, <1>2, HistoryAssumption DEF Marked, Bounded, Serving
<1>5. CASE /\ index = [kind |-> "none", limit |-> 0, revision |-> 0, items |-> NoEntries]
           /\ nextEntry = 1 /\ nextRev = 1 /\ now = 1
  <2>1. Versions = {}
    BY <1>1, <1>2, <1>5 DEF Versions
  <2>2. Counted /\ Indexed /\ Cached
    <3>0. unread \in BOOLEAN
      BY <1>1
    <3>1. Counted
      <4>1. /\ nextEntry \in 1 .. MaxEntryId + 1 /\ nextRev \in 1 .. MaxRevision + 1 /\ now \in Nat
            /\ revision \in Nat /\ revision < nextRev
        BY <1>1, <1>5, HistoryAssumption
      <4>2. limit \in EntryLimits \cup {0, DefaultLimit}
        BY <1>1
      <4> QED
        BY <3>0, <4>1, <4>2 DEF Counted
    <3>2. Indexed
      BY <1>1, <1>5 DEF Indexed
    <3>3. Cached
      BY <1>1, <1>5 DEF Cached, Serving
    <3> QED
      BY <3>1, <3>2, <3>3
  <2> QED
    BY <1>3, <1>4, <2>1, <2>2 DEF HistoryInv, Honest, Known
<1>6. ASSUME NEW l \in EntryLimits, nextEntry = 2, nextRev = 2, now = 1,
             index = [kind |-> "legacy", limit |-> l, revision |-> 1,
                      items |-> Put(NoEntries, 1, [rev |-> 1, created |-> 1,
                                                   status |-> "success"])]
      PROVE  HistoryInv
  <2> DEFINE entry == [rev |-> 1, created |-> 1, status |-> "success"]
  <2>1. Versions = {<<1, entry>>}
    BY <1>1, <1>2, <1>6 DEF Versions, Pairs, Put
  <2>2. Counted /\ Indexed /\ Cached
    <3>0. unread \in BOOLEAN
      BY <1>1
    <3>1. Counted
      <4>1. /\ nextEntry \in 1 .. MaxEntryId + 1 /\ nextRev \in 1 .. MaxRevision + 1 /\ now \in Nat
            /\ revision \in Nat /\ revision < nextRev
        BY <1>1, <1>6, HistoryAssumption
      <4>2. limit \in EntryLimits \cup {0, DefaultLimit}
        BY <1>1
      <4> QED
        BY <3>0, <4>1, <4>2 DEF Counted
    <3>2. Indexed
      BY <1>1, <1>6 DEF Indexed
    <3>3. Cached
      BY <1>1, <1>6 DEF Cached, Serving
    <3> QED
      BY <3>1, <3>2, <3>3
  <2>3. entry \in Entries /\ entry.rev < nextRev
    BY <1>6, HistoryAssumption DEF Entries
  <2> HIDE DEF entry
  <2>4. Known(Versions, nextEntry, nextRev)
    BY <1>6, <2>1, <2>3 DEF Known
  <2> QED
    BY <1>4, <2>1, <2>2, <2>4 DEF HistoryInv, Honest
<1> QED
  BY <1>3, <1>5, <1>6 DEF HistoryInit

LEMMA RecordingKept ==
    ASSUME Recording, [HistoryNext]_historyVars PROVE Recording'
<1>1. CASE UNCHANGED historyVars
  BY <1>1 DEF historyVars, Recording
<1>2. CASE UNCHANGED session
  BY <1>2 DEF Recording
<1>3. ASSUME NEW s \in Session,
             \/ BeginSession(s) \/ Recreate(s) \/ RecordAgain(s)
             \/ \E status \in {"streaming", "success"} : Record(s, status)
      PROVE  Recording'
  <2>1. \E phase, entry, want :
          /\ Become(s, phase, entry, want)
          /\ phase \in {"missing", "retry"} => want \in {"streaming", "success"}
    <3>1. Recording
      OBVIOUS
    <3> QED
      BY <1>3, <3>1 DEF Recording, BeginSession, Recreate, RecordAgain, Record, Phase, After, Become
  <2> QED
    BY <2>1 DEF Recording, Become
<1>4. CASE HistoryCrash
  BY <1>4 DEF HistoryCrash, Recording, Phase
<1> QED
  BY <1>1, <1>2, <1>3, <1>4 DEF HistoryNext, Delete, Clear, SetLimit, FetchList, Load

LEMMA HistoryStep ==
    ASSUME HistoryInv, Recording, [HistoryNext]_historyVars PROVE HistoryInv' /\ Recording'
<1> SUFFICES HistoryInv'
  BY RecordingKept
<1>1. CASE UNCHANGED historyVars
  BY <1>1, IdleKeeps DEF historyVars
<1>2. CASE HistoryNext
  BY <1>2, SessionKeeps, DeleteKeeps, ClearKeeps, SetLimitKeeps, FetchKeeps, CrashKeeps, LoadKeeps
     DEF HistoryNext
<1> QED
  BY <1>1, <1>2

LEMMA HistoryInvariant == HistorySpec => [](HistoryInv /\ Recording)
BY HistoryInitInv, HistoryStep, PTL DEF HistorySpec

(* Whatever saves fail or stop half way, in whatever order entries are made, *)
(* changed, deleted, pushed out and limited, and however often the process   *)
(* crashes and loads what is there: a later save repairs every difference    *)
(* between memory and disk (saveLocked, store.go:502-545).                   *)
THEOREM PendingCoversDiskCorrect == HistorySpec => []PendingCoversDisk
<1>1. HistoryInv => PendingCoversDisk
  <2> SUFFICES ASSUME HistoryInv PROVE PendingCoversDisk
    OBVIOUS
  <2>1. DOMAIN details \subseteq 1 .. nextEntry - 1 /\ DOMAIN files \subseteq 1 .. nextEntry - 1
    BY EntriesKnown
  <2>2. nextEntry - 1 \in 0 .. MaxEntryId /\ revision \in 0 .. MaxRevision
    BY HistoryAssumption DEF HistoryInv, Counted
  <2>3. IsFiniteSet(1 .. nextEntry - 1)
    BY <2>2, FS_Interval
  <2>4. IsFiniteSet(DOMAIN details)
    BY <2>1, <2>3, FS_Subset
  <2>5. HistoryTypeOK
    BY <2>1, <2>2, <2>4, EntriesKnown, HistoryAssumption
       DEF HistoryTypeOK, HistoryInv, Counted, Marked, Bounded
  <2> QED
    BY <2>5 DEF PendingCoversDisk, HistoryInv, Marked, Pending
<1> QED
  BY <1>1, HistoryInvariant, PTL

(* A browser that asks with the ETag it has is told "not modified" only when *)
(* it has the current list, and an entry's ETag names one content for ever:  *)
(* no sequence of saves, crashes and restarts gives a revision out twice     *)
(* (nextRevisionLocked, store.go:584-591; handler_chat_history.go:13-110).   *)
THEOREM EtagHonestCorrect == HistorySpec => []EtagHonest
<1>1. HistoryInv => EtagHonest
  <2> SUFFICES ASSUME HistoryInv, Serving PROVE EtagHonest
    BY DEF EtagHonest
  <2>1. ASSUME NEW i \in DOMAIN details \cap DOMAIN cache.list,
               details[i].rev = cache.list[i].rev
        PROVE  details[i] = cache.list[i]
    <3> DEFINE v == <<i, details[i]>>
               w == <<i, cache.list[i]>>
    <3>1. v \in Versions /\ w \in Versions
      BY DEF Versions, Pairs
    <3>2. v = w
      BY <2>1, <3>1 DEF HistoryInv, Honest
    <3> QED
      BY <3>2
  <2> QED
    BY <2>1 DEF EtagHonest, HistoryInv, Cached
<1> QED
  BY <1>1, HistoryInvariant, PTL

(* Before the first start there is only what an older release left, with no *)
(* answer in progress.                                                      *)
Fresh ==
    run = 0 =>
      /\ ~up /\ details = NoEntries /\ index.kind \in {"none", "legacy"}
      /\ index.kind = "legacy" =>
           \A i \in DOMAIN index.items : index.items[i].status # "streaming"

Streamed(sessions, i) ==
    \E s \in Session : sessions[s].entry = i /\ sessions[s].phase \in {"streaming", "retry"}

(* Entries that stay, and sessions that stay with them.                     *)
LEMMA OthersKeepNoGhost ==
    ASSUME NoGhostEntry, run <= 1,
           \A i \in DOMAIN details' :
             details'[i].status = "streaming" =>
               \/ Streamed(session', i)
               \/ i \in DOMAIN details /\ details[i].status = "streaming"
                  /\ (Streamed(session, i) => Streamed(session', i))
    PROVE  NoGhostEntry'
BY DEF NoGhostEntry, Streamed

LEMMA StartKeepsNoGhost ==
    ASSUME HistoryInv, Recording, NoGhostEntry, run <= 1, NEW s \in Session, StoreStart,
           NEW want, NEW phase \in {"streaming", "retry"}, Become(s, phase, nextEntry, want),
           ~(session[s].phase \in {"streaming", "retry"})
    PROVE  NoGhostEntry'
<1>1. /\ session'[s].phase = phase /\ session'[s].entry = nextEntry
      /\ \A r \in Session : r # s => session'[r] = session[r]
  BY DEF Become, Recording
<1>2. \A i \in DOMAIN details' : i = nextEntry \/ (i \in DOMAIN details /\ details'[i] = details[i])
  BY DEF StoreStart, Store, Restrict, Kept, Put
<1>3. \A i : Streamed(session, i) => Streamed(session', i)
  BY <1>1 DEF Streamed
<1>4. Streamed(session', nextEntry)
  BY <1>1 DEF Streamed
<1>5. ASSUME NEW i \in DOMAIN details', details'[i].status = "streaming"
      PROVE  \/ Streamed(session', i)
             \/ i \in DOMAIN details /\ details[i].status = "streaming"
                  /\ (Streamed(session, i) => Streamed(session', i))
  <2>1. CASE i = nextEntry
    BY <1>1, <2>1 DEF Streamed
  <2>2. CASE i # nextEntry
    BY <1>2, <1>3, <1>5, <2>2
  <2> QED
    BY <2>1, <2>2
<1> QED
  BY <1>5, OthersKeepNoGhost

LEMMA UpdateKeepsNoGhost ==
    ASSUME HistoryInv, Recording, NoGhostEntry, run <= 1, NEW s \in Session,
           NEW id \in DOMAIN details, id = session[s].entry,
           NEW status \in {"streaming", "success"}, StoreUpdate(id, status),
           NEW want, Become(s, After(status), id, want)
    PROVE  NoGhostEntry'
<1>1. /\ session'[s].phase = After(status) /\ session'[s].entry = id
      /\ \A r \in Session : r # s => session'[r] = session[r]
  BY DEF Become, Recording
<1>2. details[id] \in Entries
  BY EntriesKnown
<1>3. \A i \in DOMAIN details' :
        /\ i \in DOMAIN details
        /\ i # id => details'[i] = details[i]
        /\ i = id => details'[i].status = status
  BY <1>2 DEF StoreUpdate, Store, Restrict, Kept, Entries
<1>5. ASSUME NEW i \in DOMAIN details', details'[i].status = "streaming"
      PROVE  \/ Streamed(session', i)
             \/ i \in DOMAIN details /\ details[i].status = "streaming"
                  /\ (Streamed(session, i) => Streamed(session', i))
  <2>1. CASE i = id
    BY <1>1, <1>3, <1>5, <2>1 DEF Streamed, After
  <2>2. CASE i # id
    BY <1>1, <1>3, <1>5, <2>2 DEF Streamed
  <2> QED
    BY <2>1, <2>2
<1> QED
  BY <1>5, OthersKeepNoGhost

LEMMA SessionKeepsNoGhost ==
    ASSUME HistoryInv, Recording, NoGhostEntry, run <= 1, NEW s \in Session,
           \/ BeginSession(s) \/ Recreate(s) \/ RecordAgain(s)
           \/ \E status \in {"streaming", "success"} : Record(s, status)
    PROVE  NoGhostEntry'
<1>0. ASSUME UNCHANGED details,
             \/ session[s].entry \notin DOMAIN details
             \/ ~(session[s].phase \in {"streaming", "retry"}),
             NEW phase, NEW entry, NEW want, Become(s, phase, entry, want)
      PROVE  NoGhostEntry'
  <2>1. \A r \in Session : r # s => session'[r] = session[r]
    BY <1>0 DEF Become, Recording
  <2> QED
    BY <1>0, <2>1 DEF NoGhostEntry, Streamed
<1>1. CASE BeginSession(s)
  <2>1. CASE unread \/ limit = 0
    BY <1>0, <1>1, <2>1 DEF BeginSession, memoryVars, Phase
  <2>2. CASE ~(unread \/ limit = 0)
    BY <1>1, <2>2, StartKeepsNoGhost DEF BeginSession, Phase
  <2> QED
    BY <2>1, <2>2
<1>2. CASE Recreate(s)
  <2>1. CASE limit = 0
    BY <1>0, <1>2, <2>1 DEF Recreate, memoryVars, Phase
  <2>2. CASE limit # 0
    BY <1>2, <2>2, StartKeepsNoGhost DEF Recreate, Phase
  <2> QED
    BY <2>1, <2>2
<1>3. CASE RecordAgain(s)
  <2>1. CASE session[s].entry \in DOMAIN details
    <3> DEFINE id == session[s].entry
               status == session[s].want
    <3>1. /\ StoreUpdate(id, status) /\ Become(s, After(status), id, "none")
          /\ id \in DOMAIN details /\ status \in {"streaming", "success"} /\ id = session[s].entry
      BY <1>3, <2>1 DEF RecordAgain, Recording, Phase
    <3> HIDE DEF id, status
    <3> QED
      BY <3>1, UpdateKeepsNoGhost
  <2>2. CASE session[s].entry \notin DOMAIN details
    BY <1>0, <1>3, <2>2 DEF RecordAgain, memoryVars
  <2> QED
    BY <2>1, <2>2
<1>4. ASSUME NEW status \in {"streaming", "success"}, Record(s, status) PROVE NoGhostEntry'
  <2>1. CASE session[s].entry \in DOMAIN details
    <3> DEFINE id == session[s].entry
    <3>1. /\ StoreUpdate(id, status) /\ Become(s, After(status), id, "none")
          /\ id \in DOMAIN details /\ id = session[s].entry
      BY <1>4, <2>1 DEF Record
    <3> HIDE DEF id
    <3> QED
      BY <3>1, UpdateKeepsNoGhost
  <2>2. CASE session[s].entry \notin DOMAIN details
    BY <1>0, <1>4, <2>2 DEF Record, memoryVars
  <2> QED
    BY <2>1, <2>2
<1> QED
  BY <1>1, <1>2, <1>3, <1>4

LEMMA NoGhostStep ==
    ASSUME HistoryInv, Recording, Fresh, NoGhostEntry, [HistoryNext]_historyVars
    PROVE  NoGhostEntry' /\ Fresh'
<1>0. run \in Nat
  BY DEF HistoryInv, Cached
<1>1. CASE UNCHANGED historyVars
  BY <1>1 DEF historyVars, memoryVars, NoGhostEntry, Fresh
<1>2. ASSUME NEW s \in Session,
             \/ BeginSession(s) \/ Recreate(s) \/ RecordAgain(s)
             \/ \E status \in {"streaming", "success"} : Record(s, status)
      PROVE  NoGhostEntry' /\ Fresh'
  <2>1. UNCHANGED run /\ up
    BY <1>2 DEF BeginSession, Recreate, RecordAgain, Record, Serving
  <2>2. CASE run <= 1
    BY <1>2, <2>1, <2>2, SessionKeepsNoGhost DEF Fresh
  <2>3. CASE ~(run <= 1)
    BY <1>0, <2>1, <2>3 DEF NoGhostEntry, Fresh
  <2> QED
    BY <2>2, <2>3
<1>3. ASSUME \A i \in DOMAIN details' : i \in DOMAIN details /\ details'[i] = details[i],
             UNCHANGED <<run, session>>, up
      PROVE  NoGhostEntry' /\ Fresh'
  BY <1>3 DEF NoGhostEntry, Fresh
<1>4. ASSUME NEW id, Delete(id) PROVE NoGhostEntry' /\ Fresh'
  BY <1>3, <1>4 DEF Delete, Store, Restrict, Kept, Serving
<1>5. CASE Clear
  BY <1>3, <1>5 DEF Clear, Store, Restrict, Kept, Serving, NoEntries
<1>6. ASSUME NEW l, SetLimit(l) PROVE NoGhostEntry' /\ Fresh'
  BY <1>3, <1>6 DEF SetLimit, Store, Restrict, Kept, Serving
<1>7. CASE FetchList
  BY <1>3, <1>7 DEF FetchList, memoryVars, Serving
<1>8. CASE HistoryCrash
  BY <1>8 DEF HistoryCrash, NoEntries, NoGhostEntry, Fresh
<1>9. CASE Load
  <2>1. run' = run + 1 /\ UNCHANGED session
    BY <1>9 DEF Load
  <2>2. CASE run = 0
    <3>1. \A i \in DOMAIN details' : details'[i].status # "streaming"
      <4>1. CASE LoadLegacy
        <5>1. \A i \in DOMAIN details' : i \in DOMAIN index.items /\ details'[i] = index.items[i]
          BY <4>1 DEF LoadLegacy, Store, Restrict, Kept
        <5> QED
          BY <2>2, <4>1, <5>1 DEF Fresh, LoadLegacy
      <4>2. CASE LoadNothing
        BY <4>2 DEF LoadNothing, Store, Restrict, Kept, NoEntries
      <4>3. CASE LoadIndex
        BY <2>2, <4>3 DEF LoadIndex, Fresh
      <4> QED
        BY <1>9, <4>1, <4>2, <4>3 DEF Load
    <3> QED
      BY <2>1, <2>2, <3>1 DEF NoGhostEntry, Fresh
  <2>3. CASE run # 0
    BY <1>0, <2>1, <2>3 DEF NoGhostEntry, Fresh
  <2> QED
    BY <2>2, <2>3
<1> QED
  BY <1>1, <1>2, <1>4, <1>5, <1>6, <1>7, <1>8, <1>9 DEF HistoryNext

(* However many requests record their answers, and however their entries are *)
(* deleted, pushed out and made anew, no entry stays in the list as an        *)
(* answer in progress that nobody gives (chat_history.go:207-261,             *)
(* session.go:217-271).                                                       *)
THEOREM NoGhostEntryCorrect == HistorySpec => []NoGhostEntry
<1>1. HistoryInit => Fresh /\ NoGhostEntry
  <2> SUFFICES ASSUME HistoryInit PROVE Fresh /\ NoGhostEntry
    OBVIOUS
  <2>1. details = NoEntries /\ ~up
    BY DEF HistoryInit
  <2>2. index.kind \in {"none", "legacy"}
    BY DEF HistoryInit
  <2>3. index.kind = "legacy" => \A i \in DOMAIN index.items : index.items[i].status # "streaming"
    BY DEF HistoryInit, Put, NoEntries
  <2> QED
    BY <2>1, <2>2, <2>3 DEF Fresh, NoGhostEntry, NoEntries
<1> QED
  BY <1>1, HistoryInvariant, NoGhostStep, PTL DEF HistorySpec

----------------------------------------------------------------------------
(* The sessions of the administration. *)

SessionSpec == SessionInit /\ [][SessionNext]_sessionVars

Token == [iat : Nat, exp : Nat, secret : Password \cup {"env", "none"}, at : Nat, current : BOOLEAN]

TypeInv ==
    /\ clock \in Nat \ {0} /\ password \in Password /\ validAfter \in Nat
    /\ login \in BOOLEAN /\ token \in Token

(* A change is never in the future, and a token is dated at most one second *)
(* ahead; one issued since the last change is signed with the secret, dated *)
(* after the change, and lives its whole life from its issue.               *)
Dated ==
    /\ validAfter <= clock
    /\ token.iat <= token.at + 1

Signed ==
    token.current =>
        /\ token.secret = Secret
        /\ token.exp = token.iat + Lifetime
        /\ token.at <= token.iat
        /\ validAfter > 0 => token.iat > validAfter

SessionInv == TypeInv /\ Dated /\ Signed

LEMMA SessionInvInit == SessionInit => SessionInv
<1> USE LifetimeAssumption
<1>1. /\ NoToken \in Token /\ NoToken.iat = 0 /\ NoToken.at = 0 /\ NoToken.current = FALSE
  BY DEF NoToken, Token
<1> SUFFICES ASSUME SessionInit PROVE SessionInv
  OBVIOUS
<1>2. /\ clock = 1 /\ password \in Password /\ validAfter = 0 /\ login = FALSE
      /\ token \in Token /\ token.iat = 0 /\ token.at = 0 /\ token.current = FALSE
  BY <1>1, Zenon DEF SessionInit
<1>3. TypeInv
  <2>1. clock \in Nat \ {0} /\ validAfter \in Nat
    BY <1>2
  <2> QED
    BY <2>1, <1>2, Zenon DEF TypeInv
<1>4. Dated /\ Signed
  BY <1>2 DEF Dated, Signed
<1> QED
  BY <1>3, <1>4 DEF SessionInv

(* A login ends in a token. *)
LEMMA CreateJWTKeeps == SessionInv /\ CreateJWT => SessionInv'
<1> SUFFICES ASSUME SessionInv, CreateJWT PROVE SessionInv'
  OBVIOUS
<1> USE LifetimeAssumption
<1> DEFINE iat == IF validAfter >= clock THEN validAfter + 1 ELSE clock
<1>1. /\ clock \in Nat \ {0} /\ password \in Password /\ validAfter \in Nat
      /\ validAfter <= clock
  BY DEF SessionInv, TypeInv, Dated
<1>2. /\ iat \in Nat /\ clock <= iat /\ iat <= clock + 1 /\ validAfter < iat
      /\ iat + Lifetime \in Nat
  BY <1>1
<1>3. /\ token' = [iat |-> iat, exp |-> iat + Lifetime, secret |-> Secret,
                   at |-> clock, current |-> TRUE]
      /\ login' = FALSE /\ UNCHANGED <<clock, password, validAfter>>
  BY DEF CreateJWT
<1>4. Secret \in Password \cup {"env", "none"} /\ Secret' = Secret
  BY <1>1, <1>3 DEF Secret
<1> HIDE DEF iat
<1>5. token' \in Token
  BY <1>1, <1>2, <1>3, <1>4 DEF Token
<1>6. TypeInv'
  BY <1>1, <1>3, <1>5 DEF TypeInv
<1>7. Dated'
  BY <1>1, <1>2, <1>3 DEF Dated
<1>8. Signed'
  BY <1>1, <1>2, <1>3, <1>4 DEF Signed
<1> QED
  BY <1>6, <1>7, <1>8 DEF SessionInv

LEMMA SessionInvStep == SessionInv /\ [SessionNext]_sessionVars => SessionInv'
<1> SUFFICES ASSUME SessionInv, [SessionNext]_sessionVars PROVE SessionInv'
  OBVIOUS
<1> USE DEF SessionInv, TypeInv, Dated, Signed
<1>1. ASSUME NEW p \in Password, ShowPassword(p) PROVE SessionInv'
  BY <1>1 DEF ShowPassword, Secret
<1>2. ASSUME NEW p \in Password, ChangePassword(p) PROVE SessionInv'
  <2>1. token' = [token EXCEPT !.current = FALSE] /\ clock' = clock /\ login' = login
        /\ password' = p /\ validAfter' = clock
    BY <1>2 DEF ChangePassword
  <2>2. token' \in Token /\ token'.iat = token.iat /\ token'.at = token.at /\ ~token'.current
    BY <2>1 DEF Token
  <2> QED
    BY <2>1, <2>2
<1>3. CASE CreateJWT
  BY <1>3, CreateJWTKeeps
<1>4. CASE Tick
  BY <1>4 DEF Tick, Secret
<1>5. CASE UNCHANGED sessionVars
  BY <1>5 DEF sessionVars, Secret
<1> QED
  BY <1>1, <1>2, <1>3, <1>4, <1>5 DEF SessionNext

LEMMA SessionInvHolds == SessionSpec => []SessionInv
<1> QED
  BY SessionInvInit, SessionInvStep, PTL DEF SessionSpec

LEMMA InvKeepsFresh == SessionInv => FreshSessionAccepted
<1> SUFFICES ASSUME SessionInv, token.current, clock <= token.at + Lifetime PROVE VerifyJWT(token)
  BY DEF FreshSessionAccepted
<1> USE LifetimeAssumption
<1>1. token.exp >= clock
  BY DEF SessionInv, TypeInv, Signed, Token
<1> QED
  BY <1>1 DEF SessionInv, TypeInv, Signed, Token, VerifyJWT

LEMMA InvEndsOld == SessionInv => ChangeEndsSessions
<1> SUFFICES ASSUME SessionInv, token.at < validAfter PROVE ~VerifyJWT(token)
  BY DEF ChangeEndsSessions
<1>1. validAfter > 0 /\ ~(token.iat > validAfter)
  BY DEF SessionInv, TypeInv, Dated, Token
<1> QED
  BY <1>1 DEF VerifyJWT

(* A session opened since the password was last set is accepted until its    *)
(* life is over, and a change of the password ends every session opened in   *)
(* an earlier second (admin.go:77-141, handler_settings_write.go:102-134).   *)
THEOREM SessionsFollowPasswordCorrect == SessionSpec => []SessionsFollowPassword
<1>1. SessionInv => SessionsFollowPassword
  BY InvKeepsFresh, InvEndsOld DEF SessionsFollowPassword
<1> QED
  BY <1>1, SessionInvHolds, PTL

----------------------------------------------------------------------------
(* The captured exchanges, for every number of sessions, rounds and seconds  *)
(* and every limit of the list.                                             *)
CaptureSpec == CaptureInit /\ [][CaptureNext]_captureVars

Exchanges == [session : ChatSession, round : Nat, at : Nat]

(* The rounds of a session that have ended. *)
Ended(s) == rounds[s] - (IF open[s] # 0 THEN 1 ELSE 0)

(* A session's exchanges stand in the list newest first, without a gap.     *)
NewestFirst(list) ==
    \A i, j \in DOMAIN list : i < j /\ list[i].session = list[j].session =>
        list[i].round > list[j].round /\ list[i].at >= list[j].at

Gapless(list) ==
    \A i, j \in DOMAIN list, r \in Nat :
        /\ list[i].session = list[j].session
        /\ list[j].round < r /\ r < list[i].round
        => \E k \in DOMAIN list : list[k].session = list[i].session /\ list[k].round = r

CaptureTypes ==
    /\ items \in Seq(Exchanges)
    /\ rounds \in [ChatSession -> Nat] /\ open \in [ChatSession -> Nat]
    /\ openedAt \in [ChatSession -> Nat] /\ second \in Nat
    /\ \A s \in ChatSession : open[s] \in {0, rounds[s]} /\ openedAt[s] <= second

(* Only the oldest are missing from the list.                               *)
Latest ==
    \A i \in DOMAIN items :
        /\ items[i].round <= Ended(items[i].session)
        /\ items[i].at <= openedAt[items[i].session]
        /\ \E k \in DOMAIN items : /\ items[k].session = items[i].session
                                   /\ items[k].round = Ended(items[i].session)

(* What a snapshot has not seen is newer than what it has.                  *)
Unseen ==
    /\ \A v \in before.seen : v \in ChatSession \X Nat /\ v[2] <= Ended(v[1])
    /\ \A i \in DOMAIN items : Id(items[i]) \notin before.seen =>
          \A v \in before.seen : v[1] = items[i].session => v[2] < items[i].round

CaptureInv ==
    /\ CaptureTypes /\ NewestFirst(items) /\ Gapless(items) /\ Latest /\ Unseen
    /\ SamplesInOrder

(* Positions that leave out no round between two of a session.              *)
Convex(list, P) ==
    \A i, j \in P, k \in DOMAIN list :
        /\ list[i].session = list[k].session /\ list[j].session = list[k].session
        /\ list[j].round < list[k].round /\ list[k].round < list[i].round
        => k \in P

----------------------------------------------------------------------------
(* A sample taken newest first from the list and turned around.             *)
LEMMA ReversedInOrder ==
    ASSUME NEW list \in Seq(Exchanges), NewestFirst(list), Gapless(list),
           NEW P, P \subseteq DOMAIN list, Convex(list, P)
    PROVE  InOrder(Reverse(Picked(list, P)))
<1> DEFINE N == Cardinality(P)
           sample == Reverse(Picked(list, P))
<1>1. /\ P \subseteq Nat /\ IsFiniteSet(P) /\ N \in Nat
  BY PositionsOf
<1>2. /\ Picked(list, P) \in Seq(Exchanges) /\ Len(Picked(list, P)) = N
      /\ \E f : Listing(f, P) /\ \A n \in 1 .. N : Picked(list, P)[n] = list[f[n]]
  <2>1. Picked(list, P) \in Seq(Exchanges)
    BY PickedInOrder
  <2>2. Len(Picked(list, P)) = N
    BY PickedInOrder
  <2>3. \E f : /\ Listing(f, P)
               /\ \A n \in 1 .. N : Picked(list, P)[n] = list[f[n]]
    BY PickedInOrder
  <2> QED
    BY <2>1, <2>2, <2>3
<1>3. PICK f : Listing(f, P) /\ \A n \in 1 .. N : Picked(list, P)[n] = list[f[n]]
  BY <1>2
<1> DEFINE g(n) == f[N - n + 1]
<1>4. DOMAIN sample = 1 .. N
  BY <1>2 DEF Reverse
<1>5. ASSUME NEW n \in 1 .. N
      PROVE  /\ N - n + 1 \in 1 .. N /\ g(n) \in P /\ g(n) \in Nat /\ g(n) \in DOMAIN list
             /\ sample[n] = list[g(n)]
             /\ list[g(n)].round \in Nat
  <2>1. N - n + 1 \in 1 .. N
    BY <1>1
  <2>2. g(n) \in P
    BY <1>3, <2>1 DEF Listing
  <2>3. sample[n] = Picked(list, P)[N - n + 1]
    BY <1>2, <2>1 DEF Reverse
  <2>4. g(n) \in DOMAIN list /\ list[g(n)] \in Exchanges
    BY <2>2, LenProperties, ElementOfSeq
  <2> QED
    BY <1>1, <1>3, <2>1, <2>2, <2>3, <2>4 DEF Exchanges
<1>6. ASSUME NEW m \in 1 .. N, NEW n \in 1 .. N, m < n PROVE g(n) < g(m)
  <2>1. N - n + 1 \in 1 .. N /\ N - m + 1 \in 1 .. N /\ N - n + 1 < N - m + 1
    BY <1>1, <1>6
  <2> QED
    BY <1>3, <2>1 DEF Listing
<1>7. ASSUME NEW x \in P PROVE \E n \in 1 .. N : g(n) = x
  <2>1. PICK i \in 1 .. N : f[i] = x
    BY <1>3 DEF Listing
  <2>2. N - i + 1 \in 1 .. N /\ N - (N - i + 1) + 1 = i
    BY <1>1
  <2> QED
    BY <2>1, <2>2
<1> HIDE DEF g, sample, N
<1>8. ASSUME NEW m \in 1 .. N, NEW n \in 1 .. N, m < n, sample[m].session = sample[n].session
      PROVE  sample[m].round < sample[n].round
  <2>1. g(n) < g(m) /\ list[g(n)].session = list[g(m)].session
    BY <1>5, <1>6, <1>8
  <2>2. list[g(n)].round > list[g(m)].round
    BY <1>5, <2>1 DEF NewestFirst
  <2> QED
    BY <1>5, <2>2
<1>9. \A n \in 1 .. N : n \in Nat /\ sample[n].round \in Nat
  BY <1>1, <1>5
<1> SUFFICES ASSUME NEW i \in 1 .. N, NEW j \in 1 .. N, i < j,
                    sample[i].session = sample[j].session
             PROVE  sample[j].round - sample[i].round =
                      Cardinality({k \in i + 1 .. j : sample[k].session = sample[i].session})
  BY <1>4 DEF InOrder, sample
<1> DEFINE K == {k \in i + 1 .. j : sample[k].session = sample[i].session}
           R == sample[i].round + 1 .. sample[j].round
           h == [k \in K |-> sample[k].round]
<1>10. sample[i].round < sample[j].round
  BY <1>8
<1>11. \A k \in K : k \in 1 .. N /\ i < k /\ k <= j
  BY <1>1, <1>9
<1>12. h \in [K -> R]
  <2> SUFFICES ASSUME NEW k \in K PROVE sample[k].round \in R
    OBVIOUS
  <2>1. k \in 1 .. N /\ i < k /\ k <= j /\ sample[k].session = sample[i].session
    BY <1>11
  <2>2. sample[i].round < sample[k].round
    BY <1>8, <2>1
  <2>3. sample[k].round <= sample[j].round
    <3>1. CASE k = j
      BY <1>9, <3>1
    <3>2. CASE k < j
      BY <1>8, <1>9, <2>1, <3>2
    <3> QED
      BY <1>9, <2>1, <3>1, <3>2
  <2> QED
    BY <1>9, <2>1, <2>2, <2>3
<1>13. \A k, l \in K : h[k] = h[l] => k = l
  <2> SUFFICES ASSUME NEW k \in K, NEW l \in K, k # l PROVE sample[k].round # sample[l].round
    OBVIOUS
  <2>1. k \in 1 .. N /\ l \in 1 .. N /\ sample[k].session = sample[l].session
    BY <1>11
  <2>2. k < l \/ l < k
    BY <1>9, <2>1
  <2> QED
    BY <1>8, <1>9, <2>1, <2>2
<1>14. \A r \in R : \E k \in K : h[k] = r
  <2> SUFFICES ASSUME NEW r \in R PROVE \E k \in K : sample[k].round = r
    OBVIOUS
  <2>1. r \in Nat /\ sample[i].round < r /\ r <= sample[j].round
    BY <1>9
  <2>2. j \in K
    BY <1>9
  <2>3. CASE r = sample[j].round
    BY <2>2, <2>3
  <2>4. CASE r # sample[j].round
    <3>1. r < sample[j].round
      BY <1>9, <2>1, <2>4
    <3>2. list[g(j)].session = list[g(i)].session /\ list[g(i)].round < r /\ r < list[g(j)].round
      BY <1>5, <2>1, <3>1
    <3>3. PICK k \in DOMAIN list : list[k].session = list[g(j)].session /\ list[k].round = r
      <4>1. g(i) \in DOMAIN list /\ g(j) \in DOMAIN list
        BY <1>5
      <4>2. \A a, b \in DOMAIN list, q \in Nat :
               list[a].session = list[b].session /\ list[b].round < q /\ q < list[a].round
               => \E k \in DOMAIN list : list[k].session = list[a].session /\ list[k].round = q
        BY DEF Gapless
      <4> QED
        BY <2>1, <3>2, <4>1, <4>2
    <3>4. k \in P
      BY <1>5, <3>2, <3>3 DEF Convex
    <3>5. PICK n \in 1 .. N : g(n) = k
      BY <1>7, <3>4
    <3>6. sample[n].round = r /\ sample[n].session = sample[j].session
      BY <1>5, <3>3, <3>5
    <3>7. ~(n <= i)
      <4> SUFFICES ASSUME n <= i PROVE FALSE
        OBVIOUS
      <4>1. CASE n = i
        BY <1>9, <2>1, <3>6, <4>1
      <4>2. CASE n < i
        <5>1. sample[n].round < sample[i].round
          BY <1>8, <3>6, <4>2
        <5> QED
          BY <1>9, <2>1, <3>6, <5>1
      <4> QED
        BY <1>9, <4>1, <4>2
    <3>8. ~(j < n)
      <4> SUFFICES ASSUME j < n PROVE FALSE
        OBVIOUS
      <4>1. sample[j].round < sample[n].round
        BY <1>8, <3>6
      <4> QED
        BY <1>9, <3>1, <3>6, <4>1
    <3>9. n \in K
      BY <1>9, <3>6, <3>7, <3>8
    <3> QED
      BY <3>6, <3>9
  <2> QED
    BY <2>3, <2>4
<1>15. h \in Bijection(K, R)
  <2> HIDE DEF h, K, R
  <2> QED
    BY <1>12, <1>13, <1>14 DEF Bijection, Injection, Surjection, IsInjective
<1>16. IsFiniteSet(K) /\ Cardinality(R) = sample[j].round - sample[i].round
  <2>1. i + 1 \in Int /\ j \in Int /\ sample[i].round + 1 \in Int /\ sample[j].round \in Int
    BY <1>9
  <2>2. IsFiniteSet(i + 1 .. j)
    BY <2>1, FS_Interval
  <2>3. K \in SUBSET (i + 1 .. j)
    OBVIOUS
  <2>4. IsFiniteSet(K)
    <3> HIDE DEF K
    <3> QED
      BY <2>2, <2>3, FS_Subset
  <2>5. Cardinality(R) = IF sample[i].round + 1 > sample[j].round THEN 0
                         ELSE sample[j].round - (sample[i].round + 1) + 1
    BY <2>1, FS_Interval
  <2> QED
    BY <1>9, <1>10, <2>4, <2>5
<1> HIDE DEF h, K, R
<1>17. Cardinality(R) = Cardinality(K)
  <2>1. ExistsBijection(K, R)
    BY <1>15 DEF ExistsBijection
  <2> QED
    BY <1>16, <2>1, FS_Bijection
<1> QED
  BY <1>16, <1>17 DEF K

(* The stable sort by the second turns a session's exchanges around.        *)
LEMMA ChainReverses ==
    ASSUME items \in Seq(Exchanges), NewestFirst(items), NEW s
    PROVE  Chain(s) = Reverse(Picked(items, PlacesOf(s)))
<1> DEFINE P == PlacesOf(s)
           N == Cardinality(P)
           Earlier(i, j) == items[i].at < items[j].at \/ (items[i].at = items[j].at /\ i > j)
           place(n) == CHOOSE i \in P : Cardinality({j \in P : Earlier(j, i)}) = n - 1
<1>1. P \subseteq DOMAIN items /\ \A i \in P : items[i].session = s
  BY DEF PlacesOf
<1>2. P \subseteq Nat /\ IsFiniteSet(P) /\ N \in Nat
  BY <1>1, PositionsOf
<1>3. /\ Len(Picked(items, P)) = N
      /\ \E f : Listing(f, P) /\ \A n \in 1 .. N : Picked(items, P)[n] = items[f[n]]
  <2> HIDE DEF P
  <2>1. items \in Seq(Exchanges) /\ P \subseteq DOMAIN items
    BY <1>1
  <2>2. /\ Picked(items, P) \in Seq(Exchanges) /\ Len(Picked(items, P)) = Cardinality(P)
        /\ \E f : /\ Listing(f, P)
                  /\ \A n \in 1 .. Cardinality(P) : Picked(items, P)[n] = items[f[n]]
    BY <2>1, PickedInOrder
  <2> QED
    BY <2>2
<1>4. PICK f : Listing(f, P) /\ \A n \in 1 .. N : Picked(items, P)[n] = items[f[n]]
  BY <1>3
<1>5. \A i \in P : items[i].at \in Nat
  <2> TAKE i \in P
  <2>1. items[i] \in Exchanges
    BY <1>1, LenProperties, ElementOfSeq
  <2> QED
    BY <2>1 DEF Exchanges
<1>6. ASSUME NEW i \in P, NEW j \in P PROVE Earlier(j, i) <=> j > i
  <2>1. i \in Nat /\ j \in Nat /\ i \in DOMAIN items /\ j \in DOMAIN items
        /\ items[i].session = items[j].session
    BY <1>1, <1>2
  <2>2. CASE i < j
    BY <1>5, <2>1, <2>2 DEF NewestFirst
  <2>3. CASE j < i
    BY <1>5, <2>1, <2>3 DEF NewestFirst
  <2>4. CASE i = j
    BY <1>5, <2>1, <2>4
  <2> QED
    BY <2>1, <2>2, <2>3, <2>4
<1>7. \A i \in P : {j \in P : Earlier(j, i)} = {j \in P : j > i}
  BY <1>6
<1>8. ASSUME NEW n \in 1 .. N PROVE Cardinality({j \in P : Earlier(j, f[n])}) = N - n /\ f[n] \in P
  <2>1. f[n] \in P
    BY <1>4 DEF Listing
  <2>2. Cardinality({j \in P : j > f[n]}) = N - n
    BY <1>2, <1>4, CountAbove
  <2> QED
    BY <1>7, <2>1, <2>2
<1> DEFINE Rank(i) == Cardinality({j \in P : Earlier(j, i)})
<1> HIDE DEF Earlier, N
<1>9. ASSUME NEW n \in 1 .. N PROVE place(n) = f[N - n + 1]
  <2>1. N - n + 1 \in 1 .. N /\ N - (N - n + 1) = n - 1
    BY <1>2
  <2>2. f[N - n + 1] \in P /\ Rank(f[N - n + 1]) = n - 1
    BY <1>8, <2>1
  <2> HIDE DEF Rank
  <2>3. \E i \in P : Rank(i) = n - 1
    BY <2>2
  <2>4. place(n) = CHOOSE i \in P : Rank(i) = n - 1
    BY DEF Rank
  <2>5. place(n) \in P /\ Rank(place(n)) = n - 1
    BY <2>3, <2>4
  <2> HIDE DEF place
  <2>6. PICK m \in 1 .. N : f[m] = place(n)
    BY <1>4, <2>5 DEF Listing, N
  <2>7. N - m = n - 1
    BY <1>8, <2>5, <2>6 DEF Rank
  <2>8. m = N - n + 1
    BY <1>2, <2>7
  <2> QED
    BY <2>6, <2>8
<1>10. Chain(s) = [n \in 1 .. N |-> items[place(n)]]
  BY DEF Chain, Earlier, N
<1>11. Reverse(Picked(items, P)) = [n \in 1 .. N |-> Picked(items, P)[(N - n) + 1]]
  BY <1>3 DEF Reverse, N
<1> HIDE DEF place, P
<1>12. \A n \in 1 .. N : items[place(n)] = Picked(items, P)[(N - n) + 1]
  <2> TAKE n \in 1 .. N
  <2>1. N - n + 1 \in 1 .. N
    BY <1>2
  <2> QED
    BY <1>4, <1>9, <2>1 DEF N
<1>13. Chain(s) = Reverse(Picked(items, P))
  BY <1>10, <1>11, <1>12
<1> QED
  BY <1>13 DEF P

----------------------------------------------------------------------------
LEMMA CaptureInvInit == CaptureInit => CaptureInv
<1> SUFFICES ASSUME CaptureInit PROVE CaptureInv
  OBVIOUS
<1> USE DEF CaptureInit
<1>1. items \in Seq(Exchanges) /\ DOMAIN items = {}
  OBVIOUS
<1>2. before.seen = {}
  BY DEF NoCapture
<1>3. CaptureTypes
  BY <1>1 DEF CaptureTypes
<1>4. NewestFirst(items) /\ Gapless(items) /\ Latest /\ Unseen
  BY <1>1, <1>2 DEF NewestFirst, Gapless, Latest, Unseen
<1>5. SamplesInOrder
  BY DEF SamplesInOrder
<1> QED
  BY <1>3, <1>4, <1>5 DEF CaptureInv

LEMMA EndedIsNat ==
    ASSUME CaptureTypes, NEW s \in ChatSession
    PROVE  Ended(s) \in Nat /\ Ended(s) <= rounds[s] /\ rounds[s] \in Nat
BY DEF CaptureTypes, Ended

LEMMA ItemTypes ==
    ASSUME CaptureTypes
    PROVE  /\ DOMAIN items = 1 .. Len(items) /\ Len(items) \in Nat
           /\ \A i \in DOMAIN items : /\ items[i].session \in ChatSession
                                      /\ items[i].round \in Nat /\ items[i].at \in Nat
<1>1. items \in Seq(Exchanges)
  BY DEF CaptureTypes
<1>2. DOMAIN items = 1 .. Len(items) /\ Len(items) \in Nat
  BY <1>1, LenProperties
<1>3. \A i \in DOMAIN items : items[i] \in Exchanges
  BY <1>1, <1>2, ElementOfSeq
<1> QED
  BY <1>2, <1>3 DEF Exchanges

(* A session's exchanges, and those a snapshot has not seen, can be saved.  *)
LEMMA SessionIsConvex == \A s : Convex(items, PlacesOf(s))
BY DEF Convex, PlacesOf

LEMMA UnseenIsConvex ==
    ASSUME CaptureTypes, Unseen
    PROVE  Convex(items, {i \in DOMAIN items : Id(items[i]) \notin before.seen})
<1> SUFFICES ASSUME NEW i \in DOMAIN items, NEW j \in DOMAIN items, NEW k \in DOMAIN items,
                    Id(items[j]) \notin before.seen,
                    items[j].session = items[k].session, items[j].round < items[k].round
             PROVE  Id(items[k]) \notin before.seen
  BY DEF Convex
<1> SUFFICES ASSUME Id(items[k]) \in before.seen PROVE FALSE
  OBVIOUS
<1>1. Id(items[k])[1] = items[j].session /\ Id(items[k])[2] = items[k].round
  BY DEF Id
<1>2. items[k].round < items[j].round
  BY <1>1 DEF Unseen
<1> QED
  BY <1>2, ItemTypes

LEMMA ChainInOrder ==
    ASSUME CaptureInv, NEW s PROVE InOrder(Chain(s))
<1>1. items \in Seq(Exchanges) /\ NewestFirst(items) /\ Gapless(items)
  BY DEF CaptureInv, CaptureTypes
<1>2. PlacesOf(s) \subseteq DOMAIN items
  BY DEF PlacesOf
<1>3. InOrder(Reverse(Picked(items, PlacesOf(s))))
  BY <1>1, <1>2, SessionIsConvex, ReversedInOrder
<1> QED
  BY <1>1, <1>3, ChainReverses

LEMMA NewEntriesInOrder ==
    ASSUME CaptureInv PROVE InOrder(NewEntries)
<1> DEFINE P == {i \in DOMAIN items : Id(items[i]) \notin before.seen}
<1>1. items \in Seq(Exchanges) /\ NewestFirst(items) /\ Gapless(items)
  BY DEF CaptureInv, CaptureTypes
<1>2. P \subseteq DOMAIN items /\ Convex(items, P)
  BY UnseenIsConvex DEF CaptureInv
<1> HIDE DEF P
<1>3. InOrder(Reverse(Picked(items, P)))
  BY <1>1, <1>2, ReversedInOrder
<1> QED
  BY <1>3 DEF NewEntries, P

(* A step that leaves the list as it is.                                    *)
LEMMA ListStays ==
    ASSUME CaptureTypes, Latest, UNCHANGED <<items, open, openedAt, rounds, second>>
    PROVE  CaptureTypes' /\ Latest'
BY DEF CaptureTypes, Latest, Ended

LEMMA RestStays ==
    ASSUME CaptureInv, UNCHANGED <<items, open, openedAt, rounds, second, before>>, SamplesInOrder'
    PROVE  CaptureInv'
<1>1. CaptureTypes' /\ Latest'
  BY ListStays DEF CaptureInv
<1>2. NewestFirst(items)' /\ Gapless(items)' /\ Unseen'
  BY DEF CaptureInv, NewestFirst, Gapless, Unseen, Ended
<1> QED
  BY <1>1, <1>2 DEF CaptureInv

LEMMA PersistKeeps ==
    ASSUME SamplesInOrder, NEW sample, InOrder(sample), Persist(sample) PROVE SamplesInOrder'
BY DEF Persist, SamplesInOrder, InOrder

LEMMA RoundBeginsKeeps ==
    ASSUME CaptureInv, NEW s \in ChatSession, RoundBegins(s) PROVE CaptureInv'
<1> USE DEF RoundBegins
<1>1. CaptureTypes /\ Latest /\ Unseen
  BY DEF CaptureInv
<1>2. /\ open[s] = 0 /\ rounds' = [rounds EXCEPT ![s] = rounds[s] + 1]
      /\ open' = [open EXCEPT ![s] = rounds[s] + 1] /\ openedAt' = [openedAt EXCEPT ![s] = second]
      /\ UNCHANGED <<items, second, before, saving, samples>>
  OBVIOUS
<1>3. CaptureTypes'
  BY <1>1, <1>2 DEF CaptureTypes
<1>4. ASSUME NEW t \in ChatSession PROVE Ended(t)' = Ended(t) /\ openedAt'[t] >= openedAt[t]
  BY <1>1, <1>2 DEF CaptureTypes, Ended
<1>5. Latest'
  <2>1. ASSUME NEW i \in DOMAIN items
        PROVE  /\ items[i].session \in ChatSession /\ items[i].at <= openedAt'[items[i].session]
    <3>1. items[i].session \in ChatSession /\ items[i].at \in Nat
      BY <1>1, ItemTypes
    <3>2. items[i].at <= openedAt[items[i].session]
      BY <1>1 DEF Latest
    <3> QED
      BY <1>1, <1>3, <1>4, <3>1, <3>2 DEF CaptureTypes
  <2>2. \A i \in DOMAIN items : Ended(items[i].session)' = Ended(items[i].session)
    BY <1>2, <1>4, <2>1
  <2> QED
    BY <1>1, <1>2, <2>1, <2>2 DEF Latest
<1>6. Unseen'
  <2>1. \A v \in before.seen : v[1] \in ChatSession /\ Ended(v[1])' = Ended(v[1])
    BY <1>1, <1>2, <1>4 DEF Unseen
  <2> QED
    BY <1>1, <1>2, <2>1 DEF Unseen
<1>7. NewestFirst(items)' /\ Gapless(items)' /\ SamplesInOrder'
  BY <1>2 DEF CaptureInv, NewestFirst, Gapless, SamplesInOrder, InOrder
<1> QED
  BY <1>3, <1>5, <1>6, <1>7 DEF CaptureInv

LEMMA RoundEndsKeeps ==
    ASSUME CaptureInv, NEW s \in ChatSession, RoundEnds(s) PROVE CaptureInv'
<1> DEFINE e == Entry(s, open[s], openedAt[s])
           all == <<e>> \o items
           n == IF Len(all) > CaptureLimit THEN CaptureLimit ELSE Len(all)
<1>1. CaptureTypes /\ Latest /\ Unseen /\ NewestFirst(items) /\ Gapless(items) /\ SamplesInOrder
  BY DEF CaptureInv
<1>2. /\ open[s] # 0 /\ items' = SubSeq(all, 1, n)
      /\ open' = [open EXCEPT ![s] = 0]
      /\ UNCHANGED <<openedAt, rounds, second, before, saving, samples>>
  BY DEF RoundEnds
<1>3. e \in Exchanges /\ e.session = s /\ e.round = open[s] /\ e.at = openedAt[s]
  BY <1>1 DEF Entry, Exchanges, CaptureTypes
<1>4. items \in Seq(Exchanges) /\ Len(items) \in Nat /\ DOMAIN items = 1 .. Len(items)
  BY <1>1, ItemTypes DEF CaptureTypes
<1> HIDE DEF e
<1>5. /\ all \in Seq(Exchanges) /\ Len(all) = 1 + Len(items) /\ DOMAIN all = 1 .. 1 + Len(items)
      /\ all[1] = e /\ \A i \in 2 .. 1 + Len(items) : all[i] = items[i - 1]
  <2>1. <<e>> \in Seq(Exchanges) /\ Len(<<e>>) = 1 /\ <<e>>[1] = e
    BY <1>3
  <2>2. /\ <<e>> \o items \in Seq(Exchanges) /\ Len(<<e>> \o items) = 1 + Len(items)
        /\ \A i \in 1 .. 1 + Len(items) :
              (<<e>> \o items)[i] = IF i <= 1 THEN <<e>>[i] ELSE items[i - 1]
    BY <1>4, <2>1, ConcatProperties
  <2>3. DOMAIN (<<e>> \o items) = 1 .. 1 + Len(items)
    BY <2>2, LenProperties
  <2> QED
    BY <1>4, <2>1, <2>2, <2>3
<1> HIDE DEF all
<1>6. n \in Nat /\ n <= Len(all)
  BY <1>4, <1>5, CaptureLimitIsNat
<1> HIDE DEF n
<1>7. /\ items' \in Seq(Exchanges) /\ DOMAIN items' = 1 .. n
      /\ \A i \in 1 .. n : items'[i] = all[i] /\ i \in DOMAIN all
  <2>1. /\ SubSeq(all, 1, n) \in Seq(Exchanges) /\ Len(SubSeq(all, 1, n)) = n
        /\ \A i \in 1 .. n : SubSeq(all, 1, n)[i] = all[i]
    BY <1>4, <1>5, <1>6 
  <2>2. DOMAIN SubSeq(all, 1, n) = 1 .. n
    BY <2>1, LenProperties
  <2> QED
    BY <1>2, <1>4, <1>5, <1>6, <2>1, <2>2
<1>8. ASSUME NEW t \in ChatSession
      PROVE  /\ Ended(t)' = IF t = s THEN open[s] ELSE Ended(t)
             /\ (t = s => Ended(t) = open[s] - 1) /\ open[s] \in Nat /\ open[s] > 0
  BY <1>1, <1>2 DEF CaptureTypes, Ended
<1>9. CaptureTypes'
  BY <1>1, <1>2, <1>7 DEF CaptureTypes
<1>10. \A i \in DOMAIN all :
          /\ all[i].session \in ChatSession /\ all[i].round \in Nat /\ all[i].at \in Nat
          /\ i \in Nat /\ i >= 1
          /\ i # 1 => i - 1 \in DOMAIN items /\ all[i] = items[i - 1]
  <2> TAKE i \in DOMAIN all
  <2>1. all[i] \in Exchanges
    BY <1>5, ElementOfSeq
  <2>2. all[i].session \in ChatSession /\ all[i].round \in Nat /\ all[i].at \in Nat
    BY <2>1 DEF Exchanges
  <2> QED
    BY <1>4, <1>5, <2>2
<1>11. ASSUME NEW i \in DOMAIN all, i # 1, all[i].session = s
       PROVE  all[i].round < e.round /\ all[i].at <= e.at
  <2>1. items[i - 1].round <= Ended(s) /\ items[i - 1].at <= openedAt[s]
    BY <1>1, <1>10, <1>11 DEF Latest
  <2> QED
    BY <1>3, <1>8, <1>10, <1>11, <2>1
<1>12. NewestFirst(all)
  <2> SUFFICES ASSUME NEW i \in DOMAIN all, NEW j \in DOMAIN all, i < j, all[i].session = all[j].session
               PROVE  all[i].round > all[j].round /\ all[i].at >= all[j].at
    BY DEF NewestFirst
  <2>1. i \in Nat /\ j \in Nat /\ i >= 1 /\ j # 1
    BY <1>10
  <2>2. CASE i = 1
    <3>1. all[j].session = s
      BY <1>3, <1>5, <2>2
    <3>2. all[j].round < e.round /\ all[j].at <= e.at
      BY <1>11, <2>1, <3>1
    <3>3. e.round \in Nat /\ e.at \in Nat
      BY <1>3 DEF Exchanges
    <3> QED
      BY <1>5, <1>10, <2>2, <3>2, <3>3
  <2>3. CASE i # 1
    <3>1. /\ i - 1 \in DOMAIN items /\ j - 1 \in DOMAIN items /\ i - 1 < j - 1
          /\ all[i] = items[i - 1] /\ all[j] = items[j - 1]
      BY <1>10, <2>1, <2>3
    <3> QED
      BY <1>1, <3>1 DEF NewestFirst
  <2> QED
    BY <2>2, <2>3
<1>13. ASSUME NEW i \in DOMAIN items PROVE i + 1 \in DOMAIN all /\ all[i + 1] = items[i]
  <2>1. i \in Nat /\ i + 1 \in 2 .. 1 + Len(items) /\ (i + 1) - 1 = i
    BY <1>4
  <2> QED
    BY <1>5, <2>1
<1>14. Gapless(all)
  <2> SUFFICES ASSUME NEW i \in DOMAIN all, NEW j \in DOMAIN all, NEW r \in Nat,
                      all[i].session = all[j].session, all[j].round < r, r < all[i].round
               PROVE  \E k \in DOMAIN all : all[k].session = all[i].session /\ all[k].round = r
    BY DEF Gapless
  <2>1. j # 1
    <3> SUFFICES ASSUME j = 1 PROVE FALSE
      OBVIOUS
    <3>1. i # 1
      BY <1>10
    <3>2. all[i].session = s /\ all[j] = e
      BY <1>3, <1>5
    <3>3. all[i].round < e.round
      BY <1>11, <3>1, <3>2
    <3> QED
      BY <1>10, <3>2, <3>3
  <2>2. j - 1 \in DOMAIN items /\ all[j] = items[j - 1]
    BY <1>10, <2>1
  <2>3. CASE i # 1
    <3>1. i - 1 \in DOMAIN items /\ all[i] = items[i - 1]
      BY <1>10, <2>3
    <3>2. PICK k \in DOMAIN items : items[k].session = items[i - 1].session /\ items[k].round = r
      BY <1>1, <2>2, <3>1 DEF Gapless
    <3> QED
      BY <1>13, <3>1, <3>2
  <2>4. CASE i = 1
    <3>1. all[i] = e /\ items[j - 1].session = s /\ r < open[s] /\ items[j - 1].round < r
      BY <1>3, <1>5, <2>2, <2>4
    <3>2. PICK l \in DOMAIN items : items[l].session = s /\ items[l].round = Ended(s)
      BY <1>1, <2>2, <3>1 DEF Latest
    <3>3. r <= Ended(s)
      BY <1>8, <3>1
    <3>4. CASE r = Ended(s)
      BY <1>3, <1>13, <3>1, <3>2, <3>4
    <3>5. CASE r # Ended(s)
      <4>1. r < items[l].round
        BY <1>8, <3>2, <3>3, <3>5
      <4>2. items[l].session = items[j - 1].session
        BY <3>1, <3>2
      <4>3. PICK k \in DOMAIN items : items[k].session = items[l].session /\ items[k].round = r
        BY <1>1, <2>2, <3>1, <3>2, <4>1, <4>2 DEF Gapless
      <4> QED
        BY <1>3, <1>13, <3>1, <3>2, <4>3
    <3> QED
      BY <3>4, <3>5
  <2> QED
    BY <2>3, <2>4
<1>15. ASSUME NEW i \in 1 .. n, NEW k \in DOMAIN all, all[k].session = all[i].session,
              all[k].round >= all[i].round
       PROVE  k \in 1 .. n
  <2>1. i \in DOMAIN all /\ i \in Nat /\ k \in Nat /\ k >= 1
    BY <1>7, <1>10
  <2>2. ~(i < k)
    <3> SUFFICES ASSUME i < k PROVE FALSE
      OBVIOUS
    <3>1. all[i].round > all[k].round
      BY <1>12, <1>15, <2>1 DEF NewestFirst
    <3> QED
      BY <1>10, <1>15, <2>1, <3>1
  <2> QED
    BY <1>6, <2>1, <2>2
<1>16. NewestFirst(items)'
  BY <1>7, <1>12 DEF NewestFirst
<1>17. Gapless(items)'
  <2> SUFFICES ASSUME NEW i \in 1 .. n, NEW j \in 1 .. n, NEW r \in Nat,
                      all[i].session = all[j].session, all[j].round < r, r < all[i].round
               PROVE  \E k \in 1 .. n : all[k].session = all[i].session /\ all[k].round = r
    BY <1>7 DEF Gapless
  <2>1. i \in DOMAIN all /\ j \in DOMAIN all
    BY <1>7
  <2>2. PICK k \in DOMAIN all : all[k].session = all[i].session /\ all[k].round = r
    BY <1>14, <2>1 DEF Gapless
  <2>3. all[k].session = all[j].session /\ all[k].round >= all[j].round
    BY <1>10, <2>1, <2>2
  <2>4. k \in 1 .. n
    BY <1>15, <2>3
  <2> QED
    BY <2>2, <2>4
<1>18. ASSUME NEW i \in DOMAIN all, NEW t \in ChatSession, t = all[i].session
       PROVE  /\ all[i].round <= Ended(t)' /\ all[i].at <= openedAt[t]
              /\ \E k \in DOMAIN all : all[k].session = t /\ all[k].round = Ended(t)'
  <2>1. t = all[i].session /\ all[i].round \in Nat
    BY <1>10, <1>18
  <2>2. CASE t = s
    <3>1. Ended(t)' = open[s]
      BY <1>8, <2>1, <2>2
    <3>2. 1 \in DOMAIN all /\ all[1].session = s /\ all[1].round = open[s]
      BY <1>3, <1>4, <1>5
    <3>3. all[i].round <= open[s] /\ all[i].at <= openedAt[s]
      <4>1. CASE i = 1
        <5>1. openedAt[s] \in Nat /\ open[s] \in Nat
          BY <1>1 DEF CaptureTypes
        <5> QED
          BY <1>3, <1>5, <4>1, <5>1
      <4>2. CASE i # 1
        <5>1. openedAt[s] \in Nat /\ open[s] \in Nat
          BY <1>1 DEF CaptureTypes
        <5>2. all[i].session = s
          BY <2>1, <2>2
        <5>3. all[i].round < e.round /\ all[i].at <= e.at
          BY <1>11, <4>2, <5>2
        <5> QED
          BY <1>3, <2>1, <5>1, <5>3
      <4> QED
        BY <4>1, <4>2
    <3> QED
      BY <2>2, <3>1, <3>2, <3>3
  <2>3. CASE t # s
    <3>1. i # 1
      BY <1>3, <1>5, <2>1, <2>3
    <3>2. i - 1 \in DOMAIN items /\ all[i] = items[i - 1]
      BY <1>10, <3>1
    <3>3. Ended(t)' = Ended(t)
      BY <1>8, <2>1, <2>3
    <3>4. /\ items[i - 1].round <= Ended(t) /\ items[i - 1].at <= openedAt[t]
          /\ \E k \in DOMAIN items : items[k].session = t /\ items[k].round = Ended(t)
      BY <1>1, <2>1, <3>2 DEF Latest
    <3>5. PICK k \in DOMAIN items : items[k].session = t /\ items[k].round = Ended(t)
      BY <3>4
    <3>6. k + 1 \in DOMAIN all /\ all[k + 1].session = t /\ all[k + 1].round = Ended(t)'
      BY <1>13, <3>3, <3>5
    <3>7. all[i].round <= Ended(t)' /\ all[i].at <= openedAt[t]
      BY <3>2, <3>3, <3>4
    <3> QED
      BY <3>6, <3>7
  <2> QED
    BY <2>2, <2>3
<1>19. Latest'
  <2> DEFINE E(t) == rounds'[t] - (IF open'[t] # 0 THEN 1 ELSE 0)
  <2>1. ASSUME NEW i \in 1 .. n, NEW t \in ChatSession, t = all[i].session
        PROVE  /\ all[i].round <= E(t) /\ all[i].at <= openedAt'[t]
               /\ \E k \in 1 .. n : all[k].session = t /\ all[k].round = E(t)
    <3>1. i \in DOMAIN all
      BY <1>7
    <3>2. all[i].round <= Ended(t)' /\ all[i].at <= openedAt[t] /\ E(t) = Ended(t)'
      BY <1>18, <2>1, <3>1 DEF Ended
    <3>3. PICK k \in DOMAIN all : all[k].session = t /\ all[k].round = Ended(t)'
      BY <1>18, <2>1, <3>1
    <3>4. all[k].round >= all[i].round
      BY <1>10, <3>1, <3>2, <3>3
    <3>5. k \in 1 .. n
      BY <1>15, <2>1, <3>3, <3>4
    <3> HIDE DEF E
    <3> QED
      BY <1>2, <3>2, <3>3, <3>5
  <2>2. ASSUME NEW i \in DOMAIN items'
        PROVE  /\ items'[i].round <= E(items'[i].session)
               /\ items'[i].at <= openedAt'[items'[i].session]
               /\ \E k \in DOMAIN items' : /\ items'[k].session = items'[i].session
                                           /\ items'[k].round = E(items'[i].session)
    <3>1. i \in 1 .. n /\ items'[i] = all[i] /\ all[i].session \in ChatSession
      BY <1>7, <1>10
    <3> HIDE DEF E
    <3> QED
      BY <1>7, <2>1, <3>1
  <2> QED
    BY <2>2 DEF Latest, Ended
<1>20. Unseen'
  <2>1. ASSUME NEW v \in before.seen
        PROVE  v \in ChatSession \X Nat /\ v[2] <= Ended(v[1]) /\ v[2] <= Ended(v[1])'
    <3>1. v \in ChatSession \X Nat /\ v[1] \in ChatSession /\ v[2] \in Nat /\ v[2] <= Ended(v[1])
      BY <1>1 DEF Unseen
    <3>2. Ended(v[1]) \in Nat /\ (v[1] = s => Ended(v[1]) = open[s] - 1)
          /\ Ended(v[1])' = IF v[1] = s THEN open[s] ELSE Ended(v[1])
      BY <1>1, <1>8, <3>1, EndedIsNat
    <3>3. open[s] \in Nat
      BY <1>1 DEF CaptureTypes
    <3> QED
      BY <3>1, <3>2, <3>3
  <2>2. ASSUME NEW i \in 1 .. n, Id(all[i]) \notin before.seen, NEW v \in before.seen,
               v[1] = all[i].session
        PROVE  v[2] < all[i].round
    <3>1. i \in DOMAIN all
      BY <1>7
    <3>2. CASE i = 1
      <4>1. v[1] = s /\ v[1] \in ChatSession /\ v[2] \in Nat /\ v[2] <= Ended(v[1]) /\ all[i].round = open[s]
        BY <1>3, <1>5, <2>1, <2>2, <3>2
      <4>2. Ended(v[1]) = open[s] - 1 /\ open[s] \in Nat
        BY <1>8, <4>1
      <4> QED
        BY <4>1, <4>2
    <3>3. CASE i # 1
      <4>1. i - 1 \in DOMAIN items /\ all[i] = items[i - 1]
        BY <1>10, <3>1, <3>3
      <4> QED
        BY <1>1, <2>2, <4>1 DEF Unseen
    <3> QED
      BY <3>2, <3>3
  <2> QED
    BY <1>2, <1>7, <2>1, <2>2 DEF Unseen
<1>21. SamplesInOrder'
  BY <1>1, <1>2 DEF SamplesInOrder, InOrder
<1> QED
  BY <1>9, <1>16, <1>17, <1>19, <1>20, <1>21 DEF CaptureInv

LEMMA ClearKeepsCaptures ==
    ASSUME CaptureInv, ClearCaptures PROVE CaptureInv'
<1>1. items' = <<>> /\ DOMAIN items' = {} /\ items' \in Seq(Exchanges)
      /\ UNCHANGED <<open, openedAt, rounds, second, before, saving, samples>>
  BY DEF ClearCaptures
<1>2. CaptureTypes'
  BY <1>1 DEF CaptureInv, CaptureTypes
<1>3. NewestFirst(items)' /\ Gapless(items)' /\ Latest'
  BY <1>1 DEF NewestFirst, Gapless, Latest
<1>4. Unseen' /\ SamplesInOrder'
  BY <1>1 DEF CaptureInv, Unseen, Ended, SamplesInOrder, InOrder
<1> QED
  BY <1>2, <1>3, <1>4 DEF CaptureInv

LEMMA SecondPassesKeeps ==
    ASSUME CaptureInv, SecondPasses PROVE CaptureInv'
<1>1. second' = second + 1
      /\ UNCHANGED <<items, open, openedAt, rounds, before, saving, samples>>
  BY DEF SecondPasses
<1>2. CaptureTypes'
  BY <1>1 DEF CaptureInv, CaptureTypes
<1>3. NewestFirst(items)' /\ Gapless(items)' /\ Latest'
  BY <1>1 DEF CaptureInv, NewestFirst, Gapless, Latest, Ended
<1>4. Unseen' /\ SamplesInOrder'
  BY <1>1 DEF CaptureInv, Unseen, Ended, SamplesInOrder, InOrder
<1> QED
  BY <1>2, <1>3, <1>4 DEF CaptureInv

(* A snapshot sees what the list holds.                                      *)
LEMMA CaptureBeginsKeeps ==
    ASSUME CaptureInv, NEW s, CaptureBegins(s) PROVE CaptureInv'
<1>1. before' = [session |-> s, seen |-> {Id(items[i]) : i \in DOMAIN items}]
      /\ UNCHANGED <<items, open, openedAt, rounds, second, saving, samples>>
  BY DEF CaptureBegins
<1>2. CaptureTypes' /\ Latest'
  BY <1>1, ListStays DEF CaptureInv
<1>3. NewestFirst(items)' /\ Gapless(items)' /\ SamplesInOrder'
  BY <1>1 DEF CaptureInv, NewestFirst, Gapless, SamplesInOrder, InOrder
<1>4. Unseen'
  <2>1. before'.seen = {Id(items[i]) : i \in DOMAIN items}
    BY <1>1
  <2>2. ASSUME NEW i \in DOMAIN items
        PROVE  /\ Id(items[i]) \in ChatSession \X Nat
               /\ Id(items[i])[2] <= Ended(Id(items[i])[1])
    <3>1. Id(items[i]) = <<items[i].session, items[i].round>>
      BY DEF Id
    <3>2. items[i].session \in ChatSession /\ items[i].round \in Nat
          /\ items[i].round <= Ended(items[i].session)
      BY ItemTypes DEF CaptureInv, Latest
    <3> QED
      BY <3>1, <3>2
  <2>3. \A v \in before'.seen : v \in ChatSession \X Nat /\ v[2] <= Ended(v[1])
    BY <2>1, <2>2
  <2>4. \A i \in DOMAIN items : Id(items[i]) \in before'.seen
    BY <2>1
  <2> QED
    BY <1>1, <2>3, <2>4 DEF Unseen, Ended
<1> QED
  BY <1>2, <1>3, <1>4 DEF CaptureInv

LEMMA CaptureEndsKeeps == ASSUME CaptureInv, CaptureEnds PROVE CaptureInv'
<1>1. before' = NoCapture /\ UNCHANGED <<items, open, openedAt, rounds, second>>
  BY DEF CaptureEnds, Persist
<1>2. SamplesInOrder'
  <2>1. CASE Persist(NewEntries)
    BY <2>1, NewEntriesInOrder, PersistKeeps DEF CaptureInv
  <2>2. CASE UNCHANGED saving
    BY <2>2 DEF CaptureInv, SamplesInOrder, InOrder
  <2> QED
    BY <2>1, <2>2 DEF CaptureEnds
<1>3. CaptureTypes' /\ Latest'
  BY <1>1, ListStays DEF CaptureInv
<1>4. NewestFirst(items)' /\ Gapless(items)'
  BY <1>1 DEF CaptureInv, NewestFirst, Gapless
<1>5. Unseen'
  BY <1>1 DEF Unseen, NoCapture
<1> QED
  BY <1>2, <1>3, <1>4, <1>5 DEF CaptureInv

LEMMA CaptureInvStep == CaptureInv /\ [CaptureNext]_captureVars => CaptureInv'
<1> SUFFICES ASSUME CaptureInv, [CaptureNext]_captureVars PROVE CaptureInv'
  OBVIOUS
<1>1. ASSUME NEW s \in ChatSession, RoundBegins(s) PROVE CaptureInv'
  BY <1>1, RoundBeginsKeeps
<1>2. ASSUME NEW s \in ChatSession, RoundEnds(s) PROVE CaptureInv'
  BY <1>2, RoundEndsKeeps
<1>3. ASSUME NEW s \in ChatSession, SaveFromCaptures(s) PROVE CaptureInv'
  <2>1. Persist(Chain(s)) /\ UNCHANGED before
    BY <1>3 DEF SaveFromCaptures
  <2>2. SamplesInOrder'
    BY <2>1, ChainInOrder, PersistKeeps DEF CaptureInv
  <2>3. UNCHANGED <<items, open, openedAt, rounds, second, before>>
    BY <2>1 DEF Persist
  <2> QED
    BY <2>2, <2>3, RestStays
<1>4. ASSUME NEW s \in ChatSession, CaptureBegins(s) PROVE CaptureInv'
  BY <1>4, CaptureBeginsKeeps
<1>5. ASSUME NEW p \in saving, Promote(p) \/ PersistFails(p) PROVE CaptureInv'
  <2>1. saving' = saving \ {p} /\ UNCHANGED <<items, open, openedAt, rounds, second, before>>
    BY <1>5 DEF Promote, PersistFails
  <2>2. SamplesInOrder'
    BY <2>1 DEF CaptureInv, SamplesInOrder, InOrder
  <2> QED
    BY <2>1, <2>2, RestStays
<1>6. CASE CaptureEnds
  BY <1>6, CaptureEndsKeeps
<1>7. CASE ClearCaptures
  BY <1>7, ClearKeepsCaptures
<1>8. CASE SecondPasses
  BY <1>8, SecondPassesKeeps
<1>9. CASE UNCHANGED captureVars
  <2>1. SamplesInOrder' /\ UNCHANGED <<items, open, openedAt, rounds, second, before>>
    BY <1>9 DEF captureVars, CaptureInv, SamplesInOrder, InOrder
  <2> QED
    BY <2>1, RestStays
<1> QED
  BY <1>1, <1>2, <1>3, <1>4, <1>5, <1>6, <1>7, <1>8, <1>9 DEF CaptureNext

(* A sample has the rounds of a session in the order they were made and      *)
(* without a gap, for every number of sessions and rounds, every limit of    *)
(* the list and every clock (handler_raw_samples.go:145-170, 324-391).       *)
THEOREM SamplesInOrderCorrect == CaptureSpec => []SamplesInOrder
<1>1. CaptureInv => SamplesInOrder
  BY DEF CaptureInv
<1> QED
  BY <1>1, CaptureInvInit, CaptureInvStep, PTL DEF CaptureSpec

----------------------------------------------------------------------------
(* The files of a request, for every number of inline files, accounts,      *)
(* attempts and polls.                                                      *)
FilesSpec == FilesInit /\ [][FilesNext]_fileVars

FileNames == Generated \cup InlineFiles

UploadLists == Seq([name : FileNames, owner : Nat, ready : BOOLEAN])

Orders == [inline : Seq(InlineFiles), own : BOOLEAN, long : BOOLEAN, tools : BOOLEAN,
           whole : BOOLEAN]

NameAt(j) == IF j = 1 THEN "history" ELSE "tools"

(* How many generated files the request needs.                              *)
Need == IF order.long THEN (IF order.tools THEN 2 ELSE 1) ELSE 0

(* The ids of generated files, and those a completion may refer to.         *)
Made(given) == {i \in DOMAIN given : given[i].name \in Generated}
Ready(given) == {OwnFile} \cup {i \in DOMAIN given : given[i].ready}

(* A list that begins with the files of a round, which have their names.    *)
Generation(s, given) ==
    /\ s \in Seq(Nat) /\ Len(s) <= Need
    /\ \A j \in DOMAIN s :
          s[j] \in DOMAIN given /\ given[s[j]].ready /\ given[s[j]].name = NameAt(j)

(* What a completion refers to: each file once, ready, generated ones first. *)
Headed(refs, n, given) ==
    /\ refs \in Seq(Nat) /\ n <= Len(refs) /\ IsInjective(refs)
    /\ Range(refs) \subseteq Ready(given)
    /\ \A j \in DOMAIN refs : j > n => refs[j] \notin Made(given)

(* The files of the round are settled.                                      *)
Settled ==
    at = "send" \/ (at \in {"session", "pow"} /\ (round = "first" \/ order.whole))

FileTypes ==
    /\ order \in Orders
    /\ on \in Nat
    /\ at \in {"inline", "files", "session", "pow", "send", "reply", "over"}
    /\ uploads \in UploadLists
    /\ inline \in Seq(Nat)
    /\ Range(inline) \subseteq Ready(uploads) \ (Made(uploads) \cup {OwnFile})
    /\ wandered \in BOOLEAN

UnderWay ==
    /\ upload \in [name : FileNames \cup {"none"}, pow : BOOLEAN, refreshed : BOOLEAN,
                   attempts : Nat, polls : Nat, id : Nat]
    /\ upload.name \in InlineFiles => at = "inline"
    /\ upload.name \in Generated =>
          at = "files" /\ Len(fresh) < Need /\ upload.name = NameAt(Len(fresh) + 1)
    /\ upload.pow => upload.name # "none"
    /\ upload.id # 0 =>
          /\ upload.name # "none" /\ upload.id \in DOMAIN uploads
          /\ uploads[upload.id].name = upload.name /\ uploads[upload.id].owner = on

Referred ==
    /\ Generation(fresh, uploads) /\ Generation(ids, uploads)
    /\ Headed(refIDs, Len(ids), uploads)
    /\ \A j \in DOMAIN ids : refIDs[j] = ids[j]
    /\ at = "inline" => fresh = <<>> /\ ids = <<>> /\ refIDs = <<>>
    /\ Settled => ids = fresh /\ Len(ids) = Need

(* The files of a round are of the account, and newer than the completions. *)
Owned ==
    /\ ~wandered => \A j \in DOMAIN fresh : uploads[fresh[j]].owner = on
    /\ \A k \in DOMAIN asked : asked[k].on <= on
    /\ at \notin {"reply", "over"} =>
          \A k \in DOMAIN asked : asked[k].on # 0 =>
             on > asked[k].on /\ \A j \in DOMAIN fresh : uploads[fresh[j]].owner > asked[k].on

(* A completion that was sent.                                              *)
Follows(i, completions, given) ==
    LET c == completions[i]
    IN /\ Headed(c.refs, Need, given)
       /\ \A j \in 1 .. Need :
             /\ c.refs[j] \in DOMAIN given /\ given[c.refs[j]].name = NameAt(j)
             /\ c.sure => given[c.refs[j]].owner = c.on
             /\ \A k \in 1 .. i - 1 :
                   completions[k].on # 0 => given[c.refs[j]].owner > completions[k].on

Completions == Seq([on : Nat, round : {"first", "alternate"}, refs : Seq(Nat), sure : BOOLEAN])

Sent ==
    /\ asked \in Completions
    /\ \A i \in DOMAIN asked : Follows(i, asked, uploads)

FilesInv ==
    /\ FileTypes /\ round \in {"first", "alternate"}
    /\ UnderWay /\ Referred /\ Owned /\ Sent

----------------------------------------------------------------------------
(* What DeepSeek was given grows: no file loses its name, its owner, or that *)
(* it is ready.                                                             *)
Grown(given, later) ==
    \A i \in DOMAIN given :
        /\ i \in DOMAIN later
        /\ later[i].name = given[i].name /\ later[i].owner = given[i].owner
        /\ given[i].ready => later[i].ready

LEMMA PositionsFromOne ==
    ASSUME NEW S, NEW s \in Seq(S)
    PROVE  /\ DOMAIN s = 1 .. Len(s) /\ Len(s) \in Nat /\ OwnFile \notin DOMAIN s
           /\ \A i \in DOMAIN s : i \in Nat /\ s[i] \in S
<1>1. DOMAIN s = 1 .. Len(s) /\ Len(s) \in Nat
  BY LenProperties
<1>2. \A i \in DOMAIN s : s[i] \in S
  BY <1>1, ElementOfSeq
<1> QED
  BY <1>1, <1>2 DEF OwnFile

LEMMA HeadedLasts ==
    ASSUME NEW given \in UploadLists, NEW later \in UploadLists, Grown(given, later),
           NEW refs, NEW n \in Nat, Headed(refs, n, given)
    PROVE  Headed(refs, n, later)
<1>1. OwnFile \notin DOMAIN later /\ OwnFile \notin DOMAIN given
  BY PositionsFromOne DEF UploadLists
<1>2. Ready(given) \subseteq Ready(later)
  BY DEF Ready, Grown
<1>3. \A j \in DOMAIN refs : refs[j] \in Ready(given)
  BY DEF Headed, Range
<1>4. \A i \in Ready(given) : i \in Made(later) => i \in Made(given)
  BY <1>1 DEF Ready, Made, Grown
<1> QED
  BY <1>2, <1>3, <1>4 DEF Headed

LEMMA GenerationLasts ==
    ASSUME NEW given, NEW later, Grown(given, later), NEW s, Generation(s, given)
    PROVE  Generation(s, later)
BY DEF Generation, Grown

LEMMA NeedIsSmall == Need \in {0, 1, 2}
BY DEF Need

LEMMA FollowsLasts ==
    ASSUME NEW given \in UploadLists, NEW later \in UploadLists, Grown(given, later),
           NEW completions, NEW i, Follows(i, completions, given)
    PROVE  Follows(i, completions, later)
<1>1. Headed(completions[i].refs, Need, later)
  BY NeedIsSmall, HeadedLasts DEF Follows
<1> QED
  BY <1>1 DEF Follows, Grown

LEMMA AddedGrows ==
    ASSUME NEW given \in UploadLists,
           NEW added \in [name : FileNames, owner : Nat, ready : BOOLEAN]
    PROVE  /\ Append(given, added) \in UploadLists /\ Grown(given, Append(given, added))
           /\ Len(given) + 1 \in DOMAIN Append(given, added)
           /\ Append(given, added)[Len(given) + 1] = added
<1>1. /\ Append(given, added) \in UploadLists /\ Len(Append(given, added)) = Len(given) + 1
      /\ Append(given, added)[Len(given) + 1] = added
      /\ \A i \in 1 .. Len(given) : Append(given, added)[i] = given[i]
  BY AppendProperties DEF UploadLists
<1>2. DOMAIN given = 1 .. Len(given) /\ Len(given) \in Nat
      /\ DOMAIN Append(given, added) = 1 .. Len(given) + 1
  BY <1>1, LenProperties DEF UploadLists
<1> QED
  BY <1>1, <1>2 DEF Grown

LEMMA ReadiedGrows ==
    ASSUME NEW given \in UploadLists, NEW i \in DOMAIN given
    PROVE  LET later == [given EXCEPT ![i].ready = TRUE]
           IN later \in UploadLists /\ Grown(given, later) /\ later[i].ready
<1> DEFINE File == [name : FileNames, owner : Nat, ready : BOOLEAN]
           later == [given EXCEPT ![i].ready = TRUE]
<1>1. DOMAIN given = 1 .. Len(given) /\ Len(given) \in Nat /\ \A j \in DOMAIN given : given[j] \in File
  BY PositionsFromOne DEF UploadLists
<1>2. /\ DOMAIN later = DOMAIN given /\ later[i] = [given[i] EXCEPT !.ready = TRUE]
      /\ \A j \in DOMAIN given : j # i => later[j] = given[j]
  BY <1>1
<1>3. later[i] \in File /\ later[i].name = given[i].name /\ later[i].owner = given[i].owner /\ later[i].ready
  BY <1>1, <1>2
<1>4. later = [j \in 1 .. Len(given) |-> later[j]]
  BY <1>1, <1>2
<1>5. \A j \in 1 .. Len(given) : later[j] \in File
  BY <1>1, <1>2, <1>3
<1>6. later \in Seq(File)
  <2> HIDE DEF later, File
  <2> QED
    BY <1>1, <1>4, <1>5, IsASeq
<1> QED
  BY <1>1, <1>2, <1>3, <1>6 DEF UploadLists, Grown

----------------------------------------------------------------------------
(* The lists of ids.                                                        *)
LEMMA UniqueKeeps ==
    ASSUME NEW s \in Seq(Nat), IsInjective(s) PROVE Unique(s) = s
<1>1. DOMAIN s = 1 .. Len(s) /\ Len(s) \in Nat
  BY LenProperties
<1>2. {i \in DOMAIN s : \A j \in 1 .. i - 1 : s[j] # s[i]} = DOMAIN s
  BY <1>1 DEF IsInjective
<1> QED
  BY <1>2, PickedAll DEF Unique

LEMMA PickedOnce ==
    ASSUME NEW s \in Seq(Nat), NEW P, P \subseteq DOMAIN s, \A i, j \in P : i # j => s[i] # s[j]
    PROVE  /\ Picked(s, P) \in Seq(Nat)
           /\ \A m, n \in DOMAIN Picked(s, P) : m # n => Picked(s, P)[m] # Picked(s, P)[n]
           /\ \A n \in DOMAIN Picked(s, P) : \E i \in P : Picked(s, P)[n] = s[i]
<1>1. Picked(s, P) \in Seq(Nat)
  BY PickedInOrder
<1>2. \A m, n \in DOMAIN Picked(s, P) : m # n => Picked(s, P)[m] # Picked(s, P)[n]
  BY PickedInjective
<1>3. \A n \in DOMAIN Picked(s, P) : \E i \in P : Picked(s, P)[n] = s[i]
  BY PickedRange
<1> QED
  BY <1>1, <1>2, <1>3

LEMMA UniqueOnce ==
    ASSUME NEW s \in Seq(Nat)
    PROVE  Unique(s) \in Seq(Nat) /\ IsInjective(Unique(s)) /\ Range(Unique(s)) \subseteq Range(s)
<1> DEFINE P == {i \in DOMAIN s : \A j \in 1 .. i - 1 : s[j] # s[i]}
<1>1. DOMAIN s = 1 .. Len(s) /\ Len(s) \in Nat
  BY LenProperties
<1>2. \A i, j \in P : i # j => s[i] # s[j]
  <2> SUFFICES ASSUME NEW i \in P, NEW j \in P, i < j PROVE s[i] # s[j]
    BY <1>1
  <2> QED
    BY <1>1
<1>3. P \subseteq DOMAIN s
  OBVIOUS
<1> HIDE DEF P
<1>4. /\ Picked(s, P) \in Seq(Nat)
      /\ \A m, n \in DOMAIN Picked(s, P) : m # n => Picked(s, P)[m] # Picked(s, P)[n]
      /\ \A n \in DOMAIN Picked(s, P) : \E i \in P : Picked(s, P)[n] = s[i]
  BY <1>2, <1>3, PickedOnce
<1>5. Unique(s) = Picked(s, P)
  BY DEF Unique, P
<1> QED
  BY <1>3, <1>4, <1>5 DEF IsInjective, Range

(* The files of a round are two at most, with different names.              *)
LEMMA GenerationOnce ==
    ASSUME NEW given \in UploadLists, NEW s, Generation(s, given)
    PROVE  /\ IsInjective(s) /\ \A j \in DOMAIN s : s[j] \in Made(given) /\ s[j] \in Ready(given)
           /\ DOMAIN s = 1 .. Len(s) /\ Len(s) \in {0, 1, 2} /\ Len(s) <= Need
<1>1. DOMAIN s = 1 .. Len(s) /\ Len(s) \in Nat /\ Len(s) <= Need /\ Len(s) \in {0, 1, 2}
  <2>1. s \in Seq(Nat) /\ Len(s) <= Need
    BY DEF Generation
  <2>2. DOMAIN s = 1 .. Len(s) /\ Len(s) \in Nat
    BY <2>1, LenProperties
  <2> QED
    BY <2>1, <2>2, NeedIsSmall
<1>2. \A j \in DOMAIN s : s[j] \in Made(given) /\ s[j] \in Ready(given)
  BY DEF Generation, Made, Ready, NameAt, Generated
<1>3. ASSUME NEW i \in DOMAIN s, NEW j \in DOMAIN s, i # j PROVE s[i] # s[j]
  <2>1. NameAt(i) # NameAt(j)
    BY <1>1, <1>3 DEF NameAt
  <2> QED
    BY <2>1 DEF Generation
<1> QED
  BY <1>1, <1>2, <1>3 DEF IsInjective

LEMMA ReplaceHeads ==
    ASSUME NEW given \in UploadLists, NEW refs, NEW old, NEW new,
           Headed(refs, Len(old), given), Generation(old, given), Generation(new, given),
           \A j \in DOMAIN old : refs[j] = old[j]
    PROVE  /\ Headed(ReplaceGenerated(refs, old, new), Len(new), given)
           /\ \A j \in DOMAIN new : ReplaceGenerated(refs, old, new)[j] = new[j]
<1> DEFINE P == {i \in DOMAIN refs : refs[i] \notin ToSet(old)}
           rest == Dropping(refs, ToSet(old))
           all == new \o rest
<1>1. refs \in Seq(Nat) /\ DOMAIN refs = 1 .. Len(refs) /\ Len(refs) \in Nat
  BY LenProperties DEF Headed
<1>2. /\ \A j \in DOMAIN new : new[j] \in Made(given) /\ new[j] \in Ready(given)
      /\ IsInjective(new) /\ new \in Seq(Nat) /\ DOMAIN new = 1 .. Len(new) /\ Len(new) \in Nat
      /\ DOMAIN old = 1 .. Len(old) /\ Len(old) \in Nat
  BY GenerationOnce DEF Generation
<1>3. \A i \in P : refs[i] \notin Made(given) /\ refs[i] \in Ready(given)
  <2> TAKE i \in P
  <2>1. i \notin DOMAIN old
    BY DEF ToSet
  <2>2. i > Len(old)
    BY <1>1, <1>2, <2>1
  <2> QED
    BY <2>2 DEF Headed, Range
<1>4. \A i, j \in P : i # j => refs[i] # refs[j]
  BY DEF Headed, IsInjective
<1>5. P \subseteq DOMAIN refs /\ rest = Picked(refs, P)
  BY DEF Dropping
<1> HIDE DEF P, rest
<1>6. /\ rest \in Seq(Nat)
      /\ \A m, n \in DOMAIN rest : m # n => rest[m] # rest[n]
      /\ \A n \in DOMAIN rest : \E i \in P : rest[n] = refs[i]
  BY <1>1, <1>4, <1>5, PickedOnce
<1>7. \A n \in DOMAIN rest : rest[n] \notin Made(given) /\ rest[n] \in Ready(given)
  BY <1>3, <1>6
<1>8. DOMAIN rest = 1 .. Len(rest) /\ Len(rest) \in Nat
  BY <1>6, LenProperties
<1>9. /\ all \in Seq(Nat) /\ Len(all) = Len(new) + Len(rest)
      /\ \A i \in 1 .. Len(new) + Len(rest) :
            all[i] = IF i <= Len(new) THEN new[i] ELSE rest[i - Len(new)]
  BY <1>2, <1>6, ConcatProperties
<1>10. DOMAIN all = 1 .. Len(new) + Len(rest)
  BY <1>9, LenProperties
<1> HIDE DEF all
<1>11. ASSUME NEW i \in DOMAIN all
       PROVE  \/ i \in DOMAIN new /\ all[i] = new[i]
              \/ i > Len(new) /\ i - Len(new) \in DOMAIN rest /\ all[i] = rest[i - Len(new)]
  BY <1>2, <1>8, <1>9, <1>10
<1>12. IsInjective(all)
  <2> SUFFICES ASSUME NEW i \in DOMAIN all, NEW j \in DOMAIN all, all[i] = all[j] PROVE i = j
    BY DEF IsInjective
  <2>1. CASE i \in DOMAIN new /\ all[i] = new[i]
    <3>1. j \in DOMAIN new /\ all[j] = new[j]
      BY <1>2, <1>7, <1>11, <2>1
    <3> QED
      BY <1>2, <2>1, <3>1 DEF IsInjective
  <2>2. CASE i > Len(new) /\ i - Len(new) \in DOMAIN rest /\ all[i] = rest[i - Len(new)]
    <3>1. j > Len(new) /\ j - Len(new) \in DOMAIN rest /\ all[j] = rest[j - Len(new)]
      BY <1>2, <1>7, <1>11, <2>2
    <3>2. i - Len(new) = j - Len(new)
      BY <1>6, <2>2, <3>1
    <3> QED
      BY <1>2, <1>8, <1>10, <3>2
  <2> QED
    BY <1>11, <2>1, <2>2
<1>13. ReplaceGenerated(refs, old, new) = all
  BY <1>9, <1>12, UniqueKeeps DEF ReplaceGenerated, all, rest
<1>14. Range(all) \subseteq Ready(given)
  BY <1>2, <1>7, <1>11 DEF Range
<1>15. \A j \in DOMAIN all : j > Len(new) => all[j] \notin Made(given)
  BY <1>2, <1>7, <1>11
<1>16. \A j \in DOMAIN new : all[j] = new[j]
  BY <1>2, <1>8, <1>9
<1>17. Len(new) <= Len(all)
  BY <1>2, <1>8, <1>9
<1> QED
  BY <1>9, <1>12, <1>13, <1>14, <1>15, <1>16, <1>17 DEF Headed

----------------------------------------------------------------------------
LEMMA FilesInvInit == FilesInit => FilesInv
<1> SUFFICES ASSUME FilesInit PROVE FilesInv
  OBVIOUS
<1> USE DEF FilesInit
<1>1. order \in Orders
  <2>1. \A n \in 0 .. InlineLimit + 1 : [1 .. n -> InlineFiles] \subseteq Seq(InlineFiles)
    BY FileBounds
  <2>2. order.inline \in Seq(InlineFiles)
    BY <2>1
  <2> QED
    BY <2>2 DEF Orders
<1>2. FileTypes
  <2>1. uploads \in UploadLists /\ inline \in Seq(Nat) /\ Range(inline) = {}
    BY DEF UploadLists, Range
  <2>2. on \in Nat
    OBVIOUS
  <2>3. wandered \in BOOLEAN
    BY Zenon
  <2>4. at = "inline"
    OBVIOUS
  <2> QED
    BY <1>1, <2>1, <2>2, <2>3, <2>4 DEF FileTypes
<1>3. UnderWay
  BY FileBounds DEF UnderWay, NoUpload, Generated
<1>4. Referred
  <2>1. ~Settled
    BY DEF Settled
  <2>2. \A given : Generation(<<>>, given) /\ Headed(<<>>, Len(<<>>), given)
    BY NeedIsSmall DEF Generation, Headed, IsInjective, Range
  <2> QED
    BY <2>1, <2>2 DEF Referred
<1>5. Owned /\ Sent
  BY DEF Owned, Sent, Completions
<1> QED
  BY <1>2, <1>3, <1>4, <1>5 DEF FilesInv

LEMMA NeedStays == order' = order => Need' = Need
BY DEF Need

LEMMA SentStays ==
    ASSUME Sent, UNCHANGED <<order, uploads, asked>> PROVE Sent'
BY NeedStays DEF Sent, Follows, Headed, Ready, Made

LEMMA ReferredStays ==
    ASSUME Referred, UNCHANGED <<order, refIDs, ids, fresh, uploads>>,
           at' = "inline" => at = "inline", Settled' => Settled
    PROVE  Referred'
BY NeedStays DEF Referred, Generation, Headed, Ready, Made

LEMMA TypesStay ==
    ASSUME FileTypes, UNCHANGED <<order, uploads, inline, wandered>>, on' \in Nat,
           at' \in {"inline", "files", "session", "pow", "send", "reply", "over"}
    PROVE  FileTypes'
BY DEF FileTypes, Ready, Made

LEMMA AskedTypes ==
    ASSUME Sent
    PROVE  \A k \in DOMAIN asked :
              /\ asked[k].on \in Nat /\ asked[k].refs \in Seq(Nat)
              /\ k \in Nat /\ k >= 1 /\ k <= Len(asked)
<1>1. asked \in Completions
  BY DEF Sent
<1> DEFINE C == [on : Nat, round : {"first", "alternate"}, refs : Seq(Nat), sure : BOOLEAN]
<1>2. asked \in Seq(C)
  BY <1>1 DEF Completions
<1>3. DOMAIN asked = 1 .. Len(asked) /\ Len(asked) \in Nat /\ \A k \in DOMAIN asked : asked[k] \in C
  <2> HIDE DEF C
  <2> QED
    BY <1>2, PositionsFromOne
<1> QED
  BY <1>3

(* A call may leave the request on a later account. *)
LEMMA CallKeeps ==
    ASSUME FilesInv, at \notin {"reply", "over"}, on' \in Nat, on' >= on,
           wandered' = (wandered \/ (on' # on /\ fresh # <<>>)),
           UNCHANGED <<order, inline, fresh, uploads, asked>>,
           at' \in {"inline", "files", "session", "pow", "send", "reply", "over"}
    PROVE  FileTypes' /\ Owned' /\ Sent'
<1>1. Sent'
  BY SentStays DEF FilesInv
<1>2. FileTypes'
  <2>1. wandered' \in BOOLEAN
    BY Zenon
  <2> QED
    BY <2>1 DEF FilesInv, FileTypes, Ready, Made
<1>3. ~wandered' => \A j \in DOMAIN fresh : uploads[fresh[j]].owner = on'
  <2>1. ~wandered => \A j \in DOMAIN fresh : uploads[fresh[j]].owner = on
    BY DEF FilesInv, Owned
  <2>2. CASE fresh = <<>>
    BY <2>2
  <2>3. CASE fresh # <<>>
    BY <2>1, <2>3
  <2> QED
    BY <2>2, <2>3
<1>4. \A k \in DOMAIN asked : asked[k].on \in Nat
  BY AskedTypes DEF FilesInv
<1>5. on \in Nat
  BY DEF FilesInv, FileTypes
<1>6. \A k \in DOMAIN asked : asked[k].on <= on'
  BY <1>4, <1>5 DEF FilesInv, Owned
<1>7. \A k \in DOMAIN asked : asked[k].on # 0 =>
         on' > asked[k].on /\ \A j \in DOMAIN fresh : uploads[fresh[j]].owner > asked[k].on
  BY <1>4, <1>5 DEF FilesInv, Owned
<1> QED
  BY <1>1, <1>2, <1>3, <1>6, <1>7 DEF Owned

(* The call and what follows it.                                            *)
LEMMA CallEnds ==
    ASSUME on \in Nat, NEW a \in 0 .. LastAccount, CallEndsOn(a)
    PROVE  on' \in Nat /\ on' >= on /\ wandered' = (wandered \/ (on' # on /\ fresh # <<>>))
<1>1. on' \in Nat /\ on' >= on
  BY FileBounds DEF CallEndsOn
<1> QED
  BY <1>1 DEF CallEndsOn

LEMMA UploadPowKeeps == ASSUME FilesInv, UploadPow PROVE FilesInv'
<1> USE DEF UploadPow
<1>1. PICK a \in 0 .. LastAccount : CallEndsOn(a)
  OBVIOUS
<1>2. on' \in Nat /\ on' >= on /\ wandered' = (wandered \/ (on' # on /\ fresh # <<>>))
  BY <1>1, CallEnds DEF FilesInv, FileTypes
<1>3. at \in {"inline", "files"} /\ at' \in {at, "over"}
  BY DEF FilesInv, UnderWay, Fail, FileNames
<1>4. FileTypes' /\ Owned' /\ Sent'
  BY <1>2, <1>3, CallKeeps
<1>5. Referred'
  BY <1>3, ReferredStays DEF FilesInv, Settled
<1>6. UnderWay'
  <2>1. CASE Fail
    BY <2>1, FileBounds DEF UnderWay, Fail, NoUpload, Generated
  <2>2. CASE upload' = [upload EXCEPT !.pow = TRUE] /\ at' = at
    <3>1. upload' \in [name : FileNames \cup {"none"}, pow : BOOLEAN, refreshed : BOOLEAN,
                       attempts : Nat, polls : Nat, id : Nat]
          /\ upload'.name = upload.name /\ upload'.id = 0
      BY <2>2 DEF FilesInv, UnderWay
    <3> QED
      BY <1>3, <2>2, <3>1, NeedStays DEF FilesInv, UnderWay, NameAt, Generated
  <2> QED
    BY <2>1, <2>2
<1> QED
  BY <1>4, <1>5, <1>6 DEF FilesInv

LEMMA UploadRefusedKeeps == ASSUME FilesInv, UploadRefused PROVE FilesInv'
<1> USE DEF UploadRefused
<1>1. on' \in Nat /\ on' >= on
  BY FileBounds DEF FilesInv, FileTypes
<1>2. wandered' = (wandered \/ (on' # on /\ fresh # <<>>))
  OBVIOUS
<1>3. at \in {"inline", "files"} /\ at' = at
  BY DEF FilesInv, UnderWay, FileNames
<1>4. FileTypes' /\ Owned' /\ Sent'
  BY <1>1, <1>2, <1>3, CallKeeps
<1>5. Referred'
  BY <1>3, ReferredStays DEF FilesInv, Settled
<1>6. UnderWay'
  <2>1. upload.attempts + 1 \in Nat
    BY DEF FilesInv, UnderWay
  <2>2. upload' \in [name : FileNames \cup {"none"}, pow : BOOLEAN, refreshed : BOOLEAN,
                     attempts : Nat, polls : Nat, id : Nat]
        /\ upload'.name = upload.name /\ upload'.id = 0 /\ ~upload'.pow
    BY <2>1 DEF FilesInv, UnderWay, TryAgain
  <2> QED
    BY <1>3, <2>2, NeedStays DEF FilesInv, UnderWay, NameAt, Generated
<1> QED
  BY <1>4, <1>5, <1>6 DEF FilesInv

(* An upload is given up.                                                   *)
LEMMA FailKeeps ==
    ASSUME FilesInv, Fail,
           UNCHANGED <<order, on, round, inline, refIDs, ids, fresh, uploads, wandered, asked>>
    PROVE  FilesInv'
<1> USE DEF Fail
<1>1. FileTypes'
  BY TypesStay DEF FilesInv, FileTypes
<1>2. Referred' /\ Sent'
  BY ReferredStays, SentStays DEF FilesInv, Settled
<1>3. Owned' /\ UnderWay'
  BY FileBounds DEF FilesInv, Owned, UnderWay, NoUpload, Generated
<1> QED
  BY <1>1, <1>2, <1>3 DEF FilesInv

LEMMA PollKeeps == ASSUME FilesInv, Poll PROVE FilesInv'
<1> USE DEF Poll
<1>1. CASE upload.polls + 1 < MaxPolls
  <2>1. FileTypes' /\ Referred' /\ Sent'
    BY <1>1, TypesStay, ReferredStays, SentStays DEF FilesInv, Settled, FileTypes
  <2>2. upload' \in [name : FileNames \cup {"none"}, pow : BOOLEAN, refreshed : BOOLEAN,
                     attempts : Nat, polls : Nat, id : Nat]
        /\ upload'.name = upload.name /\ upload'.id = upload.id /\ upload'.pow = upload.pow
    BY <1>1 DEF FilesInv, UnderWay
  <2>3. UnderWay'
    BY <1>1, <2>2, NeedStays DEF FilesInv, UnderWay, NameAt
  <2>4. Owned'
    BY <1>1 DEF FilesInv, Owned
  <2> QED
    BY <2>1, <2>3, <2>4 DEF FilesInv
<1>2. CASE ~(upload.polls + 1 < MaxPolls)
  BY <1>2, FailKeeps
<1> QED
  BY <1>1, <1>2

(* DeepSeek is given a file, or one gets ready.                              *)
LEMMA SentLasts ==
    ASSUME FilesInv, uploads' \in UploadLists, Grown(uploads, uploads'), UNCHANGED <<order, asked>>
    PROVE  Sent'
<1>1. \A i \in DOMAIN asked : Follows(i, asked, uploads')
  BY FollowsLasts DEF FilesInv, FileTypes, Sent
<1>2. \A i \in DOMAIN asked : Follows(i, asked, uploads)'
  BY <1>1, NeedStays DEF Follows, Headed, Ready, Made
<1> QED
  BY <1>2 DEF FilesInv, Sent

LEMMA UploadedKeeps ==
    ASSUME FilesInv, uploads' \in UploadLists, Grown(uploads, uploads'),
           NEW id \in DOMAIN uploads', uploads'[id].name = upload.name, uploads'[id].ready,
           uploads'[id].owner = on, upload.name # "none", Uploaded(id),
           UNCHANGED <<order, on, at, round, refIDs, ids, wandered, asked>>
    PROVE  FilesInv'
<1> DEFINE later == uploads'
<1>1. later \in UploadLists /\ Grown(uploads, later) /\ uploads \in UploadLists
  BY DEF FilesInv, FileTypes
<1>2. id \in Nat /\ id # OwnFile
  BY <1>1, PositionsFromOne DEF UploadLists
<1>3. Sent'
  BY SentLasts
<1>4. UnderWay'
  BY FileBounds DEF Uploaded, UnderWay, NoUpload, Generated
<1>5. /\ Generation(fresh, later) /\ Generation(ids, later) /\ Headed(refIDs, Len(ids), later)
  <2>1. Len(ids) \in Nat
    BY LenProperties DEF FilesInv, Referred, Generation
  <2> QED
    BY <1>1, <2>1, GenerationLasts, HeadedLasts DEF FilesInv, Referred
<1>6. Range(inline) \subseteq Ready(later) \ (Made(later) \cup {OwnFile}) /\ inline \in Seq(Nat)
  <2>1. \A i \in Range(inline) : i \in DOMAIN uploads /\ uploads[i].ready /\ i \notin Made(uploads)
                                 /\ i # OwnFile
    BY DEF FilesInv, FileTypes, Ready
  <2> QED
    BY <1>1, <2>1 DEF Grown, Ready, Made, FilesInv, FileTypes
<1>7. CASE upload.name \in Generated
  <2>1. fresh' = Append(fresh, id) /\ inline' = inline
    BY <1>7 DEF Uploaded
  <2>2. at = "files" /\ Len(fresh) < Need /\ upload.name = NameAt(Len(fresh) + 1)
    BY <1>7 DEF FilesInv, UnderWay
  <2>3. fresh \in Seq(Nat) /\ Len(fresh) \in Nat /\ DOMAIN fresh = 1 .. Len(fresh)
    BY <1>5, LenProperties DEF Generation
  <2>4. /\ fresh' \in Seq(Nat) /\ Len(fresh') = Len(fresh) + 1
        /\ fresh'[Len(fresh) + 1] = id /\ \A j \in DOMAIN fresh : fresh'[j] = fresh[j]
        /\ DOMAIN fresh' = 1 .. Len(fresh) + 1
    <3>1. /\ Append(fresh, id) \in Seq(Nat) /\ Len(Append(fresh, id)) = Len(fresh) + 1
          /\ \A j \in 1 .. Len(fresh) : Append(fresh, id)[j] = fresh[j]
          /\ Append(fresh, id)[Len(fresh) + 1] = id
      BY <1>2, <2>3, AppendProperties
    <3>2. DOMAIN Append(fresh, id) = 1 .. Len(fresh) + 1
      BY <3>1, LenProperties
    <3> QED
      BY <2>1, <2>3, <3>1, <3>2
  <2>5. ASSUME NEW j \in DOMAIN fresh' PROVE j \in DOMAIN fresh \/ j = Len(fresh) + 1
    BY <2>3, <2>4
  <2>6. Generation(fresh', later)
    <3>1. Len(fresh') <= Need
      BY <2>2, <2>3, <2>4, NeedIsSmall
    <3>2. ASSUME NEW j \in DOMAIN fresh'
          PROVE  fresh'[j] \in DOMAIN later /\ later[fresh'[j]].ready /\ later[fresh'[j]].name = NameAt(j)
      <4>1. CASE j \in DOMAIN fresh
        BY <1>5, <2>4, <4>1 DEF Generation
      <4>2. CASE j = Len(fresh) + 1
        BY <2>2, <2>4, <4>2
      <4> QED
        BY <2>5, <4>1, <4>2
    <3> QED
      BY <2>4, <3>1, <3>2 DEF Generation
  <2>7. Referred'
    <3>1. Generation(fresh, uploads)' /\ Generation(ids, uploads)' /\ Headed(refIDs, Len(ids), uploads)'
      BY <1>5, <2>6, NeedStays DEF Generation, Headed, Ready, Made
    <3>2. ~Settled'
      BY <2>2 DEF Settled
    <3> QED
      BY <2>2, <3>1, <3>2 DEF FilesInv, Referred
  <2>8. FileTypes'
    BY <1>1, <1>6, <2>1 DEF FilesInv, FileTypes, Ready, Made
  <2>9. Owned'
    <3>1. \A j \in DOMAIN fresh : fresh[j] \in DOMAIN uploads /\ later[fresh[j]].owner = uploads[fresh[j]].owner
      BY <1>1 DEF FilesInv, Referred, Generation, Grown
    <3>2. ASSUME NEW j \in DOMAIN fresh'
          PROVE  \/ j \in DOMAIN fresh /\ later[fresh'[j]].owner = uploads[fresh[j]].owner
                 \/ later[fresh'[j]].owner = on
      BY <2>4, <2>5, <3>1
    <3>3. ~wandered => \A j \in DOMAIN fresh' : later[fresh'[j]].owner = on
      BY <3>2 DEF FilesInv, Owned
    <3>4. at \notin {"reply", "over"}
      BY <2>2
    <3>5. \A k \in DOMAIN asked : asked[k].on # 0 =>
             on > asked[k].on /\ \A j \in DOMAIN fresh' : later[fresh'[j]].owner > asked[k].on
      BY <3>2, <3>4 DEF FilesInv, Owned
    <3>6. \A k \in DOMAIN asked : asked[k].on <= on
      BY DEF FilesInv, Owned
    <3> QED
      BY <3>3, <3>5, <3>6 DEF Owned
  <2> QED
    BY <1>3, <1>4, <2>7, <2>8, <2>9 DEF FilesInv
<1>8. CASE upload.name \notin Generated
  <2>1. fresh' = fresh /\ inline' = Append(inline, id)
    BY <1>8 DEF Uploaded
  <2>2. upload.name \in InlineFiles /\ at = "inline"
    BY <1>8 DEF FilesInv, UnderWay, FileNames
  <2>3. /\ inline' \in Seq(Nat)
        /\ \A j \in DOMAIN inline' : inline'[j] = id \/ inline'[j] \in Range(inline)
    <3>1. DOMAIN inline = 1 .. Len(inline) /\ Len(inline) \in Nat
      BY <1>6, LenProperties
    <3>2. /\ Append(inline, id) \in Seq(Nat) /\ Len(Append(inline, id)) = Len(inline) + 1
          /\ \A j \in 1 .. Len(inline) : Append(inline, id)[j] = inline[j]
          /\ Append(inline, id)[Len(inline) + 1] = id
      BY <1>2, <1>6, AppendProperties
    <3>3. DOMAIN Append(inline, id) = 1 .. Len(inline) + 1
      BY <3>2, LenProperties
    <3> QED
      BY <2>1, <3>1, <3>2, <3>3 DEF Range
  <2>4. Range(inline') \subseteq Ready(later) \ (Made(later) \cup {OwnFile})
    <3>1. id \in Ready(later) /\ id \notin Made(later)
      BY <1>8 DEF Ready, Made
    <3> QED
      BY <1>2, <1>6, <2>3, <3>1 DEF Range
  <2>5. FileTypes'
    BY <1>1, <2>3, <2>4 DEF FilesInv, FileTypes, Ready, Made
  <2>6. fresh = <<>> /\ ids = <<>> /\ refIDs = <<>>
    BY <2>2 DEF FilesInv, Referred
  <2>7. Referred'
    <3>1. Generation(fresh, uploads)' /\ Generation(ids, uploads)' /\ Headed(refIDs, Len(ids), uploads)'
      BY <1>5, <2>1, NeedStays DEF Generation, Headed, Ready, Made
    <3>2. ~Settled'
      BY <2>2 DEF Settled
    <3> QED
      BY <2>1, <2>6, <3>1, <3>2 DEF Referred
  <2>8. Owned'
    <3>1. DOMAIN fresh' = {}
      BY <2>1, <2>6
    <3> QED
      BY <3>1 DEF FilesInv, Owned
  <2> QED
    BY <1>3, <1>4, <2>5, <2>7, <2>8 DEF FilesInv
<1> QED
  BY <1>7, <1>8

LEMMA PollEndsKeeps == ASSUME FilesInv, PollEnds PROVE FilesInv'
<1> USE DEF PollEnds
<1>1. /\ upload.name # "none" /\ upload.id \in DOMAIN uploads
      /\ uploads[upload.id].name = upload.name /\ uploads[upload.id].owner = on
      /\ uploads \in UploadLists
  BY DEF FilesInv, UnderWay, FileTypes
<1>2. uploads' \in UploadLists /\ Grown(uploads, uploads') /\ uploads'[upload.id].ready
  BY <1>1, ReadiedGrows
<1>3. /\ upload.id \in DOMAIN uploads' /\ uploads'[upload.id].name = upload.name
      /\ uploads'[upload.id].owner = on
  BY <1>1, <1>2 DEF Grown
<1> QED
  BY <1>1, <1>2, <1>3, UploadedKeeps

LEMMA UploadAcceptedKeeps == ASSUME FilesInv, UploadAccepted PROVE FilesInv'
<1> USE DEF UploadAccepted
<1> DEFINE id == Len(uploads) + 1
<1>1. PICK ready \in BOOLEAN :
         /\ uploads' = Append(uploads, [name |-> upload.name, owner |-> on, ready |-> ready])
         /\ IF ready THEN Uploaded(id)
            ELSE upload' = [upload EXCEPT !.id = id] /\ UNCHANGED <<inline, fresh>>
  BY Zenon
<1> DEFINE added == [name |-> upload.name, owner |-> on, ready |-> ready]
<1>2. upload.name # "none" /\ upload.name \in FileNames
  BY DEF FilesInv, UnderWay
<1>3. /\ added \in [name : FileNames, owner : Nat, ready : BOOLEAN]
      /\ added.name = upload.name /\ added.owner = on /\ added.ready = ready
  BY <1>2 DEF FilesInv, FileTypes
<1>4. uploads \in UploadLists /\ Len(uploads) \in Nat
  BY LenProperties DEF FilesInv, FileTypes, UploadLists
<1>5. /\ uploads' \in UploadLists /\ Grown(uploads, uploads')
      /\ id \in DOMAIN uploads' /\ uploads'[id] = added
  <2> HIDE DEF added
  <2> QED
    BY <1>1, <1>3, <1>4, AddedGrows DEF added
<1>6. /\ uploads'[id].name = upload.name /\ uploads'[id].owner = on /\ uploads'[id].ready = ready
  BY <1>3, <1>5
<1> HIDE DEF added
<1>7. CASE ready
  <2>1. Uploaded(id) /\ uploads'[id].ready
    BY <1>1, <1>6, <1>7
  <2> HIDE DEF id
  <2> QED
    BY <1>2, <1>5, <1>6, <2>1, UploadedKeeps
<1>8. CASE ~ready
  <2>1. upload' = [upload EXCEPT !.id = id] /\ inline' = inline /\ fresh' = fresh
    BY <1>1, <1>8
  <2>2. Sent'
    BY <1>5, SentLasts
  <2>3. upload' \in [name : FileNames \cup {"none"}, pow : BOOLEAN, refreshed : BOOLEAN,
                     attempts : Nat, polls : Nat, id : Nat]
        /\ upload'.name = upload.name /\ upload'.id = id
    BY <1>4, <2>1 DEF FilesInv, UnderWay
  <2>4. UnderWay'
    BY <1>2, <1>5, <1>6, <2>1, <2>3, NeedStays DEF FilesInv, UnderWay, NameAt
  <2> DEFINE later == uploads'
  <2>5. FileTypes'
    <3>1. \A i \in Range(inline) : i \in DOMAIN uploads /\ uploads[i].ready /\ i \notin Made(uploads)
                                   /\ i # OwnFile
      BY DEF FilesInv, FileTypes, Ready
    <3>2. Range(inline) \subseteq Ready(later) \ (Made(later) \cup {OwnFile})
      BY <1>5, <3>1 DEF Grown, Ready, Made
    <3> QED
      BY <1>5, <2>1, <3>2 DEF FilesInv, FileTypes, Ready, Made
  <2>6. Referred'
    <3>1. Len(ids) \in Nat
      BY LenProperties DEF FilesInv, Referred, Generation
    <3>2. later \in UploadLists /\ Grown(uploads, later)
      BY <1>5
    <3>3. Generation(fresh, later) /\ Generation(ids, later) /\ Headed(refIDs, Len(ids), later)
      BY <1>4, <3>1, <3>2, GenerationLasts, HeadedLasts DEF FilesInv, Referred
    <3>4. Generation(fresh, uploads)' /\ Generation(ids, uploads)' /\ Headed(refIDs, Len(ids), uploads)'
      BY <2>1, <3>3, NeedStays DEF Generation, Headed, Ready, Made
    <3>5. Settled' => Settled
      BY DEF Settled
    <3> QED
      BY <2>1, <3>4, <3>5, NeedStays DEF FilesInv, Referred
  <2>7. Owned'
    <3>1. \A j \in DOMAIN fresh : fresh[j] \in DOMAIN uploads /\ later[fresh[j]].owner = uploads[fresh[j]].owner
      BY <1>5 DEF FilesInv, Referred, Generation, Grown
    <3> QED
      BY <2>1, <3>1 DEF FilesInv, Owned
  <2> QED
    BY <2>2, <2>4, <2>5, <2>6, <2>7 DEF FilesInv
<1> QED
  BY <1>7, <1>8

----------------------------------------------------------------------------
(* The handler takes up the next file, or goes on.                          *)
LEMMA NextInlineKeeps == ASSUME FilesInv, NextInline PROVE FilesInv'
<1> DEFINE n == Len(inline) + 1
           Same == {i \in 1 .. n - 1 : order.inline[i] = order.inline[n]}
           first == IF order.own THEN <<OwnFile>> ELSE <<>>
<1>1. at = "inline" /\ upload = NoUpload
      /\ UNCHANGED <<order, on, round, ids, fresh, uploads, wandered, asked>>
  BY DEF NextInline, IdleAt
<1>2. fresh = <<>> /\ ids = <<>> /\ refIDs = <<>>
  BY <1>1 DEF FilesInv, Referred
<1>3. Sent'
  BY <1>1, SentStays DEF FilesInv
<1>4. Owned'
  BY <1>1 DEF FilesInv, Owned
<1>5. /\ inline \in Seq(Nat) /\ DOMAIN inline = 1 .. Len(inline) /\ Len(inline) \in Nat
      /\ Range(inline) \subseteq Ready(uploads) \ (Made(uploads) \cup {OwnFile})
  BY LenProperties DEF FilesInv, FileTypes
<1>6. order.inline \in Seq(InlineFiles) /\ order \in Orders
  BY DEF FilesInv, FileTypes, Orders
<1>7. CASE n > Len(order.inline)
  <2>1. refIDs' = Unique(first \o inline) /\ at' = "files" /\ UNCHANGED <<inline, upload>>
    BY <1>7 DEF NextInline
  <2>2. first \in Seq(Nat) /\ \A j \in 1 .. Len(first) : first[j] = OwnFile
    BY DEF OwnFile
  <2> HIDE DEF first
  <2>3. first \o inline \in Seq(Nat) /\ Range(first \o inline) \subseteq {OwnFile} \cup Range(inline)
    <3>1. Len(first) \in Nat
      BY <2>2, LenProperties
    <3>2. /\ first \o inline \in Seq(Nat) /\ Len(first \o inline) = Len(first) + Len(inline)
          /\ \A i \in 1 .. Len(first) + Len(inline) :
                (first \o inline)[i] = IF i <= Len(first) THEN first[i] ELSE inline[i - Len(first)]
      BY <1>5, <2>2, ConcatProperties
    <3>3. DOMAIN (first \o inline) = 1 .. Len(first) + Len(inline)
      BY <3>2, LenProperties
    <3>4. ASSUME NEW i \in 1 .. Len(first) + Len(inline)
          PROVE  (first \o inline)[i] \in {OwnFile} \cup Range(inline)
      <4>1. CASE i <= Len(first)
        BY <2>2, <3>1, <3>2, <4>1
      <4>2. CASE i > Len(first)
        <5>1. i - Len(first) \in DOMAIN inline
          BY <1>5, <3>1, <4>2
        <5>2. (first \o inline)[i] = inline[i - Len(first)]
          BY <1>5, <3>1, <3>2, <4>2
        <5> QED
          BY <5>1, <5>2 DEF Range
      <4> QED
        BY <3>1, <4>1, <4>2
    <3> QED
      BY <3>2, <3>3, <3>4 DEF Range
  <2>4. /\ refIDs' \in Seq(Nat) /\ IsInjective(refIDs')
        /\ Range(refIDs') \subseteq {OwnFile} \cup Range(inline)
    BY <2>1, <2>3, UniqueOnce
  <2>5. OwnFile \in Ready(uploads) /\ OwnFile \notin Made(uploads)
    BY PositionsFromOne DEF FilesInv, FileTypes, UploadLists, Ready, Made
  <2>6. Len(refIDs') \in Nat
    BY <2>4, LenProperties
  <2>7. Headed(refIDs', 0, uploads)
    <3>1. \A j \in DOMAIN refIDs' : refIDs'[j] \in {OwnFile} \cup Range(inline)
      BY <2>4 DEF Range
    <3>2. Range(refIDs') \subseteq Ready(uploads)
      BY <1>5, <2>4, <2>5
    <3>3. \A j \in DOMAIN refIDs' : refIDs'[j] \notin Made(uploads)
      BY <1>5, <2>5, <3>1
    <3> QED
      BY <2>4, <2>6, <3>2, <3>3 DEF Headed
  <2>8. Referred'
    <3>1. Headed(refIDs, Len(ids), uploads)'
      BY <1>1, <1>2, <2>7 DEF Headed, Ready, Made
    <3>2. ~Settled'
      BY <2>1 DEF Settled
    <3>3. Generation(fresh, uploads)' /\ Generation(ids, uploads)'
      BY <1>1, NeedStays DEF FilesInv, Referred, Generation
    <3> QED
      BY <1>1, <1>2, <2>1, <3>1, <3>2, <3>3 DEF Referred
  <2>9. FileTypes'
    BY <1>1, <2>1, TypesStay DEF FilesInv, FileTypes
  <2>10. UnderWay'
    BY <1>1, <2>1, FileBounds DEF UnderWay, NoUpload, Generated
  <2> QED
    BY <1>1, <1>3, <1>4, <2>8, <2>9, <2>10 DEF FilesInv
<1>8. CASE ~(n > Len(order.inline))
  <2>1. CASE n > InlineLimit \/ order.inline[n] = "broken"
    <3>1. Fail /\ UNCHANGED <<inline, refIDs>>
      BY <1>8, <2>1 DEF NextInline
    <3> QED
      BY <1>1, <3>1, FailKeeps
  <2>2. CASE ~(n > InlineLimit \/ order.inline[n] = "broken") /\ Same # {}
    <3> DEFINE i == CHOOSE m \in Same : TRUE
    <3>1. inline' = Append(inline, inline[i]) /\ UNCHANGED <<at, refIDs, upload>>
      BY <1>8, <2>2 DEF NextInline
    <3>2. i \in DOMAIN inline
      <4>1. i \in Same
        BY <2>2
      <4> QED
        BY <1>5, <4>1
    <3> HIDE DEF i
    <3>3. inline[i] \in Range(inline) /\ inline[i] \in Nat
      BY <1>5, <3>2, PositionsFromOne DEF Range
    <3>4. inline' \in Seq(Nat) /\ Range(inline') \subseteq Range(inline)
      <4>1. /\ Append(inline, inline[i]) \in Seq(Nat)
            /\ Len(Append(inline, inline[i])) = Len(inline) + 1
            /\ \A j \in 1 .. Len(inline) : Append(inline, inline[i])[j] = inline[j]
            /\ Append(inline, inline[i])[Len(inline) + 1] = inline[i]
        BY <1>5, <3>3, AppendProperties
      <4>2. DOMAIN Append(inline, inline[i]) = 1 .. Len(inline) + 1
        BY <4>1, LenProperties
      <4> QED
        BY <1>5, <3>1, <3>3, <4>1, <4>2 DEF Range
    <3>5. FileTypes'
      BY <1>1, <1>5, <3>1, <3>4 DEF FilesInv, FileTypes, Ready, Made
    <3>6. Referred'
      BY <1>1, <3>1, ReferredStays DEF FilesInv, Settled
    <3>7. UnderWay'
      BY <1>1, <3>1, FileBounds DEF UnderWay, NoUpload, Generated
    <3> QED
      BY <1>1, <1>3, <1>4, <3>5, <3>6, <3>7 DEF FilesInv
  <2>3. CASE ~(n > InlineLimit \/ order.inline[n] = "broken") /\ Same = {}
    <3>1. upload' = UploadOf(order.inline[n]) /\ UNCHANGED <<at, inline, refIDs>>
      BY <1>8, <2>3 DEF NextInline
    <3>2. order.inline[n] \in InlineFiles
      <4>1. DOMAIN order.inline = 1 .. Len(order.inline) /\ Len(order.inline) \in Nat
        BY <1>6, LenProperties
      <4>2. n \in DOMAIN order.inline
        BY <1>5, <1>8, <4>1
      <4> QED
        BY <1>6, <4>1, <4>2, ElementOfSeq
    <3> HIDE DEF n
    <3>3. FileTypes' /\ Referred'
      BY <1>1, <3>1, TypesStay, ReferredStays DEF FilesInv, Settled, FileTypes
    <3>4. UnderWay'
      BY <1>1, <3>1, <3>2, FileBounds DEF UnderWay, NoUpload, UploadOf, Generated, FileNames
    <3> QED
      BY <1>1, <1>3, <1>4, <3>3, <3>4 DEF FilesInv
  <2> QED
    BY <2>1, <2>2, <2>3
<1> QED
  BY <1>7, <1>8

(* An upload of the history file, or of the tools file, begins.             *)
LEMMA NextNameKeeps ==
    ASSUME FilesInv, at = "files", Len(fresh) < Need, NEW name \in Generated,
           name = NameAt(Len(fresh) + 1), upload' = UploadOf(name),
           UNCHANGED <<order, on, at, round, inline, refIDs, ids, fresh, uploads, wandered, asked>>
    PROVE  FilesInv'
<1>1. FileTypes' /\ Referred' /\ Sent' /\ Owned'
  BY TypesStay, ReferredStays, SentStays DEF FilesInv, FileTypes, Settled, Owned
<1>2. UnderWay'
  BY FileBounds, NeedStays DEF UnderWay, NoUpload, UploadOf, FileNames, NameAt, Generated
<1> QED
  BY <1>1, <1>2 DEF FilesInv

LEMMA NextGeneratedKeeps == ASSUME FilesInv, NextGenerated PROVE FilesInv'
<1>1. at = "files" /\ upload = NoUpload
      /\ UNCHANGED <<order, on, round, inline, fresh, uploads, wandered, asked>>
  BY DEF NextGenerated, IdleAt
<1>2. Generation(fresh, uploads) /\ Generation(ids, uploads) /\ Headed(refIDs, Len(ids), uploads)
      /\ \A j \in DOMAIN ids : refIDs[j] = ids[j]
  BY DEF FilesInv, Referred
<1>3. fresh \in Seq(Nat) /\ Len(fresh) \in {0, 1, 2} /\ Len(fresh) <= Need
  BY <1>2, GenerationOnce DEF Generation, FilesInv, FileTypes
<1>4. fresh = <<>> <=> Len(fresh) = 0
  BY <1>3, EmptySeq
<1>5. order.long \in BOOLEAN /\ order.tools \in BOOLEAN
  BY DEF FilesInv, FileTypes, Orders
<1>6. AfterFiles \in {"session", "send"}
  BY DEF AfterFiles
<1>7. CASE ~order.long
  <2>1. at' = AfterFiles /\ UNCHANGED <<refIDs, ids, upload>>
    BY <1>7 DEF NextGenerated
  <2>2. Need = 0 /\ fresh = <<>> /\ Len(fresh) = 0
    BY <1>3, <1>4, <1>7 DEF Need
  <2>3. ids = <<>>
    <3>1. Len(ids) \in {0, 1, 2} /\ Len(ids) <= Need /\ ids \in Seq(Nat)
      BY <1>2, GenerationOnce DEF Generation, FilesInv, FileTypes
    <3> QED
      BY <2>2, <3>1, EmptySeq
  <2>4. FileTypes' /\ Sent'
    BY <1>1, <1>6, <2>1, TypesStay, SentStays DEF FilesInv, FileTypes
  <2>5. Owned' /\ UnderWay'
    BY <1>1, <2>1, FileBounds DEF FilesInv, Owned, UnderWay, NoUpload, Generated
  <2>6. Referred'
    BY <1>1, <1>6, <2>1, <2>2, <2>3, NeedStays DEF FilesInv, Referred, Generation, Headed, Ready, Made
  <2> QED
    BY <1>1, <2>4, <2>5, <2>6 DEF FilesInv
<1>8. CASE order.long /\ fresh = <<>>
  <2>1. upload' = UploadOf("history") /\ UNCHANGED <<at, refIDs, ids>>
    BY <1>8 DEF NextGenerated
  <2>2. Len(fresh) = 0 /\ 0 < Need /\ "history" = NameAt(1)
    BY <1>4, <1>8 DEF Need, NameAt
  <2> QED
    BY <1>1, <2>1, <2>2, NextNameKeeps DEF Generated
<1>9. CASE order.long /\ Len(fresh) = 1 /\ order.tools
  <2>1. upload' = UploadOf("tools") /\ UNCHANGED <<at, refIDs, ids>>
    BY <1>4, <1>9 DEF NextGenerated
  <2>2. 1 < Need /\ "tools" = NameAt(1 + 1)
    BY <1>9 DEF Need, NameAt
  <2> QED
    BY <1>1, <1>9, <2>1, <2>2, NextNameKeeps DEF Generated
<1>10. CASE order.long /\ fresh # <<>> /\ ~(Len(fresh) = 1 /\ order.tools)
  <2>1. refIDs' = ReplaceGenerated(refIDs, ids, fresh) /\ ids' = fresh
        /\ at' = AfterFiles /\ UNCHANGED upload
    BY <1>10 DEF NextGenerated
  <2>2. Len(fresh) = Need
    <3>1. Len(fresh) # 0
      BY <1>4, <1>10
    <3>2. CASE order.tools
      <4>1. Need = 2 /\ Len(fresh) # 1
        BY <1>10, <3>2 DEF Need
      <4> QED
        BY <1>3, <3>1, <4>1
    <3>3. CASE ~order.tools
      <4>1. Need = 1
        BY <1>10, <3>3 DEF Need
      <4> QED
        BY <1>3, <3>1, <4>1
    <3> QED
      BY <3>2, <3>3
  <2>3. Headed(refIDs', Len(fresh), uploads) /\ \A j \in DOMAIN fresh : refIDs'[j] = fresh[j]
    BY <1>2, <2>1, ReplaceHeads DEF FilesInv, FileTypes
  <2>4. FileTypes' /\ Sent'
    BY <1>1, <1>6, <2>1, TypesStay, SentStays DEF FilesInv, FileTypes
  <2>5. Owned' /\ UnderWay'
    BY <1>1, <2>1, FileBounds DEF FilesInv, Owned, UnderWay, NoUpload, Generated
  <2>6. Referred'
    <3>1. Generation(fresh, uploads)' /\ Generation(ids, uploads)'
      BY <1>1, <1>2, <2>1, NeedStays DEF Generation
    <3>2. Headed(refIDs, Len(ids), uploads)'
      BY <1>1, <2>1, <2>3 DEF Headed, Ready, Made
    <3>3. at' # "inline"
      BY <1>6, <2>1
    <3> QED
      BY <1>1, <2>1, <2>2, <2>3, <3>1, <3>2, <3>3, NeedStays DEF Referred
  <2> QED
    BY <1>1, <2>4, <2>5, <2>6 DEF FilesInv
<1> QED
  BY <1>7, <1>8, <1>9, <1>10

----------------------------------------------------------------------------
(* The calls of a completion.                                               *)
LEMMA IdleStays ==
    ASSUME FilesInv, at \notin {"inline", "files"}, UNCHANGED upload PROVE UnderWay'
<1>1. upload.name \notin InlineFiles /\ upload.name \notin Generated
  BY DEF FilesInv, UnderWay
<1>2. upload.id = 0
  BY <1>1 DEF FilesInv, UnderWay, FileNames
<1> QED
  BY <1>1, <1>2 DEF FilesInv, UnderWay

LEMMA SessionCreatedKeeps == ASSUME FilesInv, SessionCreated PROVE FilesInv'
<1> USE DEF SessionCreated
<1>1. PICK a \in 0 .. LastAccount : CallEndsOn(a)
  OBVIOUS
<1>2. on' \in Nat /\ on' >= on /\ wandered' = (wandered \/ (on' # on /\ fresh # <<>>))
  BY <1>1, CallEnds DEF FilesInv, FileTypes
<1>3. at = "session" /\ at' \in {"pow", "over"}
  OBVIOUS
<1>4. FileTypes' /\ Owned' /\ Sent'
  BY <1>2, <1>3, CallKeeps
<1>5. Referred' /\ UnderWay'
  BY <1>3, ReferredStays, IdleStays DEF FilesInv, Settled
<1> QED
  BY <1>4, <1>5 DEF FilesInv

LEMMA PowSolvedKeeps == ASSUME FilesInv, PowSolved PROVE FilesInv'
<1> USE DEF PowSolved
<1>1. PICK a \in 0 .. LastAccount : CallEndsOn(a)
  OBVIOUS
<1>2. on' \in Nat /\ on' >= on /\ wandered' = (wandered \/ (on' # on /\ fresh # <<>>))
  BY <1>1, CallEnds DEF FilesInv, FileTypes
<1>3. at = "pow" /\ at' \in {"send", "files", "over"}
      /\ (at' = "send" => round = "first" \/ order.whole)
  OBVIOUS
<1>4. FileTypes' /\ Owned' /\ Sent'
  BY <1>2, <1>3, CallKeeps
<1>5. Referred' /\ UnderWay'
  BY <1>3, ReferredStays, IdleStays DEF FilesInv, Settled
<1> QED
  BY <1>4, <1>5 DEF FilesInv

LEMMA AskKeeps == ASSUME FilesInv, Ask PROVE FilesInv'
<1> USE DEF Ask
<1> DEFINE completion == [on |-> on, round |-> round, refs |-> refIDs, sure |-> ~wandered]
           C == [on : Nat, round : {"first", "alternate"}, refs : Seq(Nat), sure : BOOLEAN]
           n == Len(asked) + 1
<1>1. at = "send" /\ at' \in {"reply", "over"} /\ asked' = Append(asked, completion)
      /\ UNCHANGED <<order, on, round, inline, refIDs, ids, fresh, upload, uploads, wandered>>
  OBVIOUS
<1>2. ids = fresh /\ Len(fresh) = Need
  BY <1>1 DEF FilesInv, Referred, Settled
<1>3. Generation(fresh, uploads) /\ Headed(refIDs, Need, uploads) /\ \A j \in DOMAIN fresh : refIDs[j] = fresh[j]
  BY <1>2 DEF FilesInv, Referred
<1>4. completion \in C
  BY <1>3 DEF FilesInv, FileTypes, Headed
<1>5. /\ completion.on = on /\ completion.refs = refIDs /\ completion.sure = ~wandered
  OBVIOUS
<1>6. asked \in Seq(C) /\ DOMAIN asked = 1 .. Len(asked) /\ Len(asked) \in Nat
  <2>1. asked \in Seq(C)
    BY DEF FilesInv, Sent, Completions
  <2> HIDE DEF C
  <2> QED
    BY <2>1, LenProperties
<1> HIDE DEF completion, C
<1>7. /\ asked' \in Seq(C) /\ DOMAIN asked' = 1 .. n
      /\ \A i \in DOMAIN asked : asked'[i] = asked[i]
      /\ asked'[n] = completion
  <2>1. /\ Append(asked, completion) \in Seq(C) /\ Len(Append(asked, completion)) = n
        /\ \A i \in 1 .. Len(asked) : Append(asked, completion)[i] = asked[i]
        /\ Append(asked, completion)[n] = completion
    BY <1>4, <1>6, AppendProperties
  <2>2. DOMAIN Append(asked, completion) = 1 .. n
    BY <2>1, LenProperties
  <2> QED
    BY <1>1, <1>6, <2>1, <2>2
<1>8. asked' \in Completions
  BY <1>7 DEF Completions, C
<1>9. ASSUME NEW i \in DOMAIN asked PROVE Follows(i, asked', uploads)
  <2>1. Follows(i, asked, uploads)
    BY DEF FilesInv, Sent
  <2>2. asked'[i] = asked[i] /\ \A k \in 1 .. i - 1 : asked'[k] = asked[k]
    BY <1>6, <1>7
  <2> QED
    BY <2>1, <2>2 DEF Follows
<1>10. Follows(n, asked', uploads)
  <2>1. DOMAIN fresh = 1 .. Need
    BY <1>2, <1>3, LenProperties DEF Generation
  <2>2. ASSUME NEW j \in 1 .. Need
        PROVE  /\ refIDs[j] = fresh[j] /\ refIDs[j] \in DOMAIN uploads
               /\ uploads[refIDs[j]].name = NameAt(j)
               /\ ~wandered => uploads[refIDs[j]].owner = on
               /\ \A k \in DOMAIN asked : asked[k].on # 0 => uploads[refIDs[j]].owner > asked[k].on
    <3>1. j \in DOMAIN fresh /\ refIDs[j] = fresh[j]
      BY <1>3, <2>1
    <3>2. fresh[j] \in DOMAIN uploads /\ uploads[fresh[j]].name = NameAt(j)
      BY <1>3, <3>1 DEF Generation
    <3>3. ~wandered => uploads[fresh[j]].owner = on
      BY <3>1 DEF FilesInv, Owned
    <3>4. \A k \in DOMAIN asked : asked[k].on # 0 => uploads[fresh[j]].owner > asked[k].on
      BY <1>1, <3>1 DEF FilesInv, Owned
    <3> QED
      BY <3>1, <3>2, <3>3, <3>4
  <2>3. \A k \in 1 .. n - 1 : k \in DOMAIN asked /\ asked'[k] = asked[k]
    BY <1>6, <1>7
  <2> HIDE DEF n
  <2>4. asked'[n].on = on /\ asked'[n].refs = refIDs /\ asked'[n].sure = ~wandered
    BY <1>5, <1>7
  <2>5. ASSUME NEW j \in 1 .. Need
        PROVE  /\ asked'[n].refs[j] \in DOMAIN uploads
               /\ uploads[asked'[n].refs[j]].name = NameAt(j)
               /\ asked'[n].sure => uploads[asked'[n].refs[j]].owner = asked'[n].on
               /\ \A k \in 1 .. n - 1 :
                     asked'[k].on # 0 => uploads[asked'[n].refs[j]].owner > asked'[k].on
    <3>1. asked'[n].refs[j] = refIDs[j]
      BY <2>4
    <3>2. \A k \in 1 .. n - 1 : asked'[k].on # 0 => uploads[refIDs[j]].owner > asked'[k].on
      BY <2>2, <2>3
    <3>3. refIDs[j] \in DOMAIN uploads /\ uploads[refIDs[j]].name = NameAt(j)
          /\ (~wandered => uploads[refIDs[j]].owner = on)
      BY <2>2
    <3> QED
      BY <2>4, <3>1, <3>2, <3>3
  <2>6. Headed(asked'[n].refs, Need, uploads)
    BY <1>3, <2>4
  <2> QED
    BY <2>5, <2>6 DEF Follows
<1>11. Sent'
  <2>1. \A i \in DOMAIN asked' : i \in DOMAIN asked \/ i = n
    BY <1>6, <1>7
  <2>2. \A i \in DOMAIN asked' : Follows(i, asked', uploads)
    BY <1>9, <1>10, <2>1
  <2>3. \A i \in DOMAIN asked' : Follows(i, asked, uploads)'
    BY <1>1, <2>2, NeedStays DEF Follows, Headed, Ready, Made
  <2> QED
    BY <1>8, <2>3 DEF Sent
<1>12. Owned'
  <2>1. \A k \in DOMAIN asked' : k \in DOMAIN asked \/ k = n
    BY <1>6, <1>7
  <2>2. on \in Nat
    BY DEF FilesInv, FileTypes
  <2>3. \A k \in DOMAIN asked' : asked'[k].on <= on
    BY <1>5, <1>7, <2>1, <2>2 DEF FilesInv, Owned
  <2> QED
    BY <1>1, <2>3 DEF FilesInv, Owned
<1>13. FileTypes' /\ Referred' /\ UnderWay'
  BY <1>1, TypesStay, ReferredStays, IdleStays DEF FilesInv, FileTypes, Settled
<1> QED
  BY <1>1, <1>11, <1>12, <1>13 DEF FilesInv

LEMMA ElsewhereKeeps == ASSUME FilesInv, Elsewhere PROVE FilesInv'
<1> USE DEF Elsewhere
<1>1. at = "reply" /\ UNCHANGED <<order, inline, refIDs, ids, upload, uploads, asked>>
  OBVIOUS
<1>2. Sent' /\ UnderWay'
  BY <1>1, SentStays, IdleStays DEF FilesInv
<1>3. CASE at' = "over" /\ UNCHANGED <<on, round, fresh, wandered>>
  <2>1. FileTypes' /\ Referred'
    BY <1>1, <1>3, TypesStay, ReferredStays DEF FilesInv, FileTypes, Settled
  <2>2. Owned'
    BY <1>1, <1>3 DEF FilesInv, Owned
  <2> QED
    BY <1>2, <1>3, <2>1, <2>2 DEF FilesInv
<1>4. CASE /\ on' \in on + 1 .. LastAccount
           /\ at' = IF order.whole THEN "files" ELSE "session"
           /\ round' = "alternate" /\ fresh' = <<>> /\ wandered' = FALSE
  <2>1. on \in Nat /\ on' \in Nat /\ on' > on
    BY <1>4, FileBounds DEF FilesInv, FileTypes
  <2>2. \A k \in DOMAIN asked : asked[k].on \in Nat /\ asked[k].on <= on
    BY AskedTypes DEF FilesInv, Owned
  <2>3. \A k \in DOMAIN asked : on' > asked[k].on /\ asked[k].on <= on'
    BY <2>1, <2>2
  <2>4. Owned'
    BY <1>1, <1>4, <2>3 DEF Owned
  <2>5. FileTypes'
    <3>1. wandered' \in BOOLEAN
      BY <1>4, Zenon
    <3> QED
      BY <1>1, <1>4, <2>1, <3>1 DEF FilesInv, FileTypes, Ready, Made
  <2>6. Referred'
    <3>1. ~Settled' /\ at' # "inline"
      BY <1>1, <1>4 DEF Settled
    <3>2. Generation(fresh, uploads)'
      BY <1>1, <1>4, NeedStays, NeedIsSmall DEF Generation
    <3>3. Generation(ids, uploads)' /\ Headed(refIDs, Len(ids), uploads)'
      BY <1>1, NeedStays DEF FilesInv, Referred, Generation, Headed, Ready, Made
    <3> QED
      BY <1>1, <3>1, <3>2, <3>3 DEF FilesInv, Referred
  <2> QED
    BY <1>2, <1>4, <2>4, <2>5, <2>6 DEF FilesInv
<1> QED
  BY <1>3, <1>4

----------------------------------------------------------------------------
LEMMA FilesInvStep == FilesInv /\ [FilesNext]_fileVars => FilesInv'
<1> SUFFICES ASSUME FilesInv, [FilesNext]_fileVars PROVE FilesInv'
  OBVIOUS
<1>1. CASE UploadPow
  BY <1>1, UploadPowKeeps
<1>2. CASE UploadRefused
  BY <1>2, UploadRefusedKeeps
<1>3. CASE UploadFails
  BY <1>3, FailKeeps DEF UploadFails
<1>4. CASE UploadAccepted
  BY <1>4, UploadAcceptedKeeps
<1>5. CASE PollEnds
  BY <1>5, PollEndsKeeps
<1>6. CASE Poll
  BY <1>6, PollKeeps
<1>7. CASE NextInline
  BY <1>7, NextInlineKeeps
<1>8. CASE NextGenerated
  BY <1>8, NextGeneratedKeeps
<1>9. CASE SessionCreated
  BY <1>9, SessionCreatedKeeps
<1>10. CASE PowSolved
  BY <1>10, PowSolvedKeeps
<1>11. CASE Ask
  BY <1>11, AskKeeps
<1>12. CASE Elsewhere
  BY <1>12, ElsewhereKeeps
<1>13. CASE FilesOver \/ UNCHANGED fileVars
  <2>1. UNCHANGED fileVars
    BY <1>13 DEF FilesOver
  <2>2. FileTypes' /\ Referred' /\ Sent'
    BY <2>1, TypesStay, ReferredStays, SentStays DEF fileVars, FilesInv, FileTypes, Settled
  <2>3. Owned' /\ UnderWay'
    BY <2>1, NeedStays DEF fileVars, FilesInv, Owned, UnderWay, NameAt
  <2> QED
    BY <2>1, <2>2, <2>3 DEF fileVars, FilesInv
<1> QED
  BY <1>1, <1>2, <1>3, <1>4, <1>5, <1>6, <1>7, <1>8, <1>9, <1>10, <1>11, <1>12, <1>13
  DEF FilesNext

(* Only the first files of a completion are generated.                      *)
LEMMA InvFollows == FilesInv => FilesFollow
<1> SUFFICES ASSUME FilesInv, NEW i \in DOMAIN asked
    PROVE LET c == asked[i]
              own(j) == c.refs[j] = OwnFile
              made == {j \in DOMAIN c.refs : ~own(j) /\ uploads[c.refs[j]].name \in Generated}
              name(j) == uploads[c.refs[j]].name
              owner(j) == uploads[c.refs[j]].owner
          IN /\ \A j, k \in DOMAIN c.refs : j # k => c.refs[j] # c.refs[k]
             /\ \A j \in DOMAIN c.refs : own(j) \/ uploads[c.refs[j]].ready
             /\ made = IF ~order.long THEN {} ELSE IF order.tools THEN {1, 2} ELSE {1}
             /\ \A j \in made : /\ name(j) = IF j = 1 THEN "history" ELSE "tools"
                                /\ c.sure => owner(j) = c.on
                                /\ \A k \in 1 .. i - 1 : asked[k].on # 0 => owner(j) > asked[k].on
  BY DEF FilesFollow
<1> DEFINE refs == asked[i].refs
           made == {j \in DOMAIN refs : refs[j] # OwnFile /\ uploads[refs[j]].name \in Generated}
<1>1. Follows(i, asked, uploads)
  BY DEF FilesInv, Sent
<1>2. /\ refs \in Seq(Nat) /\ Need <= Len(refs) /\ IsInjective(refs)
      /\ \A j \in DOMAIN refs : refs[j] = OwnFile \/ (refs[j] \in DOMAIN uploads /\ uploads[refs[j]].ready)
      /\ \A j \in DOMAIN refs : j > Need => refs[j] \notin Made(uploads)
  BY <1>1 DEF Follows, Headed, Range, Ready
<1>3. /\ \A j \in 1 .. Need :
            /\ refs[j] \in DOMAIN uploads /\ uploads[refs[j]].name = NameAt(j)
            /\ asked[i].sure => uploads[refs[j]].owner = asked[i].on
            /\ \A k \in 1 .. i - 1 : asked[k].on # 0 => uploads[refs[j]].owner > asked[k].on
  BY <1>1 DEF Follows
<1>4. DOMAIN refs = 1 .. Len(refs) /\ Len(refs) \in Nat
  BY <1>2, LenProperties
<1>5. OwnFile \notin DOMAIN uploads
  BY PositionsFromOne DEF FilesInv, FileTypes, UploadLists
<1> HIDE DEF refs
<1>6. made = 1 .. Need
  <2>1. ASSUME NEW j \in 1 .. Need PROVE j \in made
    BY <1>2, <1>3, <1>4, <1>5, NeedIsSmall DEF NameAt, Generated
  <2>2. ASSUME NEW j \in made PROVE j \in 1 .. Need
    BY <1>2, <1>4, NeedIsSmall DEF Made
  <2> QED
    BY <2>1, <2>2
<1>7. 1 .. Need = IF ~order.long THEN {} ELSE IF order.tools THEN {1, 2} ELSE {1}
  <2>1. order.long \in BOOLEAN /\ order.tools \in BOOLEAN
    BY DEF FilesInv, FileTypes, Orders
  <2>2. CASE ~order.long
    BY <2>2 DEF Need
  <2>3. CASE order.long /\ order.tools
    <3>1. Need = 2 /\ 1 .. 2 = {1, 2}
      BY <2>3 DEF Need
    <3> QED
      BY <2>3, <3>1
  <2>4. CASE order.long /\ ~order.tools
    <3>1. Need = 1 /\ 1 .. 1 = {1}
      BY <2>4 DEF Need
    <3> QED
      BY <2>4, <3>1
  <2> QED
    BY <2>1, <2>2, <2>3, <2>4
<1>8. \A j, k \in DOMAIN refs : j # k => refs[j] # refs[k]
  BY <1>2 DEF IsInjective
<1>9. \A j \in DOMAIN refs : refs[j] = OwnFile \/ uploads[refs[j]].ready
  BY <1>2
<1>10. \A j \in made : uploads[refs[j]].name = IF j = 1 THEN "history" ELSE "tools"
  BY <1>3, <1>6 DEF NameAt
<1>11. \A j \in made : /\ asked[i].sure => uploads[refs[j]].owner = asked[i].on
                       /\ \A k \in 1 .. i - 1 : asked[k].on # 0 => uploads[refs[j]].owner > asked[k].on
  BY <1>3, <1>6
<1> HIDE DEF made
<1> QED
  BY <1>6, <1>7, <1>8, <1>9, <1>10, <1>11 DEF made, refs

(* A completion of a long request refers first to the history file, then to  *)
(* the tools file if there are tools, then to the others, each once and      *)
(* ready; on another account they are not those of the account before        *)
(* (current_input_file.go:37-160, stream_retry.go:149-173).                  *)
THEOREM FilesFollowCorrect == FilesSpec => []FilesFollow
BY FilesInvInit, FilesInvStep, InvFollows, PTL DEF FilesSpec

-----------------------------------------------------------------------------
(* The configuration: from where it starts, and what is brought to it. *)
CONSTANTS
    Deployments, \* the pairs of a file and an environment to start from
    Imports,     \* the configurations brought by administrators
    TestedOnes   \* the accounts that are tested

Conf(c) == "is" \in DOMAIN c /\ IsConfig(c)

IsFile(f) == f \in {Missing, Torn} \/ Conf(f)

IsEnv(e) ==
    /\ e.json \in {"config", "broken", None} /\ Conf(e.cfg)
    /\ e.vercel \in BOOLEAN /\ e.writeback \in BOOLEAN
    /\ e.legacy \in BOOLEAN /\ e.pathSet \in BOOLEAN

ConfigSpec ==
    /\ AdminInit(Deployments) /\ IsFile(file) /\ IsEnv(env)
    /\ \A c \in Imports : Conf(c)
    /\ [][AdminNext(Imports, TestedOnes)]_adminVars

(* Environments in which a file that is a configuration is not what the     *)
(* next start puts in force, and those in which that start does not begin   *)
(* from Boot if there is no file: there the configuration lives in the      *)
(* environment, or the start is refused.                                    *)
FilePassedOver ==
    \/ env.json \in {"config", "broken"} /\ (env.vercel \/ ~env.writeback)
    \/ env.json = None /\ env.vercel

BootElsewhere ==
    \/ env.json = "config" /\ (env.vercel \/ ~env.writeback)
    \/ env.json = "broken"
    \/ env.json = None /\ env.vercel /\ ~env.legacy

Boot == IF env.json = "config" \/ (env.json = None /\ env.legacy) THEN env.cfg ELSE EmptyConfig

(* The next start reads what is on disk, or boots for want of a file. *)
FileCounts == \/ Conf(file) /\ ~FilePassedOver
              \/ file = Missing /\ ~BootElsewhere

OnDisk == Tokenless(IF file = Missing THEN Boot ELSE file)

(* Once the program has started, what the next start would put in force is  *)
(* among what counts as in force, and where the file counts nothing is      *)
(* changed without an attempt to write it.                                  *)
Shape == Conf(cfg) /\ IsFile(file) /\ IsEnv(env) /\ \A c \in Imports : Conf(c)

DiskKept == kept # {} /\ FileCounts => OnDisk \in kept

Written == alive = "up" => kept # {} /\ (FileCounts => ~Unsaved)

ConfigInv == Shape /\ DiskKept /\ Written /\ RestartKeeps

----------------------------------------------------------------------------
LEMMA TokenlessIdempotent == \A c : Tokenless(Tokenless(c)) = Tokenless(c)
<1> TAKE c
<1> DEFINE T(x) == [x EXCEPT !.token = FALSE]
           F(f) == [a \in DOMAIN f |-> T(f[a])]
<1>1. \A x : T(T(x)) = T(x)
  OBVIOUS
<1>2. \A f : F(F(f)) = F(f)
  BY <1>1
<1>3. Tokenless(c) = [c EXCEPT !.accounts = F(c.accounts)]
  BY DEF Tokenless
<1>4. Tokenless(Tokenless(c)) = [Tokenless(c) EXCEPT !.accounts = F(Tokenless(c).accounts)]
  BY DEF Tokenless
<1> HIDE DEF F
<1>5. CASE "accounts" \in DOMAIN c
  BY <1>2, <1>3, <1>4, <1>5
<1>6. CASE "accounts" \notin DOMAIN c
  BY <1>3, <1>4, <1>6
<1> QED
  BY <1>5, <1>6

LEMMA TokenlessConf == \A c : Conf(c) => Conf(Tokenless(c))
BY DEF Conf, IsConfig, Tokenless

LEMMA EmptyIsConf == Conf(EmptyConfig)
BY DEF Conf, IsConfig, EmptyConfig

LEMMA MissingTorn == ~Conf(Missing) /\ ~Conf(Torn) /\ Missing # Torn
BY DEF Conf, IsConfig, Missing, Torn

LEMMA ConfigInvInit ==
    AdminInit(Deployments) /\ IsFile(file) /\ IsEnv(env) /\ (\A c \in Imports : Conf(c))
        => ConfigInv
BY EmptyIsConf DEF AdminInit, ConfigInit, ConfigInv, Shape, DiskKept, Written, RestartKeeps

(* Whatever becomes of a write, what is installed counts as in force, and   *)
(* what is on disk still does if it was not replaced.                       *)
LEMMA InstallKeeps ==
    ASSUME ConfigInv, NEW c, Conf(c), Install(c) PROVE ConfigInv'
<1> DEFINE t == Tokenless(c)
<1>1. /\ alive = "up" /\ alive' = alive /\ env' = env /\ cfg' = c /\ SaveLocked(c)
  BY DEF Install
<1>2. Conf(t) /\ Tokenless(t) = t
  BY TokenlessConf, TokenlessIdempotent
<1>3. \/ Unsaved /\ kept' = {t} /\ UNCHANGED <<file, fromEnv>>
      \/ file' = t /\ fromEnv' = FALSE /\ kept' = {t}
      \/ ~Unsaved /\ file' \in {file, Torn} /\ kept' = kept \cup {t} /\ UNCHANGED fromEnv
  BY <1>1 DEF SaveLocked
<1>4. t \in kept'
  BY <1>3
<1> HIDE DEF t
<1>5. Shape'
  BY <1>1, <1>2, <1>3 DEF ConfigInv, Shape, IsFile
<1>6. RestartKeeps'
  BY <1>1, <1>4 DEF RestartKeeps, t
<1>7. CASE Unsaved /\ kept' = {t} /\ UNCHANGED <<file, fromEnv>>
  <2>1. ~FileCounts
    BY <1>1, <1>7 DEF ConfigInv, Written
  <2>2. ~FileCounts'
    BY <1>1, <1>7, <2>1 DEF FileCounts, FilePassedOver, BootElsewhere
  <2> QED
    BY <1>4, <1>5, <1>6, <2>2 DEF ConfigInv, DiskKept, Written
<1>8. CASE file' = t /\ fromEnv' = FALSE /\ kept' = {t}
  <2>1. OnDisk' = t
    BY <1>2, <1>8, MissingTorn DEF OnDisk
  <2>2. DiskKept' /\ Written'
    BY <1>2, <1>8, <2>1 DEF DiskKept, Written, Unsaved
  <2> QED
    BY <1>5, <1>6, <2>2 DEF ConfigInv
<1>9. CASE ~Unsaved /\ file' \in {file, Torn} /\ kept' = kept \cup {t} /\ UNCHANGED fromEnv
  <2>1. Written'
    BY <1>1, <1>4, <1>9 DEF Written, Unsaved
  <2>2. CASE file' = Torn
    <3>1. DiskKept'
      BY <2>2, MissingTorn DEF DiskKept, FileCounts
    <3> QED
      BY <1>5, <1>6, <2>1, <3>1 DEF ConfigInv
  <2>3. CASE file' = file
    <3>1. FileCounts' => FileCounts
      BY <1>1, <2>3 DEF FileCounts, FilePassedOver, BootElsewhere
    <3>2. OnDisk' = OnDisk
      BY <1>1, <2>3 DEF OnDisk, Boot
    <3>3. FileCounts => OnDisk \in kept'
      BY <1>1, <1>4, <1>9 DEF ConfigInv, DiskKept, Written
    <3>4. DiskKept'
      BY <3>1, <3>2, <3>3 DEF DiskKept
    <3> QED
      BY <1>5, <1>6, <2>1, <3>4 DEF ConfigInv
  <2> QED
    BY <2>2, <2>3, <1>9
<1> QED
  BY <1>3, <1>7, <1>8, <1>9

(* What the ladder of loadConfig may give a start.  It begins with what is  *)
(* on disk, or with what the environment holds in its place; a boot may     *)
(* write it.                                                                *)
Loadable(l) ==
    /\ Conf(l.cfg)
    /\ \/ l.file = file
       \/ file = Missing /\ l.file = Tokenless(l.cfg) /\ l.fromEnv = FALSE /\ ~BootElsewhere
    /\ Conf(file) /\ ~FilePassedOver => l.cfg = file
    /\ file = Missing /\ ~BootElsewhere => l.cfg = Boot
    /\ l.ok /\ ~l.fromEnv => FileCounts \/ file = Torn
    /\ l.ok /\ FileCounts /\ l.fromEnv => ~env.vercel /\ env.writeback

LEMMA LoadConfigLoads ==
    ASSUME ConfigInv, NEW l \in LoadConfig PROVE Loadable(l)
<1>1. IsEnv(env) /\ IsFile(file)
  BY DEF ConfigInv, Shape
<1>2. Conf(env.cfg) /\ Conf(EmptyConfig) /\ (Conf(file) <=> IsConfig(file))
  BY <1>1, EmptyIsConf DEF IsEnv, IsFile, Conf, IsConfig, Missing, Torn
<1>3. NotLoaded.ok = FALSE /\ NotLoaded.cfg = EmptyConfig /\ NotLoaded.file = file
  BY DEF NotLoaded
<1>4. CASE env.json = "config"
  <2>1. LoadConfig = FromEnvironment
    BY <1>4 DEF LoadConfig, None
  <2>2. CASE env.vercel \/ ~env.writeback
    <3>1. l.cfg = env.cfg /\ l.fromEnv = TRUE /\ l.file = file
      BY <2>1, <2>2 DEF Loaded, FromEnvironment
    <3> QED
      BY <1>2, <1>4, <2>2, <3>1, MissingTorn
         DEF Loadable, FileCounts, FilePassedOver, BootElsewhere, Boot
  <2>3. CASE ~env.vercel /\ env.writeback /\ IsConfig(file)
    <3>1. l.cfg = file /\ l.fromEnv = FALSE /\ l.file = file
      BY <1>1, <2>1, <2>3 DEF Loaded, FromEnvironment, IsEnv
    <3> QED
      BY <1>2, <1>4, <2>3, <3>1, MissingTorn
         DEF Loadable, FileCounts, FilePassedOver, BootElsewhere, Boot, None
  <2>4. CASE ~env.vercel /\ env.writeback /\ ~IsConfig(file)
    <3>1. \/ l = Loaded(env.cfg, TRUE, file)
          \/ file = Missing /\ l = Loaded(env.cfg, FALSE, Tokenless(env.cfg))
      BY <1>1, <2>1, <2>4 DEF FromEnvironment, IsEnv
    <3>2. /\ l.cfg = env.cfg
          /\ \/ l.fromEnv = TRUE /\ l.file = file
             \/ l.fromEnv = FALSE /\ file = Missing /\ l.file = Tokenless(env.cfg)
      BY <3>1 DEF Loaded
    <3> QED
      BY <1>2, <1>4, <2>4, <3>2, MissingTorn
         DEF Loadable, FileCounts, FilePassedOver, BootElsewhere, Boot, None
  <2> QED
    BY <1>1, <2>2, <2>3, <2>4 DEF IsEnv
<1>5. CASE env.json = "broken"
  <2>1. LoadConfig = FromEnvironmentBroken
    BY <1>5 DEF LoadConfig, None
  <2>2. \/ l = Loaded(file, FALSE, file) /\ ~env.vercel /\ env.writeback /\ IsConfig(file)
        \/ l = NotLoaded /\ ~(~env.vercel /\ env.writeback /\ IsConfig(file))
    BY <1>1, <2>1 DEF FromEnvironmentBroken, IsEnv
  <2>3. \/ /\ l.cfg = file /\ l.fromEnv = FALSE /\ l.file = file
           /\ ~env.vercel /\ env.writeback /\ IsConfig(file)
        \/ /\ l.ok = FALSE /\ l.cfg = EmptyConfig /\ l.file = file
           /\ ~(~env.vercel /\ env.writeback /\ IsConfig(file))
    BY <1>3, <2>2 DEF Loaded
  <2> QED
    BY <1>2, <1>5, <2>3, MissingTorn
       DEF Loadable, FileCounts, FilePassedOver, BootElsewhere, None
<1>6. CASE env.json = None
  <2>1. LoadConfig = FromFile /\ env.json # "config" /\ env.json # "broken"
    BY <1>6 DEF LoadConfig, None
  <2>2. \/ IsConfig(file) /\ l = Loaded(file, env.vercel, file)
        \/ ~IsConfig(file) /\ env.legacy /\ l = Loaded(env.cfg, FALSE, file)
        \/ ~IsConfig(file) /\ ~env.legacy /\ env.vercel /\ l = Loaded(EmptyConfig, TRUE, file)
        \/ ~IsConfig(file) /\ ~env.legacy /\ ~env.vercel /\ file = Missing
           /\ l = Loaded(EmptyConfig, FALSE, file)
        \/ ~IsConfig(file) /\ ~env.legacy /\ ~env.vercel /\ l = NotLoaded
    BY <1>1, <2>1 DEF FromFile, IsEnv
  <2> USE DEF Loadable, FileCounts, FilePassedOver, BootElsewhere, Boot, IsEnv, IsFile
  <2>3. CASE IsConfig(file) /\ l = Loaded(file, env.vercel, file)
    <3>1. l.cfg = file /\ l.fromEnv = env.vercel /\ l.file = file
      BY <2>3 DEF Loaded
    <3> QED
      BY <1>1, <1>2, <1>6, <2>1, <2>3, <3>1, MissingTorn
  <2>4. CASE ~IsConfig(file) /\ env.legacy /\ l = Loaded(env.cfg, FALSE, file)
    <3>1. l.cfg = env.cfg /\ l.fromEnv = FALSE /\ l.file = file
      BY <2>4 DEF Loaded
    <3> QED
      BY <1>1, <1>2, <1>6, <2>1, <2>4, <3>1, MissingTorn
  <2>5. CASE ~IsConfig(file) /\ ~env.legacy /\ env.vercel /\ l = Loaded(EmptyConfig, TRUE, file)
    <3>1. l.cfg = EmptyConfig /\ l.fromEnv = TRUE /\ l.file = file
      BY <2>5 DEF Loaded
    <3> QED
      BY <1>1, <1>2, <1>6, <2>1, <2>5, <3>1, MissingTorn
  <2>6. CASE ~IsConfig(file) /\ ~env.legacy /\ ~env.vercel /\ file = Missing
             /\ l = Loaded(EmptyConfig, FALSE, file)
    <3>1. l.cfg = EmptyConfig /\ l.fromEnv = FALSE /\ l.file = file
      BY <2>6 DEF Loaded
    <3> QED
      BY <1>1, <1>2, <1>6, <2>1, <2>6, <3>1, MissingTorn
  <2>7. CASE ~IsConfig(file) /\ ~env.legacy /\ ~env.vercel /\ l = NotLoaded
    BY <1>1, <1>2, <1>3, <1>6, <2>1, <2>7, MissingTorn
  <2> QED
    BY <2>2, <2>3, <2>4, <2>5, <2>6, <2>7
<1> QED
  BY <1>1, <1>4, <1>5, <1>6 DEF IsEnv

(* A start puts in force what counts as in force already; the first start   *)
(* is where the count begins.                                               *)
LEMMA ConfigStartKeeps == ASSUME ConfigInv, Start PROVE ConfigInv'
<1>1. PICK l \in LoadConfig :
        /\ alive' = IF l.ok THEN "up" ELSE "refused"
        /\ cfg' = l.cfg /\ fromEnv' = l.fromEnv /\ file' = l.file
        /\ kept' = IF kept = {} THEN {Tokenless(l.cfg)} ELSE kept
  BY DEF Start
<1>2. env' = env
  BY DEF Start
<1>3. Loadable(l)
  BY LoadConfigLoads
<1>4. IsFile(file) /\ IsEnv(env) /\ \A c \in Imports : Conf(c)
  BY DEF ConfigInv, Shape
<1>5. Conf(l.cfg) /\ Conf(Tokenless(l.cfg))
      /\ Tokenless(Tokenless(l.cfg)) = Tokenless(l.cfg)
  BY <1>3, TokenlessConf, TokenlessIdempotent DEF Loadable
<1>6. Shape'
  BY <1>1, <1>2, <1>3, <1>4, <1>5 DEF Shape, Loadable, IsFile
<1>7. FileCounts => Tokenless(l.cfg) = OnDisk
  BY <1>3, MissingTorn DEF Loadable, FileCounts, OnDisk
<1>8. FileCounts => Tokenless(l.cfg) \in kept'
  BY <1>1, <1>7 DEF ConfigInv, DiskKept
<1>9. FileCounts' => FileCounts /\ OnDisk' = OnDisk
  <2>1. CASE l.file = file
    BY <1>1, <1>2, <2>1 DEF FileCounts, FilePassedOver, BootElsewhere, OnDisk, Boot
  <2>2. CASE /\ file = Missing /\ l.file = Tokenless(l.cfg) /\ ~BootElsewhere
    <3>1. FileCounts
      BY <2>2 DEF FileCounts
    <3>2. OnDisk' = Tokenless(l.cfg)
      BY <1>1, <1>5, <2>2, MissingTorn DEF OnDisk
    <3> QED
      BY <1>7, <3>1, <3>2
  <2> QED
    BY <1>3, <2>1, <2>2 DEF Loadable
<1>10. DiskKept'
  BY <1>7, <1>8, <1>9 DEF DiskKept
<1>11. RestartKeeps'
  <2> SUFFICES ASSUME l.ok, ~l.fromEnv, l.file # Torn PROVE Tokenless(l.cfg) \in kept'
    BY <1>1 DEF RestartKeeps
  <2>1. FileCounts
    BY <1>3, MissingTorn DEF Loadable, FileCounts
  <2> QED
    BY <1>8, <2>1
<1>12. Written'
  <2>1. kept' # {}
    BY <1>1
  <2>2. ASSUME l.ok, FileCounts' PROVE ~Unsaved'
    BY <1>1, <1>2, <1>3, <1>9, <2>2 DEF Loadable, Unsaved
  <2> QED
    BY <1>1, <2>1, <2>2 DEF Written
<1> QED
  BY <1>6, <1>10, <1>11, <1>12 DEF ConfigInv

----------------------------------------------------------------------------
(* Every admin call goes through Update: what it installs is a configuration. *)
LEMMA UpdateKeysKeeps ==
    ASSUME ConfigInv, NEW c, Conf(c), NEW list, UpdateKeys(c, list) PROVE ConfigInv'
<1> DEFINE d == [c EXCEPT !.keys = Reconciled(cfg, list, c.keys)]
<1>1. Install(d)
  BY DEF UpdateKeys
<1>2. Conf(d)
  BY DEF Conf, IsConfig
<1> HIDE DEF d
<1> QED
  BY <1>1, <1>2, InstallKeeps

LEMMA ConfigUpdateKeeps == ASSUME ConfigInv, NEW c, Conf(c), Update(c) PROVE ConfigInv'
BY UpdateKeysKeeps DEF Update

LEMMA ConfigUnchanged == ConfigInv /\ UNCHANGED <<cfg, fromEnv, alive, file, env, kept>> => ConfigInv'
BY DEF ConfigInv, Shape, DiskKept, Written, RestartKeeps, FileCounts, FilePassedOver,
       BootElsewhere, OnDisk, Boot, Unsaved

LEMMA KeyCallsKeep ==
    ASSUME ConfigInv, NEW k, NEW name, AddKey(k, name) \/ RenameKey(k, name) \/ DeleteKey(k)
    PROVE  ConfigInv'
<1>1. Conf(cfg)
  BY DEF ConfigInv, Shape
<1>2. CASE AddKey(k, name)
  <2> DEFINE c == [cfg EXCEPT !.keys = Joined([x \in {k} |-> name], @)]
  <2>1. Conf(c) /\ Update(c)
    BY <1>1, <1>2 DEF AddKey, Conf, IsConfig
  <2> HIDE DEF c
  <2> QED
    BY <2>1, ConfigUpdateKeeps
<1>3. CASE RenameKey(k, name)
  <2> DEFINE c == [cfg EXCEPT !.keys[k] = name]
  <2>1. Conf(c) /\ Update(c)
    BY <1>1, <1>3 DEF RenameKey, Conf, IsConfig
  <2> HIDE DEF c
  <2> QED
    BY <2>1, ConfigUpdateKeeps
<1>4. CASE DeleteKey(k)
  <2> DEFINE c == [cfg EXCEPT !.keys = Restrict(@, DOMAIN @ \ {k})]
  <2>1. Conf(c) /\ Update(c)
    BY <1>1, <1>4 DEF DeleteKey, Conf, IsConfig
  <2> HIDE DEF c
  <2> QED
    BY <2>1, ConfigUpdateKeeps
<1> QED
  BY <1>2, <1>3, <1>4

LEMMA WithAccountsConf == \A c, new : Conf(c) => Conf(WithAccounts(c, new))
BY DEF WithAccounts, Conf, IsConfig

LEMMA AccountCallsKeep ==
    ASSUME ConfigInv, NEW a, NEW p, AddAccount(a, p) \/ BindProxy(a, p) \/ DeleteAccount(a)
    PROVE  ConfigInv'
<1>1. Conf(cfg)
  BY DEF ConfigInv, Shape
<1>2. CASE AddAccount(a, p)
  <2> DEFINE c == WithAccounts(cfg, [x \in {a} |-> [proxy |-> p, token |-> FALSE]])
  <2>1. Conf(c) /\ Update(c)
    BY <1>1, <1>2, WithAccountsConf DEF AddAccount
  <2> HIDE DEF c
  <2> QED
    BY <2>1, ConfigUpdateKeeps
<1>3. CASE BindProxy(a, p)
  <2> DEFINE c == [cfg EXCEPT !.accounts[a].proxy = p]
  <2>1. Conf(c) /\ Update(c)
    BY <1>1, <1>3 DEF BindProxy, Conf, IsConfig
  <2> HIDE DEF c
  <2> QED
    BY <2>1, ConfigUpdateKeeps
<1>4. CASE DeleteAccount(a)
  <2> DEFINE c == [cfg EXCEPT !.accounts = Restrict(@, DOMAIN @ \ {a})]
  <2>1. Conf(c) /\ Update(c)
    BY <1>1, <1>4 DEF DeleteAccount, Conf, IsConfig
  <2> HIDE DEF c
  <2> QED
    BY <2>1, ConfigUpdateKeeps
<1> QED
  BY <1>2, <1>3, <1>4

LEMMA ProxyCallsKeep ==
    ASSUME ConfigInv, NEW p, AddProxy(p) \/ DeleteProxy(p) PROVE ConfigInv'
<1>1. Conf(cfg)
  BY DEF ConfigInv, Shape
<1>2. CASE AddProxy(p)
  <2> DEFINE c == [cfg EXCEPT !.proxies = @ \cup {p}]
  <2>1. Conf(c) /\ Update(c)
    BY <1>1, <1>2 DEF AddProxy, Conf, IsConfig
  <2> HIDE DEF c
  <2> QED
    BY <2>1, ConfigUpdateKeeps
<1>3. CASE DeleteProxy(p)
  <2> DEFINE c == [cfg EXCEPT
                     !.proxies = @ \ {p},
                     !.accounts = [a \in DOMAIN @ |->
                         IF @[a].proxy = p THEN [@[a] EXCEPT !.proxy = None] ELSE @[a]]]
  <2>1. Update(c)
    BY <1>3 DEF DeleteProxy
  <2>2. Conf(c)
    BY <1>1 DEF Conf, IsConfig
  <2> HIDE DEF c
  <2> QED
    BY <2>1, <2>2, ConfigUpdateKeeps
<1> QED
  BY <1>2, <1>3

LEMMA ImportsKeep ==
    ASSUME ConfigInv, NEW c \in Imports,
           UpdateConfig(c) \/ BatchImport(c) \/ MergeConfig(c) \/ ReplaceConfig(c)
    PROVE  ConfigInv'
<1>1. Conf(cfg) /\ Conf(c)
  BY DEF ConfigInv, Shape
<1>2. CASE UpdateConfig(c)
  <2> DEFINE d == [cfg EXCEPT !.accounts = Listed(c)]
  <2>1. Conf(d) /\ UpdateKeys(d, DOMAIN c.keys)
    BY <1>1, <1>2 DEF UpdateConfig, Conf, IsConfig
  <2> HIDE DEF d
  <2> QED
    BY <2>1, UpdateKeysKeeps
<1>3. CASE BatchImport(c)
  <2> DEFINE w == WithAccounts(cfg, Listed(c))
             d == [w EXCEPT !.keys = Merged(@, c.keys)]
  <2>1. Update(d)
    BY <1>3 DEF BatchImport
  <2>2. Conf(w)
    BY <1>1, WithAccountsConf
  <2> HIDE DEF w
  <2>3. Conf(d)
    BY <2>2 DEF Conf, IsConfig
  <2> HIDE DEF d
  <2> QED
    BY <2>1, <2>3, ConfigUpdateKeeps
<1>4. CASE MergeConfig(c)
  <2> DEFINE w == WithLimits(WithAccounts(cfg, Tokenless(c).accounts), c)
             d == [w EXCEPT !.keys = Merged(@, c.keys)]
  <2>1. Update(d)
    BY <1>4 DEF MergeConfig
  <2>2. Conf(w)
    BY <1>1, WithAccountsConf DEF WithLimits, Conf, IsConfig
  <2> HIDE DEF w
  <2>3. Conf(d)
    BY <2>2 DEF Conf, IsConfig
  <2> HIDE DEF d
  <2> QED
    BY <2>1, <2>3, ConfigUpdateKeeps
<1>5. CASE ReplaceConfig(c)
  <2> DEFINE w == Tokenless(c)
             d == [w EXCEPT !.synced = cfg.synced]
  <2>1. UpdateKeys(d, DOMAIN c.keys)
    BY <1>5 DEF ReplaceConfig
  <2>2. Conf(w)
    BY <1>1, TokenlessConf
  <2> HIDE DEF w
  <2>3. Conf(d)
    BY <2>2 DEF Conf, IsConfig
  <2> HIDE DEF d
  <2> QED
    BY <2>1, <2>3, UpdateKeysKeeps
<1> QED
  BY <1>2, <1>3, <1>4, <1>5

LEMMA SettingsKeep ==
    ASSUME ConfigInv, StoreSettings \/ \E s : CheckSettings(s) PROVE ConfigInv'
<1>1. Conf(cfg)
  BY DEF ConfigInv, Shape
<1>2. CASE StoreSettings
  <2> DEFINE c == WithLimits(cfg, settings)
  <2>1. Update(c)
    BY <1>2 DEF StoreSettings
  <2>2. Conf(c)
    BY <1>1 DEF WithLimits, Conf, IsConfig
  <2> HIDE DEF c
  <2> QED
    BY <2>1, <2>2, ConfigUpdateKeeps
<1>3. CASE \E s : CheckSettings(s)
  BY <1>3, ConfigUnchanged DEF CheckSettings, configVars
<1> QED
  BY <1>2, <1>3

LEMMA TestsKeep ==
    ASSUME ConfigInv, NEW a, TestBegins(a) \/ TestStoresToken(a) \/ TestEnds(a)
    PROVE  ConfigInv'
<1>1. Conf(cfg)
  BY DEF ConfigInv, Shape
<1>2. CASE TestBegins(a) \/ TestEnds(a)
  BY <1>2, ConfigUnchanged DEF TestBegins, TestEnds, UpdateAccountTestStatus, configVars
<1>3. CASE TestStoresToken(a)
  <2>1. CASE UNCHANGED configVars
    BY <2>1, ConfigUnchanged DEF configVars
  <2>2. CASE UpdateAccountToken(a, TRUE)
    <3> DEFINE c == [cfg EXCEPT !.accounts[a].token = TRUE]
    <3>1. Conf(c) /\ Install(c)
      BY <1>1, <2>2 DEF UpdateAccountToken, Conf, IsConfig
    <3> HIDE DEF c
    <3> QED
      BY <3>1, InstallKeeps
  <2> QED
    BY <1>3, <2>1, <2>2 DEF TestStoresToken
<1> QED
  BY <1>2, <1>3

LEMMA SyncKeeps ==
    ASSUME ConfigInv, SyncExports \/ SyncUpserts \/ SyncSavesCredentials \/ SyncNotes
    PROVE  ConfigInv'
<1>1. Conf(cfg)
  BY DEF ConfigInv, Shape
<1>2. CASE SyncExports \/ SyncUpserts
  BY <1>2, ConfigUnchanged DEF SyncExports, SyncUpserts, configVars
<1>3. CASE SyncSavesCredentials
  <2> DEFINE c == [cfg EXCEPT !.vercel = TRUE]
  <2>1. Conf(c) /\ Update(c)
    BY <1>1, <1>3 DEF SyncSavesCredentials, Conf, IsConfig
  <2> HIDE DEF c
  <2> QED
    BY <2>1, ConfigUpdateKeeps
<1>4. CASE SyncNotes
  <2> DEFINE c == [cfg EXCEPT !.synced = sync.export]
  <2>1. Conf(c) /\ Update(c)
    BY <1>1, <1>4 DEF SyncNotes, Conf, IsConfig
  <2> HIDE DEF c
  <2> QED
    BY <2>1, ConfigUpdateKeeps
<1> QED
  BY <1>2, <1>3, <1>4

(* Memory is lost, the disk stays. *)
LEMMA ConfigCrashKeeps == ASSUME ConfigInv, Crash PROVE ConfigInv'
<1>1. alive' = "down" /\ cfg' = EmptyConfig /\ UNCHANGED <<file, env, kept>>
  BY DEF Crash
<1> QED
  BY <1>1, EmptyIsConf DEF ConfigInv, Shape, DiskKept, Written, RestartKeeps, FileCounts,
     FilePassedOver, BootElsewhere, OnDisk, Boot

LEMMA ConfigInvStep == ConfigInv /\ [AdminNext(Imports, TestedOnes)]_adminVars => ConfigInv'
<1> SUFFICES ASSUME ConfigInv, [AdminNext(Imports, TestedOnes)]_adminVars PROVE ConfigInv'
  OBVIOUS
<1>1. CASE UNCHANGED adminVars
  BY <1>1, ConfigUnchanged DEF adminVars, configVars
<1>2. CASE AdminStart \/ AdminCrash
  BY <1>2, ConfigStartKeeps, ConfigCrashKeeps DEF AdminStart, AdminCrash
<1> QED
  BY <1>1, <1>2, KeyCallsKeep, AccountCallsKeep, ProxyCallsKeep, ImportsKeep, SettingsKeep,
     TestsKeep, SyncKeeps DEF AdminNext

(* What an administrator changed, and the program acknowledged, is in force  *)
(* after any restart, whatever writes failed or crashes happened in between,  *)
(* unless the file is torn or the configuration lives in the environment     *)
(* (loadConfig, store.go:53-115; saveLocked, 267-283).                       *)
THEOREM RestartKeepsCorrect == ConfigSpec => []RestartKeeps
<1>1. ConfigInv => RestartKeeps
  BY DEF ConfigInv
<1> QED
  BY <1>1, ConfigInvInit, ConfigInvStep, PTL DEF ConfigSpec
----------------------------------------------------------------------------
(* What the calls keep in agreement. *)

Fields == {"is", "keys", "accounts", "proxies", "perAccount", "global", "vercel", "synced"}

Whole(c) ==
    /\ DOMAIN c = Fields /\ IsConfig(c)
    /\ c.perAccount \in Nat /\ c.global \in Nat
    /\ \A a \in DOMAIN c.accounts : DOMAIN c.accounts[a] = {"proxy", "token"}

WholeFile(f) == f \in {Missing, Torn} \/ Whole(f)

(* What an installation begins with is well-formed, holds no token, and     *)
(* with careful administrators is one that loads.                           *)
Wholes ==
    /\ Whole(cfg) /\ WholeFile(file) /\ IsEnv(env) /\ Whole(env.cfg)
    /\ \A c \in Imports : Whole(c)
    /\ settings \in [perAccount : Nat, global : Nat]

Loadables == Valid(env.cfg) /\ (IsConfig(file) => Valid(file))

AdminSpec ==
    /\ AdminInit(Deployments) /\ Wholes /\ TokensStayInMemory /\ (Careful => Loadables)
    /\ [][AdminNext(Imports, TestedOnes)]_adminVars

(* Settings that were checked still suit the limits in force. *)
InForce == alive = "up" =>
    Valid(cfg) /\ (settings # NoSettings => LimitsAgree(WithLimits(cfg, settings)))

(* Between synchronisations, what is noted is what the project has; during  *)
(* one, the project has what was exported.                                  *)
Noted ==
    /\ sync.phase # "idle" \/ settings # NoSettings => alive = "up"
    /\ alive = "up" /\ ~cutOff /\ sync.phase \in {"idle", "exported"} => cfg.synced = remote
    /\ sync.phase \in {"upserted", "saved"} => remote = sync.export

AdminInv ==
    /\ Wholes /\ AccountsAgree /\ Noted
    /\ Careful => Loadables /\ InForce /\ SavedConfigLoads

LEMMA TokenlessWhole ==
    ASSUME NEW c, Whole(c)
    PROVE  LET t == Tokenless(c) IN
           /\ Whole(t) /\ t = Tokenless(t) /\ DOMAIN t.accounts = DOMAIN c.accounts
           /\ t.synced = c.synced /\ t.proxies = c.proxies
           /\ t.perAccount = c.perAccount /\ t.global = c.global
           /\ \A a \in DOMAIN c.accounts : t.accounts[a].proxy = c.accounts[a].proxy
           /\ Valid(t) <=> Valid(c)
<1> DEFINE t == Tokenless(c)
           accounts == [a \in DOMAIN c.accounts |-> [c.accounts[a] EXCEPT !.token = FALSE]]
<1>1. t = [c EXCEPT !.accounts = accounts]
  BY DEF Tokenless
<1>2. /\ DOMAIN accounts = DOMAIN c.accounts
      /\ \A a \in DOMAIN accounts : /\ DOMAIN accounts[a] = {"proxy", "token"}
                                     /\ accounts[a].proxy = c.accounts[a].proxy
  BY DEF Whole
<1> HIDE DEF t, accounts
<1>3. /\ DOMAIN t = Fields /\ IsConfig(t) /\ t.accounts = accounts
      /\ t.synced = c.synced /\ t.proxies = c.proxies
      /\ t.perAccount = c.perAccount /\ t.global = c.global
  BY <1>1 DEF Whole, Fields, IsConfig
<1>4. Whole(t) /\ (Valid(t) <=> Valid(c))
  BY <1>2, <1>3 DEF Whole, Valid, ProxiesKnown, LimitsAgree
<1>5. t = Tokenless(t)
  BY TokenlessIdempotent DEF t
<1> QED
  BY <1>2, <1>3, <1>4, <1>5 DEF t

LEMMA NotAConfig == ~IsConfig(Missing) /\ ~IsConfig(Torn)
BY DEF IsConfig, Missing, Torn

LEMMA EmptyIsWhole == Whole(EmptyConfig) /\ Valid(EmptyConfig)
BY DEF Whole, EmptyConfig, Fields, IsConfig, Valid, ProxiesKnown, LimitsAgree

LEMMA AdminInvInit ==
    AdminInit(Deployments) /\ Wholes /\ TokensStayInMemory /\ (Careful => Loadables) => AdminInv
BY DEF AdminInit, ConfigInit, AdminInv, AccountsAgree, PoolFollowsAccounts, StatusOfAccounts,
       Noted, InForce, SavedConfigLoads, Idle, NoSettings

(* A new configuration is installed: the pool has its accounts, and so on.  *)
LEMMA InstallAgrees ==
    ASSUME AdminInv, NEW c, Install(c), Whole(c), pool' = DOMAIN c.accounts,
           settings' \in {settings, NoSettings},
           Careful => Valid(c) /\ (settings' # NoSettings => LimitsAgree(WithLimits(c, settings'))),
           ~cutOff' /\ sync'.phase \in {"idle", "exported"} => c.synced = remote',
           sync'.phase \in {"upserted", "saved"} => remote' = sync'.export
    PROVE  AdminInv'
<1>1. /\ alive = "up" /\ alive' = "up" /\ env' = env /\ cfg' = c
      /\ tests' = Restrict(tests, DOMAIN tests \cap DOMAIN c.accounts)
      /\ file' \in {file, Tokenless(c), Torn}
  BY DEF Install, SaveLocked
<1>2. Whole(Tokenless(c)) /\ Tokenless(Tokenless(c)) = Tokenless(c) /\ (Valid(Tokenless(c)) <=> Valid(c))
  BY TokenlessWhole
<1>3. Wholes'
  BY <1>1, <1>2 DEF AdminInv, Wholes, WholeFile, NoSettings
<1>4. AccountsAgree'
  <2>1. DOMAIN tests' = DOMAIN tests \cap DOMAIN c.accounts
    BY <1>1 DEF Restrict
  <2> QED
    BY <1>1, <1>2, <2>1, NotAConfig
       DEF AdminInv, AccountsAgree, PoolFollowsAccounts, StatusOfAccounts, TokensStayInMemory
<1>5. Noted'
  BY <1>1 DEF Noted
<1>6. Careful => Loadables' /\ InForce' /\ SavedConfigLoads'
  BY <1>1, <1>2, NotAConfig DEF AdminInv, Loadables, InForce, SavedConfigLoads
<1> QED
  BY <1>3, <1>4, <1>5, <1>6 DEF AdminInv

(* So for a call that leaves the synchronisation alone. *)
LEMMA CallAgrees ==
    ASSUME AdminInv, NEW c, Whole(c), NEW list, UpdateKeys(c, list),
           pool' = DOMAIN c.accounts, c.synced = cfg.synced, UNCHANGED <<sync, remote, cutOff>>,
           settings' \in {settings, NoSettings},
           Careful => Valid(c) /\ (settings' # NoSettings => LimitsAgree(WithLimits(c, settings')))
    PROVE  AdminInv'
<1> DEFINE d == [c EXCEPT !.keys = Reconciled(cfg, list, c.keys)]
<1>1. Install(d) /\ alive = "up"
  BY DEF UpdateKeys, Install
<1>2. /\ Whole(d) /\ d.accounts = c.accounts /\ d.synced = c.synced /\ d.proxies = c.proxies
      /\ d.perAccount = c.perAccount /\ d.global = c.global
  BY DEF Whole, Fields, IsConfig
<1> HIDE DEF d
<1>3. Valid(d) <=> Valid(c)
  BY <1>2 DEF Valid, ProxiesKnown, LimitsAgree
<1>4. \A s : LimitsAgree(WithLimits(c, s)) <=> LimitsAgree(WithLimits(d, s))
  BY <1>2 DEF LimitsAgree, WithLimits, Whole, Fields
<1> QED
  BY <1>1, <1>2, <1>3, <1>4, InstallAgrees DEF AdminInv, Noted

(* And for one that changes neither limits nor proxies nor accounts. *)
LEMMA SmallCallAgrees ==
    ASSUME AdminInv, NEW c, Whole(c), NEW list, UpdateKeys(c, list),
           c.accounts = cfg.accounts, c.proxies = cfg.proxies, c.synced = cfg.synced,
           c.perAccount = cfg.perAccount, c.global = cfg.global,
           UNCHANGED <<pool, sync, remote, cutOff, settings>>
    PROVE  AdminInv'
<1>1. Whole(cfg) /\ alive = "up" /\ pool' = DOMAIN c.accounts
  BY DEF UpdateKeys, Install, AdminInv, Wholes, AccountsAgree, PoolFollowsAccounts
<1>2. Careful => Valid(c)
  BY <1>1 DEF AdminInv, InForce, Valid, ProxiesKnown, LimitsAgree
<1>3. \A s : LimitsAgree(WithLimits(c, s)) <=> LimitsAgree(WithLimits(cfg, s))
  BY <1>1 DEF LimitsAgree, WithLimits, Whole, Fields
<1> QED
  BY <1>1, <1>2, <1>3, CallAgrees DEF AdminInv, InForce

LEMMA KeyCallsAgree ==
    ASSUME AdminInv, NEW k, NEW name, AddKey(k, name) \/ RenameKey(k, name) \/ DeleteKey(k)
    PROVE  AdminInv'
<1>1. Whole(cfg) /\ UNCHANGED <<pool, settings, sync, remote, cutOff>>
  BY DEF AdminInv, Wholes, AddKey, RenameKey, DeleteKey, calls
<1>2. PICK keys, list : UpdateKeys([cfg EXCEPT !.keys = keys], list)
  BY DEF AddKey, RenameKey, DeleteKey, Update
<1> DEFINE c == [cfg EXCEPT !.keys = keys]
<1>3. /\ Whole(c) /\ c.accounts = cfg.accounts /\ c.proxies = cfg.proxies /\ c.synced = cfg.synced
      /\ c.perAccount = cfg.perAccount /\ c.global = cfg.global
  BY <1>1 DEF Whole, Fields, IsConfig
<1> HIDE DEF c
<1> QED
  BY <1>1, <1>2, <1>3, SmallCallAgrees DEF c

(* A configuration with other accounts and proxies: the limits stay.        *)
LEMMA AccountsReplaced ==
    ASSUME AdminInv, NEW c, DOMAIN c = Fields, IsConfig(c), NEW list, UpdateKeys(c, list),
           \A a \in DOMAIN c.accounts : DOMAIN c.accounts[a] = {"proxy", "token"},
           Careful => ProxiesKnown(c),
           c.perAccount = cfg.perAccount, c.global = cfg.global, c.synced = cfg.synced,
           pool' = DOMAIN c.accounts, UNCHANGED <<sync, remote, cutOff, settings>>
    PROVE  AdminInv'
<1>1. Whole(cfg) /\ Whole(c) /\ alive = "up"
  BY DEF UpdateKeys, Install, AdminInv, Wholes, Whole
<1>2. Careful => Valid(c)
  BY <1>1 DEF AdminInv, InForce, Valid, LimitsAgree
<1>3. \A s : LimitsAgree(WithLimits(c, s)) <=> LimitsAgree(WithLimits(cfg, s))
  BY <1>1 DEF LimitsAgree, WithLimits, Whole, Fields
<1> QED
  BY <1>1, <1>2, <1>3, CallAgrees DEF AdminInv, InForce

LEMMA ResetFollows ==
    ASSUME NEW c, NEW list, UpdateKeys(c, list), Reset, Whole(c) PROVE pool' = DOMAIN c.accounts
BY DEF UpdateKeys, Install, Reset, Whole, Fields

(* The configuration in force with other accounts, behind proxies it has.   *)
Rebuilt(c, accounts) ==
    /\ DOMAIN c = Fields /\ IsConfig(c) /\ c.accounts = accounts /\ c.synced = cfg.synced
    /\ c.perAccount = cfg.perAccount /\ c.global = cfg.global
    /\ \A b \in DOMAIN accounts : DOMAIN accounts[b] = {"proxy", "token"}
    /\ Careful => ProxiesKnown(c)

LEMMA AccountsRebuilt ==
    ASSUME AdminInv, NEW c, NEW accounts, NEW list, Rebuilt(c, accounts), UpdateKeys(c, list),
           Reset, UNCHANGED <<settings, sync, remote, cutOff>>
    PROVE  AdminInv'
<1>1. Whole(c)
  BY DEF Rebuilt, AdminInv, Wholes, Whole
<1> QED
  BY <1>1, ResetFollows, AccountsReplaced DEF Rebuilt

LEMMA AccountCallsAgree ==
    ASSUME AdminInv, NEW a, NEW p, AddAccount(a, p) \/ BindProxy(a, p) \/ DeleteAccount(a)
    PROVE  AdminInv'
<1>1. /\ Whole(cfg) /\ alive = "up" /\ Reset /\ UNCHANGED <<settings, sync, remote, cutOff>>
      /\ Careful => ProxiesKnown(cfg)
  BY DEF AdminInv, Wholes, InForce, Valid, AddAccount, BindProxy, DeleteAccount, calls,
         Update, UpdateKeys, Install
<1>2. CASE AddAccount(a, p)
  <2> DEFINE accounts == Joined(cfg.accounts, [x \in {a} |-> [proxy |-> p, token |-> FALSE]])
             c == [cfg EXCEPT !.accounts = accounts]
  <2>1. UpdateKeys(c, DOMAIN cfg.keys) /\ p \in cfg.proxies \cup {None}
    BY <1>1, <1>2 DEF AddAccount, WithAccounts, Update, Whole, Fields
  <2>2. \A b \in DOMAIN accounts : accounts[b] = [proxy |-> p, token |-> FALSE]
                                  \/ (b \in DOMAIN cfg.accounts /\ accounts[b] = cfg.accounts[b])
    BY DEF Joined
  <2> HIDE DEF accounts
  <2>3. Rebuilt(c, accounts)
    BY <1>1, <2>1, <2>2 DEF Rebuilt, Whole, ProxiesKnown, Fields, IsConfig
  <2> HIDE DEF c
  <2> QED
    BY <1>1, <2>1, <2>3, AccountsRebuilt
<1>3. CASE BindProxy(a, p)
  <2> DEFINE accounts == [cfg.accounts EXCEPT ![a] = [@ EXCEPT !.proxy = p]]
             c == [cfg EXCEPT !.accounts = accounts]
  <2>1. /\ UpdateKeys(c, DOMAIN cfg.keys) /\ p \in cfg.proxies \cup {None}
        /\ a \in DOMAIN cfg.accounts
    BY <1>1, <1>3 DEF BindProxy, Update, Whole, Fields
  <2>2. \A b \in DOMAIN accounts :
           /\ b \in DOMAIN cfg.accounts
           /\ accounts[b] = IF b = a THEN [cfg.accounts[a] EXCEPT !.proxy = p] ELSE cfg.accounts[b]
    OBVIOUS
  <2> HIDE DEF accounts
  <2>3. Rebuilt(c, accounts)
    BY <1>1, <2>1, <2>2 DEF Rebuilt, Whole, ProxiesKnown, Fields, IsConfig
  <2> HIDE DEF c
  <2> QED
    BY <1>1, <2>1, <2>3, AccountsRebuilt
<1>4. CASE DeleteAccount(a)
  <2> DEFINE accounts == Restrict(cfg.accounts, DOMAIN cfg.accounts \ {a})
             c == [cfg EXCEPT !.accounts = accounts]
  <2>1. UpdateKeys(c, DOMAIN cfg.keys)
    BY <1>1, <1>4 DEF DeleteAccount, Update, Whole, Fields
  <2>2. \A b \in DOMAIN accounts : b \in DOMAIN cfg.accounts /\ accounts[b] = cfg.accounts[b]
    BY DEF Restrict
  <2> HIDE DEF accounts
  <2>3. Rebuilt(c, accounts)
    BY <1>1, <2>2 DEF Rebuilt, Whole, ProxiesKnown, Fields, IsConfig
  <2> HIDE DEF c
  <2> QED
    BY <1>1, <2>1, <2>3, AccountsRebuilt
<1> QED
  BY <1>2, <1>3, <1>4

LEMMA ProxyCallsAgree ==
    ASSUME AdminInv, NEW p, AddProxy(p) \/ DeleteProxy(p) PROVE AdminInv'
<1>1. /\ Whole(cfg) /\ alive = "up" /\ pool' = pool /\ pool = DOMAIN cfg.accounts
      /\ UNCHANGED <<settings, sync, remote, cutOff>>
  BY DEF AdminInv, Wholes, AccountsAgree, PoolFollowsAccounts, AddProxy, DeleteProxy, calls,
         Update, UpdateKeys, Install
<1>2. CASE AddProxy(p)
  <2> DEFINE c == [cfg EXCEPT !.proxies = @ \cup {p}]
  <2>1. UpdateKeys(c, DOMAIN cfg.keys) /\ ProxiesKnown(c)
    BY <1>2 DEF AddProxy, Update
  <2>2. Rebuilt(c, cfg.accounts)
    BY <1>1, <2>1 DEF Rebuilt, Whole, Fields, IsConfig
  <2> HIDE DEF c
  <2> QED
    BY <1>1, <2>1, <2>2, AccountsReplaced DEF Rebuilt
<1>3. CASE DeleteProxy(p)
  <2> DEFINE accounts == [a \in DOMAIN cfg.accounts |->
                            IF cfg.accounts[a].proxy = p
                            THEN [cfg.accounts[a] EXCEPT !.proxy = None] ELSE cfg.accounts[a]]
             c == [cfg EXCEPT !.proxies = @ \ {p}, !.accounts = accounts]
  <2>1. UpdateKeys(c, DOMAIN cfg.keys) /\ ProxiesKnown(c)
    BY <1>1, <1>3 DEF DeleteProxy, Update, Whole, Fields
  <2>2. /\ DOMAIN accounts = DOMAIN cfg.accounts
        /\ \A a \in DOMAIN accounts : DOMAIN accounts[a] = {"proxy", "token"}
    BY <1>1 DEF Whole
  <2> HIDE DEF accounts
  <2>3. Rebuilt(c, accounts)
    BY <1>1, <2>1, <2>2 DEF Rebuilt, Whole, Fields, IsConfig
  <2> HIDE DEF c
  <2> QED
    BY <1>1, <2>1, <2>2, <2>3, AccountsReplaced DEF Rebuilt
<1> QED
  BY <1>2, <1>3

LEMMA ListedAccounts ==
    ASSUME NEW c, Whole(c), NEW a \in DOMAIN Listed(c)
    PROVE  /\ DOMAIN Listed(c)[a] = {"proxy", "token"}
           /\ Careful => Listed(c)[a].proxy \in cfg.proxies \cup {None}
<1>1. /\ a \in DOMAIN c.accounts /\ c.accounts[a].proxy \in ProxyChoice(cfg)
      /\ Listed(c)[a] = Tokenless(c).accounts[a]
  BY TokenlessWhole DEF Listed, Restrict
<1>2. /\ DOMAIN Tokenless(c).accounts[a] = {"proxy", "token"}
      /\ Tokenless(c).accounts[a].proxy = c.accounts[a].proxy
  BY <1>1, TokenlessWhole DEF Whole
<1> QED
  BY <1>1, <1>2 DEF ProxyChoice

LEMMA AccountsJoined ==
    ASSUME Whole(cfg), NEW new,
           \A a \in DOMAIN new : DOMAIN new[a] = {"proxy", "token"}
    PROVE  LET w == WithAccounts(cfg, new) IN
           /\ Whole(w) /\ w.accounts = Joined(cfg.accounts, new) /\ w.synced = cfg.synced
           /\ w.perAccount = cfg.perAccount /\ w.global = cfg.global /\ w.proxies = cfg.proxies
<1> DEFINE accounts == Joined(cfg.accounts, new)
           w == [cfg EXCEPT !.accounts = accounts]
<1>1. \A a \in DOMAIN accounts : DOMAIN accounts[a] = {"proxy", "token"}
  BY DEF Joined, Whole
<1>2. WithAccounts(cfg, new) = w
  BY DEF WithAccounts, Whole, Fields
<1> HIDE DEF accounts
<1>3. /\ Whole(w) /\ w.accounts = accounts /\ w.synced = cfg.synced
      /\ w.perAccount = cfg.perAccount /\ w.global = cfg.global /\ w.proxies = cfg.proxies
  BY <1>1 DEF Whole, Fields, IsConfig
<1> QED
  BY <1>2, <1>3 DEF accounts

LEMMA LimitsSet ==
    ASSUME NEW c, Whole(c), NEW new, new.perAccount \in Nat, new.global \in Nat
    PROVE  LET w == WithLimits(c, new) IN
           /\ Whole(w) /\ w.accounts = c.accounts /\ w.synced = c.synced /\ w.proxies = c.proxies
           /\ w.perAccount = IF new.perAccount > 0 THEN new.perAccount ELSE c.perAccount
           /\ w.global = IF new.global > 0 THEN new.global ELSE c.global
BY DEF WithLimits, Whole, Fields, IsConfig

LEMMA ImportsAgree ==
    ASSUME AdminInv, NEW c \in Imports,
           UpdateConfig(c) \/ BatchImport(c) \/ MergeConfig(c) \/ ReplaceConfig(c)
    PROVE  AdminInv'
<1>1. /\ Whole(cfg) /\ Whole(c) /\ alive = "up" /\ Reset
      /\ UNCHANGED <<settings, sync, remote, cutOff>>
      /\ Careful => ProxiesKnown(cfg)
  BY DEF AdminInv, Wholes, InForce, Valid, UpdateConfig, BatchImport, MergeConfig, ReplaceConfig,
         calls, Update, UpdateKeys, Install
<1>2. CASE UpdateConfig(c)
  <2> DEFINE d == [cfg EXCEPT !.accounts = Listed(c)]
  <2>1. UpdateKeys(d, DOMAIN c.keys)
    BY <1>2 DEF UpdateConfig
  <2>2. Rebuilt(d, Listed(c))
    BY <1>1, ListedAccounts DEF Rebuilt, Whole, ProxiesKnown, Fields, IsConfig
  <2> HIDE DEF d
  <2> QED
    BY <1>1, <2>1, <2>2, AccountsRebuilt
<1>3. CASE BatchImport(c)
  <2> DEFINE w == WithAccounts(cfg, Listed(c))
             d == [w EXCEPT !.keys = Merged(@, c.keys)]
  <2>1. UpdateKeys(d, DOMAIN cfg.keys)
    BY <1>3 DEF BatchImport, Update
  <2>2. /\ Whole(w) /\ w.accounts = Joined(cfg.accounts, Listed(c)) /\ w.synced = cfg.synced
        /\ w.perAccount = cfg.perAccount /\ w.global = cfg.global /\ w.proxies = cfg.proxies
    BY <1>1, ListedAccounts, AccountsJoined
  <2> HIDE DEF w
  <2>3. /\ DOMAIN d = Fields /\ IsConfig(d) /\ d.accounts = w.accounts /\ d.synced = w.synced
        /\ d.perAccount = w.perAccount /\ d.global = w.global /\ d.proxies = w.proxies
    BY <2>2 DEF Whole, Fields, IsConfig
  <2> HIDE DEF d
  <2>4. Careful => ProxiesKnown(d)
    BY <1>1, <2>2, <2>3, ListedAccounts DEF ProxiesKnown, Joined
  <2>5. Rebuilt(d, w.accounts)
    BY <2>2, <2>3, <2>4 DEF Rebuilt, Whole
  <2> QED
    BY <1>1, <2>1, <2>5, AccountsRebuilt
<1>4. CASE MergeConfig(c)
  <2> DEFINE w == WithAccounts(cfg, Tokenless(c).accounts)
             v == WithLimits(w, c)
             d == [v EXCEPT !.keys = Merged(@, c.keys)]
  <2>1. UpdateKeys(d, DOMAIN cfg.keys) /\ Valid(d) /\ (Careful => settings = NoSettings)
    BY <1>4 DEF MergeConfig, Update, Alone
  <2>2. Whole(w) /\ w.synced = cfg.synced
    BY <1>1, TokenlessWhole, AccountsJoined DEF Whole
  <2> HIDE DEF w
  <2>3. Whole(v) /\ v.synced = cfg.synced
    <3>1. c.perAccount \in Nat /\ c.global \in Nat
      BY <1>1 DEF Whole
    <3> QED
      BY <2>2, <3>1, LimitsSet
  <2> HIDE DEF v
  <2>4. Whole(d) /\ d.synced = cfg.synced
    BY <2>3 DEF Whole, Fields, IsConfig
  <2> HIDE DEF d
  <2> QED
    BY <1>1, <2>1, <2>4, ResetFollows, CallAgrees
<1>5. CASE ReplaceConfig(c)
  <2> DEFINE w == Tokenless(c)
             d == [w EXCEPT !.synced = cfg.synced]
  <2>1. UpdateKeys(d, DOMAIN c.keys) /\ Valid(d) /\ (Careful => settings = NoSettings)
    BY <1>5 DEF ReplaceConfig, Alone
  <2>2. Whole(w)
    BY <1>1, TokenlessWhole
  <2> HIDE DEF w
  <2>3. Whole(d) /\ d.synced = cfg.synced
    BY <2>2 DEF Whole, Fields, IsConfig
  <2> HIDE DEF d
  <2> QED
    BY <1>1, <2>1, <2>3, ResetFollows, CallAgrees
<1> QED
  BY <1>2, <1>3, <1>4, <1>5

(* Settings go in as they were checked: nothing else set limits meanwhile.  *)
LEMMA SettingsAgree ==
    ASSUME AdminInv,
           \/ StoreSettings
           \/ \E s \in [perAccount : Limit \cup {0}, global : Limit \cup {0}] : CheckSettings(s)
    PROVE  AdminInv'
<1>1. Whole(cfg) /\ settings \in [perAccount : Nat, global : Nat]
  BY DEF AdminInv, Wholes
<1>2. CASE StoreSettings
  <2> DEFINE c == WithLimits(cfg, settings)
  <2>1. /\ UpdateKeys(c, DOMAIN cfg.keys) /\ settings # NoSettings /\ settings' = NoSettings
        /\ UNCHANGED <<pool, sync, remote, cutOff>> /\ alive = "up"
    BY <1>2 DEF StoreSettings, Update, UpdateKeys, Install
  <2>2. Whole(c) /\ c.accounts = cfg.accounts /\ c.synced = cfg.synced /\ c.proxies = cfg.proxies
    BY <1>1, LimitsSet
  <2>3. Careful => LimitsAgree(c) /\ ProxiesKnown(cfg)
    BY <2>1 DEF AdminInv, InForce, Valid
  <2>4. pool' = DOMAIN cfg.accounts
    BY <2>1 DEF AdminInv, AccountsAgree, PoolFollowsAccounts
  <2> HIDE DEF c
  <2>5. Careful => Valid(c)
    BY <2>2, <2>3 DEF Valid, ProxiesKnown
  <2> QED
    BY <2>1, <2>2, <2>4, <2>5, CallAgrees
<1>3. CASE \E s \in [perAccount : Limit \cup {0}, global : Limit \cup {0}] : CheckSettings(s)
  <2>1. PICK s \in [perAccount : Limit \cup {0}, global : Limit \cup {0}] : CheckSettings(s)
    BY <1>3
  <2>2. s \in [perAccount : Nat, global : Nat]
    <3>1. \A l \in Limit \cup {0} : l \in Nat
      BY LimitsAssumption
    <3> QED
      BY <2>1, <3>1
  <2> QED
    BY <2>1, <2>2
       DEF CheckSettings, configVars, AdminInv, Wholes, AccountsAgree, PoolFollowsAccounts,
           StatusOfAccounts, TokensStayInMemory, Noted, Loadables, InForce, SavedConfigLoads
<1> QED
  BY <1>2, <1>3

LEMMA TestsAgree ==
    ASSUME AdminInv, NEW a, TestBegins(a) \/ TestStoresToken(a) \/ TestEnds(a)
    PROVE  AdminInv'
<1>1. /\ Whole(cfg) /\ UNCHANGED <<pool, settings, sync, remote, cutOff>>
      /\ alive = "up" => pool = DOMAIN cfg.accounts
  BY DEF AdminInv, Wholes, AccountsAgree, PoolFollowsAccounts, TestBegins, TestStoresToken, TestEnds
<1>2. CASE UNCHANGED configVars
  BY <1>1, <1>2
     DEF configVars, AdminInv, Wholes, AccountsAgree, PoolFollowsAccounts,
         StatusOfAccounts, TokensStayInMemory, Noted, Loadables, InForce, SavedConfigLoads
<1>3. CASE a \in DOMAIN cfg.accounts /\ UpdateAccountToken(a, TRUE)
  <2> DEFINE accounts == [cfg.accounts EXCEPT ![a] = [@ EXCEPT !.token = TRUE]]
             c == [cfg EXCEPT !.accounts = accounts]
  <2>1. Install(c) /\ alive = "up"
    BY <1>1, <1>3 DEF UpdateAccountToken, Install, Whole, Fields
  <2>2. /\ DOMAIN accounts = DOMAIN cfg.accounts
        /\ \A b \in DOMAIN accounts : /\ DOMAIN accounts[b] = {"proxy", "token"}
                                      /\ accounts[b].proxy = cfg.accounts[b].proxy
    BY <1>1 DEF Whole
  <2> HIDE DEF accounts
  <2>3. /\ Whole(c) /\ c.accounts = accounts /\ c.proxies = cfg.proxies /\ c.synced = cfg.synced
        /\ c.perAccount = cfg.perAccount /\ c.global = cfg.global
    BY <1>1, <2>2 DEF Whole, Fields, IsConfig
  <2> HIDE DEF c
  <2>4. Careful => Valid(c)
    BY <1>1, <2>1, <2>2, <2>3 DEF AdminInv, InForce, Valid, ProxiesKnown, LimitsAgree
  <2>5. \A s : LimitsAgree(WithLimits(c, s)) <=> LimitsAgree(WithLimits(cfg, s))
    BY <1>1, <2>3 DEF LimitsAgree, WithLimits, Whole, Fields
  <2> QED
    BY <1>1, <2>1, <2>2, <2>3, <2>4, <2>5, InstallAgrees DEF AdminInv, InForce, Noted
<1>4. CASE TestEnds(a)
  <2>1. /\ UNCHANGED <<cfg, alive, file, env>>
        /\ tests' = IF a \in DOMAIN cfg.accounts
                    THEN Joined([x \in {a} |-> testing[a]], tests) ELSE tests
    BY <1>4 DEF TestEnds, UpdateAccountTestStatus
  <2>2. StatusOfAccounts'
    BY <2>1 DEF AdminInv, AccountsAgree, StatusOfAccounts, Joined
  <2> QED
    BY <1>1, <2>1, <2>2
       DEF AdminInv, Wholes, AccountsAgree, PoolFollowsAccounts, TokensStayInMemory, Noted,
           Loadables, InForce, SavedConfigLoads
<1> QED
  BY <1>2, <1>3, <1>4 DEF TestBegins, TestStoresToken

(* What is installed on the way of a synchronisation changes no account.    *)
LEMMA NotingAgrees ==
    ASSUME AdminInv, NEW c, Whole(c), NEW list, UpdateKeys(c, list),
           c.accounts = cfg.accounts, c.proxies = cfg.proxies,
           c.perAccount = cfg.perAccount, c.global = cfg.global,
           UNCHANGED <<pool, settings>>,
           ~cutOff' /\ sync'.phase \in {"idle", "exported"} => c.synced = remote',
           sync'.phase \in {"upserted", "saved"} => remote' = sync'.export
    PROVE  AdminInv'
<1> DEFINE d == [c EXCEPT !.keys = Reconciled(cfg, list, c.keys)]
<1>1. Install(d) /\ Whole(cfg) /\ alive = "up" /\ pool' = DOMAIN cfg.accounts
  BY DEF UpdateKeys, Install, AdminInv, Wholes, AccountsAgree, PoolFollowsAccounts
<1>2. /\ Whole(d) /\ d.accounts = c.accounts /\ d.synced = c.synced /\ d.proxies = c.proxies
      /\ d.perAccount = c.perAccount /\ d.global = c.global
  BY DEF Whole, Fields, IsConfig
<1> HIDE DEF d
<1>3. Careful => Valid(d)
  BY <1>1, <1>2 DEF AdminInv, InForce, Valid, ProxiesKnown, LimitsAgree
<1>4. \A s : LimitsAgree(WithLimits(d, s)) <=> LimitsAgree(WithLimits(cfg, s))
  BY <1>1, <1>2 DEF LimitsAgree, WithLimits, Whole, Fields
<1> QED
  BY <1>1, <1>2, <1>3, <1>4, InstallAgrees DEF AdminInv, InForce

(* What is noted at the end is what was exported at the beginning, whatever  *)
(* was changed in between.                                                  *)
LEMMA SyncAgrees ==
    ASSUME AdminInv, SyncExports \/ SyncUpserts \/ SyncSavesCredentials \/ SyncNotes
    PROVE  AdminInv'
<1>1. Whole(cfg) /\ UNCHANGED <<pool, settings>>
  BY DEF AdminInv, Wholes, SyncExports, SyncUpserts, SyncSavesCredentials, SyncNotes
<1>2. CASE SyncExports \/ SyncUpserts
  <2>1. UNCHANGED <<cfg, tests, alive, file, env>>
    BY <1>2 DEF SyncExports, SyncUpserts, configVars
  <2>2. Noted'
    BY <1>1, <1>2, <2>1 DEF AdminInv, Noted, SyncExports, SyncUpserts, Synced, Idle
  <2> QED
    BY <1>1, <2>1, <2>2
       DEF AdminInv, Wholes, AccountsAgree, PoolFollowsAccounts, StatusOfAccounts,
           TokensStayInMemory, Loadables, InForce, SavedConfigLoads
<1>3. CASE SyncSavesCredentials
  <2> DEFINE c == [cfg EXCEPT !.vercel = TRUE]
  <2>1. /\ UpdateKeys(c, DOMAIN cfg.keys) /\ UNCHANGED <<remote, cutOff>>
        /\ sync.phase = "upserted" /\ sync'.phase = "saved" /\ sync'.export = sync.export
    BY <1>3 DEF SyncSavesCredentials, Update, Synced
  <2>2. remote' = sync'.export
    BY <2>1 DEF AdminInv, Noted
  <2>3. /\ Whole(c) /\ c.accounts = cfg.accounts /\ c.proxies = cfg.proxies
        /\ c.perAccount = cfg.perAccount /\ c.global = cfg.global
    BY <1>1 DEF Whole, Fields, IsConfig
  <2> HIDE DEF c
  <2> QED
    BY <1>1, <2>1, <2>2, <2>3, NotingAgrees
<1>4. CASE SyncNotes
  <2> DEFINE c == [cfg EXCEPT !.synced = sync.export]
  <2>1. /\ UpdateKeys(c, DOMAIN cfg.keys) /\ UNCHANGED <<remote, cutOff>>
        /\ sync.phase \in {"upserted", "saved"} /\ sync'.phase = "idle"
    BY <1>4 DEF SyncNotes, Update, Idle
  <2>2. /\ Whole(c) /\ c.accounts = cfg.accounts /\ c.proxies = cfg.proxies
        /\ c.perAccount = cfg.perAccount /\ c.global = cfg.global /\ c.synced = sync.export
    BY <1>1 DEF Whole, Fields, IsConfig
  <2>3. c.synced = remote'
    BY <2>1, <2>2 DEF AdminInv, Noted
  <2> HIDE DEF c
  <2> QED
    BY <1>1, <2>1, <2>2, <2>3, NotingAgrees
<1> QED
  BY <1>2, <1>3, <1>4

LEMMA StartAgrees == ASSUME AdminInv, AdminStart PROVE AdminInv'
<1>1. PICK l \in LoadConfig :
        /\ alive' = IF l.ok THEN "up" ELSE "refused"
        /\ cfg' = l.cfg /\ file' = l.file
  BY DEF AdminStart, Start
<1>2. /\ tests' = <<>> /\ env' = env /\ alive = "down" /\ UNCHANGED <<settings, sync, remote>>
      /\ pool' = IF alive' = "up" THEN DOMAIN cfg'.accounts ELSE {}
      /\ cutOff' = (cutOff \/ remote # cfg'.synced)
  BY DEF AdminStart, Start
<1>3. /\ Whole(env.cfg) /\ WholeFile(file) /\ IsEnv(env) /\ TokensStayInMemory
      /\ settings = NoSettings /\ sync.phase = "idle"
      /\ Careful => Loadables
  BY <1>2 DEF AdminInv, Wholes, AccountsAgree, Noted
<1>4. \/ \E c, e, f : /\ l = Loaded(c, e, f) /\ f \in {file, Tokenless(env.cfg)}
                      /\ c \in {env.cfg, EmptyConfig} \/ (c = file /\ IsConfig(file))
      \/ l = NotLoaded /\ (file \in {Missing, Torn} \/ env.json = "broken")
  <2>1. WholeFile(file) /\ ~IsConfig(file) => file \in {Missing, Torn}
    BY DEF WholeFile, Whole
  <2>2. CASE env.json = "config"
    <3>1. LoadConfig = FromEnvironment
      BY <2>2 DEF LoadConfig, None
    <3> QED
      BY <3>1 DEF FromEnvironment
  <2>3. CASE env.json = "broken"
    <3>1. LoadConfig = FromEnvironmentBroken
      BY <2>3 DEF LoadConfig, None
    <3> QED
      BY <2>3, <3>1 DEF FromEnvironmentBroken
  <2>4. CASE env.json = None
    <3>1. LoadConfig = FromFile
      BY <2>4 DEF LoadConfig, None
    <3> QED
      BY <1>3, <2>1, <3>1 DEF FromFile
  <2> QED
    BY <1>3, <2>2, <2>3, <2>4 DEF IsEnv
<1>5. /\ Whole(l.cfg) /\ l.file \in {file, Tokenless(env.cfg)} /\ (Careful => Valid(l.cfg))
      /\ \/ alive' = IF Valid(l.cfg) THEN "up" ELSE "refused"
         \/ l.file = file /\ (file \in {Missing, Torn} \/ env.json = "broken")
  <2>1. CASE l = NotLoaded /\ (file \in {Missing, Torn} \/ env.json = "broken")
    <3>1. l.cfg = EmptyConfig /\ l.file = file
      BY <2>1 DEF NotLoaded
    <3> QED
      BY <2>1, <3>1, EmptyIsWhole
  <2>2. CASE ~(l = NotLoaded /\ (file \in {Missing, Torn} \/ env.json = "broken"))
    <3>1. PICK c, e, f : /\ l = Loaded(c, e, f) /\ f \in {file, Tokenless(env.cfg)}
                         /\ c \in {env.cfg, EmptyConfig} \/ (c = file /\ IsConfig(file))
      BY <1>4, <2>2
    <3>2. l.cfg = c /\ l.file = f /\ alive' = IF Valid(c) THEN "up" ELSE "refused"
      BY <1>1, <3>1 DEF Loaded
    <3> QED
      BY <1>3, <3>1, <3>2, EmptyIsWhole, NotAConfig DEF WholeFile, Loadables
  <2> QED
    BY <2>1, <2>2
<1>6. /\ Whole(Tokenless(env.cfg)) /\ Tokenless(Tokenless(env.cfg)) = Tokenless(env.cfg)
      /\ Valid(Tokenless(env.cfg)) <=> Valid(env.cfg)
  BY <1>3, TokenlessWhole
<1>7. Wholes'
  BY <1>1, <1>2, <1>5, <1>6 DEF AdminInv, Wholes, WholeFile
<1>8. AccountsAgree'
  BY <1>1, <1>2, <1>3, <1>5, <1>6
     DEF AccountsAgree, PoolFollowsAccounts, StatusOfAccounts, TokensStayInMemory
<1>9. Noted'
  BY <1>2, <1>3 DEF Noted
<1>10. Careful => Loadables' /\ InForce'
  BY <1>1, <1>2, <1>3, <1>5, <1>6 DEF Loadables, InForce
<1>11. Careful => SavedConfigLoads'
  BY <1>1, <1>2, <1>5 DEF SavedConfigLoads
<1> QED
  BY <1>7, <1>8, <1>9, <1>10, <1>11 DEF AdminInv

LEMMA CrashAgrees == ASSUME AdminInv, AdminCrash PROVE AdminInv'
<1>1. /\ alive' = "down" /\ cfg' = EmptyConfig /\ tests' = <<>> /\ UNCHANGED <<file, env>>
      /\ pool' = {} /\ settings' = NoSettings /\ sync' = Idle
  BY DEF AdminCrash, Crash
<1> QED
  BY <1>1, EmptyIsWhole
     DEF AdminInv, Wholes, NoSettings, AccountsAgree, PoolFollowsAccounts, StatusOfAccounts,
         TokensStayInMemory, Noted, Idle, Loadables, InForce, SavedConfigLoads

LEMMA AdminInvStep == AdminInv /\ [AdminNext(Imports, TestedOnes)]_adminVars => AdminInv'
<1> SUFFICES ASSUME AdminInv, [AdminNext(Imports, TestedOnes)]_adminVars PROVE AdminInv'
  OBVIOUS
<1>1. CASE UNCHANGED adminVars
  BY <1>1
     DEF adminVars, configVars, AdminInv, Wholes, AccountsAgree, PoolFollowsAccounts,
         StatusOfAccounts, TokensStayInMemory, Noted, Loadables, InForce, SavedConfigLoads
<1> QED
  BY <1>1, KeyCallsAgree, AccountCallsAgree, ProxyCallsAgree, ImportsAgree, SettingsAgree,
     TestsAgree, SyncAgrees, StartAgrees, CrashAgrees DEF AdminNext

LEMMA AdminInvHolds == AdminSpec => []AdminInv
BY AdminInvInit, AdminInvStep, PTL DEF AdminSpec

(* The pool queues the accounts of the configuration, test statuses are of  *)
(* accounts there are, and no token is on disk, whatever an account test    *)
(* finds when it comes back (handler_accounts_crud.go:77-176,                *)
(* handler_accounts_testing.go:99-207, store.go:267-283).                   *)
THEOREM AccountsAgreeCorrect == AdminSpec => []AccountsAgree
<1>1. AdminInv => AccountsAgree
  BY DEF AdminInv
<1> QED
  BY <1>1, AdminInvHolds, PTL

(* What is shown as synchronised is what the project at Vercel has: changes  *)
(* made while a synchronisation was out are seen (handler_vercel.go:20-126,  *)
(* 253-324).                                                                *)
THEOREM SyncedIsDeployedCorrect == AdminSpec => []SyncedIsDeployed
<1>1. AdminInv => SyncedIsDeployed
  BY DEF AdminInv, Noted, SyncedIsDeployed
<1> QED
  BY <1>1, AdminInvHolds, PTL

(* With administrators who name proxies that exist and make one call after   *)
(* the other, whatever the program has written it can start with             *)
(* (loadStore, store.go:44-51; ValidateConfig, validation.go:8-34).          *)
THEOREM SavedConfigLoadsCorrect == ASSUME Careful PROVE AdminSpec => []SavedConfigLoads
<1>1. AdminInv => SavedConfigLoads
  BY DEF AdminInv
<1> QED
  BY <1>1, AdminInvHolds, PTL

============================================================================
