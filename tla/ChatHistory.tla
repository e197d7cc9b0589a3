----------------------------- MODULE ChatHistory -----------------------------
(***************************************************************************)
(* The chat history of ds2api (internal/chathistory/store.go): one detail  *)
(* file per answered request and an index file of their summaries, kept in *)
(* memory and written through; with the sessions of the requests that      *)
(* record their answers (chat/chat_history.go, responsehistory/session.go) *)
(* and the admin calls that list, delete, clear and limit it.              *)
(*                                                                         *)
(* A method of the store holds its mutex: it is one step.  The files are   *)
(* replaced one by one, each atomically, and any of them may fail, which   *)
(* ends the save; so a crash in the middle of a save is a failed save      *)
(* followed by a crash.  An entry is its revision, its time of creation    *)
(* and its status; summaries are read off it.  Revisions are times in      *)
(* nanoseconds, taken to grow from call to call.                           *)
(***************************************************************************)
EXTENDS Integers, FiniteSets, Functions, TLC

CONSTANTS
    Session,       \* the requests that record their answers
    EntryLimits,   \* allowedLimits without the zero that disables the store
    DefaultLimit,
    MaxEntryId,    \* bound: entries ever created
    MaxRevision,   \* bound: revisions ever given
    MaxRuns        \* bound: starts of the process

ASSUME HistoryAssumption ==
    /\ EntryLimits \subseteq Nat \ {0} /\ DefaultLimit \in Nat \ {0}
    /\ MaxEntryId \in Nat \ {0} /\ MaxRevision \in Nat \ {0}

VARIABLES
    details,   \* Store.details: entry by id
    limit,     \* state.Limit
    revision,  \* state.Revision
    dirty, deleted,
    unread,    \* Store.err: the files could not be read at start
    run,       \* starts of the process so far
    up,        \* the process runs
    files,     \* the detail files
    index,     \* the index file, with its kind: none, legacy, index
    nextEntry, \* the next id
    nextRev,   \* the next revision
    now,       \* the current millisecond
    session,   \* per request: phase, entry, and the status still to be written
    orphans,   \* history: detail files the index did not name at the last start
    cache      \* the list a browser has, with its ETag: run and revision

memoryVars  == <<details, limit, revision, dirty, deleted, unread>>
clockVars   == <<nextEntry, nextRev, now>>
historyVars == <<memoryVars, run, up, files, index, clockVars, session, orphans, cache>>

Entries == [rev : 1 .. MaxRevision, created : Nat,
            status : {"streaming", "success", "error", "stopped"}]
NoEntries == <<>>

HistoryTypeOK ==
    /\ IsFiniteSet(DOMAIN details) /\ DOMAIN details \subseteq 1 .. MaxEntryId
    /\ \A i \in DOMAIN details : details[i] \in Entries
    /\ limit \in EntryLimits \cup {0, DefaultLimit} /\ revision \in 0 .. MaxRevision
    /\ dirty \cap deleted = {}
    /\ DOMAIN files \subseteq 1 .. MaxEntryId
    /\ limit # 0 => Cardinality(DOMAIN details) <= limit

----------------------------------------------------------------------------
(* rebuildIndexLocked: the order of the list, and what falls off its end.   *)
Newer(d, i, j) == \/ d[i].created > d[j].created
                  \/ d[i].created = d[j].created /\ d[i].rev > d[j].rev

Kept(d, lim) ==
    IF lim = 0 THEN DOMAIN d
    ELSE {i \in DOMAIN d : Cardinality({j \in DOMAIN d : Newer(d, j, i)}) < lim}

(* Mutant: what is pending is forgotten although the index was not written. *)
SaveForgetful(d, lim, rev, dy, dl) ==
    \E removed \in SUBSET dl, written \in SUBSET dy, done \in BOOLEAN :
        /\ written # {} => removed = dl
        /\ done => removed = dl /\ written = dy
        /\ files' = [i \in (DOMAIN files \ removed) \cup written |->
                       IF i \in written THEN d[i] ELSE files[i]]
        /\ index' = IF done THEN [kind |-> "index", limit |-> lim, revision |-> rev, items |-> d]
                            ELSE index
        /\ dirty' = {} /\ deleted' = {}

(* saveLocked: stale detail files are removed, changed ones written, then   *)
(* the index; what is pending is forgotten only at the end.                 *)
Save(d, lim, rev, dy, dl) ==
    \E removed \in SUBSET dl, written \in SUBSET dy, done \in BOOLEAN :
        /\ written # {} => removed = dl
        /\ done => removed = dl /\ written = dy
        /\ files' = [i \in (DOMAIN files \ removed) \cup written |->
                       IF i \in written THEN d[i] ELSE files[i]]
        /\ index' = IF done THEN [kind |-> "index", limit |-> lim, revision |-> rev, items |-> d]
                            ELSE index
        /\ dirty' = IF done THEN {} ELSE dy
        /\ deleted' = IF done THEN {} ELSE dl

(* The end of every method that changes something. *)
Store(d, lim, rev, dy, dl) ==
    LET kept == Kept(d, lim) IN
    /\ details' = Restrict(d, kept)
    /\ limit' = lim /\ revision' = rev
    /\ Save(details', lim, rev, dy \cap kept, dl \cup (DOMAIN d \ kept))

(* nextRevisionLocked, of a clock that moves on. *)
NextRevision == nextRev <= MaxRevision /\ nextRev' = nextRev + 1

Serving == up /\ ~unread

(* An entry is new, or replaces the one with its id. *)
Put(d, id, entry) ==
    [i \in DOMAIN d \cup {id} |-> IF i = id THEN entry ELSE d[i]]

StoreStart ==
    /\ nextEntry <= MaxEntryId /\ NextRevision
    /\ \E t \in {now, now + 1} :
         /\ now' = t
         /\ Store(Put(details, nextEntry,
                      [rev |-> nextRev, created |-> t, status |-> "streaming"]),
                  limit, nextRev, dirty \cup {nextEntry}, deleted)
    /\ nextEntry' = nextEntry + 1

StoreUpdate(id, status) ==
    /\ NextRevision
    /\ Store([details EXCEPT ![id].rev = nextRev, ![id].status = status],
             limit, nextRev, dirty \cup {id}, deleted \ {id})
    /\ UNCHANGED <<nextEntry, now>>

----------------------------------------------------------------------------
(* The sessions of requests. *)

Become(s, phase, entry, want) ==
    session' = [session EXCEPT ![s] = [phase |-> phase, entry |-> entry, want |-> want]]
Phase(s, phase) == session[s].phase = phase

BeginSession(s) ==
    /\ Phase(s, "new") /\ up
    /\ IF unread \/ limit = 0
       THEN /\ Become(s, "off", 0, "none")
            /\ UNCHANGED <<memoryVars, files, index, clockVars>>
       ELSE /\ StoreStart
            /\ Become(s, "streaming", nextEntry, "none")
            /\ UNCHANGED unread
    /\ UNCHANGED <<run, up, orphans, cache>>

After(status) == IF status = "streaming" THEN "streaming" ELSE "done"

(* progress, success, error, stopped. *)
Record(s, status) ==
    /\ Phase(s, "streaming") /\ Serving
    /\ IF session[s].entry \in DOMAIN details
       THEN /\ StoreUpdate(session[s].entry, status)
            /\ Become(s, After(status), session[s].entry, "none")
            /\ UNCHANGED unread
       ELSE /\ Become(s, "missing", session[s].entry, status)
            /\ UNCHANGED <<memoryVars, files, index, clockVars>>
    /\ UNCHANGED <<run, up, orphans, cache>>

(* Mutant: the session keeps the id of the entry that is gone. *)
RecreateUnnamed(s) ==
    /\ Phase(s, "missing") /\ Serving
    /\ IF limit = 0
       THEN /\ Become(s, "off", 0, "none")
            /\ UNCHANGED <<memoryVars, files, index, clockVars>>
       ELSE /\ StoreStart
            /\ Become(s, "retry", session[s].entry, session[s].want)
            /\ UNCHANGED unread
    /\ UNCHANGED <<run, up, orphans, cache>>

(* The entry is gone, deleted or pushed out by newer ones: a new one is     *)
(* made, unless history was disabled.                                       *)
Recreate(s) ==
    /\ Phase(s, "missing") /\ Serving
    /\ IF limit = 0
       THEN /\ Become(s, "off", 0, "none")
            /\ UNCHANGED <<memoryVars, files, index, clockVars>>
       ELSE /\ StoreStart
            /\ Become(s, "retry", nextEntry, session[s].want)
            /\ UNCHANGED unread
    /\ UNCHANGED <<run, up, orphans, cache>>

(* The second try; gone again, the session gives up. *)
RecordAgain(s) ==
    /\ Phase(s, "retry") /\ Serving
    /\ IF session[s].entry \in DOMAIN details
       THEN /\ StoreUpdate(session[s].entry, session[s].want)
            /\ Become(s, After(session[s].want), session[s].entry, "none")
            /\ UNCHANGED unread
       ELSE /\ Become(s, "off", 0, "none")
            /\ UNCHANGED <<memoryVars, files, index, clockVars>>
    /\ UNCHANGED <<run, up, orphans, cache>>

----------------------------------------------------------------------------
(* Admin calls. *)

Delete(id) ==
    /\ Serving /\ id \in DOMAIN details
    /\ NextRevision
    /\ Store(Restrict(details, DOMAIN details \ {id}), limit, nextRev,
             dirty \ {id}, deleted \cup {id})
    /\ UNCHANGED <<unread, run, up, nextEntry, now, session, orphans, cache>>

Clear ==
    /\ Serving
    /\ NextRevision
    /\ Store(NoEntries, limit, nextRev, dirty \ DOMAIN details, deleted \cup DOMAIN details)
    /\ UNCHANGED <<unread, run, up, nextEntry, now, session, orphans, cache>>

(* Mutant: a new limit shortens the list under its old revision. *)
SetLimitQuietly(l) ==
    /\ Serving
    /\ Store(details, l, revision, dirty, deleted)
    /\ UNCHANGED <<unread, run, up, clockVars, session, orphans, cache>>

SetLimit(l) ==
    /\ Serving
    /\ NextRevision
    /\ Store(details, l, nextRev, dirty, deleted)
    /\ UNCHANGED <<unread, run, up, nextEntry, now, session, orphans, cache>>

(* A browser fetches the list and keeps it with its ETag. *)
FetchList ==
    /\ Serving
    /\ cache' = [run |-> run, revision |-> revision, list |-> details]
    /\ UNCHANGED <<memoryVars, run, up, files, index, clockVars, session, orphans>>

----------------------------------------------------------------------------
(* The process. *)

HistoryCrash ==
    /\ up /\ run < MaxRuns
    /\ up' = FALSE
    /\ details' = NoEntries /\ dirty' = {} /\ deleted' = {}
    /\ session' = [s \in Session |-> IF Phase(s, "new") THEN session[s]
                                     ELSE [phase |-> "lost", entry |-> 0, want |-> "none"]]
    /\ UNCHANGED <<limit, revision, unread, run, files, index, clockVars, orphans, cache>>

(* loadLocked, of an index file. *)
LoadIndex ==
    LET ids == DOMAIN index.items IN
    /\ index.kind = "index"
    /\ orphans' = DOMAIN files \ ids
    /\ IF ids \subseteq DOMAIN files
       THEN /\ unread' = FALSE
            /\ Store(Restrict(files, ids), index.limit, index.revision, {}, {})
       ELSE /\ unread' = TRUE
            /\ limit' = index.limit /\ revision' = index.revision
            /\ UNCHANGED <<details, dirty, deleted, files, index>>

(* loadLegacyLocked: the entries are in the index file itself. *)
LoadLegacy ==
    /\ index.kind = "legacy"
    /\ orphans' = DOMAIN files \ DOMAIN index.items
    /\ unread' = FALSE
    /\ Store(index.items, index.limit, index.revision, DOMAIN index.items, {})

LoadNothing ==
    /\ index.kind = "none"
    /\ orphans' = DOMAIN files
    /\ unread' = FALSE
    /\ Store(NoEntries, DefaultLimit, 0, {}, {})

Load ==
    /\ ~up
    /\ up' = TRUE /\ run' = run + 1
    /\ LoadIndex \/ LoadLegacy \/ LoadNothing
    /\ UNCHANGED <<clockVars, session, cache>>

HistoryInit ==
    /\ details = NoEntries /\ limit = DefaultLimit /\ revision = 0
    /\ dirty = {} /\ deleted = {} /\ unread = FALSE
    /\ run = 0 /\ up = FALSE
    /\ files = NoEntries
    /\ \/ /\ index = [kind |-> "none", limit |-> 0, revision |-> 0, items |-> NoEntries]
          /\ nextEntry = 1 /\ nextRev = 1 /\ now = 1
       \/ /\ \E l \in EntryLimits :
               index = [kind |-> "legacy", limit |-> l, revision |-> 1,
                        items |-> Put(NoEntries, 1, [rev |-> 1, created |-> 1,
                                                     status |-> "success"])]
          /\ nextEntry = 2 /\ nextRev = 2 /\ now = 1
    /\ session = [s \in Session |-> [phase |-> "new", entry |-> 0, want |-> "none"]]
    /\ orphans = {}
    /\ cache = [run |-> 0, revision |-> 0, list |-> NoEntries]

HistoryNext ==
    \/ \E s \in Session :
         \/ BeginSession(s)
         \/ \E status \in {"streaming", "success"} : Record(s, status)
         \/ Recreate(s) \/ RecordAgain(s)
    \/ \E id \in 1 .. MaxEntryId : Delete(id)
    \/ Clear
    \/ \E l \in EntryLimits \cup {0} : SetLimit(l)
    \/ FetchList \/ HistoryCrash \/ Load

----------------------------------------------------------------------------
(* Whatever saves have failed, the files of the running store differ from    *)
(* what it has in memory only where a later save will look: an entry's file  *)
(* only if it is dirty, a file without entry only if it is to be deleted or  *)
(* was already nobody's at the start, and the index names no missing file    *)
(* but one of these; and the list keeps its limit (saveLocked,               *)
(* store.go:502-545, 563-582, 728-761).                                      *)
PendingCoversDisk == HistoryTypeOK /\ (Serving =>
    /\ \A i \in DOMAIN details \ dirty : i \in DOMAIN files /\ files[i] = details[i]
    /\ DOMAIN files \subseteq DOMAIN details \cup deleted \cup orphans
    /\ index.kind = "index" => DOMAIN index.items \subseteq DOMAIN files \cup deleted)

(* A conditional request is honest: while the process runs, a list with the  *)
(* revision a browser has seen is the list it has seen; and an entry's ETag  *)
(* names its content even across a crash, in memory and on disk              *)
(* (nextRevisionLocked, store.go:584-591; handler_chat_history.go:13-110).   *)
EtagHonest == Serving =>
    /\ cache.run = run /\ cache.revision = revision => cache.list = details
    /\ \A i \in DOMAIN details \cap DOMAIN cache.list :
         details[i].rev = cache.list[i].rev => details[i] = cache.list[i]

(* An entry shown as streaming is being streamed: however entries are        *)
(* deleted, pushed out and made anew, none stays behind in that state unless *)
(* the process has crashed (chat_history.go:207-261, session.go:217-271).    *)
NoGhostEntry == run <= 1 =>
    \A i \in DOMAIN details : details[i].status = "streaming" =>
        \E s \in Session : session[s].entry = i /\ session[s].phase \in {"streaming", "retry"}
============================================================================
