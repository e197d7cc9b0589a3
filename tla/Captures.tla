------------------------------ MODULE Captures ------------------------------
(***************************************************************************)
(* Captured upstream traffic of ds2api (internal/devcapture): a bounded    *)
(* list of recent exchanges, newest first, filled when a response body     *)
(* ends; and the samples saved from it (admin/rawsamples,                  *)
(* internal/rawsample): the exchanges of one chat session, or those that   *)
(* appeared while a request of the admin's was served.                     *)
(*                                                                         *)
(* A session's exchanges, its rounds, follow one another; sessions         *)
(* overlap.  A body is its identity.  A sample is written in a directory   *)
(* of its own and moved to its name.                                       *)
(***************************************************************************)
EXTENDS Subsequences, SequencesExt

CONSTANTS
    ChatSession,
    CaptureLimit, \* Store.limit
    MaxRounds,    \* bound: rounds of a session
    MaxSeconds,   \* bound: the clock, in seconds
    MaxSamples    \* bound: samples being saved or saved

VARIABLES
    items,    \* Store.items
    open,     \* per session: the round whose body is read, 0 if none
    openedAt, \* per session: the second that round began (Session.createdAt)
    rounds,   \* per session: rounds begun
    second,
    before,   \* the snapshot of a captureRawSample under way; no session: none
    saving,   \* samples written under a temporary name, with the name chosen
    samples   \* the samples by name

captureVars == <<items, open, openedAt, rounds, second, before, saving, samples>>

NoCapture == [session |-> "none", seen |-> {}]

ASSUME CaptureLimitIsNat == CaptureLimit \in Nat

Entry(s, r, t) == [session |-> s, round |-> r, at |-> t]
Id(e) == <<e.session, e.round>>

(* Store.Start, when a completion is called. *)
RoundBegins(s) ==
    /\ open[s] = 0 /\ rounds[s] < MaxRounds
    /\ rounds' = [rounds EXCEPT ![s] = @ + 1]
    /\ open' = [open EXCEPT ![s] = rounds[s] + 1]
    /\ openedAt' = [openedAt EXCEPT ![s] = second]
    /\ UNCHANGED <<items, second, before, saving, samples>>

(* captureBody.finalize, at the end of the body or when it is closed. *)
RoundEnds(s) ==
    /\ open[s] # 0
    /\ LET all == <<Entry(s, open[s], openedAt[s])>> \o items IN
       items' = SubSeq(all, 1, IF Len(all) > CaptureLimit THEN CaptureLimit ELSE Len(all))
    /\ open' = [open EXCEPT ![s] = 0]
    /\ UNCHANGED <<openedAt, rounds, second, before, saving, samples>>

ClearCaptures ==
    /\ items # <<>> /\ items' = <<>>
    /\ UNCHANGED <<open, openedAt, rounds, second, before, saving, samples>>

SecondPasses ==
    /\ second < MaxSeconds /\ second' = second + 1
    /\ UNCHANGED <<items, open, openedAt, rounds, before, saving, samples>>

PlacesOf(s) == {i \in DOMAIN items : items[i].session = s}

(* Mutant: rounds of one second stay newest first. *)
ChainUnreversed(s) ==
    LET Earlier(i, j) == items[i].at < items[j].at \/ (items[i].at = items[j].at /\ i < j)
        place(n) == CHOOSE i \in PlacesOf(s) :
                       Cardinality({j \in PlacesOf(s) : Earlier(j, i)}) = n - 1
    IN [n \in 1 .. Cardinality(PlacesOf(s)) |-> items[place(n)]]

(* buildCaptureChains: a session's entries by their second, and within one  *)
(* in the order they were recorded.                                         *)
Chain(s) ==
    LET Earlier(i, j) == items[i].at < items[j].at \/ (items[i].at = items[j].at /\ i > j)
        place(n) == CHOOSE i \in PlacesOf(s) :
                       Cardinality({j \in PlacesOf(s) : Earlier(j, i)}) = n - 1
    IN [n \in 1 .. Cardinality(PlacesOf(s)) |-> items[place(n)]]

----------------------------------------------------------------------------
(* rawsample.Persist: a free name is chosen and the sample written aside,   *)
(* then moved; the move fails if the name was taken meanwhile.              *)
Persist(sample) ==
    /\ sample # <<>>
    /\ Cardinality(saving) + Cardinality(DOMAIN samples) < MaxSamples
    /\ saving' = saving \cup {[name |-> CHOOSE n \in 1 .. MaxSamples :
                                  n \notin DOMAIN samples /\ 1 .. (n - 1) \subseteq DOMAIN samples,
                               sample |-> sample]}
    /\ UNCHANGED <<items, open, openedAt, rounds, second, samples>>

Promote(p) ==
    /\ samples' = IF p.name \in DOMAIN samples THEN samples
                  ELSE [n \in DOMAIN samples \cup {p.name} |->
                           IF n = p.name THEN p.sample ELSE samples[n]]
    /\ saving' = saving \ {p}
    /\ UNCHANGED <<items, open, openedAt, rounds, second, before>>

(* A write fails, and the temporary directory is removed. *)
PersistFails(p) ==
    /\ saving' = saving \ {p}
    /\ UNCHANGED <<items, open, openedAt, rounds, second, before, samples>>

(* saveRawSampleFromCaptures, of the chain a key, an id or a query selects. *)
SaveFromCaptures(s) == Persist(Chain(s)) /\ UNCHANGED before

(* captureRawSample: a request of its own, between two snapshots. *)
CaptureBegins(s) ==
    /\ before = NoCapture /\ rounds[s] = 0
    /\ before' = [session |-> s, seen |-> {Id(items[i]) : i \in DOMAIN items}]
    /\ UNCHANGED <<items, open, openedAt, rounds, second, saving, samples>>

(* collectNewCaptureEntries. *)
NewEntries ==
    Reverse(Picked(items, {i \in DOMAIN items : Id(items[i]) \notin before.seen}))

CaptureEnds ==
    /\ before # NoCapture /\ rounds[before.session] > 0 /\ open[before.session] = 0
    /\ \/ Persist(NewEntries)
       \/ NewEntries = <<>> /\ UNCHANGED <<items, open, openedAt, rounds, second, saving, samples>>
    /\ before' = NoCapture

CaptureInit ==
    /\ items = <<>> /\ second = 1 /\ before = NoCapture
    /\ open = [s \in ChatSession |-> 0]
    /\ openedAt = open /\ rounds = open
    /\ saving = {} /\ samples = <<>>

CaptureNext ==
    \/ \E s \in ChatSession :
         RoundBegins(s) \/ RoundEnds(s) \/ SaveFromCaptures(s) \/ CaptureBegins(s)
    \/ \E p \in saving : Promote(p) \/ PersistFails(p)
    \/ CaptureEnds \/ ClearCaptures \/ SecondPasses

----------------------------------------------------------------------------
(* A sample can be replayed: it has the rounds of a session in the order     *)
(* they were made and without a gap, whichever were pushed out of the list   *)
(* or cleared, and whatever other sessions were recorded between them        *)
(* (handler_raw_samples.go:145-170, 324-391).                                *)
InOrder(sample) ==
    \A i, j \in DOMAIN sample : i < j /\ sample[i].session = sample[j].session =>
        sample[j].round - sample[i].round =
            Cardinality({k \in i + 1 .. j : sample[k].session = sample[i].session})

SamplesInOrder == \A p \in saving : InOrder(p.sample)

=============================================================================
