---------------------------- MODULE AnswerProofs ----------------------------
(***************************************************************************)
(* The streamed answers of ds2api: on each of the four surfaces what is     *)
(* written keeps to the protocol of the surface, and every piece is written *)
(* once and in its order, for every sequence of pieces and every number of  *)
(* attempts and accounts.                                                   *)
(*                                                                         *)
(* The pieces that are due are those an answer was given and did not write  *)
(* yet: what the sieve keeps and, inside a step, the piece that comes.      *)
(* Tracked says that what is written is in order, that it is before what is *)
(* due, and that nothing but what is due is missing.  To it each surface    *)
(* adds how its record stands to its events: which block or item is open,   *)
(* how many there were, whether calls were written.  Every operation that   *)
(* writes has a lemma that keeps this; an answer that ends has nothing due, *)
(* unless it fails.                                                         *)
(***************************************************************************)
EXTENDS AnswerStream, FiniteSetTheorems, SequenceTheorems, TLAPS

AnswerSpec == AnswerInit /\ [][AnswerNext]_answerVars

(* A sequence of anything. *)
Listed(s) == s \in Seq({s[i] : i \in DOMAIN s})

LEMMA AppendListed ==
    ASSUME NEW s, Listed(s), NEW e
    PROVE  /\ Listed(Append(s, e)) /\ Append(s, e) # <<>>
           /\ Len(s) \in Nat /\ DOMAIN s = 1 .. Len(s)
           /\ Len(Append(s, e)) = Len(s) + 1 /\ DOMAIN Append(s, e) = 1 .. Len(s) + 1
           /\ Append(s, e)[Len(s) + 1] = e /\ \A i \in DOMAIN s : Append(s, e)[i] = s[i]
<1> DEFINE S == {s[i] : i \in DOMAIN s} \cup {e}
<1>1. s \in Seq(S) /\ e \in S BY DEF Listed
<1> HIDE DEF S
<1>2. /\ Append(s, e) \in Seq(S) /\ Append(s, e) # <<>>
      /\ Len(s) \in Nat /\ DOMAIN s = 1 .. Len(s)
      /\ Len(Append(s, e)) = Len(s) + 1 /\ DOMAIN Append(s, e) = 1 .. Len(s) + 1
      /\ Append(s, e)[Len(s) + 1] = e /\ \A i \in DOMAIN s : Append(s, e)[i] = s[i]
   BY <1>1
<1>3. Listed(Append(s, e)) BY <1>2 DEF Listed
<1> QED BY <1>2, <1>3

(* What an event adds to the events of a kind. *)
LEMMA EventsAppend ==
    ASSUME NEW s, Listed(s), NEW e, NEW t
    PROVE  Events(Append(s, e), t) = Events(s, t) \cup (IF e.t \in t THEN {Len(s) + 1} ELSE {})
BY AppendListed, SMTT(30) DEF Events

(* The pieces that are due are those to be written yet. *)
Tracked(said, out, due) ==
    /\ said \in Seq(PieceKinds) /\ Listed(out)
    /\ due \subseteq DOMAIN said
    /\ \A i \in Events(out, Carriers) : out[i].piece \in Nat
    /\ \A i \in Carried(out) : out[i].piece \in DOMAIN said
    /\ InOrder(said, out)
    /\ \A p \in due, i \in Carried(out) :
          SameKind(said, out[i].piece, p) => out[i].piece < p
    /\ \A p \in DOMAIN said : said[p] \in Shown \cup Reasoning =>
          p \in due \/ \E i \in Carried(out) : out[i].piece = p

CallsSeen(said, calls, due) ==
    /\ calls \in BOOLEAN
    /\ \A p \in DOMAIN said : said[p] \in Calls => p \in due \/ calls
    /\ calls => \E p \in DOMAIN said : said[p] \in Calls

LEMMA TrackEvent ==
    ASSUME NEW said, NEW out, NEW due, Tracked(said, out, due),
           NEW e, e.t \notin Carriers \/ e.piece = 0
    PROVE  Tracked(said, Append(out, e), due)
<1>1. Listed(out) BY DEF Tracked
<1>2. Carried(Append(out, e)) = Carried(out)
   BY <1>1, AppendListed, EventsAppend DEF Carried, Events
<1>3. \A i \in Carried(out) : i \in DOMAIN out /\ Append(out, e)[i] = out[i]
   BY <1>1, AppendListed DEF Carried, Events
<1>4. \A i \in Events(Append(out, e), Carriers) : Append(out, e)[i].piece \in Nat
   BY <1>1, AppendListed, EventsAppend DEF Tracked, Events
<1>5. InOrder(said, Append(out, e)) BY <1>2, <1>3 DEF Tracked, InOrder
<1> QED BY <1>1, <1>2, <1>3, <1>4, <1>5, AppendListed DEF Tracked

LEMMA TrackPiece ==
    ASSUME NEW said, NEW out, NEW due, Tracked(said, out, due),
           NEW p \in due, \A q \in due : SameKind(said, p, q) => p <= q,
           NEW e, e.t \in Carriers, e.piece = p
    PROVE  Tracked(said, Append(out, e), due \ {p})
<1>1. Listed(out) /\ p \in Nat /\ p > 0 /\ p \in DOMAIN said BY DEF Tracked
<1>2. Carried(Append(out, e)) = Carried(out) \cup {Len(out) + 1}
   BY <1>1, AppendListed, EventsAppend DEF Carried, Events
<1>3. \A i \in Carried(out) : i \in DOMAIN out /\ Append(out, e)[i] = out[i]
   BY <1>1, AppendListed DEF Carried, Events
<1>3a. /\ Append(out, e)[Len(out) + 1] = e
       /\ \A i \in Carried(out) : i \in Nat /\ i < Len(out) + 1
   BY <1>1, <1>3, AppendListed
<1>4. \A i \in Events(Append(out, e), Carriers) : Append(out, e)[i].piece \in Nat
   BY <1>1, AppendListed, EventsAppend DEF Tracked, Events
<1>5. InOrder(said, Append(out, e))
   <2> SUFFICES ASSUME NEW i \in Carried(Append(out, e)), NEW j \in Carried(Append(out, e)), i < j,
                       SameKind(said, Append(out, e)[i].piece, Append(out, e)[j].piece)
                PROVE  Append(out, e)[i].piece < Append(out, e)[j].piece
      BY DEF InOrder
   <2>1. i \in Carried(out) BY <1>2, <1>3a, <1>1, AppendListed
   <2>2. CASE j \in Carried(out) BY <1>3, <2>1, <2>2 DEF Tracked, InOrder
   <2>3. CASE j = Len(out) + 1 BY <1>3, <1>3a, <2>1, <2>3 DEF Tracked
   <2> QED BY <1>2, <2>2, <2>3
<1>6. \A i \in Carried(Append(out, e)) : Append(out, e)[i].piece \in DOMAIN said
   BY <1>1, <1>2, <1>3, <1>3a DEF Tracked
<1>7. ASSUME NEW q \in due \ {p}, NEW i \in Carried(Append(out, e)),
             SameKind(said, Append(out, e)[i].piece, q)
      PROVE  Append(out, e)[i].piece < q
   <2>1. CASE i \in Carried(out) BY <1>3, <1>7, <2>1 DEF Tracked
   <2>2. CASE i = Len(out) + 1
      <3>1. q \in Nat BY DEF Tracked
      <3> QED BY <1>1, <1>3a, <1>7, <2>2, <3>1
   <2> QED BY <1>2, <2>1, <2>2
<1>8. ASSUME NEW q \in DOMAIN said, said[q] \in Shown \cup Reasoning
      PROVE  q \in due \ {p} \/ \E i \in Carried(Append(out, e)) : Append(out, e)[i].piece = q
   <2>1. CASE q = p BY <1>2, <1>3a, <2>1
   <2>2. CASE q # p BY <1>2, <1>3, <1>8, <2>2 DEF Tracked
   <2> QED BY <2>1, <2>2
<1>9. said \in Seq(PieceKinds) /\ due \ {p} \subseteq DOMAIN said /\ Listed(Append(out, e))
   BY <1>1, AppendListed DEF Tracked
<1> QED BY <1>4, <1>5, <1>6, <1>7, <1>8, <1>9 DEF Tracked

LEMMA TrackGiven ==
    ASSUME NEW said, NEW out, NEW due, Tracked(said, out, due), NEW kind \in PieceKinds
    PROVE  /\ Tracked(Append(said, kind), out, due \cup {Len(said) + 1})
           /\ \A p \in due : p \in DOMAIN said /\ p < Len(said) + 1
<1> DEFINE more == Append(said, kind)
           new == Len(said) + 1
<1>1. /\ more \in Seq(PieceKinds) /\ Len(said) \in Nat /\ DOMAIN said = 1 .. Len(said)
      /\ DOMAIN more = 1 .. new /\ more[new] = kind /\ \A p \in DOMAIN said : more[p] = said[p]
   BY DEF Tracked
<1> HIDE DEF more, new
<1>2. \A i \in Carried(out) : out[i].piece \in DOMAIN said BY DEF Tracked
<1>3. InOrder(more, out) BY <1>1, <1>2 DEF Tracked, InOrder, SameKind
<1>4. \A p \in due \cup {new}, i \in Carried(out) :
          SameKind(more, out[i].piece, p) => out[i].piece < p
   BY <1>1, <1>2 DEF Tracked, SameKind, new
<1>5. \A p \in DOMAIN more : p \in DOMAIN said \/ p = new BY <1>1 DEF new
<1>6. Tracked(more, out, due \cup {new})
   BY <1>1, <1>2, <1>3, <1>4, <1>5 DEF Tracked, new
<1> QED BY <1>1, <1>6 DEF Tracked, more, new

LEMMA CallsGiven ==
    ASSUME NEW said \in Seq(PieceKinds), NEW calls, NEW due, CallsSeen(said, calls, due), NEW kind
    PROVE  CallsSeen(Append(said, kind), calls, due \cup {Len(said) + 1})
BY DEF CallsSeen

-----------------------------------------------------------------------------
(* The record of every surface, and what is due between two pieces. *)
Common(r) ==
    /\ r.said \in Seq(PieceKinds) /\ Listed(r.out)
    /\ r.calls \in BOOLEAN /\ r.tools \in BOOLEAN /\ r.required \in BOOLEAN

Due(r) == IF r.held = 0 THEN {} ELSE {r.held}

Holds(r) ==
    /\ r.held \in Nat
    /\ r.held # 0 => r.held \in DOMAIN r.said /\ r.said[r.held] \in Kept

ChatFields == {"said", "held", "calls", "out", "tools", "required", "first"}

(* An answer that has no end yet. *)
ChatLive(r, due) ==
    /\ DOMAIN r = ChatFields /\ Common(r) /\ Holds(r)
    /\ Tracked(r.said, r.out, due) /\ CallsSeen(r.said, r.calls, due)
    /\ \A i \in DOMAIN r.out :
          /\ r.out[i].t \in {"content", "reasoning", "calls"} /\ r.out[i].role = (i = 1)
          /\ r.out[i].piece # 0
    /\ r.first = (r.out # <<>>)
    /\ r.calls <=> Events(r.out, {"calls"}) # {}

ChatChunk(r, t, i) == [t |-> t, piece |-> i, role |-> ~r.first]

LEMMA ChatDeltaFields ==
    ASSUME NEW r, DOMAIN r = ChatFields, NEW t, NEW i
    PROVE  LET s == ChatDelta(r, t, i)
           IN  /\ DOMAIN s = ChatFields /\ s.out = Append(r.out, ChatChunk(r, t, i))
               /\ s.said = r.said /\ s.held = r.held /\ s.calls = r.calls
               /\ s.tools = r.tools /\ s.required = r.required /\ s.first
BY DEF ChatDelta, ChatChunk, Write, ChatFields

LEMMA ChatCallsFields ==
    ASSUME NEW r, DOMAIN r = ChatFields, NEW i
    PROVE  LET s == ChatCalls(r, i)
           IN  /\ DOMAIN s = ChatFields /\ s.out = Append(r.out, ChatChunk(r, "calls", i))
               /\ s.said = r.said /\ s.held = r.held /\ s.calls
               /\ s.tools = r.tools /\ s.required = r.required /\ s.first
BY DEF ChatCalls, ChatDelta, ChatChunk, Write, ChatFields

(* A piece that is due is written: r becomes s. *)
LEMMA ChatPiece ==
    ASSUME NEW r, NEW due, ChatLive(r, due),
           NEW p \in due, \A q \in due : SameKind(r.said, p, q) => p <= q,
           NEW s, NEW t \in {"content", "reasoning", "calls"},
           t = "calls" <=> r.said[p] \in Calls,
           s = IF t = "calls" THEN ChatCalls(r, p) ELSE ChatDelta(r, t, p)
    PROVE  ChatLive(s, due \ {p}) /\ s.said = r.said /\ s.held = r.held /\ s.tools = r.tools
<1> DEFINE e == ChatChunk(r, t, p)
<1>1. /\ DOMAIN s = ChatFields /\ s.out = Append(r.out, e) /\ s.first /\ s.said = r.said
      /\ s.held = r.held /\ s.tools = r.tools /\ s.required = r.required
      /\ s.calls = IF t = "calls" THEN TRUE ELSE r.calls
   <2>1. DOMAIN r = ChatFields BY DEF ChatLive
   <2>2. CASE t = "calls"
      <3>1. s = ChatCalls(r, p) BY <2>2
      <3> QED BY <2>1, <2>2, <3>1, ChatCallsFields
   <2>3. CASE t # "calls"
      <3>1. s = ChatDelta(r, t, p) BY <2>3
      <3> QED BY <2>1, <2>3, <3>1, ChatDeltaFields
   <2> QED BY <2>2, <2>3
<1>2. e.t = t /\ e.piece = p /\ e.role = ~r.first BY DEF ChatChunk
<1> HIDE DEF e
<1>3. Listed(r.out) /\ Common(r) /\ Holds(r) BY DEF ChatLive, Common
<1>4. Listed(s.out) BY <1>1, <1>3, AppendListed
<1>5. Tracked(s.said, s.out, due \ {p})
   <2>1. e.t \in Carriers BY <1>2 DEF Carriers
   <2>2. Tracked(r.said, r.out, due) BY DEF ChatLive
   <2>3. Tracked(r.said, Append(r.out, e), due \ {p}) BY <1>2, <2>1, <2>2, TrackPiece
   <2> QED BY <1>1, <2>3
<1>6. CallsSeen(s.said, s.calls, due \ {p})
   <2>1. p \in DOMAIN r.said BY DEF ChatLive, Tracked
   <2> QED BY <1>1, <2>1 DEF ChatLive, CallsSeen
<1>7. p # 0 BY DEF ChatLive, Tracked
<1>8. \A i \in DOMAIN s.out :
          /\ s.out[i].t \in {"content", "reasoning", "calls"} /\ s.out[i].role = (i = 1)
          /\ s.out[i].piece # 0
   <2> SUFFICES ASSUME NEW i \in DOMAIN s.out
                PROVE  /\ s.out[i].t \in {"content", "reasoning", "calls"}
                       /\ s.out[i].role = (i = 1) /\ s.out[i].piece # 0
      OBVIOUS
   <2>1. CASE i \in DOMAIN r.out BY <1>1, <1>3, <2>1, AppendListed DEF ChatLive
   <2>2. CASE i = Len(r.out) + 1
      <3>1. s.out[i] = e BY <1>1, <1>3, <2>2, AppendListed
      <3>2. r.first = (i # 1) BY <1>3, <2>2, AppendListed DEF ChatLive
      <3> QED BY <1>2, <1>7, <3>1, <3>2
   <2> QED BY <1>1, <1>3, <2>1, <2>2, AppendListed
<1>9. s.calls <=> Events(s.out, {"calls"}) # {}
   <2>1. Events(Append(r.out, e), {"calls"})
           = Events(r.out, {"calls"}) \cup (IF e.t \in {"calls"} THEN {Len(r.out) + 1} ELSE {})
      BY <1>3, EventsAppend
   <2>2. r.calls <=> Events(r.out, {"calls"}) # {} BY DEF ChatLive
   <2> QED BY <1>1, <1>2, <2>1, <2>2
<1>10. Common(s) /\ Holds(s) /\ s.first = (s.out # <<>>)
   <2>1. s.out # <<>> BY <1>1, <1>3, AppendListed
   <2>2. s.calls \in BOOLEAN BY <1>1, <1>3 DEF Common
   <2> QED BY <1>1, <1>3, <1>4, <2>1, <2>2 DEF Common, Holds
<1> QED BY <1>1, <1>5, <1>6, <1>8, <1>9, <1>10 DEF ChatLive

(* What Given and Released change, in a record of a surface. *)
LEMMA GivenFields ==
    ASSUME NEW r, {"said", "held"} \subseteq DOMAIN r, NEW kind
    PROVE  LET s == Given(r, kind)
           IN  /\ DOMAIN s = DOMAIN r /\ s.said = Append(r.said, kind)
               /\ s.held = (IF kind \in Kept THEN Len(r.said) + 1 ELSE r.held)
               /\ \A f \in DOMAIN r \ {"said", "held"} : s[f] = r[f]
BY DEF Given

LEMMA ReleasedFields ==
    ASSUME NEW r, "held" \in DOMAIN r
    PROVE  LET s == Released(r)
           IN  /\ DOMAIN s = DOMAIN r /\ s.held = 0
               /\ \A f \in DOMAIN r \ {"held"} : s[f] = r[f]
BY DEF Released

LEMMA ChatGiven ==
    ASSUME NEW r, NEW due, ChatLive(r, due), NEW kind \in PieceKinds, kind \in Kept => r.held = 0
    PROVE  ChatLive(Given(r, kind), due \cup {Len(r.said) + 1})
<1> DEFINE s == Given(r, kind)
<1>1. {"said", "held"} \subseteq DOMAIN r /\ DOMAIN r = ChatFields BY DEF ChatLive, ChatFields
<1>2. /\ DOMAIN s = ChatFields /\ s.said = Append(r.said, kind)
      /\ s.held = (IF kind \in Kept THEN Len(r.said) + 1 ELSE r.held)
   BY <1>1, GivenFields
<1>3. /\ s.out = r.out /\ s.calls = r.calls /\ s.tools = r.tools
      /\ s.required = r.required /\ s.first = r.first
   <2>1. \A f \in ChatFields \ {"said", "held"} : s[f] = r[f] BY <1>1, GivenFields
   <2>2. {"out", "calls", "tools", "required", "first"} \subseteq ChatFields \ {"said", "held"}
      BY DEF ChatFields
   <2> QED BY <2>1, <2>2
<1> HIDE DEF s
<1>4. Common(r) /\ Holds(r) /\ r.said \in Seq(PieceKinds) BY DEF ChatLive, Common
<1>5. Tracked(s.said, s.out, due \cup {Len(r.said) + 1})
   <2>1. Tracked(r.said, r.out, due) BY DEF ChatLive
   <2>2. Tracked(Append(r.said, kind), r.out, due \cup {Len(r.said) + 1}) BY <2>1, TrackGiven
   <2> QED BY <1>2, <1>3, <2>2
<1>6. CallsSeen(s.said, s.calls, due \cup {Len(r.said) + 1})
   BY <1>2, <1>3, <1>4, CallsGiven DEF ChatLive
<1>7. Common(s) BY <1>2, <1>3, <1>4 DEF Common
<1>8. Holds(s) BY <1>2, <1>4 DEF Holds
<1>9. ChatLive(s, due \cup {Len(r.said) + 1}) BY <1>2, <1>3, <1>5, <1>6, <1>7, <1>8 DEF ChatLive
<1> QED BY <1>9 DEF s

LEMMA ChatReleased ==
    ASSUME NEW r, NEW due, ChatLive(r, due)
    PROVE  ChatLive(Released(r), due) /\ Released(r).said = r.said /\ Released(r).held = 0
<1> DEFINE s == Released(r)
<1>1. DOMAIN r = ChatFields /\ "held" \in DOMAIN r BY DEF ChatLive, ChatFields
<1>2. /\ DOMAIN s = ChatFields /\ s.held = 0 /\ s.said = r.said
      /\ s.out = r.out /\ s.calls = r.calls /\ s.tools = r.tools
      /\ s.required = r.required /\ s.first = r.first
   BY <1>1, ReleasedFields DEF ChatFields
<1> HIDE DEF s
<1>3. ChatLive(s, due) BY <1>2 DEF ChatLive, Common, Holds
<1> QED BY <1>2, <1>3 DEF s

LEMMA WriteFields ==
    ASSUME NEW r, "out" \in DOMAIN r, NEW e
    PROVE  LET s == Write(r, e)
           IN  /\ DOMAIN s = DOMAIN r /\ s.out = Append(r.out, e)
               /\ \A f \in DOMAIN r \ {"out"} : s[f] = r[f]
BY DEF Write

LEMMA ChatFlushes ==
    ASSUME NEW r, ChatLive(r, Due(r))
    PROVE  LET s == ChatFlushed(r) IN ChatLive(s, {}) /\ s.said = r.said /\ s.held = 0
<1>1. CASE r.held = 0 BY <1>1 DEF ChatFlushed, Due
<1>2. CASE r.held # 0
   <2> DEFINE p == r.held
              q == Released(r)
              t == IF r.said[p] \in Calls THEN "calls" ELSE "content"
              s == ChatFlushed(r)
   <2>1. ChatLive(q, {p}) /\ q.said = r.said /\ q.held = 0 BY <1>2, ChatReleased DEF Due
   <2>2. s = IF t = "calls" THEN ChatCalls(q, p) ELSE ChatDelta(q, t, p)
      BY <1>2, <2>1 DEF ChatFlushed, ChatEvent
   <2>3. /\ t \in {"content", "reasoning", "calls"} /\ (t = "calls" <=> q.said[p] \in Calls)
         /\ \A i \in {p} : SameKind(q.said, p, i) => p <= i
      BY <2>1 DEF Holds, ChatLive
   <2> HIDE DEF p, q, t, s
   <2>4. ChatLive(s, {p} \ {p}) /\ s.said = q.said /\ s.held = q.held
      BY <2>1, <2>2, <2>3, ChatPiece
   <2>5. {p} \ {p} = {} OBVIOUS
   <2> QED BY <2>1, <2>4, <2>5 DEF s
<1> QED BY <1>1, <1>2

LEMMA ChatParses ==
    ASSUME NEW r, ChatLive(r, Due(r)), NEW kind \in PieceKinds, MayCome(r, kind)
    PROVE  ChatLive(ChatOnParsed(r, kind), Due(ChatOnParsed(r, kind)))
<1> DEFINE i == Len(r.said) + 1
           s == ChatOnParsed(r, kind)
<1>0. /\ r.said \in Seq(PieceKinds) /\ Holds(r) /\ "held" \in DOMAIN r /\ "said" \in DOMAIN r
      /\ i \in Nat \ {0}
   BY DEF ChatLive, Common, ChatFields
<1>1. CASE kind \in Kept
   <2>1. r.held = 0 BY <1>1 DEF MayCome
   <2>2. s = Given(r, kind) BY <1>1 DEF ChatOnParsed, Kept, Reasoning
   <2>3. s.held = i BY <1>0, <1>1, <2>2, GivenFields
   <2>4. ChatLive(s, Due(r) \cup {i}) BY <2>1, <2>2, ChatGiven
   <2>5. Due(r) \cup {i} = Due(s) BY <1>0, <2>1, <2>3 DEF Due
   <2> QED BY <2>4, <2>5
<1>2. CASE kind \in Reasoning
   <2> DEFINE g == Given(r, kind)
   <2>1. kind \notin Kept BY <1>2 DEF Kept, Reasoning
   <2>2. s = ChatDelta(g, "reasoning", i) BY <1>2, <2>1 DEF ChatOnParsed
   <2>3. ChatLive(g, Due(r) \cup {i}) BY <2>1, ChatGiven
   <2>4. g.said = Append(r.said, kind) /\ g.held = r.held BY <1>0, <2>1, GivenFields
   <2>5. g.said[i] = kind /\ \A q \in Due(r) : g.said[q] \in Kept /\ q # i
      BY <1>0, <2>4 DEF Due, Holds
   <2>6. \A q \in Due(r) \cup {i} : SameKind(g.said, i, q) => i <= q
      BY <1>0, <1>2, <2>5 DEF SameKind, Kept, Reasoning
   <2>7. g.said[i] \notin Calls BY <1>2, <2>5 DEF Calls, Reasoning
   <2> HIDE DEF g, s, i
   <2>8. ChatLive(s, (Due(r) \cup {i}) \ {i}) /\ s.held = g.held
      <3> DEFINE t == "reasoning"
      <3>1. t \in {"content", "reasoning", "calls"} /\ (t = "calls" <=> g.said[i] \in Calls)
            /\ s = IF t = "calls" THEN ChatCalls(g, i) ELSE ChatDelta(g, t, i)
         BY <2>2, <2>7
      <3>2. i \in Due(r) \cup {i} OBVIOUS
      <3> HIDE DEF t
      <3> QED BY <2>3, <2>6, <3>1, <3>2, ChatPiece
   <2>9. (Due(r) \cup {i}) \ {i} = Due(s) BY <2>4, <2>5, <2>8 DEF Due
   <2> QED BY <2>8, <2>9 DEF s
<1>3. CASE kind \notin Kept \cup Reasoning
   <2> DEFINE f == ChatFlushed(r)
              g == Given(f, kind)
              t == IF g.said[i] \in Calls THEN "calls" ELSE "content"
   <2>1. s = ChatEvent(g, i) BY <1>3 DEF ChatOnParsed
   <2>2. ChatLive(f, {}) /\ f.said = r.said /\ f.held = 0 BY ChatFlushes
   <2>3. ChatLive(g, {} \cup {i}) BY <1>3, <2>2, ChatGiven
   <2>4. g.held = 0 BY <1>3, <2>2, GivenFields DEF ChatLive, ChatFields
   <2>5. s = IF t = "calls" THEN ChatCalls(g, i) ELSE ChatDelta(g, t, i) BY <2>1 DEF ChatEvent
   <2>6. t \in {"content", "reasoning", "calls"} /\ (t = "calls" <=> g.said[i] \in Calls) OBVIOUS
   <2>7. {} \cup {i} = {i} /\ i \in {i} /\ {i} \ {i} = {} OBVIOUS
   <2>8. \A q \in {i} : SameKind(g.said, i, q) => i <= q BY <1>0
   <2> HIDE DEF f, g, t, s, i
   <2>9. ChatLive(s, {i} \ {i}) /\ s.held = g.held BY <2>3, <2>5, <2>6, <2>7, <2>8, ChatPiece
   <2> QED BY <2>4, <2>7, <2>9 DEF Due, s
<1> QED BY <1>1, <1>2, <1>3

(* Every surface: nothing is written out of order, and all of it at an end. *)
EndMarks == {"finish", "completed", "message_stop"}

Whole(r) ==
    /\ InOrder(r.said, r.out)
    /\ Events(r.out, EndMarks) # {} => Written(r.said, r.out)

(* What a chat completion has written when its end comes. *)
ChatBody(out) ==
    /\ Listed(out)
    /\ \A i \in DOMAIN out :
          /\ out[i].t \in {"content", "reasoning", "calls"} /\ out[i].role = (i = 1)
          /\ out[i].t = "calls" /\ out[i].piece = 0 => Events(out, {"calls"}) = {i}

LEMMA ChatTail ==
    ASSUME NEW out, ChatBody(out), NEW e, NEW d, d.t = "DONE", e.t \in {"finish", "error"},
           e.t = "finish" => (e.reason = "tool_calls" <=> Events(out, {"calls"}) # {}),
           e.t = "error" => Events(out, {"calls"}) = {}
    PROVE  ChatFrames(Append(Append(out, e), d), TRUE)
<1> DEFINE one == Append(out, e)
           all == Append(one, d)
           n == Len(out)
<1>1. /\ Listed(one) /\ n \in Nat /\ DOMAIN out = 1 .. n /\ Len(one) = n + 1
      /\ DOMAIN one = 1 .. n + 1 /\ one[n + 1] = e /\ \A i \in 1 .. n : one[i] = out[i]
   BY AppendListed DEF ChatBody
<1> HIDE DEF one, n
<1>2. /\ Len(all) = n + 2 /\ DOMAIN all = 1 .. n + 2 /\ all[n + 2] = d /\ all[n + 1] = e
      /\ all # <<>> /\ \A i \in 1 .. n : all[i] = out[i]
   BY <1>1, AppendListed
<1> HIDE DEF all
<1>3. \A i \in 1 .. n : out[i].t \in {"content", "reasoning", "calls"} BY <1>1 DEF ChatBody
<1>4. Events(all, {"content", "reasoning", "calls"}) = 1 .. n BY <1>1, <1>2, <1>3 DEF Events
<1>5. Events(all, {"DONE"}) = {n + 2} BY <1>1, <1>2, <1>3 DEF Events
<1>6. Events(all, {"finish", "error"}) = {n + 1} BY <1>1, <1>2, <1>3 DEF Events
<1>7. Events(all, {"calls"}) = Events(out, {"calls"}) BY <1>1, <1>2, <1>3 DEF Events
<1>8. /\ \A i \in Events(all, {"error"}) : i = n + 1 /\ e.t = "error"
      /\ \A i \in Events(all, {"finish"}) : i = n + 1 /\ e.t = "finish"
   BY <1>1, <1>2, <1>3 DEF Events
<1>9. \A i \in Events(all, {"calls"}) : i \in 1 .. n /\ out[i].t = "calls"
   BY <1>1, <1>2, <1>3, <1>7 DEF Events
<1>10. \A i \in 1 .. n : all[i].role = (i = 1) BY <1>1, <1>2 DEF ChatBody
<1>11. \A i \in Events(all, {"calls"}) : all[i].piece = 0 => Events(all, {"calls"}) = {i}
   BY <1>1, <1>2, <1>7, <1>9 DEF ChatBody
<1>12. Ends(all, {"DONE"}) BY <1>2 DEF Ends
<1>13. n + 2 = Len(all) /\ n + 2 > 1 /\ all[(n + 2) - 1].t \in {"finish", "error"}
   BY <1>1, <1>2
<1> QED BY <1>2, <1>4, <1>5, <1>6, <1>7, <1>8, <1>10, <1>11, <1>12, <1>13 DEF ChatFrames, all, one

LEMMA ChatFramed ==
    ASSUME NEW r, NEW due, ChatLive(r, due)
    PROVE  ChatBody(r.out) /\ ChatFrames(r.out, FALSE) /\ Whole(r)
<1>1. Listed(r.out) /\ InOrder(r.said, r.out) BY DEF ChatLive, Common, Tracked
<1>2. \A i \in DOMAIN r.out : r.out[i].t \in {"content", "reasoning", "calls"}
         /\ r.out[i].role = (i = 1) /\ r.out[i].piece # 0
   BY DEF ChatLive
<1>3. /\ Events(r.out, {"DONE"}) = {} /\ Events(r.out, {"finish", "error"}) = {}
      /\ Events(r.out, {"error"}) = {} /\ Events(r.out, {"finish"}) = {}
      /\ Events(r.out, EndMarks) = {}
   BY <1>2 DEF Events, EndMarks
<1>4. \A i \in Events(r.out, {"content", "reasoning", "calls"}) : i \in DOMAIN r.out BY DEF Events
<1>5. \A i \in Events(r.out, {"calls"}) : i \in DOMAIN r.out BY DEF Events
<1> QED BY <1>1, <1>2, <1>3, <1>4, <1>5 DEF ChatBody, ChatFrames, Whole

(* An end without a piece of its own leaves the pieces as they are. *)
LEMMA WholeAtEnd ==
    ASSUME NEW said, NEW out, NEW due, Tracked(said, out, due),
           \A p \in due : said[p] \notin Shown \cup Reasoning
    PROVE  InOrder(said, out) /\ Written(said, out)
BY DEF Tracked, Written

LEMMA EventsAtEnd ==
    ASSUME NEW said, NEW out, NEW due, Tracked(said, out, due), NEW e, NEW d,
           e.t \notin Carriers, d.t \notin Carriers
    PROVE  Tracked(said, Append(Append(out, e), d), due)
<1>1. Tracked(said, Append(out, e), due) BY TrackEvent
<1> QED BY <1>1, TrackEvent

GivesCalls(out, reason) == reason = "tool_calls" <=> Events(out, {"calls"}) # {}

LEMMA ChatFinishes ==
    ASSUME NEW r, "out" \in DOMAIN r, "said" \in DOMAIN r, ChatBody(r.out), NEW due,
           Tracked(r.said, r.out, due), \A p \in due : r.said[p] \notin Shown \cup Reasoning,
           NEW reason, GivesCalls(r.out, reason)
    PROVE  LET s == ChatDone(Write(r, [t |-> "finish", reason |-> reason]))
           IN  ChatFrames(s.out, TRUE) /\ Whole(s)
<1> DEFINE e == [t |-> "finish", reason |-> reason]
           d == [t |-> "DONE"]
           s == ChatDone(Write(r, e))
<1>1. e.t = "finish" /\ e.reason = reason /\ d.t = "DONE" OBVIOUS
<1>2. s.out = Append(Append(r.out, e), d) /\ s.said = r.said BY DEF ChatDone, Write
<1> HIDE DEF e, d, s
<1>3. e.t \in {"finish", "error"} /\ (e.t = "error" => Events(r.out, {"calls"}) = {})
      /\ (e.t = "finish" => (e.reason = "tool_calls" <=> Events(r.out, {"calls"}) # {}))
   BY <1>1 DEF GivesCalls
<1>4. ChatFrames(s.out, TRUE) BY <1>1, <1>2, <1>3, ChatTail
<1>5. e.t \notin Carriers /\ d.t \notin Carriers BY <1>1 DEF Carriers
<1>6. Tracked(s.said, s.out, due) BY <1>2, <1>5, EventsAtEnd
<1>7. Whole(s) BY <1>2, <1>6, WholeAtEnd DEF Whole
<1> QED BY <1>4, <1>7 DEF s, e

LEMMA ChatFails ==
    ASSUME NEW r, NEW due, ChatLive(r, due), ~r.calls, NEW status
    PROVE  LET s == ChatFail(r, status) IN ChatFrames(s.out, TRUE) /\ Whole(s)
<1> DEFINE e == [t |-> "error", status |-> status]
           d == [t |-> "DONE"]
           s == ChatFail(r, status)
<1>1. e.t = "error" /\ d.t = "DONE" OBVIOUS
<1>2. s.out = Append(Append(r.out, e), d) /\ s.said = r.said
   BY DEF ChatFail, ChatDone, Write, ChatLive, ChatFields
<1> HIDE DEF e, d, s
<1>3. ChatBody(r.out) /\ Events(r.out, {"calls"}) = {} BY ChatFramed DEF ChatLive
<1>4. ChatFrames(s.out, TRUE) BY <1>1, <1>2, <1>3, ChatTail
<1>5. e.t \notin Carriers /\ d.t \notin Carriers BY <1>1 DEF Carriers
<1>6. Tracked(r.said, r.out, due) BY DEF ChatLive
<1>7. Tracked(s.said, s.out, due) BY <1>2, <1>5, <1>6, EventsAtEnd
<1>8. Events(s.out, EndMarks) = {}
   <2>1. Events(r.out, EndMarks) = {} BY DEF ChatLive, Events, EndMarks
   <2>2. Listed(r.out) /\ Listed(Append(r.out, e)) BY <1>3, AppendListed DEF ChatBody
   <2>3. e.t \notin EndMarks /\ d.t \notin EndMarks BY <1>1 DEF EndMarks
   <2>4. Events(Append(r.out, e), EndMarks) = {} BY <2>1, <2>2, <2>3, EventsAppend
   <2> QED BY <1>2, <2>2, <2>3, <2>4, EventsAppend
<1>9. Whole(s) BY <1>7, <1>8 DEF Whole, Tracked
<1> QED BY <1>4, <1>9 DEF s

(* Has, for a record whose pieces are known. *)
LEMMA StatusAndReason ==
    ASSUME NEW r, NEW filter
    PROVE  /\ Detected(r) \/ r.calls => StatusOf(r, filter) = OK
           /\ (ReasonOf(r, filter) = "tool_calls") <=> (Detected(r) \/ r.calls)
BY DEF StatusOf, ReasonOf, FinalStatus, FinishReason, StopReason, OutputOf

LEMMA ChatEnds ==
    ASSUME NEW r, ChatLive(r, Due(r)), NEW filter \in BOOLEAN, NEW defer \in BOOLEAN
    PROVE  LET f == ChatFinalize(r, filter, defer)
           IN  \/ f.terminal /\ ChatFrames(f.rt.out, TRUE) /\ Whole(f.rt)
               \/ ~f.terminal /\ defer /\ ChatLive(f.rt, {}) /\ f.rt.held = 0 /\ ~f.rt.calls
<1> DEFINE early == Detected(r) /\ ~r.calls
           last == IF early THEN ChatCalls(r, 0) ELSE ChatFlushed(r)
           status == StatusOf(last, filter)
           ending == ChatDone(Write(last, [t |-> "finish", reason |-> ReasonOf(last, filter)]))
           f == ChatFinalize(r, filter, defer)
<1> SUFFICES \/ f.terminal /\ ChatFrames(f.rt.out, TRUE) /\ Whole(f.rt)
             \/ ~f.terminal /\ defer /\ ChatLive(f.rt, {}) /\ f.rt.held = 0 /\ ~f.rt.calls
   OBVIOUS
<1>1. f = CASE status = OK -> Terminal(ending)
            [] status # OK /\ defer -> Deferred(last)
            [] OTHER -> Terminal(ChatFail(last, status))
   BY DEF ChatFinalize
<1> HIDE DEF f
<1>2. DOMAIN r = ChatFields /\ Common(r) /\ Holds(r) /\ Tracked(r.said, r.out, Due(r))
      /\ CallsSeen(r.said, r.calls, Due(r))
   BY DEF ChatLive
<1>3. CASE early
   <2> DEFINE e == ChatChunk(r, "calls", 0)
   <2>1. last = ChatCalls(r, 0) BY <1>3
   <2>2. /\ DOMAIN last = ChatFields /\ last.out = Append(r.out, e) /\ last.said = r.said
         /\ last.calls
      BY <1>2, <2>1, ChatCallsFields
   <2>3. Detected(last) BY <1>3, <2>2 DEF Detected, Has
   <2>4. status = OK /\ ReasonOf(last, filter) = "tool_calls" BY <2>3, StatusAndReason
   <2>5. f = Terminal(ending) BY <1>1, <2>4
   <2>6. e.t = "calls" /\ e.piece = 0 /\ e.role = ~r.first BY DEF ChatChunk
   <2> HIDE DEF e, last
   <2>7. Tracked(last.said, last.out, Due(r)) BY <1>2, <2>2, <2>6, TrackEvent
   <2>8. \A p \in Due(r) : r.said[p] \notin Shown \cup Reasoning
      <3>1. SUFFICES ASSUME r.held # 0, r.said[r.held] \notin Calls PROVE FALSE
         BY <1>2 DEF Due, Holds, Kept, Shown, Calls, Reasoning
      <3>2. r.said[r.held] = "keep" /\ r.held \in DOMAIN r.said
         BY <1>2, <3>1 DEF Holds, Kept, Calls
      <3>3. \A p \in DOMAIN r.said : r.said[p] \notin Calls
         BY <1>2, <1>3, <3>1 DEF CallsSeen, Due
      <3> QED BY <1>3, <3>2, <3>3 DEF Detected, Has
   <2>9. ChatBody(last.out) /\ Events(last.out, {"calls"}) # {}
      <3>1. Listed(r.out) /\ Events(r.out, {"calls"}) = {} BY <1>3 DEF ChatLive, Common
      <3>2. Events(last.out, {"calls"}) = {Len(r.out) + 1} BY <2>2, <2>6, <3>1, EventsAppend
      <3>3. ASSUME NEW i \in DOMAIN last.out
            PROVE  /\ last.out[i].t \in {"content", "reasoning", "calls"}
                   /\ last.out[i].role = (i = 1)
                   /\ last.out[i].t = "calls" /\ last.out[i].piece = 0
                         => Events(last.out, {"calls"}) = {i}
         <4>1. CASE i \in DOMAIN r.out
            BY <2>2, <3>1, <4>1, AppendListed DEF ChatLive
         <4>2. CASE i = Len(r.out) + 1
            <5>1. last.out[i] = e BY <2>2, <3>1, <4>2, AppendListed
            <5>2. r.first = (i # 1) BY <3>1, <4>2, AppendListed DEF ChatLive
            <5> QED BY <2>6, <3>2, <4>2, <5>1, <5>2
         <4> QED BY <2>2, <3>1, <4>1, <4>2, AppendListed
      <3>4. Listed(last.out) BY <2>2, <3>1, AppendListed
      <3> QED BY <3>2, <3>3, <3>4 DEF ChatBody
   <2>10. ChatFrames(ending.out, TRUE) /\ Whole(ending)
      <3>1. "out" \in DOMAIN last /\ "said" \in DOMAIN last BY <2>2 DEF ChatFields
      <3>2. \A p \in Due(r) : last.said[p] \notin Shown \cup Reasoning BY <2>2, <2>8
      <3>3. GivesCalls(last.out, ReasonOf(last, filter)) BY <2>4, <2>9 DEF GivesCalls
      <3> QED BY <2>7, <2>9, <3>1, <3>2, <3>3, ChatFinishes
   <2> HIDE DEF ending
   <2> QED BY <2>5, <2>10 DEF Terminal
<1>4. CASE ~early
   <2>1. last = ChatFlushed(r) BY <1>4
   <2>2. ChatLive(last, {}) /\ last.said = r.said /\ last.held = 0 BY <2>1, ChatFlushes
   <2>3. Detected(last) <=> last.calls
      <3>1. ASSUME last.calls PROVE Detected(last)
         BY <2>2, <3>1 DEF ChatLive, CallsSeen, Detected, Has
      <3>2. ASSUME Detected(last), ~last.calls PROVE FALSE
         <4>1. Detected(r) BY <2>2, <3>2 DEF Detected, Has
         <4>2. r.calls BY <1>4, <4>1
         <4>3. \E p \in DOMAIN r.said : r.said[p] \in Calls BY <1>2, <4>2 DEF CallsSeen
         <4>4. last.calls BY <2>2, <4>3 DEF ChatLive, CallsSeen
         <4> QED BY <3>2, <4>4
      <3> QED BY <3>1, <3>2
   <2>4. ChatBody(last.out) /\ Tracked(last.said, last.out, {}) /\ "out" \in DOMAIN last
         /\ "said" \in DOMAIN last
      BY <2>2, ChatFramed DEF ChatLive, ChatFields
   <2>5. ReasonOf(last, filter) = "tool_calls" <=> Events(last.out, {"calls"}) # {}
      BY <2>2, <2>3, StatusAndReason DEF ChatLive
   <2>6. last.calls => status = OK BY StatusAndReason
   <2> HIDE DEF last, status
   <2>7. ChatFrames(ending.out, TRUE) /\ Whole(ending)
      <3>1. GivesCalls(last.out, ReasonOf(last, filter)) BY <2>5 DEF GivesCalls
      <3> DEFINE none == {}
      <3>2. \A p \in none : last.said[p] \notin Shown \cup Reasoning OBVIOUS
      <3>3. Tracked(last.said, last.out, none) BY <2>4
      <3> HIDE DEF none
      <3> QED BY <2>4, <3>1, <3>2, <3>3, ChatFinishes
   <2> HIDE DEF ending
   <2>8. CASE status = OK BY <1>1, <2>7, <2>8 DEF Terminal
   <2>9. CASE status # OK /\ defer BY <1>1, <2>2, <2>6, <2>9 DEF Deferred
   <2>10. CASE status # OK /\ ~defer
      <3>1. f = Terminal(ChatFail(last, status)) BY <1>1, <2>10
      <3>2. ~last.calls BY <2>6, <2>10
      <3>3. ChatFrames(ChatFail(last, status).out, TRUE) /\ Whole(ChatFail(last, status))
         BY <2>2, <3>2, ChatFails
      <3> QED BY <3>1, <3>3 DEF Terminal
   <2> QED BY <2>8, <2>9, <2>10
<1> QED BY <1>3, <1>4

-----------------------------------------------------------------------------
(* Gemini: with tools everything is due until the end. *)
GeminiFields == {"said", "held", "calls", "out", "tools", "required", "filtered"}
Unwritten(r) == IF r.tools THEN DOMAIN r.said ELSE {}

GeminiLive(r) ==
    /\ DOMAIN r = GeminiFields /\ Common(r) /\ r.filtered \in BOOLEAN
    /\ r.held = 0 /\ ~r.calls
    /\ Tracked(r.said, r.out, Unwritten(r))
    /\ \A i \in DOMAIN r.out : ~r.tools /\ r.out[i].t \in {"reasoning", "content"}

LEMMA GeminiParses ==
    ASSUME NEW r, GeminiLive(r), NEW kind \in PieceKinds
    PROVE  GeminiLive(GeminiOnParsed(r, kind))
<1> DEFINE g == Released(Given(r, kind))
           i == Len(r.said) + 1
           e == [t |-> IF kind \in Reasoning THEN "reasoning" ELSE "content", piece |-> Len(g.said)]
           s == GeminiOnParsed(r, kind)
<1> SUFFICES GeminiLive(s) OBVIOUS
<1>0. DOMAIN r = GeminiFields /\ Common(r) /\ Tracked(r.said, r.out, Unwritten(r))
      /\ r.said \in Seq(PieceKinds) /\ Listed(r.out)
   BY DEF GeminiLive, Common
<1>1. /\ DOMAIN g = GeminiFields /\ g.said = Append(r.said, kind) /\ g.held = 0 /\ g.out = r.out
      /\ g.calls = r.calls /\ g.tools = r.tools /\ g.required = r.required
      /\ g.filtered = r.filtered
   BY <1>0 DEF Released, Given, GeminiFields
<1>2. Tracked(g.said, g.out, Unwritten(r) \cup {i})
   <2>1. Tracked(Append(r.said, kind), r.out, Unwritten(r) \cup {i}) BY <1>0, TrackGiven
   <2> QED BY <1>1, <2>1
<1>3. s = IF r.tools THEN g ELSE Write(g, e) BY DEF GeminiOnParsed
<1>4. DOMAIN g.said = DOMAIN r.said \cup {i} /\ Len(g.said) = i BY <1>0, <1>1
<1>5. Common(g) /\ ~g.calls /\ g.filtered \in BOOLEAN BY <1>0, <1>1 DEF GeminiLive, Common
<1> HIDE DEF g, s
<1>6. CASE r.tools
   <2>1. Unwritten(g) = Unwritten(r) \cup {i} BY <1>1, <1>4, <1>6 DEF Unwritten
   <2> QED BY <1>1, <1>2, <1>3, <1>5, <1>6, <2>1 DEF GeminiLive
<1>7. CASE ~r.tools
   <2>1. Unwritten(r) \cup {i} = {i} /\ i \in {i} /\ {i} \ {i} = {} BY <1>7 DEF Unwritten
   <2>2. e.t \in {"reasoning", "content"} /\ e.piece = i BY <1>4
   <2>3. e.t \in Carriers /\ \A q \in {i} : SameKind(g.said, i, q) => i <= q
      <3>1. i \in Int BY <1>0
      <3> QED BY <2>2, <3>1 DEF Carriers
   <2> HIDE DEF e, i
   <2>4. Tracked(g.said, Append(g.out, e), {i} \ {i}) BY <1>2, <2>1, <2>2, <2>3, TrackPiece
   <2>5. /\ DOMAIN s = GeminiFields /\ s.out = Append(g.out, e) /\ s.said = g.said /\ s.held = 0
         /\ s.calls = g.calls /\ s.tools = g.tools /\ s.required = g.required
         /\ s.filtered = g.filtered
      BY <1>1, <1>3, <1>7 DEF Write, GeminiFields
   <2>6. Unwritten(s) = {} BY <1>1, <1>7, <2>5 DEF Unwritten
   <2>7. Tracked(s.said, s.out, Unwritten(s)) BY <2>1, <2>4, <2>5, <2>6
   <2>8. Common(s)
      <3>1. Listed(s.out) BY <1>0, <1>1, <2>5, AppendListed
      <3> QED BY <1>5, <2>5, <3>1 DEF Common
   <2>9. \A j \in DOMAIN s.out : ~s.tools /\ s.out[j].t \in {"reasoning", "content"}
      BY <1>0, <1>1, <1>7, <2>2, <2>5, AppendListed DEF GeminiLive
   <2> QED BY <1>5, <2>5, <2>7, <2>8, <2>9 DEF GeminiLive
<1> QED BY <1>6, <1>7

Complete(said, out) == \A i \in DOMAIN out : out[i].t = "parts" /\ out[i].said = Len(said)
IsEnd(e) == e.t \in {"finish", "error"}
Unended(out) == \A i \in DOMAIN out : out[i].t \notin {"finish", "error"}
Together(said, out, tools) == tools => Complete(said, out)

LEMMA GeminiTail ==
    ASSUME NEW said, NEW out, NEW tools, Listed(out), NEW e, IsEnd(e),
           Unended(out), Together(said, out, tools)
    PROVE  GeminiChunks(said, Append(out, e), tools, TRUE)
<1> DEFINE all == Append(out, e)
           n == Len(out)
<1>1. /\ n \in Nat /\ DOMAIN out = 1 .. n /\ Len(all) = n + 1 /\ all # <<>>
      /\ DOMAIN all = 1 .. n + 1 /\ all[n + 1] = e /\ \A i \in 1 .. n : all[i] = out[i]
   BY AppendListed
<1> HIDE DEF all, n
<1>2. \A i \in Events(all, {"finish", "error"}) : i = Len(all) BY <1>1 DEF Events, Unended
<1>3. tools => \A i \in DOMAIN all :
         all[i].t \in {"parts", "finish", "error"} /\ (all[i].t = "parts" => all[i].said = Len(said))
   BY <1>1 DEF Together, Complete, IsEnd
<1>4. Ends(all, {"finish", "error"}) BY <1>1 DEF Ends, IsEnd
<1> QED BY <1>2, <1>3, <1>4 DEF GeminiChunks, all

LEMMA GeminiFramed ==
    ASSUME NEW r, GeminiLive(r)
    PROVE  GeminiChunks(r.said, r.out, r.tools, FALSE) /\ Whole(r)
<1>1. /\ Events(r.out, {"finish", "error"}) = {} /\ Events(r.out, EndMarks) = {}
      /\ r.tools => DOMAIN r.out = {} /\ InOrder(r.said, r.out)
   BY DEF GeminiLive, Events, EndMarks, Tracked
<1>2. InOrder(r.said, r.out) BY DEF GeminiLive, Tracked
<1> QED BY <1>1, <1>2 DEF GeminiChunks, Whole

LEMMA GeminiFails ==
    ASSUME NEW r, GeminiLive(r), NEW status
    PROVE  LET s == GeminiFail(r, status)
           IN  GeminiChunks(s.said, s.out, s.tools, TRUE) /\ Whole(s)
<1> DEFINE e == [t |-> "error", status |-> status]
           s == GeminiFail(r, status)
<1>1. e.t = "error" OBVIOUS
<1>2. s.out = Append(r.out, e) /\ s.said = r.said /\ s.tools = r.tools
   BY DEF GeminiFail, Write, GeminiLive, GeminiFields
<1> HIDE DEF e, s
<1>3. Listed(r.out) /\ Tracked(r.said, r.out, Unwritten(r)) BY DEF GeminiLive, Common
<1>4. GeminiChunks(s.said, s.out, s.tools, TRUE)
   <2>1. Unended(r.out) BY DEF GeminiLive, Unended
   <2>2. Together(r.said, r.out, r.tools) BY DEF GeminiLive, Together, Complete
   <2>3. IsEnd(e) BY <1>1 DEF IsEnd
   <2>4. GeminiChunks(r.said, Append(r.out, e), r.tools, TRUE)
      BY <1>3, <2>1, <2>2, <2>3, GeminiTail
   <2> QED BY <1>2, <2>4
<1>5. Events(r.out, EndMarks) = {} BY DEF GeminiLive, Events, EndMarks
<1>6. Events(s.out, EndMarks) = {} BY <1>1, <1>2, <1>3, <1>5, EventsAppend DEF EndMarks
<1>7. e.t \notin Carriers BY <1>1 DEF Carriers
<1>8. Tracked(s.said, s.out, Unwritten(r)) BY <1>2, <1>3, <1>7, TrackEvent
<1> QED BY <1>4, <1>6, <1>8 DEF Whole, Tracked, s

LEMMA GeminiEnds ==
    ASSUME NEW r, GeminiLive(r), NEW filter \in BOOLEAN, NEW defer \in BOOLEAN
    PROVE  LET f == GeminiFinalize(r, filter, defer)
           IN  \/ /\ f.terminal /\ GeminiChunks(f.rt.said, f.rt.out, f.rt.tools, TRUE)
                  /\ f.rt.tools = r.tools /\ InOrder(f.rt.said, f.rt.out) /\ (r.tools \/ Whole(f.rt))
               \/ ~f.terminal /\ defer /\ GeminiLive(f.rt) /\ f.rt.tools = r.tools
<1> DEFINE f == GeminiFinalize(r, filter, defer)
           last == [r EXCEPT !.filtered = @ \/ filter]
           status == StatusOf(last, last.filtered)
           p == [t |-> "parts", calls |-> Detected(last), said |-> Len(last.said)]
           parts == IF last.tools THEN Write(last, p) ELSE last
           e == [t |-> "finish"]
           ending == Write(parts, e)
<1> SUFFICES \/ /\ f.terminal /\ GeminiChunks(f.rt.said, f.rt.out, f.rt.tools, TRUE)
                /\ f.rt.tools = r.tools /\ InOrder(f.rt.said, f.rt.out) /\ (r.tools \/ Whole(f.rt))
             \/ ~f.terminal /\ defer /\ GeminiLive(f.rt) /\ f.rt.tools = r.tools
   OBVIOUS
<1>1. f = CASE status = OK -> Terminal(ending)
            [] status # OK /\ defer -> Deferred(last)
            [] OTHER -> Terminal(GeminiFail(last, status))
   BY DEF GeminiFinalize
<1>2. /\ DOMAIN last = GeminiFields /\ last.said = r.said /\ last.held = r.held /\ last.out = r.out
      /\ last.calls = r.calls /\ last.tools = r.tools /\ last.required = r.required
   BY DEF GeminiLive, GeminiFields
<1>3. last.filtered \in BOOLEAN BY DEF GeminiLive, GeminiFields
<1>4. p.t = "parts" /\ p.said = Len(last.said) /\ e.t = "finish" OBVIOUS
<1> HIDE DEF f, last, p, e
<1>5. GeminiLive(last) BY <1>2, <1>3 DEF GeminiLive, Common, Unwritten
<1>6. /\ ending.out = Append(parts.out, e) /\ ending.said = last.said /\ ending.tools = last.tools
      /\ parts.out = IF last.tools THEN Append(last.out, p) ELSE last.out
   BY <1>2 DEF Write, GeminiFields
<1> HIDE DEF parts, ending
<1>7. Listed(last.out) /\ Tracked(last.said, last.out, Unwritten(last))
      /\ p.t \notin Carriers /\ e.t \notin Carriers
   BY <1>4, <1>5 DEF GeminiLive, Common, Carriers
<1>8. Listed(parts.out) /\ Tracked(last.said, parts.out, Unwritten(last))
   BY <1>6, <1>7, TrackEvent, AppendListed
<1>9. Tracked(ending.said, ending.out, Unwritten(last)) BY <1>6, <1>7, <1>8, TrackEvent
<1>10. GeminiChunks(ending.said, ending.out, ending.tools, TRUE)
   <2>1. /\ Unended(parts.out)
         /\ Together(last.said, parts.out, last.tools)
      <3>1. CASE last.tools
         <4>1. DOMAIN last.out = {} BY <1>5, <3>1 DEF GeminiLive
         <4> QED BY <1>4, <1>6, <1>7, <3>1, <4>1, AppendListed DEF Together, Complete, Unended
      <3>2. CASE ~last.tools BY <1>5, <1>6, <3>2 DEF GeminiLive, Together, Unended
      <3> QED BY <3>1, <3>2
   <2>2. IsEnd(e) BY <1>4 DEF IsEnd
   <2>3. GeminiChunks(last.said, Append(parts.out, e), last.tools, TRUE)
      BY <1>8, <2>1, <2>2, GeminiTail
   <2> QED BY <1>6, <2>3
<1>11. InOrder(ending.said, ending.out) /\ (last.tools \/ Whole(ending))
   <2>1. InOrder(ending.said, ending.out) BY <1>9 DEF Tracked
   <2>2. ASSUME ~last.tools PROVE Written(ending.said, ending.out)
      BY <1>9, <2>2, WholeAtEnd DEF Unwritten
   <2> QED BY <2>1, <2>2 DEF Whole
<1>12. CASE status = OK BY <1>1, <1>2, <1>6, <1>10, <1>11, <1>12 DEF Terminal
<1>13. CASE status # OK /\ defer BY <1>1, <1>2, <1>5, <1>13 DEF Deferred
<1>14. CASE status # OK /\ ~defer
   <2> DEFINE g == GeminiFail(last, status)
   <2>1. f = Terminal(g) BY <1>1, <1>14
   <2>2. GeminiChunks(g.said, g.out, g.tools, TRUE) /\ Whole(g) BY <1>5, GeminiFails
   <2>3. g.tools = last.tools BY <1>2 DEF GeminiFail, Write, GeminiFields
   <2> HIDE DEF g
   <2> QED BY <1>2, <2>1, <2>2, <2>3 DEF Terminal, Whole
<1> QED BY <1>12, <1>13, <1>14

-----------------------------------------------------------------------------
(* Claude: blocks. *)
BlockEvents == {"message_start", "start", "delta", "stop"}

(* The blocks of an unended message: next were started and some are open. *)
Blocks(said, out, next, open) ==
    /\ Listed(out) /\ next \in Nat /\ open \subseteq 0 .. next - 1
    /\ \A i \in DOMAIN out : out[i].t \in BlockEvents
    /\ Events(out, {"message_start"}) = {1}
    /\ IsFiniteSet(Events(out, {"start"})) /\ Cardinality(Events(out, {"start"})) = next
    /\ \A i \in Events(out, {"start"}) :
          out[i].block = Before(out, {"start"}, i) /\ out[i].block \in 0 .. next - 1
    /\ \A i \in Events(out, {"delta", "stop"}) :
          BlockOpen(out, out[i].block, i) /\ out[i].block \in 0 .. next - 1
    /\ \A i, j \in Events(out, {"start"}) :
          i < j /\ BlockOpen(out, out[i].block, j) => Thinks(said, out, out[i].block)
    /\ \A n \in 0 .. next - 1 : BlockOpen(out, n, Len(out) + 1) <=> n \in open

(* What was open before a place does not depend on what comes behind it. *)
LEMMA OpenBefore ==
    ASSUME NEW out, Listed(out), NEW e, NEW n, NEW i \in 1 .. Len(out) + 1
    PROVE  BlockOpen(Append(out, e), n, i) <=> BlockOpen(out, n, i)
<1> DEFINE all == Append(out, e)
<1>1. /\ Len(out) \in Nat /\ DOMAIN out = 1 .. Len(out) /\ DOMAIN all = 1 .. Len(out) + 1
      /\ \A j \in 1 .. Len(out) : all[j] = out[j]
   BY AppendListed
<1> HIDE DEF all
<1>2. \A j \in OfBlock(out, n, {"start"}) : j \in OfBlock(all, n, {"start"})
   BY <1>1 DEF OfBlock, Events
<1>3. \A j \in OfBlock(all, n, {"start"}) : j < i => j \in OfBlock(out, n, {"start"})
   BY <1>1 DEF OfBlock, Events
<1>4. \A j \in OfBlock(out, n, {"stop"}) : j \in OfBlock(all, n, {"stop"})
   BY <1>1 DEF OfBlock, Events
<1>5. \A j \in OfBlock(all, n, {"stop"}) : j \in Int /\ (j < i => j \in OfBlock(out, n, {"stop"}))
   BY <1>1 DEF OfBlock, Events
<1>6. \A j \in OfBlock(out, n, {"stop"}) : j \in Int BY <1>1 DEF OfBlock, Events
<1>7. i \in Int BY <1>1
<1> QED BY <1>2, <1>3, <1>4, <1>5, <1>6, <1>7 DEF BlockOpen, all

(* What is open behind an event. *)
LEMMA OpenBehind ==
    ASSUME NEW out, Listed(out), NEW e, NEW n
    PROVE  LET all == Append(out, e)
               m == Len(out) + 1
           IN  /\ e.t = "stop" /\ e.block = n => ~BlockOpen(all, n, m + 1)
               /\ e.t = "start" /\ e.block = n /\ OfBlock(out, n, {"stop"}) = {}
                     => BlockOpen(all, n, m + 1)
               /\ e.t \notin {"start", "stop"} \/ e.block # n
                     => (BlockOpen(all, n, m + 1) <=> BlockOpen(out, n, m))
<1> DEFINE all == Append(out, e)
           m == Len(out) + 1
<1>1. /\ Len(out) \in Nat /\ DOMAIN out = 1 .. Len(out) /\ DOMAIN all = 1 .. m /\ m \in Nat
      /\ all[m] = e /\ \A j \in 1 .. Len(out) : all[j] = out[j] /\ j < m
   BY AppendListed
<1> HIDE DEF all
<1>2. ASSUME e.t = "stop", e.block = n PROVE ~BlockOpen(all, n, m + 1)
   <2>1. m \in OfBlock(all, n, {"stop"}) BY <1>1, <1>2 DEF OfBlock, Events
   <2> QED BY <1>1, <2>1 DEF BlockOpen
<1>3. ASSUME e.t = "start", e.block = n, OfBlock(out, n, {"stop"}) = {}
      PROVE  BlockOpen(all, n, m + 1)
   <2>1. m \in OfBlock(all, n, {"start"}) BY <1>1, <1>3 DEF OfBlock, Events
   <2>2. OfBlock(all, n, {"stop"}) = {} BY <1>1, <1>3 DEF OfBlock, Events
   <2> QED BY <1>1, <2>1, <2>2 DEF BlockOpen
<1>4. ASSUME e.t \notin {"start", "stop"} \/ e.block # n
      PROVE  BlockOpen(all, n, m + 1) <=> BlockOpen(out, n, m)
   <2>1. /\ OfBlock(all, n, {"start"}) = OfBlock(out, n, {"start"})
         /\ OfBlock(all, n, {"stop"}) = OfBlock(out, n, {"stop"})
      BY <1>1, <1>4 DEF OfBlock, Events
   <2>2. /\ \A j \in OfBlock(out, n, {"start"}) : j \in Int /\ j < m
         /\ \A j \in OfBlock(out, n, {"stop"}) : j \in Int /\ j < m
      BY <1>1 DEF OfBlock, Events
   <2> QED BY <1>1, <2>1, <2>2 DEF BlockOpen
<1> QED BY <1>2, <1>3, <1>4 DEF all

LEMMA ThinksOn ==
    ASSUME NEW said, NEW out, Listed(out), NEW e, NEW n, Thinks(said, out, n)
    PROVE  Thinks(said, Append(out, e), n)
<1>1. \A i \in DOMAIN out : i \in DOMAIN Append(out, e) /\ Append(out, e)[i] = out[i]
   BY AppendListed
<1> QED BY <1>1 DEF Thinks, OfBlock, Events

LEMMA BeforeOn ==
    ASSUME NEW out, Listed(out), NEW e, NEW t
    PROVE  /\ \A i \in DOMAIN out : Before(Append(out, e), t, i) = Before(out, t, i)
           /\ Before(Append(out, e), t, Len(out) + 1) = Cardinality(Events(out, t))
<1> DEFINE all == Append(out, e)
           m == Len(out) + 1
<1>1. /\ Len(out) \in Nat /\ DOMAIN out = 1 .. Len(out) /\ DOMAIN all = 1 .. m
      /\ \A j \in 1 .. Len(out) : all[j] = out[j]
   BY AppendListed
<1> HIDE DEF all
<1>2. ASSUME NEW i \in DOMAIN out PROVE Before(all, t, i) = Before(out, t, i)
   <2>1. {j \in Events(all, t) : j < i} = {j \in Events(out, t) : j < i} BY <1>1 DEF Events
   <2> QED BY <2>1 DEF Before
<1>3. {j \in Events(all, t) : j < m} = Events(out, t) BY <1>1 DEF Events
<1> QED BY <1>2, <1>3 DEF Before, all

(* An event that may come next, and what it makes of the blocks. *)
MayFollow(said, out, next, open, e) ==
    \/ e.t = "start" /\ e.block = next /\ \A n \in open : Thinks(said, out, n)
    \/ e.t \in {"delta", "stop"} /\ e.block \in open

NextOf(next, e) == IF e.t = "start" THEN next + 1 ELSE next
OpenOf(open, e) ==
    IF e.t = "start" THEN open \cup {e.block}
    ELSE IF e.t = "stop" THEN open \ {e.block} ELSE open

LEMMA BlocksGrow ==
    ASSUME NEW said, NEW out, NEW next, NEW open, Blocks(said, out, next, open),
           NEW e, MayFollow(said, out, next, open, e)
    PROVE  Blocks(said, Append(out, e), NextOf(next, e), OpenOf(open, e))
<1> DEFINE all == Append(out, e)
           m == Len(out) + 1
           more == NextOf(next, e)
           left == OpenOf(open, e)
<1>1. /\ Listed(out) /\ Listed(all) /\ Len(out) \in Nat /\ DOMAIN out = 1 .. Len(out)
      /\ m \in Nat /\ DOMAIN all = 1 .. m /\ Len(all) = m
      /\ all[m] = e /\ \A j \in 1 .. Len(out) : all[j] = out[j] /\ j < m
   BY AppendListed DEF Blocks
<1>2. next \in Nat /\ open \subseteq 0 .. next - 1 BY DEF Blocks
<1>3. /\ e.t \in {"start", "delta", "stop"} /\ e.block \in Int
      /\ e.t = "start" => e.block = next /\ \A n \in open : Thinks(said, out, n)
      /\ e.t # "start" => e.block \in open
   <2>1. CASE e.t = "start" /\ e.block = next /\ \A n \in open : Thinks(said, out, n)
      <3>1. e.block \in Int BY <1>2, <2>1
      <3> QED BY <2>1, <3>1
   <2>2. CASE e.t \in {"delta", "stop"} /\ e.block \in open
      <3>1. \A n \in open : n \in Int BY <1>2
      <3>2. e.block \in Int BY <2>2, <3>1
      <3> QED BY <2>2, <3>2
   <2> QED BY <2>1, <2>2 DEF MayFollow
<1>4. /\ more = IF e.t = "start" THEN next + 1 ELSE next
      /\ e.block \in 0 .. more - 1 /\ 0 .. next - 1 \subseteq 0 .. more - 1 /\ more \in Nat
      /\ left \subseteq 0 .. more - 1
   <2>1. more = IF e.t = "start" THEN next + 1 ELSE next BY DEF NextOf
   <2>2. CASE e.t = "start"
      <3>1. left = open \cup {e.block} /\ e.block = next /\ more = next + 1
         BY <1>3, <2>1, <2>2 DEF OpenOf
      <3> HIDE DEF left, more
      <3> QED BY <1>2, <2>2, <3>1
   <2>3. CASE e.t # "start"
      <3>1. left \subseteq open /\ e.block \in open /\ more = next
         BY <1>3, <2>1, <2>3 DEF OpenOf
      <3> HIDE DEF left, more
      <3> QED BY <1>2, <2>3, <3>1
   <2> QED BY <2>2, <2>3
<1> HIDE DEF all, more, left, m
<1>5. \A i \in DOMAIN all : all[i].t \in BlockEvents BY <1>1, <1>3 DEF Blocks, BlockEvents, m
<1>6. Events(all, {"message_start"}) = {1}
   <2>1. Events(out, {"message_start"}) = {1} BY DEF Blocks
   <2>2. Events(all, {"message_start"}) = Events(out, {"message_start"})
      BY <1>1, <1>3 DEF Events, m
   <2> QED BY <2>1, <2>2
<1>7. Events(all, {"start"})
        = IF e.t = "start" THEN Events(out, {"start"}) \cup {m} ELSE Events(out, {"start"})
   BY <1>1 DEF Events, m
<1>8. IsFiniteSet(Events(all, {"start"})) /\ Cardinality(Events(all, {"start"})) = more
   <2>1. IsFiniteSet(Events(out, {"start"})) /\ Cardinality(Events(out, {"start"})) = next
      BY DEF Blocks
   <2>2. m \notin Events(out, {"start"}) BY <1>1 DEF Events, m
   <2> QED BY <1>2, <1>4, <1>7, <2>1, <2>2, FS_AddElement
<1>9. ASSUME NEW i \in Events(all, {"start"})
      PROVE  all[i].block = Before(all, {"start"}, i) /\ all[i].block \in 0 .. more - 1
   <2>1. CASE i \in DOMAIN out
      <3>1. i \in Events(out, {"start"}) BY <1>1, <1>9, <2>1 DEF Events
      <3>2. out[i].block = Before(out, {"start"}, i) /\ out[i].block \in 0 .. next - 1
         BY <3>1 DEF Blocks
      <3> QED BY <1>1, <1>4, <2>1, <3>2, BeforeOn DEF all
   <2>2. CASE i = m
      <3>1. e.t = "start" BY <1>1, <1>9, <2>2 DEF Events
      <3>2. Before(all, {"start"}, m) = Cardinality(Events(out, {"start"}))
         BY <1>1, BeforeOn DEF all, m
      <3>3. Before(all, {"start"}, m) = next BY <3>2 DEF Blocks
      <3> QED BY <1>1, <1>3, <1>4, <2>2, <3>1, <3>3
   <2> QED BY <1>1, <1>9, <2>1, <2>2 DEF Events, m
<1>10. \A n, i : i \in 1 .. m => (BlockOpen(all, n, i) <=> BlockOpen(out, n, i))
   BY <1>1, OpenBefore DEF all, m
<1>11. \A n \in 0 .. next - 1 : BlockOpen(out, n, m) <=> n \in open BY DEF Blocks, m
<1>12. ASSUME NEW i \in Events(all, {"delta", "stop"})
       PROVE  BlockOpen(all, all[i].block, i) /\ all[i].block \in 0 .. more - 1
   <2>1. CASE i \in DOMAIN out
      <3>1. i \in Events(out, {"delta", "stop"}) BY <1>1, <1>12, <2>1 DEF Events
      <3>2. BlockOpen(out, out[i].block, i) /\ out[i].block \in 0 .. next - 1
         BY <3>1 DEF Blocks
      <3>3. i \in 1 .. m BY <1>1, <2>1
      <3> QED BY <1>1, <1>4, <1>10, <2>1, <3>2, <3>3
   <2>2. CASE i = m
      <3>1. e.t \in {"delta", "stop"} BY <1>1, <1>12, <2>2 DEF Events
      <3>2. e.block \in open BY <1>3, <3>1
      <3>3. BlockOpen(out, e.block, m) BY <1>2, <1>11, <3>2
      <3>4. m \in 1 .. m BY <1>1 DEF m
      <3> QED BY <1>1, <1>4, <1>10, <2>2, <3>3, <3>4
   <2> QED BY <1>1, <1>12, <2>1, <2>2 DEF Events, m
<1>13. ASSUME NEW i \in Events(all, {"start"}), NEW j \in Events(all, {"start"}),
              i < j, BlockOpen(all, all[i].block, j)
       PROVE  Thinks(said, all, all[i].block)
   <2>1. i \in DOMAIN out /\ i \in Events(out, {"start"}) /\ j \in 1 .. m
      BY <1>1, <1>13 DEF Events, m
   <2>2. BlockOpen(out, out[i].block, j) /\ all[i] = out[i] BY <1>1, <1>10, <1>13, <2>1
   <2>3. Thinks(said, out, out[i].block)
      <3>1. CASE j \in Events(out, {"start"}) BY <1>13, <2>1, <2>2, <3>1 DEF Blocks
      <3>2. CASE j = m
         <4>1. e.t = "start" BY <1>1, <1>13, <3>2 DEF Events
         <4>2. out[i].block \in 0 .. next - 1 BY <2>1 DEF Blocks
         <4> QED BY <1>3, <1>11, <2>2, <3>2, <4>1, <4>2
      <3> QED BY <1>7, <1>13, <3>1, <3>2
   <2> QED BY <1>1, <2>2, <2>3, ThinksOn DEF all
<1>14. ASSUME NEW n \in 0 .. more - 1
       PROVE  BlockOpen(all, n, Len(all) + 1) <=> n \in left
   <2>1. /\ e.t = "stop" /\ e.block = n => ~BlockOpen(all, n, m + 1)
         /\ e.t = "start" /\ e.block = n /\ OfBlock(out, n, {"stop"}) = {}
               => BlockOpen(all, n, m + 1)
         /\ e.t \notin {"start", "stop"} \/ e.block # n
               => (BlockOpen(all, n, m + 1) <=> BlockOpen(out, n, m))
      BY <1>1, OpenBehind DEF all, m
   <2>2. CASE n = next /\ e.t = "start"
      <3>1. OfBlock(out, n, {"stop"}) = {}
         <4>1. \A i \in Events(out, {"delta", "stop"}) : out[i].block \in 0 .. next - 1
            BY DEF Blocks
         <4> QED BY <1>2, <2>2, <4>1 DEF OfBlock, Events
      <3> QED BY <1>1, <1>3, <2>1, <2>2, <3>1 DEF left, OpenOf
   <2>3. CASE n \in 0 .. next - 1
      <3>1. BlockOpen(out, n, m) <=> n \in open BY <1>11, <2>3
      <3>2. CASE e.t = "start"
         <4>1. e.block # n BY <1>2, <1>3, <2>3, <3>2
         <4> QED BY <1>1, <2>1, <3>1, <3>2, <4>1 DEF left, OpenOf
      <3>3. CASE e.t = "stop" BY <1>1, <2>1, <3>1, <3>3 DEF left, OpenOf
      <3>4. CASE e.t = "delta" BY <1>1, <2>1, <3>1, <3>4 DEF left, OpenOf
      <3> QED BY <1>3, <3>2, <3>3, <3>4
   <2> QED BY <1>2, <1>4, <2>2, <2>3
<1>15. Blocks(said, all, more, left)
   BY <1>1, <1>4, <1>5, <1>6, <1>8, <1>9, <1>12, <1>13, <1>14 DEF Blocks
<1> QED BY <1>15 DEF all, more, left

(* What a message has written and what it has open. *)
MessageBody(said, out, due, next, open, tools) ==
    /\ Tracked(said, out, due) /\ Blocks(said, out, next, open)
    /\ tools <=> ToolDeltas(said, out) # {}

ForTool(said, e) == e.t = "delta" /\ (e.piece = 0 \/ said[e.piece] \in Calls)

LEMMA ToolDeltasAppend ==
    ASSUME NEW said, NEW out, Listed(out), NEW e
    PROVE  ToolDeltas(said, Append(out, e)) # {}
              <=> ToolDeltas(said, out) # {} \/ ForTool(said, e)
<1> DEFINE all == Append(out, e)
           m == Len(out) + 1
<1>1. /\ Len(out) \in Nat /\ DOMAIN out = 1 .. Len(out) /\ DOMAIN all = 1 .. m
      /\ all[m] = e /\ \A j \in 1 .. Len(out) : all[j] = out[j]
   BY AppendListed
<1> HIDE DEF all
<1>2. ASSUME NEW i \in ToolDeltas(said, out) PROVE i \in ToolDeltas(said, all)
   BY <1>1 DEF ToolDeltas, Events
<1>3. ASSUME ForTool(said, e) PROVE m \in ToolDeltas(said, all)
   BY <1>1, <1>3 DEF ToolDeltas, Events, ForTool
<1>4. ASSUME NEW i \in ToolDeltas(said, all), i \notin ToolDeltas(said, out)
      PROVE  ForTool(said, e)
   <2>1. i \in DOMAIN all /\ all[i].t \in {"delta"}
         /\ (all[i].piece = 0 \/ said[all[i].piece] \in Calls)
      BY DEF ToolDeltas, Events
   <2>2. i = m BY <1>1, <1>4, <2>1 DEF ToolDeltas, Events
   <2> QED BY <1>1, <2>1, <2>2 DEF ForTool
<1> QED BY <1>2, <1>3, <1>4 DEF all

(* The start or the stop of a block. *)
LEMMA BodyMark ==
    ASSUME NEW said, NEW out, NEW due, NEW next, NEW open, NEW tools,
           MessageBody(said, out, due, next, open, tools),
           NEW e, e.t \in {"start", "stop"}, MayFollow(said, out, next, open, e)
    PROVE  MessageBody(said, Append(out, e), due, NextOf(next, e), OpenOf(open, e), tools)
<1>1. Listed(out) BY DEF MessageBody, Tracked
<1>2. e.t \notin Carriers /\ ~ForTool(said, e) BY DEF Carriers, ForTool
<1>3. Tracked(said, Append(out, e), due) BY <1>2, TrackEvent DEF MessageBody
<1>4. Blocks(said, Append(out, e), NextOf(next, e), OpenOf(open, e)) BY BlocksGrow DEF MessageBody
<1>5. tools <=> ToolDeltas(said, Append(out, e)) # {}
   <2>1. ToolDeltas(said, Append(out, e)) # {} <=> ToolDeltas(said, out) # {}
      BY <1>1, <1>2, ToolDeltasAppend
   <2> QED BY <2>1 DEF MessageBody
<1> QED BY <1>3, <1>4, <1>5 DEF MessageBody

(* A delta in an open block, of a piece that is due or of none. *)
First(said, due, p) == p = 0 \/ (p \in due /\ \A q \in due : SameKind(said, p, q) => p <= q)
IsTool(said, p) == p = 0 \/ said[p] \in Calls

LEMMA NoPieceFirst ==
    ASSUME NEW said, NEW due
    PROVE  First(said, due, 0) /\ IsTool(said, 0)
<1>1. First(said, due, 0) BY DEF First
<1>2. IsTool(said, 0) BY DEF IsTool
<1> QED BY <1>1, <1>2

LEMMA BodyDelta ==
    ASSUME NEW said, NEW out, NEW due, NEW next, NEW open, NEW tools,
           MessageBody(said, out, due, next, open, tools), NEW p, First(said, due, p),
           NEW e, e.t = "delta", e.piece = p, e.block \in open
    PROVE  /\ MessageBody(said, Append(out, e), due \ {p}, next, open, tools \/ IsTool(said, p))
           /\ p # 0 /\ said[p] \in Reasoning => Thinks(said, Append(out, e), e.block)
<1>1. Listed(out) /\ Tracked(said, out, due) /\ due \subseteq DOMAIN said /\ said \in Seq(PieceKinds)
   BY DEF MessageBody, Tracked
<1>2. 0 \notin due /\ \A q \in due : q \in Nat BY <1>1
<1>3. Tracked(said, Append(out, e), due \ {p})
   <2>1. e.t \in Carriers BY DEF Carriers
   <2>2. CASE p = 0
      <3>1. Tracked(said, Append(out, e), due) BY <1>1, <2>2, TrackEvent
      <3>2. due \ {p} = due BY <1>2, <2>2
      <3> QED BY <3>1, <3>2
   <2>3. CASE p # 0
      <3>1. p \in due /\ \A q \in due : SameKind(said, p, q) => p <= q BY <2>3 DEF First
      <3> QED BY <1>1, <2>1, <3>1, TrackPiece
   <2> QED BY <2>2, <2>3
<1>4. Blocks(said, Append(out, e), next, open)
   <2>1. MayFollow(said, out, next, open, e) BY DEF MayFollow
   <2>2. NextOf(next, e) = next /\ OpenOf(open, e) = open BY DEF NextOf, OpenOf
   <2>3. Blocks(said, Append(out, e), NextOf(next, e), OpenOf(open, e))
      BY <2>1, BlocksGrow DEF MessageBody
   <2> QED BY <2>2, <2>3
<1>5. tools \/ IsTool(said, p) <=> ToolDeltas(said, Append(out, e)) # {}
   <2>1. ForTool(said, e) <=> IsTool(said, p) BY DEF ForTool, IsTool
   <2>2. ToolDeltas(said, Append(out, e)) # {} <=> ToolDeltas(said, out) # {} \/ ForTool(said, e)
      BY <1>1, ToolDeltasAppend
   <2> QED BY <2>1, <2>2 DEF MessageBody
<1>6. ASSUME p # 0, said[p] \in Reasoning PROVE Thinks(said, Append(out, e), e.block)
   <2>1. p > 0 BY <1>2, <1>6 DEF First
   <2>2. Len(out) + 1 \in OfBlock(Append(out, e), e.block, {"delta"})
      BY <1>1, AppendListed DEF OfBlock, Events
   <2>3. Append(out, e)[Len(out) + 1] = e BY <1>1, AppendListed
   <2> QED BY <1>6, <2>1, <2>2, <2>3 DEF Thinks
<1> QED BY <1>3, <1>4, <1>5, <1>6 DEF MessageBody

(* Another piece. *)
LEMMA BodyGiven ==
    ASSUME NEW said, NEW out, NEW due, NEW next, NEW open, NEW tools,
           MessageBody(said, out, due, next, open, tools), NEW kind \in PieceKinds
    PROVE  /\ MessageBody(Append(said, kind), out, due \cup {Len(said) + 1}, next, open, tools)
           /\ \A n : Thinks(said, out, n) => Thinks(Append(said, kind), out, n)
<1> DEFINE more == Append(said, kind)
<1>1. Tracked(said, out, due) BY DEF MessageBody
<1>2. Tracked(more, out, due \cup {Len(said) + 1}) BY <1>1, TrackGiven
<1>3. /\ \A p \in DOMAIN said : more[p] = said[p]
      /\ \A i \in Carried(out) : out[i].piece \in DOMAIN said
      /\ \A i \in Events(out, Carriers) : out[i].piece \in Nat
   BY <1>1 DEF Tracked
<1> HIDE DEF more
<1>4. ASSUME NEW i \in Events(out, {"delta"}), out[i].piece # 0
      PROVE  more[out[i].piece] = said[out[i].piece]
   <2>1. i \in Events(out, Carriers) BY DEF Events, Carriers
   <2>2. i \in Carried(out) BY <1>3, <1>4, <2>1 DEF Carried
   <2> QED BY <1>3, <2>2
<1>5. ToolDeltas(more, out) = ToolDeltas(said, out) BY <1>4 DEF ToolDeltas
<1>6. ASSUME NEW n, Thinks(said, out, n) PROVE Thinks(more, out, n)
   <2>1. PICK i \in OfBlock(out, n, {"delta"}) : out[i].piece > 0 /\ said[out[i].piece] \in Reasoning
      BY <1>6 DEF Thinks
   <2>2. i \in Events(out, {"delta"}) BY DEF OfBlock
   <2>3. out[i].piece # 0 BY <2>1
   <2> QED BY <1>4, <2>1, <2>2, <2>3 DEF Thinks
<1>7. Blocks(more, out, next, open)
   <2>1. Blocks(said, out, next, open) BY DEF MessageBody
   <2> QED BY <1>6, <2>1 DEF Blocks
<1> QED BY <1>2, <1>5, <1>6, <1>7 DEF MessageBody, more

ClaudeFields ==
    {"said", "held", "calls", "out", "tools", "required", "next", "thinkBlock", "textBlock"}
OpenBlocks(r) == {n \in {r.thinkBlock, r.textBlock} : n >= 0}

(* A message that has not stopped yet, but for its pieces. *)
ClaudeOpen(r) ==
    /\ DOMAIN r = ClaudeFields /\ Common(r) /\ Holds(r) /\ ~r.required
    /\ r.thinkBlock \in Nat \cup {-1} /\ r.textBlock \in Nat \cup {-1}
    /\ r.thinkBlock = r.textBlock => r.textBlock = -1
    /\ r.thinkBlock >= 0 => Thinks(r.said, r.out, r.thinkBlock)

BodyOf(r, due) == MessageBody(r.said, r.out, due, r.next, OpenBlocks(r), r.calls)

ClaudeLive(r, due) == ClaudeOpen(r) /\ BodyOf(r, due) /\ CallsSeen(r.said, r.calls, due)

(* r becomes s, which differs in what it has written and in its blocks. *)
SameAnswer(r, s) ==
    /\ DOMAIN s = DOMAIN r /\ s.said = r.said /\ s.held = r.held
    /\ s.tools = r.tools /\ s.required = r.required

LEMMA CloseTextFields ==
    ASSUME NEW r, DOMAIN r = ClaudeFields, r.textBlock \in Nat \cup {-1}
    PROVE  LET s == CloseText(r)
           IN  /\ SameAnswer(r, s) /\ s.calls = r.calls /\ s.next = r.next
               /\ s.thinkBlock = r.thinkBlock /\ s.textBlock = -1
               /\ s.out = IF r.textBlock < 0 THEN r.out
                          ELSE Append(r.out, Block("stop", r.textBlock))
BY DEF CloseText, Write, ClaudeFields, SameAnswer

LEMMA CloseThinkingFields ==
    ASSUME NEW r, DOMAIN r = ClaudeFields, r.thinkBlock \in Nat \cup {-1}
    PROVE  LET s == CloseThinking(r)
           IN  /\ SameAnswer(r, s) /\ s.calls = r.calls /\ s.next = r.next
               /\ s.thinkBlock = -1 /\ s.textBlock = r.textBlock
               /\ s.out = IF r.thinkBlock < 0 THEN r.out
                          ELSE Append(r.out, Block("stop", r.thinkBlock))
BY DEF CloseThinking, Write, ClaudeFields, SameAnswer

PieceDelta(i, p) == [t |-> "delta", block |-> i, piece |-> p]

LEMMA TextBlockFields ==
    ASSUME NEW r, DOMAIN r = ClaudeFields, r.textBlock \in Nat \cup {-1}, NEW p
    PROVE  LET s == TextBlockDelta(r, p)
               began == r.textBlock < 0
               i == IF began THEN r.next ELSE r.textBlock
           IN  /\ SameAnswer(r, s) /\ s.calls = r.calls
               /\ s.next = (IF began THEN r.next + 1 ELSE r.next)
               /\ s.thinkBlock = r.thinkBlock /\ s.textBlock = i
               /\ s.out = Append(IF began THEN Append(r.out, Block("start", i)) ELSE r.out,
                                 PieceDelta(i, p))
BY DEF TextBlockDelta, BlockDelta, PieceDelta, Write, ClaudeFields, SameAnswer

LEMMA ThinkingFields ==
    ASSUME NEW r, DOMAIN r = ClaudeFields, r.textBlock \in Nat \cup {-1},
           r.thinkBlock \in Nat \cup {-1}, NEW p
    PROVE  LET s == ThinkingDelta(r, p)
               c == CloseText(r)
               began == r.thinkBlock < 0
               i == IF began THEN r.next ELSE r.thinkBlock
           IN  /\ SameAnswer(r, s) /\ s.calls = r.calls
               /\ s.next = (IF began THEN r.next + 1 ELSE r.next)
               /\ s.thinkBlock = i /\ s.textBlock = -1
               /\ s.out = Append(IF began THEN Append(c.out, Block("start", i)) ELSE c.out,
                                 PieceDelta(i, p))
<1> DEFINE c == CloseText(r)
<1>1. /\ SameAnswer(r, c) /\ c.calls = r.calls /\ c.next = r.next
      /\ c.thinkBlock = r.thinkBlock /\ c.textBlock = -1
   BY CloseTextFields
<1> HIDE DEF c
<1>2. ThinkingDelta(r, p)
        = LET o == IF c.thinkBlock >= 0 THEN c
                   ELSE [Write(c, Block("start", c.next)) EXCEPT !.thinkBlock = c.next, !.next = @ + 1]
          IN BlockDelta(o, o.thinkBlock, p)
   BY DEF ThinkingDelta, c
<1> SUFFICES LET s == ThinkingDelta(r, p)
                 began == r.thinkBlock < 0
                 i == IF began THEN r.next ELSE r.thinkBlock
             IN  /\ SameAnswer(r, s) /\ s.calls = r.calls
                 /\ s.next = (IF began THEN r.next + 1 ELSE r.next)
                 /\ s.thinkBlock = i /\ s.textBlock = -1
                 /\ s.out = Append(IF began THEN Append(c.out, Block("start", i)) ELSE c.out,
                                   PieceDelta(i, p))
   BY DEF c
<1> QED BY <1>1, <1>2 DEF BlockDelta, PieceDelta, Write, ClaudeFields, SameAnswer

LEMMA ToolBlockFields ==
    ASSUME NEW r, DOMAIN r = ClaudeFields, r.textBlock \in Nat \cup {-1}, NEW p
    PROVE  LET s == ToolBlock(r, p)
               c == CloseText(r)
               i == r.next
           IN  /\ SameAnswer(r, s) /\ s.calls /\ s.next = i + 1
               /\ s.thinkBlock = r.thinkBlock /\ s.textBlock = -1
               /\ s.out = Append(Append(Append(c.out, Block("start", i)), PieceDelta(i, p)),
                                 Block("stop", i))
<1> DEFINE c == CloseText(r)
<1>1. /\ SameAnswer(r, c) /\ c.calls = r.calls /\ c.next = r.next
      /\ c.thinkBlock = r.thinkBlock /\ c.textBlock = -1
   BY CloseTextFields
<1> HIDE DEF c
<1>2. ToolBlock(r, p)
        = LET i == c.next
              b == Write(BlockDelta(Write(c, Block("start", i)), i, p), Block("stop", i))
          IN [b EXCEPT !.next = @ + 1, !.calls = TRUE]
   BY DEF ToolBlock, c
<1> SUFFICES LET s == ToolBlock(r, p)
                 i == r.next
             IN  /\ SameAnswer(r, s) /\ s.calls /\ s.next = i + 1
                 /\ s.thinkBlock = r.thinkBlock /\ s.textBlock = -1
                 /\ s.out = Append(Append(Append(c.out, Block("start", i)), PieceDelta(i, p)),
                                   Block("stop", i))
   BY DEF c
<1> QED BY <1>1, <1>2 DEF BlockDelta, PieceDelta, Write, ClaudeFields, SameAnswer

LEMMA StopBody ==
    ASSUME NEW said, NEW out, NEW due, NEW next, NEW open, NEW tools,
           MessageBody(said, out, due, next, open, tools), NEW n \in open
    PROVE  MessageBody(said, Append(out, Block("stop", n)), due, next, open \ {n}, tools)
<1> DEFINE e == Block("stop", n)
<1>1. e.t = "stop" /\ e.block = n BY DEF Block
<1> HIDE DEF e
<1>2. MayFollow(said, out, next, open, e) /\ e.t \in {"start", "stop"} BY <1>1 DEF MayFollow
<1>3. NextOf(next, e) = next /\ OpenOf(open, e) = open \ {n} BY <1>1 DEF NextOf, OpenOf
<1>4. MessageBody(said, Append(out, e), due, NextOf(next, e), OpenOf(open, e), tools)
   BY <1>2, BodyMark
<1> QED BY <1>3, <1>4 DEF e

LEMMA StartBody ==
    ASSUME NEW said, NEW out, NEW due, NEW next, NEW open, NEW tools,
           MessageBody(said, out, due, next, open, tools), \A n \in open : Thinks(said, out, n)
    PROVE  MessageBody(said, Append(out, Block("start", next)), due, next + 1, open \cup {next}, tools)
<1> DEFINE e == Block("start", next)
<1>1. e.t = "start" /\ e.block = next BY DEF Block
<1> HIDE DEF e
<1>2. MayFollow(said, out, next, open, e) /\ e.t \in {"start", "stop"} BY <1>1 DEF MayFollow
<1>3. NextOf(next, e) = next + 1 /\ OpenOf(open, e) = open \cup {next} BY <1>1 DEF NextOf, OpenOf
<1>4. MessageBody(said, Append(out, e), due, NextOf(next, e), OpenOf(open, e), tools)
   BY <1>2, BodyMark
<1> QED BY <1>3, <1>4 DEF e

LEMMA DeltaBody ==
    ASSUME NEW said, NEW out, NEW due, NEW next, NEW open, NEW tools,
           MessageBody(said, out, due, next, open, tools),
           NEW p, First(said, due, p), NEW n \in open, NEW more, more <=> tools \/ IsTool(said, p)
    PROVE  LET all == Append(out, PieceDelta(n, p))
           IN  /\ MessageBody(said, all, due \ {p}, next, open, more)
               /\ p # 0 /\ said[p] \in Reasoning => Thinks(said, all, n)
<1> DEFINE e == PieceDelta(n, p)
<1>1. e.t = "delta" /\ e.block = n /\ e.piece = p BY DEF PieceDelta
<1> HIDE DEF e
<1>2. /\ MessageBody(said, Append(out, e), due \ {p}, next, open, tools \/ IsTool(said, p))
      /\ p # 0 /\ said[p] \in Reasoning => Thinks(said, Append(out, e), n)
   BY <1>1, BodyDelta
<1>3. MessageBody(said, Append(out, e), due \ {p}, next, open, more) BY <1>2 DEF MessageBody
<1> QED BY <1>2, <1>3 DEF e

LEMMA ThinksMore ==
    ASSUME NEW said, NEW out, NEW due, NEW next, NEW open, NEW tools,
           MessageBody(said, out, due, next, open, tools), NEW e, NEW n, Thinks(said, out, n)
    PROVE  Thinks(said, Append(out, e), n)
<1>1. Listed(out) BY DEF MessageBody, Tracked
<1> QED BY <1>1, ThinksOn

LEMMA ClosesText ==
    ASSUME NEW r, ClaudeOpen(r), NEW due, BodyOf(r, due)
    PROVE  LET s == CloseText(r)
           IN  /\ ClaudeOpen(s) /\ BodyOf(s, due) /\ SameAnswer(r, s) /\ s.calls = r.calls
               /\ s.next = r.next /\ s.thinkBlock = r.thinkBlock /\ s.textBlock = -1
<1> DEFINE s == CloseText(r)
<1>0. DOMAIN r = ClaudeFields /\ r.textBlock \in Nat \cup {-1} BY DEF ClaudeOpen
<1>1. /\ SameAnswer(r, s) /\ s.calls = r.calls /\ s.next = r.next
      /\ s.thinkBlock = r.thinkBlock /\ s.textBlock = -1
      /\ s.out = IF r.textBlock < 0 THEN r.out ELSE Append(r.out, Block("stop", r.textBlock))
   BY <1>0, CloseTextFields
<1> HIDE DEF s
<1>2. MessageBody(r.said, s.out, due, r.next, OpenBlocks(s), r.calls)
   <2>1. CASE r.textBlock < 0
      <3>1. OpenBlocks(s) = OpenBlocks(r) /\ s.out = r.out BY <1>0, <1>1, <2>1 DEF OpenBlocks
      <3> QED BY <3>1 DEF BodyOf
   <2>2. CASE ~(r.textBlock < 0)
      <3>1. r.textBlock \in OpenBlocks(r) BY <1>0, <2>2 DEF OpenBlocks
      <3>2. OpenBlocks(s) = OpenBlocks(r) \ {r.textBlock}
         BY <1>0, <1>1, <2>2 DEF OpenBlocks, ClaudeOpen
      <3>3. MessageBody(r.said, Append(r.out, Block("stop", r.textBlock)), due, r.next,
                        OpenBlocks(r) \ {r.textBlock}, r.calls)
         BY <3>1, StopBody DEF BodyOf
      <3>4. s.out = Append(r.out, Block("stop", r.textBlock)) BY <1>1, <2>2
      <3> QED BY <3>2, <3>3, <3>4
   <2> QED BY <2>1, <2>2
<1>3. BodyOf(s, due) BY <1>1, <1>2 DEF BodyOf, SameAnswer
<1>4. Listed(s.out) BY <1>2 DEF MessageBody, Tracked
<1>5. r.thinkBlock >= 0 => Thinks(r.said, s.out, r.thinkBlock)
   BY <1>1, ThinksMore DEF ClaudeOpen, BodyOf
<1>6. ClaudeOpen(s)
   <2>1. Common(s) /\ Holds(s) BY <1>1, <1>4 DEF ClaudeOpen, Common, Holds, SameAnswer
   <2> QED BY <1>1, <1>5, <2>1 DEF ClaudeOpen, SameAnswer
<1> QED BY <1>1, <1>3, <1>6 DEF s

LEMMA ClosesThinking ==
    ASSUME NEW r, ClaudeOpen(r), NEW due, BodyOf(r, due)
    PROVE  LET s == CloseThinking(r)
           IN  /\ ClaudeOpen(s) /\ BodyOf(s, due) /\ SameAnswer(r, s) /\ s.calls = r.calls
               /\ s.next = r.next /\ s.thinkBlock = -1 /\ s.textBlock = r.textBlock
<1> DEFINE s == CloseThinking(r)
<1>0. DOMAIN r = ClaudeFields /\ r.thinkBlock \in Nat \cup {-1} BY DEF ClaudeOpen
<1>1. /\ SameAnswer(r, s) /\ s.calls = r.calls /\ s.next = r.next
      /\ s.thinkBlock = -1 /\ s.textBlock = r.textBlock
      /\ s.out = IF r.thinkBlock < 0 THEN r.out ELSE Append(r.out, Block("stop", r.thinkBlock))
   BY <1>0, CloseThinkingFields
<1> HIDE DEF s
<1>2. MessageBody(r.said, s.out, due, r.next, OpenBlocks(s), r.calls)
   <2>1. CASE r.thinkBlock < 0
      <3>1. OpenBlocks(s) = OpenBlocks(r) /\ s.out = r.out BY <1>0, <1>1, <2>1 DEF OpenBlocks
      <3> QED BY <3>1 DEF BodyOf
   <2>2. CASE ~(r.thinkBlock < 0)
      <3>1. r.thinkBlock \in OpenBlocks(r) BY <1>0, <2>2 DEF OpenBlocks
      <3>2. OpenBlocks(s) = OpenBlocks(r) \ {r.thinkBlock}
         BY <1>0, <1>1, <2>2 DEF OpenBlocks, ClaudeOpen
      <3>3. MessageBody(r.said, Append(r.out, Block("stop", r.thinkBlock)), due, r.next,
                        OpenBlocks(r) \ {r.thinkBlock}, r.calls)
         BY <3>1, StopBody DEF BodyOf
      <3>4. s.out = Append(r.out, Block("stop", r.thinkBlock)) BY <1>1, <2>2
      <3> QED BY <3>2, <3>3, <3>4
   <2> QED BY <2>1, <2>2
<1>3. BodyOf(s, due) BY <1>1, <1>2 DEF BodyOf, SameAnswer
<1>4. Listed(s.out) BY <1>2 DEF MessageBody, Tracked
<1>6. ClaudeOpen(s)
   <2>1. Common(s) /\ Holds(s) BY <1>1, <1>4 DEF ClaudeOpen, Common, Holds, SameAnswer
   <2>2. s.textBlock \in Nat \cup {-1} /\ s.thinkBlock \in Nat \cup {-1} /\ ~(s.thinkBlock >= 0)
      BY <1>1 DEF ClaudeOpen
   <2>3. s.thinkBlock = s.textBlock => s.textBlock = -1 BY <1>1
   <2> QED BY <1>1, <2>1, <2>2, <2>3 DEF ClaudeOpen, SameAnswer
<1> QED BY <1>1, <1>3, <1>6 DEF s

(* The blocks that are open, and the next. *)
LEMMA BodyBlocks ==
    ASSUME NEW r, ClaudeOpen(r), NEW due, BodyOf(r, due)
    PROVE  /\ r.next \in Nat /\ r.next \notin OpenBlocks(r)
           /\ Listed(r.out) /\ r.said \in Seq(PieceKinds) /\ due \subseteq DOMAIN r.said
           /\ \A n \in OpenBlocks(r) : n \in Nat /\ (n = r.thinkBlock \/ n = r.textBlock)
           /\ r.textBlock < 0 => \A n \in OpenBlocks(r) : Thinks(r.said, r.out, n)
<1>1. r.next \in Nat /\ OpenBlocks(r) \subseteq 0 .. r.next - 1
   BY DEF BodyOf, MessageBody, Blocks
<1>2. Listed(r.out) /\ r.said \in Seq(PieceKinds) /\ due \subseteq DOMAIN r.said
   BY DEF BodyOf, MessageBody, Tracked
<1>3. r.textBlock < 0 => \A n \in OpenBlocks(r) : Thinks(r.said, r.out, n)
   BY DEF OpenBlocks, ClaudeOpen
<1>4. \A n \in OpenBlocks(r) : n \in Nat /\ (n = r.thinkBlock \/ n = r.textBlock)
   BY DEF OpenBlocks, ClaudeOpen
<1>5. r.next \notin 0 .. r.next - 1 BY <1>1
<1> QED BY <1>1, <1>2, <1>3, <1>4, <1>5

LEMMA WritesText ==
    ASSUME NEW r, ClaudeOpen(r), NEW due, BodyOf(r, due),
           NEW p, First(r.said, due, p), ~IsTool(r.said, p)
    PROVE  LET s == TextBlockDelta(r, p)
           IN  /\ ClaudeOpen(s) /\ BodyOf(s, due \ {p}) /\ SameAnswer(r, s) /\ s.calls = r.calls
               /\ s.thinkBlock = r.thinkBlock
<1> DEFINE s == TextBlockDelta(r, p)
           began == r.textBlock < 0
           i == IF began THEN r.next ELSE r.textBlock
           one == IF began THEN Append(r.out, Block("start", i)) ELSE r.out
           next == IF began THEN r.next + 1 ELSE r.next
           open == IF began THEN OpenBlocks(r) \cup {r.next} ELSE OpenBlocks(r)
<1>0. DOMAIN r = ClaudeFields /\ r.textBlock \in Nat \cup {-1} /\ r.thinkBlock \in Nat \cup {-1}
      /\ r.calls \in BOOLEAN
   BY DEF ClaudeOpen, Common
<1>1. /\ SameAnswer(r, s) /\ s.calls = r.calls /\ s.next = next
      /\ s.thinkBlock = r.thinkBlock /\ s.textBlock = i
      /\ s.out = Append(one, PieceDelta(i, p))
   BY <1>0, TextBlockFields
<1>2. /\ r.next \in Nat /\ r.next \notin OpenBlocks(r)
      /\ began => \A n \in OpenBlocks(r) : Thinks(r.said, r.out, n)
   BY BodyBlocks
<1> HIDE DEF s
<1>3. MessageBody(r.said, one, due, next, open, r.calls)
   <2>1. CASE began BY <1>2, <2>1, StartBody DEF BodyOf
   <2>2. CASE ~began BY <2>2 DEF BodyOf
   <2> QED BY <2>1, <2>2
<1>4. i \in open /\ open = OpenBlocks(s) /\ i \in Nat /\ (r.thinkBlock # i)
   <2>1. CASE began
      <3>1. r.thinkBlock # r.next BY <1>0, <1>2 DEF OpenBlocks
      <3>2. OpenBlocks(s) = OpenBlocks(r) \cup {r.next} BY <1>0, <1>1, <1>2, <2>1 DEF OpenBlocks
      <3> QED BY <1>2, <2>1, <3>1, <3>2
   <2>2. CASE ~began
      <3>1. i = r.textBlock /\ s.textBlock = r.textBlock /\ s.thinkBlock = r.thinkBlock
         BY <1>1, <2>2
      <3>2. r.textBlock \in OpenBlocks(r) /\ r.textBlock \in Nat /\ r.thinkBlock # r.textBlock
         BY <1>0, <2>2 DEF OpenBlocks, ClaudeOpen
      <3>3. OpenBlocks(s) = OpenBlocks(r) BY <3>1 DEF OpenBlocks
      <3> QED BY <2>2, <3>1, <3>2, <3>3
   <2> QED BY <2>1, <2>2
<1> HIDE DEF i, one, next, open
<1>5. MessageBody(r.said, s.out, due \ {p}, next, open, r.calls)
   <2>1. r.calls <=> r.calls \/ IsTool(r.said, p) OBVIOUS
   <2>2. MessageBody(r.said, Append(one, PieceDelta(i, p)), due \ {p}, next, open, r.calls)
      BY <1>3, <1>4, <2>1, DeltaBody
   <2> QED BY <1>1, <2>2
<1>6. BodyOf(s, due \ {p}) BY <1>1, <1>4, <1>5 DEF BodyOf, SameAnswer
<1>7. r.thinkBlock >= 0 => Thinks(r.said, s.out, r.thinkBlock)
   <2> SUFFICES ASSUME r.thinkBlock >= 0 PROVE Thinks(r.said, s.out, r.thinkBlock) OBVIOUS
   <2>1. Thinks(r.said, r.out, r.thinkBlock) BY DEF ClaudeOpen
   <2>2. Thinks(r.said, one, r.thinkBlock) BY <2>1, ThinksMore DEF one, BodyOf
   <2> QED BY <1>1, <1>3, <2>2, ThinksMore
<1>8. ClaudeOpen(s)
   <2>1. Listed(s.out) BY <1>5 DEF MessageBody, Tracked
   <2>2. Common(s) /\ Holds(s) BY <1>1, <2>1 DEF ClaudeOpen, Common, Holds, SameAnswer
   <2>3. s.thinkBlock # s.textBlock BY <1>1, <1>4
   <2> QED BY <1>0, <1>1, <1>4, <1>7, <2>2, <2>3 DEF ClaudeOpen, SameAnswer
<1> QED BY <1>1, <1>6, <1>8 DEF s

LEMMA WritesThinking ==
    ASSUME NEW r, ClaudeOpen(r), NEW due, BodyOf(r, due),
           NEW p, First(r.said, due, p), p # 0, r.said[p] \in Reasoning
    PROVE  LET s == ThinkingDelta(r, p)
           IN  ClaudeOpen(s) /\ BodyOf(s, due \ {p}) /\ SameAnswer(r, s) /\ s.calls = r.calls
<1> DEFINE s == ThinkingDelta(r, p)
           c == CloseText(r)
           began == r.thinkBlock < 0
           i == IF began THEN r.next ELSE r.thinkBlock
           one == IF began THEN Append(c.out, Block("start", i)) ELSE c.out
           next == IF began THEN r.next + 1 ELSE r.next
           open == {i}
<1>0. DOMAIN r = ClaudeFields /\ r.textBlock \in Nat \cup {-1} /\ r.thinkBlock \in Nat \cup {-1}
      /\ r.calls \in BOOLEAN
   BY DEF ClaudeOpen, Common
<1>1. /\ SameAnswer(r, s) /\ s.calls = r.calls /\ s.next = next
      /\ s.thinkBlock = i /\ s.textBlock = -1
      /\ s.out = Append(one, PieceDelta(i, p))
   BY <1>0, ThinkingFields
<1>2. /\ ClaudeOpen(c) /\ BodyOf(c, due) /\ SameAnswer(r, c) /\ c.calls = r.calls
      /\ c.next = r.next /\ c.thinkBlock = r.thinkBlock /\ c.textBlock = -1
   BY ClosesText
<1> HIDE DEF s, c
<1>3. r.next \in Nat BY BodyBlocks
<1>4. MessageBody(r.said, one, due, next, open, r.calls) /\ i \in Nat
   <2>1. MessageBody(r.said, c.out, due, r.next, OpenBlocks(c), r.calls)
      BY <1>2 DEF BodyOf, SameAnswer
   <2>2. CASE began
      <3>1. OpenBlocks(c) = {} /\ OpenBlocks(c) \cup {r.next} = {r.next}
         BY <1>0, <1>2, <2>2 DEF OpenBlocks
      <3>2. \A n \in OpenBlocks(c) : Thinks(r.said, c.out, n) BY <3>1
      <3>3. MessageBody(r.said, Append(c.out, Block("start", r.next)), due, r.next + 1,
                        OpenBlocks(c) \cup {r.next}, r.calls)
         BY <2>1, <3>2, StartBody
      <3> QED BY <1>3, <2>2, <3>1, <3>3
   <2>3. CASE ~began
      <3>1. OpenBlocks(c) = {r.thinkBlock} BY <1>0, <1>2, <2>3 DEF OpenBlocks
      <3> QED BY <1>0, <2>1, <2>3, <3>1
   <2> QED BY <2>2, <2>3
<1>5. OpenBlocks(s) = open /\ i \in open BY <1>1, <1>4 DEF OpenBlocks
<1> HIDE DEF i, one, next, open
<1>6. /\ MessageBody(r.said, s.out, due \ {p}, next, open, r.calls)
      /\ Thinks(r.said, s.out, i)
   <2>0. ~IsTool(r.said, p) BY DEF IsTool, Calls, Reasoning
   <2>1. r.calls <=> r.calls \/ IsTool(r.said, p) BY <2>0
   <2>2. /\ MessageBody(r.said, Append(one, PieceDelta(i, p)), due \ {p}, next, open, r.calls)
         /\ Thinks(r.said, Append(one, PieceDelta(i, p)), i)
      BY <1>4, <1>5, <2>1, DeltaBody
   <2> QED BY <1>1, <2>2
<1>7. BodyOf(s, due \ {p}) BY <1>1, <1>5, <1>6 DEF BodyOf, SameAnswer
<1>8. ClaudeOpen(s)
   <2>1. Listed(s.out) BY <1>6 DEF MessageBody, Tracked
   <2>2. Common(s) /\ Holds(s) BY <1>1, <2>1 DEF ClaudeOpen, Common, Holds, SameAnswer
   <2> QED BY <1>0, <1>1, <1>4, <1>6, <2>2 DEF ClaudeOpen, SameAnswer
<1> QED BY <1>1, <1>7, <1>8 DEF s

LEMMA WritesTool ==
    ASSUME NEW r, ClaudeOpen(r), NEW due, BodyOf(r, due),
           NEW p, First(r.said, due, p), IsTool(r.said, p)
    PROVE  LET s == ToolBlock(r, p)
           IN  /\ ClaudeOpen(s) /\ BodyOf(s, due \ {p}) /\ SameAnswer(r, s) /\ s.calls
               /\ s.thinkBlock = r.thinkBlock /\ s.textBlock = -1
<1> DEFINE s == ToolBlock(r, p)
           c == CloseText(r)
           i == r.next
           one == Append(c.out, Block("start", i))
           two == Append(one, PieceDelta(i, p))
           more == OpenBlocks(c) \cup {i}
<1>0. DOMAIN r = ClaudeFields /\ r.textBlock \in Nat \cup {-1} /\ r.thinkBlock \in Nat \cup {-1}
   BY DEF ClaudeOpen
<1>1. /\ SameAnswer(r, s) /\ s.calls /\ s.next = i + 1
      /\ s.thinkBlock = r.thinkBlock /\ s.textBlock = -1
      /\ s.out = Append(two, Block("stop", i))
   BY <1>0, ToolBlockFields
<1>2. /\ ClaudeOpen(c) /\ BodyOf(c, due) /\ SameAnswer(r, c) /\ c.calls = r.calls
      /\ c.next = i /\ c.thinkBlock = r.thinkBlock /\ c.textBlock = -1
   BY ClosesText
<1> HIDE DEF s, c
<1>3. i \in Nat /\ i \notin OpenBlocks(c) /\ \A n \in OpenBlocks(c) : Thinks(c.said, c.out, n)
   BY <1>2, BodyBlocks
<1>4. MessageBody(r.said, c.out, due, i, OpenBlocks(c), r.calls) BY <1>2 DEF BodyOf, SameAnswer
<1>5. \A n \in OpenBlocks(c) : Thinks(r.said, c.out, n) BY <1>2, <1>3 DEF SameAnswer
<1>6. i \in more /\ more \ {i} = OpenBlocks(c) /\ OpenBlocks(s) = OpenBlocks(c)
   <2>1. OpenBlocks(s) = OpenBlocks(c) BY <1>1, <1>2 DEF OpenBlocks
   <2> QED BY <1>3, <2>1
<1> HIDE DEF i
<1>7. MessageBody(r.said, one, due, i + 1, more, r.calls) BY <1>4, <1>5, StartBody
<1> HIDE DEF one, more
<1>8. MessageBody(r.said, two, due \ {p}, i + 1, more, TRUE)
   <2>1. TRUE <=> r.calls \/ IsTool(r.said, p) OBVIOUS
   <2> DEFINE yes == TRUE
   <2>2. yes <=> r.calls \/ IsTool(r.said, p) BY <2>1
   <2> HIDE DEF yes
   <2>3. MessageBody(r.said, two, due \ {p}, i + 1, more, yes)
      BY <1>6, <1>7, <2>2, DeltaBody
   <2> QED BY <2>3 DEF yes
<1> HIDE DEF two
<1>9. MessageBody(r.said, s.out, due \ {p}, i + 1, OpenBlocks(s), TRUE)
   <2>1. MessageBody(r.said, Append(two, Block("stop", i)), due \ {p}, i + 1, more \ {i}, TRUE)
      BY <1>6, <1>8, StopBody
   <2> QED BY <1>1, <1>6, <2>1
<1>10. BodyOf(s, due \ {p})
   <2>1. s.said = r.said /\ s.next = i + 1 BY <1>1 DEF SameAnswer
   <2>2. s.calls = TRUE
      <3>1. s.calls BY <1>1
      <3> QED BY <1>1
   <2> QED BY <1>9, <2>1, <2>2 DEF BodyOf
<1>11. r.thinkBlock >= 0 => Thinks(r.said, s.out, r.thinkBlock)
   <2> SUFFICES ASSUME r.thinkBlock >= 0 PROVE Thinks(r.said, s.out, r.thinkBlock) OBVIOUS
   <2>1. r.thinkBlock \in OpenBlocks(c) BY <1>0, <1>2 DEF OpenBlocks
   <2>2. Thinks(r.said, c.out, r.thinkBlock) BY <1>5, <2>1
   <2>3. Thinks(r.said, one, r.thinkBlock) BY <1>4, <2>2, ThinksMore DEF one
   <2>4. Thinks(r.said, two, r.thinkBlock) BY <1>7, <2>3, ThinksMore DEF two
   <2> QED BY <1>1, <1>8, <2>4, ThinksMore
<1>12. ClaudeOpen(s)
   <2>1. Listed(s.out) BY <1>9 DEF MessageBody, Tracked
   <2>2. s.calls \in BOOLEAN BY <1>1
   <2>3. Common(s) /\ Holds(s) BY <1>1, <2>1, <2>2 DEF ClaudeOpen, Common, Holds, SameAnswer
   <2> QED BY <1>0, <1>1, <1>11, <2>3 DEF ClaudeOpen, SameAnswer
<1> QED BY <1>1, <1>10, <1>12 DEF s

LEMMA CallsWritten ==
    ASSUME NEW said, NEW calls, NEW due, CallsSeen(said, calls, due), NEW p, NEW now,
           IF IsTool(said, p) THEN now /\ p \in DOMAIN said /\ said[p] \in Calls /\ now \in BOOLEAN
           ELSE now = calls
    PROVE  CallsSeen(said, now, due \ {p})
BY DEF CallsSeen, IsTool

LEMMA ClaudeGives ==
    ASSUME NEW r, NEW due, ClaudeLive(r, due), NEW kind \in PieceKinds, kind \in Kept => r.held = 0
    PROVE  ClaudeLive(Given(r, kind), due \cup {Len(r.said) + 1})
<1> DEFINE s == Given(r, kind)
           more == due \cup {Len(r.said) + 1}
<1>0. /\ DOMAIN r = ClaudeFields /\ Common(r) /\ Holds(r) /\ CallsSeen(r.said, r.calls, due)
      /\ BodyOf(r, due) /\ r.said \in Seq(PieceKinds)
   BY DEF ClaudeLive, ClaudeOpen, Common
<1>1. {"said", "held"} \subseteq DOMAIN r BY <1>0 DEF ClaudeFields
<1>2. /\ DOMAIN s = ClaudeFields /\ s.said = Append(r.said, kind)
      /\ s.held = (IF kind \in Kept THEN Len(r.said) + 1 ELSE r.held)
   BY <1>0, <1>1, GivenFields
<1>3. /\ s.out = r.out /\ s.calls = r.calls /\ s.tools = r.tools /\ s.required = r.required
      /\ s.next = r.next /\ s.thinkBlock = r.thinkBlock /\ s.textBlock = r.textBlock
   <2>1. \A f \in ClaudeFields \ {"said", "held"} : s[f] = r[f] BY <1>0, <1>1, GivenFields
   <2>2. {"out", "calls", "tools", "required", "next", "thinkBlock", "textBlock"}
            \subseteq ClaudeFields \ {"said", "held"}
      BY DEF ClaudeFields
   <2> QED BY <2>1, <2>2
<1> HIDE DEF s
<1>4. OpenBlocks(s) = OpenBlocks(r) BY <1>3 DEF OpenBlocks
<1>5. /\ MessageBody(Append(r.said, kind), r.out, more, r.next, OpenBlocks(r), r.calls)
      /\ \A n : Thinks(r.said, r.out, n) => Thinks(Append(r.said, kind), r.out, n)
   BY <1>0, BodyGiven DEF BodyOf
<1>6. BodyOf(s, more) BY <1>2, <1>3, <1>4, <1>5 DEF BodyOf
<1>7. CallsSeen(s.said, s.calls, more) BY <1>0, <1>2, <1>3, CallsGiven
<1>8. Common(s) BY <1>0, <1>2, <1>3 DEF Common
<1>9. Holds(s) BY <1>0, <1>2 DEF Holds
<1>10. ClaudeOpen(s) BY <1>2, <1>3, <1>5, <1>8, <1>9 DEF ClaudeOpen, ClaudeLive
<1> QED BY <1>6, <1>7, <1>10 DEF ClaudeLive, s

LEMMA ClaudeReleases ==
    ASSUME NEW r, NEW due, ClaudeLive(r, due)
    PROVE  LET s == Released(r)
           IN  ClaudeLive(s, due) /\ s.said = r.said /\ s.held = 0 /\ s.tools = r.tools
<1> DEFINE s == Released(r)
<1>1. DOMAIN r = ClaudeFields /\ "held" \in DOMAIN r BY DEF ClaudeLive, ClaudeOpen, ClaudeFields
<1>2. /\ DOMAIN s = ClaudeFields /\ s.held = 0 /\ s.said = r.said
      /\ s.out = r.out /\ s.calls = r.calls /\ s.tools = r.tools /\ s.required = r.required
      /\ s.next = r.next /\ s.thinkBlock = r.thinkBlock /\ s.textBlock = r.textBlock
   BY <1>1, ReleasedFields DEF ClaudeFields
<1> HIDE DEF s
<1>3. OpenBlocks(s) = OpenBlocks(r) BY <1>2 DEF OpenBlocks
<1>4. BodyOf(s, due) BY <1>2, <1>3 DEF BodyOf, ClaudeLive
<1>5. ClaudeOpen(s) BY <1>2 DEF ClaudeLive, ClaudeOpen, Common, Holds
<1> QED BY <1>2, <1>4, <1>5 DEF s, ClaudeLive

(* A piece that the sieve lets through; the reasoning is closed before text, *)
(* or stays open.                                                          *)
LEMMA ClaudeWrites ==
    ASSUME NEW r, NEW due, ClaudeLive(r, due), NEW p \in due,
           \A q \in due : SameKind(r.said, p, q) => p <= q, NEW s,
           \/ s = ClaudeEvent(r, p)
           \/ s = ClaudeFlushEvent(r, p)
    PROVE  ClaudeLive(s, due \ {p}) /\ SameAnswer(r, s)
<1>1. ClaudeOpen(r) /\ BodyOf(r, due) /\ CallsSeen(r.said, r.calls, due) BY DEF ClaudeLive
<1>2. p \in DOMAIN r.said /\ p # 0 BY <1>1 DEF BodyOf, MessageBody, Tracked
<1>3. First(r.said, due, p) BY DEF First
<1>4. CASE r.said[p] \in Calls
   <2>1. IsTool(r.said, p) BY <1>4 DEF IsTool
   <2>2. s = ToolBlock(r, p) BY <1>4 DEF ClaudeEvent, ClaudeFlushEvent
   <2> HIDE DEF IsTool
   <2>3. ClaudeOpen(s) /\ BodyOf(s, due \ {p}) /\ SameAnswer(r, s) /\ s.calls
      BY <1>1, <1>3, <2>1, <2>2, WritesTool
   <2>4. s.calls \in BOOLEAN BY <2>3 DEF ClaudeOpen, Common
   <2>5. CallsSeen(r.said, s.calls, due \ {p}) BY <1>1, <1>2, <1>4, <2>1, <2>3, <2>4, CallsWritten
   <2>6. s.said = r.said BY <2>3 DEF SameAnswer
   <2> QED BY <2>3, <2>5, <2>6 DEF ClaudeLive
<1>5. CASE r.said[p] \notin Calls
   <2>1. ~IsTool(r.said, p) BY <1>2, <1>5 DEF IsTool
   <2>2. PICK c : /\ s = TextBlockDelta(c, p) /\ ClaudeOpen(c) /\ BodyOf(c, due)
                  /\ SameAnswer(r, c) /\ c.calls = r.calls
      <3>1. CASE s = TextBlockDelta(r, p) BY <1>1, <3>1 DEF SameAnswer
      <3>2. CASE s = TextBlockDelta(CloseThinking(r), p) BY <1>1, <3>2, ClosesThinking
      <3> QED BY <1>5, <3>1, <3>2 DEF ClaudeEvent, ClaudeFlushEvent
   <2>3. First(c.said, due, p) /\ ~IsTool(c.said, p) BY <1>3, <2>1, <2>2 DEF SameAnswer
   <2>4. ClaudeOpen(s) /\ BodyOf(s, due \ {p}) /\ SameAnswer(c, s) /\ s.calls = c.calls
      BY <2>2, <2>3, WritesText
   <2>5. SameAnswer(r, s) BY <2>2, <2>4 DEF SameAnswer
   <2>6. s.calls = r.calls /\ s.said = r.said BY <2>2, <2>4, <2>5 DEF SameAnswer
   <2>7. CallsSeen(r.said, s.calls, due \ {p}) BY <1>1, <2>1, <2>6, CallsWritten
   <2> QED BY <2>4, <2>5, <2>6, <2>7 DEF ClaudeLive
<1> QED BY <1>4, <1>5

LEMMA ClaudeFlushes ==
    ASSUME NEW r, ClaudeLive(r, Due(r)), NEW s, s = ClaudeSieved(r) \/ s = ClaudeFlushed(r)
    PROVE  ClaudeLive(s, {}) /\ s.said = r.said /\ s.held = 0 /\ s.tools = r.tools
<1>1. CASE r.held = 0
   <2>1. s = r BY <1>1 DEF ClaudeSieved, ClaudeFlushed
   <2>2. Due(r) = {} BY <1>1 DEF Due
   <2> QED BY <1>1, <2>1, <2>2
<1>2. CASE r.held # 0
   <2> DEFINE p == r.held
              q == Released(r)
   <2>1. ClaudeLive(q, {p}) /\ q.said = r.said /\ q.held = 0 /\ q.tools = r.tools
      BY <1>2, ClaudeReleases DEF Due
   <2>2. s = ClaudeEvent(q, p) \/ s = ClaudeFlushEvent(q, p)
      BY <1>2 DEF ClaudeSieved, ClaudeFlushed
   <2>3. \A i \in {p} : SameKind(q.said, p, i) => p <= i
      <3>1. p \in Int BY DEF ClaudeLive, ClaudeOpen, Holds
      <3> QED BY <3>1
   <2> HIDE DEF p, q
   <2>4. ClaudeLive(s, {p} \ {p}) /\ SameAnswer(q, s) BY <2>1, <2>2, <2>3, ClaudeWrites
   <2>5. {p} \ {p} = {} OBVIOUS
   <2> QED BY <2>1, <2>4, <2>5 DEF SameAnswer
<1> QED BY <1>1, <1>2

LEMMA ClaudeParses ==
    ASSUME NEW r, ClaudeLive(r, Due(r)), NEW kind \in PieceKinds, MayCome(r, kind)
    PROVE  ClaudeLive(ClaudeOnParsed(r, kind), Due(ClaudeOnParsed(r, kind)))
<1> DEFINE i == Len(r.said) + 1
           s == ClaudeOnParsed(r, kind)
<1>0. /\ r.said \in Seq(PieceKinds) /\ Holds(r) /\ "held" \in DOMAIN r /\ "said" \in DOMAIN r
      /\ i \in Nat \ {0}
   BY DEF ClaudeLive, ClaudeOpen, Common, ClaudeFields
<1>1. CASE kind \in Kept
   <2>1. r.held = 0 BY <1>1 DEF MayCome
   <2>2. s = Given(r, kind) BY <1>1 DEF ClaudeOnParsed, Kept, Reasoning
   <2>3. s.held = i BY <1>0, <1>1, <2>2, GivenFields
   <2>4. ClaudeLive(s, Due(r) \cup {i}) BY <2>1, <2>2, ClaudeGives
   <2>5. Due(r) \cup {i} = Due(s) BY <1>0, <2>1, <2>3 DEF Due
   <2> QED BY <2>4, <2>5
<1>2. CASE kind \in Reasoning
   <2> DEFINE g == Given(r, kind)
   <2>1. kind \notin Kept BY <1>2 DEF Kept, Reasoning
   <2>2. s = ThinkingDelta(g, i) BY <1>2, <2>1 DEF ClaudeOnParsed
   <2>3. ClaudeLive(g, Due(r) \cup {i}) BY <2>1, ClaudeGives
   <2>4. g.said = Append(r.said, kind) /\ g.held = r.held BY <1>0, <2>1, GivenFields
   <2>5. g.said[i] = kind /\ \A q \in Due(r) : g.said[q] \in Kept /\ q # i
      BY <1>0, <2>4 DEF Due, Holds
   <2>6. \A q \in Due(r) \cup {i} : SameKind(g.said, i, q) => i <= q
      BY <1>0, <1>2, <2>5 DEF SameKind, Kept, Reasoning
   <2>7. g.said[i] \in Reasoning /\ i # 0 BY <1>0, <1>2, <2>5
   <2> HIDE DEF g, s, i
   <2>8. First(g.said, Due(r) \cup {i}, i) BY <2>6 DEF First
   <2>9. ClaudeOpen(g) /\ BodyOf(g, Due(r) \cup {i}) /\ CallsSeen(g.said, g.calls, Due(r) \cup {i})
      BY <2>3 DEF ClaudeLive
   <2>10. /\ ClaudeOpen(s) /\ BodyOf(s, (Due(r) \cup {i}) \ {i}) /\ SameAnswer(g, s)
          /\ s.calls = g.calls
      BY <2>2, <2>7, <2>8, <2>9, WritesThinking
   <2>11. s.said = g.said /\ s.held = r.held BY <2>4, <2>10 DEF SameAnswer
   <2>12. CallsSeen(s.said, s.calls, (Due(r) \cup {i}) \ {i})
      <3>1. ~IsTool(g.said, i) BY <2>7 DEF IsTool, Calls, Reasoning
      <3>2. s.calls = g.calls BY <2>10
      <3>3. CallsSeen(g.said, s.calls, (Due(r) \cup {i}) \ {i}) BY <2>9, <3>1, <3>2, CallsWritten
      <3> QED BY <2>11, <3>3
   <2>13. (Due(r) \cup {i}) \ {i} = Due(s) BY <2>5, <2>11 DEF Due
   <2>14. ClaudeLive(s, Due(s)) BY <2>10, <2>12, <2>13 DEF ClaudeLive
   <2> QED BY <2>14 DEF s
<1>3. CASE kind \notin Kept \cup Reasoning
   <2> DEFINE f == ClaudeSieved(r)
              g == Given(f, kind)
   <2>1. s = ClaudeEvent(g, i) BY <1>3 DEF ClaudeOnParsed
   <2>2. ClaudeLive(f, {}) /\ f.said = r.said /\ f.held = 0 BY ClaudeFlushes
   <2>3. ClaudeLive(g, {} \cup {i}) BY <1>3, <2>2, ClaudeGives
   <2>4. g.held = 0 BY <1>3, <2>2, GivenFields DEF ClaudeLive, ClaudeOpen, ClaudeFields
   <2>5. {} \cup {i} = {i} /\ i \in {i} /\ {i} \ {i} = {} OBVIOUS
   <2>6. \A q \in {i} : SameKind(g.said, i, q) => i <= q BY <1>0
   <2> HIDE DEF f, g, s, i
   <2>7. ClaudeLive(s, {i} \ {i}) /\ SameAnswer(g, s) BY <2>1, <2>3, <2>5, <2>6, ClaudeWrites
   <2>8. s.held = 0 BY <2>4, <2>7 DEF SameAnswer
   <2>9. Due(s) = {} BY <2>8 DEF Due
   <2> QED BY <2>5, <2>7, <2>9 DEF s
<1> QED BY <1>1, <1>2, <1>3

(* The blocks of a message, ended or not. *)
BlocksRight(said, out) ==
    /\ Listed(out)
    /\ Events(out, {"message_start"}) = {1}
    /\ \A i \in Events(out, {"start"}) : out[i].block = Before(out, {"start"}, i)
    /\ \A i \in Events(out, {"delta", "stop"}) : BlockOpen(out, out[i].block, i)
    /\ \A i, j \in Events(out, {"start"}) :
          i < j /\ BlockOpen(out, out[i].block, j) => Thinks(said, out, out[i].block)

LEMMA BlocksOn ==
    ASSUME NEW said, NEW out, BlocksRight(said, out), NEW e, e.t \notin BlockEvents
    PROVE  /\ BlocksRight(said, Append(out, e))
           /\ \A n : BlockOpen(Append(out, e), n, Len(out) + 2) <=> BlockOpen(out, n, Len(out) + 1)
           /\ ToolDeltas(said, Append(out, e)) # {} <=> ToolDeltas(said, out) # {}
<1> DEFINE all == Append(out, e)
           m == Len(out) + 1
<1>1. /\ Listed(out) /\ Listed(all) /\ Len(out) \in Nat /\ DOMAIN out = 1 .. Len(out)
      /\ m \in Nat /\ DOMAIN all = 1 .. m /\ Len(all) = m
      /\ all[m] = e /\ \A j \in 1 .. Len(out) : all[j] = out[j] /\ j < m
   BY AppendListed DEF BlocksRight
<1>2. e.t \notin {"message_start", "start", "delta", "stop"} BY DEF BlockEvents
<1> HIDE DEF all
<1>3. /\ Events(all, {"message_start"}) = Events(out, {"message_start"})
      /\ Events(all, {"start"}) = Events(out, {"start"})
      /\ Events(all, {"delta", "stop"}) = Events(out, {"delta", "stop"})
   BY <1>1, <1>2 DEF Events
<1>4. /\ \A i \in Events(out, {"start"}) : i \in DOMAIN out /\ i \in 1 .. m /\ all[i] = out[i]
      /\ \A i \in Events(out, {"delta", "stop"}) : i \in DOMAIN out /\ i \in 1 .. m /\ all[i] = out[i]
   BY <1>1 DEF Events
<1>5. \A n, i : i \in 1 .. m => (BlockOpen(all, n, i) <=> BlockOpen(out, n, i))
   BY <1>1, OpenBefore DEF all, m
<1>6. \A i \in Events(all, {"start"}) : all[i].block = Before(all, {"start"}, i)
   BY <1>1, <1>3, <1>4, BeforeOn DEF all, BlocksRight
<1>7. \A i \in Events(all, {"delta", "stop"}) : BlockOpen(all, all[i].block, i)
   BY <1>3, <1>4, <1>5 DEF BlocksRight
<1>8. ASSUME NEW i \in Events(all, {"start"}), NEW j \in Events(all, {"start"}),
             i < j, BlockOpen(all, all[i].block, j)
      PROVE  Thinks(said, all, all[i].block)
   <2>1. Thinks(said, out, out[i].block) BY <1>3, <1>4, <1>5, <1>8 DEF BlocksRight
   <2> QED BY <1>1, <1>3, <1>4, <2>1, ThinksOn DEF all
<1>9. BlocksRight(said, all) BY <1>1, <1>3, <1>6, <1>7, <1>8 DEF BlocksRight
<1>10. \A n : BlockOpen(all, n, m + 1) <=> BlockOpen(out, n, m)
   <2> TAKE n
   <2>1. e.t \notin {"start", "stop"} BY <1>2
   <2> QED BY <1>1, <2>1, OpenBehind DEF all, m
<1>11. ToolDeltas(said, all) # {} <=> ToolDeltas(said, out) # {}
   <2>1. ~ForTool(said, e) BY <1>2 DEF ForTool
   <2> QED BY <1>1, <2>1, ToolDeltasAppend DEF all
<1>12. m + 1 = Len(out) + 2 BY <1>1 DEF m
<1> QED BY <1>9, <1>10, <1>11, <1>12 DEF all, m

LEMMA BodyRight ==
    ASSUME NEW said, NEW out, NEW due, NEW next, NEW open, NEW tools,
           MessageBody(said, out, due, next, open, tools)
    PROVE  BlocksRight(said, out)
BY DEF MessageBody, Blocks, BlocksRight

ClosedAll(out) == \A j \in Events(out, {"start"}) : ~BlockOpen(out, out[j].block, Len(out) + 1)
Unstopped(out) == Events(out, {"message_stop", "message_delta"}) = {}

LEMMA BodyClosed ==
    ASSUME NEW said, NEW out, NEW due, NEW next, NEW open, NEW tools,
           MessageBody(said, out, due, next, open, tools)
    PROVE  /\ Unstopped(out) /\ Events(out, EndMarks) = {}
           /\ open = {} => ClosedAll(out)
<1>1. \A i \in DOMAIN out : out[i].t \in BlockEvents BY DEF MessageBody, Blocks
<1>2. Unstopped(out) /\ Events(out, EndMarks) = {}
   BY <1>1 DEF Unstopped, Events, EndMarks, BlockEvents
<1>3. ASSUME open = {}, NEW j \in Events(out, {"start"})
      PROVE  ~BlockOpen(out, out[j].block, Len(out) + 1)
   <2>1. out[j].block \in 0 .. next - 1 BY DEF MessageBody, Blocks
   <2>2. BlockOpen(out, out[j].block, Len(out) + 1) <=> out[j].block \in open
      BY <2>1 DEF MessageBody, Blocks
   <2> QED BY <1>3, <2>2
<1> QED BY <1>2, <1>3 DEF ClosedAll

ToolUse(said, out, reason) == reason = "tool_use" <=> ToolDeltas(said, out) # {}

LEMMA ClaudeTail ==
    ASSUME NEW said, NEW out, BlocksRight(said, out), ClosedAll(out), Unstopped(out),
           NEW e, e.t = "message_delta", ToolUse(said, out, e.reason), NEW d, d.t = "message_stop"
    PROVE  ClaudeBlocks(said, Append(Append(out, e), d), TRUE)
<1> DEFINE one == Append(out, e)
           all == Append(one, d)
           n == Len(out)
<1>0. e.t \notin BlockEvents /\ d.t \notin BlockEvents BY DEF BlockEvents
<1>1. /\ BlocksRight(said, one) /\ (ToolDeltas(said, one) # {} <=> ToolDeltas(said, out) # {})
      /\ \A b : BlockOpen(one, b, n + 2) <=> BlockOpen(out, b, n + 1)
   BY <1>0, BlocksOn
<1>2. /\ Listed(one) /\ n \in Nat /\ DOMAIN out = 1 .. n /\ Len(one) = n + 1
      /\ DOMAIN one = 1 .. n + 1 /\ one[n + 1] = e /\ \A i \in 1 .. n : one[i] = out[i]
   BY AppendListed DEF BlocksRight
<1> HIDE DEF one, n
<1>3. BlocksRight(said, all) /\ (ToolDeltas(said, all) # {} <=> ToolDeltas(said, one) # {})
   BY <1>0, <1>1, BlocksOn
<1>4. /\ Len(all) = n + 2 /\ DOMAIN all = 1 .. n + 2 /\ all[n + 2] = d /\ all[n + 1] = e
      /\ all # <<>> /\ \A i \in 1 .. n : all[i] = out[i]
   BY <1>2, AppendListed
<1>5. \A b : BlockOpen(all, b, n + 2) <=> BlockOpen(one, b, n + 2)
   <2>1. n + 2 \in 1 .. Len(one) + 1 BY <1>2
   <2> QED BY <1>2, <2>1, OpenBefore DEF all
<1> HIDE DEF all
<1>6. \A i \in Events(all, {"message_stop"}) : i = n + 2 BY <1>2, <1>4 DEF Events, Unstopped
<1>7. \A j \in Events(all, {"start"}) : j \in Events(out, {"start"}) /\ all[j] = out[j]
   BY <1>2, <1>4 DEF Events
<1>8. \A j \in Events(all, {"start"}) : ~BlockOpen(all, all[j].block, n + 2)
   BY <1>1, <1>5, <1>7 DEF ClosedAll, n
<1>9. n + 2 = Len(all) /\ all[(n + 2) - 1] = e BY <1>2, <1>4
<1>10. e.reason = "tool_use" <=> ToolDeltas(said, all) # {} BY <1>1, <1>3 DEF ToolUse
<1>11. \A i \in Events(all, {"message_stop"}) :
          /\ i = Len(all) /\ all[i - 1].t = "message_delta"
          /\ \A j \in Events(all, {"start"}) : ~BlockOpen(all, all[j].block, i)
          /\ all[i - 1].reason = "tool_use" <=> ToolDeltas(said, all) # {}
   BY <1>6, <1>8, <1>9, <1>10
<1>12. Ends(all, {"message_stop", "error"}) BY <1>4 DEF Ends
<1>13. ClaudeBlocks(said, all, TRUE) BY <1>3, <1>11, <1>12 DEF BlocksRight, ClaudeBlocks
<1> QED BY <1>13 DEF all, one

LEMMA ClaudeFramed ==
    ASSUME NEW r, NEW due, ClaudeLive(r, due)
    PROVE  ClaudeBlocks(r.said, r.out, FALSE) /\ Whole(r)
<1>1. /\ BlocksRight(r.said, r.out) /\ Unstopped(r.out) /\ Events(r.out, EndMarks) = {}
      /\ InOrder(r.said, r.out)
   <2>1. BodyOf(r, due) BY DEF ClaudeLive
   <2>2. InOrder(r.said, r.out) BY <2>1 DEF BodyOf, MessageBody, Tracked
   <2> QED BY <2>1, <2>2, BodyRight, BodyClosed DEF BodyOf
<1>2. Events(r.out, {"message_stop"}) = {} BY <1>1 DEF Unstopped, Events
<1> QED BY <1>1, <1>2 DEF BlocksRight, ClaudeBlocks, Whole

LEMMA ClaudeFails ==
    ASSUME NEW r, ClaudeOpen(r), NEW due, BodyOf(r, due), NEW status
    PROVE  LET s == ClaudeFail(r, status) IN ClaudeBlocks(s.said, s.out, TRUE) /\ Whole(s)
<1> DEFINE e == [t |-> "error", status |-> status]
           s == ClaudeFail(r, status)
<1>1. e.t = "error" OBVIOUS
<1>2. s.out = Append(r.out, e) /\ s.said = r.said
   BY DEF ClaudeFail, Write, ClaudeOpen, ClaudeFields
<1> HIDE DEF e, s
<1>3. /\ BlocksRight(r.said, r.out) /\ Unstopped(r.out) /\ Events(r.out, EndMarks) = {}
      /\ Tracked(r.said, r.out, due)
   BY BodyRight, BodyClosed DEF BodyOf, MessageBody
<1>4. e.t \notin BlockEvents /\ e.t \notin Carriers /\ e.t \notin EndMarks
   BY <1>1 DEF BlockEvents, Carriers, EndMarks
<1>5. BlocksRight(r.said, s.out) BY <1>2, <1>3, <1>4, BlocksOn
<1>6. Listed(r.out) BY <1>3 DEF Tracked
<1>7. Events(s.out, EndMarks) = {} BY <1>2, <1>3, <1>4, <1>6, EventsAppend
<1>8. Ends(s.out, {"message_stop", "error"}) BY <1>1, <1>2, <1>6, AppendListed DEF Ends
<1>9. Events(s.out, {"message_stop"}) = {} BY <1>7 DEF Events, EndMarks
<1>10. Tracked(s.said, s.out, due) BY <1>2, <1>3, <1>4, TrackEvent
<1>11. ClaudeBlocks(r.said, s.out, TRUE)
   BY <1>5, <1>8, <1>9 DEF BlocksRight, ClaudeBlocks
<1> QED BY <1>2, <1>7, <1>10, <1>11 DEF Whole, Tracked, s

LEMMA ClaudeStops ==
    ASSUME NEW r, ClaudeOpen(r), NEW due, BodyOf(r, due), due = {},
           r.thinkBlock = -1, r.textBlock = -1,
           NEW e, e.t = "message_delta", e.reason = "tool_use" <=> r.calls,
           NEW d, d.t = "message_stop"
    PROVE  LET s == Write(Write(r, e), d) IN ClaudeBlocks(s.said, s.out, TRUE) /\ Whole(s)
<1> DEFINE s == Write(Write(r, e), d)
<1>1. s.out = Append(Append(r.out, e), d) /\ s.said = r.said
   BY DEF Write, ClaudeOpen, ClaudeFields
<1> HIDE DEF s
<1>2. OpenBlocks(r) = {} BY DEF OpenBlocks
<1>3. /\ BlocksRight(r.said, r.out) /\ Unstopped(r.out) /\ ClosedAll(r.out)
      /\ Tracked(r.said, r.out, due) /\ (r.calls <=> ToolDeltas(r.said, r.out) # {})
   BY <1>2, BodyRight, BodyClosed DEF BodyOf, MessageBody
<1>4. ToolUse(r.said, r.out, e.reason) BY <1>3 DEF ToolUse
<1>5. ClaudeBlocks(s.said, s.out, TRUE) BY <1>1, <1>3, <1>4, ClaudeTail
<1>6. e.t \notin Carriers /\ d.t \notin Carriers BY DEF Carriers
<1>7. Tracked(s.said, s.out, due) BY <1>1, <1>3, <1>6, EventsAtEnd
<1>8. Whole(s) BY <1>7, WholeAtEnd DEF Whole
<1> QED BY <1>5, <1>8 DEF s

LEMMA ClaudeEnds ==
    ASSUME NEW r, ClaudeLive(r, Due(r)), NEW defer \in BOOLEAN
    PROVE  LET f == ClaudeFinalize(r, defer)
           IN  \/ f.terminal /\ ClaudeBlocks(f.rt.said, f.rt.out, TRUE) /\ Whole(f.rt)
               \/ ~f.terminal /\ defer /\ ClaudeLive(f.rt, {}) /\ f.rt.held = 0 /\ ~f.rt.calls
<1> DEFINE flushed == ClaudeFlushed(r)
           last == CloseText(flushed)
           status == StatusOf(last, FALSE)
           closed == CloseThinking(last)
           early == Detected(last) /\ ~last.calls
           called == IF early THEN ToolBlock(closed, 0) ELSE closed
           e == [t |-> "message_delta",
                 reason |-> IF ReasonOf(last, FALSE) = "tool_calls" THEN "tool_use" ELSE "end_turn"]
           d == [t |-> "message_stop"]
           ending == Write(Write(called, e), d)
           f == ClaudeFinalize(r, defer)
           none == {}
<1> SUFFICES \/ f.terminal /\ ClaudeBlocks(f.rt.said, f.rt.out, TRUE) /\ Whole(f.rt)
             \/ ~f.terminal /\ defer /\ ClaudeLive(f.rt, none) /\ f.rt.held = 0 /\ ~f.rt.calls
   OBVIOUS
<1>1. f = CASE status = OK -> Terminal(ending)
            [] status # OK /\ defer -> Deferred(last)
            [] OTHER -> Terminal(ClaudeFail(closed, status))
   BY DEF ClaudeFinalize
<1>2. e.t = "message_delta" /\ d.t = "message_stop"
      /\ (e.reason = "tool_use" <=> ReasonOf(last, FALSE) = "tool_calls")
   OBVIOUS
<1>3. Detected(last) \/ last.calls => status = OK BY StatusAndReason
<1>4. (ReasonOf(last, FALSE) = "tool_calls") <=> (Detected(last) \/ last.calls)
   BY StatusAndReason
<1> HIDE DEF e, d, f, status, ending
<1>5. ClaudeLive(flushed, none) /\ flushed.held = 0 BY ClaudeFlushes
<1> HIDE DEF flushed, none
<1>6. ClaudeOpen(flushed) /\ BodyOf(flushed, none) /\ CallsSeen(flushed.said, flushed.calls, none)
   BY <1>5 DEF ClaudeLive
<1>7. /\ ClaudeOpen(last) /\ BodyOf(last, none) /\ last.textBlock = -1
      /\ last.said = flushed.said /\ last.held = 0 /\ last.calls = flushed.calls
   BY <1>5, <1>6, ClosesText DEF SameAnswer
<1> HIDE DEF last
<1>8. /\ ClaudeOpen(closed) /\ BodyOf(closed, none) /\ closed.textBlock = -1
      /\ closed.thinkBlock = -1 /\ closed.calls = last.calls
   BY <1>7, ClosesThinking
<1> HIDE DEF closed
<1>9. CASE status = OK
   <2>1. /\ ClaudeOpen(called) /\ BodyOf(called, none) /\ called.textBlock = -1
         /\ called.thinkBlock = -1 /\ (called.calls <=> Detected(last) \/ last.calls)
      <3>1. CASE early
         <4>1. First(closed.said, none, 0) /\ IsTool(closed.said, 0) BY NoPieceFirst
         <4>2. /\ ClaudeOpen(called) /\ BodyOf(called, none \ {0}) /\ called.textBlock = -1
               /\ called.thinkBlock = -1 /\ called.calls
            BY <1>8, <3>1, <4>1, WritesTool
         <4>3. none \ {0} = none BY DEF none
         <4> QED BY <3>1, <4>2, <4>3
      <3>2. CASE ~early
         <4>1. called = closed BY <3>2
         <4>2. ASSUME last.calls PROVE Detected(last)
            BY <1>6, <1>7, <4>2 DEF CallsSeen, Detected, Has
         <4> QED BY <1>8, <3>2, <4>1, <4>2
      <3> QED BY <3>1, <3>2
   <2> HIDE DEF called
   <2>2. e.reason = "tool_use" <=> called.calls BY <1>2, <1>4, <2>1
   <2>3. none = {} BY DEF none
   <2>4. ClaudeBlocks(ending.said, ending.out, TRUE) /\ Whole(ending)
      BY <1>2, <2>1, <2>2, <2>3, ClaudeStops DEF ending
   <2> QED BY <1>1, <1>9, <2>4 DEF Terminal
<1>10. CASE status # OK /\ defer
   <2>1. f = Deferred(last) BY <1>1, <1>10
   <2>2. ~last.calls BY <1>3, <1>10
   <2>3. CallsSeen(last.said, last.calls, none) BY <1>6, <1>7
   <2>4. ClaudeLive(last, none) BY <1>7, <2>3 DEF ClaudeLive
   <2> QED BY <1>7, <1>10, <2>1, <2>2, <2>4 DEF Deferred
<1>11. CASE status # OK /\ ~defer
   <2>1. f = Terminal(ClaudeFail(closed, status)) BY <1>1, <1>11
   <2>2. ClaudeBlocks(ClaudeFail(closed, status).said, ClaudeFail(closed, status).out, TRUE)
         /\ Whole(ClaudeFail(closed, status))
      BY <1>8, ClaudeFails
   <2> QED BY <2>1, <2>2 DEF Terminal
<1> QED BY <1>9, <1>10, <1>11

-----------------------------------------------------------------------------
(* Responses: items. *)
TextEvents == {"partAdded", "delta", "textDone", "partDone"}
ItemEvents == TextEvents \cup {"argsDone", "itemDone"}
ResponseEvents == {"created", "reasoning", "itemAdded"} \cup ItemEvents

LEMMA Appended ==
    ASSUME NEW out, Listed(out), NEW e
    PROVE  /\ Len(out) \in Nat /\ DOMAIN out = 1 .. Len(out) /\ Listed(Append(out, e))
           /\ DOMAIN Append(out, e) = 1 .. Len(out) + 1 /\ Len(Append(out, e)) = Len(out) + 1
           /\ Append(out, e)[Len(out) + 1] = e
           /\ \A j \in 1 .. Len(out) : Append(out, e)[j] = out[j]
BY AppendListed

(* The items that were begun. *)
Numbered(out, next) ==
    /\ Listed(out) /\ next \in Nat
    /\ Events(out, {"created"}) = {1}
    /\ IsFiniteSet(Events(out, {"itemAdded"})) /\ Cardinality(Events(out, {"itemAdded"})) = next
    /\ \A i \in Events(out, {"itemAdded"}) :
          out[i].item = Before(out, {"itemAdded"}, i) /\ out[i].item \in 0 .. next - 1

LEMMA NumberedOn ==
    ASSUME NEW out, NEW next, Numbered(out, next), NEW e, e.t \notin {"created", "itemAdded"}
    PROVE  Numbered(Append(out, e), next)
<1> DEFINE all == Append(out, e)
<1>1. /\ Listed(out) /\ Len(out) \in Nat /\ DOMAIN out = 1 .. Len(out) /\ Listed(all)
      /\ DOMAIN all = 1 .. Len(out) + 1 /\ all[Len(out) + 1] = e
      /\ \A j \in 1 .. Len(out) : all[j] = out[j]
   BY Appended DEF Numbered
<1> HIDE DEF all
<1>2. /\ Events(all, {"created"}) = Events(out, {"created"})
      /\ Events(all, {"itemAdded"}) = Events(out, {"itemAdded"})
   BY <1>1 DEF Events
<1>3. ASSUME NEW i \in Events(out, {"itemAdded"})
      PROVE  all[i] = out[i] /\ Before(all, {"itemAdded"}, i) = Before(out, {"itemAdded"}, i)
   <2>1. i \in DOMAIN out /\ all[i] = out[i] BY <1>1 DEF Events
   <2>2. \A j \in DOMAIN out : Before(all, {"itemAdded"}, j) = Before(out, {"itemAdded"}, j)
      BY <1>1, BeforeOn DEF all
   <2> QED BY <2>1, <2>2
<1> QED BY <1>1, <1>2, <1>3 DEF Numbered, all

LEMMA NumberedMore ==
    ASSUME NEW out, NEW next, Numbered(out, next), NEW e, e.t = "itemAdded", e.item = next
    PROVE  Numbered(Append(out, e), next + 1)
<1> DEFINE all == Append(out, e)
           m == Len(out) + 1
<1>1. /\ Listed(out) /\ Len(out) \in Nat /\ DOMAIN out = 1 .. Len(out) /\ Listed(all)
      /\ DOMAIN all = 1 .. m /\ all[m] = e
      /\ \A j \in 1 .. Len(out) : all[j] = out[j]
   BY Appended DEF Numbered
<1> HIDE DEF all
<1>2. /\ Events(all, {"created"}) = Events(out, {"created"})
      /\ Events(all, {"itemAdded"}) = Events(out, {"itemAdded"}) \cup {m}
      /\ m \notin Events(out, {"itemAdded"})
   BY <1>1 DEF Events
<1>3. ASSUME NEW i \in Events(out, {"itemAdded"})
      PROVE  all[i] = out[i] /\ Before(all, {"itemAdded"}, i) = Before(out, {"itemAdded"}, i)
   <2>1. i \in DOMAIN out /\ all[i] = out[i] BY <1>1 DEF Events
   <2>2. \A j \in DOMAIN out : Before(all, {"itemAdded"}, j) = Before(out, {"itemAdded"}, j)
      BY <1>1, BeforeOn DEF all
   <2> QED BY <2>1, <2>2
<1>4. Before(all, {"itemAdded"}, m) = next BY <1>1, BeforeOn DEF Numbered, all
<1>5. /\ IsFiniteSet(Events(out, {"itemAdded"})) /\ Cardinality(Events(out, {"itemAdded"})) = next
      /\ next \in Nat
   BY DEF Numbered
<1>6. IsFiniteSet(Events(all, {"itemAdded"})) /\ Cardinality(Events(all, {"itemAdded"})) = next + 1
   BY <1>2, <1>5, FS_AddElement
<1>7. ASSUME NEW i \in Events(all, {"itemAdded"})
      PROVE  all[i].item = Before(all, {"itemAdded"}, i) /\ all[i].item \in 0 .. next
   <2>1. CASE i \in Events(out, {"itemAdded"})
      <3>1. out[i].item = Before(out, {"itemAdded"}, i) /\ out[i].item \in 0 .. next - 1
         BY <2>1 DEF Numbered
      <3> QED BY <1>3, <1>5, <2>1, <3>1
   <2>2. CASE i = m BY <1>1, <1>4, <1>5, <2>2
   <2> QED BY <1>2, <2>1, <2>2
<1>8. 0 .. next = 0 .. (next + 1) - 1 BY <1>5
<1>9. Numbered(all, next + 1)
   <2>1. Events(all, {"created"}) = {1} BY <1>2 DEF Numbered
   <2> QED BY <1>1, <1>5, <1>6, <1>7, <1>8, <2>1 DEF Numbered
<1> QED BY <1>9 DEF all

(* What belongs to an item comes behind its beginning. *)
Begun(out, n) == OfItem(out, n, {"itemAdded"}) # {}
AllBegun(out) ==
    \A i \in Events(out, ItemEvents) : \E j \in OfItem(out, out[i].item, {"itemAdded"}) : j < i

LEMMA BegunOn ==
    ASSUME NEW out, Listed(out), NEW e
    PROVE  /\ \A n : Begun(out, n) => Begun(Append(out, e), n)
           /\ e.t = "itemAdded" => Begun(Append(out, e), e.item)
           /\ AllBegun(out) /\ (e.t \notin ItemEvents \/ Begun(out, e.item))
                 => AllBegun(Append(out, e))
<1> DEFINE all == Append(out, e)
           m == Len(out) + 1
<1>1. /\ Len(out) \in Nat /\ DOMAIN out = 1 .. Len(out) /\ DOMAIN all = 1 .. m /\ all[m] = e
      /\ \A j \in 1 .. Len(out) : all[j] = out[j]
   BY Appended
<1> HIDE DEF all
<1>2. \A n : OfItem(out, n, {"itemAdded"}) \subseteq OfItem(all, n, {"itemAdded"})
   BY <1>1 DEF OfItem, Events
<1>3. \A n : Begun(out, n) => Begun(all, n) BY <1>2 DEF Begun
<1>4. e.t = "itemAdded" => Begun(all, e.item) BY <1>1 DEF Begun, OfItem, Events
<1>5. ASSUME AllBegun(out), e.t \notin ItemEvents \/ Begun(out, e.item), NEW i \in Events(all, ItemEvents)
      PROVE  \E j \in OfItem(all, all[i].item, {"itemAdded"}) : j < i
   <2>1. CASE i \in DOMAIN out
      <3>1. i \in Events(out, ItemEvents) /\ all[i] = out[i] BY <1>1, <2>1 DEF Events
      <3> QED BY <1>2, <1>5, <3>1 DEF AllBegun
   <2>2. CASE i = m
      <3>1. e.t \in ItemEvents /\ all[i] = e BY <1>1, <2>2 DEF Events
      <3>2. PICK j \in OfItem(out, e.item, {"itemAdded"}) : TRUE BY <1>5, <3>1 DEF Begun
      <3>3. j < i BY <1>1, <2>2 DEF OfItem, Events
      <3> QED BY <1>2, <3>1, <3>2, <3>3
   <2> QED BY <1>1, <2>1, <2>2 DEF Events
<1>6. AllBegun(out) /\ (e.t \notin ItemEvents \/ Begun(out, e.item)) => AllBegun(all)
   BY <1>5 DEF AllBegun
<1> QED BY <1>3, <1>4, <1>6 DEF all

LEMMA BegunBelow ==
    ASSUME NEW out, NEW next, Numbered(out, next), AllBegun(out)
    PROVE  /\ \A n : Begun(out, n) => n \in 0 .. next - 1
           /\ \A i \in Events(out, ItemEvents) : out[i].item \in 0 .. next - 1
<1>1. \A n : \A j \in OfItem(out, n, {"itemAdded"}) : n \in 0 .. next - 1 BY DEF Numbered, OfItem
<1> QED BY <1>1 DEF Begun, AllBegun

(* The part of the message. *)
Parts(out, msg, part) ==
    /\ \A i \in Events(out, TextEvents) : out[i].item = msg /\ msg >= 0
    /\ \A i \in Events(out, {"delta", "textDone", "partDone"}) : PartOpen(out, msg, i)
    /\ \A i \in Events(out, {"partAdded"}) : ~PartOpen(out, msg, i)
    /\ part <=> PartOpen(out, msg, Len(out) + 1)

LEMMA PartBefore ==
    ASSUME NEW out, Listed(out), NEW e, NEW n, NEW i \in 1 .. Len(out) + 1
    PROVE  PartOpen(Append(out, e), n, i) <=> PartOpen(out, n, i)
<1> DEFINE all == Append(out, e)
<1>1. /\ Len(out) \in Nat /\ DOMAIN out = 1 .. Len(out) /\ DOMAIN all = 1 .. Len(out) + 1
      /\ \A j \in 1 .. Len(out) : all[j] = out[j]
   BY Appended
<1> HIDE DEF all
<1>2. \A t : \A j \in OfItem(out, n, t) : j \in OfItem(all, n, t) /\ j \in Int
   BY <1>1 DEF OfItem, Events
<1>3. \A t : \A j \in OfItem(all, n, t) : j \in Int /\ (j < i => j \in OfItem(out, n, t))
   BY <1>1 DEF OfItem, Events
<1>4. i \in Int BY <1>1
<1> QED BY <1>2, <1>3, <1>4 DEF PartOpen, all

LEMMA PartBehind ==
    ASSUME NEW out, Listed(out), NEW e, NEW n
    PROVE  LET all == Append(out, e)
               m == Len(out) + 1
           IN  /\ e.t = "partAdded" /\ e.item = n => PartOpen(all, n, m + 1)
               /\ e.t = "partDone" /\ e.item = n => ~PartOpen(all, n, m + 1)
               /\ e.t \notin {"partAdded", "partDone"}
                     => (PartOpen(all, n, m + 1) <=> PartOpen(out, n, m))
<1> DEFINE all == Append(out, e)
           m == Len(out) + 1
<1>1. /\ Len(out) \in Nat /\ DOMAIN out = 1 .. Len(out) /\ DOMAIN all = 1 .. m /\ m \in Nat
      /\ all[m] = e /\ \A j \in 1 .. Len(out) : all[j] = out[j] /\ j < m
   BY Appended
<1> HIDE DEF all
<1>2. ASSUME e.t = "partAdded", e.item = n PROVE PartOpen(all, n, m + 1)
   <2>1. m \in OfItem(all, n, {"partAdded"}) BY <1>1, <1>2 DEF OfItem, Events
   <2>2. \A k \in OfItem(all, n, {"partDone"}) : k < m BY <1>1, <1>2 DEF OfItem, Events
   <2> QED BY <1>1, <2>1, <2>2 DEF PartOpen
<1>3. ASSUME e.t = "partDone", e.item = n PROVE ~PartOpen(all, n, m + 1)
   <2>1. m \in OfItem(all, n, {"partDone"}) BY <1>1, <1>3 DEF OfItem, Events
   <2>2. \A j \in OfItem(all, n, {"partAdded"}) : j \in Int /\ j < m
      BY <1>1, <1>3 DEF OfItem, Events
   <2>3. ~(m >= m + 1) /\ \A j \in OfItem(all, n, {"partAdded"}) : ~(m < j) BY <1>1, <2>2
   <2> QED BY <2>1, <2>3 DEF PartOpen
<1>4. ASSUME e.t \notin {"partAdded", "partDone"}
      PROVE  PartOpen(all, n, m + 1) <=> PartOpen(out, n, m)
   <2>1. /\ OfItem(all, n, {"partAdded"}) = OfItem(out, n, {"partAdded"})
         /\ OfItem(all, n, {"partDone"}) = OfItem(out, n, {"partDone"})
      BY <1>1, <1>4 DEF OfItem, Events
   <2>2. /\ \A j \in OfItem(out, n, {"partAdded"}) : j \in Int /\ j < m
         /\ \A j \in OfItem(out, n, {"partDone"}) : j \in Int /\ j < m
      BY <1>1 DEF OfItem, Events
   <2> QED BY <1>1, <2>1, <2>2 DEF PartOpen
<1> QED BY <1>2, <1>3, <1>4 DEF all

(* An event of the part that may come, and what it makes of it. *)
PartMay(msg, part, e) ==
    \/ e.t \notin TextEvents
    \/ e.item = msg /\ msg >= 0 /\ (part <=> e.t # "partAdded")
PartIs(part, e) == IF e.t = "partAdded" THEN TRUE ELSE IF e.t = "partDone" THEN FALSE ELSE part

LEMMA PartsOn ==
    ASSUME NEW out, Listed(out), NEW msg, NEW part, Parts(out, msg, part),
           NEW e, PartMay(msg, part, e), NEW now, now <=> PartIs(part, e)
    PROVE  Parts(Append(out, e), msg, now)
<1> DEFINE all == Append(out, e)
           m == Len(out) + 1
<1>1. /\ Len(out) \in Nat /\ DOMAIN out = 1 .. Len(out) /\ DOMAIN all = 1 .. m /\ m \in Nat
      /\ Len(all) = m /\ all[m] = e /\ \A j \in 1 .. Len(out) : all[j] = out[j] /\ j < m
   BY Appended
<1> HIDE DEF all
<1>2. \A n, i : i \in 1 .. m => (PartOpen(all, n, i) <=> PartOpen(out, n, i))
   BY PartBefore DEF all, m
<1>3. part <=> PartOpen(out, msg, m) BY DEF Parts, m
<1>4. e.t \in TextEvents => e.item = msg /\ msg >= 0 /\ (part <=> e.t # "partAdded")
   BY DEF PartMay
<1>5. \A i \in DOMAIN all : i \in DOMAIN out \/ i = m BY <1>1
<1>6. \A i \in DOMAIN out : all[i] = out[i] /\ i \in 1 .. m BY <1>1
<1>7. ASSUME NEW i \in Events(all, TextEvents) PROVE all[i].item = msg /\ msg >= 0
   <2>1. CASE i \in DOMAIN out
      <3>1. i \in Events(out, TextEvents) BY <1>6, <2>1 DEF Events
      <3> QED BY <1>6, <2>1, <3>1 DEF Parts
   <2>2. CASE i = m
      <3>1. e.t \in TextEvents BY <1>1, <2>2 DEF Events
      <3> QED BY <1>1, <1>4, <2>2, <3>1
   <2> QED BY <1>5, <2>1, <2>2 DEF Events
<1>8. ASSUME NEW i \in Events(all, {"delta", "textDone", "partDone"}) PROVE PartOpen(all, msg, i)
   <2>1. CASE i \in DOMAIN out
      <3>1. i \in Events(out, {"delta", "textDone", "partDone"}) BY <1>6, <2>1 DEF Events
      <3> QED BY <1>2, <1>6, <2>1, <3>1 DEF Parts
   <2>2. CASE i = m
      <3>1. e.t \in {"delta", "textDone", "partDone"} BY <1>1, <2>2 DEF Events
      <3>2. part BY <1>4, <3>1 DEF TextEvents
      <3>3. m \in 1 .. m BY <1>1 DEF m
      <3> QED BY <1>2, <1>3, <2>2, <3>2, <3>3
   <2> QED BY <1>5, <2>1, <2>2 DEF Events
<1>9. ASSUME NEW i \in Events(all, {"partAdded"}) PROVE ~PartOpen(all, msg, i)
   <2>1. CASE i \in DOMAIN out
      <3>1. i \in Events(out, {"partAdded"}) BY <1>6, <2>1 DEF Events
      <3> QED BY <1>2, <1>6, <2>1, <3>1 DEF Parts
   <2>2. CASE i = m
      <3>1. e.t = "partAdded" BY <1>1, <2>2 DEF Events
      <3>2. ~part BY <1>4, <3>1 DEF TextEvents
      <3>3. m \in 1 .. m BY <1>1 DEF m
      <3> QED BY <1>2, <1>3, <2>2, <3>2, <3>3
   <2> QED BY <1>5, <2>1, <2>2 DEF Events
<1>10. now <=> PartOpen(all, msg, m + 1)
   <2>1. /\ e.t = "partAdded" /\ e.item = msg => PartOpen(all, msg, m + 1)
         /\ e.t = "partDone" /\ e.item = msg => ~PartOpen(all, msg, m + 1)
         /\ e.t \notin {"partAdded", "partDone"}
               => (PartOpen(all, msg, m + 1) <=> PartOpen(out, msg, m))
      BY PartBehind DEF all, m
   <2>2. CASE e.t = "partAdded"
      <3>1. e.item = msg /\ now BY <1>4, <2>2 DEF TextEvents, PartIs
      <3> QED BY <2>1, <2>2, <3>1
   <2>3. CASE e.t = "partDone"
      <3>1. e.item = msg /\ ~now BY <1>4, <2>3 DEF TextEvents, PartIs
      <3> QED BY <2>1, <2>3, <3>1
   <2>4. CASE e.t \notin {"partAdded", "partDone"}
      <3>1. now <=> part BY <2>4 DEF PartIs
      <3> QED BY <1>3, <2>1, <2>4, <3>1
   <2> QED BY <2>2, <2>3, <2>4
<1> QED BY <1>1, <1>7, <1>8, <1>9, <1>10 DEF Parts, all

(* The message begins. *)
LEMMA PartsFrom ==
    ASSUME NEW out, NEW part, Parts(out, -1, part), NEW msg
    PROVE  Parts(out, msg, part) /\ ~part
<1>1. Events(out, TextEvents) = {}
   <2>1. ~(-1 >= 0) OBVIOUS
   <2> QED BY <2>1 DEF Parts
<1>2. /\ Events(out, {"delta", "textDone", "partDone"}) = {}
      /\ Events(out, {"partAdded"}) = {}
   BY <1>1 DEF Events, TextEvents
<1>3. \A n, i : ~PartOpen(out, n, i) BY <1>2 DEF PartOpen, OfItem
<1> QED BY <1>1, <1>2, <1>3 DEF Parts

(* Items are done once: but loose ones, and quiet ones not at all. *)
DoneOnce(out, n) == \E k \in Events(out, {"itemDone"}) : OfItem(out, n, {"itemDone"}) = {k}
Dones(out, loose, quiet) ==
    /\ \A j \in Events(out, {"itemAdded"}) : out[j].item \notin loose => DoneOnce(out, out[j].item)
    /\ \A k \in Events(out, {"itemDone"}) : out[k].item \notin quiet

LEMMA DonesOn ==
    ASSUME NEW out, Listed(out), NEW e
    PROVE  LET all == Append(out, e)
           IN  \A n : OfItem(all, n, {"itemDone"})
                        = IF e.t = "itemDone" /\ e.item = n
                          THEN OfItem(out, n, {"itemDone"}) \cup {Len(out) + 1}
                          ELSE OfItem(out, n, {"itemDone"})
<1> DEFINE all == Append(out, e)
           m == Len(out) + 1
<1>1. /\ Len(out) \in Nat /\ DOMAIN out = 1 .. Len(out) /\ DOMAIN all = 1 .. m
      /\ all[m] = e /\ \A j \in 1 .. Len(out) : all[j] = out[j]
   BY Appended
<1> HIDE DEF all
<1> SUFFICES ASSUME NEW n
             PROVE  OfItem(all, n, {"itemDone"})
                      = IF e.t = "itemDone" /\ e.item = n
                        THEN OfItem(out, n, {"itemDone"}) \cup {m}
                        ELSE OfItem(out, n, {"itemDone"})
   BY DEF all
<1>2. \A i \in DOMAIN out : i \in OfItem(all, n, {"itemDone"}) <=> i \in OfItem(out, n, {"itemDone"})
   BY <1>1 DEF OfItem, Events
<1>3. m \in OfItem(all, n, {"itemDone"}) <=> e.t = "itemDone" /\ e.item = n
   BY <1>1 DEF OfItem, Events
<1>4. /\ \A i \in OfItem(all, n, {"itemDone"}) : i \in DOMAIN out \/ i = m
      /\ \A i \in OfItem(out, n, {"itemDone"}) : i \in DOMAIN out
   BY <1>1 DEF OfItem, Events
<1> DEFINE now == OfItem(all, n, {"itemDone"})
           past == OfItem(out, n, {"itemDone"})
<1> HIDE DEF now, past, m
<1>5. /\ \A i \in DOMAIN out : i \in now <=> i \in past
      /\ m \in now <=> e.t = "itemDone" /\ e.item = n
      /\ \A i \in now : i \in DOMAIN out \/ i = m
      /\ \A i \in past : i \in DOMAIN out
   BY <1>2, <1>3, <1>4 DEF now, past
<1>6. CASE e.t = "itemDone" /\ e.item = n
   <2>1. now = past \cup {m} BY <1>5, <1>6
   <2> QED BY <1>6, <2>1 DEF now, past
<1>7. CASE ~(e.t = "itemDone" /\ e.item = n)
   <2>1. now = past BY <1>5, <1>7
   <2> QED BY <1>7, <2>1 DEF now, past
<1> QED BY <1>6, <1>7

(* An event, and the loose and the quiet items behind it. *)
LEMMA DonesAppend ==
    ASSUME NEW out, Listed(out), NEW loose, NEW quiet, Dones(out, loose, quiet), NEW e,
           NEW free, NEW still, still \subseteq quiet,
           e.t = "itemAdded" => e.item \in free,
           e.t = "itemDone" => /\ e.item \notin still /\ loose \subseteq free \cup {e.item}
                               /\ (e.item \in free \/ OfItem(out, e.item, {"itemDone"}) = {}),
           e.t # "itemDone" => loose \subseteq free
    PROVE  Dones(Append(out, e), free, still)
<1> DEFINE all == Append(out, e)
           m == Len(out) + 1
<1>1. /\ Len(out) \in Nat /\ DOMAIN out = 1 .. Len(out) /\ DOMAIN all = 1 .. m
      /\ all[m] = e /\ \A j \in 1 .. Len(out) : all[j] = out[j]
   BY Appended
<1>2. \A n : OfItem(all, n, {"itemDone"})
               = IF e.t = "itemDone" /\ e.item = n
                 THEN OfItem(out, n, {"itemDone"}) \cup {m}
                 ELSE OfItem(out, n, {"itemDone"})
   BY DonesOn
<1> HIDE DEF all, m
<1>3. \A i \in DOMAIN all : i \in DOMAIN out \/ i = m BY <1>1 DEF m
<1>4. \A i \in DOMAIN out : all[i] = out[i] BY <1>1
<1>5. ASSUME NEW j \in Events(all, {"itemAdded"}), all[j].item \notin free
      PROVE  DoneOnce(all, all[j].item)
   <2>1. j \in DOMAIN all /\ all[j].t = "itemAdded" BY DEF Events
   <2>2. j \in DOMAIN out /\ j \in Events(out, {"itemAdded"}) /\ all[j] = out[j]
      <3>1. j # m BY <1>1, <1>5, <2>1
      <3> QED BY <1>3, <1>4, <2>1, <3>1 DEF Events
   <2> DEFINE n == out[j].item
   <2>3. n \notin free BY <1>5, <2>2
   <2>4. CASE e.t = "itemDone" /\ e.item = n
      <3>1. OfItem(out, n, {"itemDone"}) = {} BY <2>3, <2>4
      <3>2. OfItem(all, n, {"itemDone"}) = {m} BY <1>2, <2>4, <3>1
      <3>3. m \in Events(all, {"itemDone"})
         <4>1. m \in OfItem(all, n, {"itemDone"}) BY <3>2
         <4> QED BY <4>1 DEF OfItem
      <3> QED BY <2>2, <3>2, <3>3 DEF DoneOnce
   <2>5. CASE ~(e.t = "itemDone" /\ e.item = n)
      <3>1. n \notin loose BY <2>3, <2>5
      <3>2. DoneOnce(out, n) BY <2>2, <3>1 DEF Dones
      <3>3. PICK k \in Events(out, {"itemDone"}) : OfItem(out, n, {"itemDone"}) = {k}
         BY <3>2 DEF DoneOnce
      <3>4. OfItem(all, n, {"itemDone"}) = {k} BY <1>2, <2>5, <3>3
      <3>5. k \in Events(all, {"itemDone"})
         <4>1. k \in OfItem(all, n, {"itemDone"}) BY <3>4
         <4> QED BY <4>1 DEF OfItem
      <3> QED BY <2>2, <3>4, <3>5 DEF DoneOnce
   <2> QED BY <2>4, <2>5
<1>6. ASSUME NEW k \in Events(all, {"itemDone"}) PROVE all[k].item \notin still
   <2>1. CASE k \in DOMAIN out
      <3>1. k \in Events(out, {"itemDone"}) BY <1>4, <2>1 DEF Events
      <3>2. out[k].item \notin quiet BY <3>1 DEF Dones
      <3> QED BY <1>4, <2>1, <3>2
   <2>2. CASE k = m
      <3>1. e.t = "itemDone" BY <1>1, <2>2 DEF Events
      <3> QED BY <1>1, <2>2, <3>1
   <2> QED BY <1>3, <2>1, <2>2 DEF Events
<1>7. Dones(all, free, still) BY <1>5, <1>6 DEF Dones
<1> QED BY <1>7 DEF all

LEMMA DonesNext ==
    ASSUME NEW out, NEW next, Numbered(out, next), AllBegun(out),
           NEW loose, NEW quiet, Dones(out, loose, quiet)
    PROVE  Dones(out, loose \ {-1}, quiet \cup {next})
<1>1. next \in Nat /\ \A j \in Events(out, {"itemAdded"}) : out[j].item \in 0 .. next - 1
   BY DEF Numbered
<1>2. \A j \in Events(out, {"itemAdded"}) : out[j].item # -1 BY <1>1
<1>3. ASSUME NEW k \in Events(out, {"itemDone"}) PROVE out[k].item # next
   <2>1. k \in Events(out, ItemEvents) BY DEF Events, ItemEvents
   <2>2. out[k].item \in 0 .. next - 1 BY <2>1, BegunBelow
   <2> QED BY <1>1, <2>2
<1> QED BY <1>2, <1>3 DEF Dones

(* The items of a response that has not ended: the message msg may be done   *)
(* and gone on with.                                                       *)
OnlyOf(out, t) == \A i \in DOMAIN out : out[i].t \in t
GaveCalls(out, calls) == calls <=> Events(out, {"argsDone"}) # {}
Items(out, next, msg, part, calls, loose, quiet) ==
    /\ OnlyOf(out, ResponseEvents) /\ Numbered(out, next) /\ AllBegun(out)
    /\ Parts(out, msg, part) /\ Dones(out, loose, quiet) /\ GaveCalls(out, calls)
    /\ msg >= 0 => Begun(out, msg)

LEMMA OnlyMore ==
    ASSUME NEW out, Listed(out), NEW e, NEW t, OnlyOf(out, t), e.t \in t
    PROVE  OnlyOf(Append(out, e), t)
BY Appended DEF OnlyOf

LEMMA GaveMore ==
    ASSUME NEW out, Listed(out), NEW e, NEW calls, GaveCalls(out, calls),
           NEW now, now <=> calls \/ e.t = "argsDone"
    PROVE  GaveCalls(Append(out, e), now)
<1>1. Events(Append(out, e), {"argsDone"})
        = Events(out, {"argsDone"}) \cup (IF e.t \in {"argsDone"} THEN {Len(out) + 1} ELSE {})
   BY EventsAppend
<1> QED BY <1>1 DEF GaveCalls

LEMMA ItemsOn ==
    ASSUME NEW out, NEW next, NEW msg, NEW part, NEW calls, NEW loose, NEW quiet,
           Items(out, next, msg, part, calls, loose, quiet),
           NEW e, e.t \in ResponseEvents \ {"created", "itemAdded"}, PartMay(msg, part, e),
           e.t \in ItemEvents => Begun(out, e.item),
           NEW now, now <=> PartIs(part, e), NEW called, called <=> calls \/ e.t = "argsDone",
           NEW free, NEW still, Dones(Append(out, e), free, still)
    PROVE  Items(Append(out, e), next, msg, now, called, free, still)
<1>1. Listed(out) /\ Numbered(out, next) BY DEF Items, Numbered
<1>2. Numbered(Append(out, e), next) BY <1>1, NumberedOn
<1>3. OnlyOf(Append(out, e), ResponseEvents) BY <1>1, OnlyMore DEF Items
<1>4. GaveCalls(Append(out, e), called) BY <1>1, GaveMore DEF Items
<1>5. Parts(Append(out, e), msg, now) BY <1>1, PartsOn DEF Items
<1>6. AllBegun(Append(out, e)) /\ (msg >= 0 => Begun(Append(out, e), msg))
   <2>1. AllBegun(out) /\ (msg >= 0 => Begun(out, msg)) BY DEF Items
   <2> QED BY <1>1, <2>1, BegunOn
<1> QED BY <1>2, <1>3, <1>4, <1>5, <1>6 DEF Items

(* Reasoning, and an event of the part. *)
LEMMA ItemsPart ==
    ASSUME NEW out, NEW next, NEW msg, NEW part, NEW calls, NEW loose, NEW quiet,
           Items(out, next, msg, part, calls, loose, quiet),
           NEW e, e.t \in TextEvents \cup {"reasoning"}, PartMay(msg, part, e),
           NEW now, now <=> PartIs(part, e)
    PROVE  Items(Append(out, e), next, msg, now, calls, loose, quiet)
<1>1. Listed(out) /\ Dones(out, loose, quiet) BY DEF Items, Numbered
<1>2. e.t # "itemAdded" /\ e.t # "itemDone" /\ e.t # "argsDone" /\ e.t # "created"
      /\ e.t \in ResponseEvents
   BY DEF TextEvents, ResponseEvents, ItemEvents
<1>3. Dones(Append(out, e), loose, quiet) BY <1>1, <1>2, DonesAppend
<1>4. e.t \in ItemEvents => Begun(out, e.item)
   <2> SUFFICES ASSUME e.t \in ItemEvents PROVE Begun(out, e.item) OBVIOUS
   <2>1. e.t \in TextEvents BY DEF TextEvents, ItemEvents
   <2>2. e.item = msg /\ msg >= 0 BY <2>1 DEF PartMay
   <2> QED BY <2>2 DEF Items
<1>5. calls <=> calls \/ e.t = "argsDone" BY <1>2
<1>6. e.t \in ResponseEvents \ {"created", "itemAdded"} BY <1>2
<1> QED BY <1>3, <1>4, <1>5, <1>6, ItemsOn

(* A call: its item, its arguments, and it is done. *)
LEMMA ItemsCall ==
    ASSUME NEW out, NEW next, NEW msg, NEW part, NEW calls, NEW quiet,
           Items(out, next, msg, part, calls, {msg}, quiet), msg \in Nat \cup {-1},
           quiet \subseteq {msg},
           NEW a, a.t = "itemAdded", a.item = next, NEW b, b.t = "argsDone", b.item = next,
           NEW d, d.t = "itemDone", d.item = next
    PROVE  Items(Append(Append(Append(out, a), b), d), next + 1, msg, part, TRUE, {msg}, quiet)
<1> DEFINE one == Append(out, a)
           two == Append(one, b)
           all == Append(two, d)
           yes == TRUE
<1>1. /\ Listed(out) /\ Numbered(out, next) /\ AllBegun(out) /\ Dones(out, {msg}, quiet)
      /\ next \in Nat /\ (msg >= 0 => Begun(out, msg))
   BY DEF Items, Numbered
<1>2. msg # next /\ msg < next
   <2>1. CASE msg = -1 BY <1>1, <2>1
   <2>2. CASE msg >= 0
      <3>1. msg \in 0 .. next - 1 BY <1>1, <2>2, BegunBelow
      <3> QED BY <1>1, <3>1
   <2> QED BY <2>1, <2>2
<1>3. Listed(one) /\ Listed(two) BY <1>1, Appended
<1>4. Items(one, next + 1, msg, part, calls, {msg, next}, quiet \cup {next})
   <2>1. Numbered(one, next + 1) BY <1>1, NumberedMore
   <2>2. OnlyOf(one, ResponseEvents)
      <3>1. a.t \in ResponseEvents BY DEF ResponseEvents
      <3> QED BY <1>1, <3>1, OnlyMore DEF Items
   <2>3. GaveCalls(one, calls)
      <3>1. calls <=> calls \/ a.t = "argsDone" OBVIOUS
      <3> QED BY <1>1, <3>1, GaveMore DEF Items
   <2>4. Parts(one, msg, part)
      <3>1. PartMay(msg, part, a) /\ (part <=> PartIs(part, a)) BY DEF PartMay, PartIs, TextEvents
      <3> QED BY <1>1, <3>1, PartsOn DEF Items
   <2>5. AllBegun(one) /\ (msg >= 0 => Begun(one, msg))
      <3>1. a.t \notin ItemEvents BY DEF ItemEvents, TextEvents
      <3> QED BY <1>1, <3>1, BegunOn
   <2>6. Dones(one, {msg, next}, quiet \cup {next})
      <3>1. Dones(out, {msg} \ {-1}, quiet \cup {next}) BY <1>1, DonesNext
      <3> DEFINE loose == {msg} \ {-1}
                 free == {msg, next}
                 still == quiet \cup {next}
      <3>2. loose \subseteq free /\ a.item \in free /\ still \subseteq still /\ a.t # "itemDone"
         OBVIOUS
      <3>3. Dones(out, loose, still) BY <3>1
      <3> HIDE DEF loose, free, still
      <3>4. Dones(one, free, still) BY <1>1, <3>2, <3>3, DonesAppend
      <3> QED BY <3>4 DEF free, still
   <2> QED BY <2>1, <2>2, <2>3, <2>4, <2>5, <2>6 DEF Items
<1>5. Begun(one, next) /\ Begun(two, next)
   <2>1. Begun(one, next) BY <1>1, BegunOn
   <2> QED BY <1>3, <2>1, BegunOn
<1>6. Items(two, next + 1, msg, part, yes, {msg, next}, quiet \cup {next})
   <2>1. b.t \in ResponseEvents \ {"created", "itemAdded"} /\ b.t \notin TextEvents
         /\ b.t # "partAdded" /\ b.t # "partDone"
      BY DEF ResponseEvents, ItemEvents, TextEvents
   <2>2. PartMay(msg, part, b) /\ (part <=> PartIs(part, b)) BY <2>1 DEF PartMay, PartIs
   <2>3. yes <=> calls \/ b.t = "argsDone" OBVIOUS
   <2> DEFINE free == {msg, next}
              still == quiet \cup {next}
   <2>4. Dones(two, free, still)
      <3>1. Dones(one, free, still) BY <1>4 DEF Items
      <3>2. b.t # "itemAdded" /\ b.t # "itemDone" /\ free \subseteq free /\ still \subseteq still
         OBVIOUS
      <3> HIDE DEF free, still, one
      <3> QED BY <1>3, <3>1, <3>2, DonesAppend
   <2>5. Items(one, next + 1, msg, part, calls, free, still) BY <1>4
   <2> HIDE DEF free, still, one, yes
   <2>6. Items(two, next + 1, msg, part, yes, free, still)
      BY <1>5, <2>1, <2>2, <2>3, <2>4, <2>5, ItemsOn
   <2> QED BY <2>6 DEF free, still
<1>7. Items(all, next + 1, msg, part, yes, {msg}, quiet)
   <2>1. d.t \in ResponseEvents \ {"created", "itemAdded"} /\ d.t \notin TextEvents
         /\ d.t # "partAdded" /\ d.t # "partDone"
      BY DEF ResponseEvents, ItemEvents, TextEvents
   <2>2. PartMay(msg, part, d) /\ (part <=> PartIs(part, d)) BY <2>1 DEF PartMay, PartIs
   <2>3. yes <=> yes \/ d.t = "argsDone" OBVIOUS
   <2> DEFINE loose == {msg, next}
              quiets == quiet \cup {next}
              free == {msg}
   <2>4. Items(two, next + 1, msg, part, yes, loose, quiets) BY <1>6
   <2>5. OfItem(two, d.item, {"itemDone"}) = {}
      <3>1. \A k \in Events(two, {"itemDone"}) : two[k].item # next BY <1>6 DEF Items, Dones
      <3> QED BY <3>1 DEF OfItem
   <2>6. /\ loose \subseteq free \cup {d.item} /\ quiet \subseteq quiets
         /\ d.item \notin quiet /\ d.t # "itemAdded"
      BY <1>2
   <2>7. Dones(two, loose, quiets) BY <2>4 DEF Items
   <2> HIDE DEF loose, quiets, free, two, yes
   <2>8. Dones(all, free, quiet) BY <1>3, <2>5, <2>6, <2>7, DonesAppend
   <2>9. Items(all, next + 1, msg, part, yes, free, quiet)
      BY <1>5, <2>1, <2>2, <2>3, <2>4, <2>8, ItemsOn
   <2> QED BY <2>9 DEF free
<1> QED BY <1>7 DEF all, two, one, yes

LEMMA DonesWeaker ==
    ASSUME NEW out, NEW loose, NEW quiet, Dones(out, loose, quiet), NEW less, less \subseteq quiet
    PROVE  Dones(out, loose, less)
BY DEF Dones

(* The message begins. *)
LEMMA ItemsMessage ==
    ASSUME NEW out, NEW next, NEW part, NEW calls, NEW quiet,
           Items(out, next, -1, part, calls, {-1}, quiet),
           NEW a, a.t = "itemAdded", a.item = next, NEW still, still \subseteq {next},
           NEW now, ~now
    PROVE  Items(Append(out, a), next + 1, next, now, calls, {next}, still)
<1> DEFINE one == Append(out, a)
<1>1. /\ Listed(out) /\ Numbered(out, next) /\ AllBegun(out) /\ Dones(out, {-1}, quiet)
      /\ Parts(out, -1, part) /\ next \in Nat
   BY DEF Items, Numbered
<1>2. Numbered(one, next + 1) BY <1>1, NumberedMore
<1>3. OnlyOf(one, ResponseEvents)
   <2>1. a.t \in ResponseEvents BY DEF ResponseEvents
   <2> QED BY <1>1, <2>1, OnlyMore DEF Items
<1>4. GaveCalls(one, calls)
   <2>1. calls <=> calls \/ a.t = "argsDone" OBVIOUS
   <2> QED BY <1>1, <2>1, GaveMore DEF Items
<1>5. Parts(one, next, now)
   <2>1. Parts(out, next, part) /\ ~part BY <1>1, PartsFrom
   <2>2. PartMay(next, part, a) /\ (now <=> PartIs(part, a))
      BY <2>1 DEF PartMay, PartIs, TextEvents
   <2> QED BY <1>1, <2>1, <2>2, PartsOn
<1>6. AllBegun(one) /\ Begun(one, next)
   <2>1. a.t \notin ItemEvents BY DEF ItemEvents, TextEvents
   <2> QED BY <1>1, <2>1, BegunOn
<1>7. Dones(one, {next}, still)
   <2> DEFINE none == {-1} \ {-1}
              quiets == quiet \cup {next}
              free == {next}
   <2>1. Dones(out, none, quiets) BY <1>1, DonesNext
   <2>2. none \subseteq free /\ a.item \in free /\ a.t # "itemDone" /\ still \subseteq quiets OBVIOUS
   <2> HIDE DEF none, quiets, free
   <2>3. Dones(one, free, still) BY <1>1, <2>1, <2>2, DonesAppend
   <2> QED BY <2>3 DEF free
<1> QED BY <1>2, <1>3, <1>4, <1>5, <1>6, <1>7 DEF Items

(* The message is done. *)
LEMMA ItemsDone ==
    ASSUME NEW out, NEW next, NEW msg, NEW part, NEW calls, NEW quiet,
           Items(out, next, msg, part, calls, {msg}, quiet), msg >= 0,
           NEW d, d.t = "itemDone", d.item = msg
    PROVE  /\ Items(Append(out, d), next, msg, part, calls, {msg}, {})
           /\ quiet = {msg} => Items(Append(out, d), next, msg, part, calls, {}, {})
<1> DEFINE none == {}
           one == {msg}
<1>1. /\ Listed(out) /\ Dones(out, {msg}, quiet) /\ Begun(out, msg) BY DEF Items, Numbered
<1>2. d.t \in ResponseEvents \ {"created", "itemAdded"} /\ d.t \notin TextEvents
      /\ d.t # "partAdded" /\ d.t # "partDone"
   BY DEF ResponseEvents, ItemEvents, TextEvents
<1>3. PartMay(msg, part, d) /\ (part <=> PartIs(part, d)) BY <1>2 DEF PartMay, PartIs
<1>4. calls <=> calls \/ d.t = "argsDone" OBVIOUS
<1>5. one \subseteq one \cup {d.item} /\ d.item \in one /\ none \subseteq quiet /\ d.item \notin none
      /\ d.t # "itemAdded" /\ one \subseteq none \cup {d.item}
   OBVIOUS
<1> HIDE DEF none
<1>6. Dones(Append(out, d), one, none) BY <1>1, <1>5, DonesAppend
<1>7. ASSUME quiet = {msg} PROVE Dones(Append(out, d), none, none)
   <2>1. OfItem(out, d.item, {"itemDone"}) = {} BY <1>1, <1>7 DEF Dones, OfItem
   <2> QED BY <1>1, <1>5, <2>1, DonesAppend
<1>8. Items(Append(out, d), next, msg, part, calls, one, none)
   BY <1>1, <1>2, <1>3, <1>4, <1>6, ItemsOn
<1>9. ASSUME quiet = {msg} PROVE Items(Append(out, d), next, msg, part, calls, none, none)
   BY <1>1, <1>2, <1>3, <1>4, <1>7, <1>9, ItemsOn
<1> QED BY <1>8, <1>9 DEF none

-----------------------------------------------------------------------------
(* Responses: the record. *)
ResponseFields ==
    {"said", "held", "calls", "out", "tools", "required", "next", "added", "part", "msg", "fun"}

ResponseOpen(r) ==
    /\ DOMAIN r = ResponseFields /\ Common(r) /\ Holds(r)
    /\ r.msg \in Nat \cup {-1} /\ r.added \in BOOLEAN /\ r.part \in BOOLEAN
    /\ r.added <=> r.msg >= 0
    /\ r.part => r.added

(* A message is fresh while no attempt has closed it. *)
Quiet(msg, fresh) == IF fresh THEN {msg} ELSE {}
ItemsOf(r, fresh) ==
    Items(r.out, r.next, r.msg, r.part, r.calls, {r.msg}, Quiet(r.msg, fresh))

(* The text of a message, with what has to come before it. *)
LEMMA AddMessageFields ==
    ASSUME NEW r, DOMAIN r = ResponseFields, r.msg = -1
    PROVE  LET s == AddMessage(MessageIndex(r))
           IN  /\ SameAnswer(r, s) /\ s.calls = r.calls /\ s.next = r.next + 1
               /\ s.added /\ s.part = r.part /\ s.msg = r.next /\ s.fun = r.fun
               /\ s.out = Append(r.out, Item("itemAdded", r.next))
BY DEF AddMessage, MessageIndex, Write, ResponseFields, SameAnswer

LEMMA AddPartFields ==
    ASSUME NEW r, DOMAIN r = ResponseFields
    PROVE  LET s == AddPart(r)
           IN  /\ SameAnswer(r, s) /\ s.calls = r.calls /\ s.next = r.next
               /\ s.added = r.added /\ s.part /\ s.msg = r.msg /\ s.fun = r.fun
               /\ s.out = Append(r.out, Item("partAdded", r.msg))
BY DEF AddPart, Write, ResponseFields, SameAnswer

LEMMA WriteTextFields ==
    ASSUME NEW r, DOMAIN r = ResponseFields, NEW p
    PROVE  LET s == WriteText(r, p)
           IN  /\ SameAnswer(r, s) /\ s.calls = r.calls /\ s.next = r.next
               /\ s.added = r.added /\ s.part = r.part /\ s.msg = r.msg /\ s.fun = r.fun
               /\ s.out = Append(r.out, ItemPiece("delta", r.msg, p))
BY DEF WriteText, Write, ResponseFields, SameAnswer

LEMMA ClosePartFields ==
    ASSUME NEW r, DOMAIN r = ResponseFields, r.part \in BOOLEAN
    PROVE  LET s == ClosePart(r)
           IN  /\ SameAnswer(r, s) /\ s.calls = r.calls /\ s.next = r.next
               /\ s.added = r.added /\ s.part \in BOOLEAN /\ ~s.part /\ s.msg = r.msg
               /\ s.fun = r.fun
               /\ s.out = IF ~r.part THEN r.out
                          ELSE Append(Append(r.out, Item("textDone", r.msg)), Item("partDone", r.msg))
BY DEF ClosePart, Write, ResponseFields, SameAnswer

LEMMA MessageDoneFields ==
    ASSUME NEW r, DOMAIN r = ResponseFields
    PROVE  LET s == MessageDone(r)
           IN  /\ SameAnswer(r, s) /\ s.calls = r.calls /\ s.next = r.next
               /\ s.added = r.added /\ s.part = r.part /\ s.msg = r.msg /\ s.fun = r.fun
               /\ s.out = Append(r.out, Item("itemDone", r.msg))
BY DEF MessageDone, Write, ResponseFields, SameAnswer

LEMMA FunctionCallFields ==
    ASSUME NEW r, DOMAIN r = ResponseFields, r.fun = -1, NEW p
    PROVE  LET s == FunctionCall(r, p)
           IN  /\ SameAnswer(r, s) /\ s.calls /\ s.next = r.next + 1
               /\ s.added = r.added /\ s.part = r.part /\ s.msg = r.msg /\ s.fun = r.next
               /\ s.out = Append(Append(Append(r.out, Item("itemAdded", r.next)),
                                        ItemPiece("argsDone", r.next, p)),
                                 Item("itemDone", r.next))
BY DEF FunctionCall, WriteCall, FunctionIndex, Write, ResponseFields, SameAnswer

ResponseBody(r, due, fresh) ==
    ResponseOpen(r) /\ ItemsOf(r, fresh) /\ Tracked(r.said, r.out, due)

ResponseLive(r, due, fresh) ==
    ResponseBody(r, due, fresh) /\ r.fun = -1 /\ CallsSeen(r.said, r.calls, due)

(* An open record of the same answer. *)
LEMMA StaysOpen ==
    ASSUME NEW r, ResponseOpen(r), NEW s, SameAnswer(r, s), Listed(s.out), s.calls \in BOOLEAN,
           s.msg \in Nat \cup {-1}, s.added \in BOOLEAN, s.part \in BOOLEAN,
           s.added <=> s.msg >= 0, s.part => s.added
    PROVE  ResponseOpen(s)
BY DEF ResponseOpen, SameAnswer, Common, Holds

LEMMA AddsMessage ==
    ASSUME NEW r, NEW due, NEW fresh \in BOOLEAN, ResponseBody(r, due, fresh)
    PROVE  LET s == MessageAdded(r)
           IN  /\ ResponseBody(s, due, fresh) /\ SameAnswer(r, s) /\ s.calls = r.calls
               /\ s.fun = r.fun /\ s.added /\ s.part = r.part
<1> DEFINE s == MessageAdded(r)
<1>0. /\ DOMAIN r = ResponseFields /\ r.msg \in Nat \cup {-1} /\ r.added \in BOOLEAN
      /\ r.part \in BOOLEAN /\ r.calls \in BOOLEAN /\ (r.added <=> r.msg >= 0) /\ (r.part => r.added)
   BY DEF ResponseBody, ResponseOpen, Common
<1>1. CASE r.added BY <1>1 DEF MessageAdded, SameAnswer
<1>2. CASE ~r.added
   <2> DEFINE a == Item("itemAdded", r.next)
   <2>1. r.msg = -1 /\ ~r.part BY <1>0, <1>2
   <2>2. s = AddMessage(MessageIndex(r)) BY <1>2 DEF MessageAdded
   <2>3. /\ SameAnswer(r, s) /\ s.calls = r.calls /\ s.next = r.next + 1
         /\ s.added /\ s.part = r.part /\ s.msg = r.next /\ s.fun = r.fun
         /\ s.out = Append(r.out, a)
      BY <1>0, <2>1, <2>2, AddMessageFields
   <2>4. a.t = "itemAdded" /\ a.item = r.next BY DEF Item
   <2> HIDE DEF s, a
   <2>5. Items(r.out, r.next, -1, r.part, r.calls, {-1}, Quiet(-1, fresh))
      BY <2>1 DEF ResponseBody, ItemsOf
   <2>6. Quiet(r.next, fresh) \subseteq {r.next} BY DEF Quiet
   <2>7. Items(Append(r.out, a), r.next + 1, r.next, r.part, r.calls, {r.next}, Quiet(r.next, fresh))
      BY <2>1, <2>4, <2>5, <2>6, ItemsMessage
   <2>8. ItemsOf(s, fresh) BY <2>3, <2>7 DEF ItemsOf
   <2>9. Tracked(s.said, s.out, due)
      <3>1. a.t \notin Carriers BY <2>4 DEF Carriers
      <3>2. Tracked(r.said, r.out, due) BY DEF ResponseBody
      <3>3. Tracked(r.said, Append(r.out, a), due) BY <3>1, <3>2, TrackEvent
      <3> QED BY <2>3, <3>3 DEF SameAnswer
   <2>10. ResponseOpen(s)
      <3>1. Listed(s.out) BY <2>9 DEF Tracked
      <3>2. r.next \in Nat BY <2>5 DEF Items, Numbered
      <3>3. s.msg \in Nat /\ s.msg >= 0 /\ s.added \in BOOLEAN
         <4>1. s.added = TRUE
            <5>1. s.added BY <2>3
            <5>2. s.added \in BOOLEAN BY <2>2 DEF AddMessage, MessageIndex, Write, ResponseFields, s
            <5> QED BY <5>1, <5>2
         <4> QED BY <2>3, <3>2, <4>1
      <3>4. s.part \in BOOLEAN /\ s.calls \in BOOLEAN /\ (s.part => s.added) BY <1>0, <2>1, <2>3
      <3>5. ResponseOpen(r) BY DEF ResponseBody
      <3> QED BY <2>3, <3>1, <3>3, <3>4, <3>5, StaysOpen
   <2>11. ResponseBody(s, due, fresh) BY <2>8, <2>9, <2>10 DEF ResponseBody
   <2> QED BY <2>3, <2>11 DEF s
<1> QED BY <1>0, <1>1, <1>2

(* An event of the part that may come: r becomes s. *)
LEMMA WritesPart ==
    ASSUME NEW r, NEW due, NEW fresh, ResponseBody(r, due, fresh),
           NEW e, e.t \in TextEvents, PartMay(r.msg, r.part, e),
           NEW s, SameAnswer(r, s), s.calls = r.calls, s.next = r.next, s.added = r.added,
           s.msg = r.msg, s.out = Append(r.out, e), s.part \in BOOLEAN, s.part <=> PartIs(r.part, e),
           NEW left, Tracked(r.said, Append(r.out, e), left)
    PROVE  ResponseBody(s, left, fresh)
<1>1. Items(r.out, r.next, r.msg, r.part, r.calls, {r.msg}, Quiet(r.msg, fresh))
   BY DEF ResponseBody, ItemsOf
<1>2. Items(Append(r.out, e), r.next, r.msg, s.part, r.calls, {r.msg}, Quiet(r.msg, fresh))
   BY <1>1, ItemsPart
<1>3. ItemsOf(s, fresh) BY <1>2 DEF ItemsOf
<1>4. Tracked(s.said, s.out, left) BY DEF SameAnswer
<1>5. ResponseOpen(s)
   <2>1. ResponseOpen(r) BY DEF ResponseBody
   <2>2. Listed(s.out) BY <1>4 DEF Tracked
   <2>3. r.msg >= 0 BY DEF PartMay
   <2>4. r.added /\ r.added \in BOOLEAN /\ r.msg \in Nat \cup {-1} /\ r.calls \in BOOLEAN
      BY <2>1, <2>3 DEF ResponseOpen, Common
   <2> QED BY <2>1, <2>2, <2>3, <2>4, StaysOpen
<1> QED BY <1>3, <1>4, <1>5 DEF ResponseBody

LEMMA AddsPart ==
    ASSUME NEW r, NEW due, NEW fresh \in BOOLEAN, ResponseBody(r, due, fresh)
    PROVE  LET s == PartAdded(r)
           IN  /\ ResponseBody(s, due, fresh) /\ SameAnswer(r, s) /\ s.calls = r.calls
               /\ s.fun = r.fun /\ s.added /\ s.part
<1> DEFINE s == PartAdded(r)
           c == MessageAdded(r)
<1>1. CASE r.part
   <2>1. s = r BY <1>1 DEF PartAdded
   <2>2. r.added BY <1>1 DEF ResponseBody, ResponseOpen
   <2> QED BY <1>1, <2>1, <2>2 DEF SameAnswer
<1>2. CASE ~r.part
   <2>1. /\ ResponseBody(c, due, fresh) /\ SameAnswer(r, c) /\ c.calls = r.calls
         /\ c.fun = r.fun /\ c.added /\ c.part = r.part
      BY AddsMessage
   <2>2. s = AddPart(c) BY <1>2 DEF PartAdded
   <2> HIDE DEF c
   <2> DEFINE e == Item("partAdded", c.msg)
   <2>3. DOMAIN c = ResponseFields /\ c.msg >= 0 BY <2>1 DEF ResponseBody, ResponseOpen
   <2>4. /\ SameAnswer(c, s) /\ s.calls = c.calls /\ s.next = c.next
         /\ s.added = c.added /\ s.part /\ s.msg = c.msg /\ s.fun = c.fun
         /\ s.out = Append(c.out, e)
      BY <2>2, <2>3, AddPartFields
   <2>5. s.part \in BOOLEAN BY <2>2, <2>3 DEF AddPart, Write, ResponseFields
   <2>6. e.t = "partAdded" /\ e.item = c.msg BY DEF Item
   <2> HIDE DEF e, s
   <2>7. e.t \in TextEvents /\ PartMay(c.msg, c.part, e) /\ (s.part <=> PartIs(c.part, e))
      BY <1>2, <2>1, <2>3, <2>4, <2>6 DEF TextEvents, PartMay, PartIs
   <2>8. Tracked(c.said, Append(c.out, e), due)
      <3>1. e.t \notin Carriers BY <2>6 DEF Carriers
      <3> QED BY <2>1, <3>1, TrackEvent DEF ResponseBody
   <2>9. ResponseBody(s, due, fresh) BY <2>1, <2>4, <2>5, <2>7, <2>8, WritesPart
   <2>10. SameAnswer(r, s) BY <2>1, <2>4 DEF SameAnswer
   <2> QED BY <2>1, <2>4, <2>9, <2>10 DEF s
<1> QED BY <1>1, <1>2 DEF ResponseBody, ResponseOpen

LEMMA WritesDelta ==
    ASSUME NEW r, NEW due, NEW fresh \in BOOLEAN, ResponseBody(r, due, fresh),
           NEW p \in due, \A q \in due : SameKind(r.said, p, q) => p <= q
    PROVE  LET s == TextDelta(r, p)
           IN  /\ ResponseBody(s, due \ {p}, fresh) /\ SameAnswer(r, s) /\ s.calls = r.calls
               /\ s.fun = r.fun
<1> DEFINE s == TextDelta(r, p)
           c == PartAdded(r)
           e == ItemPiece("delta", c.msg, p)
<1>1. /\ ResponseBody(c, due, fresh) /\ SameAnswer(r, c) /\ c.calls = r.calls
      /\ c.fun = r.fun /\ c.added /\ c.part
   BY AddsPart
<1>2. s = WriteText(c, p) BY DEF TextDelta
<1>3. e.t = "delta" /\ e.item = c.msg /\ e.piece = p BY DEF ItemPiece
<1> HIDE DEF c
<1>4. DOMAIN c = ResponseFields /\ c.msg >= 0 /\ c.part \in BOOLEAN
   BY <1>1 DEF ResponseBody, ResponseOpen
<1>5. /\ SameAnswer(c, s) /\ s.calls = c.calls /\ s.next = c.next
      /\ s.added = c.added /\ s.part = c.part /\ s.msg = c.msg /\ s.fun = c.fun
      /\ s.out = Append(c.out, e)
   BY <1>2, <1>4, WriteTextFields
<1> HIDE DEF s, e
<1>6. e.t \in TextEvents /\ PartMay(c.msg, c.part, e) /\ (s.part <=> PartIs(c.part, e))
   BY <1>1, <1>3, <1>4, <1>5 DEF TextEvents, PartMay, PartIs
<1>7. Tracked(c.said, Append(c.out, e), due \ {p})
   <2>1. e.t \in Carriers BY <1>3 DEF Carriers
   <2>2. \A q \in due : SameKind(c.said, p, q) => p <= q BY <1>1 DEF SameAnswer
   <2>3. Tracked(c.said, c.out, due) BY <1>1 DEF ResponseBody
   <2> QED BY <1>3, <2>1, <2>2, <2>3, TrackPiece
<1>8. s.part \in BOOLEAN BY <1>4, <1>5
<1>9. ResponseBody(s, due \ {p}, fresh) BY <1>1, <1>5, <1>6, <1>7, <1>8, WritesPart
<1>10. SameAnswer(r, s) BY <1>1, <1>5 DEF SameAnswer
<1> QED BY <1>1, <1>5, <1>9, <1>10 DEF s

LEMMA WritesCall ==
    ASSUME NEW r, NEW due, NEW fresh \in BOOLEAN, ResponseBody(r, due, fresh), r.fun = -1,
           NEW p, First(r.said, due, p)
    PROVE  LET s == FunctionCall(r, p)
           IN  /\ ResponseBody(s, due \ {p}, fresh) /\ SameAnswer(r, s) /\ s.calls
               /\ s.fun \in Nat /\ s.added = r.added /\ s.part = r.part /\ s.msg = r.msg
<1> DEFINE s == FunctionCall(r, p)
           a == Item("itemAdded", r.next)
           b == ItemPiece("argsDone", r.next, p)
           d == Item("itemDone", r.next)
           quiet == Quiet(r.msg, fresh)
<1>0. /\ DOMAIN r = ResponseFields /\ r.msg \in Nat \cup {-1} /\ r.added \in BOOLEAN
      /\ r.part \in BOOLEAN /\ (r.added <=> r.msg >= 0) /\ (r.part => r.added)
      /\ Tracked(r.said, r.out, due) /\ ResponseOpen(r)
   BY DEF ResponseBody, ResponseOpen, Common
<1>1. /\ SameAnswer(r, s) /\ s.calls /\ s.next = r.next + 1
      /\ s.added = r.added /\ s.part = r.part /\ s.msg = r.msg /\ s.fun = r.next
      /\ s.out = Append(Append(Append(r.out, a), b), d)
   BY <1>0, FunctionCallFields
<1>2. a.t = "itemAdded" /\ a.item = r.next /\ b.t = "argsDone" /\ b.item = r.next /\ b.piece = p
      /\ d.t = "itemDone" /\ d.item = r.next
   BY DEF Item, ItemPiece
<1>3. Items(r.out, r.next, r.msg, r.part, r.calls, {r.msg}, quiet)
      /\ quiet \subseteq {r.msg}
   BY DEF ResponseBody, ItemsOf, Quiet
<1> HIDE DEF s, a, b, d, quiet
<1>4. Items(s.out, s.next, s.msg, s.part, TRUE, {s.msg}, quiet)
   <2>1. Items(Append(Append(Append(r.out, a), b), d), r.next + 1, r.msg, r.part, TRUE, {r.msg}, quiet)
      BY <1>0, <1>2, <1>3, ItemsCall
   <2> QED BY <1>1, <2>1
<1>5. ItemsOf(s, fresh)
   <2>1. Quiet(s.msg, fresh) = quiet BY <1>1 DEF quiet
   <2>2. GaveCalls(s.out, s.calls) BY <1>1, <1>4 DEF Items, GaveCalls
   <2>3. Items(s.out, s.next, s.msg, s.part, s.calls, {s.msg}, quiet) BY <1>4, <2>2 DEF Items
   <2> QED BY <2>1, <2>3 DEF ItemsOf
<1>6. Tracked(r.said, s.out, due \ {p})
   <2>1. a.t \notin Carriers /\ d.t \notin Carriers /\ b.t \in Carriers BY <1>2 DEF Carriers
   <2> DEFINE one == Append(r.out, a)
              two == Append(one, b)
   <2>2. Tracked(r.said, one, due) BY <1>0, <2>1, TrackEvent
   <2> HIDE DEF one
   <2>3. Tracked(r.said, two, due \ {p})
      <3>1. CASE p = 0
         <4>1. Tracked(r.said, two, due) BY <1>2, <2>2, <3>1, TrackEvent
         <4>2. due \subseteq DOMAIN r.said /\ r.said \in Seq(PieceKinds) BY <2>2 DEF Tracked
         <4>3. 0 \notin due BY <4>2
         <4>4. due \ {p} = due BY <3>1, <4>3
         <4> QED BY <4>1, <4>4
      <3>2. CASE p # 0
         <4>1. p \in due /\ \A q \in due : SameKind(r.said, p, q) => p <= q BY <3>2 DEF First
         <4> QED BY <1>2, <2>1, <2>2, <4>1, TrackPiece
      <3> QED BY <3>1, <3>2
   <2> HIDE DEF two
   <2>4. Tracked(r.said, Append(two, d), due \ {p}) BY <2>1, <2>3, TrackEvent
   <2> QED BY <1>1, <2>4 DEF one, two
<1>7. ResponseOpen(s)
   <2>1. Listed(s.out) BY <1>6 DEF Tracked
   <2>2. s.calls \in BOOLEAN
      <3>1. s.calls = TRUE BY <1>0 DEF s, FunctionCall, WriteCall, FunctionIndex, Write, ResponseFields
      <3> QED BY <3>1
   <2> QED BY <1>0, <1>1, <2>1, <2>2, StaysOpen
<1>8. ResponseBody(s, due \ {p}, fresh)
   <2>1. s.said = r.said BY <1>1 DEF SameAnswer
   <2> QED BY <1>5, <1>6, <1>7, <2>1 DEF ResponseBody
<1>9. s.fun \in Nat BY <1>1, <1>3 DEF Items, Numbered
<1> QED BY <1>1, <1>8, <1>9 DEF s

LEMMA ClosesPart ==
    ASSUME NEW r, NEW due, NEW fresh, ResponseBody(r, due, fresh)
    PROVE  LET s == ClosePart(r)
           IN  /\ ResponseBody(s, due, fresh) /\ SameAnswer(r, s) /\ s.calls = r.calls
               /\ s.fun = r.fun /\ s.added = r.added /\ s.msg = r.msg /\ ~s.part
<1> DEFINE s == ClosePart(r)
           e == Item("textDone", r.msg)
           d == Item("partDone", r.msg)
           c == Write(r, e)
<1>0. DOMAIN r = ResponseFields /\ r.part \in BOOLEAN /\ (r.part => r.msg >= 0)
      /\ Tracked(r.said, r.out, due)
   BY DEF ResponseBody, ResponseOpen
<1>1. /\ SameAnswer(r, s) /\ s.calls = r.calls /\ s.next = r.next
      /\ s.added = r.added /\ s.part \in BOOLEAN /\ ~s.part /\ s.msg = r.msg /\ s.fun = r.fun
      /\ s.out = IF ~r.part THEN r.out ELSE Append(Append(r.out, e), d)
   BY <1>0, ClosePartFields
<1>2. e.t = "textDone" /\ e.item = r.msg /\ d.t = "partDone" /\ d.item = r.msg BY DEF Item
<1>3. /\ SameAnswer(r, c) /\ c.calls = r.calls /\ c.next = r.next /\ c.added = r.added
      /\ c.part = r.part /\ c.msg = r.msg /\ c.out = Append(r.out, e)
   BY <1>0 DEF Write, ResponseFields, SameAnswer
<1>4. CASE r.part
   <2> HIDE DEF s, c, d, e
   <2>1. e.t \notin Carriers /\ d.t \notin Carriers BY <1>2 DEF Carriers
   <2>2. e.t \in TextEvents /\ d.t \in TextEvents BY <1>2 DEF TextEvents
   <2>3. PartMay(r.msg, r.part, e) /\ (c.part <=> PartIs(r.part, e)) /\ c.part \in BOOLEAN
      BY <1>0, <1>2, <1>3, <1>4 DEF PartMay, PartIs
   <2>4. Tracked(r.said, Append(r.out, e), due) BY <1>0, <2>1, TrackEvent
   <2>5. ResponseBody(c, due, fresh) BY <1>3, <2>2, <2>3, <2>4, WritesPart
   <2>6. PartMay(c.msg, c.part, d) /\ (s.part <=> PartIs(c.part, d))
      BY <1>0, <1>1, <1>2, <1>3, <1>4 DEF PartMay, PartIs
   <2>7. Tracked(c.said, Append(c.out, d), due) BY <2>1, <2>5, TrackEvent DEF ResponseBody
   <2>8. /\ SameAnswer(c, s) /\ s.calls = c.calls /\ s.next = c.next /\ s.added = c.added
         /\ s.msg = c.msg /\ s.out = Append(c.out, d)
      BY <1>1, <1>3, <1>4 DEF SameAnswer
   <2>9. ResponseBody(s, due, fresh) BY <1>1, <2>2, <2>5, <2>6, <2>7, <2>8, WritesPart
   <2> QED BY <1>1, <2>9 DEF s
<1>5. CASE ~r.part
   <2>1. s = r BY <1>5 DEF ClosePart
   <2> QED BY <1>5, <2>1 DEF SameAnswer
<1> QED BY <1>0, <1>4, <1>5

(* Items that are done, done again. *)
LEMMA FreshItems ==
    ASSUME NEW out, NEW next, NEW msg, NEW part, NEW calls,
           Items(out, next, msg, part, calls, {msg}, {msg})
    PROVE  ~Reopened(out)
<1> SUFFICES ASSUME NEW i \in Events(out, {"delta", "itemDone"}), NEW j \in Events(out, {"delta", "itemDone"}),
                    i < j, out[i].t = "itemDone", out[i].item = out[j].item
             PROVE  FALSE
   BY DEF Reopened
<1> DEFINE n == out[i].item
<1>1. i \in Events(out, {"itemDone"}) BY DEF Events
<1>2. n # msg BY <1>1 DEF Items, Dones
<1>3. CASE j \in Events(out, {"delta"})
   <2>1. j \in Events(out, TextEvents) BY <1>3 DEF Events, TextEvents
   <2>2. out[j].item = msg BY <2>1 DEF Items, Parts
   <2> QED BY <1>2, <2>2
<1>4. CASE j \in Events(out, {"itemDone"})
   <2>1. i \in OfItem(out, n, {"itemDone"}) /\ j \in OfItem(out, n, {"itemDone"})
      BY <1>1, <1>4 DEF OfItem
   <2>2. i \in Events(out, ItemEvents) BY <1>1 DEF Events, ItemEvents
   <2>3. PICK k \in OfItem(out, n, {"itemAdded"}) : TRUE BY <2>2 DEF Items, AllBegun
   <2>4. k \in Events(out, {"itemAdded"}) /\ out[k].item = n BY <2>3 DEF OfItem
   <2>5. DoneOnce(out, n) BY <1>2, <2>4 DEF Items, Dones
   <2>6. i = j BY <2>1, <2>5 DEF DoneOnce
   <2>7. i \in DOMAIN out /\ DOMAIN out = 1 .. Len(out)
      BY <1>1, AppendListed DEF Events, Items, Numbered
   <2> QED BY <2>6, <2>7
<1> QED BY <1>3, <1>4 DEF Events

LEMMA DoneLast ==
    ASSUME NEW out, Listed(out), ~Reopened(out), NEW d, d.t = "itemDone",
           \A k \in Events(out, {"itemDone"}) : out[k].item # d.item
    PROVE  ~Reopened(Append(out, d))
<1> DEFINE all == Append(out, d)
           m == Len(out) + 1
<1>1. /\ Len(out) \in Nat /\ DOMAIN out = 1 .. Len(out) /\ DOMAIN all = 1 .. m
      /\ all[m] = d /\ \A j \in 1 .. Len(out) : all[j] = out[j]
   BY Appended
<1> HIDE DEF all
<1> SUFFICES ASSUME NEW i \in Events(all, {"delta", "itemDone"}), NEW j \in Events(all, {"delta", "itemDone"}),
                    i < j, all[i].t = "itemDone", all[i].item = all[j].item
             PROVE  FALSE
   BY DEF Reopened, all
<1>2. i \in DOMAIN out /\ j \in 1 .. m /\ all[i] = out[i]
   BY <1>1 DEF Events
<1>3. i \in Events(out, {"delta", "itemDone"}) /\ i \in Events(out, {"itemDone"})
   BY <1>2 DEF Events
<1>4. CASE j \in DOMAIN out
   <2>1. j \in Events(out, {"delta", "itemDone"}) /\ all[j] = out[j] BY <1>1, <1>4 DEF Events
   <2> QED BY <1>2, <1>3, <2>1 DEF Reopened
<1>5. CASE j = m BY <1>1, <1>2, <1>3, <1>5
<1> QED BY <1>1, <1>2, <1>4, <1>5

LEMMA DoneAgain ==
    ASSUME NEW out, Listed(out), NEW d, d.t = "itemDone",
           NEW k \in Events(out, {"itemDone"}), out[k].item = d.item
    PROVE  Reopened(Append(out, d))
<1> DEFINE all == Append(out, d)
           m == Len(out) + 1
<1>1. /\ Len(out) \in Nat /\ DOMAIN out = 1 .. Len(out) /\ DOMAIN all = 1 .. m
      /\ all[m] = d /\ \A j \in 1 .. Len(out) : all[j] = out[j]
   BY Appended
<1> HIDE DEF all
<1>2. /\ k \in Events(all, {"delta", "itemDone"}) /\ m \in Events(all, {"delta", "itemDone"})
      /\ k < m /\ all[k].t = "itemDone" /\ all[k].item = all[m].item
   BY <1>1 DEF Events
<1> QED BY <1>2 DEF Reopened, all

(* The message is closed; one that was closed before is closed again. *)
LEMMA ClosesMessage ==
    ASSUME NEW r, NEW due, NEW fresh \in BOOLEAN, ResponseBody(r, due, fresh)
    PROVE  LET s == CloseMessage(r)
           IN  /\ ResponseBody(s, due, FALSE) /\ SameAnswer(r, s) /\ s.calls = r.calls
               /\ s.fun = r.fun /\ s.added = r.added /\ s.msg = r.msg /\ ~s.part
               /\ fresh => ~Reopened(s.out)
               /\ Dones(s.out, {}, {}) \/ Reopened(s.out)
<1> DEFINE s == CloseMessage(r)
           c == ClosePart(r)
           no == FALSE
           none == {}
<1>1. ResponseBody(r, due, no)
   <2>1. Quiet(r.msg, no) \subseteq Quiet(r.msg, fresh) BY DEF Quiet
   <2>2. Dones(r.out, {r.msg}, Quiet(r.msg, fresh)) BY DEF ResponseBody, ItemsOf, Items
   <2>3. Dones(r.out, {r.msg}, Quiet(r.msg, no)) BY <2>1, <2>2, DonesWeaker
   <2> QED BY <2>3 DEF ResponseBody, ItemsOf, Items
<1>2. CASE ~r.added
   <2>1. s = r BY <1>2 DEF CloseMessage
   <2>2. r.msg = -1 /\ ~r.part BY <1>2 DEF ResponseBody, ResponseOpen
   <2>3. Items(r.out, r.next, -1, r.part, r.calls, {-1}, Quiet(-1, fresh))
      BY <2>2 DEF ResponseBody, ItemsOf
   <2>4. Dones(r.out, {-1} \ {-1}, Quiet(-1, fresh) \cup {r.next}) BY <2>3, DonesNext DEF Items
   <2>5. {-1} \ {-1} = none /\ none \subseteq Quiet(-1, fresh) \cup {r.next} BY DEF none
   <2> HIDE DEF none
   <2>6. Dones(r.out, none, none) BY <2>4, <2>5, DonesWeaker
   <2>7. fresh => ~Reopened(r.out)
      <3> SUFFICES ASSUME fresh PROVE ~Reopened(r.out) OBVIOUS
      <3>1. Quiet(-1, fresh) = {-1} BY DEF Quiet
      <3> QED BY <2>3, <3>1, FreshItems
   <2> QED BY <1>1, <2>1, <2>2, <2>6, <2>7 DEF none, no, SameAnswer
<1>3. CASE r.added
   <2> DEFINE d == Item("itemDone", c.msg)
   <2>1. s = MessageDone(c) BY <1>3 DEF CloseMessage
   <2>2. /\ ResponseBody(c, due, fresh) /\ ResponseBody(c, due, no) /\ SameAnswer(r, c)
         /\ c.calls = r.calls /\ c.fun = r.fun /\ c.added = r.added /\ c.msg = r.msg /\ ~c.part
      BY <1>1, ClosesPart
   <2> HIDE DEF c
   <2>3. DOMAIN c = ResponseFields /\ c.msg >= 0 /\ Tracked(c.said, c.out, due) /\ Listed(c.out)
         /\ ResponseOpen(c)
      BY <1>3, <2>2 DEF ResponseBody, ResponseOpen, Tracked
   <2>4. /\ SameAnswer(c, s) /\ s.calls = c.calls /\ s.next = c.next
         /\ s.added = c.added /\ s.part = c.part /\ s.msg = c.msg /\ s.fun = c.fun
         /\ s.out = Append(c.out, d)
      BY <2>1, <2>3, MessageDoneFields
   <2>5. d.t = "itemDone" /\ d.item = c.msg BY DEF Item
   <2> HIDE DEF s, d, none
   <2>6. \A b \in BOOLEAN : ResponseBody(c, due, b)
           => Items(c.out, c.next, c.msg, c.part, c.calls, {c.msg}, Quiet(c.msg, b))
      BY DEF ResponseBody, ItemsOf
   <2>7. Items(s.out, c.next, c.msg, c.part, c.calls, {c.msg}, {})
      <3>1. Items(c.out, c.next, c.msg, c.part, c.calls, {c.msg}, Quiet(c.msg, no)) BY <2>2, <2>6
      <3> QED BY <2>3, <2>4, <2>5, <3>1, ItemsDone
   <2>8. ResponseBody(s, due, no)
      <3>1. Quiet(c.msg, no) = {} BY DEF Quiet
      <3>2. ItemsOf(s, no) BY <2>4, <2>7, <3>1 DEF ItemsOf
      <3>3. Tracked(s.said, s.out, due)
         <4>1. d.t \notin Carriers BY <2>5 DEF Carriers
         <4>2. Tracked(c.said, Append(c.out, d), due) BY <2>3, <4>1, TrackEvent
         <4> QED BY <2>4, <4>2 DEF SameAnswer
      <3>4. ResponseOpen(s)
         <4>1. Listed(s.out) BY <3>3 DEF Tracked
         <4>2. c.calls \in BOOLEAN /\ c.msg \in Nat \cup {-1} /\ c.added \in BOOLEAN
               /\ c.part \in BOOLEAN /\ (c.added <=> c.msg >= 0) /\ (c.part => c.added)
            BY <2>3 DEF ResponseOpen, Common
         <4> QED BY <2>3, <2>4, <4>1, <4>2, StaysOpen
      <3> QED BY <3>2, <3>3, <3>4 DEF ResponseBody
   <2>9. ASSUME Dones(c.out, {c.msg}, {c.msg})
         PROVE  ~Reopened(s.out) /\ Dones(s.out, {}, {})
      <3>1. Items(c.out, c.next, c.msg, c.part, c.calls, {c.msg}, {c.msg})
         BY <2>2, <2>6, <2>9 DEF Items
      <3>2. ~Reopened(c.out) BY <3>1, FreshItems
      <3>3. \A k \in Events(c.out, {"itemDone"}) : c.out[k].item # d.item BY <2>5, <2>9 DEF Dones
      <3>4. ~Reopened(s.out) BY <2>3, <2>4, <2>5, <3>2, <3>3, DoneLast
      <3>5. Items(s.out, c.next, c.msg, c.part, c.calls, {}, {})
         <4> DEFINE quiet == {c.msg}
         <4>1. Items(c.out, c.next, c.msg, c.part, c.calls, {c.msg}, quiet) /\ quiet = {c.msg}
            BY <3>1
         <4> HIDE DEF quiet
         <4>2. Items(Append(c.out, d), c.next, c.msg, c.part, c.calls, {}, {})
            BY <2>3, <2>5, <4>1, ItemsDone
         <4> QED BY <2>4, <4>2
      <3> QED BY <3>4, <3>5 DEF Items
   <2>10. ASSUME ~Dones(c.out, {c.msg}, {c.msg}) PROVE Reopened(s.out)
      <3>1. Dones(c.out, {c.msg}, Quiet(c.msg, no)) BY <2>2, <2>6 DEF Items
      <3>2. PICK k \in Events(c.out, {"itemDone"}) : c.out[k].item = c.msg
         BY <2>10, <3>1 DEF Dones
      <3> QED BY <2>3, <2>4, <2>5, <3>2, DoneAgain
   <2>11. fresh => Dones(c.out, {c.msg}, {c.msg})
      <3> SUFFICES ASSUME fresh PROVE Dones(c.out, {c.msg}, {c.msg}) OBVIOUS
      <3>1. Quiet(c.msg, fresh) = {c.msg} BY DEF Quiet
      <3> QED BY <2>2, <2>6, <3>1 DEF Items
   <2>12. SameAnswer(r, s) BY <2>2, <2>4 DEF SameAnswer
   <2> QED BY <2>2, <2>4, <2>8, <2>9, <2>10, <2>11, <2>12 DEF s, no
<1> QED BY <1>2, <1>3 DEF ResponseBody, ResponseOpen

(* A record that differs in nothing the items and the pieces depend on. *)
LEMMA SameBody ==
    ASSUME NEW r, NEW due, NEW fresh, ResponseBody(r, due, fresh),
           NEW s, DOMAIN s = ResponseFields, Common(s), Holds(s),
           s.out = r.out, s.calls = r.calls, s.next = r.next,
           s.added = r.added, s.part = r.part, s.msg = r.msg,
           NEW left, Tracked(s.said, r.out, left)
    PROVE  ResponseBody(s, left, fresh)
<1>1. ItemsOf(s, fresh) BY DEF ResponseBody, ItemsOf
<1>2. ResponseOpen(s) BY DEF ResponseBody, ResponseOpen
<1> QED BY <1>1, <1>2 DEF ResponseBody

LEMMA ResponseGives ==
    ASSUME NEW r, NEW due, NEW fresh, ResponseLive(r, due, fresh), NEW kind \in PieceKinds,
           kind \in Kept => r.held = 0
    PROVE  ResponseLive(Given(r, kind), due \cup {Len(r.said) + 1}, fresh)
<1> DEFINE s == Given(r, kind)
           more == due \cup {Len(r.said) + 1}
<1>0. /\ DOMAIN r = ResponseFields /\ Common(r) /\ Holds(r) /\ CallsSeen(r.said, r.calls, due)
      /\ ResponseBody(r, due, fresh) /\ r.said \in Seq(PieceKinds) /\ Tracked(r.said, r.out, due)
   BY DEF ResponseLive, ResponseBody, ResponseOpen, Common
<1>1. {"said", "held"} \subseteq DOMAIN r BY <1>0 DEF ResponseFields
<1>2. /\ DOMAIN s = ResponseFields /\ s.said = Append(r.said, kind)
      /\ s.held = (IF kind \in Kept THEN Len(r.said) + 1 ELSE r.held)
   BY <1>0, <1>1, GivenFields
<1>3. /\ s.out = r.out /\ s.calls = r.calls /\ s.tools = r.tools /\ s.required = r.required
      /\ s.next = r.next /\ s.added = r.added /\ s.part = r.part /\ s.msg = r.msg
      /\ s.fun = r.fun
   <2>1. \A f \in ResponseFields \ {"said", "held"} : s[f] = r[f] BY <1>0, <1>1, GivenFields
   <2>2. {"out", "calls", "tools", "required", "next", "added", "part", "msg", "fun"}
            \subseteq ResponseFields \ {"said", "held"}
      BY DEF ResponseFields
   <2> QED BY <2>1, <2>2
<1> HIDE DEF s
<1>4. Tracked(s.said, r.out, more)
   <2>1. Tracked(Append(r.said, kind), r.out, more) BY <1>0, TrackGiven
   <2> QED BY <1>2, <2>1
<1>5. CallsSeen(s.said, s.calls, more) BY <1>0, <1>2, <1>3, CallsGiven
<1>6. Common(s) BY <1>0, <1>2, <1>3 DEF Common
<1>7. Holds(s) BY <1>0, <1>2 DEF Holds
<1> HIDE DEF more
<1>8. ResponseBody(s, more, fresh) BY <1>0, <1>2, <1>3, <1>4, <1>6, <1>7, SameBody
<1> QED BY <1>3, <1>5, <1>8 DEF ResponseLive, s, more

LEMMA ResponseReleases ==
    ASSUME NEW r, NEW due, NEW fresh, ResponseLive(r, due, fresh)
    PROVE  LET s == Released(r)
           IN  ResponseLive(s, due, fresh) /\ s.said = r.said /\ s.held = 0 /\ s.tools = r.tools
<1> DEFINE s == Released(r)
<1>0. /\ DOMAIN r = ResponseFields /\ "held" \in DOMAIN r /\ Common(r)
      /\ ResponseBody(r, due, fresh) /\ Tracked(r.said, r.out, due)
   BY DEF ResponseLive, ResponseBody, ResponseOpen, ResponseFields
<1>1. /\ DOMAIN s = ResponseFields /\ s.held = 0 /\ s.said = r.said
      /\ s.out = r.out /\ s.calls = r.calls /\ s.tools = r.tools /\ s.required = r.required
      /\ s.next = r.next /\ s.added = r.added /\ s.part = r.part /\ s.msg = r.msg
      /\ s.fun = r.fun
   BY <1>0, ReleasedFields DEF ResponseFields
<1> HIDE DEF s
<1>2. Common(s) /\ Holds(s) /\ Tracked(s.said, r.out, due) BY <1>0, <1>1 DEF Common, Holds
<1>3. ResponseBody(s, due, fresh) BY <1>0, <1>1, <1>2, SameBody
<1> QED BY <1>1, <1>3 DEF ResponseLive, s

LEMMA ResponseWrites ==
    ASSUME NEW r, NEW due, NEW fresh \in BOOLEAN, ResponseLive(r, due, fresh), NEW p \in due,
           \A q \in due : SameKind(r.said, p, q) => p <= q
    PROVE  LET s == ResponseEvent(r, p)
           IN  ResponseLive(s, due \ {p}, fresh) /\ SameAnswer(r, s)
<1> DEFINE s == ResponseEvent(r, p)
           c == FunctionCall(r, p)
<1>1. ResponseBody(r, due, fresh) /\ r.fun = -1 /\ CallsSeen(r.said, r.calls, due)
   BY DEF ResponseLive
<1>2. p \in DOMAIN r.said /\ p # 0 BY <1>1 DEF ResponseBody, Tracked
<1>3. First(r.said, due, p) BY DEF First
<1>4. CASE r.said[p] \in Calls
   <2>1. IsTool(r.said, p) BY <1>4 DEF IsTool
   <2>2. s = [c EXCEPT !.fun = -1] BY <1>4 DEF ResponseEvent
   <2>3. /\ ResponseBody(c, due \ {p}, fresh) /\ SameAnswer(r, c) /\ c.calls
      BY <1>1, <1>3, WritesCall
   <2> HIDE DEF c
   <2>4. DOMAIN c = ResponseFields /\ Common(c) /\ Holds(c) /\ Tracked(c.said, c.out, due \ {p})
         /\ c.calls \in BOOLEAN
      BY <2>3 DEF ResponseBody, ResponseOpen, Common
   <2>5. /\ DOMAIN s = ResponseFields /\ s.fun = -1 /\ s.said = c.said /\ s.held = c.held
         /\ s.out = c.out /\ s.calls = c.calls /\ s.tools = c.tools /\ s.required = c.required
         /\ s.next = c.next /\ s.added = c.added /\ s.part = c.part /\ s.msg = c.msg
      BY <2>2, <2>4 DEF ResponseFields
   <2> HIDE DEF s
   <2>6. Common(s) /\ Holds(s) BY <2>4, <2>5 DEF Common, Holds
   <2>7. Tracked(s.said, c.out, due \ {p}) BY <2>4, <2>5
   <2>8. ResponseBody(s, due \ {p}, fresh) BY <2>3, <2>5, <2>6, <2>7, SameBody
   <2>9. SameAnswer(r, s) BY <2>3, <2>4, <2>5 DEF SameAnswer
   <2>10. s.said = r.said /\ s.calls /\ s.calls \in BOOLEAN BY <2>3, <2>4, <2>5 DEF SameAnswer
   <2>11. CallsSeen(r.said, s.calls, due \ {p})
      BY <1>1, <1>2, <1>4, <2>1, <2>10, CallsWritten
   <2> QED BY <2>5, <2>8, <2>9, <2>10, <2>11 DEF ResponseLive, s
<1>5. CASE r.said[p] \notin Calls
   <2>1. ~IsTool(r.said, p) BY <1>2, <1>5 DEF IsTool
   <2>2. s = TextDelta(r, p) BY <1>5 DEF ResponseEvent
   <2>3. /\ ResponseBody(s, due \ {p}, fresh) /\ SameAnswer(r, s) /\ s.calls = r.calls
         /\ s.fun = r.fun
      BY <1>1, <2>2, WritesDelta
   <2> HIDE DEF s
   <2>4. CallsSeen(r.said, s.calls, due \ {p}) BY <1>1, <2>1, <2>3, CallsWritten
   <2>5. s.said = r.said BY <2>3 DEF SameAnswer
   <2> QED BY <1>1, <2>3, <2>4, <2>5 DEF ResponseLive, s
<1> QED BY <1>4, <1>5

LEMMA ResponseFlushes ==
    ASSUME NEW r, NEW fresh \in BOOLEAN, ResponseLive(r, Due(r), fresh)
    PROVE  LET s == ResponseFlushed(r)
           IN  ResponseLive(s, {}, fresh) /\ s.said = r.said /\ s.held = 0 /\ s.tools = r.tools
<1>1. CASE r.held = 0
   <2>1. ResponseFlushed(r) = r BY <1>1 DEF ResponseFlushed
   <2>2. Due(r) = {} BY <1>1 DEF Due
   <2> QED BY <1>1, <2>1, <2>2
<1>2. CASE r.held # 0
   <2> DEFINE p == r.held
              q == Released(r)
              s == ResponseFlushed(r)
   <2>1. ResponseLive(q, {p}, fresh) /\ q.said = r.said /\ q.held = 0 /\ q.tools = r.tools
      BY <1>2, ResponseReleases DEF Due
   <2>2. s = ResponseEvent(q, p) BY <1>2 DEF ResponseFlushed
   <2>3. \A i \in {p} : SameKind(q.said, p, i) => p <= i
      <3>1. p \in Int BY DEF ResponseLive, ResponseBody, ResponseOpen, Holds
      <3> QED BY <3>1
   <2> HIDE DEF p, q, s
   <2>4. ResponseLive(s, {p} \ {p}, fresh) /\ SameAnswer(q, s) BY <2>1, <2>2, <2>3, ResponseWrites
   <2>5. {p} \ {p} = {} OBVIOUS
   <2> QED BY <2>1, <2>4, <2>5 DEF SameAnswer, s
<1> QED BY <1>1, <1>2

LEMMA ResponseParses ==
    ASSUME NEW r, NEW fresh \in BOOLEAN, ResponseLive(r, Due(r), fresh),
           NEW kind \in PieceKinds, MayCome(r, kind)
    PROVE  ResponseLive(ResponseOnParsed(r, kind), Due(ResponseOnParsed(r, kind)), fresh)
<1> DEFINE i == Len(r.said) + 1
           s == ResponseOnParsed(r, kind)
<1>0. /\ r.said \in Seq(PieceKinds) /\ Holds(r) /\ "held" \in DOMAIN r /\ "said" \in DOMAIN r
      /\ i \in Nat \ {0}
   BY DEF ResponseLive, ResponseBody, ResponseOpen, Common, ResponseFields
<1>1. CASE kind \in Kept
   <2>1. r.held = 0 BY <1>1 DEF MayCome
   <2>2. s = Given(r, kind) BY <1>1 DEF ResponseOnParsed, Kept, Reasoning
   <2>3. s.held = i BY <1>0, <1>1, <2>2, GivenFields
   <2>4. ResponseLive(s, Due(r) \cup {i}, fresh) BY <2>1, <2>2, ResponseGives
   <2>5. Due(r) \cup {i} = Due(s) BY <1>0, <2>1, <2>3 DEF Due
   <2> QED BY <2>4, <2>5
<1>2. CASE kind \in Reasoning
   <2> DEFINE g == Given(r, kind)
              e == [t |-> "reasoning", piece |-> i]
              due == Due(r) \cup {i}
   <2>1. kind \notin Kept BY <1>2 DEF Kept, Reasoning
   <2>2. s = Write(g, e) BY <1>2, <2>1 DEF ResponseOnParsed
   <2>3. ResponseLive(g, due, fresh) BY <2>1, ResponseGives
   <2>4. g.said = Append(r.said, kind) /\ g.held = r.held BY <1>0, <2>1, GivenFields
   <2>5. g.said[i] = kind /\ \A q \in Due(r) : g.said[q] \in Kept /\ q # i
      BY <1>0, <2>4 DEF Due, Holds
   <2>6. \A q \in due : SameKind(g.said, i, q) => i <= q
      BY <1>0, <1>2, <2>5 DEF SameKind, Kept, Reasoning
   <2>7. g.said[i] \in Reasoning /\ i # 0 /\ i \in due BY <1>0, <1>2, <2>5
   <2>8. e.t = "reasoning" /\ e.piece = i OBVIOUS
   <2>9. (Due(r) \cup {i}) \ {i} = Due(r) BY <2>5
   <2> HIDE DEF g, i, e
   <2>10. ResponseBody(g, due, fresh) /\ g.fun = -1 /\ CallsSeen(g.said, g.calls, due)
      BY <2>3 DEF ResponseLive
   <2>11. DOMAIN g = ResponseFields /\ Common(g) /\ Holds(g) /\ ResponseOpen(g)
          /\ Tracked(g.said, g.out, due) /\ ItemsOf(g, fresh)
      BY <2>10 DEF ResponseBody, ResponseOpen
   <2>12. /\ DOMAIN s = ResponseFields /\ s.fun = g.fun /\ SameAnswer(g, s)
          /\ s.out = Append(g.out, e) /\ s.calls = g.calls /\ s.next = g.next
          /\ s.added = g.added /\ s.part = g.part /\ s.msg = g.msg
      BY <2>2, <2>11 DEF Write, ResponseFields, SameAnswer
   <2> HIDE DEF s, due
   <2>13. Tracked(g.said, Append(g.out, e), due \ {i})
      <3>1. e.t \in Carriers BY <2>8 DEF Carriers
      <3> QED BY <2>6, <2>7, <2>8, <2>11, <3>1, TrackPiece
   <2>14. ItemsOf(s, fresh)
      <3>1. Items(g.out, g.next, g.msg, g.part, g.calls, {g.msg}, Quiet(g.msg, fresh))
         BY <2>11 DEF ItemsOf
      <3>2. e.t \in TextEvents \cup {"reasoning"} /\ PartMay(g.msg, g.part, e)
            /\ (g.part <=> PartIs(g.part, e))
         BY <2>8 DEF TextEvents, PartMay, PartIs
      <3>3. Items(Append(g.out, e), g.next, g.msg, g.part, g.calls, {g.msg}, Quiet(g.msg, fresh))
         BY <3>1, <3>2, ItemsPart
      <3> QED BY <2>12, <3>3 DEF ItemsOf
   <2>15. Listed(s.out) /\ Tracked(s.said, s.out, due \ {i})
      BY <2>12, <2>13 DEF Tracked, SameAnswer
   <2>16. ResponseOpen(s)
      <3>1. /\ g.calls \in BOOLEAN /\ g.msg \in Nat \cup {-1} /\ g.added \in BOOLEAN
            /\ g.part \in BOOLEAN /\ (g.added <=> g.msg >= 0) /\ (g.part => g.added)
         BY <2>11 DEF ResponseOpen, Common
      <3> QED BY <2>11, <2>12, <2>15, <3>1, StaysOpen
   <2>17. CallsSeen(s.said, s.calls, due \ {i})
      <3>1. ~IsTool(g.said, i) BY <2>7 DEF IsTool, Calls, Reasoning
      <3>2. CallsSeen(g.said, s.calls, due \ {i}) BY <2>10, <2>12, <3>1, CallsWritten
      <3> QED BY <2>12, <3>2 DEF SameAnswer
   <2>18. due \ {i} = Due(s)
      <3>1. s.held = r.held BY <2>4, <2>12 DEF SameAnswer
      <3> QED BY <2>9, <3>1 DEF Due, due
   <2>19. ResponseLive(s, Due(s), fresh)
      BY <2>10, <2>12, <2>14, <2>15, <2>16, <2>17, <2>18 DEF ResponseLive, ResponseBody
   <2> QED BY <2>19 DEF s
<1>3. CASE kind \notin Kept \cup Reasoning
   <2> DEFINE f == ResponseFlushed(r)
              g == Given(f, kind)
   <2>1. s = ResponseEvent(g, i) BY <1>3 DEF ResponseOnParsed
   <2>2. ResponseLive(f, {}, fresh) /\ f.said = r.said /\ f.held = 0 BY ResponseFlushes
   <2>3. ResponseLive(g, {} \cup {i}, fresh) BY <1>3, <2>2, ResponseGives
   <2>4. g.held = 0
      BY <1>3, <2>2, GivenFields DEF ResponseLive, ResponseBody, ResponseOpen, ResponseFields
   <2>5. {} \cup {i} = {i} /\ i \in {i} /\ {i} \ {i} = {} OBVIOUS
   <2>6. \A q \in {i} : SameKind(g.said, i, q) => i <= q BY <1>0
   <2> HIDE DEF f, g, s, i
   <2>7. ResponseLive(s, {i} \ {i}, fresh) /\ SameAnswer(g, s)
      BY <2>1, <2>3, <2>5, <2>6, ResponseWrites
   <2>8. s.held = 0 BY <2>4, <2>7 DEF SameAnswer
   <2>9. Due(s) = {} BY <2>8 DEF Due
   <2> QED BY <2>5, <2>7, <2>9 DEF s
<1> QED BY <1>1, <1>2, <1>3

(* The items of a response, ended or not. *)
ItemsRight(out) ==
    /\ Events(out, {"created"}) = {1}
    /\ \A i \in Events(out, {"itemAdded"}) : out[i].item = Before(out, {"itemAdded"}, i)
    /\ \A i \in Events(out, ItemEvents) : \E j \in OfItem(out, out[i].item, {"itemAdded"}) : j < i
    /\ \A i \in Events(out, {"delta", "textDone", "partDone"}) : PartOpen(out, out[i].item, i)
    /\ \A i \in Events(out, {"partAdded"}) : ~PartOpen(out, out[i].item, i)

LEMMA RightItems ==
    ASSUME NEW out, NEW next, NEW msg, NEW part, NEW calls, NEW loose, NEW quiet,
           Items(out, next, msg, part, calls, loose, quiet)
    PROVE  ItemsRight(out)
<1>1. /\ Events(out, {"created"}) = {1}
      /\ \A i \in Events(out, {"itemAdded"}) : out[i].item = Before(out, {"itemAdded"}, i)
   BY DEF Items, Numbered
<1>2. \A i \in Events(out, ItemEvents) : \E j \in OfItem(out, out[i].item, {"itemAdded"}) : j < i
   BY DEF Items, AllBegun
<1>3. \A i \in Events(out, TextEvents) : out[i].item = msg BY DEF Items, Parts
<1>4. /\ Events(out, {"delta", "textDone", "partDone"}) \subseteq Events(out, TextEvents)
      /\ Events(out, {"partAdded"}) \subseteq Events(out, TextEvents)
   BY DEF Events, TextEvents
<1>5. \A i \in Events(out, {"delta", "textDone", "partDone"}) : PartOpen(out, out[i].item, i)
   <2> TAKE i \in Events(out, {"delta", "textDone", "partDone"})
   <2>1. out[i].item = msg BY <1>3, <1>4
   <2>2. PartOpen(out, msg, i) BY DEF Items, Parts
   <2> QED BY <2>1, <2>2
<1>6. \A i \in Events(out, {"partAdded"}) : ~PartOpen(out, out[i].item, i)
   <2> TAKE i \in Events(out, {"partAdded"})
   <2>1. out[i].item = msg BY <1>3, <1>4
   <2>2. ~PartOpen(out, msg, i) BY DEF Items, Parts
   <2> QED BY <2>1, <2>2
<1> QED BY <1>1, <1>2, <1>5, <1>6 DEF ItemsRight

(* More events, none of them of an item. *)
SameItems(out, all) ==
    /\ \A t \in SUBSET ResponseEvents : Events(all, t) = Events(out, t)
    /\ \A i \in DOMAIN out : all[i] = out[i]

LEMMA SameSets ==
    ASSUME NEW out, NEW all, SameItems(out, all), NEW t \in SUBSET ResponseEvents
    PROVE  /\ Events(all, t) = Events(out, t)
           /\ \A i \in Events(out, t) : all[i] = out[i]
           /\ \A n : OfItem(all, n, t) = OfItem(out, n, t)
           /\ \A i : Before(all, t, i) = Before(out, t, i)
<1>1. Events(all, t) = Events(out, t) BY DEF SameItems
<1>2. \A i \in Events(out, t) : all[i] = out[i] BY DEF SameItems, Events
<1>3. \A n : OfItem(all, n, t) = OfItem(out, n, t) BY <1>1, <1>2 DEF OfItem
<1> QED BY <1>1, <1>2, <1>3 DEF Before

LEMMA SameRight ==
    ASSUME NEW out, NEW all, SameItems(out, all)
    PROVE  /\ ItemsRight(out) => ItemsRight(all)
           /\ Reopened(all) => Reopened(out)
           /\ \A n : DoneOnce(out, n) => DoneOnce(all, n)
<1>1. /\ {"created"} \in SUBSET ResponseEvents /\ {"itemAdded"} \in SUBSET ResponseEvents
      /\ ItemEvents \in SUBSET ResponseEvents /\ {"partAdded"} \in SUBSET ResponseEvents
      /\ {"delta", "textDone", "partDone"} \in SUBSET ResponseEvents
      /\ {"partDone"} \in SUBSET ResponseEvents /\ {"itemDone"} \in SUBSET ResponseEvents
      /\ {"delta", "itemDone"} \in SUBSET ResponseEvents
   BY DEF ResponseEvents, ItemEvents, TextEvents
<1>2. \A n, i : PartOpen(all, n, i) <=> PartOpen(out, n, i)
   <2>1. \A n : OfItem(all, n, {"partAdded"}) = OfItem(out, n, {"partAdded"}) BY <1>1, SameSets
   <2>2. \A n : OfItem(all, n, {"partDone"}) = OfItem(out, n, {"partDone"}) BY <1>1, SameSets
   <2> QED BY <2>1, <2>2 DEF PartOpen
<1>3. ASSUME ItemsRight(out) PROVE ItemsRight(all)
   <2>1. Events(all, {"created"}) = {1} BY <1>1, <1>3, SameSets DEF ItemsRight
   <2>2. \A i \in Events(all, {"itemAdded"}) : all[i].item = Before(all, {"itemAdded"}, i)
      <3>1. /\ Events(all, {"itemAdded"}) = Events(out, {"itemAdded"})
            /\ \A i \in Events(out, {"itemAdded"}) : all[i] = out[i]
            /\ \A i : Before(all, {"itemAdded"}, i) = Before(out, {"itemAdded"}, i)
         BY <1>1, SameSets
      <3> QED BY <1>3, <3>1 DEF ItemsRight
   <2>3. \A i \in Events(all, ItemEvents) : \E j \in OfItem(all, all[i].item, {"itemAdded"}) : j < i
      <3>1. /\ Events(all, ItemEvents) = Events(out, ItemEvents)
            /\ \A i \in Events(out, ItemEvents) : all[i] = out[i]
         BY <1>1, SameSets
      <3>2. \A n : OfItem(all, n, {"itemAdded"}) = OfItem(out, n, {"itemAdded"}) BY <1>1, SameSets
      <3> QED BY <1>3, <3>1, <3>2 DEF ItemsRight
   <2>4. \A i \in Events(all, {"delta", "textDone", "partDone"}) : PartOpen(all, all[i].item, i)
      <3>1. /\ Events(all, {"delta", "textDone", "partDone"}) = Events(out, {"delta", "textDone", "partDone"})
            /\ \A i \in Events(out, {"delta", "textDone", "partDone"}) : all[i] = out[i]
         BY <1>1, SameSets
      <3> QED BY <1>2, <1>3, <3>1 DEF ItemsRight
   <2>5. \A i \in Events(all, {"partAdded"}) : ~PartOpen(all, all[i].item, i)
      <3>1. /\ Events(all, {"partAdded"}) = Events(out, {"partAdded"})
            /\ \A i \in Events(out, {"partAdded"}) : all[i] = out[i]
         BY <1>1, SameSets
      <3> QED BY <1>2, <1>3, <3>1 DEF ItemsRight
   <2> QED BY <2>1, <2>2, <2>3, <2>4, <2>5 DEF ItemsRight
<1>4. ASSUME Reopened(all) PROVE Reopened(out)
   <2>1. /\ Events(all, {"delta", "itemDone"}) = Events(out, {"delta", "itemDone"})
         /\ \A i \in Events(out, {"delta", "itemDone"}) : all[i] = out[i]
      BY <1>1, SameSets
   <2> QED BY <1>4, <2>1 DEF Reopened
<1>5. \A n : DoneOnce(out, n) => DoneOnce(all, n)
   <2>1. /\ Events(all, {"itemDone"}) = Events(out, {"itemDone"})
         /\ \A n : OfItem(all, n, {"itemDone"}) = OfItem(out, n, {"itemDone"})
      BY <1>1, SameSets
   <2> QED BY <2>1 DEF DoneOnce
<1> QED BY <1>3, <1>4, <1>5

(* What must hold of the end of a response. *)
ResponseEnd(out, e, calls) ==
    \/ /\ e.t = "completed" /\ (Reopened(out) \/ Dones(out, {}, {}))
       /\ \A j \in Events(out, {"delta"}) : out[j].item = e.message
       /\ e.call >= 0 <=> calls
    \/ e.t = "failed" /\ ~calls

LEMMA ResponseTail ==
    ASSUME NEW out, NEW next, NEW msg, NEW part, NEW calls, NEW loose, NEW quiet,
           Items(out, next, msg, part, calls, loose, quiet),
           NEW e, ResponseEnd(out, e, calls), NEW d, d.t = "DONE",
           NEW again, Reopened(out) => again
    PROVE  ResponseItems(Append(Append(out, e), d), again, TRUE)
<1> DEFINE one == Append(out, e)
           all == Append(one, d)
           n == Len(out)
<1>0. e.t \in {"completed", "failed"} /\ Listed(out) /\ OnlyOf(out, ResponseEvents)
      /\ GaveCalls(out, calls)
   BY DEF ResponseEnd, Items, Numbered
<1>1. /\ Listed(one) /\ n \in Nat /\ DOMAIN out = 1 .. n /\ Len(one) = n + 1
      /\ DOMAIN one = 1 .. n + 1 /\ one[n + 1] = e /\ \A i \in 1 .. n : one[i] = out[i]
   BY <1>0, Appended
<1> HIDE DEF one, n
<1>2. /\ Len(all) = n + 2 /\ DOMAIN all = 1 .. n + 2 /\ all[n + 2] = d /\ all[n + 1] = e
      /\ all # <<>> /\ \A i \in 1 .. n : all[i] = out[i]
   BY <1>1, AppendListed
<1> HIDE DEF all
<1>3. \A i \in 1 .. n : out[i].t \in ResponseEvents BY <1>0, <1>1 DEF OnlyOf
<1>4. e.t \notin ResponseEvents /\ d.t \notin ResponseEvents
      /\ \A t \in ResponseEvents : t \notin {"completed", "failed", "DONE"}
   BY <1>0 DEF ResponseEvents, ItemEvents, TextEvents
<1>5. \A i \in DOMAIN all : i \in 1 .. n \/ i = n + 1 \/ i = n + 2 BY <1>1, <1>2
<1>6. SameItems(out, all)
   <2>1. ASSUME NEW t \in SUBSET ResponseEvents PROVE Events(all, t) = Events(out, t)
      BY <1>1, <1>2, <1>4, <1>5 DEF Events
   <2> QED BY <1>1, <1>2, <2>1 DEF SameItems
<1>7. ItemsRight(all) /\ (Reopened(all) => again) /\ \A b : DoneOnce(out, b) => DoneOnce(all, b)
   BY <1>6, SameRight, RightItems
<1>8. Reopened(out) => Reopened(all)
   <2>1. {"delta", "itemDone"} \in SUBSET ResponseEvents
      BY DEF ResponseEvents, ItemEvents, TextEvents
   <2>2. /\ Events(all, {"delta", "itemDone"}) = Events(out, {"delta", "itemDone"})
         /\ \A i \in Events(out, {"delta", "itemDone"}) : all[i] = out[i]
      BY <1>6, <2>1, SameSets
   <2> QED BY <2>2 DEF Reopened
<1>9. /\ Events(all, {"DONE"}) = {n + 2} /\ Events(all, {"completed", "failed"}) = {n + 1}
      /\ \A i \in Events(all, {"completed"}) : i = n + 1 /\ e.t = "completed"
      /\ \A i \in Events(all, {"failed"}) : i = n + 1 /\ e.t = "failed"
   <2>1. \A i \in 1 .. n : all[i].t \notin {"completed", "failed", "DONE"} BY <1>2, <1>3, <1>4
   <2>2. all[n + 1].t \in {"completed", "failed"} /\ all[n + 1] = e /\ all[n + 2].t = "DONE"
         /\ n + 1 \in DOMAIN all /\ n + 2 \in DOMAIN all
      BY <1>0, <1>1, <1>2
   <2> QED BY <1>5, <2>1, <2>2 DEF Events
<1>10. /\ Events(all, {"argsDone"}) = Events(out, {"argsDone"})
       /\ Events(all, {"itemAdded"}) = Events(out, {"itemAdded"})
       /\ \A i \in Events(out, {"itemAdded"}) : all[i] = out[i]
       /\ Events(all, {"delta"}) = Events(out, {"delta"})
       /\ \A i \in Events(out, {"delta"}) : all[i] = out[i]
   <2>1. /\ {"argsDone"} \in SUBSET ResponseEvents /\ {"itemAdded"} \in SUBSET ResponseEvents
         /\ {"delta"} \in SUBSET ResponseEvents
      BY DEF ResponseEvents, ItemEvents, TextEvents
   <2> QED BY <1>6, <2>1, SameSets
<1>11. ASSUME NEW i \in Events(all, {"completed"})
       PROVE  /\ Reopened(all) \/ \A j \in Events(all, {"itemAdded"}) :
                                     \E k \in Events(all, {"itemDone"}) :
                                        OfItem(all, all[j].item, {"itemDone"}) = {k}
              /\ \A j \in Events(all, {"delta"}) : all[j].item = all[i].message
              /\ all[i].call >= 0 <=> Events(all, {"argsDone"}) # {}
   <2>1. all[i] = e /\ e.t = "completed" BY <1>2, <1>9
   <2>2. /\ Reopened(out) \/ Dones(out, {}, {})
         /\ \A j \in Events(out, {"delta"}) : out[j].item = e.message
         /\ e.call >= 0 <=> calls
      BY <2>1 DEF ResponseEnd
   <2>3. Reopened(all) \/ \A j \in Events(all, {"itemAdded"}) : DoneOnce(all, all[j].item)
      <3>1. CASE Reopened(out) BY <1>8, <3>1
      <3>2. CASE Dones(out, {}, {})
         <4>1. \A j \in Events(out, {"itemAdded"}) : DoneOnce(out, out[j].item)
            BY <3>2 DEF Dones
         <4> QED BY <1>7, <1>10, <4>1
      <3> QED BY <2>2, <3>1, <3>2
   <2>4. \A j \in Events(all, {"delta"}) : all[j].item = all[i].message BY <1>10, <2>1, <2>2
   <2>5. all[i].call >= 0 <=> Events(all, {"argsDone"}) # {}
      BY <1>0, <1>10, <2>1, <2>2 DEF GaveCalls
   <2> QED BY <2>3, <2>4, <2>5 DEF DoneOnce
<1>12. \A i \in Events(all, {"failed"}) : Events(all, {"argsDone"}) = {}
   <2> SUFFICES ASSUME NEW i \in Events(all, {"failed"}) PROVE Events(all, {"argsDone"}) = {}
      OBVIOUS
   <2>1. e.t = "failed" BY <1>9
   <2>2. ~calls BY <2>1 DEF ResponseEnd
   <2> QED BY <1>0, <1>10, <2>2 DEF GaveCalls
<1>13. n + 2 = Len(all) /\ n + 2 > 1 /\ all[(n + 2) - 1].t \in {"completed", "failed"}
   BY <1>0, <1>1, <1>2
<1>14. Ends(all, {"DONE"}) BY <1>2 DEF Ends
<1>15. {"partAdded", "delta", "textDone", "partDone", "argsDone", "itemDone"} = ItemEvents
   BY DEF ItemEvents, TextEvents
<1>16. ResponseItems(all, again, TRUE)
   <2>1. \A i \in Events(all, {"DONE"}) :
            i = Len(all) /\ i > 1 /\ all[i - 1].t \in {"completed", "failed"}
      BY <1>9, <1>13
   <2>2. \A i, j \in Events(all, {"completed", "failed"}) : i = j BY <1>9
   <2> QED BY <1>7, <1>11, <1>12, <1>14, <1>15, <2>1, <2>2 DEF ItemsRight, ResponseItems
<1> QED BY <1>16 DEF all, one

LEMMA ResponseFramed ==
    ASSUME NEW r, NEW due, NEW fresh, ResponseLive(r, due, fresh), NEW again,
           Reopened(r.out) => again
    PROVE  ResponseItems(r.out, again, FALSE) /\ Whole(r)
<1>1. /\ Items(r.out, r.next, r.msg, r.part, r.calls, {r.msg}, Quiet(r.msg, fresh))
      /\ Tracked(r.said, r.out, due)
   BY DEF ResponseLive, ResponseBody, ItemsOf
<1>2. \A i \in DOMAIN r.out : r.out[i].t \notin {"completed", "failed", "DONE", "finish", "message_stop"}
   BY <1>1 DEF Items, OnlyOf, ResponseEvents, ItemEvents, TextEvents
<1>3. /\ Events(r.out, {"completed"}) = {} /\ Events(r.out, {"failed"}) = {}
      /\ Events(r.out, {"DONE"}) = {} /\ Events(r.out, {"completed", "failed"}) = {}
      /\ Events(r.out, EndMarks) = {}
   BY <1>2 DEF Events, EndMarks
<1>4. ItemsRight(r.out) BY <1>1, RightItems
<1>5. {"partAdded", "delta", "textDone", "partDone", "argsDone", "itemDone"} = ItemEvents
   BY DEF ItemEvents, TextEvents
<1>6. ResponseItems(r.out, again, FALSE) BY <1>3, <1>4, <1>5 DEF ItemsRight, ResponseItems
<1>7. Whole(r) BY <1>1, <1>3 DEF Whole, Tracked
<1> QED BY <1>6, <1>7

LEMMA FreshRight ==
    ASSUME NEW r, NEW due, ResponseLive(r, due, TRUE)
    PROVE  ~Reopened(r.out)
<1> DEFINE yes == TRUE
<1>1. ResponseLive(r, due, yes) OBVIOUS
<1>2. Quiet(r.msg, yes) = {r.msg} BY DEF Quiet
<1> HIDE DEF yes
<1>3. Items(r.out, r.next, r.msg, r.part, r.calls, {r.msg}, Quiet(r.msg, yes))
   BY <1>1 DEF ResponseLive, ResponseBody, ItemsOf
<1> QED BY <1>2, <1>3, FreshItems

(* A response that ends, with what has to hold of its end. *)
LEMMA ResponseOver ==
    ASSUME NEW r, NEW due, NEW fresh, ResponseBody(r, due, fresh), NEW again,
           Reopened(r.out) => again, NEW e, ResponseEnd(r.out, e, r.calls), NEW d, d.t = "DONE",
           NEW s, s.said = r.said, s.out = Append(Append(r.out, e), d),
           e.t = "completed" => due = {}
    PROVE  ResponseItems(s.out, again, TRUE) /\ Whole(s)
<1>1. /\ Items(r.out, r.next, r.msg, r.part, r.calls, {r.msg}, Quiet(r.msg, fresh))
      /\ Tracked(r.said, r.out, due)
   BY DEF ResponseBody, ItemsOf
<1>2. ResponseItems(s.out, again, TRUE) BY <1>1, ResponseTail
<1>3. e.t \in {"completed", "failed"} BY DEF ResponseEnd
<1>4. e.t \notin Carriers /\ d.t \notin Carriers BY <1>3 DEF Carriers
<1>5. Tracked(s.said, s.out, due) BY <1>1, <1>4, EventsAtEnd
<1>6. CASE e.t = "completed"
   <2>1. due = {} BY <1>6
   <2>2. InOrder(s.said, s.out) /\ Written(s.said, s.out) BY <1>5, <2>1, WholeAtEnd
   <2> QED BY <1>2, <2>2 DEF Whole
<1>7. CASE e.t = "failed"
   <2>1. \A i \in DOMAIN r.out : r.out[i].t \notin EndMarks
      BY <1>1 DEF Items, OnlyOf, ResponseEvents, ItemEvents, TextEvents, EndMarks
   <2>2. Events(r.out, EndMarks) = {} BY <2>1 DEF Events
   <2>3. e.t \notin EndMarks /\ d.t \notin EndMarks BY <1>7 DEF EndMarks
   <2>4. Listed(r.out) /\ Listed(Append(r.out, e)) BY <1>1, Appended DEF Tracked
   <2>5. Events(Append(r.out, e), EndMarks) = {} BY <2>2, <2>3, <2>4, EventsAppend
   <2>6. Events(s.out, EndMarks) = {} BY <2>3, <2>4, <2>5, EventsAppend
   <2> QED BY <1>2, <1>5, <2>6 DEF Whole, Tracked
<1> QED BY <1>3, <1>6, <1>7

LEMMA ResponseFails ==
    ASSUME NEW r, NEW due, NEW fresh, ResponseBody(r, due, fresh), ~r.calls, NEW again,
           Reopened(r.out) => again, NEW status
    PROVE  LET s == ResponseFail(r, status) IN ResponseItems(s.out, again, TRUE) /\ Whole(s)
<1> DEFINE e == [t |-> "failed", status |-> status]
           d == [t |-> "DONE"]
           s == ResponseFail(r, status)
<1>1. e.t = "failed" /\ d.t = "DONE" OBVIOUS
<1>2. s.out = Append(Append(r.out, e), d) /\ s.said = r.said
   BY DEF ResponseFail, ResponseDone, Write, ResponseBody, ResponseOpen, ResponseFields
<1> HIDE DEF e, d, s
<1>3. ResponseEnd(r.out, e, r.calls) BY <1>1 DEF ResponseEnd
<1>4. e.t = "completed" => due = {} BY <1>1
<1>5. ResponseItems(s.out, again, TRUE) /\ Whole(s) BY <1>1, <1>2, <1>3, <1>4, ResponseOver
<1> QED BY <1>5 DEF s

LEMMA CompletedFields ==
    ASSUME NEW r, DOMAIN r = ResponseFields, r.next \in Nat, r.fun \in Nat \cup {-1},
           r.msg \in Nat \cup {-1}, r.added <=> r.msg >= 0, NEW o
    PROVE  LET s == Completed(r, o)
           IN  \E m, c : /\ s.out = Append(r.out, [t |-> "completed", message |-> m, call |-> c])
                         /\ s.said = r.said /\ DOMAIN s = ResponseFields
                         /\ r.added => m = r.msg
                         /\ c >= 0 <=> o.calls
<1> DEFINE a == WithMessage(r, o)
           b == WithCall(a, o)
           s == Completed(r, o)
           c == IF o.calls THEN b.fun ELSE -1
<1>1. /\ DOMAIN a = ResponseFields /\ a.out = r.out /\ a.said = r.said /\ a.next \in Nat
      /\ a.fun \in Nat \cup {-1} /\ (r.added => a.msg = r.msg)
   BY DEF WithMessage, MessageIndex, ResponseFields
<1>2. s = WriteCompleted(b, o) BY DEF Completed
<1> HIDE DEF a
<1>3. /\ DOMAIN b = ResponseFields /\ b.out = a.out /\ b.said = a.said /\ b.msg = a.msg
      /\ o.calls => b.fun \in Nat
   BY <1>1 DEF WithCall, FunctionIndex, ResponseFields
<1> HIDE DEF b, s
<1>4. /\ s.out = Append(b.out, [t |-> "completed", message |-> b.msg, call |-> c])
      /\ s.said = b.said /\ DOMAIN s = ResponseFields
   BY <1>2, <1>3 DEF WriteCompleted, Write, ResponseFields
<1>5. c >= 0 <=> o.calls BY <1>3
<1>6. r.added => b.msg = r.msg BY <1>1, <1>3
<1> HIDE DEF c
<1> QED BY <1>1, <1>3, <1>4, <1>5, <1>6 DEF s

LEMMA ResponseCompletes ==
    ASSUME NEW r, NEW due, due = {}, NEW fresh, ResponseBody(r, due, fresh),
           r.fun \in Nat \cup {-1}, Dones(r.out, {}, {}) \/ Reopened(r.out),
           NEW again, Reopened(r.out) => again, NEW o, o.calls <=> r.calls
    PROVE  LET s == ResponseDone(Completed(r, o)) IN ResponseItems(s.out, again, TRUE) /\ Whole(s)
<1> DEFINE c == Completed(r, o)
           d == [t |-> "DONE"]
           s == ResponseDone(c)
<1>1. /\ DOMAIN r = ResponseFields /\ r.msg \in Nat \cup {-1} /\ (r.added <=> r.msg >= 0)
      /\ r.next \in Nat /\ Parts(r.out, r.msg, r.part)
   BY DEF ResponseBody, ResponseOpen, ItemsOf, Items, Numbered
<1>2. PICK m, n : /\ c.out = Append(r.out, [t |-> "completed", message |-> m, call |-> n])
                  /\ c.said = r.said /\ DOMAIN c = ResponseFields
                  /\ r.added => m = r.msg
                  /\ n >= 0 <=> o.calls
   BY <1>1, CompletedFields
<1> DEFINE e == [t |-> "completed", message |-> m, call |-> n]
<1>3. e.t = "completed" /\ e.message = m /\ e.call = n /\ d.t = "DONE" OBVIOUS
<1> HIDE DEF c
<1>4. s.said = r.said /\ s.out = Append(Append(r.out, e), d)
   BY <1>2 DEF ResponseDone, Write, ResponseFields
<1> HIDE DEF d, e, s
<1>5. \A j \in Events(r.out, {"delta"}) : r.out[j].item = e.message
   <2> SUFFICES ASSUME NEW j \in Events(r.out, {"delta"}) PROVE r.out[j].item = e.message
      OBVIOUS
   <2>1. j \in Events(r.out, TextEvents) BY DEF Events, TextEvents
   <2>2. r.out[j].item = r.msg /\ r.msg >= 0 BY <1>1, <2>1 DEF Parts
   <2> QED BY <1>1, <1>2, <1>3, <2>2
<1>6. ResponseEnd(r.out, e, r.calls) BY <1>2, <1>3, <1>5 DEF ResponseEnd
<1>7. ResponseItems(s.out, again, TRUE) /\ Whole(s) BY <1>3, <1>4, <1>6, ResponseOver
<1> QED BY <1>7 DEF s, c

(* A response whose attempt is over: it ends, or goes on with another. *)
LEMMA ResponseEnds ==
    ASSUME NEW r, NEW fresh \in BOOLEAN, ResponseLive(r, Due(r), fresh), NEW again,
           ~fresh => again, NEW filter, NEW defer
    PROVE  LET f == ResponseFinalize(r, filter, defer)
           IN  \/ /\ f.terminal
                  /\ ResponseItems(f.rt.out, again, TRUE) /\ Whole(f.rt)
               \/ /\ ~f.terminal /\ defer
                  /\ ResponseLive(f.rt, {}, FALSE) /\ (Reopened(f.rt.out) => again)
                  /\ f.rt.held = 0 /\ ~f.rt.calls
<1> DEFINE a == ResponseFlushed(r)
           b == Called(a)
           c == CloseMessage(b)
           f == ResponseFinalize(r, filter, defer)
           none == {}
           no == FALSE
<1> SUFFICES \/ f.terminal /\ ResponseItems(f.rt.out, again, TRUE) /\ Whole(f.rt)
             \/ /\ ~f.terminal /\ defer /\ ResponseLive(f.rt, none, no)
                /\ (Reopened(f.rt.out) => again) /\ f.rt.held = 0 /\ ~f.rt.calls
   OBVIOUS
<1>1. ResponseLive(a, none, fresh) /\ a.held = 0 BY ResponseFlushes
<1>2. f = Settled(c, filter, defer) BY DEF ResponseFinalize
<1> HIDE DEF a, none
<1>3. ResponseBody(a, none, fresh) /\ a.fun = -1 /\ CallsSeen(a.said, a.calls, none)
   BY <1>1 DEF ResponseLive
<1>4. a.calls => Detected(a) BY <1>3 DEF CallsSeen, Detected, Has
<1>5. /\ ResponseBody(b, none, fresh) /\ b.held = 0 /\ b.said = a.said
      /\ b.fun \in Nat \cup {-1} /\ (b.calls <=> Detected(b)) /\ (~b.calls => b = a)
   <2>1. CASE Detected(a) /\ ~a.calls
      <3>1. b = FunctionCall(a, 0) BY <2>1 DEF Called
      <3> DEFINE z == 0
      <3>2. First(a.said, none, z) BY NoPieceFirst
      <3>3. none \ {z} = none BY DEF none
      <3> HIDE DEF b
      <3>4. LET g == FunctionCall(a, z)
            IN  /\ ResponseBody(g, none \ {z}, fresh) /\ SameAnswer(a, g) /\ g.calls
                /\ g.fun \in Nat
         <4> HIDE DEF z
         <4> QED BY <1>3, <3>2, WritesCall
      <3>5. ResponseBody(b, none, fresh) /\ SameAnswer(a, b) /\ b.calls /\ b.fun \in Nat
         BY <3>1, <3>3, <3>4
      <3>6. b.said = a.said /\ b.held = a.held BY <3>5 DEF SameAnswer
      <3>7. Detected(b) BY <2>1, <3>6 DEF Detected, Has
      <3> QED BY <1>1, <3>5, <3>6, <3>7
   <2>2. CASE ~(Detected(a) /\ ~a.calls)
      <3>1. b = a BY <2>2 DEF Called
      <3> HIDE DEF b
      <3> QED BY <1>1, <1>3, <1>4, <2>2, <3>1
   <2> QED BY <2>1, <2>2
<1> HIDE DEF b
<1>6. /\ ResponseBody(c, none, no) /\ SameAnswer(b, c) /\ c.calls = b.calls
      /\ c.fun = b.fun /\ (fresh => ~Reopened(c.out))
      /\ Dones(c.out, {}, {}) \/ Reopened(c.out)
   BY <1>5, ClosesMessage
<1> HIDE DEF c
<1>7. Reopened(c.out) => again BY <1>6
<1>8. c.said = b.said /\ c.held = 0 BY <1>5, <1>6 DEF SameAnswer
<1>9. c.calls <=> Detected(c) BY <1>5, <1>6, <1>8 DEF Detected, Has
<1> HIDE DEF f
<1>10. CASE StatusOf(c, filter) = OK
   <2> DEFINE o == OutputOf(c, filter)
              s == ResponseDone(Completed(c, o))
   <2>1. f = Terminal(s) BY <1>2, <1>10 DEF Settled
   <2>2. o.calls <=> c.calls BY <1>9 DEF OutputOf
   <2>3. none = {} BY DEF none
   <2> HIDE DEF o
   <2>4. ResponseItems(s.out, again, TRUE) /\ Whole(s)
      <3> HIDE DEF no
      <3>1. c.fun \in Nat \cup {-1} BY <1>5, <1>6
      <3> QED BY <1>6, <1>7, <2>2, <2>3, <3>1, ResponseCompletes
   <2> HIDE DEF s
   <2> QED BY <2>1, <2>4 DEF Terminal
<1>11. CASE StatusOf(c, filter) # OK
   <2>1. ~c.calls BY <1>11, StatusAndReason
   <2>2. CASE defer
      <3>1. f = Deferred(c) BY <1>2, <1>11, <2>2 DEF Settled
      <3>2. b = a BY <1>5, <1>6, <2>1
      <3>3. c.fun = -1 /\ CallsSeen(c.said, c.calls, none) BY <1>3, <1>6, <1>8, <3>2
      <3>4. ResponseLive(c, none, no)
         <4> HIDE DEF no
         <4> QED BY <1>6, <3>3 DEF ResponseLive
      <3> QED BY <1>7, <1>8, <2>1, <2>2, <3>1, <3>4 DEF Deferred
   <2>3. CASE ~defer
      <3> DEFINE st == StatusOf(c, filter)
                 s == ResponseFail(c, st)
      <3>1. f = Terminal(s) BY <1>2, <1>11, <2>3 DEF Settled
      <3>2. ResponseItems(s.out, again, TRUE) /\ Whole(s)
         <4> HIDE DEF st, no
         <4> QED BY <1>6, <1>7, <2>1, ResponseFails
      <3> HIDE DEF s
      <3> QED BY <3>1, <3>2 DEF Terminal
   <2> QED BY <2>2, <2>3
<1> QED BY <1>10, <1>11

-----------------------------------------------------------------------------
(* The four surfaces together.  "again" says that an attempt came before. *)
Surfaces == {"chat", "responses", "claude", "gemini"}

(* The record while an attempt is under way. *)
LiveOn(on, r, again) ==
    \/ on = "chat" /\ ChatLive(r, Due(r))
    \/ on = "responses" /\ \E fresh \in BOOLEAN : ResponseLive(r, Due(r), fresh) /\ (~fresh => again)
    \/ on = "claude" /\ ClaudeLive(r, Due(r))
    \/ on = "gemini" /\ GeminiLive(r)

(* The record after an attempt that left the answer empty. *)
EmptyOn(on, r, again) ==
    /\ \/ on = "chat" /\ ChatLive(r, {})
       \/ on = "responses" /\ ResponseLive(r, {}, FALSE) /\ (Reopened(r.out) => again)
       \/ on = "claude" /\ ClaudeLive(r, {})
       \/ on = "gemini" /\ GeminiLive(r)
    /\ r.held = 0 /\ ~r.calls

(* What is promised of the record, with an end or without. *)
RightOn(on, r, again, final) ==
    \/ on = "chat" /\ ChatFrames(r.out, final) /\ Whole(r)
    \/ on = "responses" /\ ResponseItems(r.out, again, final) /\ Whole(r)
    \/ on = "claude" /\ ClaudeBlocks(r.said, r.out, final) /\ Whole(r)
    \/ /\ on = "gemini" /\ GeminiChunks(r.said, r.out, r.tools, final)
       /\ InOrder(r.said, r.out) /\ (r.tools \/ Whole(r))

LEMMA WholeInOrder ==
    ASSUME NEW r, Whole(r)
    PROVE  InOrder(r.said, r.out)
BY DEF Whole

LEMMA LiveRight ==
    ASSUME NEW on, NEW r, NEW again, LiveOn(on, r, again), NEW no, ~no
    PROVE  RightOn(on, r, again, no)
<1>1. CASE on = "chat" /\ ChatLive(r, Due(r))
   <2>1. ChatFrames(r.out, FALSE) /\ Whole(r) BY <1>1, ChatFramed
   <2> QED BY <1>1, <2>1 DEF RightOn, ChatFrames
<1>2. ASSUME on = "responses", NEW fresh \in BOOLEAN, ResponseLive(r, Due(r), fresh), ~fresh => again
      PROVE  RightOn(on, r, again, no)
   <2>1. Reopened(r.out) => again
      <3>1. CASE fresh = TRUE BY <1>2, <3>1, FreshRight
      <3>2. CASE fresh = FALSE BY <1>2, <3>2
      <3> QED BY <3>1, <3>2
   <2>2. ResponseItems(r.out, again, FALSE) /\ Whole(r) BY <1>2, <2>1, ResponseFramed
   <2> QED BY <1>2, <2>2 DEF RightOn, ResponseItems
<1>3. CASE on = "claude" /\ ClaudeLive(r, Due(r))
   <2>1. ClaudeBlocks(r.said, r.out, FALSE) /\ Whole(r) BY <1>3, ClaudeFramed
   <2> QED BY <1>3, <2>1 DEF RightOn, ClaudeBlocks
<1>4. CASE on = "gemini" /\ GeminiLive(r)
   <2>1. GeminiChunks(r.said, r.out, r.tools, FALSE) /\ Whole(r) BY <1>4, GeminiFramed
   <2>2. InOrder(r.said, r.out) BY <2>1, WholeInOrder
   <2> QED BY <1>4, <2>1, <2>2 DEF RightOn, GeminiChunks
<1> QED BY <1>1, <1>2, <1>3, <1>4 DEF LiveOn

LEMMA EmptyRight ==
    ASSUME NEW on, NEW r, NEW again, EmptyOn(on, r, again), NEW no, ~no
    PROVE  RightOn(on, r, again, no)
<1> DEFINE none == {}
           old == FALSE
<1>0. \/ on = "chat" /\ ChatLive(r, none)
      \/ on = "responses" /\ ResponseLive(r, none, old) /\ (Reopened(r.out) => again)
      \/ on = "claude" /\ ClaudeLive(r, none)
      \/ on = "gemini" /\ GeminiLive(r)
   BY DEF EmptyOn
<1> HIDE DEF none, old
<1>1. CASE on = "chat" /\ ChatLive(r, none)
   <2>1. ChatFrames(r.out, FALSE) /\ Whole(r) BY <1>1, ChatFramed
   <2> QED BY <1>1, <2>1 DEF RightOn, ChatFrames
<1>2. CASE on = "responses" /\ ResponseLive(r, none, old) /\ (Reopened(r.out) => again)
   <2>2. ResponseItems(r.out, again, FALSE) /\ Whole(r) BY <1>2, ResponseFramed
   <2> QED BY <1>2, <2>2 DEF RightOn, ResponseItems
<1>3. CASE on = "claude" /\ ClaudeLive(r, none)
   <2>1. ClaudeBlocks(r.said, r.out, FALSE) /\ Whole(r) BY <1>3, ClaudeFramed
   <2> QED BY <1>3, <2>1 DEF RightOn, ClaudeBlocks
<1>4. CASE on = "gemini" /\ GeminiLive(r)
   <2>1. GeminiChunks(r.said, r.out, r.tools, FALSE) /\ Whole(r) BY <1>4, GeminiFramed
   <2>2. InOrder(r.said, r.out) BY <2>1, WholeInOrder
   <2> QED BY <1>4, <2>1, <2>2 DEF RightOn, GeminiChunks
<1> QED BY <1>0, <1>1, <1>2, <1>3, <1>4

LEMMA RightWeaker ==
    ASSUME NEW on, NEW r, NEW again, RightOn(on, r, again, TRUE), NEW final
    PROVE  RightOn(on, r, again, final)
<1>1. ChatFrames(r.out, TRUE) => ChatFrames(r.out, final) BY Zenon DEF ChatFrames
<1>2. ResponseItems(r.out, again, TRUE) => ResponseItems(r.out, again, final) BY Zenon DEF ResponseItems
<1>3. ClaudeBlocks(r.said, r.out, TRUE) => ClaudeBlocks(r.said, r.out, final) BY Zenon DEF ClaudeBlocks
<1>4. GeminiChunks(r.said, r.out, r.tools, TRUE) => GeminiChunks(r.said, r.out, r.tools, final)
   BY Zenon DEF GeminiChunks
<1> QED BY <1>1, <1>2, <1>3, <1>4, Zenon DEF RightOn

LEMMA EmptyLive ==
    ASSUME NEW on, NEW r, NEW again, EmptyOn(on, r, again), NEW yes, yes
    PROVE  LiveOn(on, r, yes)
<1>1. Due(r) = {} BY DEF EmptyOn, Due
<1> QED BY <1>1 DEF EmptyOn, LiveOn

LEMMA ParsesOn ==
    ASSUME NEW again, LiveOn(surface, rt, again), NEW kind \in PieceKinds, MayCome(rt, kind)
    PROVE  LiveOn(surface, OnParsed(kind), again)
<1>1. CASE surface = "chat" /\ ChatLive(rt, Due(rt))
   <2>1. OnParsed(kind) = ChatOnParsed(rt, kind) BY <1>1 DEF OnParsed
   <2>2. ChatLive(ChatOnParsed(rt, kind), Due(ChatOnParsed(rt, kind))) BY <1>1, ChatParses
   <2> QED BY <1>1, <2>1, <2>2 DEF LiveOn
<1>2. ASSUME surface = "responses", NEW fresh \in BOOLEAN, ResponseLive(rt, Due(rt), fresh),
             ~fresh => again
      PROVE  LiveOn(surface, OnParsed(kind), again)
   <2>1. OnParsed(kind) = ResponseOnParsed(rt, kind) BY <1>2 DEF OnParsed
   <2>2. ResponseLive(ResponseOnParsed(rt, kind), Due(ResponseOnParsed(rt, kind)), fresh)
      BY <1>2, ResponseParses
   <2> QED BY <1>2, <2>1, <2>2 DEF LiveOn
<1>3. CASE surface = "claude" /\ ClaudeLive(rt, Due(rt))
   <2>1. OnParsed(kind) = ClaudeOnParsed(rt, kind) BY <1>3 DEF OnParsed
   <2>2. ClaudeLive(ClaudeOnParsed(rt, kind), Due(ClaudeOnParsed(rt, kind))) BY <1>3, ClaudeParses
   <2> QED BY <1>3, <2>1, <2>2 DEF LiveOn
<1>4. CASE surface = "gemini" /\ GeminiLive(rt)
   <2>1. OnParsed(kind) = GeminiOnParsed(rt, kind) BY <1>4 DEF OnParsed
   <2>2. GeminiLive(GeminiOnParsed(rt, kind)) BY <1>4, GeminiParses
   <2> QED BY <1>4, <2>1, <2>2 DEF LiveOn
<1> QED BY <1>1, <1>2, <1>3, <1>4 DEF LiveOn

LEMMA FailsOn ==
    ASSUME NEW again, EmptyOn(surface, rt, again), NEW status, NEW yes, yes
    PROVE  RightOn(surface, FailAnswer(status), yes, TRUE)
<1> DEFINE none == {}
           old == FALSE
<1>0. /\ \/ surface = "chat" /\ ChatLive(rt, none)
         \/ surface = "responses" /\ ResponseLive(rt, none, old)
         \/ surface = "claude" /\ ClaudeLive(rt, none)
         \/ surface = "gemini" /\ GeminiLive(rt)
      /\ ~rt.calls
   BY DEF EmptyOn
<1> HIDE DEF none, old
<1>1. CASE surface = "chat" /\ ChatLive(rt, none)
   <2> DEFINE s == ChatFail(rt, status)
   <2>1. FailAnswer(status) = s BY <1>1 DEF FailAnswer
   <2>2. ChatFrames(s.out, TRUE) /\ Whole(s) BY <1>0, <1>1, ChatFails
   <2> QED BY <1>1, <2>1, <2>2 DEF RightOn
<1>2. CASE surface = "responses" /\ ResponseLive(rt, none, old)
   <2> DEFINE s == ResponseFail(rt, status)
   <2>1. FailAnswer(status) = s BY <1>2 DEF FailAnswer
   <2>2. ResponseBody(rt, none, old) /\ (Reopened(rt.out) => yes) BY <1>2 DEF ResponseLive
   <2>3. ResponseItems(s.out, yes, TRUE) /\ Whole(s) BY <1>0, <2>2, ResponseFails
   <2> QED BY <1>2, <2>1, <2>3 DEF RightOn
<1>3. CASE surface = "claude" /\ ClaudeLive(rt, none)
   <2> DEFINE s == ClaudeFail(rt, status)
   <2>1. FailAnswer(status) = s BY <1>3 DEF FailAnswer
   <2>2. ClaudeOpen(rt) /\ BodyOf(rt, none) BY <1>3 DEF ClaudeLive
   <2>3. ClaudeBlocks(s.said, s.out, TRUE) /\ Whole(s) BY <2>2, ClaudeFails
   <2> QED BY <1>3, <2>1, <2>3 DEF RightOn
<1>4. CASE surface = "gemini" /\ GeminiLive(rt)
   <2> DEFINE s == GeminiFail(rt, status)
   <2>1. FailAnswer(status) = s BY <1>4 DEF FailAnswer
   <2>2. GeminiChunks(s.said, s.out, s.tools, TRUE) /\ Whole(s) BY <1>4, GeminiFails
   <2>3. InOrder(s.said, s.out) BY <2>2, WholeInOrder
   <2> QED BY <1>4, <2>1, <2>2, <2>3 DEF RightOn
<1> QED BY <1>0, <1>1, <1>2, <1>3, <1>4

LEMMA EndsOn ==
    ASSUME NEW again, LiveOn(surface, rt, again), NEW filter \in BOOLEAN, NEW defer \in BOOLEAN
    PROVE  LET f == FinalizeAnswer(filter, defer)
           IN  \/ f.terminal /\ RightOn(surface, f.rt, again, TRUE)
               \/ ~f.terminal /\ defer /\ EmptyOn(surface, f.rt, again)
<1> DEFINE f == FinalizeAnswer(filter, defer)
           some == defer /\ ~filter
<1> SUFFICES \/ f.terminal /\ RightOn(surface, f.rt, again, TRUE)
             \/ ~f.terminal /\ defer /\ EmptyOn(surface, f.rt, again)
   OBVIOUS
<1>0. some \in BOOLEAN /\ (some => defer) OBVIOUS
<1>1. CASE surface = "chat" /\ ChatLive(rt, Due(rt))
   <2>1. f = ChatFinalize(rt, filter, some) BY <1>1 DEF FinalizeAnswer
   <2> HIDE DEF f, some
   <2>2. \/ f.terminal /\ ChatFrames(f.rt.out, TRUE) /\ Whole(f.rt)
         \/ ~f.terminal /\ some /\ ChatLive(f.rt, {}) /\ f.rt.held = 0 /\ ~f.rt.calls
      BY <1>0, <1>1, <2>1, ChatEnds
   <2> QED BY <1>0, <1>1, <2>2 DEF RightOn, EmptyOn
<1>2. ASSUME surface = "responses", NEW fresh \in BOOLEAN, ResponseLive(rt, Due(rt), fresh),
             ~fresh => again
      PROVE  \/ f.terminal /\ RightOn(surface, f.rt, again, TRUE)
             \/ ~f.terminal /\ defer /\ EmptyOn(surface, f.rt, again)
   <2>1. f = ResponseFinalize(rt, filter, some) BY <1>2 DEF FinalizeAnswer
   <2> HIDE DEF f, some
   <2>2. \/ f.terminal /\ ResponseItems(f.rt.out, again, TRUE) /\ Whole(f.rt)
         \/ /\ ~f.terminal /\ some
            /\ ResponseLive(f.rt, {}, FALSE) /\ (Reopened(f.rt.out) => again)
            /\ f.rt.held = 0 /\ ~f.rt.calls
      BY <1>0, <1>2, <2>1, ResponseEnds
   <2> QED BY <1>0, <1>2, <2>2 DEF RightOn, EmptyOn
<1>3. CASE surface = "claude" /\ ClaudeLive(rt, Due(rt))
   <2>1. f = ClaudeFinalize(rt, defer) BY <1>3 DEF FinalizeAnswer
   <2> HIDE DEF f
   <2>2. \/ f.terminal /\ ClaudeBlocks(f.rt.said, f.rt.out, TRUE) /\ Whole(f.rt)
         \/ ~f.terminal /\ defer /\ ClaudeLive(f.rt, {}) /\ f.rt.held = 0 /\ ~f.rt.calls
      BY <1>3, <2>1, ClaudeEnds
   <2> QED BY <1>3, <2>2 DEF RightOn, EmptyOn
<1>4. CASE surface = "gemini" /\ GeminiLive(rt)
   <2>1. f = GeminiFinalize(rt, filter, defer) BY <1>4 DEF FinalizeAnswer
   <2> HIDE DEF f
   <2>2. \/ /\ f.terminal /\ GeminiChunks(f.rt.said, f.rt.out, f.rt.tools, TRUE)
            /\ f.rt.tools = rt.tools /\ InOrder(f.rt.said, f.rt.out) /\ (rt.tools \/ Whole(f.rt))
         \/ ~f.terminal /\ defer /\ GeminiLive(f.rt) /\ f.rt.tools = rt.tools
      BY <1>4, <2>1, GeminiEnds
   <2>3. GeminiLive(f.rt) => f.rt.held = 0 /\ ~f.rt.calls BY DEF GeminiLive
   <2> QED BY <1>4, <2>2, <2>3 DEF RightOn, EmptyOn
<1> QED BY <1>1, <1>2, <1>3, <1>4 DEF LiveOn

-----------------------------------------------------------------------------
(* The first record of each surface. *)

LEMMA NothingTracked ==
    ASSUME NEW out, Listed(out), Events(out, Carriers) = {}
    PROVE  /\ Tracked(<<>>, out, {}) /\ CallsSeen(<<>>, FALSE, {})
           /\ <<>> \in Seq(PieceKinds)
BY DEF Tracked, CallsSeen, Carried, InOrder, Events

LEMMA OneListed ==
    ASSUME NEW e
    PROVE  /\ Listed(<<>>) /\ Listed(<<e>>)
           /\ \A t : Events(<<>>, t) = {} /\ Events(<<e>>, t) = IF e.t \in t THEN {1} ELSE {}
BY DEF Listed, Events

LEMMA ChatBegins ==
    ASSUME NEW tools \in BOOLEAN, NEW required \in BOOLEAN
    PROVE  ChatLive(NewChat(tools, required), {})
<1> DEFINE r == NewChat(tools, required)
<1>1. /\ DOMAIN r = ChatFields /\ r.said = <<>> /\ r.out = <<>> /\ r.held = 0 /\ ~r.calls /\ r.calls \in BOOLEAN
      /\ r.tools \in BOOLEAN /\ r.required \in BOOLEAN /\ ~r.first /\ r.first \in BOOLEAN
   BY DEF NewChat, ChatFields
<1> HIDE DEF r
<1>2. Listed(<<>>) /\ \A t : Events(<<>>, t) = {} BY OneListed
<1>3. /\ Tracked(r.said, r.out, {}) /\ CallsSeen(r.said, r.calls, {}) /\ r.said \in Seq(PieceKinds)
   BY <1>1, <1>2, NothingTracked
<1>4. Common(r) /\ Holds(r) BY <1>1, <1>2, <1>3 DEF Common, Holds
<1> QED BY <1>1, <1>2, <1>3, <1>4 DEF ChatLive, r

LEMMA GeminiBegins ==
    ASSUME NEW tools \in BOOLEAN
    PROVE  GeminiLive(NewGenerate(tools))
<1> DEFINE r == NewGenerate(tools)
<1>1. /\ DOMAIN r = GeminiFields /\ r.said = <<>> /\ r.out = <<>> /\ r.held = 0 /\ ~r.calls /\ r.calls \in BOOLEAN
      /\ r.tools \in BOOLEAN /\ ~r.required /\ r.required \in BOOLEAN /\ r.filtered \in BOOLEAN
   BY DEF NewGenerate, GeminiFields
<1> HIDE DEF r
<1>2. Listed(<<>>) /\ \A t : Events(<<>>, t) = {} BY OneListed
<1>3. /\ Tracked(r.said, r.out, {}) /\ r.said \in Seq(PieceKinds)
   BY <1>1, <1>2, NothingTracked
<1>4. Common(r) BY <1>1, <1>2, <1>3 DEF Common
<1>5. Unwritten(r) = {} BY <1>1 DEF Unwritten
<1> QED BY <1>1, <1>3, <1>4, <1>5 DEF GeminiLive, r

LEMMA ClaudeBegins ==
    ASSUME NEW tools \in BOOLEAN
    PROVE  ClaudeLive(NewMessage(tools), {})
<1> DEFINE r == NewMessage(tools)
           e == [t |-> "message_start"]
<1>1. /\ DOMAIN r = ClaudeFields /\ r.said = <<>> /\ r.out = <<e>> /\ r.held = 0 /\ ~r.calls /\ r.calls \in BOOLEAN
      /\ r.tools \in BOOLEAN /\ ~r.required /\ r.required \in BOOLEAN /\ r.next = 0 /\ r.thinkBlock = -1
      /\ r.textBlock = -1
   BY DEF NewMessage, ClaudeFields
<1>2. e.t = "message_start" OBVIOUS
<1> HIDE DEF r, e
<1>3. Listed(<<e>>) /\ \A t : Events(<<e>>, t) = IF e.t \in t THEN {1} ELSE {} BY OneListed
<1>4. /\ Events(<<e>>, Carriers) = {} /\ Events(<<e>>, {"start"}) = {}
      /\ Events(<<e>>, {"delta", "stop"}) = {} /\ Events(<<e>>, {"delta"}) = {}
      /\ Events(<<e>>, {"message_start"}) = {1}
   BY <1>2, <1>3 DEF Carriers
<1>5. /\ Tracked(r.said, r.out, {}) /\ CallsSeen(r.said, r.calls, {}) /\ r.said \in Seq(PieceKinds)
   BY <1>1, <1>3, <1>4, NothingTracked
<1>6. Common(r) /\ Holds(r) BY <1>1, <1>3, <1>5 DEF Common, Holds
<1>7. ClaudeOpen(r) BY <1>1, <1>6 DEF ClaudeOpen
<1>8. OpenBlocks(r) = {} BY <1>1 DEF OpenBlocks
<1>9. ToolDeltas(r.said, r.out) = {} BY <1>1, <1>4 DEF ToolDeltas
<1>10. Blocks(r.said, r.out, r.next, {})
   <2>1. IsFiniteSet({}) /\ Cardinality({}) = 0 BY FS_EmptySet
   <2>2. \A i \in DOMAIN <<e>> : <<e>>[i].t \in BlockEvents BY <1>2 DEF BlockEvents
   <2>3. 0 .. 0 - 1 = {} OBVIOUS
   <2> DEFINE z == 0
   <2> HIDE DEF z
   <2>4. z = 0 /\ z \in Nat /\ 0 .. z - 1 = {} BY <2>3 DEF z
   <2>5. Blocks(r.said, <<e>>, z, {}) BY <1>3, <1>4, <2>1, <2>2, <2>4 DEF Blocks
   <2> QED BY <1>1, <2>4, <2>5
<1>11. BodyOf(r, {}) BY <1>1, <1>5, <1>8, <1>9, <1>10 DEF BodyOf, MessageBody
<1> QED BY <1>5, <1>7, <1>11 DEF ClaudeLive, r

LEMMA ResponseBegins ==
    ASSUME NEW tools \in BOOLEAN, NEW required \in BOOLEAN, NEW fresh \in BOOLEAN
    PROVE  ResponseLive(NewResponse(tools, required), {}, fresh)
<1> DEFINE r == NewResponse(tools, required)
           e == [t |-> "created"]
           quiet == Quiet(r.msg, fresh)
<1>1. /\ DOMAIN r = ResponseFields /\ r.said = <<>> /\ r.out = <<e>> /\ r.held = 0 /\ ~r.calls /\ r.calls \in BOOLEAN
      /\ r.tools \in BOOLEAN /\ r.required \in BOOLEAN /\ r.next = 0 /\ ~r.added /\ r.added \in BOOLEAN
      /\ ~r.part /\ r.part \in BOOLEAN /\ r.msg = -1 /\ r.fun = -1
   BY DEF NewResponse, ResponseFields
<1>2. e.t = "created" OBVIOUS
<1> HIDE DEF r, e, quiet
<1>3. Listed(<<e>>) /\ \A t : Events(<<e>>, t) = IF e.t \in t THEN {1} ELSE {} BY OneListed
<1>4. /\ Events(<<e>>, Carriers) = {} /\ Events(<<e>>, {"itemAdded"}) = {}
      /\ Events(<<e>>, TextEvents) = {} /\ Events(<<e>>, {"delta", "textDone", "partDone"}) = {}
      /\ Events(<<e>>, {"partAdded"}) = {} /\ Events(<<e>>, ItemEvents) = {}
      /\ Events(<<e>>, {"itemDone"}) = {} /\ Events(<<e>>, {"argsDone"}) = {}
      /\ Events(<<e>>, {"created"}) = {1}
   BY <1>2, <1>3 DEF Carriers, TextEvents, ItemEvents
<1>5. /\ Tracked(r.said, r.out, {}) /\ CallsSeen(r.said, r.calls, {}) /\ r.said \in Seq(PieceKinds)
   BY <1>1, <1>3, <1>4, NothingTracked
<1>6. Common(r) /\ Holds(r) BY <1>1, <1>3, <1>5 DEF Common, Holds
<1>7. ResponseOpen(r) BY <1>1, <1>6 DEF ResponseOpen
<1>8. Items(r.out, r.next, r.msg, r.part, r.calls, {r.msg}, quiet)
   <2>1. IsFiniteSet({}) /\ Cardinality({}) = 0 BY FS_EmptySet
   <2>2. OnlyOf(<<e>>, ResponseEvents) BY <1>2 DEF OnlyOf, ResponseEvents
   <2>3. Numbered(<<e>>, 0) BY <1>3, <1>4, <2>1 DEF Numbered
   <2>4. AllBegun(<<e>>) BY <1>4 DEF AllBegun
   <2>5. Parts(<<e>>, r.msg, r.part) BY <1>1, <1>4 DEF Parts, PartOpen, OfItem
   <2>6. Dones(<<e>>, {r.msg}, quiet) BY <1>4 DEF Dones
   <2>7. GaveCalls(<<e>>, r.calls) BY <1>1, <1>4 DEF GaveCalls
   <2>8. ~(r.msg >= 0) BY <1>1
   <2> QED BY <1>1, <2>8, <2>2, <2>3, <2>4, <2>5, <2>6, <2>7 DEF Items
<1>9. ResponseBody(r, {}, fresh) BY <1>5, <1>7, <1>8 DEF ResponseBody, ItemsOf, quiet
<1> QED BY <1>1, <1>5, <1>9 DEF ResponseLive, r

-----------------------------------------------------------------------------
Again == retries > 0 \/ moved

AnswerTypes ==
    /\ surface \in Surfaces /\ managed \in BOOLEAN /\ moved \in BOOLEAN /\ gone \in BOOLEAN
    /\ retries \in Nat /\ loop \in {"consume", "retry", "over"}

(* The inductive invariant: the record is live, empty or at its end; and an  *)
(* attempt leaves it empty only if another one may follow.                   *)
AnswerInv ==
    /\ AnswerTypes
    /\ loop = "consume" => LiveOn(surface, rt, Again)
    /\ loop = "retry" => EmptyOn(surface, rt, Again) /\ AllowDefer
    /\ loop = "over" => RightOn(surface, rt, Again, ~gone)

LEMMA AnswerInvInit == AnswerInit => AnswerInv
<1> SUFFICES ASSUME AnswerInit PROVE AnswerInv OBVIOUS
<1>1. AnswerTypes BY DEF AnswerInit, AnswerTypes, Surfaces
<1>2. loop = "consume" BY DEF AnswerInit
<1>3. PICK tools \in BOOLEAN, required \in BOOLEAN :
         \/ surface = "chat" /\ rt = NewChat(tools, required)
         \/ surface = "responses" /\ rt = NewResponse(tools, required)
         \/ surface = "claude" /\ rt = NewMessage(tools)
         \/ surface = "gemini" /\ rt = NewGenerate(tools)
   BY DEF AnswerInit
<1> DEFINE yes == TRUE
           none == {}
<1>4. rt.held = 0 => Due(rt) = none BY DEF Due
<1>5. /\ NewChat(tools, required).held = 0 /\ NewResponse(tools, required).held = 0
      /\ NewMessage(tools).held = 0
   BY DEF NewChat, NewResponse, NewMessage
<1> HIDE DEF yes, none
<1>6. yes \in BOOLEAN /\ yes BY DEF yes
<1>7. LiveOn(surface, rt, Again)
   <2>1. CASE surface = "chat" /\ rt = NewChat(tools, required)
      <3>1. ChatLive(rt, none) BY <2>1, ChatBegins DEF none
      <3> QED BY <1>4, <1>5, <2>1, <3>1 DEF LiveOn
   <2>2. CASE surface = "responses" /\ rt = NewResponse(tools, required)
      <3>1. ResponseLive(rt, none, yes) BY <1>6, <2>2, ResponseBegins DEF none
      <3>2. ResponseLive(rt, Due(rt), yes) BY <1>4, <1>5, <2>2, <3>1
      <3> QED BY <1>6, <2>2, <3>2 DEF LiveOn
   <2>3. CASE surface = "claude" /\ rt = NewMessage(tools)
      <3>1. ClaudeLive(rt, none) BY <2>3, ClaudeBegins DEF none
      <3> QED BY <1>4, <1>5, <2>3, <3>1 DEF LiveOn
   <2>4. CASE surface = "gemini" /\ rt = NewGenerate(tools)
      <3>1. GeminiLive(rt) BY <2>4, GeminiBegins
      <3> QED BY <2>4, <3>1 DEF LiveOn
   <2> QED BY <1>3, <2>1, <2>2, <2>3, <2>4
<1> QED BY <1>1, <1>2, <1>7 DEF AnswerInv

LEMMA Settles ==
    ASSUME NEW f, NEW again, NEW allow,
           \/ f.terminal /\ RightOn(surface, f.rt, again, TRUE)
           \/ ~f.terminal /\ allow /\ EmptyOn(surface, f.rt, again),
           Settle(f)
    PROVE  \/ loop' = "over" /\ RightOn(surface, rt', again, TRUE)
           \/ loop' = "retry" /\ allow /\ EmptyOn(surface, rt', again)
BY DEF Settle

LEMMA AnswerInvStep == AnswerInv /\ [AnswerNext]_answerVars => AnswerInv'
<1> SUFFICES ASSUME AnswerInv, [AnswerNext]_answerVars PROVE AnswerInv' OBVIOUS
<1>0. AnswerTypes BY DEF AnswerInv
(* A step to an end, whoever is there to read it. *)
<1>1. ASSUME AnswerTypes', NEW again, Again' = again, surface' = surface,
             loop' = "over", RightOn(surface, rt', again, TRUE)
      PROVE  AnswerInv'
   <2>1. RightOn(surface, rt', again, ~gone') BY <1>1, RightWeaker
   <2> QED BY <1>1, <2>1 DEF AnswerInv
(* An attempt is over, and the bounds of the loop are as they were. *)
<1>2. ASSUME NEW filter \in BOOLEAN, LiveOn(surface, rt, Again),
             Settle(FinalizeAnswer(filter, AllowDefer)), gone' \in BOOLEAN,
             UNCHANGED <<surface, managed, retries, moved>>
      PROVE  AnswerInv'
   <2> DEFINE f == FinalizeAnswer(filter, AllowDefer)
              allow == AllowDefer
              again == Again
   <2>1. allow \in BOOLEAN BY DEF AllowDefer
   <2>2. Again' = again /\ AllowDefer' = allow BY <1>2 DEF Again, AllowDefer
   <2>3. LiveOn(surface, rt, again) BY <1>2
   <2>4. f = FinalizeAnswer(filter, allow) OBVIOUS
   <2>5. Settle(f) BY <1>2
   <2> HIDE DEF f, allow, again
   <2>6. \/ f.terminal /\ RightOn(surface, f.rt, again, TRUE)
         \/ ~f.terminal /\ allow /\ EmptyOn(surface, f.rt, again)
      BY <2>1, <2>3, <2>4, EndsOn
   <2>7. \/ loop' = "over" /\ RightOn(surface, rt', again, TRUE)
         \/ loop' = "retry" /\ allow /\ EmptyOn(surface, rt', again)
      BY <2>5, <2>6, Settles
   <2>8. AnswerTypes' BY <1>0, <1>2, <2>7 DEF AnswerTypes
   <2>9. CASE loop' = "over" BY <1>1, <1>2, <2>2, <2>7, <2>8, <2>9
   <2>10. CASE loop' = "retry" BY <1>2, <2>2, <2>7, <2>8, <2>10 DEF AnswerInv
   <2> QED BY <2>7, <2>9, <2>10
<1>3. CASE Piece
   <2>1. PICK kind \in PieceKinds : MayCome(rt, kind) /\ rt' = OnParsed(kind) BY <1>3 DEF Piece
   <2>2. loop = "consume" /\ UNCHANGED <<surface, managed, retries, moved, gone, loop>>
      BY <1>3 DEF Piece
   <2>3. LiveOn(surface, rt, Again) BY <2>2 DEF AnswerInv
   <2> DEFINE again == Again
   <2>4. Again' = again BY <2>2 DEF Again
   <2>5. LiveOn(surface, rt, again) BY <2>3
   <2> HIDE DEF again
   <2>6. LiveOn(surface, rt', again) BY <2>1, <2>5, ParsesOn
   <2>7. AnswerTypes' BY <1>0, <2>2 DEF AnswerTypes
   <2> QED BY <2>2, <2>4, <2>6, <2>7 DEF AnswerInv
<1>4. CASE BodyError
   <2>1. /\ loop = "consume" /\ surface = "claude" /\ Settle(Terminal(ClaudeFail(rt, Failed)))
         /\ UNCHANGED <<surface, managed, retries, moved, gone>>
      BY <1>4 DEF BodyError
   <2>2. LiveOn(surface, rt, Again) BY <2>1 DEF AnswerInv
   <2>3. ClaudeOpen(rt) /\ BodyOf(rt, Due(rt)) BY <2>1, <2>2 DEF LiveOn, ClaudeLive
   <2> DEFINE s == ClaudeFail(rt, Failed)
              again == Again
   <2>4. ClaudeBlocks(s.said, s.out, TRUE) /\ Whole(s) BY <2>3, ClaudeFails
   <2>5. rt' = s /\ loop' = "over" BY <2>1 DEF Settle, Terminal
   <2>6. Again' = again BY <2>1 DEF Again
   <2> HIDE DEF s, again
   <2>7. RightOn(surface, rt', again, TRUE) BY <2>1, <2>4, <2>5 DEF RightOn
   <2>8. AnswerTypes' BY <1>0, <2>1, <2>5 DEF AnswerTypes
   <2> QED BY <1>1, <2>1, <2>5, <2>6, <2>7, <2>8
<1>5. CASE ClientLeaves
   <2>1. /\ loop = "consume" /\ gone' = TRUE /\ UNCHANGED <<surface, managed, retries, moved>>
      BY <1>5 DEF ClientLeaves
   <2>2. LiveOn(surface, rt, Again) BY <2>1 DEF AnswerInv
   <2>3. CASE surface \in {"chat", "responses"}
      <3>1. rt' = rt /\ loop' = "over" BY <1>5, <2>3 DEF ClientLeaves, Settle, Terminal
      <3> DEFINE no == ~gone'
                 again == Again
      <3>2. ~no BY <2>1
      <3>3. Again' = again BY <2>1 DEF Again
      <3>4. LiveOn(surface, rt, again) BY <2>2
      <3> HIDE DEF no, again
      <3>5. RightOn(surface, rt, again, no) BY <3>2, <3>4, LiveRight
      <3>6. AnswerTypes' BY <1>0, <2>1, <3>1 DEF AnswerTypes
      <3> QED BY <2>1, <3>1, <3>3, <3>5, <3>6 DEF AnswerInv, no
   <2>4. CASE surface \notin {"chat", "responses"}
      <3>1. Settle(FinalizeAnswer(FALSE, AllowDefer)) BY <1>5, <2>4 DEF ClientLeaves
      <3> DEFINE no == FALSE
      <3>2. no \in BOOLEAN /\ Settle(FinalizeAnswer(no, AllowDefer)) BY <3>1
      <3>3. gone' \in BOOLEAN BY <2>1
      <3> HIDE DEF no
      <3> QED BY <1>2, <2>1, <2>2, <3>2, <3>3
   <2> QED BY <2>3, <2>4
<1>6. CASE AttemptEnds
   <2>1. /\ loop = "consume" /\ UNCHANGED <<surface, managed, retries, moved, gone>>
      BY <1>6 DEF AttemptEnds
   <2>2. PICK filter \in BOOLEAN : Settle(FinalizeAnswer(filter, AllowDefer))
      BY <1>6 DEF AttemptEnds
   <2>3. LiveOn(surface, rt, Again) BY <2>1 DEF AnswerInv
   <2>4. gone' \in BOOLEAN BY <1>0, <2>1 DEF AnswerTypes
   <2> QED BY <1>2, <2>1, <2>2, <2>3, <2>4
(* What follows an attempt that left the answer empty is not the first. *)
<1>7. ASSUME EmptyOn(surface, rt, Again), Again', AnswerTypes', surface' = surface, NextAttempt
      PROVE  AnswerInv'
   <2> DEFINE yes == Again'
              again == Again
   <2>1. yes /\ EmptyOn(surface, rt, again) BY <1>7
   <2>2. loop' = "consume" /\ rt' = rt BY <1>7 DEF NextAttempt
   <2>3. surface' = surface /\ AnswerTypes' BY <1>7
   <2> HIDE DEF yes, again
   <2>4. LiveOn(surface, rt, yes) BY <2>1, EmptyLive
   <2> QED BY <2>2, <2>3, <2>4 DEF AnswerInv, yes
<1>8. ASSUME EmptyOn(surface, rt, Again), Again', AnswerTypes', surface' = surface, NoAttempt
      PROVE  AnswerInv'
   <2> DEFINE yes == Again'
              again == Again
   <2>1. yes /\ EmptyOn(surface, rt, again) /\ Again' = yes BY <1>8
   <2>2. PICK status \in {Unauthorized, Failed} : rt' = FailAnswer(status) BY <1>8 DEF NoAttempt
   <2>3. loop' = "over" /\ surface' = surface /\ AnswerTypes' BY <1>8 DEF NoAttempt
   <2> HIDE DEF yes, again
   <2>4. RightOn(surface, rt', yes, TRUE) BY <2>1, <2>2, FailsOn
   <2> QED BY <1>1, <2>1, <2>3, <2>4
<1>9. CASE RetrySame
   <2>1. /\ loop = "retry" /\ retries' = retries + 1 /\ (NextAttempt \/ NoAttempt)
         /\ UNCHANGED <<surface, managed, moved, gone>>
      BY <1>9 DEF RetrySame
   <2>2. EmptyOn(surface, rt, Again) BY <2>1 DEF AnswerInv
   <2>3. Again' BY <1>0, <2>1 DEF Again, AnswerTypes
   <2>4. loop' \in {"consume", "over"} BY <2>1 DEF NextAttempt, NoAttempt
   <2>5. AnswerTypes' BY <1>0, <2>1, <2>4 DEF AnswerTypes
   <2> QED BY <1>7, <1>8, <2>1, <2>2, <2>3, <2>5
<1>10. CASE RetryElsewhere
   <2>1. /\ loop = "retry" /\ retries >= StreamRetries /\ moved' = (moved \/ managed)
         /\ UNCHANGED <<surface, managed, retries, gone>>
      BY <1>10 DEF RetryElsewhere
   <2>2. EmptyOn(surface, rt, Again) /\ AllowDefer BY <2>1 DEF AnswerInv
   <2>3. managed BY <1>0, <2>1, <2>2, AnswerBounds DEF AllowDefer, AnswerTypes
   <2>4. moved' \in BOOLEAN /\ moved' BY <1>0, <2>1, <2>3 DEF AnswerTypes
   <2>5. Again' BY <2>4 DEF Again
   <2>6. CASE NextAttempt \/ NoAttempt
      <3>1. loop' \in {"consume", "over"} BY <2>6 DEF NextAttempt, NoAttempt
      <3>2. AnswerTypes' BY <1>0, <2>1, <2>4, <3>1 DEF AnswerTypes
      <3> QED BY <1>7, <1>8, <2>1, <2>2, <2>5, <2>6, <3>2
   <2>7. CASE Settle(FinalizeAnswer(FALSE, FALSE))
      <3> DEFINE no == FALSE
                 f == FinalizeAnswer(no, no)
                 yes == Again'
                 again == Again
      <3>1. no \in BOOLEAN /\ Settle(f) BY <2>7
      <3>2. yes /\ EmptyOn(surface, rt, again) /\ Again' = yes BY <2>2, <2>5
      <3> HIDE DEF no, yes, again
      <3>3. LiveOn(surface, rt, yes) BY <3>2, EmptyLive
      <3>4. \/ f.terminal /\ RightOn(surface, f.rt, yes, TRUE)
            \/ ~f.terminal /\ no /\ EmptyOn(surface, f.rt, yes)
         BY <3>1, <3>3, EndsOn
      <3> HIDE DEF f
      <3>5. \/ loop' = "over" /\ RightOn(surface, rt', yes, TRUE)
            \/ loop' = "retry" /\ no /\ EmptyOn(surface, rt', yes)
         BY <3>1, <3>4, Settles
      <3>6. loop' = "over" /\ RightOn(surface, rt', yes, TRUE) BY <3>5 DEF no
      <3>7. AnswerTypes' BY <1>0, <2>1, <2>4, <3>6 DEF AnswerTypes
      <3> QED BY <1>1, <2>1, <3>2, <3>6, <3>7
   <2> QED BY <1>10, <2>6, <2>7 DEF RetryElsewhere
<1>11. CASE UNCHANGED answerVars
   <2>1. /\ surface' = surface /\ managed' = managed /\ rt' = rt /\ retries' = retries
         /\ moved' = moved /\ gone' = gone /\ loop' = loop
      BY <1>11 DEF answerVars
   <2> QED BY <2>1 DEF AnswerInv, AnswerTypes, Again, AllowDefer
<1> QED
   BY <1>3, <1>4, <1>5, <1>6, <1>9, <1>10, <1>11 DEF AnswerNext, AnswerStep, AnswerOver

LEMMA AnswerInvAlways == AnswerSpec => []AnswerInv
BY AnswerInvInit, AnswerInvStep, PTL DEF AnswerSpec

(* What is right of a record is what is promised of it. *)
LEMMA RightPromised ==
    ASSUME RightOn(surface, rt, Again, Final), surface \in Surfaces,
           loop = "retry" => rt.held = 0
    PROVE  AnswerProtocol /\ AnswerWhole
<1> DEFINE final == Final
           again == Again
<1>1. RightOn(surface, rt, again, final) OBVIOUS
<1>2. /\ AnswerProtocol <=> CASE surface = "chat" -> ChatFrames(rt.out, final)
                              [] surface = "responses" -> ResponseItems(rt.out, again, final)
                              [] surface = "claude" -> ClaudeBlocks(rt.said, rt.out, final)
                              [] surface = "gemini" -> GeminiChunks(rt.said, rt.out, rt.tools, final)
   BY DEF AnswerProtocol, Again
<1> HIDE DEF final, again
<1>3. AnswerProtocol BY <1>1, <1>2 DEF RightOn
<1>4. InOrder(rt.said, rt.out) BY <1>1 DEF RightOn, Whole
<1>5. Events(rt.out, {"finish", "completed", "message_stop"}) # {} =>
         Written(rt.said, rt.out) \/ (surface = "gemini" /\ rt.tools)
   BY <1>1 DEF RightOn, Whole, EndMarks
<1> QED BY <1>3, <1>4, <1>5 DEF AnswerWhole

LEMMA AnswerInvPromised == AnswerInv => AnswerProtocol /\ AnswerWhole
<1> SUFFICES ASSUME AnswerInv PROVE AnswerProtocol /\ AnswerWhole OBVIOUS
<1> DEFINE final == Final
           again == Again
<1>1. AnswerTypes BY DEF AnswerInv
<1>2. CASE loop = "over"
   <2>1. final <=> ~gone BY <1>2 DEF Final
   <2>2. final = ~gone BY <1>1, <2>1 DEF AnswerTypes, Final
   <2>3. RightOn(surface, rt, Again, Final) BY <1>2, <2>2 DEF AnswerInv
   <2> QED BY <1>1, <1>2, <2>3, RightPromised DEF AnswerTypes
<1>3. CASE loop = "consume"
   <2>1. ~final BY <1>3 DEF Final
   <2>2. LiveOn(surface, rt, again) BY <1>3 DEF AnswerInv
   <2> HIDE DEF final, again
   <2>3. RightOn(surface, rt, again, final) BY <2>1, <2>2, LiveRight
   <2>4. RightOn(surface, rt, Again, Final) BY <2>3 DEF final, again
   <2> QED BY <1>1, <1>3, <2>4, RightPromised DEF AnswerTypes
<1>4. CASE loop = "retry"
   <2>1. ~final BY <1>4 DEF Final
   <2>2. EmptyOn(surface, rt, again) /\ rt.held = 0 BY <1>4 DEF AnswerInv, EmptyOn
   <2> HIDE DEF final, again
   <2>3. RightOn(surface, rt, again, final) BY <2>1, <2>2, EmptyRight
   <2>4. RightOn(surface, rt, Again, Final) BY <2>3 DEF final, again
   <2> QED BY <1>1, <2>2, <2>4, RightPromised DEF AnswerTypes
<1> QED BY <1>1, <1>2, <1>3, <1>4 DEF AnswerTypes

(* On every surface what is written keeps to the protocol of the surface,   *)
(* over any number of pieces, attempts and accounts, wherever the stream     *)
(* ends or the client leaves (stream_retry.go:39-147 and the runtimes of     *)
(* the four surfaces).                                                       *)
THEOREM AnswerProtocolCorrect == AnswerSpec => []AnswerProtocol
BY AnswerInvAlways, AnswerInvPromised, PTL

(* Every piece is written once at most and in order, and all of them before  *)
(* an end that is not an error; and an attempt that is followed by another   *)
(* leaves nothing in the sieve (stream_retry.go:58-133).                     *)
THEOREM AnswerWholeCorrect == AnswerSpec => []AnswerWhole
BY AnswerInvAlways, AnswerInvPromised, PTL
============================================================================
