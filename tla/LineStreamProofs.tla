-------------------------- MODULE LineStreamProofs --------------------------
(***************************************************************************)
(* The reader of a completion body of ds2api: however its lines are         *)
(* gathered, continued, repeated and cut off, what the client is given is   *)
(* the answer, for answers of any length and any number of rounds.          *)
(*                                                                         *)
(* Between DeepSeek and the client a character is in a line of the pipe, in *)
(* the buffer of the lines' goroutine, or in a result in the channel.  Marks *)
(* say how far each of these brings the client, and which message id it     *)
(* then knows: a line, a result and the buffer lead from one mark to the    *)
(* next, and the last mark is what DeepSeek has sent.                       *)
(***************************************************************************)
EXTENDS LineStream, SubsequenceProofs

Kind == {"thinking", "text"}
Batch == [thinking : Seq(Nat), text : Seq(Nat)]
Status == {"none", "WIP", "FINISHED", "INCOMPLETE", "CONTENT_FILTER"}
Line == [kind : Kind \cup {"none"}, chars : Seq(Nat), id : Nat, status : Status,
         quasi : BOOLEAN, sign : {"none", "done", "error"}]
Stop == {"none", "finished", "error", "filter"}
ResultType == [thinking : Seq(Nat), text : Seq(Nat), id : Nat, stop : Stop]

(* The characters after a up to b. *)
Span(a, b) == [i \in 1 .. b - a |-> a + i]

(* The first n characters of an answer as the client is to be given them. *)
First(ans, n) == [i \in 1 .. n |-> [kind |-> ans[i], char |-> i]]

AllOf(ans, kind, a, b) == \A i \in a + 1 .. b : ans[i] = kind

Mark == [chars : Nat, id : Nat]
Now == [chars |-> Len(answer), id |-> state.id]
Given == [chars |-> Len(seen), id |-> messageId]

Newer(id, old) == IF id > 0 THEN id ELSE old

(* A batch brings the client from m to n characters: it has those between,  *)
(* or repeats the first m, which are of one kind, and goes on.              *)
Fits(ans, b, m, n) ==
    /\ m <= n /\ n <= Len(ans)
    /\ \E a, c \in Nat :
         /\ a <= c /\ c <= n
         /\ b.thinking = Span(a, c) /\ AllOf(ans, "thinking", a, c)
         /\ b.text = Span(c, n) /\ AllOf(ans, "text", c, n)
         /\ \/ a = m
            \/ a = 0 /\ m < n /\ IF c = 0 THEN n >= MinSnapshot ELSE c > m /\ c >= MinSnapshot

(* What a result does for the client; nothing comes behind a stop.          *)
Brings(ans, now, r, m, n) ==
    /\ Fits(ans, r, m.chars, n.chars)
    /\ n.id = Newer(r.id, m.id)
    /\ r.stop # "none" => n.chars = now.chars
    /\ r.stop = "finished" => n.id = now.id

Chained(ans, now, results, m, n) ==
    \E f \in [0 .. Len(results) -> Mark] :
       /\ f[0] = m /\ f[Len(results)] = n
       /\ \A i \in 1 .. Len(results) : Brings(ans, now, results[i], f[i - 1], f[i])

(* What a line adds: one character, which it may name together with all     *)
(* before.                                                                 *)
Adds(ans, line, m, n) ==
    /\ n = m + 1 /\ n <= Len(ans) /\ StopOf(line) = "none"
    /\ IF line.kind = "none" THEN m > 0 /\ ans[n] = ans[m] ELSE ans[n] = line.kind
    /\ \/ line.chars = Span(m, n)
       \/ /\ line.chars = Span(0, n) /\ m > 0 /\ line.kind # "none"
          /\ AllOf(ans, line.kind, 0, n) /\ n >= MinSnapshot

LeadsTo(ans, line, m, n) ==
    /\ (line.chars = <<>> /\ n.chars = m.chars) \/ Adds(ans, line, m.chars, n.chars)
    /\ n.id = Newer(line.id, m.id)

Marked(ans, now, lines, f) ==
    /\ f \in [0 .. Len(lines) -> Mark]
    /\ f[0] = [chars |-> 0, id |-> 0] /\ f[Len(lines)] = now
    /\ \A j \in 1 .. Len(lines) : LeadsTo(ans, lines[j], f[j - 1], f[j])
    /\ \A j \in 1 .. Len(lines) : StopOf(lines[j]) # "none" => \A i \in j .. Len(lines) : f[i] = now
    /\ \A j \in 0 .. Len(lines) : f[j].chars <= Len(ans)

(* The kind of the last of n characters, or what a reader starts from. *)
KindAt(ans, n) == IF n = 0 THEN "thinking" ELSE ans[n]

----------------------------------------------------------------------------
ReaderTypes ==
    /\ answer \in Seq(Kind) /\ piped \in Seq(Line) /\ channel \in Seq(ResultType)
    /\ state \in [id : Nat, status : Status, finished : BOOLEAN]
    /\ round \in 0 .. MaxRounds /\ buffered \in Batch /\ pendingId \in Nat
    /\ scanned \in 0 .. Len(piped) /\ messageId \in Nat
    /\ seen = First(answer, Len(seen)) /\ Len(seen) \in 0 .. Len(answer)

Filtered == \E i \in DOMAIN piped : piped[i].status = "CONTENT_FILTER"

(* After a stop there is nothing more to come. *)
Failing == piped # <<>> /\ Last(piped).sign = "error"
Ceased == state.finished \/ pump = "ended" \/ Failing

Ceasing ==
    /\ (\E j \in DOMAIN piped : StopOf(piped[j]) # "none") => Ceased
    /\ (\E i \in DOMAIN channel : channel[i].stop # "none") => Ceased
    /\ (\E i \in DOMAIN channel : channel[i].stop = "filter") => Filtered
    /\ pump = "opening" => ~state.finished /\ round < MaxRounds
    /\ closed <=> engine # "running"
    /\ linesEnd # "none" => /\ buffered = Nothing
                            /\ cancelled \/ (scanned = Len(piped) /\ pump \in {"ended", "failed"})

(* A line that repeats is read at once, with nothing buffered. *)
RepeatsAlone ==
    \A j \in scanned + 1 .. Len(piped) :
       Len(piped[j].chars) > 1 => j = scanned + 1 /\ buffered = Nothing

(* Line, buffer, channel and client follow one another. *)
InStep(f, m) ==
    /\ Marked(answer, Now, piped, f)
    /\ m \in Mark /\ Chained(answer, Now, channel, Given, m)
    /\ Fits(answer, buffered, m.chars, f[scanned].chars)
    /\ f[scanned].id = Newer(pendingId, m.id)
    /\ currentType = KindAt(answer, f[scanned].chars)
Linked == \E f, m : InStep(f, m)

Settled ==
    /\ pump = "ended" => ~ShouldContinue \/ round = MaxRounds
    /\ Orderly => Len(seen) = Len(answer)
    /\ engine = "handler_requested" => messageId = state.id \/ Filtered

ReaderInv == ReaderTypes /\ Ceasing /\ RepeatsAlone /\ Linked /\ Settled

----------------------------------------------------------------------------
(* Spans *)

LEMMA SpanType ==
    ASSUME NEW a \in Nat, NEW b \in Nat, a <= b
    PROVE  /\ Span(a, b) \in Seq(Nat) /\ Len(Span(a, b)) = b - a
           /\ DOMAIN Span(a, b) = 1 .. b - a
           /\ \A i \in 1 .. b - a : Span(a, b)[i] = a + i
<1>1. b - a \in Nat /\ \A i \in 1 .. b - a : a + i \in Nat
  OBVIOUS
<1>2. Span(a, b) \in [1 .. b - a -> Nat]
  BY <1>1 DEF Span
<1> QED
  BY <1>1, <1>2 DEF Span

LEMMA SpanOfOne ==
    ASSUME NEW a \in Nat PROVE Span(a, a + 1) = <<a + 1>> /\ Span(a, a) = <<>>
<1>1. Span(a, a + 1) \in Seq(Nat) /\ Len(Span(a, a + 1)) = 1 /\ Span(a, a + 1)[1] = a + 1
  <2>1. a + 1 \in Nat /\ a <= a + 1 /\ (a + 1) - a = 1 /\ 1 \in 1 .. 1
    OBVIOUS
  <2>2. /\ Span(a, a + 1) \in Seq(Nat) /\ Len(Span(a, a + 1)) = (a + 1) - a
        /\ \A i \in 1 .. (a + 1) - a : Span(a, a + 1)[i] = a + i
    BY <2>1, SpanType
  <2> QED
    BY <2>1, <2>2
<1>2. Span(a, a) \in Seq(Nat) /\ Len(Span(a, a)) = 0
  <2>1. a <= a /\ a - a = 0
    OBVIOUS
  <2> QED
    BY <2>1, SpanType
<1>3. <<a + 1>> \in Seq(Nat) /\ Len(<<a + 1>>) = 1 /\ <<a + 1>>[1] = a + 1
  OBVIOUS
<1>4. Span(a, a + 1) = <<a + 1>>
  BY <1>1, <1>3, SeqEqual
<1>5. Span(a, a) = <<>>
  BY <1>2, EmptySeq
<1> QED
  BY <1>4, <1>5

LEMMA SpanEmpty ==
    ASSUME NEW a \in Nat, NEW b \in Nat, a <= b PROVE Span(a, b) = <<>> <=> a = b
<1>1. Span(a, b) \in Seq(Nat) /\ Len(Span(a, b)) = b - a
  BY SpanType
<1>2. a = b => Span(a, b) = <<>>
  BY SpanOfOne
<1>3. Span(a, b) = <<>> => b - a = 0
  BY <1>1, EmptySeq
<1>4. b - a = 0 => a = b
  OBVIOUS
<1> QED
  BY <1>2, <1>3, <1>4

LEMMA SpanGrows ==
    ASSUME NEW a \in Nat, NEW b \in Nat, NEW c \in Nat, a <= b, b <= c
    PROVE  Span(a, b) \o Span(b, c) = Span(a, c)
<1> DEFINE s == Span(a, b) \o Span(b, c)
<1>1. /\ Span(a, b) \in Seq(Nat) /\ Len(Span(a, b)) = b - a
      /\ \A i \in 1 .. b - a : Span(a, b)[i] = a + i
  BY SpanType
<1>2. /\ Span(b, c) \in Seq(Nat) /\ Len(Span(b, c)) = c - b
      /\ \A i \in 1 .. c - b : Span(b, c)[i] = b + i
  BY SpanType
<1>a. a <= c
  OBVIOUS
<1>3. /\ Span(a, c) \in Seq(Nat) /\ Len(Span(a, c)) = c - a
      /\ \A i \in 1 .. c - a : Span(a, c)[i] = a + i
  BY <1>a, SpanType
<1>4. s \in Seq(Nat) /\ Len(s) = c - a
  <2>1. s \in Seq(Nat) /\ Len(s) = Len(Span(a, b)) + Len(Span(b, c))
    BY <1>1, <1>2, ConcatProperties
  <2>2. (b - a) + (c - b) = c - a
    OBVIOUS
  <2> QED
    BY <1>1, <1>2, <2>1, <2>2
<1>5. ASSUME NEW i \in 1 .. Len(s) PROVE s[i] = Span(a, c)[i]
  <2>1. s[i] = IF i <= b - a THEN Span(a, b)[i] ELSE Span(b, c)[i - (b - a)]
    BY <1>1, <1>2, <1>4, ConcatProperties
  <2>2. CASE i <= b - a
    BY <1>1, <1>3, <1>4, <2>1, <2>2
  <2>3. CASE ~(i <= b - a)
    <3>1. i - (b - a) \in 1 .. c - b
      BY <1>4, <2>3
    <3>2. Span(b, c)[i - (b - a)] = b + (i - (b - a))
      BY <1>2, <3>1
    <3>3. Span(a, c)[i] = a + i
      BY <1>3, <1>4
    <3> QED
      BY <2>1, <2>3, <3>2, <3>3
  <2> QED
    BY <2>2, <2>3
<1> HIDE DEF s
<1>6. s = Span(a, c)
  BY <1>3, <1>4, <1>5, SeqEqual
<1> QED
  BY <1>6 DEF s

----------------------------------------------------------------------------
(* What the client has, and what a batch makes of it *)

LEMMA FirstType ==
    ASSUME NEW ans \in Seq(Kind), NEW n \in 0 .. Len(ans)
    PROVE  /\ First(ans, n) \in Seq([kind : Kind, char : Nat])
           /\ Len(First(ans, n)) = n /\ DOMAIN First(ans, n) = 1 .. n
           /\ \A i \in 1 .. n : First(ans, n)[i] = [kind |-> ans[i], char |-> i]
<1>1. Len(ans) \in Nat /\ n \in Nat /\ \A i \in 1 .. n : i \in Nat /\ ans[i] \in Kind
  BY LenProperties
<1>2. First(ans, n) \in [1 .. n -> [kind : Kind, char : Nat]]
  BY <1>1 DEF First
<1> QED
  BY <1>1, <1>2 DEF First

LEMMA KeptOfKind ==
    ASSUME NEW ans \in Seq(Kind), NEW n \in 0 .. Len(ans), NEW k \in Kind
    PROVE  /\ OfKind(First(ans, n), k) \in Seq(Nat)
           /\ \A i \in 1 .. Len(OfKind(First(ans, n), k)) : OfKind(First(ans, n), k)[i] \in 1 .. n
<1> DEFINE s == First(ans, n)
           P == {i \in DOMAIN s : s[i].kind = k}
           some == Picked(s, P)
<1>1. /\ s \in Seq([kind : Kind, char : Nat]) /\ DOMAIN s = 1 .. n
      /\ \A i \in 1 .. n : s[i] = [kind |-> ans[i], char |-> i]
  BY FirstType
<1>2. P \subseteq DOMAIN s
  OBVIOUS
<1>3. some \in Seq([kind : Kind, char : Nat])
  <2> HIDE DEF s, P
  <2> QED
    BY <1>1, <1>2, PickedInOrder
<1>4. \A i \in DOMAIN some : \E j \in P : some[i] = s[j]
  <2> HIDE DEF s, P
  <2> QED
    BY <1>1, <1>2, PickedRange
<1>5. \A i \in DOMAIN some : some[i].char \in 1 .. n
  <2> TAKE i \in DOMAIN some
  <2>1. PICK j \in P : some[i] = s[j]
    BY <1>4
  <2>2. j \in 1 .. n /\ s[j] = [kind |-> ans[j], char |-> j]
    BY <1>1
  <2> HIDE DEF s, P, some
  <2> QED
    BY <2>1, <2>2
<1>6. OfKind(s, k) = [i \in DOMAIN some |-> some[i].char]
  BY DEF OfKind
<1>7. DOMAIN some = 1 .. Len(some) /\ Len(some) \in Nat
  <2> HIDE DEF some
  <2> QED
    BY <1>3, LenProperties
<1> HIDE DEF some
<1>8. OfKind(s, k) \in [1 .. Len(some) -> Nat]
  <2>1. \A i \in 1 .. n : i \in Nat
    BY LenProperties
  <2> QED
    BY <1>5, <1>6, <1>7, <2>1
<1> HIDE DEF s
<1> QED
  BY <1>5, <1>6, <1>7, <1>8 DEF s

(* When all he has is of one kind, what is kept of it is all. *)
LEMMA AllKept ==
    ASSUME NEW ans \in Seq(Kind), NEW n \in 0 .. Len(ans), NEW k \in Kind, AllOf(ans, k, 0, n)
    PROVE  OfKind(First(ans, n), k) = Span(0, n)
<1> DEFINE s == First(ans, n)
<1>1. /\ s \in Seq([kind : Kind, char : Nat]) /\ DOMAIN s = 1 .. n
      /\ \A i \in 1 .. n : s[i] = [kind |-> ans[i], char |-> i]
  BY FirstType
<1>2. n \in Nat /\ n - 0 = n /\ \A i \in 1 .. n : 0 + i = i
  BY LenProperties
<1>3. \A i \in 1 .. n : ans[i] = k
  BY DEF AllOf
<1>4. {i \in DOMAIN s : s[i].kind = k} = DOMAIN s
  BY <1>1, <1>3
<1>5. Picked(s, {i \in DOMAIN s : s[i].kind = k}) = s
  <2> HIDE DEF s
  <2> QED
    BY <1>1, <1>4, PickedAll
<1>6. OfKind(s, k) = [i \in DOMAIN s |-> s[i].char]
  BY <1>5 DEF OfKind
<1>7. OfKind(s, k) = [i \in 1 .. n |-> i]
  BY <1>1, <1>6
<1>8. Span(0, n) = [i \in 1 .. n |-> i]
  BY <1>2 DEF Span
<1> QED
  BY <1>7, <1>8

(* What is behind the characters that the client has goes on from them. *)
LEMMA Continued ==
    ASSUME NEW ans \in Seq(Kind), NEW m \in Nat, NEW n \in Nat, m <= n, n <= Len(ans),
           NEW k \in Kind, AllOf(ans, k, m, n)
    PROVE  LET new == Span(m, n) IN
           First(ans, m) \o [i \in DOMAIN new |-> [kind |-> k, char |-> new[i]]] = First(ans, n)
<1> DEFINE R == [kind : Kind, char : Nat]
           new == Span(m, n)
           t == [i \in DOMAIN new |-> [kind |-> k, char |-> new[i]]]
           s == First(ans, m)
           u == First(ans, n)
<1>1. m \in 0 .. Len(ans) /\ n \in 0 .. Len(ans) /\ n - m \in Nat /\ Len(ans) \in Nat
  BY LenProperties
<1>2. DOMAIN new = 1 .. n - m /\ \A i \in 1 .. n - m : new[i] = m + i /\ m + i \in Nat
  BY SpanType
<1>3. /\ t \in Seq(R) /\ Len(t) = n - m
      /\ \A i \in 1 .. n - m : t[i] = [kind |-> k, char |-> m + i]
  <2> HIDE DEF new
  <2>1. t \in [1 .. n - m -> R]
    BY <1>2
  <2> QED
    BY <1>1, <1>2, <2>1
<1>4. s \in Seq(R) /\ Len(s) = m /\ \A i \in 1 .. m : s[i] = [kind |-> ans[i], char |-> i]
  BY <1>1, FirstType
<1>5. u \in Seq(R) /\ Len(u) = n /\ \A i \in 1 .. n : u[i] = [kind |-> ans[i], char |-> i]
  BY <1>1, FirstType
<1> HIDE DEF R, new, t, s, u
<1>6. /\ s \o t \in Seq(R) /\ Len(s \o t) = Len(s) + Len(t)
      /\ \A i \in 1 .. Len(s) + Len(t) : (s \o t)[i] = IF i <= Len(s) THEN s[i] ELSE t[i - Len(s)]
  <2>1. s \in Seq(R) /\ t \in Seq(R)
    BY <1>3, <1>4
  <2> QED
    BY <2>1, ConcatProperties
<1>7. Len(s \o t) = n
  BY <1>1, <1>3, <1>4, <1>6
<1>8. ASSUME NEW i \in 1 .. n PROVE (s \o t)[i] = u[i]
  <2>1. (s \o t)[i] = IF i <= m THEN s[i] ELSE t[i - m]
    BY <1>3, <1>4, <1>6, <1>7
  <2>2. CASE i <= m
    <3>1. i \in 1 .. m
      BY <2>2
    <3> QED
      BY <1>4, <1>5, <2>1, <2>2, <3>1
  <2>3. CASE ~(i <= m)
    <3>1. i - m \in 1 .. n - m /\ m + (i - m) = i /\ i \in m + 1 .. n
      BY <1>1, <2>3
    <3>2. ans[i] = k
      BY <3>1 DEF AllOf
    <3>3. t[i - m] = [kind |-> k, char |-> i]
      BY <1>3, <3>1
    <3> QED
      BY <1>5, <2>1, <2>3, <3>2, <3>3
  <2> QED
    BY <2>2, <2>3
<1>9. s \o t = u
  BY <1>5, <1>6, <1>7, <1>8, SeqEqual
<1> QED
  BY <1>9 DEF s, t, u, new

(* Characters he does not have are not taken for a repetition. *)
LEMMA FreshIsWhole ==
    ASSUME NEW ans \in Seq(Kind), NEW m \in Nat, NEW n \in Nat, m <= n, n <= Len(ans),
           NEW k \in Kind
    PROVE  Trim(OfKind(First(ans, m), k), Span(m, n)) = Span(m, n)
<1> DEFINE old == OfKind(First(ans, m), k)
           new == Span(m, n)
<1>1. /\ new \in Seq(Nat) /\ Len(new) = n - m /\ \A i \in 1 .. n - m : new[i] = m + i
  BY SpanType
<1>2. m \in 0 .. Len(ans)
  BY LenProperties
<1>3. /\ old \in Seq(Nat) /\ \A i \in 1 .. Len(old) : old[i] \in 1 .. m
  BY <1>2, KeptOfKind
<1>4. /\ Len(old) \in Nat /\ Len(new) \in Nat /\ n - m \in Nat
  BY <1>1, <1>3, LenProperties
<1> HIDE DEF old, new
<1>5. SUFFICES Trim(old, new) = new
  BY DEF old, new
<1>6. CASE Len(new) > Len(old) /\ IsPrefix(old, new)
  <2>1. Len(old) = 0
    <3> SUFFICES ASSUME Len(old) # 0 PROVE FALSE
      OBVIOUS
    <3>1. 1 \in 1 .. Len(old) /\ 1 \in 1 .. n - m /\ 1 \in Int /\ Len(old) \in Int
      BY <1>1, <1>4, <1>6
    <3>2. SubSeq(old, 1, Len(old)) = SubSeq(new, 1, Len(old))
      BY <1>6 DEF IsPrefix
    <3>3. SubSeq(old, 1, Len(old))[1] = old[1]
      <4>1. \A i \in 1 .. Len(old) : old[i] \in Nat
        BY <1>3, ElementOfSeq
      <4>2. \A i \in 1 .. Len(old) - 1 + 1 : SubSeq(old, 1, Len(old))[i] = old[1 + i - 1]
        BY <3>1, <4>1, SubSeqProperties
      <4>3. 1 \in 1 .. Len(old) - 1 + 1 /\ 1 + 1 - 1 = 1
        BY <3>1
      <4> QED
        BY <4>2, <4>3
    <3>4. SubSeq(new, 1, Len(old))[1] = new[1]
      <4>0. \A i \in 1 .. Len(old) : i \in 1 .. Len(new)
        BY <1>4, <1>6
      <4>1. \A i \in 1 .. Len(old) : new[i] \in Nat
        BY <1>1, <4>0, ElementOfSeq
      <4>2. \A i \in 1 .. Len(old) - 1 + 1 : SubSeq(new, 1, Len(old))[i] = new[1 + i - 1]
        BY <3>1, <4>1, SubSeqProperties
      <4>3. 1 \in 1 .. Len(old) - 1 + 1 /\ 1 + 1 - 1 = 1
        BY <3>1
      <4> QED
        BY <4>2, <4>3
    <3>5. old[1] \in 1 .. m /\ new[1] = m + 1
      BY <1>1, <1>3, <3>1
    <3> QED
      BY <3>2, <3>3, <3>4, <3>5
  <2>2. SubSeq(new, Len(old) + 1, Len(new)) = new
    BY <1>1, <2>1, SubSeqFull
  <2> QED
    BY <1>6, <2>2 DEF Trim
<1>7. CASE Len(new) < Len(old) /\ IsPrefix(new, old)
  <2>1. Len(new) = 0
    <3> SUFFICES ASSUME Len(new) # 0 PROVE FALSE
      OBVIOUS
    <3>1. 1 \in 1 .. Len(old) /\ 1 \in 1 .. n - m /\ 1 \in Int /\ Len(new) \in Int
      BY <1>1, <1>4, <1>7
    <3>2. SubSeq(new, 1, Len(new)) = SubSeq(old, 1, Len(new))
      BY <1>7 DEF IsPrefix
    <3>3. SubSeq(new, 1, Len(new)) = new
      BY <1>1, SubSeqFull
    <3>4. SubSeq(old, 1, Len(new))[1] = old[1]
      <4>0. \A i \in 1 .. Len(new) : i \in 1 .. Len(old)
        BY <1>4, <1>7
      <4>1. \A i \in 1 .. Len(new) : old[i] \in Nat
        BY <1>3, <4>0, ElementOfSeq
      <4>2. \A i \in 1 .. Len(new) - 1 + 1 : SubSeq(old, 1, Len(new))[i] = old[1 + i - 1]
        BY <3>1, <4>1, SubSeqProperties
      <4>3. 1 \in 1 .. Len(new) - 1 + 1 /\ 1 + 1 - 1 = 1
        BY <1>1, <3>1
      <4> QED
        BY <4>2, <4>3
    <3>5. old[1] \in 1 .. m /\ new[1] = m + 1
      BY <1>1, <1>3, <3>1
    <3> QED
      BY <3>2, <3>3, <3>4, <3>5
  <2>2. new = <<>>
    BY <1>1, <2>1, EmptySeq
  <2>3. Trim(old, new) = new \/ Trim(old, new) = <<>>
    BY <1>4, <1>7 DEF Trim
  <2> QED
    BY <2>2, <2>3
<1>8. CASE /\ ~(Len(new) > Len(old) /\ IsPrefix(old, new))
           /\ ~(Len(new) < Len(old) /\ IsPrefix(new, old))
  BY <1>8 DEF Trim
<1> QED
  BY <1>6, <1>7, <1>8

LEMMA ApplyFresh ==
    ASSUME NEW ans \in Seq(Kind), NEW m \in Nat, NEW n \in Nat, m <= n, n <= Len(ans),
           NEW k \in Kind, AllOf(ans, k, m, n)
    PROVE  Apply(First(ans, m), k, Span(m, n)) = First(ans, n)
<1>1. Trim(OfKind(First(ans, m), k), Span(m, n)) = Span(m, n)
  BY FreshIsWhole
<1>2. LET new == Span(m, n) IN
      First(ans, m) \o [i \in DOMAIN new |-> [kind |-> k, char |-> new[i]]] = First(ans, n)
  BY Continued
<1> QED
  BY <1>1, <1>2 DEF Apply

(* All the characters once more, and some: those he has are left out. *)
LEMMA ApplyAgain ==
    ASSUME NEW ans \in Seq(Kind), NEW m \in Nat, NEW n \in Nat, m < n, n <= Len(ans),
           NEW k \in Kind, AllOf(ans, k, 0, n), n >= MinSnapshot
    PROVE  Apply(First(ans, m), k, Span(0, n)) = First(ans, n)
<1> DEFINE old == Span(0, m)
           new == Span(0, n)
<1>1. m \in 0 .. Len(ans) /\ 0 <= m /\ 0 <= n /\ m <= n /\ n - 0 = n /\ m - 0 = m /\ 0 \in Nat
  BY LenProperties
<1>2. AllOf(ans, k, 0, m) /\ AllOf(ans, k, m, n)
  BY DEF AllOf
<1>3. OfKind(First(ans, m), k) = old
  BY <1>1, <1>2, AllKept
<1>4. /\ old \in Seq(Nat) /\ Len(old) = m - 0 /\ \A i \in 1 .. m - 0 : old[i] = 0 + i
  BY <1>1, SpanType
<1>5. /\ new \in Seq(Nat) /\ Len(new) = n - 0 /\ \A i \in 1 .. n - 0 : new[i] = 0 + i
  BY <1>1, SpanType
<1> HIDE DEF old, new
<1>6. IsPrefix(old, new)
  <2>1. SubSeq(old, 1, Len(old)) = old
    BY <1>4, SubSeqFull
  <2>2. /\ SubSeq(new, 1, m) \in Seq(Nat)
        /\ Len(SubSeq(new, 1, m)) = IF 1 <= m THEN m - 1 + 1 ELSE 0
        /\ \A i \in 1 .. m - 1 + 1 : SubSeq(new, 1, m)[i] = new[1 + i - 1]
    <3>1. \A i \in 1 .. m : new[i] \in Nat
      BY <1>1, <1>5
    <3>2. 1 \in Int /\ m \in Int
      OBVIOUS
    <3> QED
      BY <3>1, <3>2, SubSeqProperties
  <2>3. Len(SubSeq(new, 1, m)) = m
    BY <2>2
  <2>4. \A i \in 1 .. m : SubSeq(new, 1, m)[i] = old[i]
    <3> TAKE i \in 1 .. m
    <3>1. i \in 1 .. m - 1 + 1 /\ 1 + i - 1 = i /\ i \in 1 .. n /\ 0 + i = i
      BY <1>1
    <3> QED
      BY <1>1, <1>4, <1>5, <2>2, <3>1
  <2>5. SubSeq(new, 1, m) = old
    BY <1>1, <1>4, <2>2, <2>3, <2>4, SeqEqual
  <2> QED
    BY <1>1, <1>4, <1>5, <2>1, <2>5 DEF IsPrefix
<1>7. SubSeq(new, m + 1, n) = Span(m, n)
  <2>1. /\ SubSeq(new, m + 1, n) \in Seq(Nat)
        /\ Len(SubSeq(new, m + 1, n)) = IF m + 1 <= n THEN n - (m + 1) + 1 ELSE 0
        /\ \A i \in 1 .. n - (m + 1) + 1 : SubSeq(new, m + 1, n)[i] = new[(m + 1) + i - 1]
    <3>1. \A i \in m + 1 .. n : new[i] \in Nat
      BY <1>1, <1>5
    <3>2. m + 1 \in Int /\ n \in Int
      OBVIOUS
    <3> QED
      BY <3>1, <3>2, SubSeqProperties
  <2>2. Len(SubSeq(new, m + 1, n)) = n - m
    BY <2>1
  <2>3. /\ Span(m, n) \in Seq(Nat) /\ Len(Span(m, n)) = n - m
        /\ \A i \in 1 .. n - m : Span(m, n)[i] = m + i
    BY <1>1, SpanType
  <2>4. \A i \in 1 .. n - m : SubSeq(new, m + 1, n)[i] = Span(m, n)[i]
    <3> TAKE i \in 1 .. n - m
    <3>1. /\ i \in 1 .. n - (m + 1) + 1 /\ (m + 1) + i - 1 = m + i
          /\ m + i \in 1 .. n - 0 /\ 0 + (m + i) = m + i
      BY <1>1
    <3> QED
      BY <1>5, <2>1, <2>3, <3>1
  <2> QED
    BY <2>1, <2>2, <2>3, <2>4, SeqEqual
<1>8. Trim(old, new) = Span(m, n)
  <2>1. ~(Len(new) < MinSnapshot) /\ Len(new) > Len(old)
    BY <1>1, <1>4, <1>5, BodyBounds
  <2>2. Trim(old, new) = SubSeq(new, Len(old) + 1, Len(new))
    BY <1>6, <2>1 DEF Trim
  <2> QED
    BY <1>1, <1>4, <1>5, <1>7, <2>2
<1>9. LET more == Span(m, n) IN
      First(ans, m) \o [i \in DOMAIN more |-> [kind |-> k, char |-> more[i]]] = First(ans, n)
  BY <1>1, <1>2, Continued
<1> QED
  BY <1>3, <1>8, <1>9 DEF Apply, new

(* A batch that fits gives him the next characters. *)
LEMMA FitsGives ==
    ASSUME NEW ans \in Seq(Kind), NEW m \in Nat, NEW n \in Nat, NEW b, Fits(ans, b, m, n)
    PROVE  Apply(Apply(First(ans, m), "thinking", b.thinking), "text", b.text) = First(ans, n)
<1>1. PICK a \in Nat, c \in Nat :
         /\ a <= c /\ c <= n
         /\ b.thinking = Span(a, c) /\ AllOf(ans, "thinking", a, c)
         /\ b.text = Span(c, n) /\ AllOf(ans, "text", c, n)
         /\ \/ a = m
            \/ a = 0 /\ m < n /\ IF c = 0 THEN n >= MinSnapshot ELSE c > m /\ c >= MinSnapshot
  BY DEF Fits
<1>2. m <= n /\ n <= Len(ans) /\ Len(ans) \in Nat /\ c <= Len(ans) /\ m <= Len(ans)
  BY <1>1, LenProperties DEF Fits
<1>3. "thinking" \in Kind /\ "text" \in Kind
  BY DEF Kind
<1>4. CASE a = m
  <2>1. Apply(First(ans, m), "thinking", b.thinking) = First(ans, c)
    BY <1>1, <1>2, <1>3, <1>4, ApplyFresh
  <2>2. Apply(First(ans, c), "text", b.text) = First(ans, n)
    BY <1>1, <1>2, <1>3, ApplyFresh
  <2> QED
    BY <2>1, <2>2
<1>5. CASE a = 0 /\ m < n /\ c = 0 /\ n >= MinSnapshot
  <2>1. m <= m /\ AllOf(ans, "thinking", m, m)
    BY DEF AllOf
  <2>2. b.thinking = Span(m, m)
    BY <1>1, <1>5, SpanOfOne
  <2>3. Apply(First(ans, m), "thinking", b.thinking) = First(ans, m)
    BY <1>2, <1>3, <2>1, <2>2, ApplyFresh
  <2>4. Apply(First(ans, m), "text", b.text) = First(ans, n)
    BY <1>1, <1>2, <1>3, <1>5, ApplyAgain
  <2> QED
    BY <2>3, <2>4
<1>6. CASE a = 0 /\ c > m /\ c >= MinSnapshot
  <2>1. Apply(First(ans, m), "thinking", b.thinking) = First(ans, c)
    BY <1>1, <1>2, <1>3, <1>6, ApplyAgain
  <2>2. Apply(First(ans, c), "text", b.text) = First(ans, n)
    BY <1>1, <1>2, <1>3, ApplyFresh
  <2> QED
    BY <2>1, <2>2
<1> QED
  BY <1>1, <1>4, <1>5, <1>6

(* Nothing brings him no further. *)
LEMMA NothingFits ==
    ASSUME NEW ans \in Seq(Kind), NEW m \in Nat, NEW n \in Nat
    PROVE  Fits(ans, Nothing, m, n) <=> m = n /\ n <= Len(ans)
<1>1. ASSUME Fits(ans, Nothing, m, n) PROVE m = n /\ n <= Len(ans)
  <2>1. PICK a \in Nat, c \in Nat :
           /\ a <= c /\ c <= n
           /\ Nothing.thinking = Span(a, c) /\ Nothing.text = Span(c, n)
           /\ a = m \/ (a = 0 /\ m < n)
    BY <1>1 DEF Fits
  <2>2. Span(a, c) = <<>> /\ Span(c, n) = <<>>
    BY <2>1 DEF Nothing
  <2>3. a = c /\ c = n
    BY <2>1, <2>2, SpanEmpty
  <2> QED
    BY <1>1, <2>1, <2>3 DEF Fits
<1>2. ASSUME m = n, n <= Len(ans) PROVE Fits(ans, Nothing, m, n)
  <2>1. Span(n, n) = <<>>
    BY SpanOfOne
  <2>2. AllOf(ans, "thinking", n, n) /\ AllOf(ans, "text", n, n) /\ n <= n
    BY DEF AllOf
  <2> QED
    BY <1>2, <2>1, <2>2 DEF Fits, Nothing
<1> QED
  BY <1>1, <1>2

----------------------------------------------------------------------------
(* The buffer *)

LEMMA NothingType == Nothing \in Batch
<1>1. <<>> \in Seq(Nat)
  BY EmptySeq
<1> QED
  BY <1>1 DEF Nothing, Batch

LEMMA SpanOfMany ==
    ASSUME NEW n \in Nat, n > 1 PROVE Len(Span(0, n)) > 1
<1>1. 0 <= n /\ n - 0 = n
  OBVIOUS
<1> QED
  BY <1>1, SpanType

(* What a line adds to what is buffered, or alone when that is sent first.  *)
LEMMA LineBuffered ==
    ASSUME NEW ans \in Seq(Kind), NEW b \in Batch, NEW m \in Nat, NEW p \in Nat, Fits(ans, b, m, p),
           NEW line \in Line, NEW q \in Nat, Adds(ans, line, p, q),
           NEW k, k = (IF line.kind = "none" THEN KindAt(ans, p) ELSE line.kind),
           b = Nothing \/ line.chars = Span(p, q)
    PROVE  /\ k \in Kind /\ k = ans[q] /\ q = p + 1 /\ q <= Len(ans) /\ line.chars # <<>>
           /\ (k = "thinking" /\ b.text # <<>>) =>
                 /\ Buffering(Nothing, k, line.chars) \in Batch \ {Nothing}
                 /\ Fits(ans, Buffering(Nothing, k, line.chars), p, q)
           /\ ~(k = "thinking" /\ b.text # <<>>) =>
                 /\ Buffering(b, k, line.chars) \in Batch \ {Nothing}
                 /\ Fits(ans, Buffering(b, k, line.chars), m, q)
<1>1. /\ q = p + 1 /\ q <= Len(ans) /\ Len(ans) \in Nat /\ line.chars \in Seq(Nat)
      /\ b.thinking \in Seq(Nat) /\ b.text \in Seq(Nat) /\ p <= Len(ans) /\ q \in 1 .. Len(ans)
  <2>1. q = p + 1 /\ q <= Len(ans)
    BY DEF Adds
  <2>2. Len(ans) \in Nat
    BY LenProperties
  <2>3. line.chars \in Seq(Nat) /\ b.thinking \in Seq(Nat) /\ b.text \in Seq(Nat)
    BY DEF Line, Batch
  <2> QED
    BY <2>1, <2>2, <2>3
<1>2. k = ans[q]
  <2>1. CASE line.kind = "none"
    <3>1. p > 0 /\ ans[q] = ans[p]
      BY <2>1 DEF Adds
    <3>2. k = KindAt(ans, p) /\ p # 0
      BY <2>1, <3>1
    <3> QED
      BY <3>1, <3>2 DEF KindAt
  <2>2. CASE line.kind # "none"
    BY <2>2 DEF Adds
  <2> QED
    BY <2>1, <2>2
<1>3. k \in Kind
  BY <1>1, <1>2, ElementOfSeq
<1>4. /\ \/ line.chars = Span(p, q)
         \/ /\ line.chars = Span(0, q) /\ p > 0 /\ AllOf(ans, k, 0, q) /\ q >= MinSnapshot
            /\ b = Nothing /\ m = p
      /\ line.chars # <<>>
  <2>1. CASE line.chars = Span(p, q)
    BY <1>1, <2>1, SpanEmpty
  <2>2. CASE /\ line.chars = Span(0, q) /\ p > 0 /\ line.kind # "none"
             /\ AllOf(ans, line.kind, 0, q) /\ q >= MinSnapshot
    <3>1. q > 1 /\ 0 <= q /\ 0 \in Nat /\ 0 # q
      BY <1>1, <2>2
    <3>2. b = Nothing => m = p
      BY NothingFits
    <3>3. line.chars # <<>>
      BY <2>2, <3>1, SpanEmpty
    <3>4. AllOf(ans, k, 0, q)
      BY <2>2
    <3> QED
      BY <2>2, <3>2, <3>3, <3>4
  <2> QED
    BY <2>1, <2>2 DEF Adds
<1>5. AllOf(ans, k, p, q)
  BY <1>1, <1>2 DEF AllOf
<1>6. /\ Buffering(Nothing, "thinking", line.chars) = [thinking |-> line.chars, text |-> <<>>]
      /\ Buffering(Nothing, "text", line.chars) = [thinking |-> <<>>, text |-> line.chars]
  <2>1. <<>> \o line.chars = line.chars
    BY <1>1, ConcatEmptySeq
  <2> QED
    BY <2>1 DEF Nothing, Buffering
<1>7. /\ Buffering(b, "thinking", line.chars)
            = [thinking |-> b.thinking \o line.chars, text |-> b.text]
      /\ Buffering(b, "text", line.chars)
            = [thinking |-> b.thinking, text |-> b.text \o line.chars]
  BY DEF Batch, Buffering
<1>8. Span(q, q) = <<>> /\ Span(p, p) = <<>> /\ Span(0, 0) = <<>>
  BY SpanOfOne
<1>9. AllOf(ans, "text", q, q) /\ AllOf(ans, "thinking", p, p) /\ AllOf(ans, "thinking", 0, 0)
  BY DEF AllOf
<1>10. ASSUME k = "thinking", b.text # <<>>
       PROVE  /\ Buffering(Nothing, k, line.chars) \in Batch \ {Nothing}
              /\ Fits(ans, Buffering(Nothing, k, line.chars), p, q)
  <2>1. line.chars = Span(p, q)
    BY <1>4, <1>10 DEF Nothing
  <2>2. Buffering(Nothing, k, line.chars) = [thinking |-> Span(p, q), text |-> Span(q, q)]
    BY <1>6, <1>8, <1>10, <2>1
  <2>3. [thinking |-> Span(p, q), text |-> Span(q, q)] \in Batch \ {Nothing}
    <3>1. <<>> \in Seq(Nat) /\ Span(p, q) \in Seq(Nat) /\ Span(p, q) # <<>>
      BY <1>1, <1>4, <2>1, EmptySeq
    <3> QED
      BY <1>8, <3>1 DEF Batch, Nothing
  <2>4. p <= q /\ q <= q
    BY <1>1
  <2>5. Fits(ans, [thinking |-> Span(p, q), text |-> Span(q, q)], p, q)
    BY <1>1, <1>5, <1>9, <1>10, <2>4 DEF Fits
  <2> QED
    BY <2>2, <2>3, <2>5
<1>11. ASSUME ~(k = "thinking" /\ b.text # <<>>)
       PROVE  /\ Buffering(b, k, line.chars) \in Batch \ {Nothing}
              /\ Fits(ans, Buffering(b, k, line.chars), m, q)
  <2>1. PICK a \in Nat, c \in Nat :
         /\ a <= c /\ c <= p
         /\ b.thinking = Span(a, c) /\ AllOf(ans, "thinking", a, c)
         /\ b.text = Span(c, p) /\ AllOf(ans, "text", c, p)
         /\ \/ a = m
            \/ a = 0 /\ m < p /\ IF c = 0 THEN p >= MinSnapshot ELSE c > m /\ c >= MinSnapshot
    BY DEF Fits
  <2>2. m <= p /\ m <= q /\ a <= p /\ c <= q /\ p <= q /\ q <= q /\ MinSnapshot \in Nat
    BY <1>1, <2>1, BodyBounds DEF Fits
  <2>3. CASE k = "thinking" /\ line.chars = Span(p, q)
    <3>1. c = p
      BY <1>11, <2>1, <2>3, SpanEmpty
    <3>2. Span(a, p) \o Span(p, q) = Span(a, q)
      BY <2>1, <2>2, SpanGrows
    <3>3. Buffering(b, k, line.chars) = [thinking |-> Span(a, q), text |-> Span(q, q)]
      BY <1>7, <1>8, <2>1, <2>3, <3>1, <3>2
    <3>4. AllOf(ans, "thinking", a, q)
      BY <1>1, <1>5, <2>1, <2>3, <3>1 DEF AllOf
    <3>5. a <= q /\ a # q
      BY <1>1, <2>2
    <3>6. [thinking |-> Span(a, q), text |-> Span(q, q)] \in Batch \ {Nothing}
      <4>1. <<>> \in Seq(Nat) /\ Span(a, q) \in Seq(Nat) /\ Span(a, q) # <<>>
        BY <3>5, EmptySeq, SpanType, SpanEmpty
      <4> QED
        BY <1>8, <4>1 DEF Batch, Nothing
    <3>7. \/ a = m
          \/ a = 0 /\ m < q /\ q # 0 /\ q > m /\ q >= MinSnapshot
      BY <1>1, <2>1, <2>2, <3>1
    <3>8. Fits(ans, [thinking |-> Span(a, q), text |-> Span(q, q)], m, q)
      BY <1>1, <1>9, <2>2, <3>4, <3>5, <3>7 DEF Fits
    <3> QED
      BY <3>3, <3>6, <3>8
  <2>4. CASE k = "text" /\ line.chars = Span(p, q)
    <3>1. Span(c, p) \o Span(p, q) = Span(c, q)
      BY <2>1, <2>2, SpanGrows
    <3>2. Buffering(b, k, line.chars) = [thinking |-> Span(a, c), text |-> Span(c, q)]
      BY <1>7, <2>1, <2>4, <3>1
    <3>3. AllOf(ans, "text", c, q)
      BY <1>1, <1>5, <2>1, <2>4 DEF AllOf
    <3>4. c # q
      BY <1>1, <2>1
    <3>5. [thinking |-> Span(a, c), text |-> Span(c, q)] \in Batch \ {Nothing}
      <4>1. Span(a, c) \in Seq(Nat) /\ Span(c, q) \in Seq(Nat) /\ Span(c, q) # <<>>
        BY <2>1, <2>2, <3>4, SpanType, SpanEmpty
      <4> QED
        BY <4>1 DEF Batch, Nothing
    <3>6. \/ a = m
          \/ a = 0 /\ m < q /\ IF c = 0 THEN q >= MinSnapshot ELSE c > m /\ c >= MinSnapshot
      BY <1>1, <2>1, <2>2
    <3>7. Fits(ans, [thinking |-> Span(a, c), text |-> Span(c, q)], m, q)
      BY <1>1, <2>1, <2>2, <3>3, <3>6 DEF Fits
    <3> QED
      BY <3>2, <3>5, <3>7
  <2>5. CASE /\ line.chars = Span(0, q) /\ p > 0 /\ AllOf(ans, k, 0, q) /\ q >= MinSnapshot
             /\ b = Nothing /\ m = p
    <3>1. 0 # q /\ 0 <= q /\ m < q /\ 0 <= 0 /\ q - 0 = q
      BY <1>1, <2>5
    <3>2. Span(0, q) \in Seq(Nat) /\ Span(0, q) # <<>> /\ <<>> \in Seq(Nat)
      BY <3>1, SpanType, SpanEmpty, EmptySeq
    <3>3. CASE k = "thinking"
      <4>1. Buffering(b, k, line.chars) = [thinking |-> Span(0, q), text |-> Span(q, q)]
        BY <1>6, <1>8, <2>5, <3>3
      <4>2. [thinking |-> Span(0, q), text |-> Span(q, q)] \in Batch \ {Nothing}
        BY <1>8, <3>2 DEF Batch, Nothing
      <4>3. Fits(ans, [thinking |-> Span(0, q), text |-> Span(q, q)], m, q)
        BY <1>1, <1>9, <2>2, <2>5, <3>1, <3>3 DEF Fits
      <4> QED
        BY <4>1, <4>2, <4>3
    <3>4. CASE k = "text"
      <4>1. Buffering(b, k, line.chars) = [thinking |-> Span(0, 0), text |-> Span(0, q)]
        BY <1>6, <1>8, <2>5, <3>4
      <4>2. [thinking |-> Span(0, 0), text |-> Span(0, q)] \in Batch \ {Nothing}
        BY <1>8, <3>2 DEF Batch, Nothing
      <4>3. Fits(ans, [thinking |-> Span(0, 0), text |-> Span(0, q)], m, q)
        BY <1>1, <1>9, <2>2, <2>5, <3>1, <3>4 DEF Fits
      <4> QED
        BY <4>1, <4>2, <4>3
    <3> QED
      BY <1>3, <3>3, <3>4 DEF Kind
  <2> QED
    BY <1>3, <1>4, <2>3, <2>4, <2>5 DEF Kind
<1> QED
  BY <1>1, <1>2, <1>3, <1>4, <1>10, <1>11

----------------------------------------------------------------------------
(* The channel *)

LEMMA ChainedNone ==
    ASSUME NEW ans, NEW now, NEW m \in Mark, NEW n \in Mark
    PROVE  Chained(ans, now, <<>>, m, n) <=> m = n
<1>1. Len(<<>>) = 0
  BY EmptySeq
<1>2. ASSUME Chained(ans, now, <<>>, m, n) PROVE m = n
  BY <1>1, <1>2 DEF Chained
<1>3. ASSUME m = n PROVE Chained(ans, now, <<>>, m, n)
  <2> DEFINE f == [i \in 0 .. 0 |-> m]
  <2>1. f \in [0 .. 0 -> Mark] /\ f[0] = m
    OBVIOUS
  <2>2. \A i \in 1 .. 0 : Brings(ans, now, <<>>[i], f[i - 1], f[i])
    OBVIOUS
  <2> HIDE DEF f
  <2> QED
    BY <1>1, <1>3, <2>1, <2>2 DEF Chained
<1> QED
  BY <1>2, <1>3

LEMMA ChainedOne ==
    ASSUME NEW ans, NEW now, NEW ch \in Seq(ResultType), NEW m, NEW n, Chained(ans, now, ch, m, n),
           NEW r \in ResultType, NEW o \in Mark, Brings(ans, now, r, n, o)
    PROVE  Chained(ans, now, Append(ch, r), m, o)
<1> DEFINE N == Len(ch)
           new == Append(ch, r)
<1>1. PICK f \in [0 .. N -> Mark] :
         /\ f[0] = m /\ f[N] = n
         /\ \A i \in 1 .. N : Brings(ans, now, ch[i], f[i - 1], f[i])
  BY DEF Chained
<1>2. N \in Nat
  BY LenProperties
<1>3. /\ Len(new) = N + 1 /\ new[N + 1] = r
      /\ \A i \in 1 .. N : new[i] = ch[i]
  BY AppendProperties
<1> DEFINE g == [i \in 0 .. N + 1 |-> IF i = N + 1 THEN o ELSE f[i]]
<1> HIDE DEF N, new
<1>4. g \in [0 .. N + 1 -> Mark] /\ g[N + 1] = o /\ \A i \in 0 .. N : g[i] = f[i]
  BY <1>1, <1>2
<1>5. g[0] = m
  BY <1>1, <1>2, <1>4
<1> HIDE DEF g
<1>6. ASSUME NEW i \in 1 .. N + 1 PROVE Brings(ans, now, new[i], g[i - 1], g[i])
  <2>1. CASE i = N + 1
    <3>1. i - 1 = N /\ N \in 0 .. N
      BY <1>2, <2>1
    <3>2. g[i - 1] = n
      BY <1>1, <1>4, <3>1
    <3> QED
      BY <1>3, <1>4, <2>1, <3>2
  <2>2. CASE i # N + 1
    <3>1. i \in 1 .. N /\ i \in 0 .. N /\ i - 1 \in 0 .. N
      BY <1>2, <2>2
    <3> QED
      BY <1>1, <1>3, <1>4, <3>1
  <2> QED
    BY <2>1, <2>2
<1> QED
  BY <1>3, <1>4, <1>5, <1>6 DEF Chained, new

LEMMA ChainedTail ==
    ASSUME NEW ans, NEW now, NEW ch \in Seq(ResultType), ch # <<>>, NEW m, NEW n,
           Chained(ans, now, ch, m, n)
    PROVE  \E o \in Mark : Brings(ans, now, Head(ch), m, o) /\ Chained(ans, now, Tail(ch), o, n)
<1> DEFINE N == Len(ch)
           rest == Tail(ch)
<1>1. PICK f \in [0 .. N -> Mark] :
         /\ f[0] = m /\ f[N] = n
         /\ \A i \in 1 .. N : Brings(ans, now, ch[i], f[i - 1], f[i])
  BY DEF Chained
<1>2. N \in Nat \ {0}
  BY EmptySeq
<1>3. /\ Len(rest) = N - 1 /\ \A i \in 1 .. Len(rest) : rest[i] = ch[i + 1]
  BY HeadTailProperties
<1>4. Head(ch) = ch[1]
  OBVIOUS
<1> HIDE DEF N, rest
<1> DEFINE g == [i \in 0 .. N - 1 |-> f[i + 1]]
<1>5. g \in [0 .. N - 1 -> Mark] /\ \A i \in 0 .. N - 1 : g[i] = f[i + 1]
  BY <1>1, <1>2
<1>6. g[0] = f[1] /\ g[N - 1] = n
  BY <1>1, <1>2, <1>5
<1> HIDE DEF g
<1>7. f[1] \in Mark /\ Brings(ans, now, Head(ch), m, f[1])
  <2>1. 1 \in 1 .. N /\ 1 \in 0 .. N /\ 1 - 1 = 0
    BY <1>2
  <2> QED
    BY <1>1, <1>4, <2>1
<1>8. ASSUME NEW i \in 1 .. N - 1 PROVE Brings(ans, now, rest[i], g[i - 1], g[i])
  <2>1. /\ i + 1 \in 1 .. N /\ i - 1 \in 0 .. N - 1 /\ i \in 0 .. N - 1
        /\ (i - 1) + 1 = i /\ (i + 1) - 1 = i
    BY <1>2
  <2>2. Brings(ans, now, ch[i + 1], f[i], f[i + 1])
    BY <1>1, <2>1
  <2> QED
    BY <1>3, <1>5, <2>1, <2>2
<1>9. Chained(ans, now, rest, f[1], n)
  BY <1>3, <1>5, <1>6, <1>8 DEF Chained
<1> QED
  BY <1>7, <1>9 DEF rest

(* Results that go further, and stop no more than they did. *)
SentOn(ans, now, ch, sent, m, o) ==
    /\ sent \in Seq(ResultType) /\ Chained(ans, now, sent, m, o)
    /\ \A i \in DOMAIN sent : sent[i].stop # "none" => i \in DOMAIN ch /\ sent[i] = ch[i]

(* The buffer, sent on. *)
LEMMA ChainedFlush ==
    ASSUME NEW ans \in Seq(Kind), NEW now, NEW ch \in Seq(ResultType), NEW m, NEW n \in Mark,
           Chained(ans, now, ch, m, n),
           NEW b \in Batch, NEW p \in Nat, Fits(ans, b, n.chars, p), NEW id \in Nat
    PROVE  \E o \in Mark : /\ SentOn(ans, now, ch, ch \o Flushed(b, id), m, o) /\ o.chars = p
                           /\ o.id = IF b = Nothing THEN n.id ELSE Newer(id, n.id)
<1>1. n.chars \in Nat /\ n.id \in Nat /\ n = [chars |-> n.chars, id |-> n.id]
  BY DEF Mark
<1>2. CASE b = Nothing
  <2>1. ch \o Flushed(b, id) = ch
    BY <1>2, ConcatEmptySeq DEF Flushed
  <2>2. n.chars = p
    BY <1>1, <1>2, NothingFits
  <2>3. SentOn(ans, now, ch, ch, m, n)
    BY DEF SentOn
  <2> QED
    BY <1>2, <2>1, <2>2, <2>3
<1>3. CASE b # Nothing
  <2> DEFINE r == Result(b, id, "none")
             new == Append(ch, r)
             o == [chars |-> p, id |-> Newer(id, n.id)]
  <2>1. r \in ResultType /\ r.thinking = b.thinking /\ r.text = b.text /\ r.id = id /\ r.stop = "none"
    <3>1. b.thinking \in Seq(Nat) /\ b.text \in Seq(Nat)
      BY DEF Batch
    <3>2. "none" \in Stop
      BY DEF Stop
    <3> QED
      BY <3>1, <3>2 DEF Result, ResultType
  <2>2. o \in Mark /\ o.chars = p /\ o.id = Newer(id, n.id)
    BY <1>1 DEF Mark, Newer
  <2> HIDE DEF r, o
  <2>3. Fits(ans, r, n.chars, o.chars)
    BY <2>1, <2>2 DEF Fits
  <2>4. Brings(ans, now, r, n, o)
    BY <2>1, <2>2, <2>3 DEF Brings
  <2>5. Chained(ans, now, new, m, o)
    BY <2>1, <2>2, <2>4, ChainedOne
  <2>6. ch \o Flushed(b, id) = new
    <3>1. Flushed(b, id) = <<r>>
      BY <1>3 DEF Flushed, r
    <3> QED
      BY <2>1, <3>1, AppendIsConcat
  <2>7. /\ new \in Seq(ResultType) /\ Len(new) = Len(ch) + 1
        /\ \A i \in 1 .. Len(ch) : new[i] = ch[i]
        /\ new[Len(ch) + 1] = r
    BY <2>1, AppendProperties
  <2>8. DOMAIN new = 1 .. Len(ch) + 1 /\ DOMAIN ch = 1 .. Len(ch) /\ Len(ch) \in Nat
    BY <2>7, LenProperties
  <2> HIDE DEF new
  <2>9. \A i \in DOMAIN new : new[i].stop # "none" => i \in DOMAIN ch /\ new[i] = ch[i]
    BY <2>1, <2>7, <2>8
  <2>10. SentOn(ans, now, ch, new, m, o)
    BY <2>5, <2>7, <2>9 DEF SentOn
  <2> QED
    BY <1>3, <2>2, <2>6, <2>10
<1> QED
  BY <1>2, <1>3

LEMMA FitsOn ==
    ASSUME NEW ans \in Seq(Kind), NEW longer \in Seq(Kind), Len(ans) <= Len(longer),
           \A i \in 1 .. Len(ans) : longer[i] = ans[i],
           NEW b, NEW m \in Nat, NEW n \in Nat, Fits(ans, b, m, n)
    PROVE  Fits(longer, b, m, n)
<1>1. PICK a \in Nat, c \in Nat :
         /\ a <= c /\ c <= n
         /\ b.thinking = Span(a, c) /\ AllOf(ans, "thinking", a, c)
         /\ b.text = Span(c, n) /\ AllOf(ans, "text", c, n)
         /\ \/ a = m
            \/ a = 0 /\ m < n /\ IF c = 0 THEN n >= MinSnapshot ELSE c > m /\ c >= MinSnapshot
  BY DEF Fits
<1>2. m <= n /\ n <= Len(ans) /\ n <= Len(longer)
  <2>1. m <= n /\ n <= Len(ans)
    BY DEF Fits
  <2>2. Len(ans) \in Nat /\ Len(longer) \in Nat
    BY LenProperties
  <2> QED
    BY <2>1, <2>2
<1>3. AllOf(longer, "thinking", a, c) /\ AllOf(longer, "text", c, n)
  <2>1. \A i \in a + 1 .. c : i \in 1 .. Len(ans)
    BY <1>1, <1>2, LenProperties
  <2>2. \A i \in c + 1 .. n : i \in 1 .. Len(ans)
    BY <1>1, <1>2, LenProperties
  <2> QED
    BY <1>1, <2>1, <2>2 DEF AllOf
<1> QED
  BY <1>1, <1>2, <1>3 DEF Fits

(* What DeepSeek adds to the answer leaves the results what they are, unless *)
(* they end it.                                                             *)
LEMMA ChainedOn ==
    ASSUME NEW ans \in Seq(Kind), NEW longer \in Seq(Kind), Len(ans) <= Len(longer),
           \A i \in 1 .. Len(ans) : longer[i] = ans[i],
           NEW now, NEW later, NEW ch \in Seq(ResultType), NEW m, NEW n, Chained(ans, now, ch, m, n),
           (\A i \in DOMAIN ch : ch[i].stop = "none") \/ (longer = ans /\ later = now)
    PROVE  Chained(longer, later, ch, m, n)
<1>1. CASE longer = ans /\ later = now
  BY <1>1
<1>2. CASE \A i \in DOMAIN ch : ch[i].stop = "none"
  <2>1. PICK f \in [0 .. Len(ch) -> Mark] :
           /\ f[0] = m /\ f[Len(ch)] = n
           /\ \A i \in 1 .. Len(ch) : Brings(ans, now, ch[i], f[i - 1], f[i])
    BY DEF Chained
  <2>2. DOMAIN ch = 1 .. Len(ch) /\ Len(ch) \in Nat /\ Len(ans) \in Nat /\ Len(longer) \in Nat
    BY LenProperties
  <2>3. ASSUME NEW i \in 1 .. Len(ch) PROVE Brings(longer, later, ch[i], f[i - 1], f[i])
    <3>1. Brings(ans, now, ch[i], f[i - 1], f[i])
      BY <2>1
    <3>a. ch[i].stop = "none"
      BY <1>2, <2>2
    <3>b. i - 1 \in 0 .. Len(ch) /\ i \in 0 .. Len(ch)
      BY <2>2
    <3>2. f[i - 1] \in Mark /\ f[i] \in Mark
      BY <2>1, <3>b
    <3>3. f[i - 1].chars \in Nat /\ f[i].chars \in Nat
      BY <3>2 DEF Mark
    <3>4. Fits(ans, ch[i], f[i - 1].chars, f[i].chars)
      BY <3>1 DEF Brings
    <3>5. Fits(longer, ch[i], f[i - 1].chars, f[i].chars)
      BY <2>2, <3>3, <3>4, FitsOn
    <3> QED
      BY <3>1, <3>a, <3>5 DEF Brings
  <2> QED
    BY <2>1, <2>3 DEF Chained
<1> QED
  BY <1>1, <1>2

----------------------------------------------------------------------------
(* The pipe *)

LEMMA LeadsOn ==
    ASSUME NEW ans \in Seq(Kind), NEW longer \in Seq(Kind), Len(ans) <= Len(longer),
           \A i \in 1 .. Len(ans) : longer[i] = ans[i],
           NEW line, NEW m \in Mark, NEW n \in Mark, LeadsTo(ans, line, m, n)
    PROVE  LeadsTo(longer, line, m, n)
<1>1. m.chars \in Nat /\ n.chars \in Nat /\ Len(ans) \in Nat /\ Len(longer) \in Nat
  BY LenProperties DEF Mark
<1>2. CASE line.chars = <<>> /\ n.chars = m.chars
  BY <1>2 DEF LeadsTo
<1>3. CASE Adds(ans, line, m.chars, n.chars)
  <2>1. n.chars = m.chars + 1 /\ n.chars <= Len(ans) /\ StopOf(line) = "none"
    BY <1>3 DEF Adds
  <2>2. n.chars \in 1 .. Len(ans) /\ n.chars <= Len(longer) /\ longer[n.chars] = ans[n.chars]
    BY <1>1, <2>1
  <2>3. m.chars > 0 => longer[m.chars] = ans[m.chars]
    BY <1>1, <2>1
  <2>4. \A k : AllOf(ans, k, 0, n.chars) => AllOf(longer, k, 0, n.chars)
    <3>1. \A i \in 0 + 1 .. n.chars : i \in 1 .. Len(ans)
      BY <1>1, <2>1
    <3> QED
      BY <3>1 DEF AllOf
  <2>5. Adds(longer, line, m.chars, n.chars)
    <3>1. CASE line.kind = "none"
      <4>1. m.chars > 0 /\ ans[n.chars] = ans[m.chars] /\ line.chars = Span(m.chars, n.chars)
        BY <1>3, <3>1 DEF Adds
      <4> QED
        BY <2>1, <2>2, <2>3, <3>1, <4>1 DEF Adds
    <3>2. CASE line.kind # "none"
      <4>1. ans[n.chars] = line.kind
        BY <1>3, <3>2 DEF Adds
      <4>2. \/ line.chars = Span(m.chars, n.chars)
            \/ /\ line.chars = Span(0, n.chars) /\ m.chars > 0 /\ line.kind # "none"
               /\ AllOf(ans, line.kind, 0, n.chars) /\ n.chars >= MinSnapshot
        BY <1>3 DEF Adds
      <4> QED
        BY <2>1, <2>2, <2>4, <3>2, <4>1, <4>2 DEF Adds
    <3> QED
      BY <3>1, <3>2
  <2> QED
    BY <1>3, <2>5 DEF LeadsTo
<1> QED
  BY <1>2, <1>3 DEF LeadsTo

(* One more line in the pipe. *)
LEMMA MarkedLine ==
    ASSUME NEW ans \in Seq(Kind), NEW longer \in Seq(Kind), Len(ans) <= Len(longer),
           \A i \in 1 .. Len(ans) : longer[i] = ans[i],
           NEW now \in Mark, NEW lines \in Seq(Line), NEW f, Marked(ans, now, lines, f),
           NEW line \in Line, NEW later \in Mark, LeadsTo(longer, line, now, later),
           later.chars <= Len(longer),
           (\E j \in DOMAIN lines : StopOf(lines[j]) # "none") => later = now
    PROVE  \E g : /\ Marked(longer, later, Append(lines, line), g)
                  /\ \A i \in 0 .. Len(lines) : g[i] = f[i]
<1> DEFINE N == Len(lines)
           new == Append(lines, line)
           g == [i \in 0 .. N + 1 |-> IF i = N + 1 THEN later ELSE f[i]]
<1>1. N \in Nat /\ DOMAIN lines = 1 .. N /\ Len(ans) \in Nat /\ Len(longer) \in Nat
  BY LenProperties
<1>2. /\ Len(new) = N + 1 /\ new[N + 1] = line
      /\ \A i \in 1 .. N : new[i] = lines[i]
  BY AppendProperties
<1>3. /\ f \in [0 .. N -> Mark]
      /\ f[0] = [chars |-> 0, id |-> 0] /\ f[N] = now
  BY DEF Marked
<1>4. /\ \A j \in 1 .. N : LeadsTo(ans, lines[j], f[j - 1], f[j])
      /\ \A j \in 1 .. N : StopOf(lines[j]) # "none" => \A i \in j .. N : f[i] = now
      /\ \A j \in 0 .. N : f[j].chars <= Len(ans)
  BY DEF Marked
<1> HIDE DEF N, new
<1>5. g \in [0 .. N + 1 -> Mark] /\ g[N + 1] = later /\ \A i \in 0 .. N : g[i] = f[i]
  BY <1>1, <1>3
<1> HIDE DEF g
<1>6. g[0] = [chars |-> 0, id |-> 0]
  BY <1>1, <1>3, <1>5
<1>7. ASSUME NEW j \in 1 .. N + 1 PROVE LeadsTo(longer, new[j], g[j - 1], g[j])
  <2>1. CASE j = N + 1
    <3>1. j - 1 = N /\ N \in 0 .. N
      BY <1>1, <2>1
    <3>2. g[j - 1] = now
      BY <1>3, <1>5, <3>1
    <3> QED
      BY <1>2, <1>5, <2>1, <3>2
  <2>2. CASE j # N + 1
    <3>1. j \in 1 .. N /\ j - 1 \in 0 .. N /\ j \in 0 .. N
      BY <1>1, <2>2
    <3>2. f[j - 1] \in Mark /\ f[j] \in Mark
      BY <1>3, <3>1
    <3>3. LeadsTo(longer, lines[j], f[j - 1], f[j])
      <4>1. LeadsTo(ans, lines[j], f[j - 1], f[j])
        BY <1>4, <3>1
      <4> QED
        BY <3>2, <4>1, LeadsOn
    <3> QED
      BY <1>2, <1>5, <3>1, <3>3
  <2> QED
    BY <2>1, <2>2
<1>8. ASSUME NEW j \in 1 .. N + 1, StopOf(new[j]) # "none", NEW i \in j .. N + 1
      PROVE  g[i] = later
  <2>1. CASE i = N + 1
    BY <1>5, <2>1
  <2>2. CASE i # N + 1
    <3>1. i \in 0 .. N /\ j \in 1 .. N /\ i \in j .. N
      BY <1>1, <2>2
    <3>2. StopOf(lines[j]) # "none"
      BY <1>2, <1>8, <3>1
    <3>3. f[i] = now
      BY <1>4, <3>1, <3>2
    <3>4. later = now
      BY <1>1, <3>1, <3>2
    <3> QED
      BY <1>5, <3>1, <3>3, <3>4
  <2> QED
    BY <2>1, <2>2
<1>9. ASSUME NEW j \in 0 .. N + 1 PROVE g[j].chars <= Len(longer)
  <2>1. CASE j = N + 1
    BY <1>5, <2>1
  <2>2. CASE j # N + 1
    <3>1. j \in 0 .. N
      BY <1>1, <2>2
    <3>2. f[j].chars <= Len(ans) /\ f[j] \in Mark
      BY <1>3, <1>4, <3>1
    <3>3. f[j].chars \in Nat
      BY <3>2 DEF Mark
    <3>4. f[j].chars <= Len(longer)
      BY <1>1, <3>2, <3>3
    <3> QED
      BY <1>5, <3>1, <3>4
  <2> QED
    BY <2>1, <2>2
<1>10. Marked(longer, later, new, g)
  BY <1>2, <1>5, <1>6, <1>7, <1>8, <1>9 DEF Marked
<1> QED
  BY <1>5, <1>10 DEF new, N

----------------------------------------------------------------------------
(* What DeepSeek sends *)

LEMMA BlankType ==
    /\ Blank \in Line /\ Blank.chars = <<>> /\ Blank.kind = "none" /\ Blank.id = 0
    /\ Blank.status = "none" /\ Blank.sign = "none" /\ Blank.quasi = FALSE
<1>1. <<>> \in Seq(Nat)
  BY EmptySeq
<1> QED
  BY <1>1 DEF Blank, Line, Status

(* A line without characters: the end of a body or a status. *)
Bare(line) ==
    /\ line \in Line /\ line.chars = <<>>
    /\ StopOf(line) # "none" /\ line # Done =>
          line.sign = "error" \/ line.status \in {"FINISHED", "CONTENT_FILTER"}

LEMMA BareLines ==
    ASSUME NEW line \in {Done, [Blank EXCEPT !.status = "FINISHED"]} \cup Statuses, ReaderTypes
    PROVE  Bare(line)
<1>0. state.id \in Nat /\ round \in Nat
  BY BodyBounds DEF ReaderTypes
<1>1. CASE line = Done
  BY <1>1, BlankType DEF Done, Bare, Line
<1>2. CASE line \in {[Blank EXCEPT !.status = "FINISHED", !.quasi = q] : q \in BOOLEAN}
  <2>1. PICK q \in BOOLEAN : line = [Blank EXCEPT !.status = "FINISHED", !.quasi = q]
    BY <1>2
  <2>2. line.chars = <<>> /\ line.status = "FINISHED"
    BY <2>1, BlankType DEF Line
  <2>3. line \in Line
    BY <2>1, BlankType DEF Line, Status
  <2> QED
    BY <2>2, <2>3 DEF Bare
<1>3. CASE line = [Blank EXCEPT !.status = "INCOMPLETE"]
  <2>1. line.chars = <<>> /\ line.status = "INCOMPLETE" /\ line.sign = "none" /\ line \in Line
    BY <1>3, BlankType DEF Line, Status
  <2>2. StopOf(line) = "none"
    BY <2>1 DEF StopOf
  <2> QED
    BY <2>1, <2>2 DEF Bare
<1>4. CASE line = [Blank EXCEPT !.status = "CONTENT_FILTER"]
  <2>1. line.chars = <<>> /\ line.status = "CONTENT_FILTER" /\ line \in Line
    BY <1>4, BlankType DEF Line, Status
  <2> QED
    BY <2>1 DEF Bare
<1>5. CASE line = [Blank EXCEPT !.sign = "error"]
  <2>1. line.chars = <<>> /\ line.sign = "error" /\ line \in Line
    BY <1>5, BlankType DEF Line
  <2> QED
    BY <2>1 DEF Bare
<1>6. CASE line \in {[Blank EXCEPT !.id = n] : n \in {round + 1} \ {state.id}}
  <2>1. line = [Blank EXCEPT !.id = round + 1] /\ round + 1 \in Nat
    BY <1>0, <1>6
  <2>2. line.chars = <<>> /\ line.sign = "none" /\ line.status = "none" /\ line \in Line
    BY <2>1, BlankType DEF Line
  <2>3. StopOf(line) = "none"
    BY <2>2 DEF StopOf
  <2> QED
    BY <2>2, <2>3 DEF Bare
<1>7. CASE line = [Blank EXCEPT !.status = "FINISHED"]
  <2>1. line.chars = <<>> /\ line.status = "FINISHED" /\ line \in Line
    BY <1>7, BlankType DEF Line, Status
  <2> QED
    BY <2>1 DEF Bare
<1> QED
  BY <1>1, <1>2, <1>3, <1>4, <1>5, <1>6, <1>7 DEF Statuses

(* A line with characters adds one to the answer. *)
Fuller(line) ==
    /\ line \in Line /\ StopOf(line) = "none" /\ line.chars # <<>>
    /\ Grown(line) \in Seq(Kind) /\ Len(Grown(line)) = Len(answer) + 1
    /\ \A i \in 1 .. Len(answer) : Grown(line)[i] = answer[i]
    /\ Adds(Grown(line), line, Len(answer), Len(answer) + 1)

LEMMA GrowthLines ==
    ASSUME NEW line \in Growth, ReaderTypes PROVE Fuller(line)
<1> DEFINE N == Len(answer)
<1>1. answer \in Seq(Kind) /\ N \in Nat
  BY LenProperties DEF ReaderTypes
<1>2. PICK k \in {"thinking", "text"} \cup (IF answer = <<>> THEN {} ELSE {"none"}) :
         line = [Blank EXCEPT !.kind = k, !.chars = <<N + 1>>]
  BY DEF Growth
<1>3. <<N + 1>> = Span(N, N + 1) /\ <<N + 1>> # <<>> /\ <<N + 1>> \in Seq(Nat)
  <2>1. N + 1 \in Nat
    BY <1>1
  <2> QED
    BY <1>1, <2>1, SpanOfOne
<1>4. /\ line \in Line /\ line.kind = k /\ line.chars = Span(N, N + 1) /\ line.chars # <<>>
      /\ line.sign = "none" /\ line.status = "none"
  <2> HIDE DEF N
  <2>1. /\ line.kind = k /\ line.chars = <<N + 1>> /\ line.sign = "none" /\ line.status = "none"
    BY <1>2, BlankType DEF Line
  <2>2. k \in Kind \cup {"none"}
    BY <1>2 DEF Kind
  <2>3. line \in Line
    BY <1>2, <1>3, <2>2, BlankType DEF Line
  <2> QED
    BY <1>3, <2>1, <2>3
<1>5. StopOf(line) = "none"
  BY <1>4 DEF StopOf
<1> DEFINE l == IF line.kind = "none" THEN Last(answer) ELSE line.kind
<1>6. l \in Kind /\ (line.kind = "none" => N > 0 /\ l = answer[N])
  <2>1. CASE k = "none"
    <3>1. answer # <<>>
      BY <1>2, <2>1
    <3>2. N > 0 /\ N \in 1 .. N
      BY <1>1, <3>1, EmptySeq
    <3>3. Last(answer) = answer[N]
      BY DEF Last
    <3>4. answer[N] \in Kind
      BY <1>1, <3>2, ElementOfSeq
    <3> QED
      BY <1>4, <2>1, <3>2, <3>3, <3>4
  <2>2. CASE k # "none"
    <3>1. k \in Kind
      BY <1>2, <2>2 DEF Kind
    <3> QED
      BY <1>4, <2>2, <3>1
  <2> QED
    BY <2>1, <2>2
<1>7. Grown(line) = Append(answer, l)
  BY <1>4 DEF Grown
<1> HIDE DEF l, N
<1>8. /\ Grown(line) \in Seq(Kind) /\ Len(Grown(line)) = N + 1
      /\ \A i \in 1 .. N : Grown(line)[i] = answer[i]
      /\ Grown(line)[N + 1] = l
  BY <1>1, <1>6, <1>7, AppendProperties DEF N
<1>9. line.kind = "none" => Grown(line)[N] = answer[N]
  BY <1>1, <1>6, <1>8
<1>10. line.kind # "none" => l = line.kind
  BY DEF l
<1>11. Adds(Grown(line), line, N, N + 1)
  <2>1. N + 1 <= Len(Grown(line))
    BY <1>1, <1>8
  <2> QED
    BY <1>4, <1>5, <1>6, <1>8, <1>9, <1>10, <2>1 DEF Adds
<1> QED
  BY <1>4, <1>5, <1>8, <1>11 DEF Fuller, N

LEMMA SnapshotLines ==
    ASSUME NEW line \in Snapshots, ReaderTypes PROVE Fuller(line)
<1> DEFINE N == Len(answer)
<1>1. answer \in Seq(Kind) /\ N \in Nat /\ DOMAIN answer = 1 .. N /\ round \in Nat
  BY BodyBounds, LenProperties DEF ReaderTypes
<1>2. PICK k \in Range(answer) :
         /\ line = [Blank EXCEPT !.kind = k, !.chars = [i \in 1 .. N + 1 |-> i],
                                 !.id = round + 1, !.status = "WIP"]
         /\ Range(answer) = {k} /\ N + 1 >= MinSnapshot
  BY DEF Snapshots
<1>3. [i \in 1 .. N + 1 |-> i] = Span(0, N + 1) /\ Span(0, N + 1) # <<>> /\ Span(0, N + 1) \in Seq(Nat)
  <2>1. /\ N + 1 \in Nat /\ 0 <= N + 1 /\ 0 # N + 1 /\ (N + 1) - 0 = N + 1
        /\ \A i \in 1 .. N + 1 : 0 + i = i
    BY <1>1
  <2>2. [i \in 1 .. N + 1 |-> i] = Span(0, N + 1)
    BY <2>1 DEF Span
  <2> QED
    BY <2>1, <2>2, SpanType, SpanEmpty
<1>4. k \in Kind /\ N > 0 /\ \A i \in 1 .. N : answer[i] = k
  <2>1. \A i \in 1 .. N : answer[i] \in Range(answer)
    BY <1>1 DEF Range
  <2>2. PICK i \in DOMAIN answer : answer[i] = k
    BY DEF Range
  <2>3. answer[i] \in Kind
    BY <1>1, <2>2, ElementOfSeq
  <2> QED
    BY <1>1, <1>2, <2>1, <2>2, <2>3
<1> HIDE DEF N
<1>5. /\ line \in Line /\ line.kind = k /\ line.chars = Span(0, N + 1) /\ line.chars # <<>>
      /\ line.sign = "none" /\ line.status = "WIP" /\ k # "none"
  <2>1. /\ line.kind = k /\ line.chars = Span(0, N + 1) /\ line.sign = "none" /\ line.status = "WIP"
    BY <1>2, <1>3, BlankType DEF Line
  <2>2. line \in Line
    <3>1. round + 1 \in Nat /\ "WIP" \in Status /\ k \in Kind \cup {"none"}
      BY <1>1, <1>4 DEF Status
    <3> QED
      BY <1>2, <1>3, <3>1, BlankType DEF Line
  <2>3. k # "none"
    BY <1>4 DEF Kind
  <2> QED
    BY <1>3, <2>1, <2>2, <2>3
<1>6. StopOf(line) = "none"
  BY <1>5 DEF StopOf
<1>7. Grown(line) = Append(answer, k)
  BY <1>5 DEF Grown
<1>8. /\ Grown(line) \in Seq(Kind) /\ Len(Grown(line)) = N + 1
      /\ \A i \in 1 .. N : Grown(line)[i] = answer[i]
      /\ Grown(line)[N + 1] = k
  BY <1>1, <1>4, <1>7, AppendProperties DEF N
<1>9. AllOf(Grown(line), k, 0, N + 1)
  <2> SUFFICES ASSUME NEW i \in 0 + 1 .. N + 1 PROVE Grown(line)[i] = k
    BY DEF AllOf
  <2>1. CASE i = N + 1
    BY <1>8, <2>1
  <2>2. CASE i # N + 1
    <3>1. i \in 1 .. N
      BY <1>1, <2>2
    <3> QED
      BY <1>4, <1>8, <3>1
  <2> QED
    BY <2>1, <2>2
<1>10. Adds(Grown(line), line, N, N + 1)
  <2>1. N + 1 >= MinSnapshot
    BY <1>2
  <2>2. N + 1 <= Len(Grown(line))
    BY <1>1, <1>8
  <2> QED
    BY <1>4, <1>5, <1>6, <1>8, <1>9, <2>1, <2>2 DEF Adds
<1> QED
  BY <1>5, <1>6, <1>8, <1>10 DEF Fuller, N

(* What the next line does: the mark it leads to is what DeepSeek has sent   *)
(* with it.                                                                *)
LEMMA Pumped ==
    ASSUME ReaderTypes, NEW line \in Offered
    PROVE  /\ ~closed /\ ~Failing /\ line \in Line
           /\ line = Done => Grown(line) = answer
           /\ Grown(line) \in Seq(Kind) /\ Len(answer) <= Len(Grown(line))
           /\ \A i \in 1 .. Len(answer) : Grown(line)[i] = answer[i]
           /\ Observe(line) \in [id : Nat, status : Status, finished : BOOLEAN]
           /\ LeadsTo(Grown(line), line, Now, [chars |-> Len(Grown(line)), id |-> Observe(line).id])
           /\ state.finished => Observe(line).finished /\ Grown(line) = answer
                                /\ (line # Done => Observe(line).id = state.id)
           /\ StopOf(line) # "none" /\ line # Done => Observe(line).finished \/ line.sign = "error"
<1> DEFINE later == [chars |-> Len(Grown(line)), id |-> Observe(line).id]
<1>1. /\ answer \in Seq(Kind) /\ Len(answer) \in Nat
      /\ state.id \in Nat /\ state.status \in Status /\ state.finished \in BOOLEAN
  BY LenProperties DEF ReaderTypes
<1>2. ~closed /\ ~Failing
  <2>1. ~Silent
    BY DEF Offered
  <2> QED
    BY <2>1 DEF Silent, Failing
<1>3. line \in {Done, [Blank EXCEPT !.status = "FINISHED"]} \cup Statuses \cup Growth \cup Snapshots
  BY DEF Offered
<1>4. Bare(line) \/ Fuller(line)
  BY <1>3, BareLines, GrowthLines, SnapshotLines
<1>5. line \in Line
  BY <1>4 DEF Bare, Fuller
<1>6. line.id \in Nat /\ line.status \in Status
  BY <1>5 DEF Line
<1>7. /\ Observe(line).id = Newer(line.id, state.id)
      /\ Observe(line).finished = (state.finished \/ line.status \in {"FINISHED", "CONTENT_FILTER"})
      /\ Observe(line).status = IF line.status # "none" THEN line.status ELSE state.status
  BY DEF Observe, Newer
<1>8. Observe(line) \in [id : Nat, status : Status, finished : BOOLEAN]
  BY <1>1, <1>6 DEF Observe
<1>9. Bare(line) => Grown(line) = answer
  BY DEF Bare, Grown
<1>10. /\ Grown(line) \in Seq(Kind) /\ Len(answer) <= Len(Grown(line))
       /\ \A i \in 1 .. Len(answer) : Grown(line)[i] = answer[i]
  <2>1. CASE Bare(line)
    BY <1>1, <1>9, <2>1
  <2>2. CASE Fuller(line)
    BY <1>1, <2>2 DEF Fuller
  <2> QED
    BY <1>4, <2>1, <2>2
<1>11. LeadsTo(Grown(line), line, Now, later)
  <2>1. later.id = Newer(line.id, Now.id) /\ later.chars = Len(Grown(line)) /\ Now.chars = Len(answer)
    BY <1>7 DEF Now
  <2> HIDE DEF later
  <2>2. CASE Bare(line)
    <3>1. line.chars = <<>> /\ later.chars = Now.chars
      BY <1>9, <2>1, <2>2 DEF Bare
    <3> QED
      BY <2>1, <3>1 DEF LeadsTo
  <2>3. CASE Fuller(line)
    <3>1. Adds(Grown(line), line, Now.chars, later.chars)
      BY <2>1, <2>3 DEF Fuller
    <3> QED
      BY <2>1, <3>1 DEF LeadsTo
  <2> QED
    BY <1>4, <2>2, <2>3
<1>12. ASSUME state.finished
       PROVE  /\ Observe(line).finished /\ Grown(line) = answer
              /\ line # Done => Observe(line).id = state.id
  <2>1. line = Done \/ line = [Blank EXCEPT !.status = "FINISHED"]
    BY <1>12 DEF Offered
  <2>2. [Blank EXCEPT !.status = "FINISHED"].chars = <<>> /\ [Blank EXCEPT !.status = "FINISHED"].id = 0
    BY DEF Blank
  <2>3. line.chars = <<>> /\ line.id = 0
    BY <2>1, <2>2, BlankType DEF Done, Line
  <2>4. Grown(line) = answer
    BY <2>3 DEF Grown
  <2>5. Observe(line).id = state.id
    BY <1>7, <2>3 DEF Newer
  <2>6. Observe(line).finished
    BY <1>12 DEF Observe
  <2> QED
    BY <2>4, <2>5, <2>6
<1>13. StopOf(line) # "none" /\ line # Done => Observe(line).finished \/ line.sign = "error"
  BY <1>4, <1>7 DEF Bare, Fuller
<1>14. line = Done => Grown(line) = answer
  BY BlankType DEF Done, Grown, Line
<1> HIDE DEF later
<1> QED
  BY <1>2, <1>5, <1>8, <1>10, <1>11, <1>12, <1>13, <1>14 DEF later

----------------------------------------------------------------------------
(* Every step keeps the invariant *)

(* Linked is about these. *)
LEMMA LinkedKept ==
    ASSUME Linked, UNCHANGED <<answer, piped, channel, seen, messageId,
                               scanned, buffered, pendingId, currentType>>, state'.id = state.id
    PROVE  Linked'
<1>1. PICK f, m : InStep(f, m)
  BY DEF Linked
<1>2. Now' = Now /\ Given' = Given
  BY DEF Now, Given
<1>3. InStep(f, m)'
  BY <1>1, <1>2 DEF InStep
<1> QED
  BY <1>3 DEF Linked

LEMMA NowType == ASSUME ReaderTypes PROVE Now \in Mark /\ Given \in Mark
<1>1. Len(answer) \in Nat /\ state.id \in Nat /\ messageId \in Nat /\ Len(seen) \in Nat
  BY LenProperties DEF ReaderTypes
<1> QED
  BY <1>1 DEF Now, Given, Mark

LEMMA GivenOn ==
    ASSUME ReaderTypes, NEW longer \in Seq(Kind), Len(answer) <= Len(longer),
           \A i \in 1 .. Len(answer) : longer[i] = answer[i]
    PROVE  seen = First(longer, Len(seen)) /\ Len(seen) \in 0 .. Len(longer)
<1>1. /\ Len(answer) \in Nat /\ Len(longer) \in Nat /\ Len(seen) \in 0 .. Len(answer)
      /\ seen = First(answer, Len(seen))
  BY LenProperties DEF ReaderTypes
<1> DEFINE n == Len(seen)
<1>2. \A i \in 1 .. n : longer[i] = answer[i]
  BY <1>1
<1>3. First(longer, n) = First(answer, n)
  BY <1>2 DEF First
<1> QED
  BY <1>1, <1>3

LEMMA PumpStep ==
    ASSUME ReaderInv, NEW line \in Offered, PumpLine(line), line # Done,
           Len(line.chars) > 1 => Calm, UNCHANGED lineVars
    PROVE  ReaderInv'
<1>1. ReaderTypes /\ Ceasing /\ RepeatsAlone /\ Linked /\ Settled
  BY DEF ReaderInv
<1>2. /\ pump = "reading" /\ pump' = pump /\ answer' = Grown(line) /\ state' = Observe(line)
      /\ piped' = Append(piped, line) /\ round' = round /\ closed' = closed /\ cancelled' = cancelled
  BY DEF PumpLine
<1>3. UNCHANGED <<scanned, currentType, buffered, pendingId, channel, linesEnd,
                  seen, messageId, ticks, engine>>
  BY DEF lineVars
<1>4. /\ ~closed /\ ~Failing /\ line \in Line
      /\ answer' \in Seq(Kind) /\ Len(answer) <= Len(answer')
      /\ \A i \in 1 .. Len(answer) : answer'[i] = answer[i]
      /\ state' \in [id : Nat, status : Status, finished : BOOLEAN]
      /\ LeadsTo(answer', line, Now, Now')
      /\ state.finished => state'.finished /\ answer' = answer /\ state'.id = state.id
      /\ StopOf(line) # "none" => state'.finished \/ line.sign = "error"
  BY <1>1, <1>2, Pumped DEF Now
<1>5. /\ answer \in Seq(Kind) /\ piped \in Seq(Line) /\ Len(piped) \in Nat /\ DOMAIN piped = 1 .. Len(piped)
      /\ channel \in Seq(ResultType) /\ DOMAIN channel = 1 .. Len(channel)
      /\ scanned \in 0 .. Len(piped) /\ Len(answer) \in Nat /\ Len(answer') \in Nat
  BY <1>1, <1>4, LenProperties DEF ReaderTypes
<1>6. /\ piped' \in Seq(Line) /\ piped' # <<>> /\ Len(piped') = Len(piped) + 1
      /\ \A i \in 1 .. Len(piped) : piped'[i] = piped[i]
      /\ piped'[Len(piped) + 1] = line /\ DOMAIN piped' = 1 .. Len(piped) + 1
      /\ Last(piped') = line
  <2>1. /\ piped' \in Seq(Line) /\ piped' # <<>> /\ Len(piped') = Len(piped) + 1
        /\ \A i \in 1 .. Len(piped) : piped'[i] = piped[i]
        /\ piped'[Len(piped) + 1] = line
    <3>1. piped \in Seq(Line) /\ line \in Line
      BY <1>4, <1>5
    <3>2. piped' = Append(piped, line)
      BY <1>2
    <3> QED
      BY <3>1, <3>2, AppendProperties
  <2> QED
    BY <2>1, LenProperties DEF Last
<1>7. Ceased => state.finished
  BY <1>2, <1>4 DEF Ceased
<1>8. Ceased => Ceased'
  BY <1>4, <1>7 DEF Ceased
<1>9. ReaderTypes'
  <2>1. seen' = First(answer', Len(seen')) /\ Len(seen') \in 0 .. Len(answer')
    BY <1>1, <1>3, <1>4, GivenOn
  <2>2. scanned' \in 0 .. Len(piped')
    BY <1>3, <1>5, <1>6
  <2> QED
    BY <1>1, <1>2, <1>3, <1>4, <1>6, <2>1, <2>2 DEF ReaderTypes
<1>10. Ceasing'
  <2>1. (\E j \in DOMAIN piped' : StopOf(piped'[j]) # "none") => Ceased'
    <3> SUFFICES ASSUME NEW j \in DOMAIN piped', StopOf(piped'[j]) # "none" PROVE Ceased'
      OBVIOUS
    <3>1. CASE j = Len(piped) + 1
      <4>1. state'.finished \/ line.sign = "error"
        BY <1>4, <1>6, <3>1
      <4> QED
        BY <1>6, <4>1 DEF Ceased, Failing
    <3>2. CASE j # Len(piped) + 1
      <4>1. j \in DOMAIN piped /\ StopOf(piped[j]) # "none"
        BY <1>5, <1>6, <3>2
      <4> QED
        BY <1>1, <1>8, <4>1 DEF Ceasing
    <3> QED
      BY <3>1, <3>2
  <2>2. (\E i \in DOMAIN channel' : channel'[i].stop # "none") => Ceased'
    BY <1>1, <1>3, <1>8 DEF Ceasing
  <2>3. Filtered => Filtered'
    BY <1>5, <1>6 DEF Filtered
  <2>4. (\E i \in DOMAIN channel' : channel'[i].stop = "filter") => Filtered'
    BY <1>1, <1>3, <2>3 DEF Ceasing
  <2>5. pump' # "opening"
    BY <1>2
  <2>6. closed' <=> engine' # "running"
    BY <1>1, <1>2, <1>3 DEF Ceasing
  <2>7. linesEnd' # "none" => buffered' = Nothing /\ cancelled'
    BY <1>1, <1>2, <1>3 DEF Ceasing
  <2> QED
    BY <2>1, <2>2, <2>4, <2>5, <2>6, <2>7 DEF Ceasing
<1>11. RepeatsAlone'
  <2> SUFFICES ASSUME NEW j \in scanned' + 1 .. Len(piped'), Len(piped'[j].chars) > 1
               PROVE  j = scanned' + 1 /\ buffered' = Nothing
    BY DEF RepeatsAlone
  <2>1. CASE j = Len(piped) + 1
    <3>1. Calm
      BY <1>6, <2>1
    <3> QED
      BY <1>3, <2>1, <3>1 DEF Calm
  <2>2. CASE j # Len(piped) + 1
    <3>1. j \in scanned + 1 .. Len(piped) /\ j \in 1 .. Len(piped)
      BY <1>3, <1>5, <1>6, <2>2
    <3>2. Len(piped[j].chars) > 1
      BY <1>6, <3>1
    <3> QED
      BY <1>1, <1>3, <3>1, <3>2 DEF RepeatsAlone
  <2> QED
    BY <2>1, <2>2
<1>12. Linked'
  <2>1. PICK f, m : InStep(f, m)
    BY <1>1 DEF Linked
  <2>2. Now \in Mark /\ Now' \in Mark /\ Now'.chars <= Len(answer')
    <3>1. Now \in Mark
      BY <1>1, NowType
    <3>2. Now' \in Mark
      BY <1>4, <1>5 DEF Now, Mark
    <3>3. Now'.chars = Len(answer')
      BY DEF Now
    <3> QED
      BY <1>5, <3>1, <3>2, <3>3
  <2>3. Ceased => Now' = Now
    BY <1>4, <1>7 DEF Now
  <2>4. (\E j \in DOMAIN piped : StopOf(piped[j]) # "none") => Now' = Now
    BY <1>1, <2>3 DEF Ceasing
  <2>5. Marked(answer, Now, piped, f)
    BY <2>1 DEF InStep
  <2>6. \E g : Marked(answer', Now', Append(piped, line), g) /\ \A i \in 0 .. Len(piped) : g[i] = f[i]
    <3>1. /\ answer \in Seq(Kind) /\ answer' \in Seq(Kind) /\ Len(answer) <= Len(answer')
          /\ \A i \in 1 .. Len(answer) : answer'[i] = answer[i]
      BY <1>4, <1>5
    <3>2. Now \in Mark /\ Now' \in Mark /\ Now'.chars <= Len(answer')
      BY <2>2
    <3>3. piped \in Seq(Line) /\ line \in Line /\ LeadsTo(answer', line, Now, Now')
      BY <1>4, <1>5
    <3> QED
      BY <2>4, <2>5, <3>1, <3>2, <3>3, MarkedLine
  <2>7. PICK g : Marked(answer', Now', Append(piped, line), g) /\ \A i \in 0 .. Len(piped) : g[i] = f[i]
    BY <2>6
  <2>8. Chained(answer', Now', channel, Given, m)
    <3>1. Chained(answer, Now, channel, Given, m)
      BY <2>1 DEF InStep
    <3>2. (\A i \in DOMAIN channel : channel[i].stop = "none") \/ (answer' = answer /\ Now' = Now)
      BY <1>1, <1>4, <1>7, <2>3 DEF Ceasing
    <3> QED
      BY <1>4, <1>5, <3>1, <3>2, ChainedOn
  <2>9. g[scanned] = f[scanned] /\ f[scanned] \in Mark /\ m \in Mark /\ f[scanned].chars <= Len(answer)
    BY <1>5, <2>1, <2>7 DEF InStep, Marked
  <2>10. m.chars \in Nat /\ f[scanned].chars \in Nat
    BY <2>9 DEF Mark
  <2>11. Fits(answer', buffered, m.chars, g[scanned].chars)
    <3>1. Fits(answer, buffered, m.chars, f[scanned].chars)
      BY <2>1 DEF InStep
    <3> QED
      BY <1>4, <1>5, <2>9, <2>10, <3>1, FitsOn
  <2>12. g[scanned].id = Newer(pendingId, m.id)
    BY <2>1, <2>9 DEF InStep
  <2>13. currentType = KindAt(answer', g[scanned].chars)
    <3>1. currentType = KindAt(answer, f[scanned].chars)
      BY <2>1 DEF InStep
    <3>2. f[scanned].chars # 0 => f[scanned].chars \in 1 .. Len(answer)
      BY <1>5, <2>9, <2>10
    <3>3. KindAt(answer', f[scanned].chars) = KindAt(answer, f[scanned].chars)
      BY <1>4, <3>2 DEF KindAt
    <3> QED
      BY <2>9, <3>1, <3>3
  <2>14. Given' = Given
    BY <1>3 DEF Given
  <2>15. InStep(g, m)'
    BY <1>2, <1>3, <2>7, <2>8, <2>9, <2>11, <2>12, <2>13, <2>14 DEF InStep
  <2> QED
    BY <2>15 DEF Linked
<1>13. Settled'
  <2>1. engine = "running"
    BY <1>1, <1>4 DEF Ceasing
  <2> QED
    BY <1>2, <1>3, <2>1 DEF Settled, Orderly
<1> QED
  BY <1>9, <1>10, <1>11, <1>12, <1>13 DEF ReaderInv

(* [DONE] is kept back, a body fails, the answer is continued or cannot be. *)
LEMMA QuietStep ==
    ASSUME ReaderInv, UNCHANGED lineVars,
           \/ \E line \in Offered : PumpLine(line) /\ line = Done
           \/ BodyFails \/ ContinueOpens \/ ContinueFails
    PROVE  ReaderInv'
<1>1. ReaderTypes /\ Ceasing /\ RepeatsAlone /\ Linked /\ Settled
  BY DEF ReaderInv
<1>2. UNCHANGED <<scanned, currentType, buffered, pendingId, channel, linesEnd,
                  seen, messageId, ticks, engine>>
  BY DEF lineVars
<1>3. answer' = answer /\ piped' = piped /\ closed' = closed /\ cancelled' = cancelled
  <2>1. CASE \E line \in Offered : PumpLine(line) /\ line = Done
    BY <1>1, <2>1, Pumped DEF PumpLine
  <2> QED
    BY <2>1 DEF BodyFails, ContinueOpens, ContinueFails
<1>4. \/ /\ pump = "reading" /\ pump' \in {"reading", "failed"} /\ state' = state /\ round' = round
      \/ /\ pump = "opening" /\ pump' = "failed" /\ state' = state /\ round' = round
      \/ /\ pump = "opening" /\ pump' = "reading" /\ round' = round + 1 /\ ~cancelled
         /\ state' = [state EXCEPT !.finished = FALSE, !.status = "none"]
  BY DEF PumpLine, BodyFails, ContinueOpens, ContinueFails
<1>5. /\ state \in [id : Nat, status : Status, finished : BOOLEAN]
      /\ pump = "opening" => ~state.finished /\ round < MaxRounds
      /\ round \in 0 .. MaxRounds /\ MaxRounds \in Nat
  BY <1>1, BodyBounds DEF ReaderTypes, Ceasing
<1>6. round' \in 0 .. MaxRounds
  <2>1. CASE round' = round
    BY <1>5, <2>1
  <2>2. CASE pump = "opening" /\ round' = round + 1
    BY <1>5, <2>2
  <2> QED
    BY <1>4, <2>1, <2>2
<1>7. /\ state' \in [id : Nat, status : Status, finished : BOOLEAN] /\ state'.id = state.id
      /\ state.finished => state'.finished
  <2>1. CASE state' = state
    BY <1>5, <2>1
  <2>2. CASE pump = "opening" /\ state' = [state EXCEPT !.finished = FALSE, !.status = "none"]
    <3>1. "none" \in Status
      BY DEF Status
    <3>2. state' \in [id : Nat, status : Status, finished : BOOLEAN] /\ state'.id = state.id
      BY <1>5, <2>2, <3>1
    <3> QED
      BY <1>5, <2>2, <3>2
  <2> QED
    BY <1>4, <2>1, <2>2
<1>8. pump # "ended" /\ pump' # "ended" /\ pump' # "opening"
  BY <1>4
<1>9. ReaderTypes'
  BY <1>1, <1>2, <1>3, <1>6, <1>7 DEF ReaderTypes
<1>10. Filtered' = Filtered
  BY <1>3 DEF Filtered
<1>11. Ceased => Ceased'
  BY <1>3, <1>7, <1>8 DEF Ceased, Failing
<1>12. linesEnd # "none" =>
          buffered = Nothing /\ (cancelled \/ (scanned = Len(piped) /\ pump' \in {"ended", "failed"}))
  BY <1>1, <1>4 DEF Ceasing
<1>13. Ceasing'
  <2>1. /\ (\E j \in DOMAIN piped : StopOf(piped[j]) # "none") => Ceased
        /\ (\E i \in DOMAIN channel : channel[i].stop # "none") => Ceased
        /\ (\E i \in DOMAIN channel : channel[i].stop = "filter") => Filtered
        /\ closed <=> engine # "running"
    BY <1>1 DEF Ceasing
  <2> QED
    BY <1>2, <1>3, <1>8, <1>10, <1>11, <1>12, <2>1 DEF Ceasing
<1>14. RepeatsAlone'
  BY <1>1, <1>2, <1>3 DEF RepeatsAlone
<1>15. Linked'
  BY <1>1, <1>2, <1>3, <1>7, LinkedKept
<1>16. Settled'
  BY <1>1, <1>2, <1>3, <1>7, <1>8, <1>10 DEF Settled, Orderly
<1> QED
  BY <1>9, <1>13, <1>14, <1>15, <1>16 DEF ReaderInv

(* A round is at its end, or all of them, and then [DONE] is passed on.      *)
LEMMA RoundEndsStep ==
    ASSUME ReaderInv, UNCHANGED lineVars, RoundEnds
    PROVE  ReaderInv'
<1>1. ReaderTypes /\ Ceasing /\ RepeatsAlone /\ Linked /\ Settled
  BY DEF ReaderInv
<1>2. UNCHANGED <<scanned, currentType, buffered, pendingId, channel, linesEnd,
                  seen, messageId, ticks, engine>>
  BY DEF lineVars
<1>3. /\ pump = "reading" /\ UNCHANGED <<answer, round, state, closed, cancelled>>
      /\ \/ pump' = "opening" /\ ShouldContinue /\ round < MaxRounds /\ piped' = piped
         \/ pump' = "ended" /\ ~(ShouldContinue /\ round < MaxRounds) /\ piped' = piped
         \/ pump' = "ended" /\ ~(ShouldContinue /\ round < MaxRounds) /\ piped' = Append(piped, Done)
  BY DEF RoundEnds
<1>4. round \in 0 .. MaxRounds /\ MaxRounds \in Nat
  BY <1>1, BodyBounds DEF ReaderTypes
<1>5. pump' = "ended" => ~ShouldContinue' \/ round' = MaxRounds
  BY <1>3, <1>4 DEF ShouldContinue
<1>6. Now' = Now /\ Given' = Given
  BY <1>2, <1>3 DEF Now, Given
<1>7. linesEnd # "none" => buffered = Nothing /\ cancelled
  BY <1>1, <1>3 DEF Ceasing
<1>8. /\ (\E j \in DOMAIN piped : StopOf(piped[j]) # "none") => Ceased
      /\ (\E i \in DOMAIN channel : channel[i].stop # "none") => Ceased
      /\ (\E i \in DOMAIN channel : channel[i].stop = "filter") => Filtered
      /\ closed <=> engine # "running"
  BY <1>1 DEF Ceasing
<1>9. CASE piped' = piped
  <2>1. Filtered' = Filtered
    BY <1>9 DEF Filtered
  <2>2. Ceased => Ceased'
    BY <1>3, <1>9 DEF Ceased, Failing
  <2>3. pump' = "opening" => ~state'.finished /\ round' < MaxRounds
    BY <1>3 DEF ShouldContinue
  <2>4. Ceasing'
    BY <1>2, <1>3, <1>7, <1>8, <1>9, <2>1, <2>2, <2>3 DEF Ceasing
  <2>5. ReaderTypes' /\ RepeatsAlone'
    BY <1>1, <1>2, <1>3, <1>9 DEF ReaderTypes, RepeatsAlone
  <2>6. Linked'
    BY <1>1, <1>2, <1>3, <1>9, LinkedKept
  <2>7. Settled'
    BY <1>1, <1>2, <1>3, <1>5, <2>1 DEF Settled, Orderly
  <2> QED
    BY <2>4, <2>5, <2>6, <2>7 DEF ReaderInv
<1>10. CASE pump' = "ended" /\ piped' = Append(piped, Done)
  <2>1. /\ answer \in Seq(Kind) /\ piped \in Seq(Line) /\ Len(piped) \in Nat
        /\ DOMAIN piped = 1 .. Len(piped) /\ scanned \in 0 .. Len(piped) /\ Len(answer) \in Nat
    BY <1>1, LenProperties DEF ReaderTypes
  <2>2. Done \in Line /\ Done.chars = <<>> /\ Done.id = 0
    BY BlankType DEF Done, Line
  <2>3. /\ piped' \in Seq(Line) /\ Len(piped') = Len(piped) + 1
        /\ \A i \in 1 .. Len(piped) : piped'[i] = piped[i]
        /\ piped'[Len(piped) + 1] = Done
    BY <1>10, <2>1, <2>2, AppendProperties
  <2>4. DOMAIN piped' = 1 .. Len(piped) + 1
    BY <2>3, LenProperties
  <2>5. Filtered => Filtered'
    BY <2>1, <2>3, <2>4 DEF Filtered
  <2>6. Ceased'
    BY <1>10 DEF Ceased
  <2>7. Ceasing'
    BY <1>2, <1>3, <1>7, <1>8, <1>10, <2>5, <2>6 DEF Ceasing
  <2>8. ReaderTypes'
    <3>1. scanned' \in 0 .. Len(piped')
      BY <1>2, <2>1, <2>3
    <3> QED
      BY <1>1, <1>2, <1>3, <2>3, <3>1 DEF ReaderTypes
  <2>9. RepeatsAlone'
    <3> SUFFICES ASSUME NEW j \in scanned' + 1 .. Len(piped'), Len(piped'[j].chars) > 1
                 PROVE  j = scanned' + 1 /\ buffered' = Nothing
      BY DEF RepeatsAlone
    <3>1. Len(<<>>) = 0
      BY EmptySeq
    <3>2. j # Len(piped) + 1
      BY <2>2, <2>3, <3>1
    <3>3. j \in scanned + 1 .. Len(piped) /\ j \in 1 .. Len(piped)
      BY <1>2, <2>1, <2>3, <3>2
    <3>4. Len(piped[j].chars) > 1
      BY <2>3, <3>3
    <3> QED
      BY <1>1, <1>2, <3>3, <3>4 DEF RepeatsAlone
  <2>10. Linked'
    <3>1. PICK f, m : InStep(f, m)
      BY <1>1 DEF Linked
    <3>2. Now \in Mark /\ Now.chars <= Len(answer)
      <4>1. Now \in Mark
        BY <1>1, NowType
      <4> QED
        BY <2>1, <4>1 DEF Now
    <3>3. LeadsTo(answer, Done, Now, Now)
      BY <2>2 DEF LeadsTo, Newer
    <3>4. Marked(answer, Now, piped, f) /\ Len(answer) <= Len(answer)
      BY <2>1, <3>1 DEF InStep
    <3>5. \E g : Marked(answer, Now, Append(piped, Done), g) /\ \A i \in 0 .. Len(piped) : g[i] = f[i]
      BY <2>1, <2>2, <3>2, <3>3, <3>4, MarkedLine
    <3>6. PICK g : Marked(answer, Now, Append(piped, Done), g) /\ \A i \in 0 .. Len(piped) : g[i] = f[i]
      BY <3>5
    <3>7. g[scanned] = f[scanned]
      BY <2>1, <3>6
    <3>8. InStep(g, m)'
      BY <1>2, <1>3, <1>6, <1>10, <3>1, <3>6, <3>7 DEF InStep
    <3> QED
      BY <3>8 DEF Linked
  <2>11. Settled'
    BY <1>1, <1>2, <1>3, <1>5, <2>5 DEF Settled, Orderly
  <2> QED
    BY <2>7, <2>8, <2>9, <2>10, <2>11 DEF ReaderInv
<1> QED
  BY <1>3, <1>9, <1>10

(* The state the goroutine of the lines leaves alone. *)
LEMMA ReaderKept ==
    ASSUME ReaderInv, UNCHANGED <<bodyVars, seen, messageId, engine>>
    PROVE  /\ UNCHANGED <<answer, round, state, piped, pump, closed, cancelled>>
           /\ Now' = Now /\ Given' = Given /\ (Ceased' <=> Ceased) /\ (Filtered' <=> Filtered)
           /\ Settled'
<1>1. UNCHANGED <<answer, round, state, piped, pump, closed, cancelled, seen, messageId, engine>>
  BY DEF bodyVars
<1>2. Now' = Now /\ Given' = Given /\ (Ceased' <=> Ceased) /\ (Filtered' <=> Filtered)
  BY <1>1 DEF Now, Given, Ceased, Failing, Filtered
<1>3. Settled'
  BY <1>1, <1>2 DEF ReaderInv, Settled, ShouldContinue, Orderly
<1> QED
  BY <1>1, <1>2, <1>3

(* The next line, and the id that goes with what is buffered. *)
LEMMA NextLine ==
    ASSUME ReaderInv, scanned < Len(piped), NEW f, NEW m, InStep(f, m),
           NEW id, id = IF piped[scanned + 1].id > 0 THEN piped[scanned + 1].id ELSE pendingId
    PROVE  LET line == piped[scanned + 1]
               p    == f[scanned]
               q    == f[scanned + 1]
           IN /\ line \in Line /\ p \in Mark /\ q \in Mark /\ m \in Mark /\ id \in Nat
              /\ q.chars <= Len(answer) /\ LeadsTo(answer, line, p, q)
              /\ Fits(answer, buffered, m.chars, p.chars) /\ q.id = Newer(id, m.id)
              /\ currentType = KindAt(answer, p.chars)
              /\ StopOf(line) # "none" => q = Now /\ line.chars = <<>> /\ q.chars = p.chars
              /\ scanned + 1 \in 1 .. Len(piped)
<1>1. ReaderTypes
  BY DEF ReaderInv
<1>2. /\ piped \in Seq(Line) /\ Len(piped) \in Nat /\ scanned \in 0 .. Len(piped) /\ pendingId \in Nat
  BY <1>1, LenProperties DEF ReaderTypes
<1>3. scanned + 1 \in 1 .. Len(piped) /\ scanned + 1 \in 0 .. Len(piped) /\ (scanned + 1) - 1 = scanned
  BY <1>2
<1> DEFINE line == piped[scanned + 1]
           p    == f[scanned]
           q    == f[scanned + 1]
<1>4. line \in Line
  BY <1>2, <1>3, ElementOfSeq
<1>5. Marked(answer, Now, piped, f) /\ m \in Mark
  BY DEF InStep
<1>6. p \in Mark /\ q \in Mark /\ q.chars <= Len(answer)
  BY <1>2, <1>3, <1>5 DEF Marked
<1>7. LeadsTo(answer, line, p, q)
  <2>1. LeadsTo(answer, piped[scanned + 1], f[(scanned + 1) - 1], f[scanned + 1])
    BY <1>3, <1>5 DEF Marked
  <2> QED
    BY <1>3, <2>1
<1>8. /\ Fits(answer, buffered, m.chars, p.chars) /\ p.id = Newer(pendingId, m.id)
      /\ currentType = KindAt(answer, p.chars)
  BY DEF InStep
<1>9. StopOf(line) # "none" => q = Now
  BY <1>2, <1>3, <1>5 DEF Marked
<1>10. StopOf(line) # "none" => line.chars = <<>> /\ q.chars = p.chars
  BY <1>7 DEF LeadsTo, Adds
<1>11. line.id \in Nat
  BY <1>4 DEF Line
<1>12. q.id = Newer(line.id, p.id)
  BY <1>7 DEF LeadsTo
<1>13. id = Newer(line.id, pendingId)
  BY DEF Newer
<1>14. m.id \in Nat
  BY <1>5 DEF Mark
<1> HIDE DEF line, p, q
<1>15. id \in Nat /\ q.id = Newer(id, m.id)
  BY <1>2, <1>8, <1>11, <1>12, <1>13, <1>14 DEF Newer
<1> QED
  BY <1>3, <1>4, <1>5, <1>6, <1>7, <1>8, <1>9, <1>10, <1>15 DEF line, p, q

(* A line that stops the stream. *)
LEMMA StopStep ==
    ASSUME ReaderInv, linesEnd = "none", scanned < Len(piped),
           NEW id, id = (IF piped[scanned + 1].id > 0 THEN piped[scanned + 1].id ELSE pendingId),
           StopOf(piped[scanned + 1]) # "none", StopLine(StopOf(piped[scanned + 1]), id),
           currentType' = currentType, scanned' = scanned + 1,
           UNCHANGED <<bodyVars, linesEnd, seen, messageId, ticks, engine>>
    PROVE  ReaderInv'
<1>1. ReaderTypes /\ Ceasing /\ RepeatsAlone /\ Linked
  BY DEF ReaderInv
<1>2. PICK f, m : InStep(f, m)
  BY <1>1 DEF Linked
<1> DEFINE line == piped[scanned + 1]
           stop == StopOf(line)
           p    == f[scanned]
           q    == f[scanned + 1]
           sent == channel \o Flushed(buffered, id)
           last == Result(Nothing, IF stop = "finished" /\ buffered = Nothing THEN id ELSE 0, stop)
<1>3. /\ line \in Line /\ p \in Mark /\ q \in Mark /\ m \in Mark /\ id \in Nat
      /\ Fits(answer, buffered, m.chars, p.chars) /\ q.id = Newer(id, m.id)
      /\ currentType = KindAt(answer, p.chars)
      /\ q = Now /\ q.chars = p.chars
      /\ scanned + 1 \in 1 .. Len(piped)
  BY <1>2, NextLine
<1>4. /\ UNCHANGED <<answer, round, state, piped, pump, closed, cancelled>>
      /\ Now' = Now /\ Given' = Given /\ (Ceased' <=> Ceased) /\ (Filtered' <=> Filtered)
      /\ Settled'
  BY ReaderKept
<1>5. /\ channel \in Seq(ResultType) /\ buffered \in Batch /\ answer \in Seq(Kind)
      /\ piped \in Seq(Line) /\ DOMAIN piped = 1 .. Len(piped) /\ Len(piped) \in Nat /\ Len(answer) \in Nat
  BY <1>1, LenProperties DEF ReaderTypes
<1>6. /\ channel' = sent \o <<last>> /\ buffered' = Nothing
      /\ pendingId' = IF buffered # Nothing \/ stop = "finished" THEN 0 ELSE id
  BY DEF StopLine
<1>7. Chained(answer, Now, channel, Given, m)
  BY <1>2 DEF InStep
<1>8. /\ m.chars \in Nat /\ m.id \in Nat /\ p.chars \in Nat /\ q.chars = Now.chars /\ q.id = Now.id
      /\ Now.chars = Len(answer) /\ Now.id = state.id
  BY <1>3 DEF Mark, Now
<1>9. PICK o \in Mark : /\ SentOn(answer, Now, channel, sent, Given, o) /\ o.chars = p.chars
                       /\ o.id = IF buffered = Nothing THEN m.id ELSE Newer(id, m.id)
  <2> HIDE DEF p
  <2>1. /\ channel \in Seq(ResultType) /\ buffered \in Batch /\ answer \in Seq(Kind)
        /\ m \in Mark /\ id \in Nat /\ p.chars \in Nat
    BY <1>3, <1>5, <1>8
  <2>2. Fits(answer, buffered, m.chars, p.chars)
    BY <1>3
  <2> QED
    BY <1>7, <2>1, <2>2, ChainedFlush
<1>10. /\ sent \in Seq(ResultType) /\ Chained(answer, Now, sent, Given, o) /\ o.chars = p.chars
       /\ o.id = IF buffered = Nothing THEN m.id ELSE Newer(id, m.id)
       /\ \A i \in DOMAIN sent : sent[i].stop # "none" => i \in DOMAIN channel /\ sent[i] = channel[i]
  BY <1>9 DEF SentOn
<1> HIDE DEF line, p, q, sent
<1>11. stop \in {"finished", "error", "filter"}
       /\ (stop = "filter" => line.status = "CONTENT_FILTER")
  BY DEF StopOf, line
<1>12. last.thinking = <<>> /\ last.text = <<>> /\ last.stop = stop
       /\ last.id = (IF stop = "finished" /\ buffered = Nothing THEN id ELSE 0)
  BY DEF Result, Nothing
<1>13. last \in ResultType
  <2>1. <<>> \in Seq(Nat) /\ stop \in Stop
    BY <1>11, EmptySeq DEF Stop
  <2>2. (IF stop = "finished" /\ buffered = Nothing THEN id ELSE 0) \in Nat
    BY <1>3
  <2> QED
    BY <2>1, <2>2 DEF Result, Nothing, ResultType
<1> HIDE DEF last
<1>14. o.chars \in Nat /\ o.id \in Nat /\ last.id \in Nat
  BY <1>3, <1>12 DEF Mark
<1>15. PICK o2 \in Mark : o2.chars = q.chars /\ o2.id = Newer(last.id, o.id)
  <2>1. [chars |-> q.chars, id |-> Newer(last.id, o.id)] \in Mark
    BY <1>3, <1>8, <1>14 DEF Mark, Newer
  <2> QED
    BY <2>1
<1>16. stop = "finished" => o2.id = state.id
  <2>1. CASE buffered = Nothing
    BY <1>3, <1>8, <1>10, <1>12, <1>15, <2>1
  <2>2. CASE buffered # Nothing
    <3>1. o.id = state.id
      BY <1>3, <1>8, <1>10, <2>2
    <3> QED
      BY <1>12, <1>15, <2>2, <3>1 DEF Newer
  <2> QED
    BY <2>1, <2>2
<1>17. Newer(pendingId', o2.id) = q.id
  <2>1. CASE stop = "finished"
    <3>1. pendingId' = 0
      BY <1>6, <2>1
    <3> QED
      BY <1>8, <1>16, <2>1, <3>1 DEF Newer
  <2>2. CASE stop # "finished" /\ buffered # Nothing
    <3>1. pendingId' = 0 /\ last.id = 0 /\ o.id = q.id
      BY <1>3, <1>6, <1>10, <1>12, <2>2
    <3> QED
      BY <1>15, <3>1 DEF Newer
  <2>3. CASE stop # "finished" /\ buffered = Nothing
    <3>1. pendingId' = id /\ last.id = 0 /\ o.id = m.id
      BY <1>6, <1>10, <1>12, <2>3
    <3> QED
      BY <1>3, <1>15, <3>1 DEF Newer
  <2> QED
    BY <2>1, <2>2, <2>3
<1>18. Fits(answer, last, o.chars, o2.chars)
  <2>1. last.thinking = Nothing.thinking /\ last.text = Nothing.text
    BY <1>12 DEF Nothing
  <2>2. o.chars = o2.chars /\ o2.chars <= Len(answer) /\ o2.chars \in Nat
    <3>1. o.chars = q.chars /\ o2.chars = q.chars
      BY <1>3, <1>10, <1>15
    <3>2. q.chars = Len(answer)
      BY <1>8
    <3> QED
      BY <1>5, <3>1, <3>2
  <2>3. Fits(answer, Nothing, o.chars, o2.chars)
    BY <1>5, <1>14, <2>2, NothingFits
  <2> QED
    BY <2>1, <2>3 DEF Fits
<1>19. Brings(answer, Now, last, o, o2)
  BY <1>8, <1>12, <1>15, <1>16, <1>18 DEF Brings
<1>20. channel' = Append(sent, last)
  BY <1>6, <1>10, <1>13, AppendIsConcat
<1>21. Chained(answer, Now, channel', Given, o2)
  BY <1>10, <1>13, <1>15, <1>19, <1>20, ChainedOne
<1>22. /\ channel' \in Seq(ResultType) /\ Len(channel') = Len(sent) + 1
       /\ \A i \in 1 .. Len(sent) : channel'[i] = sent[i]
       /\ channel'[Len(sent) + 1] = last
  BY <1>10, <1>13, <1>20, AppendProperties
<1>23. DOMAIN channel' = 1 .. Len(sent) + 1 /\ DOMAIN sent = 1 .. Len(sent) /\ Len(sent) \in Nat
  BY <1>10, <1>22, LenProperties
<1>24. Ceased
  BY <1>1, <1>3, <1>5, <1>11 DEF Ceasing, line
<1>25. (\E i \in DOMAIN channel' : channel'[i].stop = "filter") => Filtered
  <2> SUFFICES ASSUME NEW i \in DOMAIN channel', channel'[i].stop = "filter" PROVE Filtered
    OBVIOUS
  <2>1. CASE i = Len(sent) + 1
    <3>1. line.status = "CONTENT_FILTER"
      BY <1>11, <1>12, <1>22, <2>1
    <3> QED
      BY <1>3, <1>5, <3>1 DEF Filtered, line
  <2>2. CASE i # Len(sent) + 1
    <3>1. i \in DOMAIN sent /\ i \in 1 .. Len(sent)
      BY <1>23, <2>2
    <3>2. sent[i].stop = "filter"
      BY <1>22, <3>1
    <3>3. i \in DOMAIN channel /\ channel[i].stop = "filter"
      BY <1>10, <3>1, <3>2
    <3> QED
      BY <1>1, <3>3 DEF Ceasing
  <2> QED
    BY <2>1, <2>2
<1>26. ReaderTypes'
  <2>1. pendingId' \in Nat
    BY <1>3, <1>6
  <2>2. scanned' \in 0 .. Len(piped')
    BY <1>3, <1>4, <1>5
  <2> QED
    BY <1>1, <1>4, <1>6, <1>22, <2>1, <2>2, NothingType DEF ReaderTypes
<1>27. Ceasing'
  BY <1>1, <1>4, <1>24, <1>25 DEF Ceasing
<1>28. RepeatsAlone'
  BY <1>1, <1>4, <1>5, <1>6 DEF RepeatsAlone
<1>29. Linked'
  <2>1. Fits(answer, Nothing, o2.chars, q.chars)
    BY <1>3, <1>5, <1>8, <1>15, NothingFits
  <2>2. currentType' = KindAt(answer, q.chars)
    BY <1>3
  <2>3. m \in Mark /\ Marked(answer, Now, piped, f)
    BY <1>2 DEF InStep
  <2>4. InStep(f, o2)'
    BY <1>4, <1>6, <1>15, <1>17, <1>21, <2>1, <2>2, <2>3 DEF InStep, q
  <2> QED
    BY <2>4 DEF Linked
<1> QED
  BY <1>4, <1>26, <1>27, <1>28, <1>29 DEF ReaderInv

(* Results that stop nothing are handed on. *)
LEMMA HandedOn ==
    ASSUME ReaderInv, UNCHANGED <<bodyVars, seen, messageId, engine>>,
           NEW f, NEW m, InStep(f, m),
           NEW o \in Mark, SentOn(answer, Now, channel, channel', Given, o),
           buffered' \in Batch, pendingId' \in Nat, scanned' \in 0 .. Len(piped),
           Fits(answer, buffered', o.chars, f[scanned'].chars),
           f[scanned'].id = Newer(pendingId', o.id),
           currentType' = KindAt(answer, f[scanned'].chars), RepeatsAlone',
           linesEnd' # "none" =>
              buffered' = Nothing /\ (cancelled \/ (scanned' = Len(piped) /\ pump \in {"ended", "failed"}))
    PROVE  ReaderInv'
<1>1. ReaderTypes /\ Ceasing
  BY DEF ReaderInv
<1>2. /\ UNCHANGED <<answer, round, state, piped, pump, closed, cancelled>>
      /\ Now' = Now /\ Given' = Given /\ (Ceased' <=> Ceased) /\ (Filtered' <=> Filtered)
      /\ Settled'
  BY ReaderKept
<1>3. /\ channel' \in Seq(ResultType) /\ Chained(answer, Now, channel', Given, o)
      /\ \A i \in DOMAIN channel' : channel'[i].stop # "none" => i \in DOMAIN channel /\ channel'[i] = channel[i]
  BY DEF SentOn
<1>4. ReaderTypes'
  BY <1>1, <1>2, <1>3 DEF ReaderTypes
<1>5. Ceasing'
  <2>1. (\E i \in DOMAIN channel' : channel'[i].stop # "none") => Ceased
    BY <1>1, <1>3 DEF Ceasing
  <2>2. (\E i \in DOMAIN channel' : channel'[i].stop = "filter") => Filtered
    <3> SUFFICES ASSUME NEW i \in DOMAIN channel', channel'[i].stop = "filter" PROVE Filtered
      OBVIOUS
    <3>1. i \in DOMAIN channel /\ channel[i].stop = "filter"
      BY <1>3
    <3> QED
      BY <1>1, <3>1 DEF Ceasing
  <2> QED
    BY <1>1, <1>2, <2>1, <2>2 DEF Ceasing
<1>6. Linked'
  <2>1. Marked(answer, Now, piped, f)
    BY DEF InStep
  <2>2. InStep(f, o)'
    BY <1>2, <1>3, <2>1 DEF InStep
  <2> QED
    BY <2>2 DEF Linked
<1> QED
  BY <1>2, <1>4, <1>5, <1>6 DEF ReaderInv

(* The buffer is sent on by its timer or at the end of the lines. *)
LEMMA FlushStep ==
    ASSUME ReaderInv, MaxWaitOver \/ LinesEnd
    PROVE  ReaderInv'
<1>1. ReaderTypes /\ Ceasing /\ RepeatsAlone /\ Linked
  BY DEF ReaderInv
<1>2. PICK f, m : InStep(f, m)
  BY <1>1 DEF Linked
<1>3. /\ UNCHANGED <<bodyVars, seen, messageId, engine>> /\ scanned' = scanned /\ currentType' = currentType
      /\ channel' = channel \o Flushed(buffered, pendingId) /\ buffered' = Nothing
      /\ pendingId' = pendingId \/ (buffered # Nothing /\ pendingId' = 0)
  BY DEF MaxWaitOver, LinesEnd
<1>4. linesEnd' # "none" => cancelled \/ (scanned' = Len(piped) /\ pump \in {"ended", "failed"})
  <2>1. CASE MaxWaitOver
    BY <2>1 DEF MaxWaitOver
  <2>2. CASE LinesEnd
    BY <2>2 DEF LinesEnd
  <2> QED
    BY <2>1, <2>2
<1>5. /\ channel \in Seq(ResultType) /\ buffered \in Batch /\ answer \in Seq(Kind)
      /\ pendingId \in Nat /\ scanned \in 0 .. Len(piped) /\ Len(answer) \in Nat
  BY <1>1, LenProperties DEF ReaderTypes
<1>6. /\ f \in [0 .. Len(piped) -> Mark] /\ m \in Mark
      /\ Chained(answer, Now, channel, Given, m)
      /\ Fits(answer, buffered, m.chars, f[scanned].chars)
      /\ f[scanned].id = Newer(pendingId, m.id)
      /\ currentType = KindAt(answer, f[scanned].chars)
      /\ f[scanned].chars <= Len(answer)
  BY <1>2, <1>5 DEF InStep, Marked
<1>7. f[scanned] \in Mark
  BY <1>5, <1>6
<1>8. f[scanned].chars \in Nat /\ m.id \in Nat
  BY <1>6, <1>7 DEF Mark
<1>9. PICK o \in Mark : /\ SentOn(answer, Now, channel, channel \o Flushed(buffered, pendingId), Given, o)
                       /\ o.chars = f[scanned].chars
                       /\ o.id = IF buffered = Nothing THEN m.id ELSE Newer(pendingId, m.id)
  <2>1. /\ channel \in Seq(ResultType) /\ buffered \in Batch /\ answer \in Seq(Kind)
        /\ m \in Mark /\ pendingId \in Nat /\ f[scanned].chars \in Nat
    BY <1>5, <1>6, <1>8
  <2>2. Fits(answer, buffered, m.chars, f[scanned].chars) /\ Chained(answer, Now, channel, Given, m)
    BY <1>6
  <2> QED
    BY <2>1, <2>2, ChainedFlush
<1>10. Fits(answer, Nothing, o.chars, f[scanned].chars)
  BY <1>5, <1>6, <1>8, <1>9, NothingFits
<1>11. f[scanned].id = Newer(pendingId', o.id) /\ pendingId' \in Nat
  BY <1>3, <1>5, <1>6, <1>8, <1>9 DEF Newer
<1>12. RepeatsAlone'
  BY <1>1, <1>3 DEF RepeatsAlone, bodyVars
<1>13. SentOn(answer, Now, channel, channel', Given, o)
  BY <1>3, <1>9
<1>14. /\ buffered' \in Batch /\ scanned' \in 0 .. Len(piped)
       /\ Fits(answer, buffered', o.chars, f[scanned'].chars)
       /\ f[scanned'].id = Newer(pendingId', o.id)
       /\ currentType' = KindAt(answer, f[scanned'].chars)
  BY <1>3, <1>5, <1>6, <1>10, <1>11, NothingType
<1> QED
  BY <1>2, <1>3, <1>4, <1>11, <1>12, <1>13, <1>14, HandedOn

LEMMA SentOnTwice ==
    ASSUME NEW ans, NEW now, NEW a, NEW b, NEW c, NEW m, NEW n, NEW o,
           SentOn(ans, now, a, b, m, n), SentOn(ans, now, b, c, m, o)
    PROVE  SentOn(ans, now, a, c, m, o)
<1>1. ASSUME NEW i \in DOMAIN c, c[i].stop # "none" PROVE i \in DOMAIN a /\ c[i] = a[i]
  <2>1. i \in DOMAIN b /\ c[i] = b[i]
    BY <1>1 DEF SentOn
  <2>2. b[i].stop # "none"
    BY <1>1, <2>1
  <2>3. i \in DOMAIN a /\ b[i] = a[i]
    BY <2>1, <2>2 DEF SentOn
  <2> QED
    BY <2>1, <2>3
<1> QED
  BY <1>1 DEF SentOn

(* A line that says more, and the two ways in which what is buffered goes on. *)
LEMMA ContentStep ==
    ASSUME ReaderInv, linesEnd = "none", scanned < Len(piped),
           NEW id, id = (IF piped[scanned + 1].id > 0 THEN piped[scanned + 1].id ELSE pendingId),
           StopOf(piped[scanned + 1]) = "none", ContentLine(piped[scanned + 1], id),
           currentType' = IF piped[scanned + 1].chars = <<>> THEN currentType ELSE KindOf(piped[scanned + 1]),
           scanned' = scanned + 1,
           UNCHANGED <<bodyVars, linesEnd, seen, messageId, ticks, engine>>
    PROVE  ReaderInv'
<1>1. ReaderTypes /\ Ceasing /\ RepeatsAlone /\ Linked
  BY DEF ReaderInv
<1>2. PICK f, m : InStep(f, m)
  BY <1>1 DEF Linked
<1> DEFINE line == piped[scanned + 1]
           p    == f[scanned]
           q    == f[scanned + 1]
           kind == KindOf(line)
           first  == kind = "thinking" /\ line.chars # <<>> /\ buffered.text # <<>>
           before == IF first THEN Flushed(buffered, id) ELSE <<>>
           base   == IF first THEN Nothing ELSE buffered
           after  == IF line.chars = <<>> THEN base ELSE Buffering(base, kind, line.chars)
           id2    == IF first THEN 0 ELSE id
           ch1    == channel \o before
<1>3. /\ line \in Line /\ p \in Mark /\ q \in Mark /\ m \in Mark /\ id \in Nat
      /\ q.chars <= Len(answer) /\ LeadsTo(answer, line, p, q)
      /\ Fits(answer, buffered, m.chars, p.chars) /\ q.id = Newer(id, m.id)
      /\ currentType = KindAt(answer, p.chars)
      /\ scanned + 1 \in 1 .. Len(piped)
  BY <1>2, NextLine
<1>4. /\ channel \in Seq(ResultType) /\ buffered \in Batch /\ answer \in Seq(Kind) /\ piped \in Seq(Line)
      /\ Len(piped) \in Nat /\ Len(answer) \in Nat /\ scanned \in 0 .. Len(piped)
  BY <1>1, LenProperties DEF ReaderTypes
<1>5. Chained(answer, Now, channel, Given, m)
  BY <1>2 DEF InStep
<1>6. m.chars \in Nat /\ m.id \in Nat /\ p.chars \in Nat /\ q.chars \in Nat
  BY <1>3 DEF Mark
<1>7. line.chars = <<>> \/ line.chars = Span(p.chars, q.chars) \/ buffered = Nothing
  <2> SUFFICES ASSUME line.chars = Span(0, q.chars), p.chars > 0, q.chars = p.chars + 1
               PROVE  buffered = Nothing
    BY <1>3 DEF LeadsTo, Adds
  <2>1. q.chars > 1
    BY <1>6
  <2>2. Len(piped[scanned + 1].chars) > 1
    BY <1>6, <2>1, SpanOfMany
  <2>3. scanned + 1 \in scanned + 1 .. Len(piped)
    BY <1>3, <1>4
  <2> QED
    BY <1>1, <2>2, <2>3 DEF RepeatsAlone
<1>8. /\ \/ channel' = ch1 /\ buffered' = after /\ pendingId' = id2
         \/ /\ channel' = ch1 \o Flushed(after, id2) /\ line.chars # <<>>
            /\ buffered' = Nothing /\ pendingId' = 0
  BY DEF ContentLine
<1> HIDE DEF line, p, q, kind, first, before, base, after, id2, ch1
<1>9. kind = (IF line.kind = "none" THEN KindAt(answer, p.chars) ELSE line.kind)
  BY <1>3 DEF kind, KindOf
<1>10. line.chars # <<>> =>
         /\ kind \in Kind /\ kind = answer[q.chars] /\ q.chars = p.chars + 1
         /\ first => Buffering(Nothing, kind, line.chars) \in Batch \ {Nothing}
                     /\ Fits(answer, Buffering(Nothing, kind, line.chars), p.chars, q.chars)
         /\ ~first => Buffering(buffered, kind, line.chars) \in Batch \ {Nothing}
                     /\ Fits(answer, Buffering(buffered, kind, line.chars), m.chars, q.chars)
  <2> SUFFICES ASSUME line.chars # <<>>
               PROVE  /\ kind \in Kind /\ kind = answer[q.chars] /\ q.chars = p.chars + 1
                      /\ first => Buffering(Nothing, kind, line.chars) \in Batch \ {Nothing}
                            /\ Fits(answer, Buffering(Nothing, kind, line.chars), p.chars, q.chars)
                      /\ ~first => Buffering(buffered, kind, line.chars) \in Batch \ {Nothing}
                            /\ Fits(answer, Buffering(buffered, kind, line.chars), m.chars, q.chars)
    OBVIOUS
  <2>1. Adds(answer, line, p.chars, q.chars)
    BY <1>3 DEF LeadsTo
  <2>2. buffered = Nothing \/ line.chars = Span(p.chars, q.chars)
    BY <1>7
  <2>3. Fits(answer, buffered, m.chars, p.chars) /\ line \in Line
    BY <1>3
  <2>4. first <=> kind = "thinking" /\ buffered.text # <<>>
    BY DEF first
  <2>5. /\ kind \in Kind /\ kind = answer[q.chars] /\ q.chars = p.chars + 1
        /\ (kind = "thinking" /\ buffered.text # <<>>) =>
              /\ Buffering(Nothing, kind, line.chars) \in Batch \ {Nothing}
              /\ Fits(answer, Buffering(Nothing, kind, line.chars), p.chars, q.chars)
        /\ ~(kind = "thinking" /\ buffered.text # <<>>) =>
              /\ Buffering(buffered, kind, line.chars) \in Batch \ {Nothing}
              /\ Fits(answer, Buffering(buffered, kind, line.chars), m.chars, q.chars)
    <3>1. /\ answer \in Seq(Kind) /\ buffered \in Batch /\ m.chars \in Nat
          /\ p.chars \in Nat /\ q.chars \in Nat
      BY <1>4, <1>6
    <3> QED
      BY <1>9, <2>1, <2>2, <2>3, <3>1, LineBuffered
  <2> QED
    BY <2>4, <2>5
<1>11. line.chars = <<>> => q.chars = p.chars /\ ~first
  <2>1. Adds(answer, line, p.chars, q.chars) => line.chars # <<>>
    <3> SUFFICES ASSUME Adds(answer, line, p.chars, q.chars) PROVE line.chars # <<>>
      OBVIOUS
    <3>1. q.chars = p.chars + 1 /\ (line.chars = Span(p.chars, q.chars) \/ line.chars = Span(0, q.chars))
      BY DEF Adds
    <3>2. p.chars <= q.chars /\ p.chars # q.chars /\ 0 <= q.chars /\ 0 # q.chars /\ 0 \in Nat
      BY <1>6, <3>1
    <3>3. Span(p.chars, q.chars) # <<>> /\ Span(0, q.chars) # <<>>
      BY <1>6, <3>2, SpanEmpty
    <3> QED
      BY <3>1, <3>3
  <2> QED
    BY <1>3, <2>1 DEF LeadsTo, first
(* What is sent before the line. *)
<1>12. PICK o1 \in Mark :
          /\ SentOn(answer, Now, channel, ch1, Given, o1)
          /\ first => o1.chars = p.chars /\ o1.id = Newer(id, m.id)
          /\ ~first => o1 = m
  <2>1. CASE first
    <3>1. PICK o \in Mark : /\ SentOn(answer, Now, channel, channel \o Flushed(buffered, id), Given, o)
                           /\ o.chars = p.chars
                           /\ o.id = IF buffered = Nothing THEN m.id ELSE Newer(id, m.id)
      <4>1. /\ channel \in Seq(ResultType) /\ buffered \in Batch /\ answer \in Seq(Kind)
            /\ m \in Mark /\ id \in Nat /\ p.chars \in Nat
        BY <1>3, <1>4, <1>6
      <4>2. Fits(answer, buffered, m.chars, p.chars)
        BY <1>3
      <4> QED
        BY <1>5, <4>1, <4>2, ChainedFlush
    <3>2. buffered # Nothing
      BY <2>1 DEF first, Nothing
    <3>3. ch1 = channel \o Flushed(buffered, id)
      BY <2>1 DEF ch1, before
    <3> QED
      BY <2>1, <3>1, <3>2, <3>3
  <2>2. CASE ~first
    <3>1. ch1 = channel
      BY <1>4, <2>2, ConcatEmptySeq DEF ch1, before
    <3>2. SentOn(answer, Now, channel, channel, Given, m)
      BY <1>4, <1>5 DEF SentOn
    <3> QED
      BY <1>3, <2>2, <3>1, <3>2
  <2> QED
    BY <2>1, <2>2
<1>13. after \in Batch /\ Fits(answer, after, o1.chars, q.chars) /\ (line.chars # <<>> => after # Nothing)
  <2>1. CASE line.chars = <<>>
    BY <1>3, <1>4, <1>11, <1>12, <2>1 DEF after, base
  <2>2. CASE line.chars # <<>> /\ first
    BY <1>10, <1>12, <2>2 DEF after, base
  <2>3. CASE line.chars # <<>> /\ ~first
    BY <1>10, <1>12, <2>3 DEF after, base
  <2> QED
    BY <2>1, <2>2, <2>3
<1>14. id2 \in Nat /\ q.id = Newer(id2, o1.id)
  <2>1. CASE first
    BY <1>3, <1>12, <2>1 DEF id2, Newer
  <2>2. CASE ~first
    BY <1>3, <1>12, <2>2 DEF id2
  <2> QED
    BY <2>1, <2>2
(* What is sent with it. *)
<1>15. \E o \in Mark : /\ SentOn(answer, Now, channel, channel', Given, o)
                       /\ buffered' \in Batch /\ Fits(answer, buffered', o.chars, q.chars)
                       /\ pendingId' \in Nat /\ q.id = Newer(pendingId', o.id)
  <2>1. CASE channel' = ch1 /\ buffered' = after /\ pendingId' = id2
    BY <1>12, <1>13, <1>14, <2>1
  <2>2. CASE /\ channel' = ch1 \o Flushed(after, id2) /\ line.chars # <<>>
             /\ buffered' = Nothing /\ pendingId' = 0
    <3>1. ch1 \in Seq(ResultType) /\ Chained(answer, Now, ch1, Given, o1)
      BY <1>12 DEF SentOn
    <3>2. Fits(answer, after, o1.chars, q.chars) /\ after \in Batch /\ after # Nothing
      BY <1>13, <2>2
    <3>3. PICK o \in Mark : /\ SentOn(answer, Now, ch1, ch1 \o Flushed(after, id2), Given, o)
                           /\ o.chars = q.chars
                           /\ o.id = IF after = Nothing THEN o1.id ELSE Newer(id2, o1.id)
      <4>1. answer \in Seq(Kind) /\ q.chars \in Nat /\ id2 \in Nat
        BY <1>4, <1>6, <1>14
      <4> QED
        BY <3>1, <3>2, <4>1, ChainedFlush
    <3>4. SentOn(answer, Now, channel, channel', Given, o)
      BY <1>12, <2>2, <3>3, SentOnTwice
    <3>5. Fits(answer, Nothing, o.chars, q.chars)
      BY <1>3, <1>4, <1>6, <3>3, NothingFits
    <3>6. q.id = Newer(0, o.id)
      BY <1>14, <3>2, <3>3 DEF Newer
    <3> QED
      BY <2>2, <3>4, <3>5, <3>6, NothingType
  <2> QED
    BY <1>8, <2>1, <2>2
<1>16. PICK o \in Mark : /\ SentOn(answer, Now, channel, channel', Given, o)
                         /\ buffered' \in Batch /\ Fits(answer, buffered', o.chars, q.chars)
                         /\ pendingId' \in Nat /\ q.id = Newer(pendingId', o.id)
  BY <1>15
<1>17. currentType' = KindAt(answer, q.chars)
  <2>1. CASE line.chars = <<>>
    BY <1>3, <1>11, <2>1 DEF line
  <2>2. CASE line.chars # <<>>
    <3>1. kind = answer[q.chars] /\ q.chars # 0
      BY <1>6, <1>10, <2>2
    <3>2. currentType' = kind
      BY <2>2 DEF line, kind
    <3> QED
      BY <3>1, <3>2 DEF KindAt
  <2> QED
    BY <2>1, <2>2
<1>18. RepeatsAlone'
  <2> SUFFICES ASSUME NEW j \in scanned' + 1 .. Len(piped'), Len(piped'[j].chars) > 1
               PROVE  FALSE
    BY DEF RepeatsAlone
  <2>1. piped' = piped
    BY DEF bodyVars
  <2>2. j \in scanned + 1 .. Len(piped) /\ j # scanned + 1
    BY <1>4, <2>1
  <2> QED
    BY <1>1, <2>1, <2>2 DEF RepeatsAlone
<1>19. /\ scanned' \in 0 .. Len(piped) /\ Fits(answer, buffered', o.chars, f[scanned'].chars)
       /\ f[scanned'].id = Newer(pendingId', o.id) /\ currentType' = KindAt(answer, f[scanned'].chars)
  BY <1>3, <1>4, <1>16, <1>17 DEF q
<1> QED
  BY <1>2, <1>16, <1>18, <1>19, HandedOn

LEMMA ReadLineStep ==
    ASSUME ReaderInv, ReadLine
    PROVE  ReaderInv'
<1> DEFINE id == IF piped[scanned + 1].id > 0 THEN piped[scanned + 1].id ELSE pendingId
<1>1. /\ linesEnd = "none" /\ scanned < Len(piped) /\ scanned' = scanned + 1
      /\ UNCHANGED <<bodyVars, linesEnd, seen, messageId, ticks, engine>>
      /\ currentType' = IF piped[scanned + 1].chars = <<>> THEN currentType ELSE KindOf(piped[scanned + 1])
  BY DEF ReadLine
<1>2. IF StopOf(piped[scanned + 1]) # "none"
      THEN StopLine(StopOf(piped[scanned + 1]), id) ELSE ContentLine(piped[scanned + 1], id)
  BY DEF ReadLine
<1> HIDE DEF id
<1>3. id = IF piped[scanned + 1].id > 0 THEN piped[scanned + 1].id ELSE pendingId
  BY DEF id
<1>4. CASE StopOf(piped[scanned + 1]) # "none"
  <2>1. PICK f, m : InStep(f, m)
    BY DEF ReaderInv, Linked
  <2>2. piped[scanned + 1].chars = <<>>
    BY <1>1, <1>3, <1>4, <2>1, NextLine
  <2> QED
    BY <1>1, <1>2, <1>3, <1>4, <2>2, StopStep
<1>5. CASE StopOf(piped[scanned + 1]) = "none"
  BY <1>1, <1>2, <1>3, <1>5, ContentStep
<1> QED
  BY <1>4, <1>5

(* The handler takes a result. *)
LEMMA ReceiveStep ==
    ASSUME ReaderInv, Receive
    PROVE  ReaderInv'
<1>1. ReaderTypes /\ Ceasing /\ RepeatsAlone /\ Linked /\ Settled
  BY DEF ReaderInv
<1> DEFINE r == Head(channel)
<1>2. /\ engine = "running" /\ channel # <<>> /\ channel' = Tail(channel)
      /\ messageId' = Newer(r.id, messageId)
      /\ seen' = Apply(Apply(seen, "thinking", r.thinking), "text", r.text)
      /\ UNCHANGED <<answer, round, state, hadDone, piped, pump, cancelled,
                     scanned, currentType, buffered, pendingId, linesEnd, ticks>>
  BY DEF Receive, Newer
<1>3. \/ r.stop = "none" /\ UNCHANGED <<engine, closed>>
      \/ r.stop = "finished" /\ engine' = "handler_requested" /\ closed' = TRUE
      \/ r.stop = "error" /\ engine' = "content_filter" /\ closed' = TRUE
      \/ r.stop = "filter" /\ engine' \in {"content_filter", "handler_requested"} /\ closed' = TRUE
  <2>1. r.stop \in Stop
    <3>1. channel \in Seq(ResultType)
      BY <1>1 DEF ReaderTypes
    <3>2. r \in ResultType
      BY <1>2, <3>1, HeadTailProperties
    <3> HIDE DEF r
    <3> QED
      BY <3>2 DEF ResultType
  <2>2. CASE r.stop = "none"
    BY <2>2 DEF Receive
  <2>3. CASE r.stop = "finished"
    BY <2>3 DEF Receive, Finalize
  <2>4. CASE r.stop = "error"
    BY <2>4 DEF Receive, Finalize
  <2>5. CASE r.stop = "filter"
    BY <2>5 DEF Receive, Finalize
  <2> QED
    BY <2>1, <2>2, <2>3, <2>4, <2>5 DEF Stop
<1>4. /\ channel \in Seq(ResultType) /\ answer \in Seq(Kind) /\ Len(answer) \in Nat
      /\ state.id \in Nat /\ messageId \in Nat
      /\ seen = First(answer, Len(seen)) /\ Len(seen) \in Nat
  BY <1>1, LenProperties DEF ReaderTypes
<1>5. /\ r \in ResultType /\ Tail(channel) \in Seq(ResultType) /\ Len(Tail(channel)) = Len(channel) - 1
      /\ \A i \in 1 .. Len(Tail(channel)) : Tail(channel)[i] = channel[i + 1]
  BY <1>2, <1>4, HeadTailProperties
<1>6. /\ DOMAIN channel = 1 .. Len(channel) /\ Len(channel) \in Nat /\ Len(channel) > 0
      /\ DOMAIN Tail(channel) = 1 .. Len(channel) - 1 /\ r = channel[1]
  BY <1>2, <1>4, <1>5, LenProperties, EmptySeq
<1> HIDE DEF r
<1>7. PICK f, m : InStep(f, m)
  BY <1>1 DEF Linked
<1>8. Chained(answer, Now, channel, Given, m)
  BY <1>7 DEF InStep
<1>9. PICK n \in Mark : Brings(answer, Now, r, Given, n) /\ Chained(answer, Now, Tail(channel), n, m)
  <2>1. \E n \in Mark : Brings(answer, Now, Head(channel), Given, n) /\ Chained(answer, Now, Tail(channel), n, m)
    BY <1>2, <1>4, <1>8, ChainedTail
  <2> QED
    BY <2>1 DEF r
<1>10. /\ Fits(answer, r, Len(seen), n.chars)
       /\ n.id = Newer(r.id, messageId)
       /\ r.stop # "none" => n.chars = Len(answer)
       /\ r.stop = "finished" => n.id = state.id
       /\ n.chars \in Nat /\ n.id \in Nat
  BY <1>9 DEF Brings, Given, Now, Mark
<1>11. n.chars \in 0 .. Len(answer)
  BY <1>4, <1>10 DEF Fits
<1>12. seen' = First(answer, n.chars) /\ Len(seen') = n.chars
  <2>1. Apply(Apply(First(answer, Len(seen)), "thinking", r.thinking), "text", r.text)
           = First(answer, n.chars)
    BY <1>4, <1>10, FitsGives
  <2>2. seen' = First(answer, n.chars)
    BY <1>2, <1>4, <2>1 DEF r
  <2> QED
    BY <1>4, <1>11, <2>2, FirstType
<1>13. messageId' = n.id
  BY <1>2, <1>10
<1>14. Given' = n
  BY <1>9, <1>12, <1>13 DEF Given, Mark
<1>15. Now' = Now /\ (Ceased' <=> Ceased) /\ (Filtered' <=> Filtered)
  BY <1>2 DEF Now, Ceased, Failing, Filtered
<1>16. ReaderTypes'
  BY <1>1, <1>2, <1>5, <1>10, <1>11, <1>12, <1>13 DEF ReaderTypes
<1>17. Ceasing'
  <2>1. \A i \in DOMAIN channel' : i + 1 \in DOMAIN channel /\ channel'[i] = channel[i + 1]
    BY <1>2, <1>5, <1>6
  <2>2. (\E i \in DOMAIN channel' : channel'[i].stop # "none") => Ceased
    BY <1>1, <2>1 DEF Ceasing
  <2>3. (\E i \in DOMAIN channel' : channel'[i].stop = "filter") => Filtered
    BY <1>1, <2>1 DEF Ceasing
  <2>4. closed' <=> engine' # "running"
    <3>1. closed <=> engine # "running"
      BY <1>1 DEF Ceasing
    <3> QED
      BY <1>2, <1>3, <3>1
  <2> QED
    BY <1>1, <1>2, <1>15, <2>2, <2>3, <2>4 DEF Ceasing
<1>18. RepeatsAlone'
  BY <1>1, <1>2 DEF RepeatsAlone
<1>19. Linked'
  <2>1. InStep(f, m)'
    BY <1>2, <1>7, <1>9, <1>14, <1>15 DEF InStep
  <2> QED
    BY <2>1 DEF Linked
<1>20. Settled'
  <2>1. r.stop = "filter" => Filtered
    <3>1. 1 \in DOMAIN channel
      BY <1>6
    <3> QED
      BY <1>1, <1>6, <3>1 DEF Ceasing
  <2>2. pump' = "ended" => ~ShouldContinue' \/ round' = MaxRounds
    BY <1>1, <1>2 DEF Settled, ShouldContinue
  <2>3. Orderly' => Len(seen') = Len(answer')
    <3>1. Orderly' => r.stop # "none"
      BY <1>2, <1>3 DEF Orderly
    <3> QED
      BY <1>2, <1>10, <1>12, <3>1
  <2>4. engine' = "handler_requested" => messageId' = state'.id \/ Filtered'
    <3>1. engine' = "handler_requested" => r.stop \in {"finished", "filter"}
      BY <1>2, <1>3
    <3> QED
      BY <1>2, <1>10, <1>13, <1>15, <2>1, <3>1
  <2> QED
    BY <2>2, <2>3, <2>4 DEF Settled
<1> QED
  BY <1>16, <1>17, <1>18, <1>19, <1>20 DEF ReaderInv

LEMMA LinesOver ==
    ASSUME Ceasing, linesEnd # "none", ~cancelled
    PROVE  buffered = Nothing /\ scanned = Len(piped)
<1>1. linesEnd # "none" => /\ buffered = Nothing
                           /\ cancelled \/ (scanned = Len(piped) /\ pump \in {"ended", "failed"})
  BY Zenon DEF Ceasing
<1> QED
  BY <1>1, Zenon

(* The lines are over and all their results are taken. *)
LEMMA AllGiven ==
    ASSUME ReaderInv, ~cancelled, channel = <<>>, linesEnd # "none"
    PROVE  Len(seen) = Len(answer)
<1>1. ReaderTypes /\ Ceasing /\ Linked
  BY DEF ReaderInv
<1>2. PICK f, m : InStep(f, m)
  BY <1>1 DEF Linked
<1>3. buffered = Nothing /\ scanned = Len(piped)
  BY <1>1, LinesOver
<1>4. f[scanned] = Now /\ m \in Mark
  BY <1>2, <1>3 DEF InStep, Marked
<1>5. Chained(answer, Now, <<>>, Given, m) /\ Fits(answer, Nothing, m.chars, Now.chars)
  BY <1>2, <1>3, <1>4 DEF InStep
<1>6. Given = m
  BY <1>1, <1>4, <1>5, NowType, ChainedNone
<1>7. m.chars \in Nat /\ Now.chars \in Nat /\ answer \in Seq(Kind)
  BY <1>1, <1>4, NowType DEF Mark, ReaderTypes
<1>8. m.chars = Now.chars
  BY <1>5, <1>7, NothingFits
<1> QED
  BY <1>6, <1>8 DEF Given, Now

(* The handler stops for another reason, or the client goes away. *)
LEMMA HandlerStep ==
    ASSUME ReaderInv, ChannelClosed \/ Tick \/ ContextDone \/ Cancel
    PROVE  ReaderInv'
<1>1. ReaderTypes /\ Ceasing /\ RepeatsAlone /\ Linked /\ Settled
  BY DEF ReaderInv
<1>2. /\ UNCHANGED <<answer, round, state, piped, pump, scanned, currentType, buffered,
                     pendingId, channel, linesEnd, seen, messageId>>
      /\ engine = "running" /\ (cancelled => cancelled')
  BY DEF ChannelClosed, Tick, ContextDone, Cancel, lineVars
<1>3. \/ UNCHANGED <<engine, closed>>
      \/ engine' # "running" /\ closed' = TRUE
  BY DEF ChannelClosed, Tick, ContextDone, Cancel, lineVars, Finalize
<1>4. engine' # "handler_requested" /\ (Orderly' => Len(seen) = Len(answer))
  <2>1. CASE ChannelClosed
    <3>1. Len(seen) = Len(answer)
      BY <2>1, AllGiven DEF ChannelClosed
    <3> QED
      BY <2>1, <3>1 DEF ChannelClosed, Finalize
  <2>2. CASE Tick \/ ContextDone \/ Cancel
    BY <1>2, <2>2 DEF Tick, ContextDone, Cancel, lineVars, Finalize, Orderly
  <2> QED
    BY <2>1, <2>2
<1>5. Filtered' = Filtered /\ (Ceased' <=> Ceased)
  BY <1>2 DEF Filtered, Ceased, Failing
<1>6. ReaderTypes' /\ RepeatsAlone'
  BY <1>1, <1>2 DEF ReaderTypes, RepeatsAlone
<1>7. Ceasing'
  <2>1. closed' <=> engine' # "running"
    <3>1. closed <=> engine # "running"
      BY <1>1 DEF Ceasing
    <3> QED
      BY <1>3, <3>1
  <2> QED
    BY <1>1, <1>2, <1>5, <2>1 DEF Ceasing
<1>8. Linked'
  BY <1>1, <1>2, LinkedKept
<1>9. Settled'
  BY <1>1, <1>2, <1>4 DEF Settled, ShouldContinue
<1> QED
  BY <1>6, <1>7, <1>8, <1>9 DEF ReaderInv

LEMMA ReaderStart == LineInit => ReaderInv
<1> SUFFICES ASSUME LineInit PROVE ReaderInv
  OBVIOUS
<1>1. /\ answer = <<>> /\ round = 0 /\ hadDone = FALSE /\ piped = <<>>
      /\ state = [id |-> 0, status |-> "none", finished |-> FALSE]
      /\ pump = "reading" /\ closed = FALSE /\ cancelled = FALSE
      /\ scanned = 0 /\ currentType = "thinking" /\ buffered = Nothing /\ pendingId = 0
      /\ channel = <<>> /\ linesEnd = "none" /\ seen = <<>> /\ messageId = 0
      /\ engine = "running"
  BY DEF LineInit, BodyInit
<1>2. Len(<<>>) = 0 /\ DOMAIN <<>> = {}
  BY EmptySeq
<1>3. /\ <<>> \in Seq(Kind) /\ <<>> \in Seq(Line) /\ <<>> \in Seq(ResultType)
  BY EmptySeq
<1>4. First(<<>>, 0) = <<>>
  <2>1. <<>> \in Seq(Kind) /\ 0 \in 0 .. Len(<<>>)
    BY <1>2, <1>3
  <2>2. First(<<>>, 0) \in Seq([kind : Kind, char : Nat]) /\ Len(First(<<>>, 0)) = 0
    BY <2>1, FirstType
  <2> QED
    BY <2>2, EmptySeq
<1>5. ReaderTypes
  <2>1. state \in [id : Nat, status : Status, finished : BOOLEAN]
    BY <1>1 DEF Status
  <2>2. 0 \in 0 .. MaxRounds
    BY BodyBounds
  <2> QED
    BY <1>1, <1>2, <1>3, <1>4, <2>1, <2>2, NothingType DEF ReaderTypes
<1>6. Ceasing
  BY <1>1, <1>2 DEF Ceasing
<1>7. RepeatsAlone
  BY <1>1, <1>2 DEF RepeatsAlone
<1>8. Linked
  <2> DEFINE z == [chars |-> 0, id |-> 0]
             f == [i \in 0 .. 0 |-> z]
  <2>1. z \in Mark /\ Now = z /\ Given = z
    BY <1>1, <1>2 DEF Mark, Now, Given
  <2>2. f \in [0 .. 0 -> Mark] /\ f[0] = z
    BY <2>1
  <2>3. Marked(answer, Now, piped, f)
    <3>1. \A j \in 0 .. 0 : f[j].chars <= 0
      BY <2>2
    <3> HIDE DEF f
    <3> QED
      BY <1>1, <1>2, <2>1, <2>2, <3>1 DEF Marked
  <2>4. Chained(answer, Now, channel, Given, z)
    BY <1>1, <2>1, ChainedNone
  <2>5. Fits(answer, buffered, z.chars, f[scanned].chars)
    <3>1. Fits(answer, Nothing, 0, 0)
      <4>1. answer \in Seq(Kind) /\ 0 \in Nat /\ 0 <= Len(answer)
        BY <1>1, <1>2, <1>3
      <4> QED
        BY <4>1, NothingFits
    <3> QED
      BY <1>1, <2>2, <3>1
  <2>6. f[scanned].id = Newer(pendingId, z.id) /\ currentType = KindAt(answer, f[scanned].chars)
    BY <1>1, <2>2 DEF Newer, KindAt
  <2> HIDE DEF z, f
  <2>7. InStep(f, z)
    BY <2>1, <2>3, <2>4, <2>5, <2>6 DEF InStep
  <2> QED
    BY <2>7 DEF Linked
<1>9. Settled
  BY <1>1 DEF Settled, Orderly
<1> QED
  BY <1>5, <1>6, <1>7, <1>8, <1>9 DEF ReaderInv

LEMMA ReaderStep == ReaderInv /\ [LineNext]_readerVars => ReaderInv'
<1> SUFFICES ASSUME ReaderInv, [LineNext]_readerVars PROVE ReaderInv'
  OBVIOUS
<1>1. CASE DeepSeek
  <2>1. CASE \E line \in Offered : (Len(line.chars) > 1 => Calm) /\ PumpLine(line)
    <3>1. PICK line \in Offered : (Len(line.chars) > 1 => Calm) /\ PumpLine(line)
      BY <2>1
    <3>2. UNCHANGED lineVars
      BY <1>1 DEF DeepSeek
    <3>3. CASE line = Done
      BY <3>1, <3>2, <3>3, QuietStep
    <3>4. CASE line # Done
      BY <3>1, <3>2, <3>4, PumpStep
    <3> QED
      BY <3>3, <3>4
  <2>2. CASE RoundEnds
    BY <1>1, <2>2, RoundEndsStep DEF DeepSeek
  <2>3. CASE BodyFails \/ ContinueOpens \/ ContinueFails
    BY <1>1, <2>3, QuietStep DEF DeepSeek
  <2> QED
    BY <1>1, <2>1, <2>2, <2>3 DEF DeepSeek
<1>2. CASE Lines
  BY <1>2, ReadLineStep, FlushStep DEF Lines
<1>3. CASE ConsumeSSE
  BY <1>3, ReceiveStep, HandlerStep DEF ConsumeSSE
<1>4. CASE Cancel
  BY <1>4, HandlerStep
<1>5. CASE Over \/ UNCHANGED readerVars
  <2>1. UNCHANGED <<bodyVars, lineVars>>
    BY <1>5 DEF Over, readerVars
  <2>2. UNCHANGED <<answer, round, state, hadDone, piped, pump, closed, cancelled>>
    BY <2>1 DEF bodyVars
  <2>3. UNCHANGED <<scanned, currentType, buffered, pendingId, channel, linesEnd,
                    seen, messageId, ticks, engine>>
    BY <2>1 DEF lineVars
  <2>4. ReaderTypes /\ Ceasing /\ RepeatsAlone /\ Linked /\ Settled
    BY DEF ReaderInv
  <2>5. ReaderTypes' /\ RepeatsAlone'
    BY <2>2, <2>3, <2>4 DEF ReaderTypes, RepeatsAlone
  <2>6. Ceasing'
    BY <2>2, <2>3, <2>4 DEF Ceasing, Ceased, Failing, Filtered
  <2>7. Linked'
    BY <2>2, <2>3, <2>4, LinkedKept
  <2>8. Settled'
    BY <2>2, <2>3, <2>4 DEF Settled, ShouldContinue, Orderly, Filtered
  <2> QED
    BY <2>5, <2>6, <2>7, <2>8 DEF ReaderInv
<1> QED
  BY <1>1, <1>2, <1>3, <1>4, <1>5 DEF LineNext

(* The invariant holds throughout. *)
THEOREM ReaderInvariant == LineSpec => []ReaderInv
<1>1. LineInit => ReaderInv
  BY ReaderStart
<1>2. ReaderInv /\ [LineNext]_readerVars => ReaderInv'
  BY ReaderStep
<1> QED
  BY <1>1, <1>2, PTL DEF LineSpec

----------------------------------------------------------------------------
(* An answer that is not streamed *)

(* What CollectStream has after the lines up to a mark. *)
Whole(ans, lines, f, i) ==
    [kind |-> KindAt(ans, f[i].chars), given |-> First(ans, f[i].chars),
     stopped |-> \E j \in 1 .. i : StopOf(lines[j]) # "none"]

LEMMA CollectStops ==
    ASSUME NEW k, NEW g, NEW b \in BOOLEAN, NEW line, b \/ StopOf(line) # "none"
    PROVE  Collect([kind |-> k, given |-> g, stopped |-> b], line)
             = [kind |-> k, given |-> g, stopped |-> TRUE]
<1> DEFINE c == [kind |-> k, given |-> g, stopped |-> b]
<1>1. c.stopped = b
  BY Zenon
<1>2. Collect(c, line) = [c EXCEPT !.stopped = TRUE]
  BY <1>1 DEF Collect
<1> QED
  BY <1>2

LEMMA CollectGoesOn ==
    ASSUME NEW k, NEW g, NEW line, StopOf(line) = "none"
    PROVE  LET new == IF line.kind = "none" THEN k ELSE line.kind IN
           Collect([kind |-> k, given |-> g, stopped |-> FALSE], line)
             = IF line.chars = <<>> THEN [kind |-> k, given |-> g, stopped |-> FALSE]
               ELSE [kind |-> new, given |-> Apply(g, new, line.chars), stopped |-> FALSE]
<1> DEFINE c == [kind |-> k, given |-> g, stopped |-> FALSE]
           new == IF line.kind = "none" THEN k ELSE line.kind
<1>1. c.stopped = FALSE /\ c.kind = k /\ c.given = g
  OBVIOUS
<1>2. CASE line.chars = <<>>
  <2>1. Collect(c, line) = c
    BY <1>1, <1>2 DEF Collect
  <2> QED
    BY <1>2, <2>1
<1>3. CASE line.chars # <<>>
  <2>1. Collect(c, line) = [kind |-> new, given |-> Apply(c.given, new, line.chars), stopped |-> FALSE]
    BY <1>1, <1>3 DEF Collect
  <2> QED
    BY <1>1, <1>3, <2>1
<1> QED
  BY <1>2, <1>3

(* A line that adds a character gives the whole up to it. *)
LEMMA AddsGiven ==
    ASSUME NEW ans \in Seq(Kind), NEW line \in Line, NEW m \in Nat, NEW n \in Nat,
           Adds(ans, line, m, n)
    PROVE  LET k == IF line.kind = "none" THEN KindAt(ans, m) ELSE line.kind IN
           /\ line.chars # <<>> /\ k = KindAt(ans, n)
           /\ Apply(First(ans, m), k, line.chars) = First(ans, n)
<1> DEFINE k == IF line.kind = "none" THEN KindAt(ans, m) ELSE line.kind
<1>1. n = m + 1 /\ n <= Len(ans) /\ Len(ans) \in Nat /\ n # 0 /\ n \in 1 .. Len(ans)
  BY LenProperties DEF Adds
<1>2. k = ans[n] /\ k \in Kind
  <2>1. ans[n] \in Kind
    BY <1>1
  <2>2. k = ans[n]
    BY <1>1 DEF Adds, KindAt
  <2> QED
    BY <2>1, <2>2
<1>3. AllOf(ans, k, m, n)
  BY <1>1, <1>2 DEF AllOf
<1>4. m <= n /\ m < n /\ 0 <= n /\ 0 \in Nat
  BY <1>1
<1>5. k = KindAt(ans, n)
  BY <1>1, <1>2 DEF KindAt
<1> HIDE DEF k
<1>6. CASE line.chars = Span(m, n)
  <2>1. Apply(First(ans, m), k, line.chars) = First(ans, n)
    BY <1>1, <1>2, <1>3, <1>4, <1>6, ApplyFresh
  <2>2. line.chars # <<>>
    BY <1>4, <1>6, SpanEmpty
  <2> QED
    BY <1>5, <2>1, <2>2 DEF k
<1>7. CASE line.chars = Span(0, n) /\ AllOf(ans, line.kind, 0, n) /\ line.kind # "none" /\ n >= MinSnapshot
  <2>1. k = line.kind
    BY <1>7 DEF k
  <2>2. Apply(First(ans, m), k, line.chars) = First(ans, n)
    BY <1>1, <1>2, <1>4, <1>7, <2>1, ApplyAgain
  <2>3. line.chars # <<>>
    BY <1>1, <1>4, <1>7, SpanEmpty
  <2> QED
    BY <1>5, <2>2, <2>3 DEF k
<1> QED
  BY <1>6, <1>7 DEF Adds

LEMMA CollectStep ==
    ASSUME NEW ans \in Seq(Kind), NEW now \in Mark, NEW lines \in Seq(Line), NEW f,
           Marked(ans, now, lines, f), NEW i \in 1 .. Len(lines)
    PROVE  Collect(Whole(ans, lines, f, i - 1), lines[i]) = Whole(ans, lines, f, i)
<1> DEFINE line == lines[i]
           m == f[i - 1].chars
           n == f[i].chars
           B(k) == \E j \in 1 .. k : StopOf(lines[j]) # "none"
<1>1. /\ Len(lines) \in Nat /\ i \in Nat /\ i - 1 \in 0 .. Len(lines) /\ i \in 0 .. Len(lines)
      /\ line \in Line /\ 1 .. i = (1 .. i - 1) \cup {i}
  BY LenProperties
<1>2. f[i - 1] \in Mark /\ f[i] \in Mark
  BY <1>1 DEF Marked
<1>3. m \in Nat /\ n \in Nat
  BY <1>2 DEF Mark
<1>4. (line.chars = <<>> /\ n = m) \/ Adds(ans, line, m, n)
  BY DEF Marked, LeadsTo
<1>5. B(i) <=> B(i - 1) \/ StopOf(line) # "none"
  BY <1>1
<1>6. B(i - 1) \in BOOLEAN /\ B(i) \in BOOLEAN
  OBVIOUS
<1>7. B(i - 1) => m = n
  <2>1. SUFFICES ASSUME NEW j \in 1 .. i - 1, StopOf(lines[j]) # "none" PROVE m = n
    OBVIOUS
  <2>2. j \in 1 .. Len(lines) /\ i - 1 \in j .. Len(lines) /\ i \in j .. Len(lines)
    BY <1>1
  <2>3. f[i - 1] = now /\ f[i] = now
    BY <2>1, <2>2 DEF Marked
  <2> QED
    BY <2>3
<1>8. StopOf(line) # "none" => m = n
  BY <1>4 DEF Adds
<1>9. /\ Whole(ans, lines, f, i - 1) = [kind |-> KindAt(ans, m), given |-> First(ans, m), stopped |-> B(i - 1)]
      /\ Whole(ans, lines, f, i) = [kind |-> KindAt(ans, n), given |-> First(ans, n), stopped |-> B(i)]
  BY Zenon DEF Whole
<1> HIDE DEF B, m, n, line
<1>10. CASE B(i - 1) \/ StopOf(line) # "none"
  <2>1. Collect([kind |-> KindAt(ans, m), given |-> First(ans, m), stopped |-> B(i - 1)], line)
          = [kind |-> KindAt(ans, m), given |-> First(ans, m), stopped |-> TRUE]
    BY <1>6, <1>10, CollectStops
  <2>2. B(i) = TRUE /\ m = n
    BY <1>5, <1>6, <1>7, <1>8, <1>10
  <2> QED
    BY <1>9, <2>1, <2>2 DEF line
<1>11. CASE ~B(i - 1) /\ StopOf(line) = "none"
  <2> DEFINE k == IF line.kind = "none" THEN KindAt(ans, m) ELSE line.kind
  <2>1. B(i - 1) = FALSE /\ B(i) = FALSE
    BY <1>5, <1>6, <1>11
  <2>2. Collect([kind |-> KindAt(ans, m), given |-> First(ans, m), stopped |-> FALSE], line)
          = IF line.chars = <<>> THEN [kind |-> KindAt(ans, m), given |-> First(ans, m), stopped |-> FALSE]
            ELSE [kind |-> k, given |-> Apply(First(ans, m), k, line.chars), stopped |-> FALSE]
    BY <1>11, CollectGoesOn
  <2>3. Adds(ans, line, m, n) => /\ line.chars # <<>> /\ k = KindAt(ans, n)
                                 /\ Apply(First(ans, m), k, line.chars) = First(ans, n)
    BY <1>1, <1>3, AddsGiven
  <2> HIDE DEF k
  <2>4. Collect([kind |-> KindAt(ans, m), given |-> First(ans, m), stopped |-> FALSE], line)
          = [kind |-> KindAt(ans, n), given |-> First(ans, n), stopped |-> FALSE]
    <3>1. CASE Adds(ans, line, m, n)
      BY <2>2, <2>3, <3>1
    <3>2. CASE line.chars = <<>> /\ n = m
      BY <2>2, <3>2
    <3> QED
      BY <1>4, <3>1, <3>2
  <2> QED
    BY <1>9, <2>1, <2>4 DEF line
<1> QED
  BY <1>10, <1>11

(* A function given by a start and a step has one value for each argument. *)
LEMMA OneByOne ==
    ASSUME NEW n \in Nat, NEW g, NEW h, g[0] = h[0],
           \A i \in 1 .. n : g[i - 1] = h[i - 1] => g[i] = h[i]
    PROVE  g[n] = h[n]
<1> DEFINE T == {i \in 0 .. n : g[i] # h[i]}
<1>1. SUFFICES T = {}
  OBVIOUS
<1>2. SUFFICES ASSUME T # {} PROVE FALSE
  OBVIOUS
<1>3. PICK i \in T : \A j \in T : i <= j
  <2>1. T \subseteq Nat
    OBVIOUS
  <2> HIDE DEF T
  <2> QED
    BY <1>2, <2>1, Least
<1>4. i \in 1 .. n /\ i - 1 \in 0 .. n /\ ~(i <= i - 1)
  OBVIOUS
<1>5. g[i - 1] = h[i - 1]
  BY <1>3, <1>4
<1> QED
  BY <1>4, <1>5

LEMMA CollectedWhole ==
    ASSUME NEW now \in Mark, answer \in Seq(Kind), piped \in Seq(Line), NEW f,
           Marked(answer, now, piped, f)
    PROVE  Collected = First(answer, now.chars)
<1> DEFINE N == Len(piped)
           Start == [kind |-> "thinking", given |-> <<>>, stopped |-> FALSE]
           Rule(h) == [i \in 0 .. N |-> IF i = 0 THEN Start ELSE Collect(h[i - 1], piped[i])]
           g == [i \in 0 .. N |-> Whole(answer, piped, f, i)]
           after == CHOOSE h : h = Rule(h)
<1>1. N \in Nat /\ 0 \in 0 .. N /\ N \in 0 .. N
  BY LenProperties
<1>2. Whole(answer, piped, f, 0) = Start
  <2>1. f[0] = [chars |-> 0, id |-> 0]
    BY DEF Marked
  <2>2. f[0].chars = 0
    BY <2>1
  <2>3. KindAt(answer, f[0].chars) = "thinking"
    BY <2>2 DEF KindAt
  <2>4. First(answer, f[0].chars) = <<>>
    <3>1. 0 \in 0 .. Len(answer)
      BY LenProperties
    <3>2. First(answer, 0) \in Seq([kind : Kind, char : Nat]) /\ Len(First(answer, 0)) = 0
      BY <3>1, FirstType
    <3>3. First(answer, 0) = <<>>
      BY <3>2, EmptySeq
    <3> QED
      BY <2>2, <3>3
  <2>5. (\E j \in 1 .. 0 : StopOf(piped[j]) # "none") = FALSE
    OBVIOUS
  <2> QED
    BY <2>3, <2>4, <2>5 DEF Whole
<1>3. \A i \in 1 .. N : Whole(answer, piped, f, i) = Collect(Whole(answer, piped, f, i - 1), piped[i])
  BY CollectStep
<1>4. g = Rule(g)
  <2>1. \A i \in 1 .. N : i # 0 /\ i \in 0 .. N /\ i - 1 \in 0 .. N
    BY <1>1
  <2>2. \A i \in 0 .. N : i = 0 \/ i \in 1 .. N
    BY <1>1
  <2>3. ASSUME NEW i \in 0 .. N PROVE g[i] = Rule(g)[i]
    <3>1. CASE i = 0
      BY <1>2, <3>1
    <3>2. CASE i \in 1 .. N
      BY <1>3, <2>1, <3>2
    <3> QED
      BY <2>2, <3>1, <3>2
  <2> QED
    BY <2>3
<1>5. after = Rule(after)
  <2> HIDE DEF g, Rule
  <2> QED
    BY <1>4
<1>6. after[N] = g[N]
  <2> HIDE DEF after
  <2>1. after[0] = g[0]
    <3>1. Rule(after)[0] = Start /\ Rule(g)[0] = Start
      BY <1>1
    <3> HIDE DEF Rule, g, Start
    <3> QED
      BY <1>4, <1>5, <3>1
  <2>2. \A i \in 1 .. N : after[i - 1] = g[i - 1] => after[i] = g[i]
    <3> TAKE i \in 1 .. N
    <3>1. Rule(after)[i] = Collect(after[i - 1], piped[i]) /\ Rule(g)[i] = Collect(g[i - 1], piped[i])
      BY <1>1
    <3> HIDE DEF Rule, g
    <3> QED
      BY <1>4, <1>5, <3>1
  <2> HIDE DEF g
  <2> QED
    BY <1>1, <2>1, <2>2, OneByOne
<1>7. Collected = after[N].given
  BY DEF Collected
<1>8. g[N].given = First(answer, f[N].chars) /\ f[N] = now
  BY <1>1 DEF Whole, Marked
<1> QED
  BY <1>6, <1>7, <1>8

----------------------------------------------------------------------------
(* The client is given the answer: each of its characters once, in order and *)
(* of its kind, however the goroutine gathers lines and whatever a round     *)
(* repeats; all of it at an orderly end, as a client that does not stream    *)
(* is; a broken off answer is continued first; and the message to follow is  *)
(* known (client_continue.go:97-181, sse/stream.go:126-360, engine.go:84-139). *)
THEOREM SeamlessAnswerCorrect == LineSpec => []SeamlessAnswer
<1>1. ReaderInv => SeamlessAnswer
  <2> SUFFICES ASSUME ReaderInv PROVE SeamlessAnswer
    OBVIOUS
  <2>1. ReaderTypes /\ Linked /\ Settled
    BY DEF ReaderInv
  <2>2. /\ answer \in Seq(Kind) /\ piped \in Seq(Line) /\ Len(answer) \in Nat
        /\ seen = First(answer, Len(seen)) /\ Len(seen) \in 0 .. Len(answer)
    BY <2>1, LenProperties DEF ReaderTypes
  <2>3. \A i \in DOMAIN seen : i <= Len(answer) /\ seen[i] = [kind |-> answer[i], char |-> i]
    <3>1. PICK n \in 0 .. Len(answer) : seen = First(answer, n)
      BY <2>2
    <3>2. /\ DOMAIN First(answer, n) = 1 .. n
          /\ \A i \in 1 .. n : First(answer, n)[i] = [kind |-> answer[i], char |-> i]
      BY <2>2, FirstType
    <3>3. \A i \in 1 .. n : i <= Len(answer)
      BY <2>2
    <3> QED
      BY <3>1, <3>2, <3>3
  <2>4. Orderly => Len(seen) = Len(answer) /\ Collected = seen
    <3> SUFFICES ASSUME Orderly PROVE Len(seen) = Len(answer) /\ Collected = seen
      OBVIOUS
    <3>1. Len(seen) = Len(answer)
      BY <2>1 DEF Settled
    <3>2. PICK f, m : InStep(f, m)
      BY <2>1 DEF Linked
    <3>3. Marked(answer, Now, piped, f) /\ Now \in Mark
      BY <2>1, <3>2, NowType DEF InStep
    <3>4. Collected = First(answer, Now.chars)
      BY <2>2, <3>3, CollectedWhole
    <3>5. Now.chars = Len(answer)
      BY DEF Now
    <3> QED
      BY <2>2, <3>1, <3>4, <3>5
  <2>5. Orderly /\ pump = "ended" => ~ShouldContinue \/ round = MaxRounds
    BY <2>1 DEF Settled
  <2>6. engine = "handler_requested" /\ pump # "failed"
           /\ (\A i \in DOMAIN piped : piped[i].status # "CONTENT_FILTER") => messageId = state.id
    BY <2>1 DEF Settled, Filtered
  <2> QED
    BY <2>3, <2>4, <2>5, <2>6 DEF SeamlessAnswer
<1>2. LineSpec => []ReaderInv
  BY ReaderInvariant
<1> QED
  BY <1>1, <1>2, PTL
============================================================================
