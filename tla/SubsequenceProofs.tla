-------------------------- MODULE SubsequenceProofs --------------------------
(***************************************************************************)
(* What the elements of a sequence at some of its positions are.           *)
(***************************************************************************)
EXTENDS Subsequences, FiniteSetTheorems, SequenceTheorems, TLAPS

(* Natural numbers are well-founded. *)
LEMMA Least ==
    ASSUME NEW T, T \subseteq Nat, T # {} PROVE \E m \in T : \A n \in T : m <= n
<1> DEFINE R == {ss \in Nat \X Nat : ss[1] < ss[2]}
<1>1. IsWellFoundedOn(R, Nat)
  <2>1. OpToRel(<, Nat) = R
    BY DEF OpToRel
  <2> QED
    BY <2>1, NatLessThanWellFounded DEF OpToRel
<1>2. PICK x \in T : \A y \in T : ~ (<<y, x>> \in R)
  <2> HIDE DEF R
  <2> QED
    BY <1>1, WFMin
<1>3. \A y \in T : x <= y
  <2> TAKE y \in T
  <2>1. x \in Nat /\ y \in Nat /\ ~(y < x)
    BY <1>2
  <2> QED
    BY <2>1
<1> QED
  BY <1>3

(* The members of P in their order. *)
Listing(f, P) ==
    /\ f \in [1 .. Cardinality(P) -> P]
    /\ \A i, j \in 1 .. Cardinality(P) : i < j => f[i] < f[j]
    /\ \A x \in P : \E i \in 1 .. Cardinality(P) : f[i] = x

(* A listing of all but the least is one of all, moved by one. *)
LEMMA OneMoreListed ==
    ASSUME NEW P, P \subseteq Nat, IsFiniteSet(P), NEW x \in P, \A y \in P : x <= y,
           NEW f, Listing(f, P \ {x})
    PROVE  \E g : Listing(g, P)
<1> DEFINE n == Cardinality(P)
           g == [i \in 1 .. n |-> IF i = 1 THEN x ELSE f[i - 1]]
<1>1. n \in Nat /\ Cardinality(P \ {x}) = n - 1 /\ n > 0
  BY FS_RemoveElement, FS_CardinalityType, FS_EmptySet
<1>2. f \in [1 .. n - 1 -> P \ {x}]
  BY <1>1 DEF Listing
<1>3. g \in [1 .. n -> P]
  <2>1. ASSUME NEW i \in 1 .. n PROVE g[i] \in P
    BY <1>1, <1>2
  <2> QED
    BY <2>1
<1>4. \A i, j \in 1 .. n : i < j => g[i] < g[j]
  <2> TAKE i, j \in 1 .. n
  <2> HAVE i < j
  <2>1. j - 1 \in 1 .. n - 1 /\ g[j] = f[j - 1]
    BY <1>1
  <2>2. CASE i = 1
    <3>1. f[j - 1] \in P \ {x} /\ g[i] = x
      BY <1>1, <1>2, <2>1, <2>2
    <3>2. x \in Nat /\ f[j - 1] \in Nat /\ x <= f[j - 1] /\ x # f[j - 1]
      BY <3>1
    <3> HIDE DEF g
    <3> QED
      BY <2>1, <3>1, <3>2
  <2>3. CASE i # 1
    <3>1. i - 1 \in 1 .. n - 1 /\ g[i] = f[i - 1] /\ i - 1 < j - 1
      BY <1>1, <2>3
    <3> QED
      BY <1>1, <2>1, <3>1 DEF Listing
  <2> QED
    BY <2>2, <2>3
<1>5. \A y \in P : \E i \in 1 .. n : g[i] = y
  <2> TAKE y \in P
  <2>1. CASE y = x
    BY <1>1, <2>1
  <2>2. CASE y # x
    <3>1. PICK i \in 1 .. n - 1 : f[i] = y
      BY <1>1, <2>2 DEF Listing
    <3>2. i + 1 \in 1 .. n /\ g[i + 1] = y
      BY <1>1, <3>1
    <3> HIDE DEF g
    <3> QED
      BY <3>2
  <2> QED
    BY <2>1, <2>2
<1> QED
  BY <1>3, <1>4, <1>5 DEF Listing

LEMMA HasListing ==
    ASSUME NEW P, P \subseteq Nat, IsFiniteSet(P) PROVE \E f : Listing(f, P)
<1> DEFINE Bad(n) == \E Q \in SUBSET Nat : IsFiniteSet(Q) /\ Cardinality(Q) = n /\ ~\E f : Listing(f, Q)
           T == {n \in Nat : Bad(n)}
<1>1. SUFFICES T = {}
  BY FS_CardinalityType
<1>2. SUFFICES ASSUME T # {} PROVE FALSE
  OBVIOUS
<1>3. PICK n \in T : \A m \in T : n <= m
  <2> HIDE DEF T
  <2>1. T \subseteq Nat
    BY DEF T
  <2> QED
    BY <1>2, <2>1, Least
<1>4. PICK Q \in SUBSET Nat : IsFiniteSet(Q) /\ Cardinality(Q) = n /\ ~\E f : Listing(f, Q)
  BY <1>3
<1>5. Q # {}
  <2>1. Listing([i \in 1 .. 0 |-> 0], {})
    BY FS_EmptySet DEF Listing
  <2> QED
    BY <1>4, <2>1
<1>6. PICK x \in Q : \A y \in Q : x <= y
  BY <1>5, Least
<1>7. IsFiniteSet(Q \ {x}) /\ Cardinality(Q \ {x}) = n - 1 /\ n - 1 \in Nat /\ n \in Nat
  BY <1>4, <1>6, FS_RemoveElement, FS_CardinalityType, FS_EmptySet
<1>8. \E f : Listing(f, Q \ {x})
  <2>1. n - 1 \notin T
    BY <1>3, <1>7
  <2> QED
    BY <1>7, <2>1
<1> QED
  BY <1>4, <1>6, <1>8, OneMoreListed

(* How many of P come before the n-th, and how many after it. *)
LEMMA CountBelow ==
    ASSUME NEW P, P \subseteq Nat, IsFiniteSet(P), NEW f, Listing(f, P),
           NEW n \in 1 .. Cardinality(P)
    PROVE  Cardinality({j \in P : j < f[n]}) = n - 1
<1> DEFINE N == Cardinality(P)
<1>1. N \in Nat
  BY FS_CardinalityType
<1>2. Listing(f, P)
  OBVIOUS
<1> DEFINE S == {j \in P : j < f[n]}
           g == [i \in 1 .. n - 1 |-> f[i]]
<1>3. n - 1 \in Nat /\ 1 .. n - 1 \subseteq 1 .. N
  BY <1>1
<1>4. \A i \in 1 .. n - 1 : f[i] \in S
  BY <1>1, <1>2, <1>3 DEF Listing
<1>5. \A i, j \in 1 .. n - 1 : i # j => f[i] # f[j]
  <2> TAKE i, j \in 1 .. n - 1
  <2>1. i \in 1 .. N /\ j \in 1 .. N /\ f[i] \in Nat /\ f[j] \in Nat
    BY <1>2, <1>3 DEF Listing
  <2>2. i < j \/ j < i \/ i = j
    OBVIOUS
  <2> QED
    BY <1>2, <2>1, <2>2 DEF Listing
<1>6. \A x \in S : \E i \in 1 .. n - 1 : f[i] = x
  <2> TAKE x \in S
  <2>1. PICK i \in 1 .. N : f[i] = x
    BY <1>2 DEF Listing
  <2>2. f[i] \in Nat /\ f[n] \in Nat /\ f[i] < f[n]
    BY <1>2, <2>1 DEF Listing
  <2>3. i < n
    <3>1. i = n \/ n < i \/ i < n
      BY <1>1
    <3> QED
      BY <1>2, <2>2, <3>1 DEF Listing
  <2> QED
    BY <1>1, <2>1, <2>3
<1>7. g \in Bijection(1 .. n - 1, S)
  <2> HIDE DEF S
  <2>1. g \in [1 .. n - 1 -> S]
    BY <1>4
  <2> QED
    BY <1>5, <1>6, <2>1 DEF Bijection, Injection, Surjection, IsInjective
<1> QED
  BY <1>3, <1>7, FS_CountingElements DEF ExistsBijection

LEMMA CountAbove ==
    ASSUME NEW P, P \subseteq Nat, IsFiniteSet(P), NEW f, Listing(f, P),
           NEW n \in 1 .. Cardinality(P)
    PROVE  Cardinality({j \in P : j > f[n]}) = Cardinality(P) - n
<1> DEFINE low == {j \in P : j < f[n]}
           high == {j \in P : j > f[n]}
<1>1. f[n] \in P /\ f[n] \in Nat /\ Cardinality(P) \in Nat
  BY FS_CardinalityType DEF Listing
<1>2. IsFiniteSet(low) /\ Cardinality(low) = n - 1
  <2>1. low \in SUBSET P
    OBVIOUS
  <2>2. IsFiniteSet(low)
    <3> HIDE DEF low
    <3> QED
      BY <2>1, FS_Subset
  <2> QED
    BY <2>2, CountBelow
<1>3. IsFiniteSet(low \cup {f[n]}) /\ Cardinality(low \cup {f[n]}) = n
  <2>1. f[n] \notin low
    BY <1>1
  <2> QED
    <3> HIDE DEF low
    <3>1. /\ IsFiniteSet(low \cup {f[n]})
          /\ Cardinality(low \cup {f[n]}) = IF f[n] \in low THEN Cardinality(low) ELSE Cardinality(low) + 1
      BY <1>2, FS_AddElement
    <3> QED
      BY <1>1, <1>2, <2>1, <3>1
<1>4. P \ (low \cup {f[n]}) = high
  <2>1. \A j \in P : j \in Nat
    OBVIOUS
  <2>2. \A j \in P : j > f[n] <=> ~(j < f[n]) /\ j # f[n]
    BY <1>1, <2>1
  <2> QED
    BY <2>2
<1>5. P \cap (low \cup {f[n]}) = low \cup {f[n]}
  BY <1>1
<1>6. Cardinality(P \ (low \cup {f[n]})) = Cardinality(P) - Cardinality(P \cap (low \cup {f[n]}))
  BY FS_Difference
<1> HIDE DEF low, high
<1> QED
  BY <1>3, <1>4, <1>5, <1>6 DEF high

(* Nth lists a set of positions. *)
LEMMA NthLists ==
    ASSUME NEW P, P \subseteq Nat, IsFiniteSet(P)
    PROVE  Listing([n \in 1 .. Cardinality(P) |-> Nth(P, n)], P)
<1> DEFINE N == Cardinality(P)
<1>1. N \in Nat
  BY FS_CardinalityType
<1>2. PICK f : Listing(f, P)
  BY HasListing
<1>3. ASSUME NEW n \in 1 .. N PROVE Cardinality({j \in P : j < f[n]}) = n - 1
  BY <1>2, CountBelow
<1>4. ASSUME NEW n \in 1 .. N PROVE Nth(P, n) = f[n]
  <2>1. f[n] \in P /\ Cardinality({j \in P : j < f[n]}) = n - 1
    BY <1>2, <1>3 DEF Listing
  <2>2. Nth(P, n) \in P /\ Cardinality({j \in P : j < Nth(P, n)}) = n - 1
    BY <2>1 DEF Nth
  <2>3. PICK i \in 1 .. N : f[i] = Nth(P, n)
    BY <1>2, <2>2 DEF Listing
  <2>4. i - 1 = n - 1
    BY <1>3, <2>2, <2>3
  <2> QED
    BY <1>1, <2>3, <2>4
<1>5. [n \in 1 .. N |-> Nth(P, n)] = f
  <2>1. f = [n \in 1 .. N |-> f[n]]
    BY <1>2 DEF Listing
  <2> QED
    BY <1>4, <2>1
<1> QED
  BY <1>2, <1>5

----------------------------------------------------------------------------
(* Finitely many positions of a sequence. *)
LEMMA PositionsOf ==
    ASSUME NEW S, NEW s \in Seq(S), NEW P, P \subseteq DOMAIN s
    PROVE  P \subseteq Nat /\ IsFiniteSet(P) /\ P \subseteq 1 .. Len(s)
           /\ Cardinality(P) \in Nat /\ Cardinality(P) <= Len(s)
<1>1. Len(s) \in Nat /\ DOMAIN s = 1 .. Len(s)
  BY LenProperties
<1>2. IsFiniteSet(1 .. Len(s)) /\ Cardinality(1 .. Len(s)) = Len(s)
  <2>1. 1 \in Int /\ Len(s) \in Int
    BY <1>1
  <2>2. /\ IsFiniteSet(1 .. Len(s))
        /\ Cardinality(1 .. Len(s)) = IF 1 > Len(s) THEN 0 ELSE Len(s) - 1 + 1
    BY <2>1, FS_Interval
  <2> QED
    BY <1>1, <2>2
<1>3. IsFiniteSet(P) /\ Cardinality(P) <= Cardinality(1 .. Len(s))
  BY <1>1, <1>2, FS_Subset
<1>4. Cardinality(P) \in Nat
  BY <1>3, FS_CardinalityType
<1>5. P \subseteq Nat
  BY <1>1
<1> QED
  BY <1>1, <1>2, <1>3, <1>4, <1>5

(* The elements at P are those that P lists, in that order. *)
LEMMA PickedInOrder ==
    ASSUME NEW S, NEW s \in Seq(S), NEW P, P \subseteq DOMAIN s
    PROVE  /\ Picked(s, P) \in Seq(S)
           /\ Len(Picked(s, P)) = Cardinality(P)
           /\ \E f : /\ Listing(f, P)
                     /\ \A n \in 1 .. Cardinality(P) : Picked(s, P)[n] = s[f[n]]
<1> DEFINE N == Cardinality(P)
           f == [n \in 1 .. N |-> Nth(P, n)]
<1>1. /\ P \subseteq Nat /\ IsFiniteSet(P) /\ N \in Nat
      /\ DOMAIN s = 1 .. Len(s) /\ \A i \in DOMAIN s : s[i] \in S
  BY PositionsOf, LenProperties, ElementOfSeq
<1>2. Listing(f, P)
  BY <1>1, NthLists
<1>3. \A n \in 1 .. N : Nth(P, n) \in P /\ f[n] = Nth(P, n)
  BY <1>2 DEF Listing
<1>4. Picked(s, P) \in [1 .. N -> S]
  BY <1>1, <1>3 DEF Picked
<1>5. Picked(s, P) \in Seq(S) /\ Len(Picked(s, P)) = N
  BY <1>1, <1>4
<1>6. \A n \in 1 .. N : Picked(s, P)[n] = s[f[n]]
  BY <1>3 DEF Picked
<1> HIDE DEF f
<1> QED
  BY <1>2, <1>5, <1>6

(* Every position of P has its place, and none has two. *)
LEMMA PickedRange ==
    ASSUME NEW S, NEW s \in Seq(S), NEW P, P \subseteq DOMAIN s
    PROVE  /\ \A n \in DOMAIN Picked(s, P) : \E i \in P : Picked(s, P)[n] = s[i]
           /\ \A i \in P : \E n \in DOMAIN Picked(s, P) : Picked(s, P)[n] = s[i]
<1>1. /\ DOMAIN Picked(s, P) = 1 .. Cardinality(P)
  BY DEF Picked
<1>2. PICK f : /\ Listing(f, P)
               /\ \A n \in 1 .. Cardinality(P) : Picked(s, P)[n] = s[f[n]]
  BY PickedInOrder
<1> QED
  BY <1>1, <1>2 DEF Listing

(* What is picked of a sequence without repetitions has none. *)
LEMMA PickedInjective ==
    ASSUME NEW S, NEW s \in Seq(S), NEW P, P \subseteq DOMAIN s,
           \A i, j \in P : i # j => s[i] # s[j]
    PROVE  \A m, n \in DOMAIN Picked(s, P) : m # n => Picked(s, P)[m] # Picked(s, P)[n]
<1>1. /\ DOMAIN Picked(s, P) = 1 .. Cardinality(P)
  BY DEF Picked
<1>2. PICK f : /\ Listing(f, P)
               /\ \A n \in 1 .. Cardinality(P) : Picked(s, P)[n] = s[f[n]]
  BY PickedInOrder
<1>3. P \subseteq Nat /\ Cardinality(P) \in Nat
  BY PositionsOf
<1> SUFFICES ASSUME NEW m \in 1 .. Cardinality(P), NEW n \in 1 .. Cardinality(P), m # n
             PROVE  f[m] # f[n] /\ f[m] \in P /\ f[n] \in P
  BY <1>1, <1>2
<1>4. f[m] \in Nat /\ f[n] \in Nat /\ f[m] \in P /\ f[n] \in P
  BY <1>2, <1>3 DEF Listing
<1>5. m < n \/ n < m
  BY <1>3
<1> QED
  BY <1>2, <1>4, <1>5 DEF Listing


(* Every position is every element. *)
LEMMA PickedAll ==
    ASSUME NEW S, NEW s \in Seq(S) PROVE Picked(s, DOMAIN s) = s
<1> DEFINE N == Len(s)
<1>1. N \in Nat /\ DOMAIN s = 1 .. N /\ s \in [1 .. N -> S]
  BY LenProperties
<1>2. ASSUME NEW i \in 1 .. N
      PROVE  Cardinality({j \in 1 .. N : j < i}) = i - 1
  <2>1. {j \in 1 .. N : j < i} = 1 .. i - 1
    BY <1>1
  <2>2. 1 \in Int /\ i - 1 \in Int /\ (i - 1 < 1 => i - 1 = 0)
    BY <1>1
  <2>3. Cardinality(1 .. i - 1) = IF 1 > i - 1 THEN 0 ELSE (i - 1) - 1 + 1
    BY <2>2, FS_Interval
  <2>4. Cardinality(1 .. i - 1) = i - 1
    <3>1. i \in Int /\ (i - 1) - 1 + 1 = i - 1
      BY <1>1
    <3>2. CASE 1 > i - 1
      BY <2>2, <2>3, <3>1, <3>2
    <3>3. CASE ~(1 > i - 1)
      BY <2>3, <3>1, <3>3
    <3> QED
      BY <3>2, <3>3
  <2> QED
    BY <2>1, <2>4
<1>3. Cardinality(1 .. N) = N
  <2>1. 1 \in Int /\ N \in Int
    BY <1>1
  <2>2. Cardinality(1 .. N) = IF 1 > N THEN 0 ELSE N - 1 + 1
    BY <2>1, FS_Interval
  <2> QED
    BY <1>1, <2>2
<1>4. \A n \in 1 .. N : Nth(1 .. N, n) = n
  <2> TAKE n \in 1 .. N
  <2>1. \A i \in 1 .. N : Cardinality({j \in 1 .. N : j < i}) = n - 1 <=> i = n
    BY <1>1, <1>2
  <2> QED
    BY <2>1 DEF Nth
<1>5. Picked(s, DOMAIN s) = [n \in 1 .. N |-> s[n]]
  BY <1>1, <1>3, <1>4 DEF Picked
<1> HIDE DEF N
<1> QED
  BY <1>1, <1>5
============================================================================
