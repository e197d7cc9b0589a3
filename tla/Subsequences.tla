----------------------------- MODULE Subsequences -----------------------------
(***************************************************************************)
(* Parts of a sequence, by the positions they are made of.  The loops of   *)
(* ds2api that copy some elements of a slice in their order are stated     *)
(* with these and not with SelectSeq, whose recursion hides from a proof   *)
(* what is kept.                                                           *)
(***************************************************************************)
EXTENDS Integers, Sequences, FiniteSets

(* The member of a set of positions that n - 1 others come before.          *)
Nth(P, n) == CHOOSE i \in P : Cardinality({j \in P : j < i}) = n - 1

(* The elements of s at the positions P, in the order of s.                 *)
Picked(s, P) == [n \in 1 .. Cardinality(P) |-> s[Nth(P, n)]]

(* s without the elements of a set.                                         *)
Dropping(s, A) == Picked(s, {i \in DOMAIN s : s[i] \notin A})
===============================================================================
