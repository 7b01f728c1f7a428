----------------------------- MODULE Selections -----------------------------
(* Sequences that are a part of another one, or the members of a set in an *)
(* order.                                                                  *)
EXTENDS SequencesExt

(* What a sequence has at some of its places, in their order.              *)
Subsequence(s, places) ==
  [n \in 1 .. Cardinality(places) |->
     s[CHOOSE i \in places : Cardinality({j \in places : j <= i}) = n]]

(* The members of a finite set, one that comes before another first.       *)
Ordered(S, before(_, _)) ==
  CHOOSE s \in SetToSeqs(S) : \A i, j \in DOMAIN s : i < j => before(s[i], s[j])
=============================================================================
