---------------------------- MODULE Subsequence ----------------------------
(***************************************************************************)
(* The list comprehensions with a condition, [x for x in s if ...]: the    *)
(* elements of a sequence at some of its places, in their order.  Written  *)
(* without recursion, so that facts about it can be proved.                *)
(***************************************************************************)
EXTENDS Naturals, Sequences, FiniteSets

(* The places in increasing order. *)
Ascending(places) ==
    CHOOSE k \in [1..Cardinality(places) -> places] :
        \A i, j \in DOMAIN k : i < j => k[i] < k[j]

ElementsAt(s, places) == [i \in 1..Cardinality(places) |-> s[Ascending(places)[i]]]

(* The elements of s that are in S. *)
Filtered(s, S) == ElementsAt(s, {i \in DOMAIN s : s[i] \in S})
=============================================================================
