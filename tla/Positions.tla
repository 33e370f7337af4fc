----------------------------- MODULE Positions -----------------------------
(***************************************************************************)
(* Sequences from which elements are filtered out by their position.       *)
(***************************************************************************)
EXTENDS Integers, Sequences, FiniteSets

\* The elements of s at the positions in keep, in their order.
Retain(s, keep) ==
    [n \in 1..Cardinality(keep) |->
        s[CHOOSE i \in keep : Cardinality({j \in keep : j <= i}) = n]]
=============================================================================
