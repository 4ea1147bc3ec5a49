------------------------------- MODULE Filtered -------------------------------
(***************************************************************************)
(* What a filter leaves of a list, in the order of the list.               *)
(***************************************************************************)
EXTENDS Integers, Sequences, FiniteSets

(***************************************************************************)
(* The n-th of the indices that are left, from 0: filteredIndices()[n].    *)
(***************************************************************************)
Nth(left, n) ==
    CHOOSE j \in left : Cardinality({k \in left : k < j}) = n

Remaining(s, left) == [n \in 1..Cardinality(left) |-> s[Nth(left, n - 1)]]
===============================================================================
