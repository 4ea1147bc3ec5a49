--------------------------- MODULE MCAddRepoFetch ---------------------------
(***************************************************************************)
(* A small instance of AddRepoFetch for TLC: two hosts have a repository   *)
(* of the same owner and name, and one host has another repository.        *)
(***************************************************************************)
EXTENDS AddRepoFetch

MCPool == <<"a1", "b1", "a2">>
MCKeyOf == [c \in {"a1", "b1", "a2"} |-> IF c = "a2" THEN "k2" ELSE "k1"]
=============================================================================
