----------------------------- MODULE MCRepoPool -----------------------------
(***************************************************************************)
(* Small instances of RepoPool for TLC.                                    *)
(***************************************************************************)
EXTENDS RepoPool, TLC

CONSTANTS a, w1, p1

(***************************************************************************)
(* One workspace, in one of the roots.                                     *)
(***************************************************************************)
MCRootOf == w1 :> a

MCAll == RegistryCommands \cup PoolCommands

(***************************************************************************)
(* One process collects garbage and names contexts, the others run         *)
(* everything.                                                             *)
(***************************************************************************)
MCCommands ==
    [p \in Proc |-> IF p = p1 THEN {"gc", "context-create"} ELSE MCAll]

(***************************************************************************)
(* What it takes to make an archived workspace, and to forget its root.    *)
(***************************************************************************)
MCForget ==
    [p \in Proc |-> {"repo-add", "ws-create", "add-repo", "close",
                     "context-create", "context-rm", "gc"}]

MCSymmetry == Permutations(Name)
=============================================================================
