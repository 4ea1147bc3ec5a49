----------------------- MODULE MCWorkspaceLifecycle -----------------------
(***************************************************************************)
(* Small instances of WorkspaceLifecycle for TLC.                          *)
(***************************************************************************)
EXTENDS Doctor, TLC

MCNone == {}
MCAll == AllCommands
MCReopen == {"reopen"}

(***************************************************************************)
(* Which commands overlap: two add-repos, or a reopen and a purge.         *)
(***************************************************************************)
MCOverlap ==
    \A p, q \in Proc : p # q /\ pc'[p] # "idle" /\ pc'[q] # "idle" =>
        {job'[p].cmd, job'[q].cmd} \in {{"add-repo"}, {"reopen", "purge"}}

MCRepoSymmetry == Permutations(Repo)
MCProcSymmetry == Permutations(Proc)
MCSymmetry == MCRepoSymmetry \cup MCProcSymmetry
===========================================================================
