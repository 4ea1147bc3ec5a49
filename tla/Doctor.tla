-------------------------------- MODULE Doctor --------------------------------
(***************************************************************************)
(* What kra doctor reports of a workspace.  It only reads; the repairs of  *)
(* kra doctor --fix concern lock files (module AddRepoLock) and the root   *)
(* registry.                                                               *)
(***************************************************************************)
EXTENDS WorkspaceLifecycle

(***************************************************************************)
(* The findings in one directory.  Without readable metadata nothing else  *)
(* is looked at.  Aliases are the repositories here, so that none is empty *)
(* or given twice.                                                         *)
(***************************************************************************)
ActiveFindings(d) ==
    {c \in {"binding_missing_worktree"} : Restorable(d.meta) \ d.trees # {}}
    \cup {c \in {"worktree_missing_binding"} : d.trees \ Restorable(d.meta) # {}}

ArchivedFindings(d) == {c \in {"archived_worktree_exists"} : d.trees # {}}

scanDoctorWorkspaceScope(d, expectStatus) ==
    IF ~d.there THEN {}
    ELSE IF ~HasMeta(d) THEN {"workspace_meta_invalid"}
    ELSE {c \in {"workspace_status_mismatch"} : d.meta.status # expectStatus}
         \cup IF expectStatus = "active" THEN ActiveFindings(d) ELSE ArchivedFindings(d)

runDoctorChecks(i) ==
    [active |-> scanDoctorWorkspaceScope(ws[i], "active"),
     archived |-> scanDoctorWorkspaceScope(arc[i], "archived")]
-----------------------------------------------------------------------------
(***************************************************************************)
(* Whichever calls of whichever commands fail and wherever a process dies, *)
(* doctor finds no active workspace without metadata and no workspace      *)
(* whose status contradicts its place, with these exceptions: a process    *)
(* died between mkdir and metadata of create, between metadata and rename  *)
(* of close or between rename and metadata of reopen, or a call failed     *)
(* there and then the rollback's own call too.  All that the rollbacks     *)
(* leave behind otherwise are worktrees and bindings without each other,   *)
(* and only a purge that cannot delete leaves an archive without metadata. *)
(***************************************************************************)
FailuresLeaveMetadataRight ==
    \A i \in Ws : AtRest(i) /\ "status" \notin scars[i] =>
        /\ runDoctorChecks(i).active
               \cap {"workspace_meta_invalid", "workspace_status_mismatch"} = {}
        /\ "workspace_status_mismatch" \notin runDoctorChecks(i).archived
===============================================================================
