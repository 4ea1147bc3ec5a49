----------------------------- MODULE Lifecycle -----------------------------
(***************************************************************************)
(* What the workspace commands of kra promise, with every file-system call *)
(* of a command hidden: a workspace is absent, active or archived, and     *)
(* carries a purge guard.  The module WorkspaceLifecycle implements it.    *)
(***************************************************************************)
CONSTANT Ws        \* workspace ids

VARIABLES
    status,        \* status[i]: "none", "active" or "archived"
    guard          \* guard[i]: the purge guard of workspace i

vars == <<status, guard>>

(***************************************************************************)
(* A new root has no workspace.  The guard of an absent workspace is TRUE, *)
(* the value ws create gives it.                                           *)
(***************************************************************************)
Init ==
    /\ status = [i \in Ws |-> "none"]
    /\ guard = [i \in Ws |-> TRUE]

Create(i) ==
    /\ status[i] = "none"
    /\ status' = [status EXCEPT ![i] = "active"]
    /\ UNCHANGED guard

Close(i) ==
    /\ status[i] = "active"
    /\ status' = [status EXCEPT ![i] = "archived"]
    /\ UNCHANGED guard

Reopen(i) ==
    /\ status[i] = "archived"
    /\ status' = [status EXCEPT ![i] = "active"]
    /\ UNCHANGED guard

SetGuard(i) ==
    /\ status[i] # "none"
    /\ \E b \in BOOLEAN : guard' = [guard EXCEPT ![i] = b]
    /\ UNCHANGED status

(***************************************************************************)
(* Only an archived workspace whose guard is off can be purged.            *)
(***************************************************************************)
Purge(i) ==
    /\ status[i] = "archived"
    /\ ~guard[i]
    /\ status' = [status EXCEPT ![i] = "none"]
    /\ guard' = [guard EXCEPT ![i] = TRUE]

Next ==
    \E i \in Ws : Create(i) \/ Close(i) \/ Reopen(i) \/ SetGuard(i) \/ Purge(i)

Spec == Init /\ [][Next]_vars
============================================================================
