------------------------------- MODULE RepoRisk -------------------------------
(***************************************************************************)
(* How kra judges what a worktree would lose: a snapshot of git status is  *)
(* classified, and the classes of a workspace's worktrees are joined into  *)
(* one risk.                                                               *)
(***************************************************************************)

(***************************************************************************)
(* What is read out of git status --porcelain=v2 --branch.  A directory    *)
(* that is not there, a git that fails and a line that cannot be parsed    *)
(* leave an error and nothing else; any status line but an ignored file    *)
(* makes the worktree dirty; detached stands for a HEAD without a branch   *)
(* or without a commit.  Of the counts only whether they are zero matters. *)
(***************************************************************************)
Snapshot == [error : BOOLEAN, dirty : BOOLEAN, detached : BOOLEAN,
             upstream : BOOLEAN, ahead : BOOLEAN, behind : BOOLEAN]

CleanSnapshot == [error |-> FALSE, dirty |-> FALSE, detached |-> FALSE,
                  upstream |-> TRUE, ahead |-> FALSE, behind |-> FALSE]

RepoState == {"unknown", "dirty", "diverged", "unpushed", "clean"}

ClassifyRepoStatus(s) ==
    CASE s.error -> "unknown"
      [] ~s.error /\ s.dirty -> "dirty"
      [] ~s.error /\ ~s.dirty /\ (s.detached \/ ~s.upstream) -> "unknown"
      [] OTHER -> IF ~s.ahead THEN "clean"
                  ELSE IF s.behind THEN "diverged" ELSE "unpushed"

(***************************************************************************)
(* The worst of a set of states, in this order.                            *)
(***************************************************************************)
Aggregate(states) ==
    CASE "unknown" \in states -> "unknown"
      [] "unknown" \notin states /\ "dirty" \in states -> "dirty"
      [] states \cap {"unknown", "dirty"} = {} /\ "diverged" \in states -> "diverged"
      [] states \cap {"unknown", "dirty", "diverged"} = {} /\ "unpushed" \in states -> "unpushed"
      [] OTHER -> "clean"
===============================================================================
