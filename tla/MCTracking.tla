----------------------------- MODULE MCTracking -----------------------------
(***************************************************************************)
(* A small instance of Tracking for TLC: two workspaces, of one worktree   *)
(* each.                                                                   *)
(***************************************************************************)
EXTENDS Tracking

MCNames == <<"w1", "w2">>
MCWs == {"w1", "w2"}
MCSprints == <<"s1">>
MCTemplate == [p \in {"p1"} |-> "h1"]

(***************************************************************************)
(* Nothing typed, the name of a workspace, ope, and no match.              *)
(***************************************************************************)
MCMatches ==
    {MCWs \cup {"s1", "open", "add-repo", "remove-repo", "close", "reopen", "unlock", "purge"},
     {"w1"}, {"w2"}, {"open", "reopen"}, {}}

(***************************************************************************)
(* Nothing, the template, the template edited, a file in its place, a file *)
(* next to it.                                                             *)
(***************************************************************************)
MCContents ==
    {NoFiles, MCTemplate, [p \in {"p1"} |-> "h2"], [p \in {"p2"} |-> "h1"],
     [p \in {"p1", "p2"} |-> "h1"]}

Tree(head, snap) == [missing |-> FALSE, head |-> head, snap |-> snap]

MCTrees ==
    {Tree("c1", CleanSnapshot), Tree("c2", [CleanSnapshot EXCEPT !.upstream = FALSE]),
     Tree("c1", [CleanSnapshot EXCEPT !.dirty = TRUE])}
=============================================================================
