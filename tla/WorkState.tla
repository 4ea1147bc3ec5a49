------------------------------ MODULE WorkState ------------------------------
(***************************************************************************)
(* What ws list says of an active workspace: todo, or in-progress once its *)
(* files or worktrees differ from the baseline taken when it was created   *)
(* or reopened.  The answer in-progress is kept in a cache, which is what  *)
(* makes it stay when the difference goes away.  Without a baseline the    *)
(* risk of the worktrees decides.                                          *)
(***************************************************************************)
EXTENDS Naturals, FiniteSets, RepoRisk

CONSTANTS
    Ws,         \* names of workspaces
    Path,       \* files of a workspace outside of repos/
    Hash,       \* what a file can hold
    Alias,      \* names of worktrees
    Commit,     \* commits a worktree can be at
    NoHead,     \* of a worktree whose HEAD git cannot read
    Trees,      \* the worktrees considered
    Contents    \* the files considered, of one workspace

Files == UNION {[S -> Hash] : S \in SUBSET Path}

ASSUME WorkStateAssumption ==
    /\ IsFiniteSet(Path)
    /\ NoHead \notin Commit
    /\ Trees \subseteq [missing : {FALSE}, head : Commit \cup {NoHead}, snap : Snapshot]
    /\ Contents \subseteq Files

VARIABLES
    place,      \* place[w]: where the workspace is
    fs,         \* fs[w]: its files outside of repos/ and the metadata
    repos,      \* repos[w]: its worktrees, and the entries that miss one
    baseline,   \* baseline[w]: the baseline file
    cache       \* workspaces the cache holds as in-progress

stateVars == <<place, fs, repos, baseline, cache>>

(***************************************************************************)
(* An entry of the metadata without a directory, and a directory.          *)
(***************************************************************************)
Gone == [missing |-> TRUE, head |-> NoHead, snap |-> CleanSnapshot]
Worktree == {Gone} \cup Trees
Repos == UNION {[S -> Worktree] : S \in SUBSET Alias}
NoFiles == [p \in {} |-> p]

NoBaseline == [present |-> FALSE, repos |-> NoFiles, fs |-> NoFiles]
Baseline == {NoBaseline} \cup
    [present : {TRUE}, repos : UNION {[S -> Commit] : S \in SUBSET Alias}, fs : Files]

(***************************************************************************)
(* The baseline of a workspace with these files and worktrees.  A worktree *)
(* whose HEAD cannot be read is left out.                                  *)
(***************************************************************************)
Captured(files, trees) ==
    LET seen == {a \in DOMAIN trees : ~trees[a].missing /\ trees[a].head # NoHead}
    IN [present |-> TRUE, repos |-> [a \in seen |-> trees[a].head], fs |-> files]

hasRepoSignalsChanged(w) ==
    \/ \E a \in DOMAIN repos[w] :
        LET r == repos[w][a] IN
        \/ r.missing \/ r.snap.error \/ r.snap.dirty \/ r.head = NoHead
        \/ a \notin DOMAIN baseline[w].repos
        \/ baseline[w].repos[a] # r.head
    \/ \E a \in DOMAIN baseline[w].repos : a \notin DOMAIN repos[w]

(***************************************************************************)
(* Faulty variant: only the number of files is compared.                   *)
(***************************************************************************)
FSCountChanged(current, base) ==
    Cardinality(DOMAIN current) # Cardinality(DOMAIN base)

(***************************************************************************)
(* The number of files differs, or a file of the baseline is gone or has   *)
(* another hash.  New files are not looked for.                            *)
(***************************************************************************)
hasWorkspaceFSChanged(current, base) ==
    \/ Cardinality(DOMAIN current) # Cardinality(DOMAIN base)
    \/ \E p \in DOMAIN base : p \notin DOMAIN current \/ current[p] # base[p]

inspectWorkspaceRepoRisk(w) ==
    Aggregate({IF repos[w][a].missing THEN "unknown"
               ELSE ClassifyRepoStatus(repos[w][a].snap) : a \in DOMAIN repos[w]})

deriveWorkspaceWorkStateFromBaseline(w) ==
    IF baseline[w].present
    THEN IF hasRepoSignalsChanged(w) \/ hasWorkspaceFSChanged(fs[w], baseline[w].fs)
         THEN "in-progress" ELSE "todo"
    ELSE IF inspectWorkspaceRepoRisk(w) = "clean" THEN "todo" ELSE "in-progress"
-----------------------------------------------------------------------------
(***************************************************************************)
(* The comparison misses nothing, although it never looks for new files:   *)
(* the files differ from the baseline's exactly if it says so              *)
(* (hasWorkspaceFSChanged).                                                *)
(***************************************************************************)
FSComparisonExact ==
    \A w \in Ws : baseline[w].present =>
        (hasWorkspaceFSChanged(fs[w], baseline[w].fs) <=> fs[w] # baseline[w].fs)
=============================================================================
