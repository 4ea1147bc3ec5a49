------------------------------ MODULE RepoPool ------------------------------
(***************************************************************************)
(* The pool of bare repositories that all roots share, and repo gc, which  *)
(* deletes those that are not in use.  gc has no lock: it lists the pool,  *)
(* loads the registry of roots, reads the metadata of the workspaces of    *)
(* every root, one directory after the other, asks git for linked          *)
(* worktrees, waits for the user, and deletes.  Commands that use the pool *)
(* and commands that change the registry run in between.                   *)
(*                                                                         *)
(* The workspace commands are those of WorkspaceLifecycle, cut only where  *)
(* gc can see the difference; two of them never work on one workspace at a *)
(* time here.  refs[w] stands for the repos_restore entries with a         *)
(* repo_uid, trees[w] for the worktrees at the place git has on record.    *)
(***************************************************************************)
EXTENDS RootRegistry

CONSTANTS
    Ws,         \* workspaces of all roots
    Repo,       \* repositories
    RootOf      \* RootOf[w]: the root of workspace w

PoolCommands ==
    {"ws-create", "repo-add", "gc",
     "add-repo", "remove-repo", "close", "reopen", "purge"}

(***************************************************************************)
(* Those that touch the registry first.                                    *)
(***************************************************************************)
TouchingCommands == {"ws-create", "repo-add", "gc"}

ASSUME PoolAssumption ==
    /\ Ws # {} /\ Repo # {}
    /\ RootOf \in [Ws -> Root]
    /\ Commands \in [Proc -> SUBSET (RegistryCommands \cup PoolCommands)]

VARIABLES
    pool,       \* the bare repositories
    place,      \* place[w]: "none", or the directory w is under
    meta,       \* workspaces whose directory has its metadata file
    refs,       \* refs[w]: repositories the metadata of w names
    trees,      \* trees[w]: worktrees of w
    task,       \* task[p]: what process p works on
    used        \* history: used[p] is what has been in use since the gc of p
                \* has loaded the registry

poolVars == <<pool, place, meta, refs, trees>>
vars == <<file, current, pc, job, pool, place, meta, refs, trees, task, used>>

Task == [ws : Ws, repo : Repo,
         list : SUBSET Repo,        \* gc: repositories to inspect
         roots : SUBSET Root,       \* gc: roots to scan
         at : Root \cup {"none"},   \* gc: the root whose archive is next
         last : BOOLEAN,            \* gc: the current root is scanned again
         held : SUBSET Repo,        \* gc: repositories found in metadata
         todo : SUBSET Repo]        \* gc: eligible, then to delete

NoTask == [ws |-> CHOOSE w \in Ws : TRUE, repo |-> CHOOSE r \in Repo : TRUE,
           list |-> {}, roots |-> {}, at |-> "none", last |-> FALSE,
           held |-> {}, todo |-> {}]

Init ==
    /\ RegistryInit
    /\ pool = {}
    /\ place = [w \in Ws |-> "none"]
    /\ meta = {}
    /\ refs = [w \in Ws |-> {}]
    /\ trees = [w \in Ws |-> {}]
    /\ task = [p \in Proc |-> NoTask]
    /\ used = [p \in Proc |-> {}]

(***************************************************************************)
(* The command returns.                                                    *)
(***************************************************************************)
Finish(p) ==
    /\ Return(p)
    /\ task' = [task EXCEPT ![p] = NoTask]

WsArg(c) ==
    IF c \in {"gc", "repo-add"} THEN {NoTask.ws} ELSE Ws
RepoArg(c) ==
    IF c \in {"add-repo", "remove-repo", "repo-add"} THEN Repo ELSE {NoTask.repo}
RootsFor(c, w) == IF c = "gc" THEN Root ELSE {RootOf[w]}

PoolStart(p) ==
    /\ pc[p] = "idle"
    /\ \E c \in Commands[p] \cap PoolCommands :
       \E w \in WsArg(c), r \in RepoArg(c) : \E x \in RootsFor(c, w) :
        /\ \A q \in Proc : pc[q] # "idle" /\ task[q].ws = w =>
              {c, job[q].cmd} \cap (RegistryCommands \cup {"gc", "repo-add"}) # {}
        /\ Goto(p, IF c \in TouchingCommands THEN FirstCall(c) ELSE c)
        /\ job' = [job EXCEPT ![p] = [NoJob EXCEPT !.cmd = c, !.root = x]]
        /\ task' = [task EXCEPT ![p] = [NoTask EXCEPT !.ws = w, !.repo = r]]
    /\ UNCHANGED <<file, current, poolVars>>
-----------------------------------------------------------------------------
(***************************************************************************)
(* Commands that use the pool                                              *)
(***************************************************************************)

(***************************************************************************)
(* repo add: clone, or fetch what is there.                                *)
(***************************************************************************)
RepoAdd(p) ==
    /\ pc[p] = "repo-add"
    /\ pool' = pool \cup {task[p].repo}
    /\ Finish(p)
    /\ UNCHANGED <<file, current, place, meta, refs, trees>>

(***************************************************************************)
(* ws create; an interrupted one leaves a directory without metadata.      *)
(***************************************************************************)
MakeWorkspace(p) ==
    LET w == task[p].ws
    IN  /\ pc[p] = "ws-create" /\ place[w] = "none"
        /\ place' = [place EXCEPT ![w] = "workspaces"]
        /\ meta' \in {meta, meta \cup {w}}
        /\ Finish(p)
        /\ UNCHANGED <<file, current, pool, refs, trees>>

(***************************************************************************)
(* ws add-repo: the worktree first, its entry in the metadata afterwards;  *)
(* when that fails the worktree is removed.                                *)
(***************************************************************************)
AddTree(p) ==
    LET w == task[p].ws
        r == task[p].repo
    IN  /\ pc[p] = "add-repo"
        /\ place[w] = "workspaces" /\ w \in meta
        /\ r \in pool \ (trees[w] \cup refs[w])
        /\ trees' = [trees EXCEPT ![w] = @ \cup {r}]
        /\ Goto(p, "add-repo.meta")
        /\ UNCHANGED <<file, current, job, task, pool, place, meta, refs>>

AddMeta(p) ==
    LET w == task[p].ws
        r == task[p].repo
    IN  /\ pc[p] = "add-repo.meta"
        /\ \/ refs' = [refs EXCEPT ![w] = @ \cup {r}] /\ UNCHANGED trees
           \/ trees' = [trees EXCEPT ![w] = @ \ {r}] /\ UNCHANGED refs
        /\ Finish(p)
        /\ UNCHANGED <<file, current, pool, place, meta>>

(***************************************************************************)
(* ws remove-repo.                                                         *)
(***************************************************************************)
RemoveTree(p) ==
    LET w == task[p].ws
        r == task[p].repo
    IN  /\ pc[p] = "remove-repo"
        /\ place[w] = "workspaces" /\ w \in meta
        /\ r \in trees[w] \cup refs[w]
        /\ r \in trees[w] => r \in pool
        /\ trees' = [trees EXCEPT ![w] = @ \ {r}]
        /\ Goto(p, "remove-repo.meta")
        /\ UNCHANGED <<file, current, job, task, pool, place, meta, refs>>

RemoveMeta(p) ==
    /\ pc[p] = "remove-repo.meta"
    /\ refs' = [refs EXCEPT ![task[p].ws] = @ \ {task[p].repo}]
    /\ Finish(p)
    /\ UNCHANGED <<file, current, pool, place, meta, trees>>

(***************************************************************************)
(* ws close: the worktrees, one by one, then the directory.                *)
(***************************************************************************)
CloseTree(p) ==
    LET w == task[p].ws
    IN  /\ pc[p] = "close"
        /\ place[w] = "workspaces" /\ w \in meta
        /\ \E r \in trees[w] \cap pool : trees' = [trees EXCEPT ![w] = @ \ {r}]
        /\ UNCHANGED <<file, current, pc, job, task, pool, place, meta, refs>>

Archive(p) ==
    LET w == task[p].ws
    IN  /\ pc[p] = "close"
        /\ place[w] = "workspaces" /\ w \in meta /\ trees[w] = {}
        /\ place' = [place EXCEPT ![w] = "archive"]
        /\ Finish(p)
        /\ UNCHANGED <<file, current, pool, meta, refs, trees>>

(***************************************************************************)
(* ws reopen: the directory, then the worktrees; a bare repository that is *)
(* not in the pool is cloned.  A failure moves the directory back, and the *)
(* worktrees in it are no longer where git has them on record.             *)
(***************************************************************************)
Restore(p) ==
    LET w == task[p].ws
    IN  /\ pc[p] = "reopen" /\ place[w] = "archive" /\ w \in meta
        /\ place' = [place EXCEPT ![w] = "workspaces"]
        /\ Goto(p, "reopen.trees")
        /\ UNCHANGED <<file, current, job, task, pool, meta, refs, trees>>

ReopenTree(p) ==
    LET w == task[p].ws
    IN  /\ pc[p] = "reopen.trees"
        /\ \E r \in refs[w] \ trees[w] :
            /\ pool' = pool \cup {r}
            /\ trees' = [trees EXCEPT ![w] = @ \cup {r}]
        /\ UNCHANGED <<file, current, pc, job, task, place, meta, refs>>

ReopenFails(p) ==
    LET w == task[p].ws
    IN  /\ pc[p] = "reopen.trees"
        /\ place' = [place EXCEPT ![w] = "archive"]
        /\ trees' = [trees EXCEPT ![w] = {}]
        /\ Finish(p)
        /\ UNCHANGED <<file, current, pool, meta, refs>>

ReopenDone(p) ==
    /\ pc[p] = "reopen.trees" /\ refs[task[p].ws] \subseteq trees[task[p].ws]
    /\ Finish(p)
    /\ UNCHANGED <<file, current, poolVars>>

(***************************************************************************)
(* ws purge; an interrupted one leaves a directory without metadata.       *)
(***************************************************************************)
Purge(p) ==
    LET w == task[p].ws
    IN  /\ pc[p] = "purge" /\ place[w] = "archive" /\ w \in meta
        /\ place' \in {place, [place EXCEPT ![w] = "none"]}
        /\ meta' = meta \ {w}
        /\ refs' = [refs EXCEPT ![w] = {}]
        /\ Finish(p)
        /\ UNCHANGED <<file, current, pool, trees>>
-----------------------------------------------------------------------------
(***************************************************************************)
(* repo gc                                                                 *)
(***************************************************************************)
GcList(p) ==
    /\ pc[p] = "gc" /\ pool # {}
    /\ task' = [task EXCEPT ![p].list = pool]
    /\ Goto(p, "gc.registry")
    /\ UNCHANGED <<file, current, job, poolVars>>

GcRegistry(p) ==
    /\ pc[p] = "gc.registry"
    /\ task' = [task EXCEPT ![p].roots = Known(file)]
    /\ Goto(p, "gc.scan")
    /\ UNCHANGED <<file, current, job, poolVars>>

(***************************************************************************)
(* The workspaces under one directory of a root.  A directory without      *)
(* metadata makes the whole command fail.                                  *)
(***************************************************************************)
Under(x, dir) == {w \in Ws : RootOf[w] = x /\ place[w] = dir}

RefsUnder(x, dir) == UNION {refs[w] : w \in Under(x, dir)}

GcScanWorkspaces(p) ==
    /\ pc[p] = "gc.scan" /\ task[p].at = "none"
    /\ \E x \in task[p].roots :
        /\ Under(x, "workspaces") \subseteq meta
        /\ task' = [task EXCEPT ![p].at = x,
                                ![p].held = @ \cup RefsUnder(x, "workspaces")]
    /\ UNCHANGED <<file, current, pc, job, poolVars>>

(***************************************************************************)
(* Faulty variant: archived workspaces are not read.                       *)
(***************************************************************************)
GcScanArchiveSkipped(p) ==
    /\ pc[p] = "gc.scan" /\ task[p].at # "none"
    /\ task' = [task EXCEPT ![p].at = "none",
                            ![p].roots = @ \ {task[p].at}]
    /\ UNCHANGED <<file, current, pc, job, poolVars>>

GcScanArchive(p) ==
    LET x == task[p].at
    IN  /\ pc[p] = "gc.scan" /\ x # "none"
        /\ Under(x, "archive") \subseteq meta
        /\ task' = [task EXCEPT ![p].at = "none",
                                ![p].roots = @ \ {x},
                                ![p].held = @ \cup RefsUnder(x, "archive")]
        /\ UNCHANGED <<file, current, pc, job, poolVars>>

(***************************************************************************)
(* After the roots of the registry the current root is scanned, once more  *)
(* when it is one of them.                                                 *)
(***************************************************************************)
GcScanned(p) ==
    /\ pc[p] = "gc.scan" /\ task[p].roots = {}
    /\ \/ /\ ~task[p].last
          /\ task' = [task EXCEPT ![p].last = TRUE, ![p].roots = {job[p].root}]
          /\ UNCHANGED pc
       \/ /\ task[p].last
          /\ UNCHANGED task
          /\ Goto(p, "gc.inspect")
    /\ UNCHANGED <<file, current, job, poolVars>>

hasLinkedWorktrees(r) == \E w \in Ws : r \in trees[w]

(***************************************************************************)
(* One repository of the list: eligible, or not, or not inspectable.       *)
(***************************************************************************)
GcInspect(p) ==
    /\ pc[p] = "gc.inspect"
    /\ \E r \in task[p].list :
        \/ task' = [task EXCEPT
              ![p].list = @ \ {r},
              ![p].todo = IF r \notin task[p].held /\ ~hasLinkedWorktrees(r)
                          THEN @ \cup {r} ELSE @]
        \/ task' = [task EXCEPT ![p].list = @ \ {r}]
    /\ UNCHANGED <<file, current, pc, job, poolVars>>

(***************************************************************************)
(* The user selects, and confirms; a selection that holds a repository     *)
(* that is not eligible is refused (Crash).                                *)
(***************************************************************************)
GcSelect(p) ==
    /\ pc[p] = "gc.inspect" /\ task[p].list = {}
    /\ \E s \in SUBSET task[p].todo \ {{}} : task' = [task EXCEPT ![p].todo = s]
    /\ Goto(p, "gc.delete")
    /\ UNCHANGED <<file, current, job, poolVars>>

(***************************************************************************)
(* Delete one; a failure is reported and the next one is tried.            *)
(***************************************************************************)
GcDelete(p) ==
    /\ pc[p] = "gc.delete"
    /\ \E r \in task[p].todo :
        /\ pool' \in {pool, pool \ {r}}
        /\ IF task[p].todo = {r} THEN Finish(p)
           ELSE /\ task' = [task EXCEPT ![p].todo = @ \ {r}]
                /\ UNCHANGED <<pc, job>>
    /\ UNCHANGED <<file, current, place, meta, refs, trees>>
-----------------------------------------------------------------------------
GcStep(p) ==
    \/ GcList(p) \/ GcRegistry(p) \/ GcScanWorkspaces(p) \/ GcScanArchive(p)
    \/ GcScanned(p) \/ GcInspect(p) \/ GcSelect(p) \/ GcDelete(p)

PoolStep(p) ==
    \/ RepoAdd(p) \/ MakeWorkspace(p)
    \/ AddTree(p) \/ AddMeta(p) \/ RemoveTree(p) \/ RemoveMeta(p)
    \/ CloseTree(p) \/ Archive(p)
    \/ Restore(p) \/ ReopenTree(p) \/ ReopenFails(p) \/ ReopenDone(p)
    \/ Purge(p)

RegistryOnly(p) ==
    /\ RegistryStart(p) \/ RegistryStep(p)
    /\ UNCHANGED <<poolVars, task>>

Fails(p) ==
    /\ Crash(p)
    /\ task' = [task EXCEPT ![p] = NoTask]
    /\ UNCHANGED poolVars

(***************************************************************************)
(* The history: what is in use when the gc of p loads the registry, as far *)
(* as it stays so, an entry in the same place, a worktree in git's record. *)
(***************************************************************************)
InUse(p) ==
    {u \in {"ref"} \X Ws \X Repo :
        /\ place[u[2]] # "none" /\ u[3] \in refs[u[2]]
        /\ RootOf[u[2]] \in Known(file) \cup {job[p].root}}
    \cup {u \in {"tree"} \X Ws \X Repo : u[3] \in trees[u[2]]}

StaysInUse(u) ==
    LET w == u[2]
        r == u[3]
    IN  IF u[1] = "ref" THEN place'[w] = place[w] /\ r \in refs'[w]
        ELSE r \in trees'[w]

Record ==
    used' = [p \in Proc |->
        IF pc'[p] = "idle" THEN {}
        ELSE {u \in IF pc[p] = "gc.registry" THEN InUse(p) ELSE used[p] :
                StaysInUse(u)}]

Next ==
    /\ \E p \in Proc : \/ PoolStart(p) \/ PoolStep(p) \/ GcStep(p)
                       \/ RegistryOnly(p) \/ Fails(p)
    /\ Record

Spec == Init /\ [][Next]_vars
-----------------------------------------------------------------------------
(***************************************************************************)
(* Properties                                                              *)
(***************************************************************************)

(***************************************************************************)
(* gc deletes no repository that has been in use since it loaded the       *)
(* registry: by a worktree of any root, or by the metadata of a workspace  *)
(* of a known root that has stayed where it is.  Commands that add, close, *)
(* reopen and purge, other gcs, and lost updates of the registry may all   *)
(* happen between its checks and the deletion.                             *)
(***************************************************************************)
GcKeepsInUse ==
    [][\A p \in Proc : \A u \in used[p] :
        pc[p] = "gc.delete" /\ task'[p] # task[p]
        => u[3] \notin pool \ pool']_vars

(***************************************************************************)
(* docs/spec/commands/repo/gc.md: "Missing/corrupt index data must not     *)
(* permit unsafe deletion".  No repository is deleted that a workspace     *)
(* still names.                                                            *)
(***************************************************************************)
ReferencedKept ==
    [][\A r \in pool \ pool' : \A w \in Ws : r \notin refs[w]]_vars
=============================================================================
