------------------------- MODULE WorkspaceLifecycle -------------------------
(***************************************************************************)
(* The workspace commands of kra: ws create, lock, unlock, close, reopen,  *)
(* purge, add-repo and remove-repo.  Every command is an operating-system  *)
(* process that works on the directories of one workspace, one file-system *)
(* or git call after the other, with no lock around the whole command.     *)
(* An action is one such call with the early returns and the rollback the  *)
(* code attaches to it, so commands interleave at every call, a call may   *)
(* fail, and a process may die between any two calls.                      *)
(*                                                                         *)
(* Abstractions: a repository is identified with its alias, and the branch *)
(* of a worktree with the id of its workspace (the default branch name),   *)
(* unless the user has detached its HEAD; one counter `note` stands for    *)
(* the files of a workspace other than .kra.meta.json and repos/; bare     *)
(* repositories are always present; the cmux mapping and the work-state    *)
(* cache are not part of this module.                                      *)
(***************************************************************************)
EXTENDS Naturals

CONSTANTS
    Ws,         \* workspace ids
    Repo,       \* repositories
    Proc,       \* processes that run commands
    MaxNote,    \* bound on the versions of a workspace's files
    Commands,   \* the commands that are run
    Modes,      \* and the modes they are run in, see Start
    Errors,     \* commands whose calls may fail
    Crashes,    \* commands whose process may die between two calls
    Serial,     \* TRUE: never two commands on one workspace at a time
    UserEdits   \* TRUE: the user edits worktrees and files at any time

AllCommands ==
    {"create", "guard", "close", "reopen", "purge", "add-repo", "remove-repo"}

ASSUME ConstantsAssumption ==
    /\ Ws # {}
    /\ MaxNote \in Nat
    /\ Commands \subseteq AllCommands
    /\ Modes \subseteq BOOLEAN
    /\ Errors \subseteq AllCommands
    /\ Crashes \subseteq AllCommands
    /\ Serial \in BOOLEAN
    /\ UserEdits \in BOOLEAN

VARIABLES
    ws,     \* ws[i]: the directory workspaces/<i>
    arc,    \* arc[i]: the directory archive/<i>
    reg,    \* worktrees git has on record, <<r, i>> for workspaces/<i>/repos/<r>
    base,   \* workspaces that have a baseline file
    head,   \* head[i]: both directories as of the last commit of the root
    pc,     \* pc[p]: the call process p makes next
    job,    \* job[p]: the command line and the local variables of p

    \* For the properties only:
    scars   \* scars[i]: what has happened to workspace i that no rollback undid

disk == <<ws, arc, reg, base, head, scars>>
vars == <<ws, arc, reg, base, head, pc, job, scars>>
-----------------------------------------------------------------------------
(***************************************************************************)
(* Directories and metadata                                                *)
(***************************************************************************)

(***************************************************************************)
(* An entry of repos_restore: none, one whose repo_uid is empty, one whose *)
(* branch is "HEAD", which is none, or one that ws reopen accepts.         *)
(***************************************************************************)
Entry == {"absent", "nouid", "headless", "full"}

Meta == [status : {"absent", "active", "archived"},
         guard : BOOLEAN,
         restore : [Repo -> Entry]]

NoMeta == [status |-> "absent", guard |-> TRUE,
           restore |-> [r \in Repo |-> "absent"]]

Notes == 0..MaxNote

Dir == [there : BOOLEAN, meta : Meta, note : Notes,
        trees : SUBSET Repo,    \* worktrees under repos/
        dirty : SUBSET Repo,    \* those with work found nowhere else
        loose : SUBSET Repo]    \* those with a detached HEAD

NoDir == [there |-> FALSE, meta |-> NoMeta, note |-> 0,
          trees |-> {}, dirty |-> {}, loose |-> {}]

EmptyDir == [NoDir EXCEPT !.there = TRUE]

HasMeta(d) == d.meta.status # "absent"

(***************************************************************************)
(* What git tracks of a workspace directory: everything but repos/.        *)
(***************************************************************************)
Snapshot == [there : BOOLEAN, meta : Meta, note : Notes]

Snap(d) == [there |-> d.there, meta |-> d.meta, note |-> d.note]

Restorable(m) == {r \in Repo : m.restore[r] # "absent"}

(***************************************************************************)
(* The repositories of a workspace: its worktrees and its restore entries. *)
(***************************************************************************)
Bound(d) == d.trees \cup Restorable(d.meta)

(***************************************************************************)
(* What the risk inspection reports as not clean: work that would be lost, *)
(* and repositories whose worktree is missing.                             *)
(***************************************************************************)
Risky(d) == d.dirty \cup (Restorable(d.meta) \ d.trees)

(***************************************************************************)
(* The metadata ws create writes.                                          *)
(***************************************************************************)
FreshMeta == [NoMeta EXCEPT !.status = "active", !.guard = TRUE]

(***************************************************************************)
(* Faulty variant: entries for the worktrees that are there, no others.    *)
(***************************************************************************)
ClosedMetaLiveOnly(d) ==
    [d.meta EXCEPT
        !.status = "archived",
        !.restore = [r \in Repo |->
            IF r \in d.trees THEN d.meta.restore[r] ELSE "absent"]]

(***************************************************************************)
(* The entry ws close writes for a repository: of a worktree that is there *)
(* the branch it is on, with the repo_uid of the entry it already has, if  *)
(* any; of a worktree that is not, the entry as it is.                     *)
(***************************************************************************)
ClosedEntry(d, r) ==
    IF r \notin d.trees THEN d.meta.restore[r]
    ELSE IF d.meta.restore[r] \in {"absent", "nouid"} THEN "nouid"
    ELSE IF r \in d.loose THEN "headless" ELSE "full"

(***************************************************************************)
(* The metadata ws close writes: archived, with an entry for every         *)
(* repository of the workspace.                                            *)
(***************************************************************************)
ClosedMeta(d) ==
    [d.meta EXCEPT
        !.status = "archived",
        !.restore = [r \in Repo |-> ClosedEntry(d, r)]]

WithMeta(d, m) == [d EXCEPT !.meta = m]

(***************************************************************************)
(* Faulty variant: the directories above are taken to be there.            *)
(***************************************************************************)
WithTreeOnly(d, r) == [d EXCEPT !.trees = @ \cup {r}]

(***************************************************************************)
(* git worktree add creates the directories above the worktree.            *)
(***************************************************************************)
WithTree(d, r) == [d EXCEPT !.there = TRUE, !.trees = @ \cup {r}]

WithoutTree(d, r) ==
    [d EXCEPT !.trees = @ \ {r}, !.dirty = @ \ {r}, !.loose = @ \ {r}]
-----------------------------------------------------------------------------
(***************************************************************************)
(* Processes                                                               *)
(***************************************************************************)
Labels ==
    {"idle",
     "create.stat", "create.mkdir", "create.fill", "create.base", "create.post",
     "guard.load", "guard.write",
     "close.risk", "close.scan", "close.pre", "close.rm", "close.rename",
     "close.base", "close.post",
     "reopen.stat", "reopen.pre", "reopen.rename", "reopen.load", "reopen.add",
     "reopen.base", "reopen.post",
     "purge.check", "purge.pre", "purge.list", "purge.rm", "purge.delarc",
     "purge.rmdir", "purge.base", "purge.post",
     "add.plan", "add.apply", "add.write", "add.rollback",
     "remove.plan", "remove.rm", "remove.write"}

Job == [cmd : AllCommands \cup {"none"},
        id : Ws,
        opt : BOOLEAN,          \* commit mode; for guard: lock or unlock
        where : {"ws", "arc"},  \* guard: the directory found
        held : Meta,            \* metadata as read
        next : Meta,            \* close: metadata to write
        todo : SUBSET Repo,     \* repositories still to process
        done : SUBSET Repo]     \* close: the risky ones shown to the user;
                                \* remove-repo: the selected ones;
                                \* add-repo: those already added

NoJob == [cmd |-> "none", id |-> CHOOSE i \in Ws : TRUE, opt |-> TRUE,
          where |-> "ws", held |-> NoMeta, next |-> NoMeta,
          todo |-> {}, done |-> {}]

Id(p) == job[p].id
MayFail(p) == job[p].cmd \in Errors

FirstCall(c) ==
    CASE c = "create"      -> "create.stat"
      [] c = "guard"       -> "guard.load"
      [] c = "close"       -> "close.risk"
      [] c = "reopen"      -> "reopen.stat"
      [] c = "purge"       -> "purge.check"
      [] c = "add-repo"    -> "add.plan"
      [] c = "remove-repo" -> "remove.plan"

Goto(p, l) == pc' = [pc EXCEPT ![p] = l]

(***************************************************************************)
(* The command returns, with success or with an error.                     *)
(***************************************************************************)
Return(p) ==
    /\ pc' = [pc EXCEPT ![p] = "idle"]
    /\ job' = [job EXCEPT ![p] = NoJob]

(***************************************************************************)
(* os.Rename of a directory fails when the target is a directory.          *)
(***************************************************************************)
CanArchive(i) == ws[i].there /\ ~arc[i].there
CanRestore(i) == arc[i].there /\ ~ws[i].there

(***************************************************************************)
(* The code ignores the errors of its rollbacks.  What they leave undone,  *)
(* and what a process that dies or a second add-repo leaves, is noted:     *)
(* "status" when metadata and place may not fit from then on, "trees" when *)
(* worktrees and entries may not.                                          *)
(***************************************************************************)
Scar == {"status", "trees"}

Scarred(i, c) == [scars EXCEPT ![i] = @ \cup {c}]

(***************************************************************************)
(* The rollback of a failed reopen: the directory goes back, unless this   *)
(* rename fails as well.                                                   *)
(***************************************************************************)
RenameBack(p) ==
    LET i == Id(p)
    IN  \/ /\ CanArchive(i)
           /\ arc' = [arc EXCEPT ![i] = ws[i]]
           /\ ws' = [ws EXCEPT ![i] = NoDir]
           /\ UNCHANGED scars
        \/ /\ ~CanArchive(i) \/ MayFail(p)
           /\ scars' = Scarred(i, "status")
           /\ UNCHANGED <<ws, arc>>

(***************************************************************************)
(* Faulty variant: the metadata stays as it is.                            *)
(***************************************************************************)
WriteBackForgotten(p) == UNCHANGED <<ws, scars>>

(***************************************************************************)
(* The rollback of a failed close: the original metadata is written again, *)
(* unless this write fails as well.                                        *)
(***************************************************************************)
WriteBack(p) ==
    LET i == Id(p)
    IN  \/ /\ ws[i].there
           /\ ws' = [ws EXCEPT ![i] = WithMeta(@, job[p].held)]
           /\ UNCHANGED scars
        \/ /\ ~ws[i].there \/ MayFail(p)
           /\ scars' = IF ws[i].meta = job[p].held THEN scars
                       ELSE Scarred(i, "status")
           /\ UNCHANGED ws

(***************************************************************************)
(* git worktree add refuses a path that exists or that git has on record,  *)
(* and a branch that another worktree has checked out.                     *)
(***************************************************************************)
CanAddTree(i, r) == r \notin ws[i].trees /\ <<r, i>> \notin reg

AddTree(i, r) ==
    /\ ws' = [ws EXCEPT ![i] = WithTree(@, r)]
    /\ reg' = reg \cup {<<r, i>>}

(***************************************************************************)
(* Faulty variant: the directory is deleted behind git's back.             *)
(***************************************************************************)
RemoveTreeFiles(i, r) ==
    ws' = [ws EXCEPT ![i] = WithoutTree(@, r)] /\ UNCHANGED reg

(***************************************************************************)
(* git worktree remove --force; a worktree that is not there is skipped.   *)
(***************************************************************************)
RemoveTree(i, r) ==
    IF r \in ws[i].trees
    THEN /\ ws' = [ws EXCEPT ![i] = WithoutTree(@, r)]
         /\ reg' = reg \ {<<r, i>>}
    ELSE UNCHANGED <<ws, reg>>

(***************************************************************************)
(* git add and git commit --only refuse a path that is neither on disk nor *)
(* in the last commit.                                                     *)
(***************************************************************************)
Known(d, s) == d.there \/ s.there

CommitBoth(i) ==
    head' = [head EXCEPT ![i] = [ws |-> Snap(ws[i]), arc |-> Snap(arc[i])]]
-----------------------------------------------------------------------------
Init ==
    /\ ws = [i \in Ws |-> NoDir]
    /\ arc = [i \in Ws |-> NoDir]
    /\ reg = {}
    /\ base = {}
    /\ head = [i \in Ws |-> [ws |-> Snap(NoDir), arc |-> Snap(NoDir)]]
    /\ pc = [p \in Proc |-> "idle"]
    /\ job = [p \in Proc |-> NoJob]
    /\ scars = [i \in Ws |-> {}]

(***************************************************************************)
(* A process starts a command.  Close, reopen and purge run in commit mode *)
(* or with --no-commit, and the guard command is lock or unlock; the other *)
(* commands have one mode.                                                 *)
(***************************************************************************)
Start(p) ==
    /\ pc[p] = "idle"
    /\ \E c \in Commands, i \in Ws, o \in Modes \cup {TRUE} :
        /\ o \in IF c \in {"create", "add-repo", "remove-repo"} THEN {TRUE}
                 ELSE Modes
        /\ Serial => \A q \in Proc : pc[q] # "idle" => Id(q) # i
        /\ pc' = [pc EXCEPT ![p] = FirstCall(c)]
        /\ job' = [job EXCEPT ![p] =
                      [NoJob EXCEPT !.cmd = c, !.id = i, !.opt = o]]
    /\ UNCHANGED disk

(***************************************************************************)
(* The process is killed: what it has done so far stays.  Before some      *)
(* calls that is a directory without metadata or with the status of the    *)
(* other place, or a worktree without an entry.                            *)
(***************************************************************************)
Wounds(l) ==
    {c \in Scar :
        \/ /\ c = "status"
           /\ l \in {"create.fill", "close.rename", "reopen.load", "reopen.add"}
        \/ /\ c = "trees"
           /\ l \in {"add.apply", "add.write", "add.rollback"}}

Crash(p) ==
    /\ pc[p] # "idle"
    /\ job[p].cmd \in Crashes
    /\ scars' = [scars EXCEPT ![Id(p)] = @ \cup Wounds(pc[p])]
    /\ Return(p)
    /\ UNCHANGED <<ws, arc, reg, base, head>>

(***************************************************************************)
(* The user changes the files of a workspace, works in a worktree, commits *)
(* and pushes that work, or detaches a HEAD and attaches it again.         *)
(***************************************************************************)
EditNote(i) ==
    /\ UserEdits
    /\ ws[i].there
    /\ \E n \in Notes : ws' = [ws EXCEPT ![i].note = n]
    /\ UNCHANGED <<arc, reg, base, head, pc, job, scars>>

EditTree(i) ==
    /\ UserEdits
    /\ \E r \in ws[i].trees :
        \/ ws' = [ws EXCEPT ![i].dirty = @ \cup {r}]
        \/ ws' = [ws EXCEPT ![i].dirty = @ \ {r}]
        \/ ws' = [ws EXCEPT ![i].loose = @ \cup {r}]
        \/ ws' = [ws EXCEPT ![i].loose = @ \ {r}]
    /\ UNCHANGED <<arc, reg, base, head, pc, job, scars>>
-----------------------------------------------------------------------------
(***************************************************************************)
(* ws create                                                               *)
(***************************************************************************)

(***************************************************************************)
(* Faulty variant: the archive is not looked at.                           *)
(***************************************************************************)
CreateStatWsOnly(p) ==
    LET i == Id(p)
    IN  /\ pc[p] = "create.stat"
        /\ \/ ~ws[i].there /\ Goto(p, "create.mkdir") /\ UNCHANGED job
           \/ (ws[i].there \/ MayFail(p)) /\ Return(p)
        /\ UNCHANGED disk

CreateStat(p) ==
    LET i == Id(p)
    IN  /\ pc[p] = "create.stat"
        /\ \/ ~ws[i].there /\ ~arc[i].there
              /\ Goto(p, "create.mkdir") /\ UNCHANGED job
           \/ (ws[i].there \/ arc[i].there \/ MayFail(p)) /\ Return(p)
        /\ UNCHANGED disk

CreateMkdir(p) ==
    LET i == Id(p)
    IN  /\ pc[p] = "create.mkdir"
        /\ \/ /\ ~ws[i].there
              /\ ws' = [ws EXCEPT ![i] = EmptyDir]
              /\ Goto(p, "create.fill") /\ UNCHANGED job
           \/ (ws[i].there \/ MayFail(p)) /\ Return(p) /\ UNCHANGED ws
        /\ UNCHANGED <<arc, reg, base, head, scars>>

(***************************************************************************)
(* Copy the template, write the metadata; a failure removes the directory, *)
(* unless the removal fails as well.                                       *)
(***************************************************************************)
CreateFill(p) ==
    LET i == Id(p)
    IN  /\ pc[p] = "create.fill"
        /\ \/ /\ ws[i].there
              /\ ws' = [ws EXCEPT ![i] = WithMeta(@, FreshMeta)]
              /\ Goto(p, "create.base") /\ UNCHANGED <<job, scars>>
           \/ /\ ~ws[i].there \/ MayFail(p)
              /\ ws' = [ws EXCEPT ![i] = NoDir]
              /\ Return(p) /\ UNCHANGED scars
           \/ /\ MayFail(p)
              /\ scars' = Scarred(i, "status")
              /\ Return(p) /\ UNCHANGED ws
        /\ UNCHANGED <<arc, reg, base, head>>

CreateBaseline(p) ==
    LET i == Id(p)
    IN  /\ pc[p] = "create.base"
        /\ \/ /\ ws[i].there
              /\ base' = base \cup {i}
              /\ Goto(p, "create.post") /\ UNCHANGED job
           \/ (~ws[i].there \/ MayFail(p)) /\ Return(p) /\ UNCHANGED base
        /\ UNCHANGED <<ws, arc, reg, head, scars>>

CreateCommit(p) ==
    LET i == Id(p)
    IN  /\ pc[p] = "create.post"
        /\ \/ /\ Known(ws[i], head[i].ws)
              /\ head' = [head EXCEPT ![i].ws = Snap(ws[i])]
           \/ /\ ~Known(ws[i], head[i].ws) \/ MayFail(p)
              /\ UNCHANGED head
        /\ Return(p)
        /\ UNCHANGED <<ws, arc, reg, base, scars>>
-----------------------------------------------------------------------------
(***************************************************************************)
(* ws lock, ws unlock                                                      *)
(***************************************************************************)
GuardLoad(p) ==
    LET i == Id(p)
        where == IF ws[i].there THEN "ws" ELSE "arc"
        d == IF ws[i].there THEN ws[i] ELSE arc[i]
    IN  /\ pc[p] = "guard.load"
        /\ \/ /\ d.there /\ HasMeta(d)
              /\ job' = [job EXCEPT ![p].held = d.meta, ![p].where = where]
              /\ Goto(p, "guard.write")
           \/ (~d.there \/ ~HasMeta(d) \/ MayFail(p)) /\ Return(p)
        /\ UNCHANGED disk

GuardWrite(p) ==
    LET i == Id(p)
        m == [job[p].held EXCEPT !.guard = job[p].opt]
    IN  /\ pc[p] = "guard.write"
        /\ \/ /\ job[p].where = "ws" /\ ws[i].there
              /\ ws' = [ws EXCEPT ![i] = WithMeta(@, m)] /\ UNCHANGED arc
           \/ /\ job[p].where = "arc" /\ arc[i].there
              /\ arc' = [arc EXCEPT ![i] = WithMeta(@, m)] /\ UNCHANGED ws
           \/ /\ \/ job[p].where = "ws" /\ ~ws[i].there
                 \/ job[p].where = "arc" /\ ~arc[i].there
                 \/ MayFail(p)
              /\ UNCHANGED <<ws, arc>>
        /\ Return(p)
        /\ UNCHANGED <<reg, base, head, scars>>
-----------------------------------------------------------------------------
(***************************************************************************)
(* ws close                                                                *)
(***************************************************************************)

(***************************************************************************)
(* Inspect the repositories; when one is not clean the user confirms or    *)
(* cancels (--force in JSON mode).                                         *)
(***************************************************************************)
CloseRisk(p) ==
    LET risky == Risky(ws[Id(p)])
    IN  /\ pc[p] = "close.risk"
        /\ \/ job' = [job EXCEPT ![p].done = risky] /\ Goto(p, "close.scan")
           \/ (risky # {} \/ MayFail(p)) /\ Return(p)
        /\ UNCHANGED disk

(***************************************************************************)
(* Check both directories, list the repositories, build the new metadata.  *)
(***************************************************************************)
CloseScan(p) ==
    LET i == Id(p)
        ok == CanArchive(i) /\ HasMeta(ws[i])
    IN  /\ pc[p] = "close.scan"
        /\ \/ /\ ok
              /\ job' = [job EXCEPT ![p].held = ws[i].meta,
                                    ![p].next = ClosedMeta(ws[i]),
                                    ![p].todo = Bound(ws[i])]
              /\ Goto(p, IF job[p].opt THEN "close.pre" ELSE "close.rm")
           \/ (~ok \/ MayFail(p)) /\ Return(p)
        /\ UNCHANGED disk

ClosePreCommit(p) ==
    LET i == Id(p)
    IN  /\ pc[p] = "close.pre"
        /\ \/ /\ Known(ws[i], head[i].ws)
              /\ head' = [head EXCEPT ![i].ws = Snap(ws[i])]
              /\ Goto(p, "close.rm") /\ UNCHANGED job
           \/ /\ ~Known(ws[i], head[i].ws) \/ MayFail(p)
              /\ Return(p) /\ UNCHANGED head
        /\ UNCHANGED <<ws, arc, reg, base, scars>>

CloseRemoveTree(p) ==
    LET i == Id(p)
    IN  /\ pc[p] = "close.rm"
        /\ \E r \in job[p].todo :
            \/ /\ RemoveTree(i, r)
               /\ job' = [job EXCEPT ![p].todo = @ \ {r}]
               /\ UNCHANGED <<pc, scars>>
            \/ /\ MayFail(p) /\ r \in ws[i].trees
               /\ WriteBack(p) /\ Return(p) /\ UNCHANGED reg
        /\ UNCHANGED <<arc, base, head>>

CloseWriteMeta(p) ==
    LET i == Id(p)
    IN  /\ pc[p] = "close.rm" /\ job[p].todo = {}
        /\ \/ /\ ws[i].there
              /\ ws' = [ws EXCEPT ![i] = WithMeta(@, job[p].next)]
              /\ Goto(p, "close.rename") /\ UNCHANGED <<job, scars>>
           \/ (~ws[i].there \/ MayFail(p)) /\ WriteBack(p) /\ Return(p)
        /\ UNCHANGED <<arc, reg, base, head>>

CloseRename(p) ==
    LET i == Id(p)
    IN  /\ pc[p] = "close.rename"
        /\ \/ /\ CanArchive(i)
              /\ arc' = [arc EXCEPT ![i] = ws[i]]
              /\ ws' = [ws EXCEPT ![i] = NoDir]
              /\ Goto(p, "close.base") /\ UNCHANGED <<job, scars>>
           \/ /\ ~CanArchive(i) \/ MayFail(p)
              /\ WriteBack(p) /\ Return(p) /\ UNCHANGED arc
        /\ UNCHANGED <<reg, base, head>>

(***************************************************************************)
(* Drop the baseline, best effort.                                         *)
(***************************************************************************)
CloseBaseline(p) ==
    /\ pc[p] = "close.base"
    /\ \/ base' = base \ {Id(p)}
       \/ MayFail(p) /\ UNCHANGED base
    /\ IF job[p].opt THEN Goto(p, "close.post") /\ UNCHANGED job ELSE Return(p)
    /\ UNCHANGED <<ws, arc, reg, head, scars>>

(***************************************************************************)
(* The archive commit wants every file of the workspace among the staged   *)
(* changes.  A file the last commit already has under archive/ with the    *)
(* same contents is not among them, and the commit is refused.             *)
(***************************************************************************)
AllFilesStaged(i) ==
    \/ arc[i].there # head[i].arc.there
    \/ arc[i].there /\ arc[i].note # head[i].arc.note

CloseCommit(p) ==
    LET i == Id(p)
    IN  /\ pc[p] = "close.post"
        /\ \/ AllFilesStaged(i) /\ CommitBoth(i)
           \/ (~AllFilesStaged(i) \/ MayFail(p)) /\ UNCHANGED head
        /\ Return(p)
        /\ UNCHANGED <<ws, arc, reg, base, scars>>
-----------------------------------------------------------------------------
(***************************************************************************)
(* ws reopen                                                               *)
(***************************************************************************)
ReopenStat(p) ==
    LET i == Id(p)
    IN  /\ pc[p] = "reopen.stat"
        /\ \/ /\ CanRestore(i)
              /\ Goto(p, IF job[p].opt THEN "reopen.pre" ELSE "reopen.rename")
              /\ UNCHANGED job
           \/ (~CanRestore(i) \/ MayFail(p)) /\ Return(p)
        /\ UNCHANGED disk

ReopenPreCommit(p) ==
    LET i == Id(p)
    IN  /\ pc[p] = "reopen.pre"
        /\ \/ /\ Known(arc[i], head[i].arc)
              /\ head' = [head EXCEPT ![i].arc = Snap(arc[i])]
              /\ Goto(p, "reopen.rename") /\ UNCHANGED job
           \/ /\ ~Known(arc[i], head[i].arc) \/ MayFail(p)
              /\ Return(p) /\ UNCHANGED head
        /\ UNCHANGED <<ws, arc, reg, base, scars>>

ReopenRename(p) ==
    LET i == Id(p)
    IN  /\ pc[p] = "reopen.rename"
        /\ \/ /\ CanRestore(i)
              /\ ws' = [ws EXCEPT ![i] = arc[i]]
              /\ arc' = [arc EXCEPT ![i] = NoDir]
              /\ Goto(p, "reopen.load") /\ UNCHANGED job
           \/ (~CanRestore(i) \/ MayFail(p)) /\ Return(p) /\ UNCHANGED <<ws, arc>>
        /\ UNCHANGED <<reg, base, head, scars>>

ReopenLoad(p) ==
    LET i == Id(p)
        ok == ws[i].there /\ HasMeta(ws[i])
    IN  /\ pc[p] = "reopen.load"
        /\ \/ /\ ok
              /\ job' = [job EXCEPT ![p].held = ws[i].meta,
                                    ![p].todo = Restorable(ws[i].meta)]
              /\ Goto(p, "reopen.add") /\ UNCHANGED <<ws, arc, scars>>
           \/ (~ok \/ MayFail(p)) /\ RenameBack(p) /\ Return(p)
        /\ UNCHANGED <<reg, base, head>>

(***************************************************************************)
(* Recreate one worktree.  The worktrees made before a failure stay in the *)
(* directory that goes back to archive/.                                   *)
(***************************************************************************)
ReopenAddTree(p) ==
    LET i == Id(p)
        ok(r) == job[p].held.restore[r] = "full" /\ CanAddTree(i, r)
    IN  /\ pc[p] = "reopen.add"
        /\ \E r \in job[p].todo :
            \/ /\ ok(r)
               /\ AddTree(i, r)
               /\ job' = [job EXCEPT ![p].todo = @ \ {r}]
               /\ UNCHANGED <<pc, arc, scars>>
            \/ /\ ~ok(r) \/ MayFail(p)
               /\ RenameBack(p) /\ Return(p) /\ UNCHANGED reg
        /\ UNCHANGED <<base, head>>

ReopenWriteMeta(p) ==
    LET i == Id(p)
        m == [job[p].held EXCEPT !.status = "active"]
    IN  /\ pc[p] = "reopen.add" /\ job[p].todo = {}
        /\ \/ /\ ws[i].there
              /\ ws' = [ws EXCEPT ![i] = WithMeta(@, m)]
              /\ Goto(p, "reopen.base") /\ UNCHANGED <<arc, job, scars>>
           \/ (~ws[i].there \/ MayFail(p)) /\ RenameBack(p) /\ Return(p)
        /\ UNCHANGED <<reg, base, head>>

ReopenBaseline(p) ==
    LET i == Id(p)
    IN  /\ pc[p] = "reopen.base"
        /\ \/ ws[i].there /\ base' = base \cup {i}
           \/ (~ws[i].there \/ MayFail(p)) /\ UNCHANGED base
        /\ IF job[p].opt THEN Goto(p, "reopen.post") /\ UNCHANGED job
                         ELSE Return(p)
        /\ UNCHANGED <<ws, arc, reg, head, scars>>

ReopenCommit(p) ==
    LET i == Id(p)
        ok == Known(ws[i], head[i].ws) /\ Known(arc[i], head[i].arc)
    IN  /\ pc[p] = "reopen.post"
        /\ \/ ok /\ CommitBoth(i)
           \/ (~ok \/ MayFail(p)) /\ UNCHANGED head
        /\ Return(p)
        /\ UNCHANGED <<ws, arc, reg, base, scars>>
-----------------------------------------------------------------------------
(***************************************************************************)
(* ws purge                                                                *)
(***************************************************************************)

(***************************************************************************)
(* Faulty variant: the guard is not looked at.                             *)
(***************************************************************************)
PurgeCheckUnguarded(p) ==
    /\ pc[p] = "purge.check"
    /\ \/ /\ CanRestore(Id(p)) /\ HasMeta(arc[Id(p)])
          /\ Goto(p, IF job[p].opt THEN "purge.pre" ELSE "purge.list")
          /\ UNCHANGED job
       \/ Return(p)
    /\ UNCHANGED disk

(***************************************************************************)
(* Archived, guard off, and the user agrees.                               *)
(***************************************************************************)
PurgeCheck(p) ==
    LET i == Id(p)
        ok == /\ CanRestore(i)
              /\ HasMeta(arc[i]) /\ ~arc[i].meta.guard
    IN  /\ pc[p] = "purge.check"
        /\ \/ /\ ok
              /\ Goto(p, IF job[p].opt THEN "purge.pre" ELSE "purge.list")
              /\ UNCHANGED job
           \/ Return(p)
        /\ UNCHANGED disk

(***************************************************************************)
(* Faulty variant: the archive is not committed before it is deleted.      *)
(***************************************************************************)
PurgePreCommitSkipped(p) ==
    /\ pc[p] = "purge.pre"
    /\ Goto(p, "purge.list")
    /\ UNCHANGED <<ws, arc, reg, base, head, job, scars>>

PurgePreCommit(p) ==
    LET i == Id(p)
    IN  /\ pc[p] = "purge.pre"
        /\ \/ /\ Known(arc[i], head[i].arc)
              /\ head' = [head EXCEPT ![i].arc = Snap(arc[i])]
              /\ Goto(p, "purge.list") /\ UNCHANGED job
           \/ /\ ~Known(arc[i], head[i].arc) \/ MayFail(p)
              /\ Return(p) /\ UNCHANGED head
        /\ UNCHANGED <<ws, arc, reg, base, scars>>

PurgeList(p) ==
    /\ pc[p] = "purge.list"
    /\ \/ /\ job' = [job EXCEPT ![p].todo = Bound(ws[Id(p)])]
          /\ Goto(p, "purge.rm")
       \/ MayFail(p) /\ Return(p)
    /\ UNCHANGED disk

PurgeRemoveTree(p) ==
    /\ pc[p] = "purge.rm"
    /\ \E r \in job[p].todo :
        \/ /\ RemoveTree(Id(p), r)
           /\ job' = [job EXCEPT ![p].todo = @ \ {r}]
           /\ UNCHANGED pc
        \/ MayFail(p) /\ Return(p) /\ UNCHANGED <<ws, reg>>
    /\ UNCHANGED <<arc, base, head, scars>>

PurgeDeleteWs(p) ==
    /\ pc[p] = "purge.rm" /\ job[p].todo = {}
    /\ \/ /\ ws' = [ws EXCEPT ![Id(p)] = NoDir]
          /\ Goto(p, "purge.delarc") /\ UNCHANGED job
       \/ MayFail(p) /\ Return(p) /\ UNCHANGED ws
    /\ UNCHANGED <<arc, reg, base, head, scars>>

(***************************************************************************)
(* os.RemoveAll deletes file by file: at some point the metadata is gone   *)
(* and the directory is not.  It gives up on a directory that another      *)
(* process fills again.                                                    *)
(***************************************************************************)
PurgeDeleteFiles(p) ==
    /\ pc[p] = "purge.delarc"
    /\ \/ /\ arc' = [arc EXCEPT ![Id(p)] = WithMeta(@, NoMeta)]
          /\ Goto(p, "purge.rmdir") /\ UNCHANGED job
       \/ MayFail(p) /\ Return(p) /\ UNCHANGED arc
    /\ UNCHANGED <<ws, reg, base, head, scars>>

PurgeDeleteArc(p) ==
    /\ pc[p] = "purge.rmdir"
    /\ \/ /\ arc' = [arc EXCEPT ![Id(p)] = NoDir]
          /\ Goto(p, "purge.base") /\ UNCHANGED job
       \/ /\ HasMeta(arc[Id(p)]) \/ MayFail(p)
          /\ Return(p) /\ UNCHANGED arc
    /\ UNCHANGED <<ws, reg, base, head, scars>>

PurgeBaseline(p) ==
    /\ pc[p] = "purge.base"
    /\ \/ base' = base \ {Id(p)}
       \/ MayFail(p) /\ UNCHANGED base
    /\ IF job[p].opt THEN Goto(p, "purge.post") /\ UNCHANGED job ELSE Return(p)
    /\ UNCHANGED <<ws, arc, reg, head, scars>>

PurgeCommit(p) ==
    LET i == Id(p)
        ok == Known(arc[i], head[i].arc)
    IN  /\ pc[p] = "purge.post"
        /\ \/ ok /\ CommitBoth(i)
           \/ (~ok \/ MayFail(p)) /\ UNCHANGED head
        /\ Return(p)
        /\ UNCHANGED <<ws, arc, reg, base, scars>>
-----------------------------------------------------------------------------
(***************************************************************************)
(* ws add-repo, once it holds the lock of the workspace                    *)
(***************************************************************************)

(***************************************************************************)
(* Faulty variant: no lock.                                                *)
(***************************************************************************)
AddRepoUnlocked(i, p) == FALSE

(***************************************************************************)
(* Another add-repo has the lock of the workspace.                         *)
(***************************************************************************)
AddRepoRunning(i, p) ==
    \E q \in Proc \ {p} :
        Id(q) = i /\ pc[q] \in {"add.apply", "add.write", "add.rollback"}

(***************************************************************************)
(* Choose repositories, check them all before anything is changed.  The    *)
(* lock file does not always keep a second command out (see Mutex of       *)
(* AddRepoLock): the command may go on although another has the lock.      *)
(***************************************************************************)
AddPlan(p) ==
    LET i == Id(p)
    IN  /\ pc[p] = "add.plan"
        /\ \/ /\ CanArchive(i)
              /\ scars' = IF AddRepoRunning(i, p) THEN Scarred(i, "trees")
                          ELSE scars
              /\ \E s \in SUBSET (Repo \ Bound(ws[i])) :
                  /\ s # {}
                  /\ \A r \in s : CanAddTree(i, r)
                  /\ job' = [job EXCEPT ![p].todo = s]
              /\ Goto(p, "add.apply")
           \/ Return(p) /\ UNCHANGED scars
        /\ UNCHANGED <<ws, arc, reg, base, head>>

AddTreeOf(p) ==
    LET i == Id(p)
    IN  /\ pc[p] = "add.apply"
        /\ \E r \in job[p].todo :
            \/ /\ CanAddTree(i, r)
               /\ AddTree(i, r)
               /\ job' = [job EXCEPT ![p].todo = @ \ {r}, ![p].done = @ \cup {r}]
               /\ UNCHANGED pc
            \/ /\ ~CanAddTree(i, r) \/ MayFail(p)
               /\ Goto(p, "add.rollback") /\ UNCHANGED <<ws, reg, job>>
        /\ UNCHANGED <<arc, base, head, scars>>

AddLoadMeta(p) ==
    LET d == ws[Id(p)]
    IN  /\ pc[p] = "add.apply" /\ job[p].todo = {}
        /\ \/ /\ HasMeta(d)
              /\ job' = [job EXCEPT ![p].held = d.meta]
              /\ Goto(p, "add.write")
           \/ /\ ~HasMeta(d) \/ MayFail(p)
              /\ Goto(p, "add.rollback") /\ UNCHANGED job
        /\ UNCHANGED disk

AddWriteMeta(p) ==
    LET i == Id(p)
        m == [job[p].held EXCEPT
                !.restore = [r \in Repo |->
                    IF r \in job[p].done THEN "full" ELSE @[r]]]
    IN  /\ pc[p] = "add.write"
        /\ \/ /\ ws[i].there
              /\ ws' = [ws EXCEPT ![i] = WithMeta(@, m)]
              /\ Return(p)
           \/ /\ ~ws[i].there \/ MayFail(p)
              /\ Goto(p, "add.rollback") /\ UNCHANGED <<ws, job>>
        /\ UNCHANGED <<arc, reg, base, head, scars>>

(***************************************************************************)
(* The rollback of add-repo: git worktree remove and then os.RemoveAll of  *)
(* the directory, whose errors are both ignored.                           *)
(***************************************************************************)
AddRollback(p) ==
    LET i == Id(p)
    IN  /\ pc[p] = "add.rollback"
        /\ \/ \E r \in job[p].done :
                /\ \/ /\ ws' = [ws EXCEPT ![i] = WithoutTree(@, r)]
                      /\ \/ reg' = reg \ {<<r, i>>}
                         \/ MayFail(p) /\ UNCHANGED reg
                      /\ UNCHANGED scars
                   \/ /\ MayFail(p)
                      /\ scars' = Scarred(i, "trees")
                      /\ UNCHANGED <<ws, reg>>
                /\ job' = [job EXCEPT ![p].done = @ \ {r}]
                /\ UNCHANGED pc
           \/ job[p].done = {} /\ Return(p) /\ UNCHANGED <<ws, reg, scars>>
        /\ UNCHANGED <<arc, base, head>>
-----------------------------------------------------------------------------
(***************************************************************************)
(* ws remove-repo                                                          *)
(***************************************************************************)
RemovePlan(p) ==
    LET i == Id(p)
    IN  /\ pc[p] = "remove.plan"
        /\ \/ /\ CanArchive(i)
              /\ \E s \in SUBSET Bound(ws[i]) :
                  /\ s # {}
                  /\ job' = [job EXCEPT ![p].todo = s, ![p].done = s]
              /\ Goto(p, "remove.rm")
           \/ Return(p)
        /\ UNCHANGED disk

RemoveTreeOf(p) ==
    /\ pc[p] = "remove.rm"
    /\ \E r \in job[p].todo :
        \/ /\ RemoveTree(Id(p), r)
           /\ job' = [job EXCEPT ![p].todo = @ \ {r}]
           /\ UNCHANGED pc
        \/ MayFail(p) /\ Return(p) /\ UNCHANGED <<ws, reg>>
    /\ UNCHANGED <<arc, base, head, scars>>

RemoveLoadMeta(p) ==
    LET d == ws[Id(p)]
    IN  /\ pc[p] = "remove.rm" /\ job[p].todo = {}
        /\ \/ /\ HasMeta(d)
              /\ job' = [job EXCEPT ![p].held = d.meta]
              /\ Goto(p, "remove.write")
           \/ (~HasMeta(d) \/ MayFail(p)) /\ Return(p)
        /\ UNCHANGED disk

RemoveWriteMeta(p) ==
    LET i == Id(p)
        m == [job[p].held EXCEPT
                !.restore = [r \in Repo |->
                    IF r \in job[p].done THEN "absent" ELSE @[r]]]
    IN  /\ pc[p] = "remove.write"
        /\ \/ ws[i].there /\ ws' = [ws EXCEPT ![i] = WithMeta(@, m)]
           \/ (~ws[i].there \/ MayFail(p)) /\ UNCHANGED ws
        /\ Return(p)
        /\ UNCHANGED <<arc, reg, base, head, scars>>
-----------------------------------------------------------------------------
CreateStep(p) ==
    \/ CreateStat(p) \/ CreateMkdir(p) \/ CreateFill(p)
    \/ CreateBaseline(p) \/ CreateCommit(p)

GuardStep(p) == GuardLoad(p) \/ GuardWrite(p)

CloseStep(p) ==
    \/ CloseRisk(p) \/ CloseScan(p) \/ ClosePreCommit(p)
    \/ CloseRemoveTree(p) \/ CloseWriteMeta(p) \/ CloseRename(p)
    \/ CloseBaseline(p) \/ CloseCommit(p)

ReopenStep(p) ==
    \/ ReopenStat(p) \/ ReopenPreCommit(p) \/ ReopenRename(p)
    \/ ReopenLoad(p) \/ ReopenAddTree(p) \/ ReopenWriteMeta(p)
    \/ ReopenBaseline(p) \/ ReopenCommit(p)

PurgeStep(p) ==
    \/ PurgeCheck(p) \/ PurgePreCommit(p) \/ PurgeList(p)
    \/ PurgeRemoveTree(p) \/ PurgeDeleteWs(p)
    \/ PurgeDeleteFiles(p) \/ PurgeDeleteArc(p)
    \/ PurgeBaseline(p) \/ PurgeCommit(p)

AddRepoStep(p) ==
    \/ AddPlan(p) \/ AddTreeOf(p) \/ AddLoadMeta(p)
    \/ AddWriteMeta(p) \/ AddRollback(p)

RemoveRepoStep(p) ==
    \/ RemovePlan(p) \/ RemoveTreeOf(p)
    \/ RemoveLoadMeta(p) \/ RemoveWriteMeta(p)

(***************************************************************************)
(* A step of the command that process p runs.                              *)
(***************************************************************************)
Step(p) ==
    \/ CreateStep(p) \/ GuardStep(p) \/ CloseStep(p) \/ ReopenStep(p)
    \/ PurgeStep(p) \/ AddRepoStep(p) \/ RemoveRepoStep(p)

Next ==
    \/ \E p \in Proc : Start(p) \/ Step(p) \/ Crash(p)
    \/ \E i \in Ws : EditNote(i) \/ EditTree(i)

Spec == Init /\ [][Next]_vars
-----------------------------------------------------------------------------
(***************************************************************************)
(* Properties                                                              *)
(***************************************************************************)

(***************************************************************************)
(* The variables have the values the code can give them, whatever the      *)
(* commands do to each other: a directory that is gone has no contents     *)
(* left, and only a worktree can hold work or be off its branch.           *)
(***************************************************************************)
WellFormed(d) ==
    /\ ~d.there => d.trees = {} /\ ~HasMeta(d)
    /\ d.dirty \subseteq d.trees
    /\ d.loose \subseteq d.trees

TypeOK ==
    /\ ws \in [Ws -> Dir]
    /\ arc \in [Ws -> Dir]
    /\ \A i \in Ws : WellFormed(ws[i]) /\ WellFormed(arc[i])
    /\ reg \in SUBSET (Repo \X Ws)
    /\ base \in SUBSET Ws
    /\ head \in [Ws -> [ws : Snapshot, arc : Snapshot]]
    /\ pc \in [Proc -> Labels]
    /\ job \in [Proc -> Job]
    /\ scars \in [Ws -> SUBSET Scar]

(***************************************************************************)
(* No command is at work on workspace i.                                   *)
(***************************************************************************)
AtRest(i) == \A p \in Proc : pc[p] # "idle" => Id(p) # i

(***************************************************************************)
(* A workspace is never both under workspaces/ and under archive/, however *)
(* often a call fails or a process dies: every command refuses a workspace *)
(* that is in both places, so such a workspace could not be used again.    *)
(***************************************************************************)
Exclusive == \A i \in Ws : ~(ws[i].there /\ arc[i].there)

(***************************************************************************)
(* The refinement mapping to the abstract specification: a directory       *)
(* without metadata is not a workspace.                                    *)
(***************************************************************************)
StatusOf(i) ==
    IF HasMeta(ws[i]) THEN "active"
    ELSE IF HasMeta(arc[i]) THEN "archived" ELSE "none"

GuardOf(i) ==
    IF HasMeta(ws[i]) THEN ws[i].meta.guard
    ELSE IF HasMeta(arc[i]) THEN arc[i].meta.guard ELSE TRUE

Abstract == INSTANCE Lifecycle WITH
                status <- [i \in Ws |-> StatusOf(i)],
                guard <- [i \in Ws |-> GuardOf(i)]

(***************************************************************************)
(* The commands, cut into calls that may fail and that a dying process may *)
(* leave undone, implement the life cycle of Lifecycle: only a workspace   *)
(* that is archived with its guard off is purged, and close and reopen     *)
(* carry the guard over.                                                   *)
(***************************************************************************)
RefinesLifecycle == Abstract!Spec

(***************************************************************************)
(* The repositories of a workspace, wherever it is, and those that a       *)
(* command is entitled to let go of: the ones add-repo is rolling back,    *)
(* the ones chosen for remove-repo, all of them for purge.                 *)
(***************************************************************************)
Bindings(i) == Bound(ws[i]) \cup Bound(arc[i])

Released(i) ==
    UNION {IF job[p].cmd = "purge" THEN Repo
           ELSE IF job[p].cmd \in {"add-repo", "remove-repo"} THEN job[p].done
           ELSE {} : p \in {q \in Proc : pc[q] # "idle" /\ Id(q) = i}}

(***************************************************************************)
(* No failure of close or reopen, and no death at any of their calls,      *)
(* makes a workspace forget a repository: close deletes worktrees one by   *)
(* one before it writes repos_restore, and whatever stops it in between    *)
(* leaves each of them in one of the two.  The exceptions are worktrees    *)
(* that never got their entry: those of two add-repos that the lock did    *)
(* not keep apart, of an add-repo that died, and of an add-repo whose      *)
(* rollback failed to delete them.                                         *)
(***************************************************************************)
BindingsKept ==
    [][\A i \in Ws : "trees" \notin scars[i] =>
            Bindings(i) \subseteq Bindings(i)' \cup Released(i)]_vars

(***************************************************************************)
(* What close archives can be reopened: every entry of the archive is one  *)
(* that reopen accepts, no worktree is in its way, and git has none of its *)
(* worktrees on record.  Create, add-repo, remove-repo, close and reopen   *)
(* may each have failed or died half-way before, and so may rollbacks.     *)
(* The exceptions: a worktree that was closed with a detached HEAD, whose  *)
(* entry names no branch, and the worktrees without an entry that          *)
(* BindingsKept excepts.                                                   *)
(***************************************************************************)
ArchivedReopenable ==
    [][\A p \in Proc :
        LET i == Id(p)
            a == arc'[i]
        IN  /\ pc[p] = "close.rename" /\ pc'[p] = "close.base"
            /\ "trees" \notin scars[i]
            => /\ a.trees = {}
               /\ \A r \in Restorable(a.meta) :
                    /\ a.meta.restore[r] \in {"full", "headless"}
                    /\ <<r, i>> \notin reg']_vars

(***************************************************************************)
(* Every worktree of a workspace has its entry in repos_restore, also when *)
(* add-repos run at once and fail or roll back, and when a purge meets the *)
(* workspace that a reopen restores.  The exceptions are those of          *)
(* BindingsKept: the lock let a second add-repo in, an add-repo died, or   *)
(* its rollback could not delete a worktree.                               *)
(***************************************************************************)
TreesHaveEntries ==
    \A i \in Ws : AtRest(i) /\ HasMeta(ws[i]) /\ "trees" \notin scars[i] =>
        \A r \in ws[i].trees : ws[i].meta.restore[r] = "full"

(***************************************************************************)
(* In commit mode purge destroys nothing that the last commit of the root  *)
(* does not hold.                                                          *)
(***************************************************************************)
PurgeRecoverable ==
    [][\A p \in Proc :
        LET i == Id(p)
        IN  /\ pc[p] = "purge.delarc" /\ job[p].opt
            /\ HasMeta(arc[i]) /\ arc[i]' # arc[i]
            => head[i].arc = Snap(arc[i])]_vars
-----------------------------------------------------------------------------
(***************************************************************************)
(* What the documents say and the commands do not always do                *)
(***************************************************************************)

(***************************************************************************)
(* docs/spec/commands/ws/close.md: the contents of a workspace "must be    *)
(* captured in the archive commit".  When a close in commit mode ends, the *)
(* last commit holds the archive as it is on disk.                         *)
(***************************************************************************)
CloseIsCommitted ==
    [][\A p \in Proc :
        pc[p] = "close.post" /\ pc[p]' = "idle"
        => head'[Id(p)].arc = Snap(arc[Id(p)])]_vars

(***************************************************************************)
(* docs/spec/commands/ws/close.md: "archives should not contain repos".    *)
(***************************************************************************)
ArchivesWithoutRepos ==
    \A i \in Ws : AtRest(i) => arc[i].trees = {}
=============================================================================
