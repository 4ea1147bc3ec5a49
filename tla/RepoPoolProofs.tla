--------------------------- MODULE RepoPoolProofs ---------------------------
(***************************************************************************)
(* Context names stay unique, and repo gc deletes nothing that is in use,  *)
(* for any sets of roots, names, workspaces, repositories and processes.   *)
(* NamesUnique is not inductive: what a command is about to write has to   *)
(* be free of conflicts as well.                                           *)
(***************************************************************************)
EXTENDS RepoPool, TLAPS

CallLabel ==
    {"idle", "touch.load", "touch.write", "set.load", "set.write",
     "rename.load", "rename.write", "rm.check", "rm.load", "rm.write",
     "resolve", "select", "add-repo.meta", "remove-repo.meta", "reopen.trees",
     "gc.registry", "gc.scan", "gc.inspect", "gc.delete"}

Command == RegistryCommands \cup PoolCommands \cup {"none"}

Label == CallLabel \cup Command

(***************************************************************************)
(* A job has the arguments of its command.                                 *)
(***************************************************************************)
JobType ==
    {j \in [cmd : Command, root : Root,
            name : Name \cup {"none"}, to : Name \cup {"none"},
            snap : Registry] :
        /\ j.cmd \in RegistryCommands \ {"touch"} => j.name \in Name
        /\ j.cmd = "context-rename" => j.to \in Name}

(***************************************************************************)
(* Only commands that are given a name reach the calls that write one.     *)
(***************************************************************************)
Fits(l, c) ==
    /\ l = "set.load" => c \in {"init", "context-create", "context-create-use"}
    /\ l = "rename.load" => c = "context-rename"

RegistryTypes ==
    /\ file \in Registry
    /\ pc \in [Proc -> Label]
    /\ job \in [Proc -> JobType]
    /\ \A p \in Proc : Fits(pc[p], job[p].cmd)

(***************************************************************************)
(* The registry on disk and every registry in memory give a name to at     *)
(* most one root.                                                          *)
(***************************************************************************)
NamesInv ==
    /\ RegistryTypes
    /\ UniqueNames(file)
    /\ \A p \in Proc : UniqueNames(job[p].snap)

(***************************************************************************)
(* What touch, set, rename and remove make of a registry without conflicts *)
(* has none.                                                               *)
(***************************************************************************)
LEMMA TouchedUnique ==
    ASSUME NEW f \in Registry, UniqueNames(f), NEW r \in Root
    PROVE  Touched(f, r) \in Registry /\ UniqueNames(Touched(f, r))
  BY RegistryAssumption DEF Touched, UniqueNames, Registry

LEMMA SetNameUnique ==
    ASSUME NEW f \in Registry, UniqueNames(f), NEW r \in Root, NEW n \in Name,
           Named(f, n) \subseteq {r}
    PROVE  SetName(f, r, n) \in Registry /\ UniqueNames(SetName(f, r, n))
  BY DEF SetName, UniqueNames, Named, Registry

LEMMA RenamedUnique ==
    ASSUME NEW f \in Registry, UniqueNames(f), NEW n \in Name, NEW m \in Name,
           Named(f, m) = {}
    PROVE  Renamed(f, n, m) \in Registry /\ UniqueNames(Renamed(f, n, m))
  BY DEF Renamed, UniqueNames, Named, Registry

LEMMA RemovedUnique ==
    ASSUME NEW f \in Registry, UniqueNames(f), NEW n
    PROVE  Removed(f, n) \in Registry /\ UniqueNames(Removed(f, n))
  BY RegistryAssumption DEF Removed, UniqueNames, Registry

LEMMA NoJobType ==
    NoJob \in JobType /\ UniqueNames(NoJob.snap) /\ NoJob.cmd = "none"
  BY RegistryAssumption
     DEF NoJob, JobType, Command, UniqueNames, Registry, RegistryCommands

(***************************************************************************)
(* The ways a step leaves the invariant alone: it writes what a process    *)
(* has prepared or nothing, and it changes the job of one process only.    *)
(***************************************************************************)
LEMMA NamesFrame ==
    ASSUME NamesInv, NEW p \in Proc, NEW j \in JobType, UniqueNames(j.snap),
           NEW l \in Label, Fits(l, j.cmd),
           job' = [job EXCEPT ![p] = j],
           Goto(p, l),
           file' = file \/ file' = job[p].snap
    PROVE  NamesInv'
  <1>1. file' \in Registry /\ UniqueNames(file')
    BY DEF NamesInv, RegistryTypes, JobType
  <1>2. job' \in [Proc -> JobType]
    BY DEF NamesInv, RegistryTypes
  <1>3. pc' \in [Proc -> Label]
    BY DEF NamesInv, RegistryTypes, Goto
  <1>4. \A q \in Proc : /\ job'[q] = IF q = p THEN j ELSE job[q]
                        /\ pc'[q] = IF q = p THEN l ELSE pc[q]
    BY DEF NamesInv, RegistryTypes, Goto
  <1>5. \A q \in Proc : UniqueNames(job'[q].snap)
    BY <1>4 DEF NamesInv
  <1>6. \A q \in Proc : Fits(pc'[q], job'[q].cmd)
    BY <1>4 DEF NamesInv, RegistryTypes
  <1> QED BY <1>1, <1>2, <1>3, <1>5, <1>6
      DEF NamesInv, RegistryTypes, UniqueNames, Fits

(***************************************************************************)
(* A step that loads the registry and prepares f.                          *)
(***************************************************************************)
LEMMA PrepareKeeps ==
    ASSUME NamesInv, NEW p \in Proc, NEW f \in Registry, UniqueNames(f),
           NEW l \in {"touch.write", "set.write", "rename.write", "rm.write"},
           Prepare(p, f, l)
    PROVE  NamesInv'
  <1> DEFINE j == [job[p] EXCEPT !.snap = f]
  <1>1. j \in JobType /\ j.snap = f
    BY DEF NamesInv, RegistryTypes, JobType
  <1>2. job' = [job EXCEPT ![p] = j] /\ file' = file /\ Goto(p, l)
    BY DEF Prepare, NamesInv, RegistryTypes
  <1>3. l \in Label /\ Fits(l, j.cmd)
    BY DEF Fits, Label, CallLabel
  <1> HIDE DEF j
  <1> QED BY <1>1, <1>2, <1>3, NamesFrame

(***************************************************************************)
(* The end of a command, and the steps that leave registry and job alone.  *)
(***************************************************************************)
LEMMA ReturnKeeps ==
    ASSUME NamesInv, NEW p \in Proc, Return(p),
           file' = file \/ file' = job[p].snap
    PROVE  NamesInv'
  <1>1. "idle" \in Label /\ Fits("idle", NoJob.cmd)
    BY DEF Fits, Label, CallLabel
  <1> QED BY <1>1, NoJobType, NamesFrame DEF Return

LEMMA GotoKeeps ==
    ASSUME NamesInv, NEW p \in Proc,
           NEW l \in Label \ {"set.load", "rename.load"}, Goto(p, l),
           UNCHANGED <<file, job>>
    PROVE  NamesInv'
  <1>1. Fits(l, job[p].cmd)
    BY DEF Fits, Label, CallLabel
  <1>2. job[p] \in JobType /\ job' = [job EXCEPT ![p] = job[p]]
    BY DEF NamesInv, RegistryTypes
  <1> QED BY <1>1, <1>2, NamesFrame DEF NamesInv

LEMMA IdleKeeps ==
    ASSUME NamesInv, UNCHANGED <<file, pc, job>>
    PROVE  NamesInv'
  BY DEF NamesInv, RegistryTypes, UniqueNames, Fits

LEMMA RegistryStartKeeps ==
    ASSUME NamesInv, NEW p \in Proc, RegistryStart(p)
    PROVE  NamesInv'
  <1>1. PICK c \in Commands[p] \cap RegistryCommands,
            r \in Root, n \in Name \cup {"none"}, m \in Name \cup {"none"} :
        /\ Goto(p, FirstCall(c))
        /\ job' = [job EXCEPT ![p] =
               [NoJob EXCEPT !.cmd = c, !.root = r, !.name = n, !.to = m]]
        /\ n \in NameArg(c) /\ m \in ToArg(c)
    <2>1. NoJob.root \in Root /\ NoJob.name = "none"
      BY RegistryAssumption DEF NoJob
    <2>2. \A c : RootArg(c) \subseteq Root
      BY <2>1 DEF RootArg
    <2>3. \A c : NameArg(c) \subseteq Name \cup {"none"}
      BY <2>1 DEF NameArg
    <2>4. \A c : ToArg(c) \subseteq Name \cup {"none"}
      BY <2>1 DEF ToArg
    <2> QED BY <2>2, <2>3, <2>4 DEF RegistryStart
  <1> DEFINE j == [NoJob EXCEPT !.cmd = c, !.root = r, !.name = n, !.to = m]
  <1>2. j \in JobType /\ j.snap = NoJob.snap /\ j.cmd = c
    BY <1>1, NoJobType DEF JobType, Command, NameArg, ToArg
  <1>3. FirstCall(c) \in Label /\ Fits(FirstCall(c), c)
    BY DEF FirstCall, Fits, Label, CallLabel, RegistryCommands
  <1>4. job' = [job EXCEPT ![p] = j] /\ file' = file
    BY <1>1 DEF RegistryStart
  <1> HIDE DEF j
  <1> QED BY <1>1, <1>2, <1>3, <1>4, NoJobType, NamesFrame

LEMMA PoolStartKeeps ==
    ASSUME NamesInv, NEW p \in Proc, PoolStart(p)
    PROVE  NamesInv'
  <1>1. PICK c \in Commands[p] \cap PoolCommands, x \in Root :
        /\ Goto(p, IF c \in TouchingCommands THEN FirstCall(c) ELSE c)
        /\ job' = [job EXCEPT ![p] = [NoJob EXCEPT !.cmd = c, !.root = x]]
    <2>1. \A c : WsArg(c) \subseteq Ws
      BY PoolAssumption DEF NoTask, WsArg
    <2>2. \A c : \A w \in Ws : RootsFor(c, w) \subseteq Root
      BY PoolAssumption DEF RootsFor
    <2> QED BY <2>1, <2>2 DEF PoolStart
  <1> DEFINE j == [NoJob EXCEPT !.cmd = c, !.root = x]
             l == IF c \in TouchingCommands THEN FirstCall(c) ELSE c
  <1>2. c \notin RegistryCommands
    BY DEF PoolCommands, RegistryCommands
  <1>3. j \in JobType /\ j.snap = NoJob.snap /\ j.cmd = c
    BY <1>2, NoJobType DEF JobType, Command, RegistryCommands
  <1>4. l \in Label /\ Fits(l, c)
    BY DEF FirstCall, Fits, Label, CallLabel, Command, PoolCommands,
           TouchingCommands
  <1>5. job' = [job EXCEPT ![p] = j] /\ file' = file
    BY <1>1 DEF PoolStart
  <1> HIDE DEF j
  <1> QED BY <1>1, <1>3, <1>4, <1>5, NoJobType, NamesFrame

(***************************************************************************)
(* The calls on the registry.                                              *)
(***************************************************************************)
LEMMA RegistryStepKeeps ==
    ASSUME NamesInv, NEW p \in Proc, RegistryStep(p)
    PROVE  NamesInv'
  <1>1. /\ file \in Registry /\ UniqueNames(file)
        /\ job[p] \in JobType /\ UniqueNames(job[p].snap)
        /\ job[p].root \in Root
        /\ Fits(pc[p], job[p].cmd)
    BY DEF NamesInv, RegistryTypes, JobType
  <1>2. CASE TouchLoad(p)
    BY <1>1, <1>2, TouchedUnique, PrepareKeeps DEF TouchLoad
  <1>3. CASE SetLoad(p)
    <2>1. job[p].name \in Name
      BY <1>1, <1>3 DEF SetLoad, Fits, JobType, RegistryCommands
    <2> QED BY <1>1, <1>3, <2>1, SetNameUnique, PrepareKeeps DEF SetLoad
  <1>4. CASE RenameLoad(p)
    <2>1. job[p].name \in Name /\ job[p].to \in Name
      BY <1>1, <1>4 DEF RenameLoad, Fits, JobType, RegistryCommands
    <2> QED BY <1>1, <1>4, <2>1, RenamedUnique, PrepareKeeps DEF RenameLoad
  <1>5. CASE RemoveCheck(p)
    BY <1>5, GotoKeeps DEF RemoveCheck, Label, CallLabel
  <1>6. CASE RemoveLoad(p)
    BY <1>1, <1>6, RemovedUnique, PrepareKeeps DEF RemoveLoad
  <1>7. CASE WriteRegistry(p)
    <2> DEFINE l == After(job[p].cmd, pc[p])
               j == [job[p] EXCEPT !.snap = NoJob.snap]
    <2>1. CASE l = "idle"
      BY <1>7, <2>1, ReturnKeeps DEF WriteRegistry
    <2>2. CASE l # "idle"
      <3>1. j \in JobType /\ j.snap = NoJob.snap /\ j.cmd = job[p].cmd
        BY <1>1, NoJobType DEF JobType
      <3>2. /\ job' = [job EXCEPT ![p] = j] /\ file' = job[p].snap
            /\ Goto(p, l)
        BY <1>7, <2>2 DEF WriteRegistry, NamesInv, RegistryTypes
      <3>3. job[p].cmd \in Command
        BY <1>1 DEF JobType
      <3>4. l \in Label /\ Fits(l, job[p].cmd)
        BY <3>3 DEF After, Fits, Label, CallLabel, Command, RegistryCommands,
                    PoolCommands
      <3> HIDE DEF j, l
      <3> QED BY <3>1, <3>2, <3>4, NoJobType, NamesFrame
    <2> QED BY <2>1, <2>2
  <1>8. CASE Resolve(p)
    <2>1. PICK r \in Named(file, job[p].name) :
            job' = [job EXCEPT ![p].root = r]
      BY <1>8 DEF Resolve
    <2> DEFINE j == [job[p] EXCEPT !.root = r]
    <2>2. j \in JobType /\ j.snap = job[p].snap
      BY <1>1, <2>1 DEF JobType, Named
    <2>3. job' = [job EXCEPT ![p] = j] /\ file' = file /\ Goto(p, "select")
      BY <1>8, <2>1 DEF Resolve, NamesInv, RegistryTypes
    <2>4. "select" \in Label /\ Fits("select", j.cmd)
      BY DEF Fits, Label, CallLabel
    <2> HIDE DEF j
    <2> QED BY <1>1, <2>2, <2>3, <2>4, NamesFrame
  <1>9. CASE Select(p)
    BY <1>9, ReturnKeeps DEF Select
  <1> QED BY <1>2, <1>3, <1>4, <1>5, <1>6, <1>7, <1>8, <1>9 DEF RegistryStep

(***************************************************************************)
(* The calls on the pool and on workspaces do not write the registry.      *)
(***************************************************************************)
LEMMA PoolStepKeeps ==
    ASSUME NamesInv, NEW p \in Proc, PoolStep(p) \/ GcStep(p)
    PROVE  NamesInv'
  <1> DEFINE Labels == {"add-repo.meta", "remove-repo.meta", "reopen.trees",
                        "gc.registry", "gc.scan", "gc.inspect", "gc.delete"}
  <1>1. /\ file' = file
        /\ \/ Return(p)
           \/ job' = job /\ (pc' = pc \/ \E l \in Labels : Goto(p, l))
    <2>1. CASE PoolStep(p)
      BY <2>1 DEF PoolStep, RepoAdd, MakeWorkspace, AddTree, AddMeta,
         RemoveTree, RemoveMeta, CloseTree, Archive, Restore, ReopenTree,
         ReopenFails, ReopenDone, Purge, Finish
    <2>2. CASE GcStep(p)
      BY <2>2 DEF GcStep, GcList, GcRegistry, GcScanWorkspaces, GcScanArchive,
         GcScanned, GcInspect, GcSelect, GcDelete, Finish
    <2> QED BY <2>1, <2>2
  <1>2. Labels \subseteq Label \ {"set.load", "rename.load"}
    BY DEF Label, CallLabel
  <1> HIDE DEF Labels
  <1> QED BY <1>1, <1>2, ReturnKeeps, GotoKeeps, IdleKeeps

(***************************************************************************)
(* NamesInv is inductive.                                                  *)
(***************************************************************************)
THEOREM NamesInductive == Spec => []NamesInv
  <1>1. Init => NamesInv
    <2> SUFFICES ASSUME Init PROVE NamesInv
      OBVIOUS
    <2>1. file \in Registry /\ UniqueNames(file)
      BY RegistryAssumption DEF Init, RegistryInit, UniqueNames, Registry
    <2> QED BY <2>1, NoJobType
        DEF Init, RegistryInit, NamesInv, RegistryTypes, Fits, Label, CallLabel
  <1>2. NamesInv /\ [Next]_vars => NamesInv'
    <2> SUFFICES ASSUME NamesInv, [Next]_vars PROVE NamesInv'
      OBVIOUS
    <2>1. CASE UNCHANGED vars
      BY <2>1, IdleKeeps DEF vars
    <2>2. CASE Next
      <3>1. PICK p \in Proc : \/ PoolStart(p) \/ PoolStep(p) \/ GcStep(p)
                              \/ RegistryOnly(p) \/ Fails(p)
        BY <2>2 DEF Next
      <3>2. CASE RegistryOnly(p)
        BY <3>2, RegistryStartKeeps, RegistryStepKeeps DEF RegistryOnly
      <3>3. CASE Fails(p)
        BY <3>3, ReturnKeeps DEF Fails, Crash
      <3> QED BY <3>1, <3>2, <3>3, PoolStartKeeps, PoolStepKeeps
    <2> QED BY <2>1, <2>2
  <1> QED BY <1>1, <1>2, PTL DEF Spec

(***************************************************************************)
(* However the loads and renames of any number of commands interleave, no  *)
(* two roots get the same context name (stateregistry, SetContextName and  *)
(* RenameContextName).                                                     *)
(***************************************************************************)
THEOREM NamesUniqueCorrect == Spec => []NamesUnique
  <1>1. NamesInv => NamesUnique
    BY DEF NamesInv, NamesUnique
  <1> QED BY <1>1, NamesInductive, PTL
-----------------------------------------------------------------------------

(***************************************************************************)
(* repo gc.  GcKeepsInUse needs to know, at every call of gc, why nothing  *)
(* that is in use will be deleted: the scan has found it, or has yet to    *)
(* read the directory its workspace is under, or, of a worktree, git has   *)
(* it on record.                                                           *)
(***************************************************************************)
GcLabel == {"gc.scan", "gc.inspect", "gc.delete"}

Use == {"ref", "tree"} \X Ws \X Repo

PlaceTypes ==
    /\ pool \in SUBSET Repo
    /\ place \in [Ws -> {"none", "workspaces", "archive"}]
    /\ refs \in [Ws -> SUBSET Repo]

GcTypes ==
    /\ task \in [Proc -> Task]
    /\ used \in [Proc -> SUBSET Use]
    /\ PlaceTypes

(***************************************************************************)
(* A use in the history is one now.                                        *)
(***************************************************************************)
IsUse(u) ==
    IF u[1] = "ref" THEN place[u[2]] # "none" /\ u[3] \in refs[u[2]]
    ELSE u[3] \in trees[u[2]]

(***************************************************************************)
(* The scan has found the entry, or is still to read the directory its     *)
(* workspace is under.                                                     *)
(***************************************************************************)
ToBeFound(p, u) ==
    LET x == RootOf[u[2]]
    IN  \/ u[3] \in task[p].held
        \/ x \in task[p].roots /\ (task[p].at = x => place[u[2]] = "archive")
        \/ x = job[p].root /\ ~task[p].last

(***************************************************************************)
(* After the scan what is in use is found, and none of it is to be deleted.*)
(***************************************************************************)
Spared(p, u) ==
    /\ u[1] = "ref" => u[3] \in task[p].held
    /\ u[3] \notin task[p].todo

Fresh(t) == t.at = "none" /\ ~t.last /\ t.todo = {}

GcOf(p) ==
    /\ pc[p] \notin GcLabel \cup {"gc.registry"} => used[p] = {}
    /\ pc[p] \notin GcLabel => Fresh(task[p])
    /\ pc[p] = "gc.scan" =>
         task[p].todo = {} /\ task[p].at \in task[p].roots \cup {"none"}
    /\ pc[p] \in GcLabel => \A u \in used[p] : IsUse(u)
    /\ pc[p] = "gc.scan" => \A u \in used[p] : u[1] = "ref" => ToBeFound(p, u)
    /\ pc[p] \in {"gc.inspect", "gc.delete"} => \A u \in used[p] : Spared(p, u)

GcInv == GcTypes /\ \A p \in Proc : GcOf(p)
-----------------------------------------------------------------------------
LEMMA NoTaskType == NoTask \in Task /\ Fresh(NoTask)
BY PoolAssumption DEF NoTask, Task, Fresh

LEMMA RecordUses ==
    ASSUME GcTypes, Record
    PROVE  used' \in [Proc -> SUBSET Use]
<1>1. \A p \in Proc : InUse(p) \subseteq Use
  BY DEF InUse, Use
<1> QED
  BY <1>1 DEF GcTypes, Record

LEMMA UsesStay ==
    ASSUME GcTypes, Record, NEW p \in Proc, NEW u \in used'[p]
    PROVE  /\ u \in Use /\ StaysInUse(u)
           /\ pc[p] # "gc.registry" => u \in used[p]
           /\ pc[p] = "gc.registry" => u \in InUse(p)
BY RecordUses DEF Record, GcTypes

LEMMA UseStays ==
    ASSUME NEW u \in Use, IsUse(u), StaysInUse(u)
    PROVE  IsUse(u)' /\ (u[1] = "ref" => place'[u[2]] = place[u[2]])
BY DEF IsUse, StaysInUse

LEMMA OtherGc ==
    ASSUME GcTypes, Record, NEW p \in Proc, GcOf(p),
           pc'[p] = pc[p], job'[p] = job[p], task'[p] = task[p]
    PROVE  GcOf(p)'
<1>1. pc[p] \notin GcLabel \cup {"gc.registry"} => used'[p] = {}
  BY UsesStay DEF GcOf, GcLabel
<1>2. ASSUME NEW u \in used'[p], pc[p] \in GcLabel
      PROVE  /\ IsUse(u)'
             /\ pc[p] = "gc.scan" /\ u[1] = "ref" => ToBeFound(p, u)'
             /\ pc[p] \in {"gc.inspect", "gc.delete"} => Spared(p, u)'
  <2>1. u \in used[p] /\ StaysInUse(u) /\ u \in Use
    BY <1>2, UsesStay DEF GcLabel
  <2>2. IsUse(u)' /\ (u[1] = "ref" => place'[u[2]] = place[u[2]])
    BY <1>2, <2>1, UseStays DEF GcOf
  <2>3. pc[p] = "gc.scan" /\ u[1] = "ref" => ToBeFound(p, u)'
    BY <2>1, <2>2 DEF GcOf, ToBeFound
  <2>4. pc[p] \in {"gc.inspect", "gc.delete"} => Spared(p, u)'
    BY <2>1 DEF GcOf, Spared
  <2> QED
    BY <2>2, <2>3, <2>4
<1> QED
  BY <1>1, <1>2 DEF GcOf, GcLabel, Fresh

LEMMA OutsideGc ==
    ASSUME GcTypes, Record, NEW p \in Proc, GcOf(p),
           Fresh(task'[p]), pc'[p] \notin GcLabel,
           pc'[p] = "idle" \/ pc[p] \notin GcLabel \cup {"gc.registry"}
    PROVE  GcOf(p)'
<1>1. used'[p] = {}
  BY UsesStay DEF Record, GcOf
<1> QED
  BY <1>1 DEF GcOf, GcLabel, Fresh

LEMMA GcRegistryGc ==
    ASSUME NamesInv, GcTypes, Record, NEW p \in Proc, GcOf(p), GcRegistry(p)
    PROVE  GcOf(p)'
<1>1. /\ pc[p] = "gc.registry" /\ pc'[p] = "gc.scan" /\ job' = job
      /\ task'[p] = [task[p] EXCEPT !.roots = Known(file)]
  BY DEF GcRegistry, Goto, NamesInv, RegistryTypes, GcTypes
<1>2. task'[p].roots = Known(file) /\ Fresh(task'[p])
  BY <1>1 DEF GcOf, GcLabel, Fresh, GcTypes, Task
<1>3. ASSUME NEW u \in used'[p]
      PROVE  IsUse(u)' /\ (u[1] = "ref" => ToBeFound(p, u)')
  <2>1. u \in Use /\ StaysInUse(u) /\ u \in InUse(p)
    BY <1>1, <1>3, UsesStay
  <2>2. IsUse(u) /\ (u[1] = "ref" => RootOf[u[2]] \in Known(file) \cup {job[p].root})
    BY <2>1 DEF IsUse, InUse
  <2>3. IsUse(u)'
    BY <2>1, <2>2, UseStays
  <2>4. u[1] = "ref" => RootOf[u[2]] \in Root
    BY <2>1, PoolAssumption DEF Use
  <2>5. ASSUME u[1] = "ref" PROVE ToBeFound(p, u)'
    BY <1>1, <1>2, <2>2, <2>4, <2>5, RegistryAssumption DEF ToBeFound, Fresh
  <2> QED
    BY <2>3, <2>5
<1> QED
  BY <1>1, <1>2, <1>3 DEF GcOf, GcLabel, Fresh

LEMMA GcScanWorkspacesGc ==
    ASSUME NamesInv, GcTypes, Record, NEW p \in Proc, GcOf(p), GcScanWorkspaces(p)
    PROVE  GcOf(p)'
<1>1. /\ pc[p] = "gc.scan" /\ pc' = pc /\ job' = job /\ place' = place /\ task[p].at = "none"
  BY DEF GcScanWorkspaces, poolVars
<1>2. PICK x \in task[p].roots :
        /\ task'[p] = [task[p] EXCEPT !.at = x,
                         !.held = @ \cup RefsUnder(x, "workspaces")]
  BY DEF GcScanWorkspaces, GcTypes
<1>3. /\ task'[p].at = x /\ task'[p].roots = task[p].roots
      /\ task'[p].held = task[p].held \cup RefsUnder(x, "workspaces")
      /\ task'[p].todo = task[p].todo /\ task'[p].last = task[p].last
  BY <1>2 DEF GcTypes, Task
<1>4. ASSUME NEW u \in used'[p]
      PROVE  IsUse(u)' /\ (u[1] = "ref" => ToBeFound(p, u)')
  <2>1. u \in Use /\ StaysInUse(u) /\ u \in used[p]
    BY <1>1, <1>4, UsesStay
  <2>2. IsUse(u) /\ IsUse(u)' /\ (u[1] = "ref" => ToBeFound(p, u))
    BY <1>1, <2>1, UseStays DEF GcOf, GcLabel
  <2>3. ASSUME u[1] = "ref" PROVE ToBeFound(p, u)'
    <3>1. u[2] \in Ws /\ place[u[2]] \in {"workspaces", "archive"} /\ u[3] \in refs[u[2]]
      BY <2>1, <2>2, <2>3 DEF IsUse, Use, GcTypes, PlaceTypes
    <3>2. CASE RootOf[u[2]] = x /\ place[u[2]] = "workspaces"
      <4>1. u[3] \in RefsUnder(x, "workspaces")
        BY <3>1, <3>2 DEF RefsUnder, Under
      <4> QED
        BY <4>1, <1>3 DEF ToBeFound
    <3>3. CASE RootOf[u[2]] # x \/ place[u[2]] = "archive"
      BY <1>1, <1>3, <2>2, <2>3, <3>3 DEF ToBeFound
    <3> QED
      BY <3>1, <3>2, <3>3
  <2> QED
    BY <2>2, <2>3
<1> QED
  BY <1>1, <1>3, <1>4 DEF GcOf, GcLabel

LEMMA GcScanArchiveGc ==
    ASSUME NamesInv, GcTypes, Record, NEW p \in Proc, GcOf(p), GcScanArchive(p)
    PROVE  GcOf(p)'
<1> DEFINE x == task[p].at
<1>1. /\ pc[p] = "gc.scan" /\ pc' = pc /\ job' = job /\ place' = place
  BY DEF GcScanArchive, poolVars
<1>2. task'[p] = [task[p] EXCEPT !.at = "none", !.roots = @ \ {x},
                         !.held = @ \cup RefsUnder(x, "archive")]
  BY DEF GcScanArchive, GcTypes
<1>3. /\ task'[p].at = "none" /\ task'[p].roots = task[p].roots \ {x}
      /\ task'[p].held = task[p].held \cup RefsUnder(x, "archive")
      /\ task'[p].todo = task[p].todo /\ task'[p].last = task[p].last
  BY <1>2 DEF GcTypes, Task
<1>4. ASSUME NEW u \in used'[p]
      PROVE  IsUse(u)' /\ (u[1] = "ref" => ToBeFound(p, u)')
  <2>1. u \in Use /\ StaysInUse(u) /\ u \in used[p]
    BY <1>1, <1>4, UsesStay
  <2>2. IsUse(u) /\ IsUse(u)' /\ (u[1] = "ref" => ToBeFound(p, u))
    BY <1>1, <2>1, UseStays DEF GcOf, GcLabel
  <2>3. ASSUME u[1] = "ref" PROVE ToBeFound(p, u)'
    <3>1. u[2] \in Ws /\ place[u[2]] \in {"workspaces", "archive"} /\ u[3] \in refs[u[2]]
      BY <2>1, <2>2, <2>3 DEF IsUse, Use, GcTypes, PlaceTypes
    <3>2. CASE RootOf[u[2]] = x /\ place[u[2]] = "archive"
      <4>1. u[3] \in RefsUnder(x, "archive")
        BY <3>1, <3>2 DEF RefsUnder, Under
      <4> QED
        BY <4>1, <1>3 DEF ToBeFound
    <3>3. CASE RootOf[u[2]] # x
      <4>1. RootOf[u[2]] \in Root
        BY <3>1, PoolAssumption
      <4> QED
        BY <1>1, <1>3, <2>2, <2>3, <3>3, <4>1, RegistryAssumption DEF ToBeFound
    <3>4. CASE RootOf[u[2]] = x /\ place[u[2]] = "workspaces"
      BY <1>1, <1>3, <2>2, <2>3, <3>4 DEF ToBeFound
    <3> QED
      BY <3>1, <3>2, <3>3, <3>4
  <2> QED
    BY <2>2, <2>3
<1> QED
  BY <1>1, <1>3, <1>4 DEF GcOf, GcLabel

LEMMA GcScannedGc ==
    ASSUME NamesInv, GcTypes, Record, NEW p \in Proc, GcOf(p), GcScanned(p)
    PROVE  GcOf(p)'
<1>1. pc[p] = "gc.scan" /\ job' = job /\ place' = place /\ task[p].roots = {}
  BY DEF GcScanned, poolVars
<1>2. task[p].todo = {} /\ task[p].at = "none"
  BY <1>1 DEF GcOf
<1>3. ASSUME NEW u \in used'[p]
      PROVE  /\ IsUse(u)'
             /\ u[1] = "ref" => \/ u[3] \in task[p].held
                                \/ RootOf[u[2]] = job[p].root /\ ~task[p].last
             /\ u[1] = "ref" => RootOf[u[2]] \in Root
  <2>1. u \in Use /\ StaysInUse(u) /\ u \in used[p]
    BY <1>1, <1>3, UsesStay
  <2>2. IsUse(u) /\ IsUse(u)' /\ (u[1] = "ref" => ToBeFound(p, u))
    BY <1>1, <2>1, UseStays DEF GcOf, GcLabel
  <2>3. RootOf[u[2]] \in Root
    BY <2>1, PoolAssumption DEF Use
  <2> QED
    BY <1>1, <2>2, <2>3 DEF ToBeFound
<1>4. CASE ~task[p].last
  <2>1. /\ pc' = pc
        /\ task'[p] = [task[p] EXCEPT !.last = TRUE, !.roots = {job[p].root}]
    BY <1>4 DEF GcScanned, GcTypes
  <2>2. /\ task'[p].roots = {job[p].root} /\ task'[p].held = task[p].held
        /\ task'[p].at = "none" /\ task'[p].todo = {}
    BY <1>2, <2>1 DEF GcTypes, Task
  <2>3. ASSUME NEW u \in used'[p], u[1] = "ref" PROVE ToBeFound(p, u)'
    BY <1>1, <1>3, <2>2, <2>3, RegistryAssumption DEF ToBeFound
  <2> QED
    BY <1>1, <1>3, <2>1, <2>2, <2>3 DEF GcOf, GcLabel
<1>5. CASE task[p].last
  <2>1. pc'[p] = "gc.inspect" /\ task' = task
    BY <1>5 DEF GcScanned, Goto, NamesInv, RegistryTypes
  <2>2. ASSUME NEW u \in used'[p] PROVE Spared(p, u)'
    BY <1>2, <1>3, <1>5, <2>1 DEF Spared
  <2> QED
    BY <1>3, <2>1, <2>2 DEF GcOf, GcLabel
<1> QED
  BY <1>4, <1>5

LEMMA LaterGc ==
    ASSUME GcTypes, Record, NEW p \in Proc, GcOf(p),
           pc[p] \in {"gc.inspect", "gc.delete"},
           pc'[p] \in {"gc.inspect", "gc.delete"},
           task'[p].held = task[p].held,
           \A r \in task'[p].todo \ task[p].todo :
               r \notin task[p].held /\ ~hasLinkedWorktrees(r)
    PROVE  GcOf(p)'
<1>1. ASSUME NEW u \in used'[p] PROVE IsUse(u)' /\ Spared(p, u)'
  <2>1. u \in Use /\ StaysInUse(u) /\ u \in used[p]
    BY <1>1, UsesStay
  <2>2. IsUse(u) /\ IsUse(u)' /\ Spared(p, u)
    BY <2>1, UseStays DEF GcOf, GcLabel
  <2>3. u[1] # "ref" => hasLinkedWorktrees(u[3])
    BY <2>1, <2>2 DEF IsUse, hasLinkedWorktrees, Use
  <2> QED
    BY <2>2, <2>3 DEF Spared
<1> QED
  BY <1>1 DEF GcOf, GcLabel

LEMMA GcInspectGc ==
    ASSUME NamesInv, GcTypes, Record, NEW p \in Proc, GcOf(p), GcInspect(p)
    PROVE  GcOf(p)'
<1>1. PICK r \in task[p].list, t \in SUBSET Repo :
        /\ task'[p] = [task[p] EXCEPT !.list = @ \ {r}, !.todo = t]
        /\ \A s \in t \ task[p].todo : s \notin task[p].held /\ ~hasLinkedWorktrees(s)
  <2>1. PICK r \in task[p].list :
          \/ task' = [task EXCEPT
                ![p].list = @ \ {r},
                ![p].todo = IF r \notin task[p].held /\ ~hasLinkedWorktrees(r)
                            THEN @ \cup {r} ELSE @]
          \/ task' = [task EXCEPT ![p].list = @ \ {r}]
    BY DEF GcInspect
  <2>2. r \in Repo /\ task[p].todo \subseteq Repo
    BY DEF GcTypes, Task
  <2>3. CASE task' = [task EXCEPT ![p].list = @ \ {r}]
    <3>1. task'[p] = [task[p] EXCEPT !.list = @ \ {r}, !.todo = task[p].todo]
      BY <2>3 DEF GcTypes, Task
    <3> QED
      BY <2>2, <3>1
  <2>4. CASE task' = [task EXCEPT
                ![p].list = @ \ {r},
                ![p].todo = IF r \notin task[p].held /\ ~hasLinkedWorktrees(r)
                            THEN @ \cup {r} ELSE @]
    <3> DEFINE t == IF r \notin task[p].held /\ ~hasLinkedWorktrees(r)
                    THEN task[p].todo \cup {r} ELSE task[p].todo
    <3>1. task'[p] = [task[p] EXCEPT !.list = @ \ {r}, !.todo = t]
      BY <2>4 DEF GcTypes, Task
    <3>2. /\ t \in SUBSET Repo
          /\ \A s \in t \ task[p].todo : s \notin task[p].held /\ ~hasLinkedWorktrees(s)
      BY <2>2
    <3> HIDE DEF t
    <3> QED
      BY <3>1, <3>2
  <2> QED
    BY <2>1, <2>3, <2>4
<1>2. task'[p].held = task[p].held /\ task'[p].todo = t
  BY <1>1 DEF GcTypes, Task
<1>3. pc[p] = "gc.inspect" /\ pc' = pc
  BY DEF GcInspect
<1> QED
  BY <1>1, <1>2, <1>3, LaterGc

LEMMA GcSelectGc ==
    ASSUME NamesInv, GcTypes, Record, NEW p \in Proc, GcOf(p), GcSelect(p)
    PROVE  GcOf(p)'
<1>1. PICK s \in SUBSET task[p].todo : task' = [task EXCEPT ![p].todo = s]
  BY DEF GcSelect
<1>2. task'[p].held = task[p].held /\ task'[p].todo = s
  BY <1>1 DEF GcTypes, Task
<1>3. pc[p] = "gc.inspect" /\ pc'[p] = "gc.delete"
  BY DEF GcSelect, Goto, NamesInv, RegistryTypes
<1> QED
  BY <1>1, <1>2, <1>3, LaterGc

LEMMA GcDeleteGc ==
    ASSUME NamesInv, GcTypes, Record, NEW p \in Proc, GcOf(p), GcDelete(p)
    PROVE  GcOf(p)'
<1>1. PICK r \in task[p].todo :
         IF task[p].todo = {r} THEN Finish(p)
           ELSE /\ task' = [task EXCEPT ![p].todo = @ \ {r}]
                /\ UNCHANGED <<pc, job>>
  BY DEF GcDelete
<1>2. CASE Finish(p)
  <2>1. pc'[p] = "idle" /\ task'[p] = NoTask
    BY <1>2 DEF Finish, Return, Goto, NamesInv, RegistryTypes, GcTypes
  <2> QED
    BY <2>1, NoTaskType, OutsideGc DEF GcLabel
<1>3. CASE task' = [task EXCEPT ![p].todo = @ \ {r}] /\ pc' = pc
  <2>1. task'[p].held = task[p].held /\ task'[p].todo = task[p].todo \ {r}
    BY <1>3 DEF GcTypes, Task
  <2>2. pc[p] = "gc.delete"
    BY DEF GcDelete
  <2> QED
    BY <1>3, <2>1, <2>2, LaterGc
<1> QED
  BY <1>1, <1>2, <1>3
(***************************************************************************)
(* What a step does to the process that takes it and to the others.        *)
(***************************************************************************)
LEMMA PoolStartGc ==
    ASSUME NamesInv, GcTypes, NEW p \in Proc, PoolStart(p)
    PROVE  /\ pc[p] = "idle" /\ pc'[p] \notin GcLabel /\ PlaceTypes'
           /\ \E t \in Task : Fresh(t) /\ task' = [task EXCEPT ![p] = t]
<1>1. PICK c \in PoolCommands, w \in Ws, r \in Repo :
        /\ Goto(p, IF c \in TouchingCommands THEN FirstCall(c) ELSE c)
        /\ task' = [task EXCEPT ![p] = [NoTask EXCEPT !.ws = w, !.repo = r]]
  <2>1. \A c : WsArg(c) \subseteq Ws /\ RepoArg(c) \subseteq Repo
    BY NoTaskType DEF WsArg, RepoArg, Task
  <2> QED
    BY <2>1 DEF PoolStart
<1>2. pc'[p] \notin GcLabel
  BY <1>1 DEF Goto, FirstCall, PoolCommands, TouchingCommands, GcLabel,
         NamesInv, RegistryTypes
<1>3. [NoTask EXCEPT !.ws = w, !.repo = r] \in Task /\ Fresh([NoTask EXCEPT !.ws = w, !.repo = r])
  BY NoTaskType DEF Task, Fresh
<1> QED
  BY <1>1, <1>2, <1>3 DEF PoolStart, poolVars, GcTypes, PlaceTypes

LEMMA PoolStepGc ==
    ASSUME NamesInv, GcTypes, NEW p \in Proc, PoolStep(p)
    PROVE  /\ pc[p] \notin GcLabel \cup {"gc.registry"} /\ pc'[p] \notin GcLabel
           /\ PlaceTypes'
           /\ task' = task \/ task' = [task EXCEPT ![p] = NoTask]
<1>1. task[p].ws \in Ws /\ task[p].repo \in Repo
  BY DEF GcTypes, Task
<1>2. pc[p] \notin GcLabel \cup {"gc.registry"}
  BY DEF PoolStep, RepoAdd, MakeWorkspace, AddTree, AddMeta, RemoveTree,
         RemoveMeta,
         CloseTree, Archive, Restore, ReopenTree, ReopenFails, ReopenDone, Purge, GcLabel
<1>3. pc'[p] \notin GcLabel
  BY DEF PoolStep, RepoAdd, MakeWorkspace, AddTree, AddMeta, RemoveTree,
         RemoveMeta,
         CloseTree, Archive, Restore, ReopenTree, ReopenFails, ReopenDone, Purge, GcLabel,
         Finish, Return, Goto, NamesInv, RegistryTypes
<1>4. task' = task \/ task' = [task EXCEPT ![p] = NoTask]
  BY DEF PoolStep, RepoAdd, MakeWorkspace, AddTree, AddMeta, RemoveTree,
         RemoveMeta,
         CloseTree, Archive, Restore, ReopenTree, ReopenFails, ReopenDone, Purge, Finish, poolVars
<1>5. PlaceTypes'
  BY <1>1 DEF PlaceTypes, PoolStep, RepoAdd, MakeWorkspace, AddTree, AddMeta,
         RemoveTree, RemoveMeta,
         CloseTree, Archive, Restore, ReopenTree, ReopenFails, ReopenDone, Purge, GcTypes, poolVars
<1> QED
  BY <1>2, <1>3, <1>4, <1>5

LEMMA RegistryOnlyGc ==
    ASSUME NamesInv, GcTypes, NEW p \in Proc, RegistryOnly(p)
    PROVE  /\ pc[p] \notin GcLabel \cup {"gc.registry"} /\ pc'[p] \notin GcLabel
           /\ UNCHANGED task /\ PlaceTypes'
<1>0. PlaceTypes'
  BY DEF RegistryOnly, poolVars, GcTypes, PlaceTypes
<1>1. pc[p] \notin GcLabel \cup {"gc.registry"}
  BY DEF RegistryOnly, RegistryStart, RegistryStep, TouchLoad, SetLoad,
         RenameLoad,
         RemoveCheck, RemoveLoad, WriteRegistry, Resolve, Select, GcLabel
<1>2. CASE RegistryStart(p)
  BY <1>0, <1>1, <1>2 DEF RegistryOnly, RegistryStart, FirstCall, Goto,
         GcLabel, poolVars,
                    NamesInv, RegistryTypes
<1>3. CASE WriteRegistry(p)
  <2>1. job[p].cmd \in Command
    BY DEF NamesInv, RegistryTypes, JobType
  <2>2. After(job[p].cmd, pc[p]) \notin GcLabel
    BY <2>1 DEF After, Command, RegistryCommands, PoolCommands, GcLabel
  <2>3. pc'[p] \notin GcLabel
    BY <1>3, <2>2 DEF WriteRegistry, Return, Goto, GcLabel, NamesInv,
           RegistryTypes
  <2> QED
    BY <1>0, <1>1, <2>3 DEF RegistryOnly, poolVars
<1>4. CASE RegistryStep(p) /\ ~WriteRegistry(p)
  BY <1>0, <1>1, <1>4 DEF RegistryOnly, RegistryStep, TouchLoad, SetLoad,
         RenameLoad,
         RemoveCheck, RemoveLoad, Resolve, Select, Prepare, Return, Goto, GcLabel, poolVars,
         NamesInv, RegistryTypes
<1> QED
  BY <1>0, <1>2, <1>3, <1>4 DEF RegistryOnly

LEMMA RefsUnderType ==
    ASSUME GcTypes, NEW x, NEW d
    PROVE  RefsUnder(x, d) \in SUBSET Repo
BY DEF RefsUnder, Under, GcTypes, PlaceTypes

LEMMA GcStepTypes ==
    ASSUME NamesInv, GcTypes, NEW p \in Proc, GcStep(p)
    PROVE  /\ \E t \in Task : task' = [task EXCEPT ![p] = t]
           /\ PlaceTypes'
<1>1. task[p] \in Task /\ job[p].root \in Root
  BY DEF GcTypes, NamesInv, RegistryTypes, JobType
<1>2. PlaceTypes'
  BY DEF PlaceTypes, GcTypes, GcStep, GcList, GcRegistry, GcScanWorkspaces,
         GcScanArchive, GcScanned,
         GcInspect, GcSelect, GcDelete, poolVars
<1>3. CASE GcList(p)
  <2>1. task' = [task EXCEPT ![p] = [task[p] EXCEPT !.list = pool]]
    BY <1>3 DEF GcList, GcTypes
  <2>2. [task[p] EXCEPT !.list = pool] \in Task
    BY <1>1 DEF Task, GcTypes, PlaceTypes
  <2> QED
    BY <1>2, <2>1, <2>2
<1>4. CASE GcRegistry(p)
  <2>1. task' = [task EXCEPT ![p] = [task[p] EXCEPT !.roots = Known(file)]]
    BY <1>4 DEF GcRegistry, GcTypes
  <2>2. [task[p] EXCEPT !.roots = Known(file)] \in Task
    BY <1>1 DEF Task, Known
  <2> QED
    BY <1>2, <2>1, <2>2
<1>5. CASE GcScanWorkspaces(p)
  <2>1. PICK x \in task[p].roots :
          task' = [task EXCEPT ![p] = [task[p] EXCEPT
                     !.at = x, !.held = @ \cup RefsUnder(x, "workspaces")]]
    BY <1>5 DEF GcScanWorkspaces, GcTypes
  <2>2. [task[p] EXCEPT !.at = x, !.held = @ \cup RefsUnder(x, "workspaces")] \in Task
    BY <1>1, RefsUnderType DEF Task
  <2> QED
    BY <1>2, <2>1, <2>2
<1>6. CASE GcScanArchive(p)
  <2> DEFINE t == [task[p] EXCEPT !.at = "none", !.roots = @ \ {task[p].at},
                                  !.held = @ \cup RefsUnder(task[p].at, "archive")]
  <2>1. task' = [task EXCEPT ![p] = t]
    BY <1>6 DEF GcScanArchive, GcTypes
  <2>2. t \in Task
    BY <1>1, RefsUnderType DEF Task
  <2> QED
    BY <1>2, <2>1, <2>2
<1>7. CASE GcScanned(p)
  <2>1. CASE task' = [task EXCEPT ![p].last = TRUE, ![p].roots = {job[p].root}]
    <3>1. task' = [task EXCEPT ![p] = [task[p] EXCEPT !.last = TRUE, !.roots = {job[p].root}]]
      BY <2>1 DEF GcTypes
    <3>2. [task[p] EXCEPT !.last = TRUE, !.roots = {job[p].root}] \in Task
      BY <1>1 DEF Task
    <3> QED
      BY <1>2, <3>1, <3>2
  <2>2. CASE UNCHANGED task
    BY <1>1, <1>2, <2>2 DEF GcTypes
  <2> QED
    BY <1>7, <2>1, <2>2 DEF GcScanned
<1>8. CASE GcInspect(p)
  <2>1. PICK r \in task[p].list :
          \/ task' = [task EXCEPT
                ![p].list = @ \ {r},
                ![p].todo = IF r \notin task[p].held /\ ~hasLinkedWorktrees(r)
                            THEN @ \cup {r} ELSE @]
          \/ task' = [task EXCEPT ![p].list = @ \ {r}]
    BY <1>8 DEF GcInspect
  <2>2. task[p].todo \in SUBSET Repo /\ task[p].todo \cup {r} \in SUBSET Repo
    BY <1>1 DEF Task
  <2>3. PICK d \in SUBSET Repo :
          task' = [task EXCEPT ![p] = [task[p] EXCEPT !.list = @ \ {r}, !.todo = d]]
    <3>1. CASE task' = [task EXCEPT ![p].list = @ \ {r}]
      <4>1. [task[p] EXCEPT !.list = @ \ {r}]
              = [task[p] EXCEPT !.list = @ \ {r}, !.todo = task[p].todo]
        BY <1>1 DEF Task
      <4> QED
        BY <2>2, <3>1, <4>1 DEF GcTypes
    <3>2. CASE task' = [task EXCEPT
                ![p].list = @ \ {r},
                ![p].todo = IF r \notin task[p].held /\ ~hasLinkedWorktrees(r)
                            THEN @ \cup {r} ELSE @]
      <4>1. CASE r \notin task[p].held /\ ~hasLinkedWorktrees(r)
        BY <2>2, <3>2, <4>1 DEF GcTypes
      <4>2. CASE ~(r \notin task[p].held /\ ~hasLinkedWorktrees(r))
        BY <2>2, <3>2, <4>2 DEF GcTypes
      <4> QED
        BY <4>1, <4>2
    <3> QED
      BY <2>1, <3>1, <3>2
  <2>4. [task[p] EXCEPT !.list = @ \ {r}, !.todo = d] \in Task
    BY <1>1 DEF Task
  <2> QED
    BY <1>2, <2>3, <2>4
<1>9. ASSUME NEW d \in SUBSET task[p].todo, task' = [task EXCEPT ![p].todo = d]
      PROVE  \E t \in Task : task' = [task EXCEPT ![p] = t]
  <2>1. task' = [task EXCEPT ![p] = [task[p] EXCEPT !.todo = d]]
    BY <1>9 DEF GcTypes
  <2>2. [task[p] EXCEPT !.todo = d] \in Task
    BY <1>1 DEF Task
  <2> QED
    BY <2>1, <2>2
<1>10. CASE GcSelect(p)
  <2>1. PICK d \in SUBSET task[p].todo : task' = [task EXCEPT ![p].todo = d]
    BY <1>10 DEF GcSelect
  <2> QED
    BY <1>2, <1>9, <2>1
<1>11. CASE GcDelete(p)
  <2>1. PICK r \in task[p].todo :
          \/ task' = [task EXCEPT ![p] = NoTask]
          \/ task' = [task EXCEPT ![p].todo = task[p].todo \ {r}]
    BY <1>11 DEF GcDelete, Finish, GcTypes
  <2>2. task[p].todo \ {r} \in SUBSET task[p].todo
    OBVIOUS
  <2> QED
    BY <1>2, <1>9, <2>1, <2>2, NoTaskType
<1> QED
  BY <1>3, <1>4, <1>5, <1>6, <1>7, <1>8, <1>10, <1>11 DEF GcStep

(***************************************************************************)
(* A step of p leaves the other processes alone.                           *)
(***************************************************************************)
LEMMA OneProcess ==
    ASSUME NamesInv, GcTypes, NEW p \in Proc,
           \/ PoolStart(p) \/ PoolStep(p) \/ GcStep(p)
           \/ RegistryOnly(p) \/ Fails(p)
    PROVE  \A q \in Proc \ {p} :
             pc'[q] = pc[q] /\ job'[q] = job[q] /\ task'[q] = task[q]
<1>1. CASE PoolStart(p)
  <2>1. \A q \in Proc \ {p} : pc'[q] = pc[q] /\ job'[q] = job[q]
    BY <1>1 DEF PoolStart, Goto, NamesInv, RegistryTypes
  <2> QED
    BY <1>1, <2>1, PoolStartGc DEF GcTypes
<1>2. CASE PoolStep(p)
  <2>1. \A q \in Proc \ {p} : pc'[q] = pc[q] /\ job'[q] = job[q]
    BY <1>2 DEF PoolStep, RepoAdd, MakeWorkspace, AddTree, AddMeta, RemoveTree,
           RemoveMeta,
         CloseTree, Archive, Restore, ReopenTree, ReopenFails, ReopenDone, Purge,
         Finish, Return, Goto, NamesInv, RegistryTypes
  <2> QED
    BY <1>2, <2>1, PoolStepGc DEF GcTypes
<1>3. CASE GcStep(p)
  <2>1. \A q \in Proc \ {p} : pc'[q] = pc[q] /\ job'[q] = job[q]
    BY <1>3 DEF GcStep, GcList, GcRegistry, GcScanWorkspaces, GcScanArchive,
           GcScanned,
         GcInspect, GcSelect, GcDelete, Finish, Return, Goto, NamesInv, RegistryTypes
  <2> QED
    BY <1>3, <2>1, GcStepTypes DEF GcTypes
<1>4. CASE RegistryOnly(p)
  <2>1. \A q \in Proc \ {p} : pc'[q] = pc[q] /\ job'[q] = job[q]
    BY <1>4 DEF RegistryOnly, RegistryStart, RegistryStep, TouchLoad, SetLoad,
           RenameLoad,
         RemoveCheck, RemoveLoad, WriteRegistry, Resolve, Select, Prepare, Return, Goto,
         NamesInv, RegistryTypes
  <2> QED
    BY <1>4, <2>1, RegistryOnlyGc DEF GcTypes
<1>5. CASE Fails(p)
  BY <1>5 DEF Fails, Crash, Return, Goto, NamesInv, RegistryTypes, GcTypes
<1> QED
  BY <1>1, <1>2, <1>3, <1>4, <1>5

LEMMA GcInvStep == NamesInv /\ GcInv /\ [Next]_vars => GcInv'
<1> SUFFICES ASSUME NamesInv, GcInv, [Next]_vars PROVE GcInv'
  OBVIOUS
<1>1. CASE UNCHANGED vars
  BY <1>1 DEF vars, GcInv, GcTypes, PlaceTypes, GcOf, IsUse, ToBeFound, Spared,
         Fresh
<1>2. CASE Next
  <2>1. PICK p \in Proc : \/ PoolStart(p) \/ PoolStep(p) \/ GcStep(p)
                          \/ RegistryOnly(p) \/ Fails(p)
    BY <1>2 DEF Next
  <2>2. GcTypes /\ Record /\ GcOf(p)
    BY <1>2 DEF Next, GcInv
  <2>3. \A q \in Proc \ {p} : GcOf(q)'
    BY <2>1, <2>2, OneProcess, OtherGc DEF GcInv
  <2>4. CASE PoolStart(p)
    <3>1. PICK t \in Task : Fresh(t) /\ task' = [task EXCEPT ![p] = t]
      BY <2>2, <2>4, PoolStartGc
    <3>2. GcTypes'
      BY <2>2, <2>4, <3>1, PoolStartGc, RecordUses DEF GcTypes
    <3>3. GcOf(p)'
      <4>1. task'[p] = t
        BY <2>2, <3>1 DEF GcTypes
      <4>2. pc[p] \notin GcLabel \cup {"gc.registry"}
        BY <2>2, <2>4, PoolStartGc DEF GcLabel
      <4> QED
        BY <2>2, <2>4, <3>1, <4>1, <4>2, PoolStartGc, OutsideGc
    <3> QED
      BY <2>3, <3>2, <3>3 DEF GcInv
  <2>5. CASE PoolStep(p)
    <3>1. task' = task \/ task' = [task EXCEPT ![p] = NoTask]
      BY <2>2, <2>5, PoolStepGc
    <3>2. GcTypes'
      BY <2>2, <2>5, <3>1, PoolStepGc, RecordUses, NoTaskType DEF GcTypes
    <3>3. GcOf(p)'
      <4>1. task'[p] = task[p] \/ task'[p] = NoTask
        BY <2>2, <3>1 DEF GcTypes
      <4>2. Fresh(task'[p])
        BY <2>2, <2>5, <4>1, NoTaskType, PoolStepGc DEF GcOf
      <4> QED
        BY <2>2, <2>5, <4>2, PoolStepGc, OutsideGc
    <3> QED
      BY <2>3, <3>2, <3>3 DEF GcInv
  <2>6. CASE RegistryOnly(p)
    <3>1. task' = task
      BY <2>2, <2>6, RegistryOnlyGc
    <3>2. GcTypes'
      BY <2>2, <2>6, <3>1, RegistryOnlyGc, RecordUses DEF GcTypes
    <3>3. GcOf(p)'
      <4>1. Fresh(task'[p])
        BY <2>2, <2>6, <3>1, RegistryOnlyGc DEF GcOf
      <4> QED
        BY <2>2, <2>6, <4>1, RegistryOnlyGc, OutsideGc
    <3> QED
      BY <2>3, <3>2, <3>3 DEF GcInv
  <2>7. CASE Fails(p)
    <3>1. task' = [task EXCEPT ![p] = NoTask] /\ UNCHANGED poolVars
      BY <2>7 DEF Fails
    <3>2. GcTypes'
      BY <2>2, <3>1, RecordUses, NoTaskType DEF GcTypes, PlaceTypes, poolVars
    <3>3. GcOf(p)'
      <4>1. pc'[p] = "idle" /\ task'[p] = NoTask
        BY <2>2, <2>7 DEF Fails, Crash, Return, Goto, NamesInv, RegistryTypes,
               GcTypes
      <4> QED
        BY <2>2, <4>1, NoTaskType, OutsideGc DEF GcLabel
    <3> QED
      BY <2>3, <3>2, <3>3 DEF GcInv
  <2>8. CASE GcStep(p)
    <3>1. PICK t \in Task : task' = [task EXCEPT ![p] = t]
      BY <2>2, <2>8, GcStepTypes
    <3>2. GcTypes'
      BY <2>2, <2>8, <3>1, GcStepTypes, RecordUses DEF GcTypes
    <3>3. GcOf(p)'
      <4>1. CASE GcList(p)
        <5>1. /\ pc[p] = "gc" /\ pc'[p] = "gc.registry"
              /\ task'[p] = [task[p] EXCEPT !.list = pool]
          BY <2>2, <4>1 DEF GcList, Goto, NamesInv, RegistryTypes, GcTypes
        <5>2. Fresh(task'[p])
          BY <2>2, <5>1 DEF GcOf, GcLabel, Fresh, GcTypes, Task
        <5> QED
          BY <2>2, <5>1, <5>2, OutsideGc DEF GcLabel
      <4> QED
        BY <2>2, <2>8, <4>1, GcRegistryGc, GcScanWorkspacesGc, GcScanArchiveGc,
           GcScannedGc, GcInspectGc, GcSelectGc, GcDeleteGc DEF GcStep
    <3> QED
      BY <2>3, <3>2, <3>3 DEF GcInv
  <2> QED
    BY <2>1, <2>4, <2>5, <2>6, <2>7, <2>8
<1> QED
  BY <1>1, <1>2

(***************************************************************************)
(* What gc has yet to read, or has found, covers what is in use.           *)
(***************************************************************************)
THEOREM GcCorrect == Spec => []GcInv
<1>1. Init => GcInv
  <2> SUFFICES ASSUME Init PROVE GcInv
    OBVIOUS
  <2>1. GcTypes
    BY NoTaskType DEF Init, GcTypes, PlaceTypes
  <2>2. ASSUME NEW p \in Proc PROVE GcOf(p)
    BY NoTaskType DEF Init, RegistryInit, GcOf, GcLabel
  <2> QED
    BY <2>1, <2>2 DEF GcInv
<1> QED
  BY <1>1, GcInvStep, NamesInductive, PTL DEF Spec

(***************************************************************************)
(* Whatever runs between the steps of repo gc, it deletes no repository    *)
(* that has been in use since it loaded the registry                       *)
(* (runRepoGC and the index of the repositories that workspaces name).     *)
(***************************************************************************)
THEOREM GcKeepsInUseCorrect == Spec => GcKeepsInUse
<1>1. ASSUME NamesInv, GcInv, [Next]_vars, NEW p \in Proc, NEW u \in used[p],
             pc[p] = "gc.delete", task'[p] # task[p]
      PROVE  u[3] \notin pool \ pool'
  <2>1. Next
    BY <1>1 DEF vars
  <2>2. PICK q \in Proc : \/ PoolStart(q) \/ PoolStep(q) \/ GcStep(q)
                          \/ RegistryOnly(q) \/ Fails(q)
    BY <2>1 DEF Next
  <2>3. q = p
    BY <1>1, <2>2, OneProcess DEF GcInv
  <2>4. ~PoolStart(p) /\ ~PoolStep(p) /\ ~RegistryOnly(p)
    BY <1>1, PoolStartGc, PoolStepGc, RegistryOnlyGc DEF GcInv, GcLabel
  <2>5. CASE Fails(p)
    BY <2>5 DEF Fails, poolVars
  <2>6. CASE GcStep(p)
    <3>1. PICK r \in task[p].todo : pool' \in {pool, pool \ {r}}
      BY <1>1, <2>6 DEF GcStep, GcList, GcRegistry, GcScanWorkspaces,
             GcScanArchive,
                        GcScanned, GcInspect, GcSelect, GcDelete
    <3>2. u[3] \notin task[p].todo
      BY <1>1 DEF GcInv, GcOf, Spared
    <3> QED
      BY <3>1, <3>2
  <2> QED
    BY <2>2, <2>3, <2>4, <2>5, <2>6
<1>2. NamesInv /\ GcInv /\ [Next]_vars =>
        [\A p \in Proc : \A u \in used[p] :
            pc[p] = "gc.delete" /\ task'[p] # task[p]
            => u[3] \notin pool \ pool']_vars
  BY <1>1
<1> QED
  BY <1>2, GcCorrect, NamesInductive, PTL DEF Spec, GcKeepsInUse
=============================================================================
