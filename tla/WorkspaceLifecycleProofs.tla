---------------------- MODULE WorkspaceLifecycleProofs ----------------------
(***************************************************************************)
(* Theorems about WorkspaceLifecycle, for any sets of workspaces,          *)
(* repositories and processes.                                             *)
(***************************************************************************)
EXTENDS WorkspaceLifecycle, TLAPS

-----------------------------------------------------------------------------
(***************************************************************************)
(* Types of the constants and helpers                                      *)
(***************************************************************************)
(***************************************************************************)
(* The constant values of the model have their types.                      *)
(***************************************************************************)
LEMMA ConstantTypes ==
    /\ NoMeta \in Meta
    /\ FreshMeta \in Meta
    /\ NoDir \in Dir /\ WellFormed(NoDir)
    /\ EmptyDir \in Dir /\ WellFormed(EmptyDir)
    /\ NoJob \in Job
<1>1. NoMeta \in Meta
  BY DEF NoMeta, Meta, Entry
<1>2. FreshMeta \in Meta
  BY <1>1 DEF FreshMeta, NoMeta, Meta, Entry
<1>3. NoDir \in Dir /\ WellFormed(NoDir)
  BY <1>1, ConstantsAssumption
     DEF NoDir, Dir, Notes, WellFormed, HasMeta, NoMeta
<1>4. EmptyDir \in Dir /\ WellFormed(EmptyDir)
  BY <1>3 DEF EmptyDir, NoDir, Dir, WellFormed
<1>5. NoJob \in Job
  BY <1>1, ConstantsAssumption DEF NoJob, Job
<1> QED
  BY <1>1, <1>2, <1>3, <1>4, <1>5

(***************************************************************************)
(* Writing metadata into a directory that is there, and deleting it.       *)
(***************************************************************************)
LEMMA WithMetaType ==
    ASSUME NEW d \in Dir, NEW m \in Meta, WellFormed(d),
           d.there \/ m = NoMeta
    PROVE  WithMeta(d, m) \in Dir /\ WellFormed(WithMeta(d, m))
BY DEF WithMeta, Dir, WellFormed, HasMeta, NoMeta

(***************************************************************************)
(* Adding and removing a worktree.                                         *)
(***************************************************************************)
LEMMA TreeTypes ==
    ASSUME NEW d \in Dir, NEW r \in Repo, WellFormed(d)
    PROVE  /\ WithTree(d, r) \in Dir /\ WellFormed(WithTree(d, r))
           /\ WithoutTree(d, r) \in Dir /\ WellFormed(WithoutTree(d, r))
<1>1. WithTree(d, r) \in Dir /\ WellFormed(WithTree(d, r))
  BY DEF WithTree, Dir, WellFormed, HasMeta
<1>2. WithoutTree(d, r) \in Dir /\ WellFormed(WithoutTree(d, r))
  BY DEF WithoutTree, Dir, WellFormed, HasMeta
<1> QED
  BY <1>1, <1>2

(***************************************************************************)
(* What is read off a directory.                                           *)
(***************************************************************************)
LEMMA DirTypes ==
    ASSUME NEW d \in Dir
    PROVE  /\ d.meta \in Meta
           /\ ClosedMeta(d) \in Meta
           /\ Snap(d) \in Snapshot
           /\ Bound(d) \subseteq Repo
           /\ Risky(d) \subseteq Repo
           /\ Restorable(d.meta) \subseteq Repo
<1>1. \A r \in Repo : ClosedEntry(d, r) \in Entry
  BY DEF Dir, Meta, Entry, ClosedEntry
<1>2. ClosedMeta(d) \in Meta
  BY <1>1 DEF Dir, Meta, ClosedMeta
<1> QED
  BY <1>2 DEF Dir, Meta, Snap, Snapshot, Bound, Risky, Restorable

(***************************************************************************)
(* TypeOK in the parts that most calls change separately: the disk, the    *)
(* processes and the scars.                                                *)
(***************************************************************************)
DiskOK ==
    /\ ws \in [Ws -> Dir]
    /\ arc \in [Ws -> Dir]
    /\ \A i \in Ws : WellFormed(ws[i]) /\ WellFormed(arc[i])
    /\ reg \in SUBSET (Repo \X Ws)
    /\ base \in SUBSET Ws
    /\ head \in [Ws -> [ws : Snapshot, arc : Snapshot]]

ProcOK ==
    /\ pc \in [Proc -> Labels]
    /\ job \in [Proc -> Job]

ScarsOK == scars \in [Ws -> SUBSET Scar]

(***************************************************************************)
(* TypeOK is the conjunction of the three parts.                           *)
(***************************************************************************)
LEMMA TypeParts == TypeOK <=> DiskOK /\ ProcOK /\ ScarsOK
BY DEF TypeOK, DiskOK, ProcOK, ScarsOK

(***************************************************************************)
(* What the types say about the local variables of a process.              *)
(***************************************************************************)
LEMMA JobFields ==
    ASSUME ProcOK, NEW p \in Proc
    PROVE  /\ Id(p) \in Ws
           /\ job[p] \in Job
           /\ job[p].held \in Meta /\ job[p].next \in Meta
           /\ job[p].todo \subseteq Repo /\ job[p].done \subseteq Repo
BY DEF ProcOK, Id, Job

(***************************************************************************)
(* A command that returns leaves a process of the right type.              *)
(***************************************************************************)
LEMMA ReturnType ==
    ASSUME ProcOK, NEW p \in Proc, Return(p)
    PROVE  ProcOK'
BY ConstantTypes DEF ProcOK, Return, Labels

(***************************************************************************)
(* So does a command that moves on to its next call,                       *)
(***************************************************************************)
LEMMA GotoType ==
    ASSUME ProcOK, NEW p \in Proc, NEW l \in Labels, Goto(p, l), job' = job
    PROVE  ProcOK'
BY DEF ProcOK, Goto

(***************************************************************************)
(* and one that moves on with new local variables.                         *)
(***************************************************************************)
LEMMA JobReplaced ==
    ASSUME ProcOK, NEW p \in Proc, NEW l \in Labels, NEW j \in Job,
           Goto(p, l), job' = [job EXCEPT ![p] = j]
    PROVE  ProcOK'
BY DEF ProcOK, Goto

(***************************************************************************)
(* Local variables keep their types.                                       *)
(***************************************************************************)
LEMMA JobUpdates ==
    ASSUME NEW j \in Job, NEW m \in Meta, NEW s \in SUBSET Repo
    PROVE  /\ [j EXCEPT !.held = m] \in Job
           /\ [j EXCEPT !.held = m, !.todo = s] \in Job
           /\ [j EXCEPT !.todo = s, !.done = s] \in Job
BY DEF Job

(***************************************************************************)
(* A call that changes nothing on disk.                                    *)
(***************************************************************************)
LEMMA SameDisk ==
    ASSUME DiskOK, UNCHANGED <<ws, arc, reg, base, head>>
    PROVE  DiskOK'
BY DEF DiskOK

(***************************************************************************)
(* One of the two directories of a workspace is replaced.                  *)
(***************************************************************************)
LEMMA WsReplaced ==
    ASSUME DiskOK, NEW i \in Ws, NEW d \in Dir, WellFormed(d),
           ws' = [ws EXCEPT ![i] = d],
           UNCHANGED <<arc, base, head>>, reg' \in SUBSET (Repo \X Ws)
    PROVE  DiskOK'
BY DEF DiskOK

(***************************************************************************)
(* The same for archive/.                                                  *)
(***************************************************************************)
LEMMA ArcReplaced ==
    ASSUME DiskOK, NEW i \in Ws, NEW d \in Dir, WellFormed(d),
           arc' = [arc EXCEPT ![i] = d],
           UNCHANGED <<ws, reg, base, head>>
    PROVE  DiskOK'
BY DEF DiskOK

(***************************************************************************)
(* A directory is moved between workspaces/ and archive/.                  *)
(***************************************************************************)
LEMMA Moved ==
    ASSUME DiskOK, NEW i \in Ws, NEW d \in Dir, NEW e \in Dir,
           WellFormed(d), WellFormed(e),
           ws' = [ws EXCEPT ![i] = d], arc' = [arc EXCEPT ![i] = e],
           UNCHANGED <<reg, base, head>>
    PROVE  DiskOK'
BY DEF DiskOK

(***************************************************************************)
(* A commit of the root takes over one directory or both, or fails.        *)
(***************************************************************************)
LEMMA HeadReplaced ==
    ASSUME DiskOK, NEW i \in Ws, UNCHANGED <<ws, arc, reg, base>>,
           \/ head' = head
           \/ head' = [head EXCEPT ![i].ws = Snap(ws[i])]
           \/ head' = [head EXCEPT ![i].arc = Snap(arc[i])]
           \/ CommitBoth(i)
    PROVE  DiskOK'
BY DirTypes DEF DiskOK, CommitBoth

(***************************************************************************)
(* The baseline of a workspace is written or removed, or neither.          *)
(***************************************************************************)
LEMMA BaseReplaced ==
    ASSUME DiskOK, NEW i \in Ws, UNCHANGED <<ws, arc, reg, head>>,
           base' = base \/ base' = base \cup {i} \/ base' = base \ {i}
    PROVE  DiskOK'
BY DEF DiskOK

(***************************************************************************)
(* The rollbacks, and the two calls of git, as far as they go.             *)
(***************************************************************************)
LEMMA RenameBackType ==
    ASSUME DiskOK, ProcOK, NEW p \in Proc, RenameBack(p),
           UNCHANGED <<reg, base, head>>
    PROVE  DiskOK'
<1>1. Id(p) \in Ws /\ ws[Id(p)] \in Dir /\ WellFormed(ws[Id(p)])
  BY JobFields DEF DiskOK
<1> QED
  BY <1>1, Moved, SameDisk, ConstantTypes DEF RenameBack

(***************************************************************************)
(* The rollback of close writes metadata that was read before.             *)
(***************************************************************************)
LEMMA WriteBackType ==
    ASSUME DiskOK, ProcOK, NEW p \in Proc, WriteBack(p),
           UNCHANGED <<arc, reg, base, head>>
    PROVE  DiskOK'
<1>1. Id(p) \in Ws /\ job[p].held \in Meta
  BY JobFields
<1>2. ws[Id(p)] \in Dir /\ WellFormed(ws[Id(p)])
  BY <1>1 DEF DiskOK
<1>3. CASE ws' # ws
  <2>1. /\ ws' = [ws EXCEPT ![Id(p)] = WithMeta(ws[Id(p)], job[p].held)]
        /\ ws[Id(p)].there
    BY <1>3 DEF WriteBack
  <2>2. reg' \in SUBSET (Repo \X Ws)
    BY DEF DiskOK
  <2> QED
    BY <1>1, <1>2, <2>1, <2>2, WithMetaType, WsReplaced
<1>4. CASE ws' = ws
  BY <1>4, SameDisk
<1> QED
  BY <1>3, <1>4

(***************************************************************************)
(* A command writes the metadata of a workspace that is there.             *)
(***************************************************************************)
LEMMA MetaWritten ==
    ASSUME DiskOK, NEW i \in Ws, NEW m \in Meta, ws[i].there,
           ws' = [ws EXCEPT ![i] = WithMeta(@, m)],
           UNCHANGED <<arc, reg, base, head>>
    PROVE  DiskOK'
<1>1. ws[i] \in Dir /\ WellFormed(ws[i]) /\ reg' \in SUBSET (Repo \X Ws)
  BY DEF DiskOK
<1> QED
  BY <1>1, WithMetaType, WsReplaced DEF DiskOK

(***************************************************************************)
(* git worktree add and git worktree remove.                               *)
(***************************************************************************)
LEMMA TreeCalls ==
    ASSUME DiskOK, NEW i \in Ws, NEW r \in Repo,
           AddTree(i, r) \/ RemoveTree(i, r), UNCHANGED <<arc, base, head>>
    PROVE  DiskOK'
<1>1. ws[i] \in Dir /\ WellFormed(ws[i])
  BY DEF DiskOK
<1>2. reg' \in SUBSET (Repo \X Ws)
  BY DEF DiskOK, AddTree, RemoveTree
<1>3. CASE ws' = ws
  BY <1>2, <1>3 DEF DiskOK
<1>4. CASE ws' # ws
  BY <1>1, <1>2, <1>4, TreeTypes, WsReplaced DEF AddTree, RemoveTree, DiskOK
<1> QED
  BY <1>3, <1>4
-----------------------------------------------------------------------------
(***************************************************************************)
(* Each command preserves TypeOK                                           *)
(***************************************************************************)
LEMMA CreateTypes ==
    ASSUME DiskOK, ProcOK, NEW p \in Proc, CreateStep(p)
    PROVE  DiskOK' /\ ProcOK'
<1>1. Id(p) \in Ws
  BY JobFields
<1>2. CASE CreateStat(p)
  BY <1>2, SameDisk, ReturnType, GotoType DEF CreateStat, Labels, disk
<1>3. CASE CreateMkdir(p)
  <2>1. ProcOK'
    BY <1>3, ReturnType, GotoType DEF CreateMkdir, Labels
  <2>2. DiskOK'
    BY <1>1, <1>3, ConstantTypes, WsReplaced, SameDisk
       DEF CreateMkdir, disk, DiskOK
  <2> QED
    BY <2>1, <2>2
<1>4. CASE CreateFill(p)
  <2>1. ProcOK'
    BY <1>4, ReturnType, GotoType DEF CreateFill, Labels
  <2>2. ws[Id(p)] \in Dir /\ WellFormed(ws[Id(p)])
    BY <1>1 DEF DiskOK
  <2>3. DiskOK'
    BY <1>1, <1>4, <2>2, ConstantTypes, WithMetaType, WsReplaced
       DEF CreateFill, DiskOK
  <2> QED
    BY <2>1, <2>3
<1>5. CASE CreateBaseline(p)
  BY <1>1, <1>5, ReturnType, GotoType DEF CreateBaseline, Labels, DiskOK
<1>6. CASE CreateCommit(p)
  BY <1>1, <1>6, DirTypes, ReturnType DEF CreateCommit, DiskOK
<1> QED
  BY <1>2, <1>3, <1>4, <1>5, <1>6 DEF CreateStep

(***************************************************************************)
(* ws lock and ws unlock preserve the types.                               *)
(***************************************************************************)
LEMMA GuardTypes ==
    ASSUME DiskOK, ProcOK, NEW p \in Proc, GuardStep(p)
    PROVE  DiskOK' /\ ProcOK'
<1>1. Id(p) \in Ws /\ job[p].held \in Meta /\ job[p].opt \in BOOLEAN
  BY JobFields DEF Job
<1>2. CASE GuardLoad(p)
  <2>1. \A i \in Ws : ws[i].meta \in Meta /\ arc[i].meta \in Meta
    BY DirTypes DEF DiskOK
  <2> DEFINE i == Id(p)
             w == IF ws[i].there THEN "ws" ELSE "arc"
             d == IF ws[i].there THEN ws[i] ELSE arc[i]
             k == [job[p] EXCEPT !.held = d.meta, !.where = w]
  <2>2. d.meta \in Meta
    BY <1>1, <2>1
  <2>3. k \in Job
    <3>1. w \in {"ws", "arc"}
      OBVIOUS
    <3> HIDE DEF w, d
    <3> QED
      BY <2>2, <3>1, JobFields DEF Job
  <2>4. \/ job' = [job EXCEPT ![p] = k] /\ Goto(p, "guard.write")
        \/ Return(p)
    <3>1. \/ /\ job' = [job EXCEPT ![p].held = d.meta, ![p].where = w]
             /\ Goto(p, "guard.write")
          \/ Return(p)
      BY <1>2 DEF GuardLoad
    <3> HIDE DEF w, d
    <3> QED
      BY <3>1, JobFields DEF ProcOK
  <2>5. ProcOK'
    <3> HIDE DEF k
    <3>1. CASE job' = [job EXCEPT ![p] = k] /\ Goto(p, "guard.write")
      BY <2>3, <3>1 DEF Goto, ProcOK, Labels
    <3>2. CASE Return(p)
      BY <3>2, ReturnType
    <3> QED
      BY <2>4, <3>1, <3>2
  <2> QED
    BY <1>2, <2>5, SameDisk DEF GuardLoad, disk
<1>3. CASE GuardWrite(p)
  <2> DEFINE m == [job[p].held EXCEPT !.guard = job[p].opt]
             i == Id(p)
  <2>1. m \in Meta
    BY <1>1 DEF Meta
  <2>2. ProcOK'
    BY <1>3, ReturnType DEF GuardWrite
  <2>3. \/ ws[i].there /\ ws' = [ws EXCEPT ![i] = WithMeta(@, m)] /\ arc' = arc
        \/ arc[i].there /\ arc' = [arc EXCEPT ![i] = WithMeta(@, m)] /\ ws' = ws
        \/ ws' = ws /\ arc' = arc
    BY <1>3 DEF GuardWrite
  <2>4. UNCHANGED <<reg, base, head>>
    BY <1>3 DEF GuardWrite
  <2>5. arc[i] \in Dir /\ WellFormed(arc[i])
    BY <1>1 DEF DiskOK
  <2> HIDE DEF m, i
  <2>6. i \in Ws
    BY <1>1 DEF i
  <2>7. DiskOK'
    BY <2>1, <2>3, <2>4, <2>5, <2>6, MetaWritten, WithMetaType, ArcReplaced,
       SameDisk DEF disk
  <2> QED
    BY <2>2, <2>7
<1> QED
  BY <1>2, <1>3 DEF GuardStep

(***************************************************************************)
(* ws close preserves the types.                                           *)
(***************************************************************************)
LEMMA CloseTypes ==
    ASSUME DiskOK, ProcOK, NEW p \in Proc, CloseStep(p)
    PROVE  DiskOK' /\ ProcOK'
<1> DEFINE i == Id(p)
<1>1. /\ i \in Ws /\ job[p] \in Job
      /\ job[p].next \in Meta
      /\ job[p].todo \subseteq Repo
  BY JobFields
<1>2. ws[i] \in Dir /\ WellFormed(ws[i])
  BY <1>1 DEF DiskOK
<1>3. CASE CloseRisk(p)
  <2>1. Risky(ws[i]) \subseteq Repo
    BY <1>2, DirTypes
  <2>2. ProcOK'
    BY <1>1, <1>3, <2>1, ReturnType DEF CloseRisk, Goto, ProcOK, Job, Labels
  <2> QED
    BY <1>3, <2>2, SameDisk DEF CloseRisk, disk
<1>4. CASE CloseScan(p)
  <2>1. ws[i].meta \in Meta /\ ClosedMeta(ws[i]) \in Meta /\ Bound(ws[i]) \subseteq Repo
    BY <1>2, DirTypes
  <2>2. ProcOK'
    BY <1>1, <1>4, <2>1, ReturnType DEF CloseScan, Goto, ProcOK, Job, Labels
  <2> QED
    BY <1>4, <2>2, SameDisk DEF CloseScan, disk
<1>5. CASE ClosePreCommit(p)
  <2>1. ProcOK'
    BY <1>5, ReturnType, GotoType DEF ClosePreCommit, Labels
  <2>2. DiskOK'
    BY <1>1, <1>5, HeadReplaced DEF ClosePreCommit
  <2> QED
    BY <2>1, <2>2
<1>6. CASE CloseRemoveTree(p)
  <2>1. PICK r \in job[p].todo :
            \/ /\ RemoveTree(i, r)
               /\ job' = [job EXCEPT ![p].todo = @ \ {r}]
               /\ UNCHANGED pc
            \/ /\ MayFail(p) /\ r \in ws[i].trees
               /\ WriteBack(p) /\ Return(p) /\ UNCHANGED reg
    BY <1>6 DEF CloseRemoveTree
  <2>2. UNCHANGED <<arc, base, head>>
    BY <1>6 DEF CloseRemoveTree
  <2>3. ProcOK'
    BY <1>1, <2>1, ReturnType DEF ProcOK, Job
  <2>4. DiskOK'
    BY <1>1, <2>1, <2>2, TreeCalls, WriteBackType
  <2> QED
    BY <2>3, <2>4
<1>7. CASE CloseWriteMeta(p)
  <2>1. ProcOK'
    BY <1>7, ReturnType, GotoType DEF CloseWriteMeta, Labels
  <2>2. DiskOK'
    BY <1>1, <1>7, MetaWritten, WriteBackType DEF CloseWriteMeta
  <2> QED
    BY <2>1, <2>2
<1>8. CASE CloseRename(p)
  <2>1. ProcOK'
    BY <1>8, ReturnType, GotoType DEF CloseRename, Labels
  <2>2. DiskOK'
    BY <1>1, <1>2, <1>8, Moved, WriteBackType, ConstantTypes DEF CloseRename
  <2> QED
    BY <2>1, <2>2
<1>9. CASE CloseBaseline(p)
  <2>1. ProcOK'
    BY <1>9, ReturnType, GotoType DEF CloseBaseline, Labels
  <2>2. DiskOK'
    BY <1>1, <1>9, BaseReplaced DEF CloseBaseline
  <2> QED
    BY <2>1, <2>2
<1>10. CASE CloseCommit(p)
  <2>1. ProcOK'
    BY <1>10, ReturnType DEF CloseCommit
  <2>2. DiskOK'
    BY <1>1, <1>10, HeadReplaced DEF CloseCommit
  <2> QED
    BY <2>1, <2>2
<1> QED
  BY <1>3, <1>4, <1>5, <1>6, <1>7, <1>8, <1>9, <1>10 DEF CloseStep

(***************************************************************************)
(* ws reopen preserves the types.                                          *)
(***************************************************************************)
LEMMA ReopenTypes ==
    ASSUME DiskOK, ProcOK, NEW p \in Proc, ReopenStep(p)
    PROVE  DiskOK' /\ ProcOK'
<1> DEFINE i == Id(p)
<1>1. /\ i \in Ws /\ job[p] \in Job
      /\ job[p].held \in Meta
      /\ job[p].todo \subseteq Repo
  BY JobFields
<1>2. /\ ws[i] \in Dir /\ WellFormed(ws[i])
      /\ arc[i] \in Dir /\ WellFormed(arc[i])
  BY <1>1 DEF DiskOK
<1>3. CASE ReopenStat(p)
  <2>1. ProcOK'
    BY <1>3, ReturnType, GotoType DEF ReopenStat, Labels
  <2> QED
    BY <1>3, <2>1, SameDisk DEF ReopenStat, disk
<1>4. CASE ReopenPreCommit(p)
  <2>1. ProcOK'
    BY <1>4, ReturnType, GotoType DEF ReopenPreCommit, Labels
  <2>2. DiskOK'
    BY <1>1, <1>4, HeadReplaced DEF ReopenPreCommit
  <2> QED
    BY <2>1, <2>2
<1>5. CASE ReopenRename(p)
  <2>1. ProcOK'
    BY <1>5, ReturnType, GotoType DEF ReopenRename, Labels
  <2>2. DiskOK'
    BY <1>1, <1>2, <1>5, Moved, SameDisk, ConstantTypes DEF ReopenRename, disk
  <2> QED
    BY <2>1, <2>2
<1>6. CASE ReopenLoad(p)
  <2>1. ws[i].meta \in Meta /\ Restorable(ws[i].meta) \subseteq Repo
    BY <1>2, DirTypes
  <2>2. ProcOK'
    <3>1. \/ /\ job' = [job EXCEPT ![p] = [job[p] EXCEPT
                            !.held = ws[i].meta,
                            !.todo = Restorable(ws[i].meta)]]
             /\ Goto(p, "reopen.add")
          \/ Return(p)
      BY <1>6 DEF ReopenLoad
    <3>2. "reopen.add" \in Labels
      BY DEF Labels
    <3> QED
      BY <1>1, <2>1, <3>1, <3>2, ReturnType, JobReplaced, JobUpdates
  <2>3. DiskOK'
    BY <1>1, <1>6, RenameBackType, SameDisk DEF ReopenLoad, disk
  <2> QED
    BY <2>2, <2>3
<1>7. CASE ReopenAddTree(p)
  <2>1. PICK r \in job[p].todo :
            \/ /\ AddTree(i, r)
               /\ job' = [job EXCEPT ![p].todo = @ \ {r}]
               /\ UNCHANGED <<pc, arc>>
            \/ RenameBack(p) /\ Return(p) /\ UNCHANGED reg
    BY <1>7 DEF ReopenAddTree
  <2>2. UNCHANGED <<base, head>>
    BY <1>7 DEF ReopenAddTree
  <2>3. ProcOK'
    BY <1>1, <2>1, ReturnType DEF ProcOK, Job
  <2>4. DiskOK'
    BY <1>1, <2>1, <2>2, TreeCalls, RenameBackType
  <2> QED
    BY <2>3, <2>4
<1>8. CASE ReopenWriteMeta(p)
  <2>1. [job[p].held EXCEPT !.status = "active"] \in Meta
    BY <1>1 DEF Meta
  <2>2. ProcOK'
    BY <1>8, ReturnType, GotoType DEF ReopenWriteMeta, Labels
  <2>3. DiskOK'
    BY <1>1, <1>8, <2>1, MetaWritten, RenameBackType DEF ReopenWriteMeta
  <2> QED
    BY <2>2, <2>3
<1>9. CASE ReopenBaseline(p)
  <2>1. ProcOK'
    BY <1>9, ReturnType, GotoType DEF ReopenBaseline, Labels
  <2>2. DiskOK'
    BY <1>1, <1>9, BaseReplaced DEF ReopenBaseline
  <2> QED
    BY <2>1, <2>2
<1>10. CASE ReopenCommit(p)
  <2>1. ProcOK'
    BY <1>10, ReturnType DEF ReopenCommit
  <2>2. DiskOK'
    BY <1>1, <1>10, HeadReplaced DEF ReopenCommit
  <2> QED
    BY <2>1, <2>2
<1> QED
  BY <1>3, <1>4, <1>5, <1>6, <1>7, <1>8, <1>9, <1>10 DEF ReopenStep

(***************************************************************************)
(* ws purge preserves the types.                                           *)
(***************************************************************************)
LEMMA PurgeTypes ==
    ASSUME DiskOK, ProcOK, NEW p \in Proc, PurgeStep(p)
    PROVE  DiskOK' /\ ProcOK'
<1> DEFINE i == Id(p)
<1>1. i \in Ws /\ job[p] \in Job /\ job[p].todo \subseteq Repo
  BY JobFields
<1>2. /\ ws[i] \in Dir /\ WellFormed(ws[i])
      /\ arc[i] \in Dir /\ WellFormed(arc[i])
      /\ reg \in SUBSET (Repo \X Ws)
  BY <1>1 DEF DiskOK
<1>3. CASE PurgeCheck(p)
  <2>1. ProcOK'
    BY <1>3, ReturnType, GotoType DEF PurgeCheck, Labels
  <2> QED
    BY <1>3, <2>1, SameDisk DEF PurgeCheck, disk
<1>4. CASE PurgePreCommit(p)
  <2>1. ProcOK'
    BY <1>4, ReturnType, GotoType DEF PurgePreCommit, Labels
  <2>2. DiskOK'
    BY <1>1, <1>4, HeadReplaced DEF PurgePreCommit
  <2> QED
    BY <2>1, <2>2
<1>5. CASE PurgeList(p)
  <2>1. Bound(ws[i]) \subseteq Repo
    BY <1>2, DirTypes
  <2>2. ProcOK'
    BY <1>1, <1>5, <2>1, ReturnType DEF PurgeList, Goto, ProcOK, Job, Labels
  <2> QED
    BY <1>5, <2>2, SameDisk DEF PurgeList, disk
<1>6. CASE PurgeRemoveTree(p)
  <2>1. PICK r \in job[p].todo :
            \/ /\ RemoveTree(i, r)
               /\ job' = [job EXCEPT ![p].todo = @ \ {r}]
               /\ UNCHANGED pc
            \/ Return(p) /\ UNCHANGED <<ws, reg>>
    BY <1>6 DEF PurgeRemoveTree
  <2>2. UNCHANGED <<arc, base, head>>
    BY <1>6 DEF PurgeRemoveTree
  <2>3. ProcOK'
    BY <1>1, <2>1, ReturnType DEF ProcOK, Job
  <2>4. DiskOK'
    BY <1>1, <2>1, <2>2, TreeCalls, SameDisk DEF disk
  <2> QED
    BY <2>3, <2>4
<1>7. CASE PurgeDeleteWs(p)
  <2>1. ProcOK'
    BY <1>7, ReturnType, GotoType DEF PurgeDeleteWs, Labels
  <2>2. DiskOK'
    BY <1>1, <1>2, <1>7, WsReplaced, SameDisk, ConstantTypes
       DEF PurgeDeleteWs, disk
  <2> QED
    BY <2>1, <2>2
<1>8. CASE PurgeDeleteFiles(p)
  <2>1. ProcOK'
    BY <1>8, ReturnType, GotoType DEF PurgeDeleteFiles, Labels
  <2>2. WithMeta(arc[i], NoMeta) \in Dir /\ WellFormed(WithMeta(arc[i], NoMeta))
    BY <1>2, WithMetaType, ConstantTypes
  <2>3. DiskOK'
    BY <1>1, <1>8, <2>2, ArcReplaced, SameDisk DEF PurgeDeleteFiles, disk
  <2> QED
    BY <2>1, <2>3
<1>9. CASE PurgeDeleteArc(p)
  <2>1. ProcOK'
    BY <1>9, ReturnType, GotoType DEF PurgeDeleteArc, Labels
  <2>2. DiskOK'
    BY <1>1, <1>9, ArcReplaced, SameDisk, ConstantTypes
       DEF PurgeDeleteArc, disk
  <2> QED
    BY <2>1, <2>2
<1>10. CASE PurgeBaseline(p)
  <2>1. ProcOK'
    BY <1>10, ReturnType, GotoType DEF PurgeBaseline, Labels
  <2>2. DiskOK'
    BY <1>1, <1>10, BaseReplaced DEF PurgeBaseline
  <2> QED
    BY <2>1, <2>2
<1>11. CASE PurgeCommit(p)
  <2>1. ProcOK'
    BY <1>11, ReturnType DEF PurgeCommit
  <2>2. DiskOK'
    BY <1>1, <1>11, HeadReplaced DEF PurgeCommit
  <2> QED
    BY <2>1, <2>2
<1> QED
  BY <1>3, <1>4, <1>5, <1>6, <1>7, <1>8, <1>9, <1>10, <1>11 DEF PurgeStep

(***************************************************************************)
(* ws add-repo preserves the types.                                        *)
(***************************************************************************)
LEMMA AddRepoTypes ==
    ASSUME DiskOK, ProcOK, NEW p \in Proc, AddRepoStep(p)
    PROVE  DiskOK' /\ ProcOK'
<1> DEFINE i == Id(p)
<1>1. /\ i \in Ws /\ job[p] \in Job /\ job[p].held \in Meta
      /\ job[p].todo \subseteq Repo /\ job[p].done \subseteq Repo
  BY JobFields
<1>2. ws[i] \in Dir /\ WellFormed(ws[i]) /\ reg \in SUBSET (Repo \X Ws)
  BY <1>1 DEF DiskOK
<1>3. CASE AddPlan(p)
  <2>1. \/ /\ \E s \in SUBSET Repo : job' = [job EXCEPT ![p].todo = s]
           /\ Goto(p, "add.apply")
        \/ Return(p)
    BY <1>3 DEF AddPlan
  <2>2. ProcOK'
    BY <1>1, <2>1, ReturnType DEF Goto, ProcOK, Job, Labels
  <2> QED
    BY <1>3, <2>2, SameDisk DEF AddPlan
<1>4. CASE AddTreeOf(p)
  <2>1. PICK r \in job[p].todo :
            \/ /\ AddTree(i, r)
               /\ job' = [job EXCEPT ![p].todo = @ \ {r}, ![p].done = @ \cup {r}]
               /\ UNCHANGED pc
            \/ Goto(p, "add.rollback") /\ UNCHANGED <<ws, reg, job>>
    BY <1>4 DEF AddTreeOf
  <2>2. UNCHANGED <<arc, base, head>>
    BY <1>4 DEF AddTreeOf
  <2>3. ProcOK'
    BY <1>1, <2>1 DEF Goto, ProcOK, Job, Labels
  <2>4. DiskOK'
    BY <1>1, <2>1, <2>2, TreeCalls, SameDisk DEF disk
  <2> QED
    BY <2>3, <2>4
<1>5. CASE AddLoadMeta(p)
  <2>1. ws[i].meta \in Meta
    BY <1>2, DirTypes
  <2>2. ProcOK'
    BY <1>1, <1>5, <2>1, GotoType DEF AddLoadMeta, Goto, ProcOK, Job, Labels
  <2> QED
    BY <1>5, <2>2, SameDisk DEF AddLoadMeta, disk
<1>6. CASE AddWriteMeta(p)
  <2>1. [job[p].held EXCEPT
            !.restore = [r \in Repo |->
                IF r \in job[p].done THEN "full" ELSE @[r]]] \in Meta
    BY <1>1 DEF Meta, Entry
  <2>2. ProcOK'
    BY <1>6, ReturnType, GotoType DEF AddWriteMeta, Labels
  <2>3. DiskOK'
    BY <1>1, <1>6, <2>1, MetaWritten, SameDisk DEF AddWriteMeta, disk
  <2> QED
    BY <2>2, <2>3
<1>7. CASE AddRollback(p)
  <2>1. UNCHANGED <<arc, base, head>>
    BY <1>7 DEF AddRollback
  <2>2. CASE job[p].done = {} /\ Return(p) /\ UNCHANGED <<ws, reg>>
    BY <2>1, <2>2, ReturnType, SameDisk
  <2>3. CASE \E r \in job[p].done :
                /\ \/ ws' = [ws EXCEPT ![i] = WithoutTree(ws[i], r)]
                   \/ ws' = ws
                /\ reg' = reg \ {<<r, i>>} \/ reg' = reg
                /\ job' = [job EXCEPT ![p].done = @ \ {r}]
                /\ UNCHANGED pc
    <3>1. PICK r \in job[p].done :
                /\ \/ ws' = [ws EXCEPT ![i] = WithoutTree(ws[i], r)]
                   \/ ws' = [ws EXCEPT ![i] = ws[i]]
                /\ reg' = reg \ {<<r, i>>} \/ reg' = reg
                /\ job' = [job EXCEPT ![p].done = @ \ {r}]
                /\ UNCHANGED pc
      BY <2>3 DEF DiskOK
    <3>2. ProcOK'
      BY <1>1, <3>1 DEF ProcOK, Job
    <3>3. WithoutTree(ws[i], r) \in Dir /\ WellFormed(WithoutTree(ws[i], r))
      BY <1>1, <1>2, TreeTypes
    <3>4. reg' \in SUBSET (Repo \X Ws)
      BY <1>2, <3>1
    <3>5. DiskOK'
      BY <1>1, <1>2, <2>1, <3>1, <3>3, <3>4, WsReplaced
    <3> QED
      BY <3>2, <3>5
  <2> QED
    BY <1>7, <2>2, <2>3 DEF AddRollback
<1> QED
  BY <1>3, <1>4, <1>5, <1>6, <1>7 DEF AddRepoStep

(***************************************************************************)
(* ws remove-repo preserves the types.                                     *)
(***************************************************************************)
LEMMA RemoveRepoTypes ==
    ASSUME DiskOK, ProcOK, NEW p \in Proc, RemoveRepoStep(p)
    PROVE  DiskOK' /\ ProcOK'
<1> DEFINE i == Id(p)
<1>1. /\ i \in Ws /\ job[p] \in Job /\ job[p].held \in Meta
      /\ job[p].todo \subseteq Repo /\ job[p].done \subseteq Repo
  BY JobFields
<1>2. ws[i] \in Dir /\ WellFormed(ws[i])
  BY <1>1 DEF DiskOK
<1>3. CASE RemovePlan(p)
  <2>1. Bound(ws[i]) \subseteq Repo
    BY <1>2, DirTypes
  <2>2. \/ /\ \E s \in SUBSET Repo : job' = [job EXCEPT
                  ![p] = [job[p] EXCEPT !.todo = s, !.done = s]]
           /\ Goto(p, "remove.rm")
        \/ Return(p)
    BY <1>3, <2>1 DEF RemovePlan
  <2>3. "remove.rm" \in Labels /\ NoMeta \in Meta
    BY ConstantTypes DEF Labels
  <2>4. ProcOK'
    BY <1>1, <2>2, <2>3, ReturnType, JobReplaced, JobUpdates
  <2> QED
    BY <1>3, <2>4, SameDisk DEF RemovePlan, disk
<1>4. CASE RemoveTreeOf(p)
  <2>1. PICK r \in job[p].todo :
            \/ /\ RemoveTree(i, r)
               /\ job' = [job EXCEPT ![p].todo = @ \ {r}]
               /\ UNCHANGED pc
            \/ Return(p) /\ UNCHANGED <<ws, reg>>
    BY <1>4 DEF RemoveTreeOf
  <2>2. UNCHANGED <<arc, base, head>>
    BY <1>4 DEF RemoveTreeOf
  <2>3. ProcOK'
    BY <1>1, <2>1, ReturnType DEF ProcOK, Job
  <2>4. DiskOK'
    BY <1>1, <2>1, <2>2, TreeCalls, SameDisk DEF disk
  <2> QED
    BY <2>3, <2>4
<1>5. CASE RemoveLoadMeta(p)
  <2>1. ws[i].meta \in Meta
    BY <1>2, DirTypes
  <2>2. ProcOK'
    <3>1. \/ /\ job' = [job EXCEPT ![p] = [job[p] EXCEPT !.held = ws[i].meta]]
             /\ Goto(p, "remove.write")
          \/ Return(p)
      BY <1>5 DEF RemoveLoadMeta
    <3>2. "remove.write" \in Labels
      BY DEF Labels
    <3> QED
      BY <1>1, <2>1, <3>1, <3>2, ReturnType, JobReplaced, JobUpdates
  <2> QED
    BY <1>5, <2>2, SameDisk DEF RemoveLoadMeta, disk
<1>6. CASE RemoveWriteMeta(p)
  <2>1. [job[p].held EXCEPT
            !.restore = [r \in Repo |->
                IF r \in job[p].done THEN "absent" ELSE @[r]]] \in Meta
    BY <1>1 DEF Meta, Entry
  <2>2. ProcOK'
    BY <1>6, ReturnType DEF RemoveWriteMeta
  <2>3. DiskOK'
    BY <1>1, <1>6, <2>1, MetaWritten, SameDisk DEF RemoveWriteMeta, disk
  <2> QED
    BY <2>2, <2>3
<1> QED
  BY <1>3, <1>4, <1>5, <1>6 DEF RemoveRepoStep
-----------------------------------------------------------------------------
(***************************************************************************)
(* Type correctness                                                        *)
(***************************************************************************)
LEMMA InitTypes == Init => TypeOK
<1>1. SUFFICES ASSUME Init PROVE TypeOK
  OBVIOUS
<1>2. Snap(NoDir) \in Snapshot
  BY ConstantTypes, DirTypes
<1> QED
  BY <1>1, <1>2, ConstantTypes DEF Init, TypeOK, Labels

(***************************************************************************)
(* What a step of a command does to the scars: at most one is added, to    *)
(* its own workspace.                                                      *)
(***************************************************************************)
LEMMA StepScars ==
    ASSUME NEW p \in Proc, Step(p)
    PROVE  scars' = scars \/ \E c \in Scar : scars' = Scarred(Id(p), c)
<1>1. CASE CreateStep(p)
  BY <1>1 DEF CreateStep, CreateStat, CreateMkdir, CreateFill, CreateBaseline,
              CreateCommit, disk, Scar
<1>2. CASE GuardStep(p)
  BY <1>2 DEF GuardStep, GuardLoad, GuardWrite, disk
<1>3. CASE CloseStep(p)
  <2>1. CASE CloseRemoveTree(p) \/ CloseWriteMeta(p) \/ CloseRename(p)
    BY <2>1 DEF CloseRemoveTree, CloseWriteMeta, CloseRename, WriteBack, Scar
  <2>2. CASE \/ CloseRisk(p) \/ CloseScan(p) \/ ClosePreCommit(p)
             \/ CloseBaseline(p) \/ CloseCommit(p)
    BY <2>2 DEF CloseRisk, CloseScan, ClosePreCommit, CloseBaseline,
                CloseCommit, disk
  <2> QED
    BY <1>3, <2>1, <2>2 DEF CloseStep
<1>4. CASE ReopenStep(p)
  <2>1. CASE ReopenLoad(p) \/ ReopenAddTree(p) \/ ReopenWriteMeta(p)
    BY <2>1 DEF ReopenLoad, ReopenAddTree, ReopenWriteMeta, RenameBack, Scar
  <2>2. CASE \/ ReopenStat(p) \/ ReopenPreCommit(p) \/ ReopenRename(p)
             \/ ReopenBaseline(p) \/ ReopenCommit(p)
    BY <2>2 DEF ReopenStat, ReopenPreCommit, ReopenRename, ReopenBaseline,
                ReopenCommit, disk
  <2> QED
    BY <1>4, <2>1, <2>2 DEF ReopenStep
<1>5. CASE PurgeStep(p)
  BY <1>5 DEF PurgeStep, PurgeCheck, PurgePreCommit, PurgeList, PurgeRemoveTree,
              PurgeDeleteWs, PurgeDeleteFiles, PurgeDeleteArc, PurgeBaseline,
              PurgeCommit, disk
<1>6. CASE AddRepoStep(p)
  BY <1>6 DEF AddRepoStep, AddPlan, AddTreeOf, AddLoadMeta, AddWriteMeta,
              AddRollback, disk, Scar
<1>7. CASE RemoveRepoStep(p)
  BY <1>7 DEF RemoveRepoStep, RemovePlan, RemoveTreeOf, RemoveLoadMeta,
              RemoveWriteMeta, disk
<1> QED
  BY <1>1, <1>2, <1>3, <1>4, <1>5, <1>6, <1>7 DEF Step

LEMMA ScarsTypes ==
    ASSUME ProcOK, ScarsOK, [Next]_vars
    PROVE  ScarsOK'
<1>1. ASSUME NEW p \in Proc, Step(p) PROVE ScarsOK'
  BY <1>1, StepScars, JobFields DEF ScarsOK, Scarred
<1>2. ASSUME NEW p \in Proc, Crash(p) PROVE ScarsOK'
  <2>1. Wounds(pc[p]) \subseteq Scar
    BY DEF Wounds
  <2> QED
    BY <1>2, <2>1, JobFields DEF Crash, ScarsOK
<1>3. CASE scars' = scars
  BY <1>3 DEF ScarsOK
<1> QED
  BY <1>1, <1>2, <1>3 DEF Next, Start, EditNote, EditTree, disk, vars

(***************************************************************************)
(* Every step of every process, and of the user, preserves the types.      *)
(***************************************************************************)
LEMMA NextTypes == TypeOK /\ [Next]_vars => TypeOK'
<1>1. SUFFICES ASSUME DiskOK, ProcOK, [Next]_vars PROVE DiskOK' /\ ProcOK'
  BY TypeParts, ScarsTypes DEF TypeOK, DiskOK, ProcOK, ScarsOK
<1>2. ASSUME NEW p \in Proc, Start(p) PROVE DiskOK' /\ ProcOK'
  <2>1. PICK c \in Commands, i \in Ws, o \in Modes \cup {TRUE} :
            /\ pc' = [pc EXCEPT ![p] = FirstCall(c)]
            /\ job' = [job EXCEPT ![p] =
                          [NoJob EXCEPT !.cmd = c, !.id = i, !.opt = o]]
    BY <1>2 DEF Start
  <2>2. c \in AllCommands /\ o \in BOOLEAN
    BY ConstantsAssumption
  <2>3. FirstCall(c) \in Labels
    BY <2>2 DEF FirstCall, Labels, AllCommands
  <2>4. [NoJob EXCEPT !.cmd = c, !.id = i, !.opt = o] \in Job
    BY <2>2, ConstantTypes DEF Job
  <2>5. ProcOK'
    BY <1>1, <2>1, <2>3, <2>4 DEF ProcOK
  <2> QED
    BY <1>1, <1>2, <2>5, SameDisk DEF Start, disk
<1>3. ASSUME NEW p \in Proc, Crash(p) PROVE DiskOK' /\ ProcOK'
  BY <1>1, <1>3, ReturnType, SameDisk DEF Crash
<1>4. ASSUME NEW i \in Ws, EditNote(i) PROVE DiskOK' /\ ProcOK'
  <2>1. ProcOK'
    BY <1>1, <1>4 DEF EditNote, ProcOK
  <2>2. PICK n \in Notes : ws' = [ws EXCEPT ![i] = [ws[i] EXCEPT !.note = n]]
    BY <1>1, <1>4 DEF EditNote, DiskOK
  <2>3. ws[i] \in Dir /\ WellFormed(ws[i]) /\ reg \in SUBSET (Repo \X Ws)
    BY <1>1 DEF DiskOK
  <2>4. [ws[i] EXCEPT !.note = n] \in Dir /\ WellFormed([ws[i] EXCEPT !.note = n])
    BY <2>3 DEF Dir, WellFormed, HasMeta
  <2>5. UNCHANGED <<arc, reg, base, head>>
    BY <1>4 DEF EditNote
  <2> QED
    BY <1>1, <2>1, <2>2, <2>3, <2>4, <2>5, WsReplaced
<1>5. ASSUME NEW i \in Ws, EditTree(i) PROVE DiskOK' /\ ProcOK'
  <2>1. ProcOK'
    BY <1>1, <1>5 DEF EditTree, ProcOK
  <2>2. ws[i] \in Dir /\ WellFormed(ws[i]) /\ reg \in SUBSET (Repo \X Ws)
    BY <1>1 DEF DiskOK
  <2>3. PICK s \in SUBSET ws[i].trees :
            \/ ws' = [ws EXCEPT ![i] = [ws[i] EXCEPT !.dirty = s]]
            \/ ws' = [ws EXCEPT ![i] = [ws[i] EXCEPT !.loose = s]]
    <3>1. PICK r \in ws[i].trees :
            \/ ws' = [ws EXCEPT ![i] = [ws[i] EXCEPT !.dirty = ws[i].dirty \cup {r}]]
            \/ ws' = [ws EXCEPT ![i] = [ws[i] EXCEPT !.dirty = ws[i].dirty \ {r}]]
            \/ ws' = [ws EXCEPT ![i] = [ws[i] EXCEPT !.loose = ws[i].loose \cup {r}]]
            \/ ws' = [ws EXCEPT ![i] = [ws[i] EXCEPT !.loose = ws[i].loose \ {r}]]
      BY <1>5 DEF EditTree
    <3>2. /\ ws[i].dirty \cup {r} \in SUBSET ws[i].trees
          /\ ws[i].dirty \ {r} \in SUBSET ws[i].trees
          /\ ws[i].loose \cup {r} \in SUBSET ws[i].trees
          /\ ws[i].loose \ {r} \in SUBSET ws[i].trees
      BY <2>2 DEF WellFormed
    <3> QED
      BY <3>1, <3>2
  <2>4. /\ [ws[i] EXCEPT !.dirty = s] \in Dir /\ WellFormed([ws[i] EXCEPT !.dirty = s])
        /\ [ws[i] EXCEPT !.loose = s] \in Dir /\ WellFormed([ws[i] EXCEPT !.loose = s])
    BY <2>2 DEF Dir, WellFormed, HasMeta
  <2>5. UNCHANGED <<arc, reg, base, head>>
    BY <1>5 DEF EditTree
  <2> QED
    BY <1>1, <2>1, <2>2, <2>3, <2>4, <2>5, WsReplaced
<1>6. CASE UNCHANGED vars
  BY <1>1, <1>6 DEF vars, DiskOK, ProcOK
<1> QED
  BY <1>1, <1>2, <1>3, <1>4, <1>5, <1>6, CreateTypes, GuardTypes, CloseTypes,
     ReopenTypes, PurgeTypes, AddRepoTypes, RemoveRepoTypes DEF Next, Step

(***************************************************************************)
(* The commands keep the disk well formed and stay within their code,      *)
(* however they interleave, fail and die.                                  *)
(***************************************************************************)
THEOREM TypeCorrect == Spec => []TypeOK
BY InitTypes, NextTypes, PTL DEF Spec
=============================================================================
