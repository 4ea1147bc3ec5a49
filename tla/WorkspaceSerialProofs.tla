----------------------- MODULE WorkspaceSerialProofs -----------------------
(***************************************************************************)
(* Theorems about WorkspaceLifecycle for the case that no two commands     *)
(* work on one workspace at a time, but for add-repo commands, of which    *)
(* any number may (OnlyAddsOverlap): the lock they take does not keep them *)
(* apart for certain.  Every call of every command may fail, the calls of  *)
(* the rollbacks included, and every process may die between two calls.    *)
(*                                                                         *)
(* A step of a command changes one workspace, and what other processes     *)
(* know is about other workspaces, or is what an add-repo knows and no     *)
(* add-repo changes: OwnStep and Turn say so, and reduce every claim about *)
(* the whole state to one about the workspace of the step.                 *)
(***************************************************************************)
EXTENDS WorkspaceLifecycleProofs, Doctor

AddCalls == {"add.plan", "add.apply", "add.write", "add.rollback"}

(***************************************************************************)
(* Of two commands on one workspace, both are add-repo.                    *)
(***************************************************************************)
OnlyAddsOverlap ==
    \A p, q \in Proc :
        p # q /\ pc[p] # "idle" /\ pc[q] # "idle" /\ Id(p) = Id(q)
        => {pc[p], pc[q]} \subseteq AddCalls

(***************************************************************************)
(* Metadata m that a process holds has the guard that directory d has.     *)
(***************************************************************************)
Agrees(m, d) ==
    /\ HasMeta(d)
    /\ m.status # "absent"
    /\ m.guard = d.meta.guard

(***************************************************************************)
(* What process p has found out about its workspace, at the call it makes  *)
(* next.                                                                   *)
(***************************************************************************)
Fresh(p) ==
    LET w == ws[Id(p)]
        a == arc[Id(p)]
        j == job[p]
    IN  /\ pc[p] \in {"create.mkdir", "reopen.load", "reopen.add", "add.apply"}
           => ~a.there
        /\ pc[p] = "create.fill" => ~HasMeta(w) /\ ~HasMeta(a)
        /\ pc[p] = "guard.write" =>
              IF j.where = "ws" THEN Agrees(j.held, w)
              ELSE Agrees(j.held, a) /\ ~HasMeta(w)
        /\ pc[p] \in {"close.pre", "close.rm", "close.rename"}
           => Agrees(j.held, w) /\ Agrees(j.next, w)
        /\ pc[p] \in {"reopen.add", "add.write", "remove.write"}
           => Agrees(j.held, w)
        /\ pc[p] \in {"purge.pre", "purge.list", "purge.rm", "purge.delarc"}
           => ~w.there /\ HasMeta(a) /\ ~a.meta.guard
        /\ pc[p] = "purge.rmdir" => ~w.there /\ ~HasMeta(a)

ViewsFresh == \A p \in Proc : Fresh(p)

(***************************************************************************)
(* The inductive invariant.  Exclusive alone is not inductive: that a call *)
(* may create or fill a directory follows from what an earlier call of the *)
(* same command has seen, which must still be so (ViewsFresh).             *)
(***************************************************************************)
SerialInv == TypeOK /\ Exclusive /\ ViewsFresh

OwnStep(p) ==
    /\ pc[p] # "idle"
    /\ \A q \in Proc \ {p} : pc'[q] = pc[q] /\ job'[q] = job[q]
    /\ \A k \in Ws \ {Id(p)} : ws'[k] = ws[k] /\ arc'[k] = arc[k]
    /\ pc'[p] = "idle" \/ job'[p].id = job[p].id

(***************************************************************************)
(* A process writes when no other one is at work on its workspace, or it   *)
(* is an add-repo and writes what other add-repos do not look at: entries  *)
(* and worktrees.                                                          *)
(***************************************************************************)
Sole(p) == \A q \in Proc \ {p} : pc[q] # "idle" => Id(q) # Id(p)

AddKeeps(i) ==
    /\ arc'[i] = arc[i]
    /\ HasMeta(ws'[i]) <=> HasMeta(ws[i])
    /\ ws'[i].meta.guard = ws[i].meta.guard

Turn(p) == Sole(p) \/ (pc[p] \in AddCalls /\ AddKeeps(Id(p)))

(***************************************************************************)
(* What has to be shown of one step of process p.                          *)
(***************************************************************************)
LEMMA Frame ==
    ASSUME SerialInv, TypeOK', OnlyAddsOverlap, NEW p \in Proc, OwnStep(p), Turn(p),
           Fresh(p)', ~(ws'[Id(p)].there /\ arc'[Id(p)].there)
    PROVE  SerialInv'
<1>1. Id(p) \in Ws
  BY TypeParts, JobFields DEF SerialInv
<1>2. Exclusive'
  BY <1>1 DEF SerialInv, Exclusive, OwnStep
<1>3. ASSUME NEW q \in Proc PROVE Fresh(q)'
  <2>1. CASE q = p
    BY <2>1
  <2>2. CASE q # p /\ pc[q] = "idle"
    <3>1. pc'[q] = "idle"
      BY <2>2 DEF OwnStep
    <3> QED
      BY <3>1 DEF Fresh
  <2>3. CASE q # p /\ pc[q] # "idle"
    <3>1. /\ pc'[q] = pc[q] /\ job'[q] = job[q] /\ Id(q)' = Id(q)
          /\ Id(q) \in Ws /\ Fresh(q)
      BY <2>3, TypeParts, JobFields DEF OwnStep, SerialInv, ViewsFresh, Id
    <3>2. CASE Id(q) # Id(p)
      <4>1. ws'[Id(q)] = ws[Id(q)] /\ arc'[Id(q)] = arc[Id(q)]
        BY <3>1, <3>2 DEF OwnStep
      <4> QED
        BY <3>1, <4>1 DEF Fresh
    <3>3. CASE Id(q) = Id(p)
      <4>1. pc[q] \in AddCalls /\ AddKeeps(Id(q))
        BY <2>3, <3>3 DEF Turn, Sole, OnlyAddsOverlap, OwnStep
      <4>2. /\ pc[q] = "add.apply" => ~arc[Id(q)].there
            /\ pc[q] = "add.write" => Agrees(job[q].held, ws[Id(q)])
        BY <3>1 DEF Fresh
      <4>3. /\ pc[q] = "add.apply" => ~arc'[Id(q)].there
            /\ pc[q] = "add.write" => Agrees(job[q].held, ws'[Id(q)])
        BY <4>1, <4>2 DEF AddKeeps, Agrees
      <4> QED
        BY <3>1, <4>1, <4>3 DEF Fresh, AddCalls, Agrees, HasMeta
    <3> QED
      BY <3>2, <3>3
  <2> QED
    BY <2>1, <2>2, <2>3
<1> QED
  BY <1>2, <1>3 DEF SerialInv, ViewsFresh

(***************************************************************************)
(* A command that returns knows nothing any more.                          *)
(***************************************************************************)
LEMMA ReturnFresh ==
    ASSUME TypeOK, NEW p \in Proc, Return(p)
    PROVE  Fresh(p)'
<1>1. pc'[p] = "idle"
  BY DEF TypeOK, Return
<1> QED
  BY <1>1 DEF Fresh

(***************************************************************************)
(* How the helpers on directories change place and metadata.               *)
(***************************************************************************)
LEMMA DirFacts ==
    /\ ~NoDir.there /\ ~HasMeta(NoDir)
    /\ EmptyDir.there /\ ~HasMeta(EmptyDir)
    /\ \A d \in Dir, m \in Meta :
          /\ WithMeta(d, m).there = d.there
          /\ WithMeta(d, m).meta = m
    /\ \A d \in Dir, r \in Repo :
          /\ WithTree(d, r).there
          /\ WithTree(d, r).meta = d.meta
          /\ WithoutTree(d, r).there = d.there
          /\ WithoutTree(d, r).meta = d.meta
<1>1. /\ ~NoDir.there /\ ~HasMeta(NoDir)
      /\ EmptyDir.there /\ ~HasMeta(EmptyDir)
  BY DEF NoDir, EmptyDir, HasMeta, NoMeta
<1>2. ASSUME NEW d \in Dir, NEW m \in Meta
      PROVE  /\ WithMeta(d, m).there = d.there
             /\ WithMeta(d, m).meta = m
  BY DEF WithMeta, Dir
<1>3. ASSUME NEW d \in Dir, NEW r \in Repo
      PROVE  /\ WithTree(d, r).there
             /\ WithTree(d, r).meta = d.meta
             /\ WithoutTree(d, r).there = d.there
             /\ WithoutTree(d, r).meta = d.meta
  BY DEF WithTree, WithoutTree, Dir
<1> QED
  BY <1>1, <1>2, <1>3

(***************************************************************************)
(* A step of the abstract specification, or none, for workspace i.         *)
(***************************************************************************)
LifecycleStep(i) ==
    \/ /\ StatusOf(i)' = StatusOf(i)
       /\ GuardOf(i)' = GuardOf(i) \/ StatusOf(i) # "none"
    \/ /\ <<StatusOf(i), StatusOf(i)'>> \in
              {<<"none", "active">>, <<"active", "archived">>,
               <<"archived", "active">>}
       /\ GuardOf(i)' = GuardOf(i)
    \/ /\ StatusOf(i) = "archived" /\ ~GuardOf(i)
       /\ StatusOf(i)' = "none" /\ GuardOf(i)'

(***************************************************************************)
(* The cases in which a change of the two directories is such a step.      *)
(***************************************************************************)
LEMMA MetaKept ==
    ASSUME NEW i \in Ws, ws'[i].meta = ws[i].meta, arc'[i].meta = arc[i].meta
    PROVE  LifecycleStep(i)
BY DEF LifecycleStep, StatusOf, GuardOf, HasMeta

(***************************************************************************)
(* Nothing without metadata counts as a workspace.                         *)
(***************************************************************************)
LEMMA StaysAbsent ==
    ASSUME NEW i \in Ws, ~HasMeta(ws[i]), ~HasMeta(arc[i]),
           ~HasMeta(ws'[i]), ~HasMeta(arc'[i])
    PROVE  LifecycleStep(i)
BY DEF LifecycleStep, StatusOf, GuardOf, HasMeta

(***************************************************************************)
(* Metadata of an active workspace is rewritten.                           *)
(***************************************************************************)
LEMMA StaysActive ==
    ASSUME NEW i \in Ws, HasMeta(ws[i]), HasMeta(ws'[i])
    PROVE  LifecycleStep(i)
BY DEF LifecycleStep, StatusOf, GuardOf, HasMeta

(***************************************************************************)
(* Metadata of an archived workspace is rewritten.                         *)
(***************************************************************************)
LEMMA StaysArchived ==
    ASSUME NEW i \in Ws, ~HasMeta(ws[i]), HasMeta(arc[i]),
           ~HasMeta(ws'[i]), HasMeta(arc'[i])
    PROVE  LifecycleStep(i)
BY DEF LifecycleStep, StatusOf, GuardOf, HasMeta

(***************************************************************************)
(* A new workspace, or an archived one whose guard is carried over.        *)
(***************************************************************************)
LEMMA BecomesActive ==
    ASSUME NEW i \in Ws, ~HasMeta(ws[i]), HasMeta(ws'[i]),
           ws'[i].meta.guard = (IF HasMeta(arc[i]) THEN arc[i].meta.guard ELSE TRUE)
    PROVE  LifecycleStep(i)
BY DEF LifecycleStep, StatusOf, GuardOf, HasMeta

(***************************************************************************)
(* An active workspace is archived with its guard.                         *)
(***************************************************************************)
LEMMA BecomesArchived ==
    ASSUME NEW i \in Ws, HasMeta(ws[i]), ~HasMeta(ws'[i]), HasMeta(arc'[i]),
           arc'[i].meta.guard = ws[i].meta.guard
    PROVE  LifecycleStep(i)
BY DEF LifecycleStep, StatusOf, GuardOf, HasMeta

(***************************************************************************)
(* An archived workspace disappears; its guard is off.                     *)
(***************************************************************************)
LEMMA BecomesAbsent ==
    ASSUME NEW i \in Ws, ~HasMeta(ws[i]), HasMeta(arc[i]), ~arc[i].meta.guard,
           ~HasMeta(ws'[i]), ~HasMeta(arc'[i])
    PROVE  LifecycleStep(i)
BY DEF LifecycleStep, StatusOf, GuardOf, HasMeta

(***************************************************************************)
(* What ws create writes.                                                  *)
(***************************************************************************)
LEMMA FreshMetaFacts == FreshMeta.status = "active" /\ FreshMeta.guard = TRUE
BY DEF FreshMeta, NoMeta

(***************************************************************************)
(* What is to be shown of a step of p.                                     *)
(***************************************************************************)
Good(p) ==
    /\ OwnStep(p)
    /\ Fresh(p)'
    /\ ~(ws'[Id(p)].there /\ arc'[Id(p)].there)
    /\ LifecycleStep(Id(p))

(***************************************************************************)
(* What the invariant says about the workspace of p.                       *)
(***************************************************************************)
LEMMA Here ==
    ASSUME SerialInv, NEW p \in Proc
    PROVE  /\ Id(p) \in Ws
           /\ ws[Id(p)] \in Dir /\ WellFormed(ws[Id(p)])
           /\ arc[Id(p)] \in Dir /\ WellFormed(arc[Id(p)])
           /\ ws[Id(p)].meta \in Meta /\ arc[Id(p)].meta \in Meta
           /\ ~(ws[Id(p)].there /\ arc[Id(p)].there)
           /\ Fresh(p)
           /\ job[p] \in Job
           /\ job[p].held \in Meta /\ job[p].next \in Meta
           /\ job[p].todo \subseteq Repo /\ job[p].done \subseteq Repo
<1>1. /\ Id(p) \in Ws
      /\ job[p] \in Job
      /\ job[p].held \in Meta /\ job[p].next \in Meta
      /\ job[p].todo \subseteq Repo /\ job[p].done \subseteq Repo
  BY TypeParts, JobFields DEF SerialInv
<1>2. /\ ws[Id(p)] \in Dir /\ WellFormed(ws[Id(p)])
      /\ arc[Id(p)] \in Dir /\ WellFormed(arc[Id(p)])
  BY <1>1 DEF SerialInv, TypeOK
<1>3. ws[Id(p)].meta \in Meta /\ arc[Id(p)].meta \in Meta
  BY <1>2, DirTypes
<1> QED
  BY <1>1, <1>2, <1>3 DEF SerialInv, Exclusive, ViewsFresh

(***************************************************************************)
(* A step that leaves both directories alone.                              *)
(***************************************************************************)
LEMMA QuietStep ==
    ASSUME SerialInv, NEW p \in Proc, OwnStep(p), Fresh(p)',
           ws' = ws, arc' = arc
    PROVE  Good(p)
BY Here, MetaKept DEF Good

(***************************************************************************)
(* A command that returns and leaves both directories alone.               *)
(***************************************************************************)
LEMMA QuietReturn ==
    ASSUME SerialInv, NEW p \in Proc, pc[p] # "idle", Return(p),
           ws' = ws, arc' = arc
    PROVE  Good(p)
<1>1. OwnStep(p)
  BY DEF OwnStep, Return, SerialInv, TypeOK
<1>2. Fresh(p)'
  BY ReturnFresh DEF SerialInv
<1> QED
  BY <1>1, <1>2, QuietStep

(***************************************************************************)
(* A step to a call that needs no knowledge.                               *)
(***************************************************************************)
PlainLabels ==
    Labels \ {"create.mkdir", "create.fill", "guard.write", "close.pre",
              "close.rm", "close.rename", "reopen.load", "reopen.add",
              "add.apply", "add.write", "remove.write", "purge.pre",
              "purge.list", "purge.rm", "purge.delarc", "purge.rmdir"}

(***************************************************************************)
(* Such a step that changes neither directory nor local variables.         *)
(***************************************************************************)
LEMMA QuietGoto ==
    ASSUME SerialInv, NEW p \in Proc, pc[p] # "idle",
           NEW l \in PlainLabels, Goto(p, l), job' = job,
           ws' = ws, arc' = arc
    PROVE  Good(p)
<1>1. OwnStep(p)
  BY DEF OwnStep, Goto, SerialInv, TypeOK
<1>2. pc'[p] = l
  BY DEF Goto, SerialInv, TypeOK
<1>3. Fresh(p)'
  BY <1>2 DEF Fresh, PlainLabels
<1> QED
  BY <1>1, <1>3, QuietStep

(***************************************************************************)
(* A process moves on, with new local variables, or returns.               *)
(***************************************************************************)
LEMMA OwnGoto ==
    ASSUME SerialInv, NEW p \in Proc, pc[p] # "idle",
           NEW l, Goto(p, l), NEW j, job' = [job EXCEPT ![p] = j],
           j.id = job[p].id,
           \A k \in Ws \ {Id(p)} : ws'[k] = ws[k] /\ arc'[k] = arc[k]
    PROVE  OwnStep(p) /\ pc'[p] = l /\ job'[p] = j /\ Id(p)' = Id(p)
BY DEF OwnStep, Goto, SerialInv, TypeOK, Id

(***************************************************************************)
(* The same with the local variables as they are,                          *)
(***************************************************************************)
LEMMA OwnMove ==
    ASSUME SerialInv, NEW p \in Proc, pc[p] # "idle",
           NEW l, Goto(p, l) \/ (pc' = pc /\ l = pc[p]), job' = job,
           \A k \in Ws \ {Id(p)} : ws'[k] = ws[k] /\ arc'[k] = arc[k]
    PROVE  OwnStep(p) /\ pc'[p] = l /\ job'[p] = job[p] /\ Id(p)' = Id(p)
BY DEF OwnStep, Goto, SerialInv, TypeOK, Id

(***************************************************************************)
(* with the next call as it is,                                            *)
(***************************************************************************)
LEMMA OwnStay ==
    ASSUME SerialInv, NEW p \in Proc, pc[p] # "idle", pc' = pc,
           NEW j, job' = [job EXCEPT ![p] = j], j.id = job[p].id,
           \A k \in Ws \ {Id(p)} : ws'[k] = ws[k] /\ arc'[k] = arc[k]
    PROVE  OwnStep(p) /\ pc'[p] = pc[p] /\ job'[p] = j /\ Id(p)' = Id(p)
BY DEF OwnStep, SerialInv, TypeOK, Id

(***************************************************************************)
(* and for a command that returns.                                         *)
(***************************************************************************)
LEMMA OwnReturn ==
    ASSUME SerialInv, NEW p \in Proc, pc[p] # "idle", Return(p),
           \A k \in Ws \ {Id(p)} : ws'[k] = ws[k] /\ arc'[k] = arc[k]
    PROVE  OwnStep(p) /\ Fresh(p)'
BY ReturnFresh DEF OwnStep, Return, SerialInv, TypeOK
-----------------------------------------------------------------------------
(***************************************************************************)
(* The commands, call by call                                              *)
(***************************************************************************)
LEMMA CreateGood ==
    ASSUME SerialInv, NEW p \in Proc, CreateStep(p)
    PROVE  Good(p)
<1> DEFINE i == Id(p)
<1>1. /\ i \in Ws /\ Fresh(p) /\ ws[i] \in Dir /\ arc[i] \in Dir
      /\ WellFormed(ws[i]) /\ WellFormed(arc[i])
      /\ ~(ws[i].there /\ arc[i].there)
  BY Here
<1>2. pc \in [Proc -> Labels] /\ job \in [Proc -> Job] /\ ws \in [Ws -> Dir]
  BY DEF SerialInv, TypeOK
<1>3. CASE CreateStat(p)
  <2>1. CASE Return(p)
    BY <1>3, <2>1, QuietReturn DEF CreateStat, disk
  <2>2. CASE ~Return(p)
    <3>1. ~arc[i].there /\ Goto(p, "create.mkdir") /\ job' = job /\ UNCHANGED disk
      BY <1>3, <2>2 DEF CreateStat
    <3>2. OwnStep(p) /\ pc'[p] = "create.mkdir"
      BY <1>2, <1>3, <3>1 DEF OwnStep, Goto, disk, CreateStat
    <3>3. Fresh(p)'
      BY <3>1, <3>2 DEF Fresh, disk, Id
    <3> QED
      BY <3>1, <3>2, <3>3, QuietStep DEF disk
  <2> QED
    BY <2>1, <2>2
<1>4. CASE CreateMkdir(p)
  <2>1. CASE Return(p) /\ UNCHANGED ws
    BY <1>4, <2>1, QuietReturn DEF CreateMkdir
  <2>2. CASE ~(Return(p) /\ UNCHANGED ws)
    <3>1. /\ ws' = [ws EXCEPT ![i] = EmptyDir] /\ arc' = arc
          /\ Goto(p, "create.fill") /\ job' = job
      BY <1>4, <2>2 DEF CreateMkdir
    <3>2. OwnStep(p) /\ pc'[p] = "create.fill" /\ ws'[i] = EmptyDir
      BY <1>1, <1>2, <1>4, <3>1 DEF OwnStep, Goto, CreateMkdir
    <3>3. ~arc[i].there /\ ~ws[i].there
      BY <1>1, <1>4, <2>2 DEF CreateMkdir, Fresh
    <3>4. ~HasMeta(ws[i]) /\ ~HasMeta(arc[i])
      BY <1>1, <3>3 DEF WellFormed
    <3>5. Fresh(p)'
      BY <3>1, <3>2, <3>4, DirFacts DEF Fresh, HasMeta, Id
    <3>6. LifecycleStep(i)
      BY <1>1, <3>1, <3>2, <3>4, DirFacts, StaysAbsent
    <3> QED
      BY <3>1, <3>2, <3>3, <3>5, <3>6 DEF Good
  <2> QED
    BY <2>1, <2>2
<1>5. CASE CreateFill(p)
  <2>1. ~HasMeta(ws[i]) /\ ~HasMeta(arc[i])
    BY <1>1, <1>5 DEF CreateFill, Fresh
  <2>2. CASE ws[i].there /\ ws' = [ws EXCEPT ![i] = WithMeta(@, FreshMeta)]
                         /\ Goto(p, "create.base") /\ UNCHANGED job
    <3>1. /\ OwnStep(p) /\ pc'[p] = "create.base" /\ arc' = arc
          /\ ws'[i] = WithMeta(ws[i], FreshMeta)
      BY <1>1, <1>2, <1>5, <2>2 DEF OwnStep, Goto, CreateFill
    <3>2. ws'[i].meta = FreshMeta
      BY <1>1, <3>1, DirFacts, ConstantTypes
    <3>3. Fresh(p)'
      BY <3>1 DEF Fresh
    <3>4. LifecycleStep(i)
      BY <1>1, <2>1, <3>2, FreshMetaFacts, BecomesActive DEF HasMeta
    <3>5. ~arc'[i].there
      BY <1>1, <2>2, <3>1
    <3> QED
      BY <3>1, <3>3, <3>4, <3>5 DEF Good
  <2>3. CASE ws' = [ws EXCEPT ![i] = NoDir] /\ Return(p)
    <3>1. OwnStep(p) /\ arc' = arc /\ ws'[i] = NoDir
      BY <1>1, <1>2, <1>5, <2>3 DEF OwnStep, Return, CreateFill
    <3>2. Fresh(p)'
      BY <2>3, ReturnFresh DEF SerialInv
    <3>3. LifecycleStep(i)
      BY <1>1, <2>1, <3>1, DirFacts, StaysAbsent
    <3> QED
      BY <3>1, <3>2, <3>3, DirFacts DEF Good
  <2>4. CASE Return(p) /\ ws' = ws
    BY <1>5, <2>4, QuietReturn DEF CreateFill
  <2> QED
    BY <1>5, <2>2, <2>3, <2>4 DEF CreateFill
<1>6. CASE CreateBaseline(p)
  <2>1. pc[p] # "idle" /\ ws' = ws /\ arc' = arc
    BY <1>6 DEF CreateBaseline
  <2>2. Return(p) \/ (Goto(p, "create.post") /\ job' = job)
    BY <1>6 DEF CreateBaseline
  <2> QED
    BY <2>1, <2>2, QuietReturn, QuietGoto DEF PlainLabels, Labels
<1>7. CASE CreateCommit(p)
  BY <1>7, QuietReturn DEF CreateCommit
<1> QED
  BY <1>3, <1>4, <1>5, <1>6, <1>7 DEF CreateStep

(***************************************************************************)
(* ws lock and ws unlock write where they have read.                       *)
(***************************************************************************)
LEMMA GuardGood ==
    ASSUME SerialInv, NEW p \in Proc, GuardStep(p)
    PROVE  Good(p)
<1> DEFINE i == Id(p)
<1>1. /\ i \in Ws /\ Fresh(p) /\ ws[i] \in Dir /\ arc[i] \in Dir
      /\ WellFormed(ws[i]) /\ WellFormed(arc[i])
      /\ ~(ws[i].there /\ arc[i].there)
      /\ job[p] \in Job /\ job[p].held \in Meta
  BY Here
<1>2. /\ pc \in [Proc -> Labels] /\ job \in [Proc -> Job]
      /\ ws \in [Ws -> Dir] /\ arc \in [Ws -> Dir]
  BY DEF SerialInv, TypeOK
<1>3. CASE GuardLoad(p)
  <2>1. CASE Return(p)
    BY <1>3, <2>1, QuietReturn DEF GuardLoad, disk
  <2>2. CASE ~Return(p)
    <3> DEFINE where == IF ws[i].there THEN "ws" ELSE "arc"
               d == IF ws[i].there THEN ws[i] ELSE arc[i]
               j == [job[p] EXCEPT !.held = d.meta, !.where = where]
    <3>1. /\ HasMeta(d) /\ job' = [job EXCEPT ![p] = j]
          /\ Goto(p, "guard.write") /\ ws' = ws /\ arc' = arc
          /\ pc[p] # "idle"
      BY <1>3, <2>2 DEF GuardLoad, disk
    <3>2. j.id = job[p].id /\ j.held = d.meta /\ j.where = where
      BY <1>1 DEF Job
    <3>3. OwnStep(p) /\ pc'[p] = "guard.write" /\ job'[p] = j /\ Id(p)' = i
      BY <3>1, <3>2, OwnGoto
    <3>4. ws[i].there \/ ~HasMeta(ws[i])
      BY <1>1 DEF WellFormed
    <3>5. Fresh(p)'
      <4>1. CASE ws[i].there
        <5>1. job'[p].where = "ws" /\ Agrees(job'[p].held, ws[i])
          BY <3>1, <3>2, <3>3, <4>1 DEF Agrees, HasMeta
        <5> QED
          BY <3>1, <3>3, <5>1 DEF Fresh, Agrees, HasMeta
      <4>2. CASE ~ws[i].there
        <5>1. /\ job'[p].where = "arc" /\ Agrees(job'[p].held, arc[i])
              /\ ~HasMeta(ws[i])
          BY <3>1, <3>2, <3>3, <3>4, <4>2 DEF Agrees, HasMeta
        <5> QED
          BY <3>1, <3>3, <5>1 DEF Fresh, Agrees, HasMeta
      <4> QED
        BY <4>1, <4>2
    <3> QED
      BY <3>1, <3>3, <3>5, QuietStep
  <2> QED
    BY <2>1, <2>2
<1>4. CASE GuardWrite(p)
  <2> DEFINE m == [job[p].held EXCEPT !.guard = job[p].opt]
  <2>1. m \in Meta /\ m.status = job[p].held.status
    BY <1>1 DEF Meta, Job
  <2>2. Return(p) /\ pc[p] # "idle" /\ pc[p] = "guard.write"
    BY <1>4 DEF GuardWrite
  <2>3. CASE ws' = ws /\ arc' = arc
    BY <2>2, <2>3, QuietReturn
  <2>4. CASE /\ job[p].where = "ws" /\ arc' = arc
             /\ ws' = [ws EXCEPT ![i] = WithMeta(@, m)]
    <3>1. ws'[i].there = ws[i].there /\ ws'[i].meta = m
      BY <1>1, <1>2, <2>1, <2>4, DirFacts
    <3>2. HasMeta(ws[i]) /\ HasMeta(ws'[i])
      BY <1>1, <2>1, <2>2, <2>4, <3>1 DEF Fresh, Agrees, HasMeta
    <3>3. OwnStep(p) /\ Fresh(p)'
      BY <1>2, <2>2, <2>4, OwnReturn
    <3> QED
      BY <1>1, <2>4, <3>1, <3>2, <3>3, StaysActive DEF Good
  <2>5. CASE /\ job[p].where = "arc" /\ ws' = ws
             /\ arc' = [arc EXCEPT ![i] = WithMeta(@, m)]
    <3>1. arc'[i].there = arc[i].there /\ arc'[i].meta = m
      BY <1>1, <1>2, <2>1, <2>5, DirFacts
    <3>2. HasMeta(arc[i]) /\ HasMeta(arc'[i]) /\ ~HasMeta(ws[i])
      BY <1>1, <2>1, <2>2, <2>5, <3>1 DEF Fresh, Agrees, HasMeta
    <3>3. OwnStep(p) /\ Fresh(p)'
      BY <1>2, <2>2, <2>5, OwnReturn
    <3> QED
      BY <1>1, <2>5, <3>1, <3>2, <3>3, StaysArchived DEF Good
  <2> QED
    BY <1>4, <2>3, <2>4, <2>5 DEF GuardWrite
<1> QED
  BY <1>3, <1>4 DEF GuardStep

(***************************************************************************)
(* Metadata that agrees with what is in workspaces/ is written there.      *)
(***************************************************************************)
LEMMA WriteAgreed ==
    ASSUME SerialInv, NEW p \in Proc, NEW m \in Meta,
           Agrees(m, ws[Id(p)]),
           ws' = [ws EXCEPT ![Id(p)] = WithMeta(@, m)], arc' = arc
    PROVE  /\ LifecycleStep(Id(p))
           /\ ~(ws'[Id(p)].there /\ arc'[Id(p)].there)
           /\ ws'[Id(p)].meta = m /\ ws'[Id(p)].there = ws[Id(p)].there
           /\ \A k \in Ws \ {Id(p)} : ws'[k] = ws[k] /\ arc'[k] = arc[k]
<1>1. /\ Id(p) \in Ws /\ ws[Id(p)] \in Dir
      /\ ~(ws[Id(p)].there /\ arc[Id(p)].there)
  BY Here
<1>2. ws \in [Ws -> Dir]
  BY DEF SerialInv, TypeOK
<1>3. ws'[Id(p)].meta = m /\ ws'[Id(p)].there = ws[Id(p)].there
  BY <1>1, <1>2, DirFacts
<1>4. LifecycleStep(Id(p))
  BY <1>1, <1>3, StaysActive DEF Agrees, HasMeta
<1> QED
  BY <1>1, <1>2, <1>3, <1>4

(***************************************************************************)
(* A command that writes such metadata, or nothing, and returns.           *)
(***************************************************************************)
LEMMA WriteAndReturn ==
    ASSUME SerialInv, NEW p \in Proc, NEW m \in Meta, pc[p] # "idle",
           Agrees(m, ws[Id(p)]), Return(p), arc' = arc,
           \/ ws' = [ws EXCEPT ![Id(p)] = WithMeta(@, m)]
           \/ ws' = ws
    PROVE  Good(p)
<1>1. CASE ws' = ws
  BY <1>1, QuietReturn
<1>2. CASE ws' = [ws EXCEPT ![Id(p)] = WithMeta(@, m)]
  BY <1>2, WriteAgreed, OwnReturn DEF Good
<1> QED
  BY <1>1, <1>2

(***************************************************************************)
(* A worktree of the workspace is added or removed.                        *)
(***************************************************************************)
LEMMA TreeStep ==
    ASSUME SerialInv, NEW p \in Proc, NEW r \in Repo, arc' = arc,
           \/ ws' = ws
           \/ ws' = [ws EXCEPT ![Id(p)] = WithoutTree(@, r)]
           \/ /\ ~arc[Id(p)].there
              /\ ws' = [ws EXCEPT ![Id(p)] = WithTree(@, r)]
    PROVE  /\ LifecycleStep(Id(p))
           /\ ~(ws'[Id(p)].there /\ arc'[Id(p)].there)
           /\ ws'[Id(p)].meta = ws[Id(p)].meta
           /\ ~arc[Id(p)].there \/ ws'[Id(p)].there = ws[Id(p)].there
           /\ \A k \in Ws \ {Id(p)} : ws'[k] = ws[k] /\ arc'[k] = arc[k]
<1>1. /\ Id(p) \in Ws /\ ws[Id(p)] \in Dir
      /\ ~(ws[Id(p)].there /\ arc[Id(p)].there)
  BY Here
<1>2. ws \in [Ws -> Dir]
  BY DEF SerialInv, TypeOK
<1>3. /\ ws'[Id(p)].meta = ws[Id(p)].meta
      /\ ~arc[Id(p)].there \/ ws'[Id(p)].there = ws[Id(p)].there
  BY <1>1, <1>2, DirFacts
<1> QED
  BY <1>1, <1>2, <1>3, MetaKept

(***************************************************************************)
(* ws close: the metadata it has read stays in agreement with the disk     *)
(* until the rename, and the rename carries the guard to archive/.         *)
(***************************************************************************)
LEMMA CloseGood ==
    ASSUME SerialInv, NEW p \in Proc, CloseStep(p)
    PROVE  Good(p)
<1> DEFINE i == Id(p)
<1>1. /\ i \in Ws /\ Fresh(p) /\ ws[i] \in Dir /\ arc[i] \in Dir
      /\ WellFormed(ws[i]) /\ WellFormed(arc[i])
      /\ ~(ws[i].there /\ arc[i].there)
      /\ job[p] \in Job /\ job[p].held \in Meta /\ job[p].next \in Meta
      /\ job[p].todo \subseteq Repo
  BY Here
<1>2. ws \in [Ws -> Dir] /\ arc \in [Ws -> Dir]
  BY DEF SerialInv, TypeOK
<1>3. pc[p] \in {"close.pre", "close.rm", "close.rename"}
      => Agrees(job[p].held, ws[i]) /\ Agrees(job[p].next, ws[i])
  BY <1>1 DEF Fresh
<1>4. CASE CloseRisk(p)
  <2>1. CASE Return(p)
    BY <1>4, <2>1, QuietReturn DEF CloseRisk, disk
  <2>2. CASE ~Return(p)
    <3> DEFINE j == [job[p] EXCEPT !.done = Risky(ws[i])]
    <3>1. /\ job' = [job EXCEPT ![p] = j] /\ Goto(p, "close.scan")
          /\ pc[p] # "idle" /\ ws' = ws /\ arc' = arc
      BY <1>4, <2>2 DEF CloseRisk, disk
    <3>2. j.id = job[p].id
      BY <1>1 DEF Job
    <3>3. OwnStep(p) /\ pc'[p] = "close.scan"
      BY <3>1, <3>2, OwnGoto
    <3>4. Fresh(p)'
      BY <3>3 DEF Fresh
    <3> QED
      BY <3>1, <3>3, <3>4, QuietStep
  <2> QED
    BY <2>1, <2>2
<1>5. CASE CloseScan(p)
  <2>1. CASE Return(p)
    BY <1>5, <2>1, QuietReturn DEF CloseScan, disk
  <2>2. CASE ~Return(p)
    <3> DEFINE j == [job[p] EXCEPT !.held = ws[i].meta,
                                   !.next = ClosedMeta(ws[i]),
                                   !.todo = Bound(ws[i])]
               l == IF job[p].opt THEN "close.pre" ELSE "close.rm"
    <3>1. /\ HasMeta(ws[i])
          /\ job' = [job EXCEPT ![p] = j] /\ Goto(p, l)
          /\ pc[p] # "idle" /\ ws' = ws /\ arc' = arc
      BY <1>5, <2>2 DEF CloseScan, disk
    <3>2. /\ j.id = job[p].id
          /\ j.held = ws[i].meta /\ j.next = ClosedMeta(ws[i])
      BY <1>1 DEF Job
    <3>3. /\ OwnStep(p) /\ pc'[p] = l /\ job'[p] = j /\ Id(p)' = i
      BY <3>1, <3>2, OwnGoto
    <3>4. /\ ClosedMeta(ws[i]).status = "archived"
          /\ ClosedMeta(ws[i]).guard = ws[i].meta.guard
      BY <1>1 DEF ClosedMeta, Dir, Meta
    <3>5. Agrees(job'[p].held, ws[i]) /\ Agrees(job'[p].next, ws[i])
      BY <3>1, <3>2, <3>3, <3>4 DEF Agrees, HasMeta
    <3>6. Fresh(p)'
      BY <3>1, <3>3, <3>5 DEF Fresh, Agrees, HasMeta
    <3> QED
      BY <3>1, <3>3, <3>6, QuietStep
  <2> QED
    BY <2>1, <2>2
<1>6. CASE ClosePreCommit(p)
  <2>1. CASE Return(p)
    BY <1>6, <2>1, QuietReturn DEF ClosePreCommit
  <2>2. CASE ~Return(p)
    <3>1. /\ Goto(p, "close.rm") /\ job' = job /\ ws' = ws /\ arc' = arc
          /\ pc[p] = "close.pre"
      BY <1>6, <2>2 DEF ClosePreCommit
    <3>2. /\ OwnStep(p) /\ pc'[p] = "close.rm" /\ job'[p] = job[p]
          /\ Id(p)' = i
      BY <3>1, OwnMove
    <3>3. Fresh(p)'
      BY <1>3, <3>1, <3>2 DEF Fresh, Agrees, HasMeta
    <3> QED
      BY <3>1, <3>2, <3>3, QuietStep
  <2> QED
    BY <2>1, <2>2
<1>7. CASE CloseRemoveTree(p)
  <2>1. pc[p] = "close.rm" /\ arc' = arc
    BY <1>7 DEF CloseRemoveTree
  <2>2. PICK r \in job[p].todo :
            \/ /\ RemoveTree(i, r)
               /\ job' = [job EXCEPT ![p].todo = @ \ {r}]
               /\ UNCHANGED pc
            \/ WriteBack(p) /\ Return(p)
    BY <1>7 DEF CloseRemoveTree
  <2>3. CASE WriteBack(p) /\ Return(p)
    <3>1. \/ ws' = [ws EXCEPT ![i] = WithMeta(@, job[p].held)]
          \/ ws' = ws
      BY <2>3 DEF WriteBack
    <3> QED
      BY <1>1, <1>3, <2>1, <2>3, <3>1, WriteAndReturn
  <2>4. CASE RemoveTree(i, r) /\ job' = [job EXCEPT ![p].todo = @ \ {r}]
                              /\ UNCHANGED pc
    <3> DEFINE j == [job[p] EXCEPT !.todo = job[p].todo \ {r}]
    <3>1. /\ j.id = job[p].id /\ j.held = job[p].held
          /\ j.next = job[p].next /\ r \in Repo
      BY <1>1 DEF Job
    <3>2. \/ ws' = ws
          \/ ws' = [ws EXCEPT ![i] = WithoutTree(@, r)]
      BY <2>4 DEF RemoveTree
    <3>3. /\ LifecycleStep(i) /\ ~(ws'[i].there /\ arc'[i].there)
          /\ ws'[i].meta = ws[i].meta
          /\ \A k \in Ws \ {i} : ws'[k] = ws[k] /\ arc'[k] = arc[k]
      BY <2>1, <3>1, <3>2, TreeStep
    <3>4. job' = [job EXCEPT ![p] = j]
      BY <2>4
    <3>5. OwnStep(p) /\ pc'[p] = "close.rm" /\ job'[p] = j /\ Id(p)' = i
      BY <2>1, <2>4, <3>1, <3>3, <3>4, OwnStay
    <3>6. Agrees(job'[p].held, ws'[i]) /\ Agrees(job'[p].next, ws'[i])
      BY <1>3, <2>1, <3>1, <3>3, <3>5 DEF Agrees, HasMeta
    <3>7. Fresh(p)'
      BY <3>5, <3>6 DEF Fresh, Agrees, HasMeta
    <3> QED
      BY <3>3, <3>5, <3>7 DEF Good
  <2> QED
    BY <2>2, <2>3, <2>4
<1>8. CASE CloseWriteMeta(p)
  <2>1. pc[p] = "close.rm" /\ arc' = arc
    BY <1>8 DEF CloseWriteMeta
  <2>2. CASE WriteBack(p) /\ Return(p)
    <3>1. \/ ws' = [ws EXCEPT ![i] = WithMeta(@, job[p].held)]
          \/ ws' = ws
      BY <2>2 DEF WriteBack
    <3> QED
      BY <1>1, <1>3, <2>1, <2>2, <3>1, WriteAndReturn
  <2>3. CASE /\ ws' = [ws EXCEPT ![i] = WithMeta(@, job[p].next)]
             /\ Goto(p, "close.rename") /\ UNCHANGED job
    <3>1. /\ LifecycleStep(i) /\ ~(ws'[i].there /\ arc'[i].there)
          /\ ws'[i].meta = job[p].next
          /\ \A k \in Ws \ {i} : ws'[k] = ws[k] /\ arc'[k] = arc[k]
      BY <1>1, <1>3, <2>1, <2>3, WriteAgreed
    <3>2. /\ OwnStep(p) /\ pc'[p] = "close.rename" /\ job'[p] = job[p]
          /\ Id(p)' = i
      BY <2>1, <2>3, <3>1, OwnMove
    <3>3. Agrees(job'[p].held, ws'[i]) /\ Agrees(job'[p].next, ws'[i])
      BY <1>3, <2>1, <3>1, <3>2 DEF Agrees, HasMeta
    <3>4. Fresh(p)'
      BY <3>2, <3>3 DEF Fresh, Agrees, HasMeta
    <3> QED
      BY <3>1, <3>2, <3>4 DEF Good
  <2> QED
    BY <1>8, <2>2, <2>3 DEF CloseWriteMeta
<1>9. CASE CloseRename(p)
  <2>1. pc[p] = "close.rename"
    BY <1>9 DEF CloseRename
  <2>2. CASE WriteBack(p) /\ Return(p) /\ UNCHANGED arc
    <3>1. \/ ws' = [ws EXCEPT ![i] = WithMeta(@, job[p].held)]
          \/ ws' = ws
      BY <2>2 DEF WriteBack
    <3> QED
      BY <1>1, <1>3, <2>1, <2>2, <3>1, WriteAndReturn
  <2>3. CASE /\ arc' = [arc EXCEPT ![i] = ws[i]]
             /\ ws' = [ws EXCEPT ![i] = NoDir]
             /\ Goto(p, "close.base") /\ UNCHANGED job
    <3>1. /\ arc'[i] = ws[i] /\ ws'[i] = NoDir
          /\ \A k \in Ws \ {i} : ws'[k] = ws[k] /\ arc'[k] = arc[k]
      BY <1>1, <1>2, <2>3
    <3>2. OwnStep(p) /\ pc'[p] = "close.base"
      BY <2>1, <2>3, <3>1, OwnMove
    <3>3. Fresh(p)'
      BY <3>2 DEF Fresh
    <3>4. LifecycleStep(i)
      BY <1>1, <1>3, <2>1, <3>1, DirFacts, BecomesArchived DEF Agrees
    <3> QED
      BY <3>1, <3>2, <3>3, <3>4, DirFacts DEF Good
  <2> QED
    BY <1>9, <2>2, <2>3 DEF CloseRename
<1>10. CASE CloseBaseline(p)
  <2>1. pc[p] # "idle" /\ ws' = ws /\ arc' = arc
    BY <1>10 DEF CloseBaseline
  <2>2. Return(p) \/ (Goto(p, "close.post") /\ job' = job)
    BY <1>10 DEF CloseBaseline
  <2> QED
    BY <2>1, <2>2, QuietReturn, QuietGoto DEF PlainLabels, Labels
<1>11. CASE CloseCommit(p)
  BY <1>11, QuietReturn DEF CloseCommit
<1> QED
  BY <1>4, <1>5, <1>6, <1>7, <1>8, <1>9, <1>10, <1>11 DEF CloseStep

(***************************************************************************)
(* A reopen that gives up takes the directory back to archive/.            *)
(***************************************************************************)
LEMMA RenameBackGood ==
    ASSUME SerialInv, NEW p \in Proc, pc[p] # "idle",
           RenameBack(p), Return(p)
    PROVE  Good(p)
<1> DEFINE i == Id(p)
<1>1. /\ i \in Ws /\ WellFormed(ws[i]) /\ WellFormed(arc[i])
      /\ ws \in [Ws -> Dir] /\ arc \in [Ws -> Dir]
  BY Here DEF SerialInv, TypeOK
<1>2. CASE ws' = ws /\ arc' = arc
  BY <1>2, QuietReturn
<1>3. CASE ~(ws' = ws /\ arc' = arc)
  <2>1. /\ CanArchive(i)
        /\ arc' = [arc EXCEPT ![i] = ws[i]] /\ ws' = [ws EXCEPT ![i] = NoDir]
    BY <1>3 DEF RenameBack
  <2>2. /\ arc'[i] = ws[i] /\ ws'[i] = NoDir /\ ~HasMeta(arc[i])
        /\ \A k \in Ws \ {i} : ws'[k] = ws[k] /\ arc'[k] = arc[k]
    BY <1>1, <2>1 DEF CanArchive, WellFormed
  <2>3. OwnStep(p) /\ Fresh(p)'
    BY <2>2, OwnReturn
  <2>4. CASE HasMeta(ws[i])
    BY <1>1, <2>2, <2>3, <2>4, DirFacts, BecomesArchived DEF Good
  <2>5. CASE ~HasMeta(ws[i])
    BY <1>1, <2>2, <2>3, <2>5, DirFacts, StaysAbsent DEF Good
  <2> QED
    BY <2>4, <2>5
<1> QED
  BY <1>2, <1>3

(***************************************************************************)
(* ws reopen: archive/ stays empty from the rename on, so both the way     *)
(* forward and the way back end with the workspace in one place.           *)
(***************************************************************************)
LEMMA ReopenGood ==
    ASSUME SerialInv, NEW p \in Proc, ReopenStep(p)
    PROVE  Good(p)
<1> DEFINE i == Id(p)
<1>1. /\ i \in Ws /\ Fresh(p) /\ ws[i] \in Dir /\ arc[i] \in Dir
      /\ WellFormed(ws[i]) /\ WellFormed(arc[i])
      /\ ~(ws[i].there /\ arc[i].there)
      /\ job[p] \in Job /\ job[p].held \in Meta
      /\ job[p].todo \subseteq Repo
  BY Here
<1>2. ws \in [Ws -> Dir] /\ arc \in [Ws -> Dir]
  BY DEF SerialInv, TypeOK
<1>3. /\ pc[p] \in {"reopen.load", "reopen.add"} => ~arc[i].there
      /\ pc[p] = "reopen.add" => Agrees(job[p].held, ws[i])
  BY <1>1 DEF Fresh
<1>4. CASE ReopenStat(p)
  <2>1. pc[p] # "idle" /\ ws' = ws /\ arc' = arc
    BY <1>4 DEF ReopenStat, disk
  <2>2. \/ Return(p)
        \/ Goto(p, "reopen.pre") /\ job' = job
        \/ Goto(p, "reopen.rename") /\ job' = job
    BY <1>4 DEF ReopenStat
  <2> QED
    BY <2>1, <2>2, QuietReturn, QuietGoto DEF PlainLabels, Labels
<1>5. CASE ReopenPreCommit(p)
  <2>1. pc[p] # "idle" /\ ws' = ws /\ arc' = arc
    BY <1>5 DEF ReopenPreCommit
  <2>2. Return(p) \/ (Goto(p, "reopen.rename") /\ job' = job)
    BY <1>5 DEF ReopenPreCommit
  <2> QED
    BY <2>1, <2>2, QuietReturn, QuietGoto DEF PlainLabels, Labels
<1>6. CASE ReopenRename(p)
  <2>1. pc[p] = "reopen.rename"
    BY <1>6 DEF ReopenRename
  <2>2. CASE Return(p) /\ UNCHANGED <<ws, arc>>
    BY <2>1, <2>2, QuietReturn
  <2>3. CASE /\ CanRestore(i)
             /\ ws' = [ws EXCEPT ![i] = arc[i]]
             /\ arc' = [arc EXCEPT ![i] = NoDir]
             /\ Goto(p, "reopen.load") /\ UNCHANGED job
    <3>1. /\ ws'[i] = arc[i] /\ arc'[i] = NoDir /\ ~HasMeta(ws[i])
          /\ \A k \in Ws \ {i} : ws'[k] = ws[k] /\ arc'[k] = arc[k]
      BY <1>1, <1>2, <2>3 DEF CanRestore, WellFormed
    <3>2. OwnStep(p) /\ pc'[p] = "reopen.load" /\ Id(p)' = i
      BY <2>1, <2>3, <3>1, OwnMove
    <3>3. Fresh(p)'
      BY <3>1, <3>2, DirFacts DEF Fresh
    <3>4. CASE HasMeta(arc[i])
      BY <1>1, <3>1, <3>2, <3>3, <3>4, DirFacts, BecomesActive DEF Good
    <3>5. CASE ~HasMeta(arc[i])
      BY <1>1, <3>1, <3>2, <3>3, <3>5, DirFacts, StaysAbsent DEF Good
    <3> QED
      BY <3>4, <3>5
  <2> QED
    BY <1>6, <2>2, <2>3 DEF ReopenRename
<1>7. CASE ReopenLoad(p)
  <2>1. pc[p] = "reopen.load"
    BY <1>7 DEF ReopenLoad
  <2>2. CASE RenameBack(p) /\ Return(p)
    BY <2>1, <2>2, RenameBackGood
  <2>3. CASE ~(RenameBack(p) /\ Return(p))
    <3> DEFINE j == [job[p] EXCEPT !.held = ws[i].meta,
                                   !.todo = Restorable(ws[i].meta)]
    <3>1. /\ HasMeta(ws[i]) /\ job' = [job EXCEPT ![p] = j]
          /\ Goto(p, "reopen.add") /\ ws' = ws /\ arc' = arc
      BY <1>7, <2>3 DEF ReopenLoad
    <3>2. j.id = job[p].id /\ j.held = ws[i].meta
      BY <1>1 DEF Job
    <3>3. OwnStep(p) /\ pc'[p] = "reopen.add" /\ job'[p] = j /\ Id(p)' = i
      BY <2>1, <3>1, <3>2, OwnGoto
    <3>4. Agrees(job'[p].held, ws'[i]) /\ ~arc'[i].there
      BY <1>3, <2>1, <3>1, <3>2, <3>3 DEF Agrees, HasMeta
    <3>5. Fresh(p)'
      BY <3>3, <3>4 DEF Fresh, Agrees, HasMeta
    <3> QED
      BY <3>1, <3>3, <3>5, QuietStep
  <2> QED
    BY <2>2, <2>3
<1>8. CASE ReopenAddTree(p)
  <2>1. pc[p] = "reopen.add"
    BY <1>8 DEF ReopenAddTree
  <2>2. PICK r \in job[p].todo :
            \/ /\ AddTree(i, r)
               /\ job' = [job EXCEPT ![p].todo = @ \ {r}]
               /\ UNCHANGED <<pc, arc>>
            \/ RenameBack(p) /\ Return(p)
    BY <1>8 DEF ReopenAddTree
  <2>3. CASE RenameBack(p) /\ Return(p)
    BY <2>1, <2>3, RenameBackGood
  <2>4. CASE AddTree(i, r) /\ job' = [job EXCEPT ![p].todo = @ \ {r}]
                           /\ UNCHANGED <<pc, arc>>
    <3> DEFINE j == [job[p] EXCEPT !.todo = job[p].todo \ {r}]
    <3>1. j.id = job[p].id /\ j.held = job[p].held /\ r \in Repo
      BY <1>1 DEF Job
    <3>2. ws' = [ws EXCEPT ![i] = WithTree(@, r)]
      BY <2>4 DEF AddTree
    <3>3. /\ LifecycleStep(i) /\ ~(ws'[i].there /\ arc'[i].there)
          /\ ws'[i].meta = ws[i].meta
          /\ \A k \in Ws \ {i} : ws'[k] = ws[k] /\ arc'[k] = arc[k]
      BY <1>3, <2>1, <2>4, <3>1, <3>2, TreeStep
    <3>4. job' = [job EXCEPT ![p] = j]
      BY <2>4
    <3>5. OwnStep(p) /\ pc'[p] = "reopen.add" /\ job'[p] = j /\ Id(p)' = i
      BY <2>1, <2>4, <3>1, <3>3, <3>4, OwnStay
    <3>6. Agrees(job'[p].held, ws'[i]) /\ ~arc'[i].there
      BY <1>3, <2>1, <2>4, <3>1, <3>3, <3>5 DEF Agrees, HasMeta
    <3>7. Fresh(p)'
      BY <3>5, <3>6 DEF Fresh, Agrees, HasMeta
    <3> QED
      BY <3>3, <3>5, <3>7 DEF Good
  <2> QED
    BY <2>2, <2>3, <2>4
<1>9. CASE ReopenWriteMeta(p)
  <2> DEFINE m == [job[p].held EXCEPT !.status = "active"]
  <2>1. pc[p] = "reopen.add"
    BY <1>9 DEF ReopenWriteMeta
  <2>2. CASE RenameBack(p) /\ Return(p)
    BY <2>1, <2>2, RenameBackGood
  <2>3. CASE ~(RenameBack(p) /\ Return(p))
    <3>1. /\ ws' = [ws EXCEPT ![i] = WithMeta(@, m)] /\ arc' = arc
          /\ Goto(p, "reopen.base") /\ job' = job
      BY <1>9, <2>3 DEF ReopenWriteMeta
    <3>2. m \in Meta /\ Agrees(m, ws[i])
      BY <1>1, <1>3, <2>1 DEF Meta, Agrees
    <3>3. /\ LifecycleStep(i) /\ ~(ws'[i].there /\ arc'[i].there)
          /\ \A k \in Ws \ {i} : ws'[k] = ws[k] /\ arc'[k] = arc[k]
      BY <3>1, <3>2, WriteAgreed
    <3>4. OwnStep(p) /\ pc'[p] = "reopen.base"
      BY <2>1, <3>1, <3>3, OwnMove
    <3>5. Fresh(p)'
      BY <3>4 DEF Fresh
    <3> QED
      BY <3>3, <3>4, <3>5 DEF Good
  <2> QED
    BY <2>2, <2>3
<1>10. CASE ReopenBaseline(p)
  <2>1. pc[p] # "idle" /\ ws' = ws /\ arc' = arc
    BY <1>10 DEF ReopenBaseline
  <2>2. Return(p) \/ (Goto(p, "reopen.post") /\ job' = job)
    BY <1>10 DEF ReopenBaseline
  <2> QED
    BY <2>1, <2>2, QuietReturn, QuietGoto DEF PlainLabels, Labels
<1>11. CASE ReopenCommit(p)
  BY <1>11, QuietReturn DEF ReopenCommit
<1> QED
  BY <1>4, <1>5, <1>6, <1>7, <1>8, <1>9, <1>10, <1>11 DEF ReopenStep

(***************************************************************************)
(* ws purge: the guard that was off at the check is off when the archive   *)
(* is deleted.                                                             *)
(***************************************************************************)
LEMMA PurgeGood ==
    ASSUME SerialInv, NEW p \in Proc, PurgeStep(p)
    PROVE  Good(p)
<1> DEFINE i == Id(p)
<1>1. /\ i \in Ws /\ Fresh(p) /\ ws[i] \in Dir /\ arc[i] \in Dir
      /\ WellFormed(ws[i]) /\ WellFormed(arc[i])
      /\ ~(ws[i].there /\ arc[i].there)
      /\ job[p] \in Job /\ job[p].todo \subseteq Repo
  BY Here
<1>2. ws \in [Ws -> Dir] /\ arc \in [Ws -> Dir]
  BY DEF SerialInv, TypeOK
<1>3. /\ pc[p] \in {"purge.pre", "purge.list", "purge.rm", "purge.delarc"}
         => ~ws[i].there /\ HasMeta(arc[i]) /\ ~arc[i].meta.guard
      /\ pc[p] = "purge.rmdir" => ~ws[i].there /\ ~HasMeta(arc[i])
  BY <1>1 DEF Fresh
<1>4. CASE PurgeCheck(p)
  <2>1. CASE Return(p)
    BY <1>4, <2>1, QuietReturn DEF PurgeCheck, disk
  <2>2. CASE ~Return(p)
    <3> DEFINE l == IF job[p].opt THEN "purge.pre" ELSE "purge.list"
    <3>1. /\ CanRestore(i) /\ HasMeta(arc[i]) /\ ~arc[i].meta.guard
          /\ Goto(p, l) /\ job' = job
          /\ pc[p] # "idle" /\ ws' = ws /\ arc' = arc
      BY <1>4, <2>2 DEF PurgeCheck, disk
    <3>2. OwnStep(p) /\ pc'[p] = l /\ Id(p)' = i
      BY <3>1, OwnMove
    <3>3. Fresh(p)'
      BY <3>1, <3>2 DEF Fresh, HasMeta, CanRestore
    <3> QED
      BY <3>1, <3>2, <3>3, QuietStep
  <2> QED
    BY <2>1, <2>2
<1>5. CASE PurgePreCommit(p)
  <2>1. CASE Return(p)
    BY <1>5, <2>1, QuietReturn DEF PurgePreCommit
  <2>2. CASE ~Return(p)
    <3>1. /\ Goto(p, "purge.list") /\ job' = job
          /\ pc[p] = "purge.pre" /\ ws' = ws /\ arc' = arc
      BY <1>5, <2>2 DEF PurgePreCommit
    <3>2. OwnStep(p) /\ pc'[p] = "purge.list" /\ Id(p)' = i
      BY <3>1, OwnMove
    <3>3. Fresh(p)'
      BY <1>3, <3>1, <3>2 DEF Fresh, HasMeta
    <3> QED
      BY <3>1, <3>2, <3>3, QuietStep
  <2> QED
    BY <2>1, <2>2
<1>6. CASE PurgeList(p)
  <2>1. CASE Return(p)
    BY <1>6, <2>1, QuietReturn DEF PurgeList, disk
  <2>2. CASE ~Return(p)
    <3> DEFINE j == [job[p] EXCEPT !.todo = Bound(ws[i])]
    <3>1. /\ Goto(p, "purge.rm") /\ job' = [job EXCEPT ![p] = j]
          /\ pc[p] = "purge.list" /\ ws' = ws /\ arc' = arc
      BY <1>6, <2>2 DEF PurgeList, disk
    <3>2. j.id = job[p].id
      BY <1>1 DEF Job
    <3>3. OwnStep(p) /\ pc'[p] = "purge.rm" /\ Id(p)' = i
      BY <3>1, <3>2, OwnGoto
    <3>4. Fresh(p)'
      BY <1>3, <3>1, <3>3 DEF Fresh, HasMeta
    <3> QED
      BY <3>1, <3>3, <3>4, QuietStep
  <2> QED
    BY <2>1, <2>2
<1>7. CASE PurgeRemoveTree(p)
  <2>1. pc[p] = "purge.rm" /\ arc' = arc
    BY <1>7 DEF PurgeRemoveTree
  <2>2. PICK r \in job[p].todo :
            \/ /\ RemoveTree(i, r)
               /\ job' = [job EXCEPT ![p].todo = @ \ {r}]
               /\ UNCHANGED pc
            \/ Return(p) /\ UNCHANGED <<ws, reg>>
    BY <1>7 DEF PurgeRemoveTree
  <2>3. CASE Return(p) /\ UNCHANGED <<ws, reg>>
    BY <2>1, <2>3, QuietReturn
  <2>4. CASE RemoveTree(i, r) /\ job' = [job EXCEPT ![p].todo = @ \ {r}]
                              /\ UNCHANGED pc
    <3> DEFINE j == [job[p] EXCEPT !.todo = job[p].todo \ {r}]
    <3>1. j.id = job[p].id
      BY <1>1 DEF Job
    <3>2. ws' = ws
      BY <1>1, <1>3, <2>1, <2>4 DEF RemoveTree, WellFormed
    <3>3. job' = [job EXCEPT ![p] = j]
      BY <2>4
    <3>4. OwnStep(p) /\ pc'[p] = "purge.rm" /\ Id(p)' = i
      BY <2>1, <2>4, <3>1, <3>2, <3>3, OwnStay
    <3>5. Fresh(p)'
      BY <1>3, <2>1, <3>2, <3>4 DEF Fresh, HasMeta
    <3> QED
      BY <2>1, <3>2, <3>4, <3>5, QuietStep
  <2> QED
    BY <2>2, <2>3, <2>4
<1>8. CASE PurgeDeleteWs(p)
  <2>1. pc[p] = "purge.rm" /\ arc' = arc
    BY <1>8 DEF PurgeDeleteWs
  <2>2. CASE Return(p) /\ UNCHANGED ws
    BY <2>1, <2>2, QuietReturn
  <2>3. CASE /\ ws' = [ws EXCEPT ![i] = NoDir]
             /\ Goto(p, "purge.delarc") /\ UNCHANGED job
    <3>1. /\ ws'[i] = NoDir /\ ~HasMeta(ws[i])
          /\ \A k \in Ws \ {i} : ws'[k] = ws[k] /\ arc'[k] = arc[k]
      BY <1>1, <1>2, <1>3, <2>1, <2>3 DEF WellFormed
    <3>2. OwnStep(p) /\ pc'[p] = "purge.delarc" /\ Id(p)' = i
      BY <2>1, <2>3, <3>1, OwnMove
    <3>3. Fresh(p)'
      BY <1>3, <2>1, <3>1, <3>2, DirFacts DEF Fresh, HasMeta
    <3>4. LifecycleStep(i)
      BY <1>1, <1>3, <2>1, <3>1, DirFacts, StaysArchived
    <3> QED
      BY <3>1, <3>2, <3>3, <3>4, DirFacts DEF Good
  <2> QED
    BY <1>8, <2>2, <2>3 DEF PurgeDeleteWs
<1>9. CASE PurgeDeleteFiles(p)
  <2>1. pc[p] = "purge.delarc" /\ ws' = ws
    BY <1>9 DEF PurgeDeleteFiles
  <2>2. CASE Return(p) /\ UNCHANGED arc
    BY <2>1, <2>2, QuietReturn
  <2>3. CASE /\ arc' = [arc EXCEPT ![i] = WithMeta(@, NoMeta)]
             /\ Goto(p, "purge.rmdir") /\ UNCHANGED job
    <3>1. /\ arc'[i].meta = NoMeta
          /\ \A k \in Ws \ {i} : ws'[k] = ws[k] /\ arc'[k] = arc[k]
      BY <1>1, <1>2, <2>1, <2>3, DirFacts, ConstantTypes
    <3>2. ~HasMeta(ws[i]) /\ ~ws[i].there /\ ~HasMeta(arc'[i])
      BY <1>1, <1>3, <2>1, <3>1 DEF WellFormed, HasMeta, NoMeta
    <3>3. OwnStep(p) /\ pc'[p] = "purge.rmdir" /\ Id(p)' = i
      BY <2>1, <2>3, <3>1, OwnMove
    <3>4. Fresh(p)'
      BY <2>1, <3>2, <3>3 DEF Fresh, HasMeta
    <3>5. LifecycleStep(i)
      BY <1>1, <1>3, <2>1, <3>2, BecomesAbsent
    <3> QED
      BY <2>1, <3>2, <3>3, <3>4, <3>5 DEF Good
  <2> QED
    BY <1>9, <2>2, <2>3 DEF PurgeDeleteFiles
<1>10. CASE PurgeDeleteArc(p)
  <2>1. pc[p] = "purge.rmdir" /\ ws' = ws
    BY <1>10 DEF PurgeDeleteArc
  <2>2. CASE Return(p) /\ UNCHANGED arc
    BY <2>1, <2>2, QuietReturn
  <2>3. CASE /\ arc' = [arc EXCEPT ![i] = NoDir]
             /\ Goto(p, "purge.base") /\ UNCHANGED job
    <3>1. /\ arc'[i] = NoDir /\ ~HasMeta(ws[i])
          /\ \A k \in Ws \ {i} : ws'[k] = ws[k] /\ arc'[k] = arc[k]
      BY <1>1, <1>2, <1>3, <2>1, <2>3 DEF WellFormed
    <3>2. OwnStep(p) /\ pc'[p] = "purge.base"
      BY <2>1, <2>3, <3>1, OwnMove
    <3>3. Fresh(p)'
      BY <3>2 DEF Fresh
    <3>4. LifecycleStep(i)
      BY <1>1, <1>3, <2>1, <3>1, DirFacts, StaysAbsent
    <3> QED
      BY <3>1, <3>2, <3>3, <3>4, DirFacts DEF Good
  <2> QED
    BY <1>10, <2>2, <2>3 DEF PurgeDeleteArc
<1>11. CASE PurgeBaseline(p)
  <2>1. pc[p] # "idle" /\ ws' = ws /\ arc' = arc
    BY <1>11 DEF PurgeBaseline
  <2>2. Return(p) \/ (Goto(p, "purge.post") /\ job' = job)
    BY <1>11 DEF PurgeBaseline
  <2> QED
    BY <2>1, <2>2, QuietReturn, QuietGoto DEF PlainLabels, Labels
<1>12. CASE PurgeCommit(p)
  BY <1>12, QuietReturn DEF PurgeCommit
<1> QED
  BY <1>4, <1>5, <1>6, <1>7, <1>8, <1>9, <1>10, <1>11, <1>12 DEF PurgeStep

(***************************************************************************)
(* ws add-repo: it may create the directory of the workspace, which is     *)
(* safe as long as nothing is under archive/.                              *)
(***************************************************************************)
LEMMA AddRepoGood ==
    ASSUME SerialInv, NEW p \in Proc, AddRepoStep(p)
    PROVE  Good(p)
<1> DEFINE i == Id(p)
<1>1. /\ i \in Ws /\ Fresh(p) /\ ws[i] \in Dir
      /\ job[p] \in Job /\ job[p].held \in Meta
      /\ job[p].todo \subseteq Repo /\ job[p].done \subseteq Repo
  BY Here
<1>2. /\ pc[p] = "add.apply" => ~arc[i].there
      /\ pc[p] = "add.write" => Agrees(job[p].held, ws[i])
  BY <1>1 DEF Fresh
<1>3. CASE AddPlan(p)
  <2>1. CASE Return(p)
    BY <1>3, <2>1, QuietReturn DEF AddPlan
  <2>2. CASE ~Return(p)
    <3>1. PICK s \in SUBSET (Repo \ Bound(ws[i])) :
              job' = [job EXCEPT ![p].todo = s]
      BY <1>3, <2>2 DEF AddPlan
    <3> DEFINE j == [job[p] EXCEPT !.todo = s]
    <3>2. /\ ~arc[i].there /\ Goto(p, "add.apply") /\ ws' = ws /\ arc' = arc
          /\ pc[p] # "idle" /\ job' = [job EXCEPT ![p] = j]
      BY <1>3, <2>2, <3>1 DEF AddPlan, CanArchive
    <3>3. j.id = job[p].id
      BY <1>1 DEF Job
    <3>4. OwnStep(p) /\ pc'[p] = "add.apply" /\ Id(p)' = i
      BY <3>2, <3>3, OwnGoto
    <3>5. Fresh(p)'
      BY <3>2, <3>4 DEF Fresh
    <3> QED
      BY <3>2, <3>4, <3>5, QuietStep
  <2> QED
    BY <2>1, <2>2
<1>4. CASE AddTreeOf(p)
  <2>1. pc[p] = "add.apply" /\ arc' = arc
    BY <1>4 DEF AddTreeOf
  <2>2. PICK r \in job[p].todo :
            \/ /\ AddTree(i, r)
               /\ job' = [job EXCEPT ![p].todo = @ \ {r}, ![p].done = @ \cup {r}]
               /\ UNCHANGED pc
            \/ Goto(p, "add.rollback") /\ UNCHANGED <<ws, reg, job>>
    BY <1>4 DEF AddTreeOf
  <2>3. CASE Goto(p, "add.rollback") /\ UNCHANGED <<ws, reg, job>>
    BY <2>1, <2>3, QuietGoto DEF PlainLabels, Labels
  <2>4. CASE /\ AddTree(i, r)
             /\ job' = [job EXCEPT ![p].todo = @ \ {r}, ![p].done = @ \cup {r}]
             /\ UNCHANGED pc
    <3> DEFINE j == [job[p] EXCEPT !.todo = job[p].todo \ {r},
                                   !.done = job[p].done \cup {r}]
    <3>1. j.id = job[p].id /\ r \in Repo
      BY <1>1 DEF Job
    <3>2. /\ LifecycleStep(i) /\ ~(ws'[i].there /\ arc'[i].there)
          /\ \A k \in Ws \ {i} : ws'[k] = ws[k] /\ arc'[k] = arc[k]
      BY <1>2, <2>1, <2>4, <3>1, TreeStep DEF AddTree
    <3>3. job' = [job EXCEPT ![p] = j]
      BY <2>4
    <3>4. OwnStep(p) /\ pc'[p] = "add.apply" /\ Id(p)' = i
      BY <2>1, <2>4, <3>1, <3>2, <3>3, OwnStay
    <3>5. Fresh(p)'
      BY <1>2, <2>1, <3>4 DEF Fresh
    <3> QED
      BY <3>2, <3>4, <3>5 DEF Good
  <2> QED
    BY <2>2, <2>3, <2>4
<1>5. CASE AddLoadMeta(p)
  <2>1. pc[p] = "add.apply" /\ ws' = ws /\ arc' = arc
    BY <1>5 DEF AddLoadMeta, disk
  <2>2. CASE Goto(p, "add.rollback") /\ UNCHANGED job
    BY <2>1, <2>2, QuietGoto DEF PlainLabels, Labels
  <2>3. CASE ~(Goto(p, "add.rollback") /\ UNCHANGED job)
    <3> DEFINE j == [job[p] EXCEPT !.held = ws[i].meta]
    <3>1. /\ HasMeta(ws[i]) /\ job' = [job EXCEPT ![p] = j]
          /\ Goto(p, "add.write")
      BY <1>5, <2>3 DEF AddLoadMeta
    <3>2. j.id = job[p].id /\ j.held = ws[i].meta
      BY <1>1 DEF Job
    <3>3. OwnStep(p) /\ pc'[p] = "add.write" /\ job'[p] = j /\ Id(p)' = i
      BY <2>1, <3>1, <3>2, OwnGoto
    <3>4. Agrees(job'[p].held, ws'[i])
      BY <2>1, <3>1, <3>2, <3>3 DEF Agrees, HasMeta
    <3>5. Fresh(p)'
      BY <3>3, <3>4 DEF Fresh, Agrees, HasMeta
    <3> QED
      BY <2>1, <3>3, <3>5, QuietStep
  <2> QED
    BY <2>2, <2>3
<1>6. CASE AddWriteMeta(p)
  <2> DEFINE m == [job[p].held EXCEPT
                     !.restore = [r \in Repo |->
                         IF r \in job[p].done THEN "full" ELSE @[r]]]
  <2>1. pc[p] = "add.write" /\ arc' = arc
    BY <1>6 DEF AddWriteMeta
  <2>2. CASE Goto(p, "add.rollback") /\ UNCHANGED <<ws, job>>
    BY <2>1, <2>2, QuietGoto DEF PlainLabels, Labels
  <2>3. CASE ws' = [ws EXCEPT ![i] = WithMeta(@, m)] /\ Return(p)
    <3>1. m \in Meta /\ Agrees(m, ws[i])
      BY <1>1, <1>2, <2>1 DEF Meta, Entry, Agrees
    <3> QED
      BY <2>1, <2>3, <3>1, WriteAndReturn
  <2> QED
    BY <1>6, <2>2, <2>3 DEF AddWriteMeta
<1>7. CASE AddRollback(p)
  <2>1. pc[p] = "add.rollback" /\ arc' = arc
    BY <1>7 DEF AddRollback
  <2>2. CASE Return(p) /\ UNCHANGED <<ws, reg>>
    BY <2>1, <2>2, QuietReturn
  <2>3. CASE ~(Return(p) /\ UNCHANGED <<ws, reg>>)
    <3>1. PICK r \in job[p].done :
              /\ ws' = [ws EXCEPT ![i] = WithoutTree(@, r)] \/ ws' = ws
              /\ job' = [job EXCEPT ![p].done = @ \ {r}]
              /\ UNCHANGED pc
      BY <1>7, <2>3 DEF AddRollback
    <3> DEFINE j == [job[p] EXCEPT !.done = job[p].done \ {r}]
    <3>2. j.id = job[p].id /\ r \in Repo
      BY <1>1 DEF Job
    <3>3. /\ LifecycleStep(i) /\ ~(ws'[i].there /\ arc'[i].there)
          /\ \A k \in Ws \ {i} : ws'[k] = ws[k] /\ arc'[k] = arc[k]
      BY <2>1, <3>1, <3>2, TreeStep
    <3>4. job' = [job EXCEPT ![p] = j]
      BY <3>1
    <3>5. OwnStep(p) /\ pc'[p] = "add.rollback"
      BY <2>1, <3>1, <3>2, <3>3, <3>4, OwnStay
    <3>6. Fresh(p)'
      BY <3>5 DEF Fresh
    <3> QED
      BY <3>3, <3>5, <3>6 DEF Good
  <2> QED
    BY <2>2, <2>3
<1> QED
  BY <1>3, <1>4, <1>5, <1>6, <1>7 DEF AddRepoStep

(***************************************************************************)
(* ws remove-repo keeps the place and the guard of the workspace.          *)
(***************************************************************************)
LEMMA RemoveRepoGood ==
    ASSUME SerialInv, NEW p \in Proc, RemoveRepoStep(p)
    PROVE  Good(p)
<1> DEFINE i == Id(p)
<1>1. /\ i \in Ws /\ Fresh(p) /\ ws[i] \in Dir
      /\ job[p] \in Job /\ job[p].held \in Meta
      /\ job[p].todo \subseteq Repo
  BY Here
<1>2. pc[p] = "remove.write" => Agrees(job[p].held, ws[i])
  BY <1>1 DEF Fresh
<1>3. CASE RemovePlan(p)
  <2>1. CASE Return(p)
    BY <1>3, <2>1, QuietReturn DEF RemovePlan, disk
  <2>2. CASE ~Return(p)
    <3>1. PICK s \in SUBSET Bound(ws[i]) :
              job' = [job EXCEPT ![p].todo = s, ![p].done = s]
      BY <1>3, <2>2 DEF RemovePlan
    <3> DEFINE j == [job[p] EXCEPT !.todo = s, !.done = s]
    <3>2. /\ Goto(p, "remove.rm") /\ ws' = ws /\ arc' = arc
          /\ pc[p] # "idle" /\ job' = [job EXCEPT ![p] = j]
      BY <1>3, <2>2, <3>1 DEF RemovePlan, disk
    <3>3. j.id = job[p].id
      BY <1>1 DEF Job
    <3>4. OwnStep(p) /\ pc'[p] = "remove.rm"
      BY <3>2, <3>3, OwnGoto
    <3>5. Fresh(p)'
      BY <3>4 DEF Fresh
    <3> QED
      BY <3>2, <3>4, <3>5, QuietStep
  <2> QED
    BY <2>1, <2>2
<1>4. CASE RemoveTreeOf(p)
  <2>1. pc[p] = "remove.rm" /\ arc' = arc
    BY <1>4 DEF RemoveTreeOf
  <2>2. PICK r \in job[p].todo :
            \/ /\ RemoveTree(i, r)
               /\ job' = [job EXCEPT ![p].todo = @ \ {r}]
               /\ UNCHANGED pc
            \/ Return(p) /\ UNCHANGED <<ws, reg>>
    BY <1>4 DEF RemoveTreeOf
  <2>3. CASE Return(p) /\ UNCHANGED <<ws, reg>>
    BY <2>1, <2>3, QuietReturn
  <2>4. CASE RemoveTree(i, r) /\ job' = [job EXCEPT ![p].todo = @ \ {r}]
                              /\ UNCHANGED pc
    <3> DEFINE j == [job[p] EXCEPT !.todo = job[p].todo \ {r}]
    <3>1. j.id = job[p].id /\ r \in Repo
      BY <1>1 DEF Job
    <3>2. \/ ws' = ws
          \/ ws' = [ws EXCEPT ![i] = WithoutTree(@, r)]
      BY <2>4 DEF RemoveTree
    <3>3. /\ LifecycleStep(i) /\ ~(ws'[i].there /\ arc'[i].there)
          /\ \A k \in Ws \ {i} : ws'[k] = ws[k] /\ arc'[k] = arc[k]
      BY <2>1, <3>1, <3>2, TreeStep
    <3>4. job' = [job EXCEPT ![p] = j]
      BY <2>4
    <3>5. OwnStep(p) /\ pc'[p] = "remove.rm"
      BY <2>1, <2>4, <3>1, <3>3, <3>4, OwnStay
    <3>6. Fresh(p)'
      BY <3>5 DEF Fresh
    <3> QED
      BY <3>3, <3>5, <3>6 DEF Good
  <2> QED
    BY <2>2, <2>3, <2>4
<1>5. CASE RemoveLoadMeta(p)
  <2>1. pc[p] = "remove.rm" /\ ws' = ws /\ arc' = arc
    BY <1>5 DEF RemoveLoadMeta, disk
  <2>2. CASE Return(p)
    BY <2>1, <2>2, QuietReturn
  <2>3. CASE ~Return(p)
    <3> DEFINE j == [job[p] EXCEPT !.held = ws[i].meta]
    <3>1. /\ HasMeta(ws[i]) /\ job' = [job EXCEPT ![p] = j]
          /\ Goto(p, "remove.write")
      BY <1>5, <2>3 DEF RemoveLoadMeta
    <3>2. j.id = job[p].id /\ j.held = ws[i].meta
      BY <1>1 DEF Job
    <3>3. OwnStep(p) /\ pc'[p] = "remove.write" /\ job'[p] = j /\ Id(p)' = i
      BY <2>1, <3>1, <3>2, OwnGoto
    <3>4. Agrees(job'[p].held, ws'[i])
      BY <2>1, <3>1, <3>2, <3>3 DEF Agrees, HasMeta
    <3>5. Fresh(p)'
      BY <3>3, <3>4 DEF Fresh, Agrees, HasMeta
    <3> QED
      BY <2>1, <3>3, <3>5, QuietStep
  <2> QED
    BY <2>2, <2>3
<1>6. CASE RemoveWriteMeta(p)
  <2> DEFINE m == [job[p].held EXCEPT
                     !.restore = [r \in Repo |->
                         IF r \in job[p].done THEN "absent" ELSE @[r]]]
  <2>1. /\ pc[p] = "remove.write" /\ arc' = arc /\ Return(p)
        /\ \/ ws' = [ws EXCEPT ![i] = WithMeta(@, m)]
           \/ ws' = ws
    BY <1>6 DEF RemoveWriteMeta
  <2>2. m \in Meta /\ Agrees(m, ws[i])
    BY <1>1, <1>2, <2>1 DEF Meta, Entry, Agrees
  <2> QED
    BY <2>1, <2>2, WriteAndReturn
<1> QED
  BY <1>3, <1>4, <1>5, <1>6 DEF RemoveRepoStep
-----------------------------------------------------------------------------
(***************************************************************************)
(* Every step of a command and every crash is good.                        *)
(***************************************************************************)
LEMMA StepGood ==
    ASSUME SerialInv, NEW p \in Proc, Step(p) \/ Crash(p)
    PROVE  Good(p)
<1>1. CASE Step(p)
  BY <1>1, CreateGood, GuardGood, CloseGood, ReopenGood, PurgeGood,
     AddRepoGood, RemoveRepoGood DEF Step
<1>2. CASE Crash(p)
  BY <1>2, QuietReturn DEF Crash
<1> QED
  BY <1>1, <1>2

(***************************************************************************)
(* An add-repo makes no calls of other commands.                           *)
(***************************************************************************)
LEMMA AddNext ==
    ASSUME NEW p \in Proc, Step(p), pc[p] \in AddCalls
    PROVE  AddRepoStep(p)
<1>1. ~CreateStep(p)
  BY DEF CreateStep, CreateStat, CreateMkdir, CreateFill, CreateBaseline,
         CreateCommit, AddCalls
<1>2. ~GuardStep(p)
  BY DEF GuardStep, GuardLoad, GuardWrite, AddCalls
<1>3. ~CloseStep(p)
  BY DEF CloseStep, CloseRisk, CloseScan, ClosePreCommit, CloseRemoveTree,
         CloseWriteMeta, CloseRename, CloseBaseline, CloseCommit, AddCalls
<1>4. ~ReopenStep(p)
  BY DEF ReopenStep, ReopenStat, ReopenPreCommit, ReopenRename, ReopenLoad,
         ReopenAddTree, ReopenWriteMeta, ReopenBaseline, ReopenCommit, AddCalls
<1>5. ~PurgeStep(p)
  BY DEF PurgeStep, PurgeCheck, PurgePreCommit, PurgeList, PurgeRemoveTree,
         PurgeDeleteWs, PurgeDeleteFiles, PurgeDeleteArc, PurgeBaseline,
         PurgeCommit, AddCalls
<1>6. ~RemoveRepoStep(p)
  BY DEF RemoveRepoStep, RemovePlan, RemoveTreeOf, RemoveLoadMeta,
         RemoveWriteMeta, AddCalls
<1> QED
  BY <1>1, <1>2, <1>3, <1>4, <1>5, <1>6 DEF Step

(***************************************************************************)
(* What add-repo changes of a workspace: worktrees, or entries under the   *)
(* guard that the metadata on disk has.                                    *)
(***************************************************************************)
LEMMA AddRepoKeeps ==
    ASSUME SerialInv, NEW p \in Proc, AddRepoStep(p)
    PROVE  AddKeeps(Id(p))
<1> DEFINE i == Id(p)
<1>1. /\ i \in Ws /\ Fresh(p) /\ ws[i] \in Dir
      /\ job[p].held \in Meta
      /\ job[p].todo \subseteq Repo /\ job[p].done \subseteq Repo
  BY Here
<1>2. ws \in [Ws -> Dir]
  BY DEF SerialInv, TypeOK
<1>3. CASE AddPlan(p)
  BY <1>3 DEF AddPlan, AddKeeps
<1>4. CASE AddTreeOf(p)
  <2>1. PICK r \in Repo : /\ \/ ws' = [ws EXCEPT ![i] = WithTree(@, r)]
                             \/ ws' = ws
                          /\ arc' = arc
    BY <1>1, <1>4 DEF AddTreeOf, AddTree
  <2>2. ws'[i].meta = ws[i].meta
    BY <1>1, <1>2, <2>1, DirFacts
  <2> QED
    BY <2>1, <2>2 DEF AddKeeps, HasMeta
<1>5. CASE AddLoadMeta(p)
  BY <1>5 DEF AddLoadMeta, disk, AddKeeps
<1>6. CASE AddWriteMeta(p)
  <2> DEFINE m == [job[p].held EXCEPT
                     !.restore = [r \in Repo |->
                         IF r \in job[p].done THEN "full" ELSE @[r]]]
  <2>1. /\ pc[p] = "add.write" /\ arc' = arc
        /\ ws' = [ws EXCEPT ![i] = WithMeta(@, m)] \/ ws' = ws
    BY <1>6 DEF AddWriteMeta
  <2>2. Agrees(job[p].held, ws[i])
    BY <1>1, <2>1 DEF Fresh
  <2>3. m \in Meta /\ m.status = job[p].held.status /\ m.guard = job[p].held.guard
    BY <1>1 DEF Meta, Entry
  <2> HIDE DEF m
  <2>4. CASE ws' = [ws EXCEPT ![i] = WithMeta(@, m)]
    <3>1. ws'[i].meta = m
      BY <1>1, <1>2, <2>3, <2>4, DirFacts
    <3> QED
      BY <2>1, <2>2, <2>3, <3>1 DEF AddKeeps, Agrees, HasMeta
  <2> QED
    BY <2>1, <2>4 DEF AddKeeps
<1>7. CASE AddRollback(p)
  <2>1. \/ ws' = ws
        \/ \E r \in Repo : ws' = [ws EXCEPT ![i] = WithoutTree(@, r)]
    BY <1>1, <1>7 DEF AddRollback
  <2>2. ws'[i].meta = ws[i].meta /\ arc' = arc
    BY <1>1, <1>2, <1>7, <2>1, DirFacts DEF AddRollback
  <2> QED
    BY <2>2 DEF AddKeeps, HasMeta
<1> QED
  BY <1>3, <1>4, <1>5, <1>6, <1>7 DEF AddRepoStep

(***************************************************************************)
(* Every step of a command, and the death of its process.                  *)
(***************************************************************************)
LEMMA StepTurn ==
    ASSUME SerialInv, OnlyAddsOverlap, NEW p \in Proc, Step(p) \/ Crash(p)
    PROVE  Turn(p)
<1>1. pc[p] # "idle"
  BY StepGood DEF Good, OwnStep
<1>2. CASE pc[p] \notin AddCalls
  BY <1>1, <1>2 DEF OnlyAddsOverlap, Turn, Sole
<1>3. CASE pc[p] \in AddCalls
  <2>1. AddKeeps(Id(p))
    BY <1>3, AddNext, AddRepoKeeps DEF Crash, AddKeeps
  <2> QED
    BY <1>3, <2>1 DEF Turn
<1> QED
  BY <1>2, <1>3

(***************************************************************************)
(* The user's edits and the start of a command leave the places and the    *)
(* metadata of all workspaces alone.                                       *)
(***************************************************************************)
PlacesKept ==
    \A i \in Ws :
        /\ ws'[i].there = ws[i].there /\ ws'[i].meta = ws[i].meta
        /\ arc'[i] = arc[i]

(***************************************************************************)
(* A command that starts knows nothing about its workspace.                *)
(***************************************************************************)
LEMMA StartSerial ==
    ASSUME SerialInv, TypeOK', NEW p \in Proc, Start(p)
    PROVE  SerialInv' /\ PlacesKept
<1>1. PICK c \in Commands, i \in Ws, o \in Modes \cup {TRUE} :
          /\ pc' = [pc EXCEPT ![p] = FirstCall(c)]
          /\ job' = [job EXCEPT ![p] =
                        [NoJob EXCEPT !.cmd = c, !.id = i, !.opt = o]]
  BY DEF Start
<1>2. ws' = ws /\ arc' = arc
  BY DEF Start, disk
<1>3. /\ pc \in [Proc -> Labels] /\ job \in [Proc -> Job]
      /\ c \in AllCommands
  BY ConstantsAssumption DEF SerialInv, TypeOK
<1>4. pc'[p] = FirstCall(c)
  BY <1>1, <1>3
<1>5. \A q \in Proc \ {p} : pc'[q] = pc[q] /\ job'[q] = job[q]
  BY <1>1, <1>3
<1>7. ASSUME NEW q \in Proc PROVE Fresh(q)'
  <2>1. CASE q = p
    BY <1>3, <1>4, <2>1 DEF Fresh, FirstCall, AllCommands
  <2>2. CASE q # p
    <3>1. Fresh(q) /\ pc'[q] = pc[q] /\ job'[q] = job[q]
      BY <1>5, <2>2 DEF SerialInv, ViewsFresh
    <3> QED
      BY <1>2, <3>1 DEF Fresh, Id
  <2> QED
    BY <2>1, <2>2
<1> QED
  BY <1>2, <1>7 DEF SerialInv, Exclusive, ViewsFresh, PlacesKept

(***************************************************************************)
(* A step that keeps the places and metadata, and the processes.           *)
(***************************************************************************)
LEMMA PlacesKeptSerial ==
    ASSUME SerialInv, TypeOK', PlacesKept, pc' = pc, job' = job
    PROVE  SerialInv'
<1>1. Exclusive'
  BY DEF SerialInv, Exclusive, PlacesKept
<1>2. ASSUME NEW p \in Proc PROVE Fresh(p)'
  <2>1. Fresh(p) /\ Id(p) \in Ws
    BY Here
  <2>2. /\ ws'[Id(p)].there = ws[Id(p)].there
        /\ ws'[Id(p)].meta = ws[Id(p)].meta
        /\ arc'[Id(p)] = arc[Id(p)] /\ Id(p)' = Id(p)
    BY <2>1 DEF PlacesKept, Id
  <2> QED
    BY <2>1, <2>2 DEF Fresh, Agrees, HasMeta
<1> QED
  BY <1>1, <1>2 DEF SerialInv, ViewsFresh

(***************************************************************************)
(* The user works on files and in worktrees.                               *)
(***************************************************************************)
LEMMA EditSerial ==
    ASSUME SerialInv, TypeOK', NEW i \in Ws, EditNote(i) \/ EditTree(i)
    PROVE  SerialInv' /\ PlacesKept
<1>1. ws \in [Ws -> Dir]
  BY DEF SerialInv, TypeOK
<1>2. pc' = pc /\ job' = job /\ arc' = arc
  BY DEF EditNote, EditTree
<1>3. CASE EditNote(i)
  <2>1. PICK n \in Notes : ws' = [ws EXCEPT ![i].note = n]
    BY <1>3 DEF EditNote
  <2>2. PlacesKept
    BY <1>1, <1>2, <2>1 DEF PlacesKept, Dir
  <2> QED
    BY <1>2, <2>2, PlacesKeptSerial
<1>4. CASE EditTree(i)
  <2>1. PICK r \in ws[i].trees :
            \/ ws' = [ws EXCEPT ![i].dirty = @ \cup {r}]
            \/ ws' = [ws EXCEPT ![i].dirty = @ \ {r}]
            \/ ws' = [ws EXCEPT ![i].loose = @ \cup {r}]
            \/ ws' = [ws EXCEPT ![i].loose = @ \ {r}]
    BY <1>4 DEF EditTree
  <2>2. PlacesKept
    BY <1>1, <1>2, <2>1 DEF PlacesKept, Dir
  <2> QED
    BY <1>2, <2>2, PlacesKeptSerial
<1> QED
  BY <1>3, <1>4

(***************************************************************************)
(* The invariant holds in an empty root.                                   *)
(***************************************************************************)
LEMMA InitSerial == Init => SerialInv
<1> SUFFICES ASSUME Init PROVE SerialInv
  OBVIOUS
<1>1. TypeOK
  BY InitTypes
<1>2. ViewsFresh
  BY DEF Init, ViewsFresh, Fresh
<1>3. Exclusive
  BY DEF Init, Exclusive, NoDir
<1> QED
  BY <1>1, <1>2, <1>3 DEF SerialInv

(***************************************************************************)
(* The effect of a step of any process or of the user: the invariant is    *)
(* kept, and either no place and no metadata changes, or those of one      *)
(* workspace do, as in the abstract specification.                         *)
(***************************************************************************)
LEMMA NextSerial ==
    ASSUME OnlyAddsOverlap, SerialInv, [Next]_vars
    PROVE  /\ SerialInv'
           /\ \/ PlacesKept
              \/ \E i \in Ws :
                    /\ LifecycleStep(i)
                    /\ \A k \in Ws \ {i} : ws'[k] = ws[k] /\ arc'[k] = arc[k]
<1>1. TypeOK'
  BY NextTypes DEF SerialInv
<1>2. ASSUME NEW p \in Proc, Start(p)
      PROVE  SerialInv' /\ PlacesKept
  BY <1>1, <1>2, StartSerial
<1>3. ASSUME NEW p \in Proc, Step(p) \/ Crash(p)
      PROVE  /\ SerialInv'
             /\ \E i \in Ws :
                   /\ LifecycleStep(i)
                   /\ \A k \in Ws \ {i} : ws'[k] = ws[k] /\ arc'[k] = arc[k]
  <2>1. Good(p) /\ Turn(p) /\ Id(p) \in Ws
    BY <1>3, StepGood, StepTurn, Here
  <2>2. SerialInv'
    BY <1>1, <2>1, Frame DEF Good
  <2> QED
    BY <2>1, <2>2 DEF Good, OwnStep
<1>4. ASSUME NEW i \in Ws, EditNote(i) \/ EditTree(i)
      PROVE  SerialInv' /\ PlacesKept
  BY <1>1, <1>4, EditSerial
<1>5. CASE UNCHANGED vars
  <2>1. PlacesKept /\ pc' = pc /\ job' = job
    BY <1>5 DEF PlacesKept, vars
  <2> QED
    BY <1>1, <2>1, PlacesKeptSerial
<1> QED
  BY <1>2, <1>3, <1>4, <1>5 DEF Next

(***************************************************************************)
(* Such a step is one of the abstract specification.                       *)
(***************************************************************************)
LEMMA AbstractStep ==
    ASSUME TypeOK', NEW i \in Ws, LifecycleStep(i),
           \A k \in Ws \ {i} : ws'[k] = ws[k] /\ arc'[k] = arc[k]
    PROVE  [Abstract!Next]_(Abstract!vars)
<1> DEFINE s == [k \in Ws |-> StatusOf(k)]
           g == [k \in Ws |-> GuardOf(k)]
<1>1. \A k \in Ws \ {i} :
          StatusOf(k)' = StatusOf(k) /\ GuardOf(k)' = GuardOf(k)
  BY DEF StatusOf, GuardOf, HasMeta
<1>2. /\ s' = [s EXCEPT ![i] = StatusOf(i)']
      /\ g' = [g EXCEPT ![i] = GuardOf(i)']
      /\ s[i] = StatusOf(i) /\ g[i] = GuardOf(i)
  BY <1>1
<1>3. GuardOf(i)' \in BOOLEAN
  BY DEF TypeOK, GuardOf, HasMeta, Dir, Meta
<1>4. CASE StatusOf(i)' = StatusOf(i) /\ GuardOf(i)' = GuardOf(i)
  <2>1. s' = s /\ g' = g
    BY <1>1, <1>4
  <2> QED
    BY <2>1 DEF Abstract!vars
<1>5. CASE StatusOf(i)' = StatusOf(i) /\ StatusOf(i) # "none"
  <2>1. s' = s
    BY <1>1, <1>5
  <2>2. Abstract!SetGuard(i)
    BY <1>2, <1>3, <1>5, <2>1 DEF Abstract!SetGuard
  <2> QED
    BY <2>2 DEF Abstract!Next
<1>6. CASE /\ <<StatusOf(i), StatusOf(i)'>> \in
                  {<<"none", "active">>, <<"active", "archived">>,
                   <<"archived", "active">>}
           /\ GuardOf(i)' = GuardOf(i)
  <2>1. g' = g
    BY <1>1, <1>6
  <2>2. Abstract!Create(i) \/ Abstract!Close(i) \/ Abstract!Reopen(i)
    BY <1>2, <1>6, <2>1 DEF Abstract!Create, Abstract!Close, Abstract!Reopen
  <2> QED
    BY <2>2 DEF Abstract!Next
<1>7. CASE /\ StatusOf(i) = "archived" /\ ~GuardOf(i)
           /\ StatusOf(i)' = "none" /\ GuardOf(i)'
  <2>1. GuardOf(i)' = TRUE
    BY <1>3, <1>7
  <2>2. Abstract!Purge(i)
    BY <1>2, <1>7, <2>1 DEF Abstract!Purge
  <2> QED
    BY <2>2 DEF Abstract!Next
<1> QED
  BY <1>4, <1>5, <1>6, <1>7 DEF LifecycleStep

(***************************************************************************)
(* A step that keeps places and metadata is no step of the abstract one.   *)
(***************************************************************************)
LEMMA AbstractStutter ==
    ASSUME PlacesKept
    PROVE  UNCHANGED Abstract!vars
<1>1. \A k \in Ws : StatusOf(k)' = StatusOf(k) /\ GuardOf(k)' = GuardOf(k)
  BY DEF PlacesKept, StatusOf, GuardOf, HasMeta
<1> QED
  BY <1>1 DEF Abstract!vars

(***************************************************************************)
(* An empty root has no workspace.                                         *)
(***************************************************************************)
LEMMA AbstractInit == Init => Abstract!Init
BY DirFacts DEF Init, Abstract!Init, StatusOf, GuardOf
-----------------------------------------------------------------------------
(***************************************************************************)
(* The invariant, for any number of workspaces, repositories and           *)
(* processes, with any call failing and any process dying at any call.     *)
(***************************************************************************)
THEOREM SerialCorrect == Spec /\ []OnlyAddsOverlap => []SerialInv
<1>1. Init => SerialInv
  BY InitSerial
<1>2. SerialInv /\ OnlyAddsOverlap /\ [Next]_vars => SerialInv'
  BY NextSerial
<1> QED
  BY <1>1, <1>2, PTL DEF Spec

(***************************************************************************)
(* No failure and no crash of create, close, reopen or purge leaves a      *)
(* workspace both under workspaces/ and under archive/.                    *)
(***************************************************************************)
THEOREM ExclusiveCorrect == Spec /\ []OnlyAddsOverlap => []Exclusive
<1>1. SerialInv => Exclusive
  BY DEF SerialInv
<1> QED
  BY <1>1, SerialCorrect, PTL

(***************************************************************************)
(* The commands implement the life cycle of Lifecycle.                     *)
(***************************************************************************)
THEOREM Refinement == Spec /\ []OnlyAddsOverlap => RefinesLifecycle
<1>1. Init => Abstract!Init
  BY AbstractInit
<1>2. SerialInv /\ SerialInv' /\ OnlyAddsOverlap /\ [Next]_vars
      => [Abstract!Next]_(Abstract!vars)
  <2> SUFFICES ASSUME SerialInv, SerialInv', OnlyAddsOverlap, [Next]_vars
               PROVE  [Abstract!Next]_(Abstract!vars)
    OBVIOUS
  <2>1. CASE PlacesKept
    BY <2>1, AbstractStutter
  <2>2. CASE \E i \in Ws :
                /\ LifecycleStep(i)
                /\ \A k \in Ws \ {i} : ws'[k] = ws[k] /\ arc'[k] = arc[k]
    BY <2>2, AbstractStep DEF SerialInv
  <2> QED
    BY <2>1, <2>2, NextSerial
<1>3. Spec /\ []OnlyAddsOverlap => []SerialInv
  BY SerialCorrect
<1> QED
  BY <1>1, <1>2, <1>3, PTL DEF Spec, RefinesLifecycle, Abstract!Spec

(***************************************************************************)
(* The results hold in particular when a command never starts on a         *)
(* workspace that another one works on, as Start is told by Serial.        *)
(***************************************************************************)
THEOREM SerialSuffices ==
    ASSUME Serial
    PROVE  Spec => []OnlyAddsOverlap
<1> DEFINE Serially ==
             \A p, q \in Proc :
                 pc[p] # "idle" /\ pc[q] # "idle" /\ Id(p) = Id(q) => p = q
<1>1. Serially => OnlyAddsOverlap
  BY DEF OnlyAddsOverlap
<1>2. Init => SerialInv /\ Serially
  BY InitSerial DEF Init
<1>3. ASSUME SerialInv, Serially, [Next]_vars PROVE Serially'
  <2>1. ASSUME NEW p \in Proc, Start(p) PROVE Serially'
    <3>1. PICK c \in Commands, i \in Ws, o \in Modes \cup {TRUE} :
              /\ \A q \in Proc : pc[q] # "idle" => Id(q) # i
              /\ pc' = [pc EXCEPT ![p] = FirstCall(c)]
              /\ job' = [job EXCEPT ![p] =
                            [NoJob EXCEPT !.cmd = c, !.id = i, !.opt = o]]
      BY <2>1 DEF Start
    <3>2. pc \in [Proc -> Labels] /\ job \in [Proc -> Job]
      BY <1>3 DEF SerialInv, TypeOK
    <3>3. Id(p)' = i /\ \A q \in Proc \ {p} : pc'[q] = pc[q] /\ job'[q] = job[q]
      BY <3>1, <3>2 DEF Id, NoJob
    <3> QED
      BY <1>3, <3>1, <3>3 DEF Id
  <2>2. ASSUME NEW p \in Proc, Step(p) \/ Crash(p) PROVE Serially'
    <3>1. OwnStep(p)
      BY <1>3, <2>2, StepGood DEF Good
    <3> QED
      BY <1>3, <3>1 DEF OwnStep, Id
  <2>3. CASE pc' = pc /\ job' = job
    BY <1>3, <2>3 DEF Id
  <2> QED
    BY <1>3, <2>1, <2>2, <2>3 DEF Next, EditNote, EditTree, vars
<1>4. ASSUME SerialInv, Serially, [Next]_vars PROVE SerialInv' /\ Serially'
  <2>1. Serially'
    BY <1>3, <1>4
  <2>2. SerialInv'
    BY <1>1, <1>4, NextSerial
  <2> QED
    BY <2>1, <2>2
<1>5. SerialInv /\ Serially /\ [Next]_vars => (SerialInv /\ Serially)'
  BY <1>4
<1> QED
  BY <1>1, <1>2, <1>5, PTL DEF Spec
-----------------------------------------------------------------------------
-----------------------------------------------------------------------------
(***************************************************************************)
(* Status and place.  As long as nothing has happened that a rollback did  *)
(* not undo ("status" among the scars), the status of a workspace fits its *)
(* place, but for the calls in the middle of create, close and reopen.     *)
(***************************************************************************)
Halfway == {"create.fill", "close.rename", "reopen.load", "reopen.add"}

(***************************************************************************)
(* Directories w and a of a workspace, before call l of a command with     *)
(* local variables j.                                                      *)
(***************************************************************************)
StatusRight(w, a, l, j) ==
    /\ HasMeta(a) => a.meta.status = "archived"
    /\ l \notin Halfway /\ w.there => w.meta.status = "active"
    /\ l = "guard.write" =>
         j.held.status = (IF j.where = "ws" THEN "active" ELSE "archived")
    /\ l \in {"close.pre", "close.rm", "close.rename"} =>
         j.held.status = "active" /\ j.next.status = "archived"
    /\ l \in {"close.rename", "reopen.load", "reopen.add"} /\ HasMeta(w) =>
         w.meta.status = "archived"
    /\ l \in {"add.apply", "add.write", "add.rollback"} => w.there
    /\ l \in {"add.write", "remove.write"} => j.held.status = "active"

StatusRightOf(p) == StatusRight(ws[Id(p)], arc[Id(p)], pc[p], job[p])

StatusInv ==
    /\ \A i \in Ws : "status" \notin scars[i] /\ AtRest(i)
          => StatusRight(ws[i], arc[i], "idle", NoJob)
    /\ \A p \in Proc : "status" \notin scars[Id(p)] /\ pc[p] # "idle"
          => StatusRightOf(p)

(***************************************************************************)
(* What has to be shown of a step of p.                                    *)
(***************************************************************************)
StatusKept(p) ==
    "status" \notin scars'[Id(p)] =>
        StatusRight(ws'[Id(p)], arc'[Id(p)], pc'[p], job'[p])

(***************************************************************************)
(* Calls before which nothing but the status itself matters.               *)
(***************************************************************************)
Settled ==
    Labels \ {"create.fill", "guard.write", "close.pre", "close.rm",
              "close.rename", "reopen.load", "reopen.add", "add.apply",
              "add.write", "add.rollback", "remove.write"}

LEMMA SettledRight ==
    ASSUME NEW w, NEW a, NEW l \in Settled, NEW j,
           HasMeta(a) => a.meta.status = "archived",
           w.there => w.meta.status = "active"
    PROVE  StatusRight(w, a, l, j)
BY DEF StatusRight, Settled

(***************************************************************************)
(* A step that leaves both directories alone, and one that returns.        *)
(***************************************************************************)
LEMMA StatusStays ==
    ASSUME NEW p \in Proc, StatusRightOf(p), pc[p] \notin Halfway,
           ws' = ws, arc' = arc, pc'[p] \in Settled
    PROVE  StatusKept(p)
<1>1. /\ HasMeta(arc[Id(p)]) => arc[Id(p)].meta.status = "archived"
      /\ ws[Id(p)].there => ws[Id(p)].meta.status = "active"
  BY DEF StatusRightOf, StatusRight
<1>2. StatusRight(ws'[Id(p)], arc'[Id(p)], pc'[p], job'[p])
  BY <1>1, SettledRight
<1> QED
  BY <1>2 DEF StatusKept

LEMMA StatusReturns ==
    ASSUME SerialInv, NEW p \in Proc, Return(p),
           HasMeta(arc'[Id(p)]) => arc'[Id(p)].meta.status = "archived",
           ws'[Id(p)].there => ws'[Id(p)].meta.status = "active"
    PROVE  StatusKept(p)
<1>1. pc'[p] = "idle"
  BY DEF Return, SerialInv, TypeOK
<1>2. pc'[p] \in Settled
  BY <1>1 DEF Settled, Labels
<1> QED
  BY <1>2, SettledRight DEF StatusKept

(***************************************************************************)
(* What a scar does to the scars of its workspace.                         *)
(***************************************************************************)
LEMMA ScarredHere ==
    ASSUME SerialInv, NEW p \in Proc, NEW c \in Scar, scars' = Scarred(Id(p), c)
    PROVE  c \in scars'[Id(p)]
BY Here DEF SerialInv, TypeOK, Scarred

(***************************************************************************)
(* ws create                                                               *)
(***************************************************************************)
LEMMA CreateStatus ==
    ASSUME SerialInv, NEW p \in Proc, StatusRightOf(p), CreateStep(p)
    PROVE  StatusKept(p)
<1> DEFINE i == Id(p)
<1>1. /\ i \in Ws /\ ws[i] \in Dir /\ Fresh(p)
      /\ pc \in [Proc -> Labels] /\ ws \in [Ws -> Dir]
  BY Here DEF SerialInv, TypeOK
<1>2. /\ HasMeta(arc[i]) => arc[i].meta.status = "archived"
      /\ pc[p] \notin Halfway /\ ws[i].there => ws[i].meta.status = "active"
  BY DEF StatusRightOf, StatusRight
<1>3. CASE CreateStat(p) \/ CreateBaseline(p) \/ CreateCommit(p)
  <2>1. pc[p] \notin Halfway /\ ws' = ws /\ arc' = arc
    BY <1>3 DEF CreateStat, CreateBaseline, CreateCommit, disk, Halfway
  <2>2. pc'[p] \in Settled
    BY <1>1, <1>3 DEF CreateStat, CreateBaseline, CreateCommit, Goto, Return,
                      Settled, Labels
  <2> QED
    BY <2>1, <2>2, StatusStays
<1>4. CASE CreateMkdir(p)
  <2>1. arc' = arc /\ pc[p] \notin Halfway
    BY <1>4 DEF CreateMkdir, Halfway
  <2>2. CASE Return(p) /\ ws' = ws
    BY <1>2, <2>1, <2>2, StatusReturns
  <2>3. CASE ~(Return(p) /\ ws' = ws)
    <3>1. pc'[p] = "create.fill"
      BY <1>1, <1>4, <2>3 DEF CreateMkdir, Goto
    <3>2. StatusRight(ws'[i], arc'[i], pc'[p], job'[p])
      BY <1>2, <2>1, <3>1 DEF StatusRight, Halfway
    <3> QED
      BY <3>2 DEF StatusKept
  <2> QED
    BY <2>2, <2>3
<1>5. CASE CreateFill(p)
  <2>1. arc' = arc
    BY <1>5 DEF CreateFill
  <2>2. CASE ws' = [ws EXCEPT ![i] = WithMeta(@, FreshMeta)] /\ Goto(p, "create.base")
    <3>1. ws'[i].meta = FreshMeta /\ pc'[p] = "create.base"
      BY <1>1, <2>2, DirFacts, ConstantTypes DEF Goto
    <3>2. pc'[p] \in Settled /\ ws'[i].meta.status = "active"
      BY <3>1, FreshMetaFacts DEF Settled, Labels
    <3> QED
      BY <1>2, <2>1, <3>2, SettledRight DEF StatusKept
  <2>3. CASE ws' = [ws EXCEPT ![i] = NoDir] /\ Return(p)
    BY <1>1, <1>2, <2>1, <2>3, StatusReturns, DirFacts
  <2>4. CASE scars' = Scarred(i, "status")
    BY <2>4, ScarredHere DEF StatusKept, Scar
  <2> QED
    BY <1>5, <2>2, <2>3, <2>4 DEF CreateFill
<1> QED
  BY <1>3, <1>4, <1>5 DEF CreateStep

(***************************************************************************)
(* ws lock and ws unlock write the status they have read.                  *)
(***************************************************************************)
LEMMA GuardStatus ==
    ASSUME SerialInv, NEW p \in Proc, StatusRightOf(p), GuardStep(p)
    PROVE  StatusKept(p)
<1> DEFINE i == Id(p)
<1>1. /\ i \in Ws /\ ws[i] \in Dir /\ arc[i] \in Dir /\ Fresh(p)
      /\ job[p] \in Job /\ job[p].held \in Meta
      /\ pc \in [Proc -> Labels] /\ job \in [Proc -> Job]
      /\ ws \in [Ws -> Dir] /\ arc \in [Ws -> Dir] /\ TypeOK
  BY Here DEF SerialInv, TypeOK
<1>2. /\ HasMeta(arc[i]) => arc[i].meta.status = "archived"
      /\ pc[p] \notin Halfway /\ ws[i].there => ws[i].meta.status = "active"
      /\ pc[p] = "guard.write" =>
            job[p].held.status = (IF job[p].where = "ws" THEN "active" ELSE "archived")
  BY DEF StatusRightOf, StatusRight
<1>3. CASE GuardLoad(p)
  <2>1. pc[p] \notin Halfway /\ ws' = ws /\ arc' = arc
    BY <1>3 DEF GuardLoad, disk, Halfway
  <2>2. CASE Return(p)
    BY <1>2, <2>1, <2>2, StatusReturns
  <2>3. CASE ~Return(p)
    <3> DEFINE j(d, x) == [job[p] EXCEPT !.held = d.meta, !.where = x]
    <3>1. /\ Goto(p, "guard.write")
          /\ \/ /\ ws[i].there
                /\ job' = [job EXCEPT ![p] = j(ws[i], "ws")]
             \/ /\ HasMeta(arc[i])
                /\ job' = [job EXCEPT ![p] = j(arc[i], "arc")]
      BY <1>3, <2>3 DEF GuardLoad
    <3>2. ASSUME NEW d \in Dir, NEW x \in {"ws", "arc"}
          PROVE  j(d, x).held = d.meta /\ j(d, x).where = x
      BY <1>1 DEF Job
    <3> HIDE DEF j
    <3>3. /\ pc'[p] = "guard.write"
          /\ \/ ws[i].there /\ job'[p] = j(ws[i], "ws")
             \/ HasMeta(arc[i]) /\ job'[p] = j(arc[i], "arc")
      BY <1>1, <3>1 DEF Goto
    <3>4. job'[p].held.status = (IF job'[p].where = "ws" THEN "active" ELSE "archived")
      BY <1>1, <1>2, <2>1, <3>2, <3>3
    <3>5. StatusRight(ws[i], arc[i], pc'[p], job'[p])
      BY <1>2, <2>1, <3>3, <3>4 DEF StatusRight, Halfway
    <3> QED
      BY <2>1, <3>5 DEF StatusKept
  <2> QED
    BY <2>2, <2>3
<1>4. CASE GuardWrite(p)
  <2> DEFINE m == [job[p].held EXCEPT !.guard = job[p].opt]
  <2>1. m \in Meta /\ m.status = job[p].held.status
    BY <1>1 DEF Meta, Job
  <2>2. Return(p) /\ pc[p] = "guard.write" /\ pc[p] \notin Halfway
    BY <1>4 DEF GuardWrite, Halfway
  <2>3. \/ ws' = ws /\ arc' = arc
        \/ /\ job[p].where = "ws" /\ arc' = arc
           /\ ws' = [ws EXCEPT ![i] = WithMeta(@, m)]
        \/ /\ job[p].where = "arc" /\ ws' = ws
           /\ arc' = [arc EXCEPT ![i] = WithMeta(@, m)]
    BY <1>4 DEF GuardWrite
  <2> HIDE DEF m
  <2>4. /\ HasMeta(arc'[i]) => arc'[i].meta.status = "archived"
        /\ ws'[i].there => ws'[i].meta.status = "active"
    BY <1>1, <1>2, <2>1, <2>2, <2>3, DirFacts
  <2> QED
    BY <2>2, <2>4, StatusReturns
<1> QED
  BY <1>3, <1>4 DEF GuardStep

(***************************************************************************)
(* ws close: a failure writes the old status back, or leaves a scar.       *)
(***************************************************************************)
LEMMA WriteBackStatus ==
    ASSUME SerialInv, NEW p \in Proc, StatusRightOf(p), WriteBack(p), Return(p),
           arc' = arc, pc[p] \in {"close.rm", "close.rename"}
    PROVE  StatusKept(p)
<1> DEFINE i == Id(p)
<1>1. /\ i \in Ws /\ ws[i] \in Dir /\ job[p].held \in Meta
      /\ ws \in [Ws -> Dir]
  BY Here DEF SerialInv, TypeOK
<1>2. /\ HasMeta(arc[i]) => arc[i].meta.status = "archived"
      /\ job[p].held.status = "active"
  BY DEF StatusRightOf, StatusRight
<1>3. CASE ws' = [ws EXCEPT ![i] = WithMeta(@, job[p].held)]
  BY <1>1, <1>2, <1>3, DirFacts, StatusReturns
<1>4. CASE ws' = ws /\ ws[i].meta = job[p].held
  BY <1>2, <1>4, StatusReturns
<1>5. CASE scars' = Scarred(i, "status")
  BY <1>5, ScarredHere DEF StatusKept, Scar
<1> QED
  BY <1>3, <1>4, <1>5 DEF WriteBack

LEMMA CloseStatus ==
    ASSUME SerialInv, NEW p \in Proc, StatusRightOf(p), CloseStep(p)
    PROVE  StatusKept(p)
<1> DEFINE i == Id(p)
<1>1. /\ i \in Ws /\ ws[i] \in Dir /\ arc[i] \in Dir /\ Fresh(p)
      /\ job[p] \in Job /\ job[p].held \in Meta /\ job[p].next \in Meta
      /\ job[p].todo \subseteq Repo
      /\ pc \in [Proc -> Labels] /\ job \in [Proc -> Job]
      /\ ws \in [Ws -> Dir] /\ arc \in [Ws -> Dir] /\ TypeOK
  BY Here DEF SerialInv, TypeOK
<1>2. /\ HasMeta(arc[i]) => arc[i].meta.status = "archived"
      /\ pc[p] \notin Halfway /\ ws[i].there => ws[i].meta.status = "active"
      /\ pc[p] \in {"close.pre", "close.rm", "close.rename"} =>
            job[p].held.status = "active" /\ job[p].next.status = "archived"
      /\ pc[p] = "close.rename" /\ HasMeta(ws[i]) => ws[i].meta.status = "archived"
  BY DEF StatusRightOf, StatusRight
<1>3. CASE CloseRisk(p) \/ CloseBaseline(p) \/ CloseCommit(p)
  <2>1. pc[p] \notin Halfway /\ ws' = ws /\ arc' = arc
    BY <1>3 DEF CloseRisk, CloseBaseline, CloseCommit, disk, Halfway
  <2>2. pc'[p] \in Settled
    BY <1>1, <1>3 DEF CloseRisk, CloseBaseline, CloseCommit, Goto, Return,
                      Settled, Labels
  <2> QED
    BY <2>1, <2>2, StatusStays
<1>4. CASE CloseScan(p)
  <2>1. pc[p] \notin Halfway /\ ws' = ws /\ arc' = arc
    BY <1>4 DEF CloseScan, disk, Halfway
  <2>2. CASE Return(p)
    BY <1>2, <2>1, <2>2, StatusReturns
  <2>3. CASE ~Return(p)
    <3> DEFINE j == [job[p] EXCEPT !.held = ws[i].meta,
                                   !.next = ClosedMeta(ws[i]),
                                   !.todo = Bound(ws[i])]
               l == IF job[p].opt THEN "close.pre" ELSE "close.rm"
    <3>1. CanArchive(i) /\ job' = [job EXCEPT ![p] = j] /\ Goto(p, l)
      BY <1>4, <2>3 DEF CloseScan
    <3>2. j.held = ws[i].meta /\ j.next = ClosedMeta(ws[i])
      BY <1>1 DEF Job
    <3>3. pc'[p] = l /\ job'[p] = j
      BY <1>1, <3>1 DEF Goto
    <3>4. l \in {"close.pre", "close.rm"}
      OBVIOUS
    <3> HIDE DEF j, l
    <3>5. ws[i].meta.status = "active" /\ ws[i].meta \in Meta
      BY <1>1, <1>2, <2>1, <3>1, DirTypes DEF CanArchive
    <3>6. ClosedMeta(ws[i]).status = "archived"
      BY <3>5 DEF ClosedMeta, Meta
    <3>7. StatusRight(ws[i], arc[i], pc'[p], job'[p])
      BY <1>2, <2>1, <3>2, <3>3, <3>4, <3>5, <3>6 DEF StatusRight, Halfway
    <3> QED
      BY <2>1, <3>7 DEF StatusKept
  <2> QED
    BY <2>2, <2>3
<1>5. CASE ClosePreCommit(p)
  <2>1. pc[p] = "close.pre" /\ pc[p] \notin Halfway /\ ws' = ws /\ arc' = arc
    BY <1>5 DEF ClosePreCommit, Halfway
  <2>2. CASE Return(p)
    BY <1>2, <2>1, <2>2, StatusReturns
  <2>3. CASE ~Return(p)
    <3>1. pc'[p] = "close.rm" /\ job'[p] = job[p]
      BY <1>1, <1>5, <2>3 DEF ClosePreCommit, Goto
    <3>2. StatusRight(ws[i], arc[i], pc'[p], job'[p])
      BY <1>2, <2>1, <3>1 DEF StatusRight, Halfway
    <3> QED
      BY <2>1, <3>2 DEF StatusKept
  <2> QED
    BY <2>2, <2>3
<1>6. CASE CloseRemoveTree(p)
  <2>1. pc[p] = "close.rm" /\ arc' = arc /\ pc[p] \notin Halfway
    BY <1>6 DEF CloseRemoveTree, Halfway
  <2>2. PICK r \in job[p].todo :
            \/ /\ RemoveTree(i, r)
               /\ job' = [job EXCEPT ![p].todo = @ \ {r}]
               /\ UNCHANGED pc
            \/ WriteBack(p) /\ Return(p)
    BY <1>6 DEF CloseRemoveTree
  <2>3. CASE WriteBack(p) /\ Return(p)
    BY <2>1, <2>3, WriteBackStatus
  <2>4. CASE RemoveTree(i, r) /\ job' = [job EXCEPT ![p].todo = @ \ {r}]
                              /\ UNCHANGED pc
    <3>1. job'[p] = [job[p] EXCEPT !.todo = @ \ {r}] /\ pc'[p] = "close.rm"
      BY <1>1, <2>1, <2>4
    <3>2. job'[p].held = job[p].held /\ job'[p].next = job[p].next
      BY <1>1, <3>1 DEF Job
    <3>3. ws' = ws \/ ws' = [ws EXCEPT ![i] = WithoutTree(@, r)]
      BY <2>4 DEF RemoveTree
    <3>4. ws'[i].meta = ws[i].meta /\ ws'[i].there = ws[i].there
      BY <1>1, <3>3, DirFacts
    <3>5. StatusRight(ws'[i], arc[i], pc'[p], job'[p])
      BY <1>2, <2>1, <3>1, <3>2, <3>4 DEF StatusRight, Halfway
    <3> QED
      BY <2>1, <3>5 DEF StatusKept
  <2> QED
    BY <2>2, <2>3, <2>4
<1>7. CASE CloseWriteMeta(p)
  <2>1. pc[p] = "close.rm" /\ arc' = arc
    BY <1>7 DEF CloseWriteMeta
  <2>2. CASE WriteBack(p) /\ Return(p)
    BY <2>1, <2>2, WriteBackStatus
  <2>3. CASE /\ ws' = [ws EXCEPT ![i] = WithMeta(@, job[p].next)]
             /\ Goto(p, "close.rename") /\ UNCHANGED job
    <3>1. /\ ws'[i].meta = job[p].next
          /\ pc'[p] = "close.rename" /\ job'[p] = job[p]
      BY <1>1, <2>3, DirFacts DEF Goto
    <3>2. StatusRight(ws'[i], arc[i], pc'[p], job'[p])
      BY <1>2, <2>1, <3>1 DEF StatusRight, Halfway
    <3> QED
      BY <2>1, <3>2 DEF StatusKept
  <2> QED
    BY <1>7, <2>2, <2>3 DEF CloseWriteMeta
<1>8. CASE CloseRename(p)
  <2>1. pc[p] = "close.rename"
    BY <1>8 DEF CloseRename
  <2>2. CASE WriteBack(p) /\ Return(p) /\ UNCHANGED arc
    BY <2>1, <2>2, WriteBackStatus
  <2>3. CASE /\ arc' = [arc EXCEPT ![i] = ws[i]]
             /\ ws' = [ws EXCEPT ![i] = NoDir]
             /\ Goto(p, "close.base")
    <3>1. arc'[i] = ws[i] /\ ws'[i] = NoDir /\ pc'[p] = "close.base"
      BY <1>1, <2>3 DEF Goto
    <3>2. pc'[p] \in Settled
      BY <3>1 DEF Settled, Labels
    <3> QED
      BY <1>2, <2>1, <3>1, <3>2, SettledRight, DirFacts DEF StatusKept
  <2> QED
    BY <1>8, <2>2, <2>3 DEF CloseRename
<1> QED
  BY <1>3, <1>4, <1>5, <1>6, <1>7, <1>8 DEF CloseStep

(***************************************************************************)
(* ws reopen: the directory goes back as it came, or a scar is left.       *)
(***************************************************************************)
LEMMA RenameBackStatus ==
    ASSUME SerialInv, NEW p \in Proc, StatusRightOf(p), RenameBack(p), Return(p),
           pc[p] \in {"reopen.load", "reopen.add"}
    PROVE  StatusKept(p)
<1> DEFINE i == Id(p)
<1>1. i \in Ws /\ ws \in [Ws -> Dir] /\ arc \in [Ws -> Dir]
  BY Here DEF SerialInv, TypeOK
<1>2. HasMeta(ws[i]) => ws[i].meta.status = "archived"
  BY DEF StatusRightOf, StatusRight
<1>3. CASE arc' = [arc EXCEPT ![i] = ws[i]] /\ ws' = [ws EXCEPT ![i] = NoDir]
  <2>1. arc'[i] = ws[i] /\ ws'[i] = NoDir
    BY <1>1, <1>3
  <2> QED
    BY <1>2, <2>1, DirFacts, StatusReturns
<1>4. CASE scars' = Scarred(i, "status")
  BY <1>4, ScarredHere DEF StatusKept, Scar
<1> QED
  BY <1>3, <1>4 DEF RenameBack

LEMMA ReopenStatus ==
    ASSUME SerialInv, NEW p \in Proc, StatusRightOf(p), ReopenStep(p)
    PROVE  StatusKept(p)
<1> DEFINE i == Id(p)
<1>1. /\ i \in Ws /\ ws[i] \in Dir /\ arc[i] \in Dir
      /\ job[p] \in Job /\ job[p].held \in Meta
      /\ job[p].todo \subseteq Repo
      /\ pc \in [Proc -> Labels] /\ job \in [Proc -> Job]
      /\ ws \in [Ws -> Dir] /\ arc \in [Ws -> Dir]
  BY Here DEF SerialInv, TypeOK
<1>2. /\ HasMeta(arc[i]) => arc[i].meta.status = "archived"
      /\ pc[p] \notin Halfway /\ ws[i].there => ws[i].meta.status = "active"
      /\ pc[p] \in {"reopen.load", "reopen.add"} /\ HasMeta(ws[i])
         => ws[i].meta.status = "archived"
  BY DEF StatusRightOf, StatusRight
<1>3. CASE ReopenStat(p) \/ ReopenPreCommit(p) \/ ReopenBaseline(p) \/ ReopenCommit(p)
  <2>1. pc[p] \notin Halfway /\ ws' = ws /\ arc' = arc
    BY <1>3 DEF ReopenStat, ReopenPreCommit, ReopenBaseline, ReopenCommit,
           disk,
                Halfway
  <2>2. pc'[p] \in Settled
    BY <1>1, <1>3 DEF ReopenStat, ReopenPreCommit, ReopenBaseline,
           ReopenCommit,
                      Goto, Return, Settled, Labels
  <2> QED
    BY <2>1, <2>2, StatusStays
<1>4. CASE ReopenRename(p)
  <2>1. pc[p] \notin Halfway
    BY <1>4 DEF ReopenRename, Halfway
  <2>2. CASE Return(p) /\ UNCHANGED <<ws, arc>>
    BY <1>2, <2>1, <2>2, StatusReturns
  <2>3. CASE /\ ws' = [ws EXCEPT ![i] = arc[i]]
             /\ arc' = [arc EXCEPT ![i] = NoDir]
             /\ Goto(p, "reopen.load")
    <3>1. ws'[i] = arc[i] /\ arc'[i] = NoDir /\ pc'[p] = "reopen.load"
      BY <1>1, <2>3 DEF Goto
    <3>2. StatusRight(ws'[i], arc'[i], pc'[p], job'[p])
      BY <1>2, <3>1, DirFacts DEF StatusRight, Halfway
    <3> QED
      BY <3>2 DEF StatusKept
  <2> QED
    BY <1>4, <2>2, <2>3 DEF ReopenRename
<1>5. CASE ReopenLoad(p)
  <2>1. pc[p] = "reopen.load"
    BY <1>5 DEF ReopenLoad
  <2>2. CASE RenameBack(p) /\ Return(p)
    BY <2>1, <2>2, RenameBackStatus
  <2>3. CASE ws' = ws /\ arc' = arc /\ Goto(p, "reopen.add")
    <3>1. ws'[i] = ws[i] /\ arc'[i] = arc[i] /\ pc'[p] = "reopen.add"
      BY <1>1, <2>3 DEF Goto
    <3>2. StatusRight(ws'[i], arc'[i], pc'[p], job'[p])
      BY <1>2, <2>1, <3>1 DEF StatusRight, Halfway
    <3> QED
      BY <3>2 DEF StatusKept
  <2> QED
    BY <1>5, <2>2, <2>3 DEF ReopenLoad
<1>6. CASE ReopenAddTree(p)
  <2>1. pc[p] = "reopen.add"
    BY <1>6 DEF ReopenAddTree
  <2>2. PICK r \in job[p].todo :
            \/ AddTree(i, r) /\ UNCHANGED <<pc, arc>>
            \/ RenameBack(p) /\ Return(p)
    BY <1>6 DEF ReopenAddTree
  <2>3. CASE RenameBack(p) /\ Return(p)
    BY <2>1, <2>3, RenameBackStatus
  <2>4. CASE AddTree(i, r) /\ UNCHANGED <<pc, arc>>
    <3>1. /\ ws'[i].meta = ws[i].meta
          /\ arc'[i] = arc[i] /\ pc'[p] = "reopen.add"
      BY <1>1, <2>1, <2>4, DirFacts DEF AddTree
    <3>2. StatusRight(ws'[i], arc'[i], pc'[p], job'[p])
      BY <1>2, <2>1, <3>1 DEF StatusRight, Halfway, HasMeta
    <3> QED
      BY <3>2 DEF StatusKept
  <2> QED
    BY <2>2, <2>3, <2>4
<1>7. CASE ReopenWriteMeta(p)
  <2> DEFINE m == [job[p].held EXCEPT !.status = "active"]
  <2>1. pc[p] = "reopen.add"
    BY <1>7 DEF ReopenWriteMeta
  <2>2. CASE RenameBack(p) /\ Return(p)
    BY <2>1, <2>2, RenameBackStatus
  <2>3. CASE /\ ws' = [ws EXCEPT ![i] = WithMeta(@, m)] /\ arc' = arc
             /\ Goto(p, "reopen.base")
    <3>1. m \in Meta /\ m.status = "active"
      BY <1>1 DEF Meta
    <3> HIDE DEF m
    <3>2. ws'[i].meta = m /\ arc'[i] = arc[i] /\ pc'[p] = "reopen.base"
      BY <1>1, <2>3, <3>1, DirFacts DEF Goto
    <3>3. pc'[p] \in Settled
      BY <3>2 DEF Settled, Labels
    <3> QED
      BY <1>2, <3>1, <3>2, <3>3, SettledRight DEF StatusKept
  <2> QED
    BY <1>7, <2>2, <2>3 DEF ReopenWriteMeta
<1> QED
  BY <1>3, <1>4, <1>5, <1>6, <1>7 DEF ReopenStep

(***************************************************************************)
(* ws purge writes no status but that of a directory it empties.           *)
(***************************************************************************)
LEMMA PurgeStatus ==
    ASSUME SerialInv, NEW p \in Proc, StatusRightOf(p), PurgeStep(p)
    PROVE  StatusKept(p)
<1> DEFINE i == Id(p)
<1>1. /\ i \in Ws /\ ws[i] \in Dir /\ arc[i] \in Dir
      /\ job[p].todo \subseteq Repo
      /\ pc \in [Proc -> Labels]
      /\ ws \in [Ws -> Dir] /\ arc \in [Ws -> Dir]
  BY Here DEF SerialInv, TypeOK
<1>2. /\ pc[p] \notin Halfway
      /\ pc'[p] \in Settled
  <2>1. pc[p] \notin Halfway
    BY DEF PurgeStep, PurgeCheck, PurgePreCommit, PurgeList, PurgeRemoveTree,
           PurgeDeleteWs, PurgeDeleteFiles, PurgeDeleteArc, PurgeBaseline,
           PurgeCommit, Halfway
  <2>2. /\ \/ Return(p)
           \/ \E l \in {"purge.pre", "purge.list", "purge.rm", "purge.delarc",
                        "purge.rmdir", "purge.base", "purge.post"} : Goto(p, l)
           \/ pc' = pc
        /\ pc[p] \in {"purge.check", "purge.pre", "purge.list", "purge.rm",
                      "purge.delarc", "purge.rmdir", "purge.base", "purge.post"}
    BY DEF PurgeStep, PurgeCheck, PurgePreCommit, PurgeList, PurgeRemoveTree,
           PurgeDeleteWs, PurgeDeleteFiles, PurgeDeleteArc, PurgeBaseline,
           PurgeCommit
  <2>3. pc'[p] \in {"idle", "purge.check", "purge.pre", "purge.list", "purge.rm",
                    "purge.delarc", "purge.rmdir", "purge.base", "purge.post"}
    BY <1>1, <2>2 DEF Goto, Return
  <2> QED
    BY <2>1, <2>3 DEF Settled, Labels
<1>3. /\ HasMeta(arc[i]) => arc[i].meta.status = "archived"
      /\ ws[i].there => ws[i].meta.status = "active"
  BY <1>2 DEF StatusRightOf, StatusRight
<1>4. CASE ws' = ws /\ arc' = arc
  BY <1>2, <1>4, StatusStays
<1>5. CASE PurgeRemoveTree(p) /\ ~(ws' = ws /\ arc' = arc)
  <2>1. PICK r \in job[p].todo : ws' = [ws EXCEPT ![i] = WithoutTree(@, r)]
    BY <1>5 DEF PurgeRemoveTree, RemoveTree
  <2>2. ws'[i].meta = ws[i].meta /\ ws'[i].there = ws[i].there /\ arc'[i] = arc[i]
    BY <1>1, <1>5, <2>1, DirFacts DEF PurgeRemoveTree
  <2> QED
    BY <1>2, <1>3, <2>2, SettledRight DEF StatusKept
<1>6. CASE PurgeDeleteWs(p) /\ ~(ws' = ws /\ arc' = arc)
  <2>1. ws'[i] = NoDir /\ arc'[i] = arc[i]
    BY <1>1, <1>6 DEF PurgeDeleteWs
  <2> QED
    BY <1>2, <1>3, <2>1, SettledRight, DirFacts DEF StatusKept
<1>7. CASE PurgeDeleteFiles(p) /\ ~(ws' = ws /\ arc' = arc)
  <2>1. arc'[i] = WithMeta(arc[i], NoMeta) /\ ws'[i] = ws[i]
    BY <1>1, <1>7 DEF PurgeDeleteFiles
  <2>2. ~HasMeta(arc'[i])
    BY <1>1, <2>1, DirFacts, ConstantTypes DEF HasMeta, NoMeta
  <2> QED
    BY <1>2, <1>3, <2>1, <2>2, SettledRight DEF StatusKept
<1>8. CASE PurgeDeleteArc(p) /\ ~(ws' = ws /\ arc' = arc)
  <2>1. arc'[i] = NoDir /\ ws'[i] = ws[i]
    BY <1>1, <1>8 DEF PurgeDeleteArc
  <2> QED
    BY <1>2, <1>3, <2>1, SettledRight, DirFacts DEF StatusKept
<1> QED
  BY <1>4, <1>5, <1>6, <1>7, <1>8
  DEF PurgeStep, PurgeCheck, PurgePreCommit, PurgeList, PurgeBaseline,
      PurgeCommit, disk

(***************************************************************************)
(* ws add-repo and ws remove-repo write the status they have read.         *)
(***************************************************************************)
LEMMA AddRepoStatus ==
    ASSUME SerialInv, NEW p \in Proc, StatusRightOf(p), AddRepoStep(p)
    PROVE  StatusKept(p)
<1> DEFINE i == Id(p)
<1>1. /\ i \in Ws /\ ws[i] \in Dir /\ arc[i] \in Dir
      /\ job[p] \in Job /\ job[p].held \in Meta
      /\ job[p].todo \subseteq Repo /\ job[p].done \subseteq Repo
      /\ pc \in [Proc -> Labels] /\ job \in [Proc -> Job]
      /\ ws \in [Ws -> Dir] /\ arc \in [Ws -> Dir]
  BY Here DEF SerialInv, TypeOK
<1>2. pc[p] \in AddCalls /\ pc[p] \notin Halfway
  BY DEF AddRepoStep, AddPlan, AddTreeOf, AddLoadMeta, AddWriteMeta,
         AddRollback,
         AddCalls, Halfway
<1>3. /\ HasMeta(arc[i]) => arc[i].meta.status = "archived"
      /\ ws[i].there => ws[i].meta.status = "active"
      /\ pc[p] \in {"add.apply", "add.write", "add.rollback"} => ws[i].there
      /\ pc[p] = "add.write" => job[p].held.status = "active"
  BY <1>2 DEF StatusRightOf, StatusRight
<1>4. ASSUME HasMeta(arc'[i]) => arc'[i].meta.status = "archived",
             ws'[i].there, ws'[i].meta.status = "active",
             pc'[p] \in {"add.apply", "add.write", "add.rollback"},
             pc'[p] = "add.write" => job'[p].held.status = "active"
      PROVE  StatusKept(p)
  <2>1. StatusRight(ws'[i], arc'[i], pc'[p], job'[p])
    BY <1>4 DEF StatusRight, Halfway
  <2> QED
    BY <2>1 DEF StatusKept
<1>5. arc' = arc
  BY DEF AddRepoStep, AddPlan, AddTreeOf, AddLoadMeta, AddWriteMeta,
         AddRollback, disk
<1>6. CASE Return(p) /\ ws' = ws
  BY <1>3, <1>5, <1>6, StatusReturns
<1>7. CASE AddPlan(p) /\ ~(Return(p) /\ ws' = ws)
  <2>1. ws' = ws /\ ws[i].there /\ Goto(p, "add.apply")
    BY <1>7 DEF AddPlan, CanArchive
  <2>2. pc'[p] = "add.apply"
    BY <1>1, <2>1 DEF Goto
  <2> QED
    BY <1>3, <1>4, <1>5, <2>1, <2>2
<1>8. CASE AddTreeOf(p)
  <2>1. pc[p] = "add.apply"
    BY <1>8 DEF AddTreeOf
  <2>2. PICK r \in job[p].todo :
            \/ AddTree(i, r) /\ pc' = pc
            \/ Goto(p, "add.rollback") /\ ws' = ws
    BY <1>8 DEF AddTreeOf
  <2>3. ws'[i].there /\ ws'[i].meta = ws[i].meta
    BY <1>1, <1>3, <2>1, <2>2, DirFacts DEF AddTree
  <2>4. pc'[p] \in {"add.apply", "add.rollback"}
    BY <1>1, <2>1, <2>2 DEF Goto
  <2> QED
    BY <1>3, <1>4, <1>5, <2>1, <2>3, <2>4
<1>9. CASE AddLoadMeta(p)
  <2>1. pc[p] = "add.apply" /\ ws' = ws
    BY <1>9 DEF AddLoadMeta, disk
  <2>2. \/ job' = [job EXCEPT ![p].held = ws[i].meta] /\ Goto(p, "add.write")
        \/ Goto(p, "add.rollback")
    BY <1>9 DEF AddLoadMeta
  <2>3. \/ job'[p].held = ws[i].meta /\ pc'[p] = "add.write"
        \/ pc'[p] = "add.rollback"
    BY <1>1, <2>2 DEF Goto, Job
  <2> QED
    BY <1>3, <1>4, <1>5, <2>1, <2>3
<1>10. CASE AddWriteMeta(p) /\ ~(Return(p) /\ ws' = ws)
  <2> DEFINE m == [job[p].held EXCEPT
                      !.restore = [r \in Repo |->
                          IF r \in job[p].done THEN "full" ELSE @[r]]]
  <2>1. pc[p] = "add.write"
    BY <1>10 DEF AddWriteMeta
  <2>2. \/ ws' = [ws EXCEPT ![i] = WithMeta(@, m)] /\ Return(p)
        \/ Goto(p, "add.rollback") /\ ws' = ws
    BY <1>10 DEF AddWriteMeta
  <2>3. m \in Meta /\ m.status = job[p].held.status
    BY <1>1 DEF Meta, Entry
  <2> HIDE DEF m
  <2>4. CASE ws' = [ws EXCEPT ![i] = WithMeta(@, m)] /\ Return(p)
    <3>1. ws'[i].meta = m
      BY <1>1, <2>3, <2>4, DirFacts
    <3> QED
      BY <1>3, <1>5, <2>1, <2>3, <2>4, <3>1, StatusReturns
  <2>5. CASE Goto(p, "add.rollback") /\ ws' = ws
    <3>1. pc'[p] = "add.rollback"
      BY <1>1, <2>5 DEF Goto
    <3> QED
      BY <1>3, <1>4, <1>5, <2>1, <2>5, <3>1
  <2> QED
    BY <2>2, <2>4, <2>5
<1>11. CASE AddRollback(p) /\ ~(Return(p) /\ ws' = ws)
  <2>1. pc[p] = "add.rollback"
    BY <1>11 DEF AddRollback
  <2>2. PICK r \in job[p].done :
            /\ ws' = ws \/ ws' = [ws EXCEPT ![i] = WithoutTree(@, r)]
            /\ pc' = pc
    BY <1>11 DEF AddRollback
  <2>3. ws'[i].there /\ ws'[i].meta = ws[i].meta
    BY <1>1, <1>3, <2>1, <2>2, DirFacts
  <2> QED
    BY <1>3, <1>4, <1>5, <2>1, <2>2, <2>3
<1> QED
  BY <1>6, <1>7, <1>8, <1>9, <1>10, <1>11 DEF AddRepoStep

LEMMA RemoveRepoStatus ==
    ASSUME SerialInv, NEW p \in Proc, StatusRightOf(p), RemoveRepoStep(p)
    PROVE  StatusKept(p)
<1> DEFINE i == Id(p)
<1>1. /\ i \in Ws /\ ws[i] \in Dir /\ arc[i] \in Dir
      /\ WellFormed(ws[i])
      /\ job[p] \in Job /\ job[p].held \in Meta
      /\ job[p].todo \subseteq Repo
      /\ pc \in [Proc -> Labels] /\ job \in [Proc -> Job]
      /\ ws \in [Ws -> Dir] /\ arc \in [Ws -> Dir]
  BY Here DEF SerialInv, TypeOK
<1>2. pc[p] \in {"remove.plan", "remove.rm", "remove.write"} /\ pc[p] \notin Halfway
  BY DEF RemoveRepoStep, RemovePlan, RemoveTreeOf, RemoveLoadMeta,
         RemoveWriteMeta,
         Halfway
<1>3. /\ HasMeta(arc[i]) => arc[i].meta.status = "archived"
      /\ ws[i].there => ws[i].meta.status = "active"
      /\ pc[p] = "remove.write" => job[p].held.status = "active"
  BY <1>2 DEF StatusRightOf, StatusRight
<1>4. arc' = arc
  BY DEF RemoveRepoStep, RemovePlan, RemoveTreeOf, RemoveLoadMeta,
         RemoveWriteMeta, disk
<1>5. CASE Return(p) /\ ws' = ws
  BY <1>3, <1>4, <1>5, StatusReturns
<1>6. CASE RemovePlan(p) /\ ~(Return(p) /\ ws' = ws)
  <2>1. ws' = ws /\ Goto(p, "remove.rm")
    BY <1>6 DEF RemovePlan, disk
  <2>2. pc'[p] \in Settled
    BY <1>1, <2>1 DEF Goto, Settled, Labels
  <2> QED
    BY <1>2, <1>4, <2>1, <2>2, StatusStays
<1>7. CASE RemoveTreeOf(p) /\ ~(Return(p) /\ ws' = ws)
  <2>1. pc[p] = "remove.rm"
    BY <1>7 DEF RemoveTreeOf
  <2>2. PICK r \in job[p].todo :
            /\ ws' = ws \/ ws' = [ws EXCEPT ![i] = WithoutTree(@, r)]
            /\ pc' = pc
    BY <1>7 DEF RemoveTreeOf, RemoveTree
  <2>3. ws'[i].there = ws[i].there /\ ws'[i].meta = ws[i].meta
    BY <1>1, <2>2, DirFacts
  <2>4. pc'[p] \in Settled
    BY <2>1, <2>2 DEF Settled, Labels
  <2> QED
    BY <1>3, <1>4, <2>3, <2>4, SettledRight DEF StatusKept
<1>8. CASE RemoveLoadMeta(p) /\ ~(Return(p) /\ ws' = ws)
  <2>1. /\ ws' = ws /\ HasMeta(ws[i])
        /\ job' = [job EXCEPT ![p].held = ws[i].meta] /\ Goto(p, "remove.write")
    BY <1>8 DEF RemoveLoadMeta, disk
  <2>2. job'[p].held = ws[i].meta /\ pc'[p] = "remove.write"
    BY <1>1, <2>1 DEF Goto, Job
  <2>3. ws[i].meta.status = "active"
    BY <1>1, <1>3, <2>1 DEF WellFormed
  <2>4. StatusRight(ws'[i], arc'[i], pc'[p], job'[p])
    BY <1>3, <1>4, <2>1, <2>2, <2>3 DEF StatusRight, Halfway
  <2> QED
    BY <2>4 DEF StatusKept
<1>9. CASE RemoveWriteMeta(p) /\ ~(Return(p) /\ ws' = ws)
  <2> DEFINE m == [job[p].held EXCEPT
                      !.restore = [r \in Repo |->
                          IF r \in job[p].done THEN "absent" ELSE @[r]]]
  <2>1. pc[p] = "remove.write"
    BY <1>9 DEF RemoveWriteMeta
  <2>2. ws' = [ws EXCEPT ![i] = WithMeta(@, m)] /\ Return(p)
    BY <1>9 DEF RemoveWriteMeta
  <2>3. m \in Meta /\ m.status = job[p].held.status
    BY <1>1 DEF Meta, Entry
  <2> HIDE DEF m
  <2>4. ws'[i].meta = m
    BY <1>1, <2>2, <2>3, DirFacts
  <2> QED
    BY <1>3, <1>4, <2>1, <2>2, <2>3, <2>4, StatusReturns
<1> QED
  BY <1>5, <1>6, <1>7, <1>8, <1>9 DEF RemoveRepoStep

(***************************************************************************)
(* Every step of a command, and the death of its process.                  *)
(***************************************************************************)
LEMMA StepStatus ==
    ASSUME SerialInv, NEW p \in Proc, StatusRightOf(p), Step(p) \/ Crash(p)
    PROVE  StatusKept(p)
<1>1. CASE Step(p)
  BY <1>1, CreateStatus, GuardStatus, CloseStatus, ReopenStatus, PurgeStatus,
     AddRepoStatus, RemoveRepoStatus DEF Step
<1>2. CASE Crash(p)
  <2>1. /\ ws' = ws /\ arc' = arc /\ Return(p)
        /\ scars' = [scars EXCEPT ![Id(p)] = @ \cup Wounds(pc[p])]
    BY <1>2 DEF Crash
  <2>2. CASE pc[p] \in Halfway
    <3>1. "status" \in Wounds(pc[p])
      BY <2>2 DEF Wounds, Scar, Halfway
    <3>2. Id(p) \in Ws /\ scars \in [Ws -> SUBSET Scar]
      BY Here DEF SerialInv, TypeOK
    <3> QED
      BY <2>1, <3>1, <3>2 DEF StatusKept
  <2>3. CASE pc[p] \notin Halfway
    <3>1. /\ HasMeta(arc[Id(p)]) => arc[Id(p)].meta.status = "archived"
          /\ ws[Id(p)].there => ws[Id(p)].meta.status = "active"
      BY <2>3 DEF StatusRightOf, StatusRight
    <3> QED
      BY <2>1, <3>1, StatusReturns
  <2> QED
    BY <2>2, <2>3
<1> QED
  BY <1>1, <1>2

(***************************************************************************)
(* A command leaves scars on its own workspace only, and heals none.       *)
(***************************************************************************)
LEMMA OwnScars ==
    ASSUME SerialInv, NEW p \in Proc, Step(p) \/ Crash(p), NEW k \in Ws
    PROVE  scars[k] \subseteq scars'[k] /\ (k # Id(p) => scars'[k] = scars[k])
<1>1. Id(p) \in Ws /\ scars \in [Ws -> SUBSET Scar]
  BY Here DEF SerialInv, TypeOK
<1>2. CASE Step(p)
  BY <1>1, <1>2, StepScars DEF Scarred
<1>3. CASE Crash(p)
  BY <1>1, <1>3 DEF Crash
<1> QED
  BY <1>2, <1>3

(***************************************************************************)
(* Add-repo makes no directory of a workspace disappear.                   *)
(***************************************************************************)
LEMMA AddStays ==
    ASSUME SerialInv, NEW p \in Proc, pc[p] \in AddCalls, Step(p) \/ Crash(p)
    PROVE  /\ ws[Id(p)].there => ws'[Id(p)].there
           /\ pc'[p] \in AddCalls \cup {"idle"}
<1> DEFINE i == Id(p)
<1>1. /\ i \in Ws /\ ws[i] \in Dir /\ ws \in [Ws -> Dir]
      /\ job[p].held \in Meta /\ pc \in [Proc -> Labels]
      /\ job[p].todo \subseteq Repo /\ job[p].done \subseteq Repo
  BY Here DEF SerialInv, TypeOK
<1>2. CASE Crash(p)
  BY <1>1, <1>2 DEF Crash, Return
<1>3. CASE Step(p)
  <2>1. AddRepoStep(p)
    BY <1>3, AddNext
  <2>2. pc'[p] \in AddCalls \cup {"idle"}
    BY <1>1, <2>1 DEF AddRepoStep, AddPlan, AddTreeOf, AddLoadMeta,
           AddWriteMeta,
                      AddRollback, Goto, Return, AddCalls
  <2>3. CASE AddWriteMeta(p)
    <3> DEFINE m == [job[p].held EXCEPT
                        !.restore = [r \in Repo |->
                            IF r \in job[p].done THEN "full" ELSE @[r]]]
    <3>1. ws' = ws \/ ws' = [ws EXCEPT ![i] = WithMeta(@, m)]
      BY <2>3 DEF AddWriteMeta
    <3>2. m \in Meta
      BY <1>1 DEF Meta, Entry
    <3> HIDE DEF m
    <3> QED
      BY <1>1, <2>2, <3>1, <3>2, DirFacts
  <2>4. CASE AddTreeOf(p) \/ AddRollback(p)
    <3>1. \/ ws' = ws
          \/ \E r \in Repo : \/ ws' = [ws EXCEPT ![i] = WithTree(@, r)]
                             \/ ws' = [ws EXCEPT ![i] = WithoutTree(@, r)]
      BY <1>1, <2>4 DEF AddTreeOf, AddTree, AddRollback
    <3> QED
      BY <1>1, <2>2, <3>1, DirFacts
  <2>5. CASE AddPlan(p) \/ AddLoadMeta(p)
    BY <2>2, <2>5 DEF AddPlan, AddLoadMeta, disk
  <2> QED
    BY <2>1, <2>3, <2>4, <2>5 DEF AddRepoStep
<1> QED
  BY <1>2, <1>3

(***************************************************************************)
(* What the step of one process means for all: the others are at work on   *)
(* other workspaces, or are add-repos like it.                             *)
(***************************************************************************)
LEMMA StatusFrame ==
    ASSUME SerialInv, StatusInv, OnlyAddsOverlap, NEW p \in Proc, Step(p) \/ Crash(p)
    PROVE  StatusInv'
<1> DEFINE i == Id(p)
<1>1. OwnStep(p) /\ Turn(p) /\ i \in Ws
  BY StepGood, StepTurn, Here DEF Good
<1>2. "status" \notin scars'[i] =>
          StatusRight(ws'[i], arc'[i], pc'[p], job'[p])
  <2>1. "status" \notin scars'[i] => StatusRightOf(p)
    BY <1>1, OwnScars DEF StatusInv, OwnStep
  <2> QED
    BY <2>1, StepStatus DEF StatusKept
<1>3. ASSUME NEW k \in Ws, "status" \notin scars'[k], AtRest(k)'
      PROVE  StatusRight(ws'[k], arc'[k], "idle", NoJob)
  <2>1. CASE k = i
    <3>1. pc'[p] = "idle"
      BY <1>1, <1>3, <2>1 DEF OwnStep, AtRest, Id
    <3> QED
      BY <1>2, <1>3, <2>1, <3>1 DEF StatusRight, Halfway
  <2>2. CASE k # i
    <3>1. AtRest(k)
      BY <1>1, <1>3, <2>2 DEF OwnStep, AtRest, Id
    <3>2. ws'[k] = ws[k] /\ arc'[k] = arc[k] /\ scars'[k] = scars[k]
      BY <1>1, <2>2, OwnScars DEF OwnStep
    <3> QED
      BY <1>3, <3>1, <3>2 DEF StatusInv
  <2> QED
    BY <2>1, <2>2
<1>4. ASSUME NEW q \in Proc, "status" \notin scars'[Id(q)'], pc'[q] # "idle"
      PROVE  StatusRight(ws'[Id(q)'], arc'[Id(q)'], pc'[q], job'[q])
  <2>1. CASE q = p
    <3>1. Id(p)' = i
      BY <1>1, <1>4, <2>1 DEF OwnStep, Id
    <3> QED
      BY <1>2, <1>4, <2>1, <3>1
  <2>2. CASE q # p
    <3>1. pc'[q] = pc[q] /\ job'[q] = job[q] /\ Id(q)' = Id(q) /\ Id(q) \in Ws
      BY <1>1, <2>2, Here DEF OwnStep, Id
    <3>2. StatusRightOf(q)
      BY <1>4, <3>1, OwnScars DEF StatusInv
    <3>3. CASE Id(q) # i
      <4>1. ws'[Id(q)] = ws[Id(q)] /\ arc'[Id(q)] = arc[Id(q)]
        BY <1>1, <3>1, <3>3 DEF OwnStep
      <4> QED
        BY <3>1, <3>2, <4>1 DEF StatusRightOf
    <3>4. CASE Id(q) = i
      <4>1. pc[q] \in AddCalls /\ pc[p] \in AddCalls
        BY <1>1, <1>4, <2>2, <3>1, <3>4 DEF OnlyAddsOverlap, OwnStep
      <4>2. /\ ws[i].there => ws'[i].there
            /\ pc'[p] \in AddCalls \cup {"idle"}
        BY <4>1, AddStays
      <4>3. StatusRight(ws'[i], arc'[i], pc'[p], job'[p])
        BY <1>2, <1>4, <3>1, <3>4
      <4>4. /\ HasMeta(arc'[i]) => arc'[i].meta.status = "archived"
            /\ ws'[i].there => ws'[i].meta.status = "active"
        BY <4>2, <4>3 DEF StatusRight, AddCalls, Halfway
      <4>5. /\ pc[q] \in {"add.apply", "add.write", "add.rollback"} => ws[i].there
            /\ pc[q] = "add.write" => job[q].held.status = "active"
        BY <3>2, <3>4 DEF StatusRightOf, StatusRight
      <4>6. StatusRight(ws'[i], arc'[i], pc[q], job[q])
        BY <4>1, <4>2, <4>4, <4>5 DEF StatusRight, AddCalls, Halfway
      <4> QED
        BY <3>1, <3>4, <4>6
    <3> QED
      BY <3>3, <3>4
  <2> QED
    BY <2>1, <2>2
<1> QED
  BY <1>3, <1>4 DEF StatusInv, StatusRightOf

(***************************************************************************)
(* A command starts: on a workspace at rest, or beside other add-repos.    *)
(***************************************************************************)
LEMMA StartStatus ==
    ASSUME SerialInv, StatusInv, OnlyAddsOverlap', NEW p \in Proc, Start(p)
    PROVE  StatusInv'
<1>1. PICK c \in Commands, i \in Ws, o \in Modes \cup {TRUE} :
          /\ pc' = [pc EXCEPT ![p] = FirstCall(c)]
          /\ job' = [job EXCEPT ![p] =
                        [NoJob EXCEPT !.cmd = c, !.id = i, !.opt = o]]
  BY DEF Start
<1>2. ws' = ws /\ arc' = arc /\ scars' = scars /\ pc[p] = "idle"
  BY DEF Start, disk
<1>3. /\ pc \in [Proc -> Labels] /\ job \in [Proc -> Job]
      /\ c \in AllCommands
  BY ConstantsAssumption DEF SerialInv, TypeOK
<1>4. pc'[p] \in Settled /\ pc'[p] # "idle"
  <2>1. pc'[p] = FirstCall(c)
    BY <1>1, <1>3
  <2> QED
    BY <1>3, <2>1 DEF FirstCall, AllCommands, Settled, Labels
<1>5. \A q \in Proc \ {p} : pc'[q] = pc[q] /\ job'[q] = job[q] /\ Id(q)' = Id(q)
  BY <1>1, <1>3 DEF Id
<1>6. Id(p)' = i
  BY <1>1, <1>3 DEF Id, NoJob
<1>7. ASSUME NEW k \in Ws, "status" \notin scars'[k], AtRest(k)'
      PROVE  StatusRight(ws'[k], arc'[k], "idle", NoJob)
  <2>1. AtRest(k)
    BY <1>2, <1>5, <1>7 DEF AtRest
  <2> QED
    BY <1>2, <1>7, <2>1 DEF StatusInv
<1>8. ASSUME NEW q \in Proc, "status" \notin scars'[Id(q)'], pc'[q] # "idle"
      PROVE  StatusRight(ws'[Id(q)'], arc'[Id(q)'], pc'[q], job'[q])
  <2>1. CASE q = p
    <3>1. /\ HasMeta(arc[i]) => arc[i].meta.status = "archived"
          /\ ws[i].there => ws[i].meta.status = "active"
      <4>1. CASE AtRest(i)
        BY <1>2, <1>6, <1>8, <2>1, <4>1 DEF StatusInv, StatusRight, Halfway
      <4>2. CASE ~AtRest(i)
        <5>1. PICK t \in Proc : pc[t] # "idle" /\ Id(t) = i
          BY <4>2 DEF AtRest
        <5>2. t # p /\ pc'[t] = pc[t] /\ Id(t)' = i
          BY <1>2, <1>5, <5>1
        <5>3. pc[t] \in AddCalls
          BY <1>4, <1>6, <5>1, <5>2 DEF OnlyAddsOverlap
        <5>4. StatusRightOf(t)
          BY <1>2, <1>6, <1>8, <2>1, <5>1 DEF StatusInv
        <5> QED
          BY <5>1, <5>3, <5>4 DEF StatusRightOf, StatusRight, AddCalls, Halfway
      <4> QED
        BY <4>1, <4>2
    <3> QED
      BY <1>2, <1>4, <1>6, <2>1, <3>1, SettledRight
  <2>2. CASE q # p
    <3>1. pc'[q] = pc[q] /\ job'[q] = job[q] /\ Id(q)' = Id(q)
      BY <1>5, <2>2
    <3>2. StatusRightOf(q)
      BY <1>2, <1>8, <3>1 DEF StatusInv
    <3> QED
      BY <1>2, <3>1, <3>2 DEF StatusRightOf
  <2> QED
    BY <2>1, <2>2
<1> QED
  BY <1>7, <1>8 DEF StatusInv, StatusRightOf

(***************************************************************************)
(* A step that keeps the places and metadata, and the processes.           *)
(***************************************************************************)
LEMMA PlacesKeptStatus ==
    ASSUME SerialInv, StatusInv, PlacesKept, pc' = pc, job' = job, scars' = scars
    PROVE  StatusInv'
<1>1. ASSUME NEW k \in Ws, NEW l, NEW j, StatusRight(ws[k], arc[k], l, j)
      PROVE  StatusRight(ws'[k], arc'[k], l, j)
  <2>1. /\ ws'[k].there = ws[k].there /\ ws'[k].meta = ws[k].meta
        /\ arc'[k] = arc[k]
    BY DEF PlacesKept
  <2> QED
    BY <1>1, <2>1 DEF StatusRight, HasMeta
<1>2. ASSUME NEW k \in Ws, "status" \notin scars'[k], AtRest(k)'
      PROVE  StatusRight(ws'[k], arc'[k], "idle", NoJob)
  <2>1. AtRest(k)
    BY <1>2 DEF AtRest, Id
  <2> QED
    BY <1>1, <1>2, <2>1 DEF StatusInv
<1>3. ASSUME NEW q \in Proc, "status" \notin scars'[Id(q)'], pc'[q] # "idle"
      PROVE  StatusRight(ws'[Id(q)'], arc'[Id(q)'], pc'[q], job'[q])
  <2>1. Id(q)' = Id(q) /\ Id(q) \in Ws
    BY Here DEF Id
  <2>2. StatusRightOf(q)
    BY <1>3, <2>1 DEF StatusInv
  <2> QED
    BY <1>1, <2>1, <2>2 DEF StatusRightOf
<1> QED
  BY <1>2, <1>3 DEF StatusInv, StatusRightOf

LEMMA NextStatus ==
    ASSUME OnlyAddsOverlap, OnlyAddsOverlap', SerialInv, StatusInv, [Next]_vars
    PROVE  StatusInv'
<1>1. ASSUME NEW p \in Proc, Start(p) PROVE StatusInv'
  BY <1>1, StartStatus
<1>2. ASSUME NEW p \in Proc, Step(p) \/ Crash(p) PROVE StatusInv'
  BY <1>2, StatusFrame
<1>3. ASSUME NEW i \in Ws, EditNote(i) \/ EditTree(i) PROVE StatusInv'
  <2>1. TypeOK'
    BY NextTypes DEF SerialInv
  <2>2. PlacesKept
    BY <1>3, <2>1, EditSerial
  <2>3. pc' = pc /\ job' = job /\ scars' = scars
    BY <1>3 DEF EditNote, EditTree
  <2> QED
    BY <2>2, <2>3, PlacesKeptStatus
<1>4. CASE UNCHANGED vars
  BY <1>4, PlacesKeptStatus DEF PlacesKept, vars
<1> QED
  BY <1>1, <1>2, <1>3, <1>4 DEF Next

LEMMA InitStatus == Init => StatusInv
<1> SUFFICES ASSUME Init PROVE StatusInv
  OBVIOUS
<1>1. \A p \in Proc : pc[p] = "idle"
  BY DEF Init
<1>2. ASSUME NEW i \in Ws PROVE StatusRight(ws[i], arc[i], "idle", NoJob)
  <2>1. ws[i] = NoDir /\ arc[i] = NoDir
    BY DEF Init
  <2> QED
    BY <2>1, DirFacts DEF StatusRight, Halfway
<1> QED
  BY <1>1, <1>2 DEF StatusInv

(***************************************************************************)
(* A workspace under workspaces/ has metadata that says active, and one    *)
(* under archive/ metadata that says archived or none, as long as no       *)
(* process died and no rollback failed in the middle of create, close or   *)
(* reopen.  Calls may fail and processes may die everywhere else.          *)
(***************************************************************************)
THEOREM StatusCorrect == Spec /\ []OnlyAddsOverlap => []StatusInv
<1>1. Init => StatusInv
  BY InitStatus
<1>2. /\ SerialInv /\ StatusInv /\ OnlyAddsOverlap /\ OnlyAddsOverlap'
      /\ [Next]_vars
      => StatusInv'
  BY NextStatus
<1> QED
  BY <1>1, <1>2, SerialCorrect, PTL DEF Spec

(***************************************************************************)
(* Kra doctor finds no status that contradicts the place of a workspace,   *)
(* and no active workspace without metadata, unless a process died or a    *)
(* rollback's own call failed in the middle of create, close or reopen:    *)
(* the rollbacks undo every other failure.                                 *)
(***************************************************************************)
THEOREM FailuresLeaveMetadataRightCorrect ==
    Spec /\ []OnlyAddsOverlap => []FailuresLeaveMetadataRight
<1>1. StatusInv => FailuresLeaveMetadataRight
  <2> SUFFICES ASSUME StatusInv, NEW i \in Ws, AtRest(i), "status" \notin scars[i]
               PROVE  /\ runDoctorChecks(i).active
                             \cap {"workspace_meta_invalid",
                                   "workspace_status_mismatch"} = {}
                      /\ "workspace_status_mismatch" \notin runDoctorChecks(i).archived
    BY DEF FailuresLeaveMetadataRight
  <2>1. StatusRight(ws[i], arc[i], "idle", NoJob)
    BY DEF StatusInv
  <2>2. /\ ws[i].there => ws[i].meta.status = "active"
        /\ HasMeta(arc[i]) => arc[i].meta.status = "archived"
    BY <2>1 DEF StatusRight, Halfway
  <2>3. scanDoctorWorkspaceScope(ws[i], "active")
            \cap {"workspace_meta_invalid", "workspace_status_mismatch"} = {}
    BY <2>2 DEF scanDoctorWorkspaceScope, HasMeta, ActiveFindings
  <2>4. "workspace_status_mismatch" \notin scanDoctorWorkspaceScope(arc[i], "archived")
    BY <2>2 DEF scanDoctorWorkspaceScope, HasMeta, ArchivedFindings
  <2> QED
    BY <2>3, <2>4 DEF runDoctorChecks
<1> QED
  BY <1>1, StatusCorrect, PTL
-----------------------------------------------------------------------------
(***************************************************************************)
(* Worktrees and entries.  As long as no worktree was left without its     *)
(* entry ("trees" among the scars), the entries, the worktrees and what    *)
(* git has on record agree, but for the worktrees that an add-repo has     *)
(* made and not yet entered.                                               *)
(***************************************************************************)
EntriesRight(m) ==
    \A r \in Repo :
        /\ m.restore[r] # "nouid"
        /\ m.status = "absent" => m.restore[r] = "absent"

SameRepos(m, n) ==
    \A r \in Repo : m.restore[r] = "absent" <=> n.restore[r] = "absent"

(***************************************************************************)
(* The worktrees of directory d, but for those in s, have their entry.     *)
(***************************************************************************)
Entered(d, s) == HasMeta(d) => \A r \in d.trees \ s : d.meta.restore[r] = "full"

(***************************************************************************)
(* Of the repositories of directory d, git has on record only worktrees    *)
(* that are there.                                                         *)
(***************************************************************************)
OnRecord(d, i, R) ==
    \A r \in Repo :
        d.meta.restore[r] # "absent" /\ <<r, i>> \in R => r \in d.trees

(***************************************************************************)
(* What holds of workspace i with directories w and a, and git's record R, *)
(* at any time.                                                            *)
(***************************************************************************)
Sound(i, w, a, R) ==
    /\ EntriesRight(w.meta) /\ EntriesRight(a.meta)
    /\ OnRecord(w, i, R) /\ OnRecord(a, i, R)
    /\ Entered(a, {})

(***************************************************************************)
(* Calls before which worktrees may be without an entry.                   *)
(***************************************************************************)
Amid == {"add.apply", "add.write", "add.rollback"}

(***************************************************************************)
(* What a process that is about to make call l knows of its workspace,     *)
(* from its local variables j.                                             *)
(***************************************************************************)
CloseTask(w, l, j) ==
    /\ l \in {"close.pre", "close.rm"} =>
         /\ j.held = w.meta
         /\ EntriesRight(j.next) /\ SameRepos(j.next, w.meta)
         /\ w.trees \subseteq j.todo
    /\ l = "close.rename" =>
         /\ w.trees = {}
         /\ EntriesRight(j.held) /\ SameRepos(j.held, w.meta)

AddTask(w, l, j) ==
    /\ l \in Amid =>
         /\ Entered(w, j.done) /\ j.done \subseteq w.trees
         /\ (j.todo \cup j.done) \cap Restorable(w.meta) = {}
    /\ l = "add.write" => j.held = w.meta

RemoveTask(w, l, j) ==
    /\ l = "remove.rm" => w.trees \cap j.done \subseteq j.todo /\ j.todo \subseteq j.done
    /\ l = "remove.write" => w.trees \cap j.done = {} /\ j.held = w.meta

Runs(l, j) ==
    /\ l \in {"purge.check", "purge.pre", "purge.list", "purge.rm", "purge.delarc",
              "purge.rmdir", "purge.base", "purge.post"} => j.cmd = "purge"
    /\ l \in {"add.plan", "add.apply", "add.write", "add.rollback"} => j.cmd = "add-repo"
    /\ l = "add.plan" => j.done = {}
    /\ l \in {"remove.plan", "remove.rm", "remove.write"} => j.cmd = "remove-repo"

Local(i, w, a, R, l, j) ==
    /\ Sound(i, w, a, R)
    /\ Runs(l, j)
    /\ l \notin Amid => Entered(w, {})
    /\ l = "create.fill" => w.trees = {}
    /\ l = "guard.write" => j.held = (IF j.where = "ws" THEN w.meta ELSE a.meta)
    /\ l = "reopen.add" => j.held = w.meta
    /\ CloseTask(w, l, j)
    /\ AddTask(w, l, j)
    /\ RemoveTask(w, l, j)

LocalOf(p) == Local(Id(p), ws[Id(p)], arc[Id(p)], reg, pc[p], job[p])

(***************************************************************************)
(* An add-repo that has not looked at its workspace yet counts as waiting. *)
(***************************************************************************)
Busy(p) == pc[p] \notin {"idle", "add.plan"}

Quiet(i) == \A p \in Proc : Busy(p) => Id(p) # i

Alone(p) == \A q \in Proc \ {p} : Busy(q) => Id(q) # Id(p)

TreesInv ==
    /\ \A i \in Ws : "trees" \notin scars[i] /\ Quiet(i)
          => Local(i, ws[i], arc[i], reg, "idle", NoJob)
    /\ \A p \in Proc : "trees" \notin scars[Id(p)] /\ Busy(p)
          => LocalOf(p) /\ Alone(p)
    /\ \A p \in Proc : pc[p] = "add.plan" => Runs(pc[p], job[p])

(***************************************************************************)
(* What the helpers do to worktrees and entries.                           *)
(***************************************************************************)
LEMMA TreeFacts ==
    /\ NoDir.trees = {} /\ NoDir.meta = NoMeta
    /\ EmptyDir.trees = {} /\ EmptyDir.meta = NoMeta
    /\ NoMeta.status = "absent" /\ \A r \in Repo : NoMeta.restore[r] = "absent"
    /\ \A r \in Repo : FreshMeta.restore[r] = "absent"
    /\ \A d \in Dir, m \in Meta : WithMeta(d, m).trees = d.trees
    /\ \A d \in Dir, r \in Repo :
          /\ WithTree(d, r).trees = d.trees \cup {r}
          /\ WithoutTree(d, r).trees = d.trees \ {r}
    /\ \A d \in Dir : d.trees \subseteq Repo
<1>1. /\ NoDir.trees = {} /\ NoDir.meta = NoMeta
      /\ EmptyDir.trees = {} /\ EmptyDir.meta = NoMeta
  BY DEF NoDir, EmptyDir
<1>2. /\ NoMeta.status = "absent" /\ \A r \in Repo : NoMeta.restore[r] = "absent"
      /\ \A r \in Repo : FreshMeta.restore[r] = "absent"
  BY DEF NoMeta, FreshMeta
<1>3. ASSUME NEW d \in Dir, NEW m \in Meta PROVE WithMeta(d, m).trees = d.trees
  BY DEF WithMeta, Dir
<1>4. ASSUME NEW d \in Dir, NEW r \in Repo
      PROVE  /\ WithTree(d, r).trees = d.trees \cup {r}
             /\ WithoutTree(d, r).trees = d.trees \ {r}
  BY DEF WithTree, WithoutTree, Dir
<1>5. ASSUME NEW d \in Dir PROVE d.trees \subseteq Repo
  BY DEF Dir
<1> QED
  BY <1>1, <1>2, <1>3, <1>4, <1>5

(***************************************************************************)
(* A directory that is gone, or that has neither worktrees nor metadata,   *)
(* has no repositories.                                                    *)
(***************************************************************************)
LEMMA NothingBound ==
    ASSUME NEW d \in Dir, EntriesRight(d.meta), d.trees = {}, ~HasMeta(d)
    PROVE  Bound(d) = {}
BY DEF Bound, Restorable, EntriesRight, HasMeta

LEMMA GoneBound ==
    ASSUME NEW d \in Dir, EntriesRight(d.meta), WellFormed(d), ~d.there
    PROVE  Bound(d) = {}
BY NothingBound DEF WellFormed

(***************************************************************************)
(* Metadata without entries agrees with any record.                        *)
(***************************************************************************)
LEMMA NoEntries ==
    ASSUME NEW d, NEW i, NEW R, EntriesRight(d.meta), ~HasMeta(d)
    PROVE  OnRecord(d, i, R) /\ Entered(d, {})
BY DEF EntriesRight, HasMeta, OnRecord, Entered

LEMMA EmptySound ==
    ASSUME NEW d, NEW i, NEW R, d.meta = NoMeta
    PROVE  EntriesRight(d.meta) /\ OnRecord(d, i, R) /\ Entered(d, {})
BY TreeFacts DEF EntriesRight, HasMeta, OnRecord, Entered

(***************************************************************************)
(* Calls that need no knowledge beyond that the workspace is right.        *)
(***************************************************************************)
EasyLabels ==
    Labels \ {"create.fill", "guard.write", "close.pre", "close.rm",
              "close.rename", "reopen.add", "add.apply", "add.write",
              "add.rollback", "remove.rm", "remove.write"}

LEMMA EasyLocal ==
    ASSUME NEW i, NEW w, NEW a, NEW R, NEW l \in EasyLabels, NEW j, Runs(l, j),
           Sound(i, w, a, R), Entered(w, {})
    PROVE  Local(i, w, a, R, l, j)
BY DEF Local, EasyLabels, CloseTask, AddTask, RemoveTask, Amid

(***************************************************************************)
(* What has to be shown of a step of p: its workspace is right for the     *)
(* next call, unless the step leaves a scar, and no repository is          *)
(* forgotten but those the command may let go of.                          *)
(***************************************************************************)
Freed(j) ==
    IF j.cmd = "purge" THEN Repo
    ELSE IF j.cmd \in {"add-repo", "remove-repo"} THEN j.done ELSE {}

Kept(p) ==
    /\ "trees" \notin scars'[Id(p)] =>
          Local(Id(p), ws'[Id(p)], arc'[Id(p)], reg', pc'[p], job'[p])
    /\ Bindings(Id(p)) \subseteq
          Bound(ws'[Id(p)]) \cup Bound(arc'[Id(p)]) \cup Freed(job[p])

(***************************************************************************)
(* Where a process goes, and with which local variables.                   *)
(***************************************************************************)
LEMMA GotoWith ==
    ASSUME TypeOK, NEW p \in Proc, NEW l, NEW j, Goto(p, l), job' = [job EXCEPT ![p] = j]
    PROVE  pc'[p] = l /\ job'[p] = j
BY DEF TypeOK, Goto

LEMMA StayWith ==
    ASSUME TypeOK, NEW p \in Proc, NEW j, pc' = pc, job' = [job EXCEPT ![p] = j]
    PROVE  pc'[p] = pc[p] /\ job'[p] = j
BY DEF TypeOK

LEMMA EasyStep ==
    ASSUME NEW p \in Proc, LocalOf(p), pc[p] \notin Amid,
           ws' = ws, arc' = arc, reg' = reg,
           pc'[p] \in EasyLabels, Runs(pc'[p], job'[p])
    PROVE  Kept(p)
<1>1. Local(Id(p), ws[Id(p)], arc[Id(p)], reg, pc[p], job[p])
  BY DEF LocalOf
<1>2. Sound(Id(p), ws[Id(p)], arc[Id(p)], reg) /\ Entered(ws[Id(p)], {})
  BY <1>1 DEF Local
<1>3. Local(Id(p), ws[Id(p)], arc[Id(p)], reg, pc'[p], job'[p])
  BY <1>2, EasyLocal
<1> QED
  BY <1>3 DEF Kept, Bindings

LEMMA EasyReturn ==
    ASSUME TypeOK, NEW p \in Proc, LocalOf(p), pc[p] \notin Amid, Return(p),
           ws' = ws, arc' = arc, reg' = reg
    PROVE  Kept(p)
<1>1. pc'[p] = "idle"
  BY DEF TypeOK, Return
<1>2. pc'[p] \in EasyLabels /\ Runs(pc'[p], job'[p])
  BY <1>1 DEF EasyLabels, Labels, Runs
<1> QED
  BY <1>2, EasyStep

LEMMA EasyGoto ==
    ASSUME TypeOK, NEW p \in Proc, LocalOf(p), pc[p] \notin Amid,
           NEW l \in EasyLabels, Goto(p, l), job' = job, Runs(l, job[p]),
           ws' = ws, arc' = arc, reg' = reg
    PROVE  Kept(p)
<1>1. pc'[p] = l /\ job'[p] = job[p]
  BY DEF TypeOK, Goto
<1> QED
  BY <1>1, EasyStep

(***************************************************************************)
(* ws create                                                               *)
(***************************************************************************)
LEMMA CreateKept ==
    ASSUME SerialInv, NEW p \in Proc, LocalOf(p), CreateStep(p)
    PROVE  Kept(p)
<1> DEFINE i == Id(p)
<1>1. /\ i \in Ws /\ Fresh(p) /\ ws[i] \in Dir /\ arc[i] \in Dir
      /\ WellFormed(ws[i])
  BY Here
<1>2. TypeOK /\ pc \in [Proc -> Labels] /\ ws \in [Ws -> Dir]
  BY DEF SerialInv, TypeOK
<1>3. /\ Sound(i, ws[i], arc[i], reg) /\ EntriesRight(ws[i].meta)
      /\ EntriesRight(arc[i].meta) /\ OnRecord(arc[i], i, reg) /\ Entered(arc[i], {})
      /\ pc[p] = "create.fill" => ws[i].trees = {}
  BY DEF LocalOf, Local, Sound
<1>4. CASE CreateStat(p) \/ CreateBaseline(p) \/ CreateCommit(p)
  <2>1. pc[p] \notin Amid /\ ws' = ws /\ arc' = arc /\ reg' = reg
    BY <1>4 DEF CreateStat, CreateBaseline, CreateCommit, disk, Amid
  <2>2. pc'[p] \in {"idle", "create.mkdir", "create.post"}
    BY <1>2, <1>4 DEF CreateStat, CreateBaseline, CreateCommit, Goto, Return
  <2>3. pc'[p] \in EasyLabels /\ Runs(pc'[p], job'[p])
    BY <2>2 DEF EasyLabels, Labels, Runs
  <2> QED
    BY <2>1, <2>3, EasyStep
<1>5. CASE CreateMkdir(p)
  <2>1. pc[p] \notin Amid /\ arc' = arc /\ reg' = reg
    BY <1>5 DEF CreateMkdir, Amid
  <2>2. CASE Return(p) /\ ws' = ws
    BY <1>2, <2>1, <2>2, EasyReturn
  <2>3. CASE ~(Return(p) /\ ws' = ws)
    <3>1. ~ws[i].there /\ ws' = [ws EXCEPT ![i] = EmptyDir] /\ Goto(p, "create.fill")
      BY <1>5, <2>3 DEF CreateMkdir
    <3>2. ws'[i] = EmptyDir /\ pc'[p] = "create.fill"
      BY <1>1, <1>2, <3>1 DEF Goto
    <3>3. EmptyDir.meta = NoMeta /\ EmptyDir.trees = {}
      BY TreeFacts
    <3>4. Sound(i, ws'[i], arc'[i], reg') /\ Entered(ws'[i], {}) /\ ws'[i].trees = {}
      BY <1>3, <2>1, <3>2, <3>3, EmptySound DEF Sound
    <3>5. Local(i, ws'[i], arc'[i], reg', pc'[p], job'[p])
      BY <3>2, <3>4 DEF Local, Amid, CloseTask, AddTask, RemoveTask, Runs
    <3>6. Bound(ws[i]) = {}
      BY <1>1, <1>3, <3>1, GoneBound
    <3> QED
      BY <2>1, <3>5, <3>6 DEF Kept, Bindings
  <2> QED
    BY <2>2, <2>3
<1>6. CASE CreateFill(p)
  <2>1. arc' = arc /\ reg' = reg /\ pc[p] = "create.fill"
    BY <1>6 DEF CreateFill
  <2>2. Bound(ws[i]) = {} /\ ws[i].trees = {} /\ pc[p] \notin Amid
    BY <1>1, <1>3, <2>1, NothingBound DEF Fresh, Amid
  <2>3. CASE ws' = [ws EXCEPT ![i] = WithMeta(@, FreshMeta)] /\ Goto(p, "create.base")
    <3>1. ws'[i] = WithMeta(ws[i], FreshMeta) /\ pc'[p] = "create.base"
      BY <1>1, <1>2, <2>3 DEF Goto
    <3>2. ws'[i].meta = FreshMeta /\ ws'[i].trees = {}
      BY <1>1, <2>2, <3>1, ConstantTypes, DirFacts, TreeFacts
    <3>3. Sound(i, ws'[i], arc'[i], reg') /\ Entered(ws'[i], {})
      BY <1>3, <2>1, <3>2, TreeFacts, FreshMetaFacts
         DEF Sound, EntriesRight, Entered, OnRecord
    <3>4. pc'[p] \in EasyLabels /\ Runs(pc'[p], job'[p])
      BY <3>1 DEF EasyLabels, Labels, Runs
    <3>5. Local(i, ws'[i], arc'[i], reg', pc'[p], job'[p])
      BY <3>3, <3>4, EasyLocal
    <3> QED
      BY <2>1, <2>2, <3>5 DEF Kept, Bindings
  <2>4. CASE ws' = [ws EXCEPT ![i] = NoDir] /\ Return(p)
    <3>1. ws'[i] = NoDir /\ pc'[p] = "idle"
      BY <1>1, <1>2, <2>4 DEF Return
    <3>2. Sound(i, ws'[i], arc'[i], reg') /\ Entered(ws'[i], {})
      BY <1>3, <2>1, <3>1, TreeFacts, EmptySound DEF Sound
    <3>3. pc'[p] \in EasyLabels /\ Runs(pc'[p], job'[p])
      BY <3>1 DEF EasyLabels, Labels, Runs
    <3>4. Local(i, ws'[i], arc'[i], reg', pc'[p], job'[p])
      BY <3>2, <3>3, EasyLocal
    <3> QED
      BY <2>1, <2>2, <3>4 DEF Kept, Bindings
  <2>5. CASE ws' = ws /\ Return(p)
    BY <1>2, <2>1, <2>2, <2>5, EasyReturn
  <2> QED
    BY <1>6, <2>3, <2>4, <2>5 DEF CreateFill
<1> QED
  BY <1>4, <1>5, <1>6 DEF CreateStep

(***************************************************************************)
(* ws lock and ws unlock change nothing but the guard.                     *)
(***************************************************************************)
LEMMA SameEntries ==
    ASSUME NEW i, NEW d, NEW e, NEW R, e.trees = d.trees,
           e.meta.restore = d.meta.restore,
           e.meta.status = d.meta.status \/ (e.meta.status # "absent" /\ HasMeta(d))
    PROVE  /\ EntriesRight(d.meta) => EntriesRight(e.meta)
           /\ OnRecord(d, i, R) => OnRecord(e, i, R)
           /\ Entered(d, {}) => Entered(e, {})
           /\ Bound(e) = Bound(d)
<1>1. EntriesRight(d.meta) => EntriesRight(e.meta)
  BY DEF EntriesRight, HasMeta
<1>2. OnRecord(d, i, R) => OnRecord(e, i, R)
  BY DEF OnRecord
<1>3. Entered(d, {}) => Entered(e, {})
  BY DEF Entered, HasMeta
<1>4. Bound(e) = Bound(d)
  BY DEF Bound, Restorable
<1> QED
  BY <1>1, <1>2, <1>3, <1>4

LEMMA GuardKept ==
    ASSUME SerialInv, NEW p \in Proc, LocalOf(p), GuardStep(p)
    PROVE  Kept(p)
<1> DEFINE i == Id(p)
<1>1. /\ i \in Ws /\ ws[i] \in Dir /\ arc[i] \in Dir
      /\ job[p] \in Job /\ job[p].held \in Meta
  BY Here
<1>2. /\ TypeOK /\ pc \in [Proc -> Labels] /\ job \in [Proc -> Job]
      /\ ws \in [Ws -> Dir] /\ arc \in [Ws -> Dir]
  BY DEF SerialInv, TypeOK
<1>3. /\ Sound(i, ws[i], arc[i], reg)
      /\ pc[p] \notin Amid => Entered(ws[i], {})
      /\ pc[p] = "guard.write" =>
            job[p].held = (IF job[p].where = "ws" THEN ws[i].meta ELSE arc[i].meta)
  BY DEF LocalOf, Local
<1>4. CASE GuardLoad(p)
  <2>1. pc[p] \notin Amid /\ ws' = ws /\ arc' = arc /\ reg' = reg
    BY <1>4 DEF GuardLoad, disk, Amid
  <2>2. CASE Return(p)
    BY <1>2, <2>1, <2>2, EasyReturn
  <2>3. CASE ~Return(p)
    <3> DEFINE where == IF ws[i].there THEN "ws" ELSE "arc"
               d == IF ws[i].there THEN ws[i] ELSE arc[i]
               j == [job[p] EXCEPT !.held = d.meta, !.where = where]
    <3>1. job' = [job EXCEPT ![p] = j] /\ Goto(p, "guard.write")
      BY <1>4, <2>3 DEF GuardLoad, disk
    <3>2. j.held = d.meta /\ j.where = where
      BY <1>1 DEF Job
    <3>3. pc'[p] = "guard.write" /\ job'[p] = j
      BY <1>2, <3>1, GotoWith
    <3>4. job'[p].held = (IF job'[p].where = "ws" THEN ws[i].meta ELSE arc[i].meta)
      BY <3>2, <3>3
    <3>5. Local(i, ws[i], arc[i], reg, "guard.write", job'[p])
      BY <1>3, <2>1, <3>4 DEF Local, Amid, CloseTask, AddTask, RemoveTask, Runs
    <3> QED
      BY <2>1, <3>3, <3>5 DEF Kept, Bindings
  <2> QED
    BY <2>2, <2>3
<1>5. CASE GuardWrite(p)
  <2> DEFINE m == [job[p].held EXCEPT !.guard = job[p].opt]
  <2>1. m \in Meta /\ m.status = job[p].held.status /\ m.restore = job[p].held.restore
    BY <1>1 DEF Meta, Job
  <2>2. Return(p) /\ pc[p] = "guard.write" /\ reg' = reg
    BY <1>5 DEF GuardWrite
  <2>3. pc[p] \notin Amid /\ pc'[p] = "idle"
    BY <1>2, <2>2 DEF Amid, Return
  <2>4. pc'[p] \in EasyLabels /\ Runs(pc'[p], job'[p])
    BY <2>3 DEF EasyLabels, Labels, Runs
  <2>5. CASE ws' = ws /\ arc' = arc
    BY <1>2, <2>2, <2>3, <2>5, EasyReturn
  <2>6. CASE /\ job[p].where = "ws" /\ arc' = arc
             /\ ws' = [ws EXCEPT ![i] = WithMeta(@, m)]
    <3>1. ws'[i] = WithMeta(ws[i], m)
      BY <1>1, <1>2, <2>6
    <3>2. ws'[i].meta = m /\ ws'[i].trees = ws[i].trees
      BY <1>1, <2>1, <3>1, DirFacts, TreeFacts
    <3> HIDE DEF m
    <3>3. /\ ws'[i].meta.restore = ws[i].meta.restore
          /\ ws'[i].meta.status = ws[i].meta.status
      BY <1>3, <2>1, <2>2, <2>6, <3>2
    <3>4. /\ Sound(i, ws'[i], arc'[i], reg') /\ Entered(ws'[i], {})
          /\ Bound(ws'[i]) = Bound(ws[i])
      BY <1>3, <2>2, <2>3, <2>6, <3>2, <3>3, SameEntries DEF Sound
    <3>5. Local(i, ws'[i], arc'[i], reg', pc'[p], job'[p])
      BY <2>4, <3>4, EasyLocal
    <3> QED
      BY <2>6, <3>4, <3>5 DEF Kept, Bindings
  <2>7. CASE /\ job[p].where = "arc" /\ ws' = ws
             /\ arc' = [arc EXCEPT ![i] = WithMeta(@, m)]
    <3>1. arc'[i] = WithMeta(arc[i], m)
      BY <1>1, <1>2, <2>7
    <3>2. arc'[i].meta = m /\ arc'[i].trees = arc[i].trees
      BY <1>1, <2>1, <3>1, DirFacts, TreeFacts
    <3> HIDE DEF m
    <3>3. /\ arc'[i].meta.restore = arc[i].meta.restore
          /\ arc'[i].meta.status = arc[i].meta.status
      BY <1>3, <2>1, <2>2, <2>7, <3>2
    <3>4. /\ Sound(i, ws'[i], arc'[i], reg') /\ Entered(ws'[i], {})
          /\ Bound(arc'[i]) = Bound(arc[i])
      BY <1>3, <2>2, <2>3, <2>7, <3>2, <3>3, SameEntries DEF Sound
    <3>5. Local(i, ws'[i], arc'[i], reg', pc'[p], job'[p])
      BY <2>4, <3>4, EasyLocal
    <3> QED
      BY <2>7, <3>4, <3>5 DEF Kept, Bindings
  <2> QED
    BY <1>5, <2>5, <2>6, <2>7 DEF GuardWrite
<1> QED
  BY <1>4, <1>5 DEF GuardStep

(***************************************************************************)
(* git worktree remove takes one worktree and its record away.             *)
(***************************************************************************)
LEMMA TreeRemoved ==
    ASSUME SerialInv, NEW p \in Proc, NEW r \in Repo, RemoveTree(Id(p), r)
    PROVE  /\ ws'[Id(p)].meta = ws[Id(p)].meta
           /\ ws'[Id(p)].trees = ws[Id(p)].trees \ {r}
           /\ OnRecord(ws[Id(p)], Id(p), reg) => OnRecord(ws'[Id(p)], Id(p), reg')
           /\ OnRecord(arc[Id(p)], Id(p), reg) => OnRecord(arc[Id(p)], Id(p), reg')
<1> DEFINE i == Id(p)
<1>1. i \in Ws /\ ws[i] \in Dir /\ ws \in [Ws -> Dir]
  BY Here DEF SerialInv, TypeOK
<1>2. CASE r \notin ws[i].trees
  <2>1. ws' = ws /\ reg' = reg
    BY <1>2 DEF RemoveTree
  <2> QED
    BY <1>2, <2>1
<1>3. CASE r \in ws[i].trees
  <2>1. ws'[i] = WithoutTree(ws[i], r) /\ reg' = reg \ {<<r, i>>}
    BY <1>1, <1>3 DEF RemoveTree
  <2>2. ws'[i].meta = ws[i].meta /\ ws'[i].trees = ws[i].trees \ {r}
    BY <1>1, <2>1, DirFacts, TreeFacts
  <2>3. OnRecord(ws[i], i, reg) => OnRecord(ws'[i], i, reg')
    BY <2>1, <2>2 DEF OnRecord
  <2>4. OnRecord(arc[i], i, reg) => OnRecord(arc[i], i, reg')
    BY <2>1 DEF OnRecord
  <2> QED
    BY <2>2, <2>3, <2>4
<1> QED
  BY <1>2, <1>3

(***************************************************************************)
(* ws close: the entries are complete before the first worktree goes, so   *)
(* that no worktree is missed by the metadata it writes.                   *)
(***************************************************************************)
LEMMA SameReposFacts ==
    ASSUME NEW i, NEW d, NEW e, NEW R, e.trees = d.trees, SameRepos(e.meta, d.meta)
    PROVE  /\ OnRecord(d, i, R) => OnRecord(e, i, R)
           /\ Bound(e) = Bound(d)
<1>1. OnRecord(d, i, R) => OnRecord(e, i, R)
  BY DEF OnRecord, SameRepos
<1>2. Bound(e) = Bound(d)
  BY DEF Bound, Restorable, SameRepos
<1> QED
  BY <1>1, <1>2

LEMMA WriteBackKept ==
    ASSUME SerialInv, NEW p \in Proc, WriteBack(p), Return(p), arc' = arc, reg' = reg,
           LocalOf(p), pc[p] \in {"close.rm", "close.rename"}
    PROVE  Kept(p)
<1> DEFINE i == Id(p)
           h == job[p].held
<1>1. i \in Ws /\ ws[i] \in Dir /\ arc[i] \in Dir /\ h \in Meta
  BY Here
<1>2. TypeOK /\ pc \in [Proc -> Labels] /\ ws \in [Ws -> Dir]
  BY DEF SerialInv, TypeOK
<1>3. /\ Sound(i, ws[i], arc[i], reg) /\ Entered(ws[i], {})
      /\ CloseTask(ws[i], pc[p], job[p]) /\ pc[p] \notin Amid
  BY DEF LocalOf, Local, Amid
<1>4. CASE ws' = ws
  BY <1>2, <1>3, <1>4, EasyReturn
<1>5. CASE ws' = [ws EXCEPT ![i] = WithMeta(@, h)]
  <2>1. ws'[i] = WithMeta(ws[i], h) /\ pc'[p] = "idle"
    BY <1>1, <1>2, <1>5 DEF Return
  <2>2. ws'[i].meta = h /\ ws'[i].trees = ws[i].trees
    BY <1>1, <2>1, DirFacts, TreeFacts
  <2>3. ASSUME pc[p] = "close.rm"
        PROVE  /\ Sound(i, ws'[i], arc'[i], reg') /\ Entered(ws'[i], {})
               /\ Bound(ws'[i]) = Bound(ws[i])
    <3>1. ws'[i].meta = ws[i].meta
      BY <1>3, <2>2, <2>3 DEF CloseTask
    <3> QED
      BY <1>3, <2>2, <3>1, SameEntries DEF Sound
  <2>4. ASSUME pc[p] = "close.rename"
        PROVE  /\ Sound(i, ws'[i], arc'[i], reg') /\ Entered(ws'[i], {})
               /\ Bound(ws'[i]) = Bound(ws[i])
    <3>1. /\ ws[i].trees = {} /\ EntriesRight(ws'[i].meta)
          /\ SameRepos(ws'[i].meta, ws[i].meta)
      BY <1>3, <2>2, <2>4 DEF CloseTask
    <3>2. OnRecord(ws'[i], i, reg) /\ Bound(ws'[i]) = Bound(ws[i])
      BY <1>3, <2>2, <3>1, SameReposFacts DEF Sound
    <3> QED
      BY <1>3, <2>2, <3>1, <3>2 DEF Sound, Entered
  <2>5. /\ Sound(i, ws'[i], arc'[i], reg') /\ Entered(ws'[i], {})
        /\ Bound(ws'[i]) = Bound(ws[i])
    BY <2>3, <2>4
  <2>6. pc'[p] \in EasyLabels /\ Runs(pc'[p], job'[p])
    BY <2>1 DEF EasyLabels, Labels, Runs
  <2>7. Local(i, ws'[i], arc'[i], reg', pc'[p], job'[p])
    BY <2>5, <2>6, EasyLocal
  <2> QED
    BY <2>5, <2>7 DEF Kept, Bindings
<1> QED
  BY <1>4, <1>5 DEF WriteBack

LEMMA ClosedRepos ==
    ASSUME NEW d \in Dir, EntriesRight(d.meta), HasMeta(d), Entered(d, {})
    PROVE  EntriesRight(ClosedMeta(d)) /\ SameRepos(ClosedMeta(d), d.meta)
<1>1. d.meta \in Meta /\ d.meta.restore \in [Repo -> Entry]
  BY DirTypes DEF Meta
<1>2. /\ ClosedMeta(d).status = "archived"
      /\ ClosedMeta(d).restore = [r \in Repo |-> ClosedEntry(d, r)]
  BY <1>1 DEF ClosedMeta, Meta
<1>3. ASSUME NEW r \in Repo
      PROVE  /\ ClosedEntry(d, r) # "nouid"
             /\ ClosedEntry(d, r) = "absent" <=> d.meta.restore[r] = "absent"
  <2>1. /\ r \in d.trees => d.meta.restore[r] = "full"
        /\ d.meta.restore[r] # "nouid"
    BY DEF Entered, EntriesRight
  <2> QED
    BY <2>1 DEF ClosedEntry
<1> QED
  BY <1>2, <1>3 DEF EntriesRight, SameRepos

LEMMA CloseKept ==
    ASSUME SerialInv, NEW p \in Proc, LocalOf(p), CloseStep(p)
    PROVE  Kept(p)
<1> DEFINE i == Id(p)
<1>1. /\ i \in Ws /\ Fresh(p) /\ ws[i] \in Dir /\ arc[i] \in Dir
      /\ WellFormed(arc[i]) /\ job[p] \in Job
      /\ job[p].held \in Meta /\ job[p].next \in Meta
      /\ job[p].todo \subseteq Repo
  BY Here
<1>2. /\ TypeOK /\ pc \in [Proc -> Labels] /\ job \in [Proc -> Job]
      /\ ws \in [Ws -> Dir] /\ arc \in [Ws -> Dir]
  BY DEF SerialInv, TypeOK
<1>3. /\ Sound(i, ws[i], arc[i], reg) /\ EntriesRight(ws[i].meta)
      /\ EntriesRight(arc[i].meta)
      /\ pc[p] \notin Amid => Entered(ws[i], {})
      /\ CloseTask(ws[i], pc[p], job[p])
  BY DEF LocalOf, Local, Sound
<1>4. CASE CloseRisk(p) \/ CloseBaseline(p) \/ CloseCommit(p)
  <2>1. pc[p] \notin Amid /\ ws' = ws /\ arc' = arc /\ reg' = reg
    BY <1>4 DEF CloseRisk, CloseBaseline, CloseCommit, disk, Amid
  <2>2. pc'[p] \in {"idle", "close.scan", "close.post"}
    BY <1>2, <1>4 DEF CloseRisk, CloseBaseline, CloseCommit, Goto, Return
  <2>3. pc'[p] \in EasyLabels /\ Runs(pc'[p], job'[p])
    BY <2>2 DEF EasyLabels, Labels, Runs
  <2> QED
    BY <2>1, <2>3, EasyStep
<1>5. CASE CloseScan(p)
  <2>1. pc[p] \notin Amid /\ ws' = ws /\ arc' = arc /\ reg' = reg
    BY <1>5 DEF CloseScan, disk, Amid
  <2>2. CASE Return(p)
    BY <1>2, <2>1, <2>2, EasyReturn
  <2>3. CASE ~Return(p)
    <3> DEFINE j == [job[p] EXCEPT !.held = ws[i].meta,
                                   !.next = ClosedMeta(ws[i]),
                                   !.todo = Bound(ws[i])]
               l == IF job[p].opt THEN "close.pre" ELSE "close.rm"
    <3>1. /\ HasMeta(ws[i])
          /\ job' = [job EXCEPT ![p] = j] /\ Goto(p, l)
      BY <1>5, <2>3 DEF CloseScan
    <3>2. /\ j.held = ws[i].meta /\ j.next = ClosedMeta(ws[i])
          /\ j.todo = Bound(ws[i])
      BY <1>1 DEF Job
    <3>3. pc'[p] = l /\ job'[p] = j
      BY <1>2, <3>1, GotoWith
    <3> HIDE DEF j
    <3>4. l \in {"close.pre", "close.rm"}
      OBVIOUS
    <3> HIDE DEF l
    <3>5. /\ EntriesRight(ClosedMeta(ws[i]))
          /\ SameRepos(ClosedMeta(ws[i]), ws[i].meta)
      BY <1>1, <1>3, <2>1, <3>1, ClosedRepos
    <3>6. ws[i].trees \subseteq Bound(ws[i])
      BY DEF Bound
    <3>7. Local(i, ws[i], arc[i], reg, pc'[p], job'[p])
      BY <1>3, <2>1, <3>2, <3>3, <3>4, <3>5, <3>6
         DEF Local, Amid, CloseTask, AddTask, RemoveTask, Runs
    <3> QED
      BY <2>1, <3>7 DEF Kept, Bindings
  <2> QED
    BY <2>2, <2>3
<1>6. CASE ClosePreCommit(p)
  <2>1. /\ pc[p] = "close.pre" /\ pc[p] \notin Amid
        /\ ws' = ws /\ arc' = arc /\ reg' = reg
    BY <1>6 DEF ClosePreCommit, Amid
  <2>2. CASE Return(p)
    BY <1>2, <2>1, <2>2, EasyReturn
  <2>3. CASE ~Return(p)
    <3>1. Goto(p, "close.rm") /\ job' = job
      BY <1>6, <2>3 DEF ClosePreCommit
    <3>2. pc'[p] = "close.rm" /\ job'[p] = job[p]
      BY <1>2, <3>1 DEF Goto
    <3>3. Local(i, ws[i], arc[i], reg, pc'[p], job'[p])
      BY <1>3, <2>1, <3>2 DEF Local, Amid, CloseTask, AddTask, RemoveTask, Runs
    <3> QED
      BY <2>1, <3>3 DEF Kept, Bindings
  <2> QED
    BY <2>2, <2>3
<1>7. CASE CloseRemoveTree(p)
  <2>1. pc[p] = "close.rm" /\ arc' = arc /\ pc[p] \notin Amid
    BY <1>7 DEF CloseRemoveTree, Amid
  <2>2. PICK r \in job[p].todo :
            \/ /\ RemoveTree(i, r)
               /\ job' = [job EXCEPT ![p].todo = @ \ {r}]
               /\ UNCHANGED pc
            \/ WriteBack(p) /\ Return(p) /\ UNCHANGED reg
    BY <1>7 DEF CloseRemoveTree
  <2>3. CASE WriteBack(p) /\ Return(p) /\ UNCHANGED reg
    BY <2>1, <2>3, WriteBackKept
  <2>4. CASE RemoveTree(i, r) /\ job' = [job EXCEPT ![p].todo = @ \ {r}]
                              /\ UNCHANGED pc
    <3> DEFINE j == [job[p] EXCEPT !.todo = job[p].todo \ {r}]
    <3>1. /\ j.held = job[p].held /\ j.next = job[p].next
          /\ j.todo = job[p].todo \ {r} /\ r \in Repo
      BY <1>1 DEF Job
    <3>2. pc'[p] = "close.rm" /\ job'[p] = j
      BY <1>2, <2>1, <2>4, StayWith
    <3> HIDE DEF j
    <3>3. /\ ws'[i].meta = ws[i].meta /\ ws'[i].trees = ws[i].trees \ {r}
          /\ OnRecord(ws[i], i, reg) => OnRecord(ws'[i], i, reg')
          /\ OnRecord(arc[i], i, reg) => OnRecord(arc[i], i, reg')
      BY <2>4, <3>1, TreeRemoved
    <3>4. Sound(i, ws'[i], arc'[i], reg') /\ Entered(ws'[i], {})
      BY <1>3, <2>1, <3>3 DEF Sound, Entered, HasMeta
    <3>5. CloseTask(ws'[i], "close.rm", j)
      BY <1>3, <2>1, <3>1, <3>3 DEF CloseTask
    <3>6. Local(i, ws'[i], arc'[i], reg', pc'[p], job'[p])
      BY <3>2, <3>4, <3>5 DEF Local, Amid, AddTask, RemoveTask, Runs
    <3>7. HasMeta(ws[i])
      BY <1>1, <2>1 DEF Fresh, Agrees
    <3>8. Bound(ws[i]) \subseteq Bound(ws'[i])
      BY <1>3, <2>1, <3>1, <3>3, <3>7 DEF Bound, Restorable, Entered
    <3> QED
      BY <2>1, <3>6, <3>8 DEF Kept, Bindings
  <2> QED
    BY <2>2, <2>3, <2>4
<1>8. CASE CloseWriteMeta(p)
  <2>1. pc[p] = "close.rm" /\ arc' = arc /\ reg' = reg /\ job[p].todo = {}
    BY <1>8 DEF CloseWriteMeta
  <2>2. CASE WriteBack(p) /\ Return(p)
    BY <2>1, <2>2, WriteBackKept
  <2>3. CASE /\ ws' = [ws EXCEPT ![i] = WithMeta(@, job[p].next)]
             /\ Goto(p, "close.rename") /\ UNCHANGED job
    <3>1. /\ ws'[i] = WithMeta(ws[i], job[p].next)
          /\ pc'[p] = "close.rename" /\ job'[p] = job[p]
      BY <1>1, <1>2, <2>3 DEF Goto
    <3>2. ws'[i].meta = job[p].next /\ ws'[i].trees = ws[i].trees
      BY <1>1, <3>1, DirFacts, TreeFacts
    <3>3. /\ job[p].held = ws[i].meta /\ ws[i].trees = {}
          /\ EntriesRight(job[p].next) /\ SameRepos(job[p].next, ws[i].meta)
      BY <1>3, <2>1 DEF CloseTask
    <3>4. OnRecord(ws'[i], i, reg) /\ Bound(ws'[i]) = Bound(ws[i])
      BY <1>3, <3>2, <3>3, SameReposFacts DEF Sound
    <3>5. SameRepos(job[p].held, ws'[i].meta)
      BY <3>2, <3>3 DEF SameRepos
    <3>6. Sound(i, ws'[i], arc'[i], reg') /\ Entered(ws'[i], {})
      BY <1>3, <2>1, <3>2, <3>3, <3>4 DEF Sound, Entered
    <3>7. CloseTask(ws'[i], "close.rename", job[p])
      BY <1>3, <3>2, <3>3, <3>5 DEF CloseTask
    <3>8. Local(i, ws'[i], arc'[i], reg', pc'[p], job'[p])
      BY <3>1, <3>6, <3>7 DEF Local, Amid, AddTask, RemoveTask, Runs
    <3> QED
      BY <2>1, <3>4, <3>8 DEF Kept, Bindings
  <2> QED
    BY <1>8, <2>2, <2>3 DEF CloseWriteMeta
<1>9. CASE CloseRename(p)
  <2>1. pc[p] = "close.rename" /\ reg' = reg /\ pc[p] \notin Amid
    BY <1>9 DEF CloseRename, Amid
  <2>2. CASE WriteBack(p) /\ Return(p) /\ UNCHANGED arc
    BY <2>1, <2>2, WriteBackKept
  <2>3. CASE /\ CanArchive(i)
             /\ arc' = [arc EXCEPT ![i] = ws[i]]
             /\ ws' = [ws EXCEPT ![i] = NoDir]
             /\ Goto(p, "close.base")
    <3>1. arc'[i] = ws[i] /\ ws'[i] = NoDir /\ pc'[p] = "close.base"
      BY <1>1, <1>2, <2>3 DEF Goto
    <3>2. Sound(i, ws'[i], arc'[i], reg') /\ Entered(ws'[i], {})
      BY <1>3, <2>1, <3>1, TreeFacts, EmptySound DEF Sound
    <3>3. pc'[p] \in EasyLabels /\ Runs(pc'[p], job'[p])
      BY <3>1 DEF EasyLabels, Labels, Runs
    <3>4. Local(i, ws'[i], arc'[i], reg', pc'[p], job'[p])
      BY <3>2, <3>3, EasyLocal
    <3>5. Bound(arc[i]) = {}
      BY <1>1, <1>3, <2>3, GoneBound DEF CanArchive
    <3> QED
      BY <3>1, <3>4, <3>5 DEF Kept, Bindings
  <2> QED
    BY <1>9, <2>2, <2>3 DEF CloseRename
<1> QED
  BY <1>4, <1>5, <1>6, <1>7, <1>8, <1>9 DEF CloseStep

(***************************************************************************)
(* git worktree add makes one worktree and its record.                     *)
(***************************************************************************)
LEMMA TreeAdded ==
    ASSUME SerialInv, NEW p \in Proc, NEW r \in Repo, AddTree(Id(p), r)
    PROVE  /\ ws'[Id(p)].meta = ws[Id(p)].meta
           /\ ws'[Id(p)].trees = ws[Id(p)].trees \cup {r}
           /\ OnRecord(ws[Id(p)], Id(p), reg) => OnRecord(ws'[Id(p)], Id(p), reg')
<1> DEFINE i == Id(p)
<1>1. i \in Ws /\ ws[i] \in Dir /\ ws \in [Ws -> Dir]
  BY Here DEF SerialInv, TypeOK
<1>2. ws'[i] = WithTree(ws[i], r) /\ reg' = reg \cup {<<r, i>>}
  BY <1>1 DEF AddTree
<1>3. ws'[i].meta = ws[i].meta /\ ws'[i].trees = ws[i].trees \cup {r}
  BY <1>1, <1>2, DirFacts, TreeFacts
<1>4. OnRecord(ws[i], i, reg) => OnRecord(ws'[i], i, reg')
  BY <1>2, <1>3 DEF OnRecord
<1> QED
  BY <1>3, <1>4

(***************************************************************************)
(* A reopen that gives up takes along the worktrees it has made, and their *)
(* entries.                                                                *)
(***************************************************************************)
LEMMA RenameBackKept ==
    ASSUME SerialInv, NEW p \in Proc, RenameBack(p), Return(p), reg' = reg,
           LocalOf(p), pc[p] \in {"reopen.load", "reopen.add"}
    PROVE  Kept(p)
<1> DEFINE i == Id(p)
<1>1. /\ i \in Ws /\ ws[i] \in Dir /\ arc[i] \in Dir /\ WellFormed(arc[i])
  BY Here
<1>2. /\ TypeOK /\ pc \in [Proc -> Labels]
      /\ ws \in [Ws -> Dir] /\ arc \in [Ws -> Dir]
  BY DEF SerialInv, TypeOK
<1>3. /\ Sound(i, ws[i], arc[i], reg) /\ Entered(ws[i], {})
      /\ EntriesRight(arc[i].meta) /\ pc[p] \notin Amid
  BY DEF LocalOf, Local, Sound, Amid
<1>4. CASE ws' = ws /\ arc' = arc
  BY <1>2, <1>3, <1>4, EasyReturn
<1>5. CASE /\ CanArchive(i) /\ arc' = [arc EXCEPT ![i] = ws[i]]
           /\ ws' = [ws EXCEPT ![i] = NoDir]
  <2>1. arc'[i] = ws[i] /\ ws'[i] = NoDir /\ pc'[p] = "idle"
    BY <1>1, <1>2, <1>5 DEF Return
  <2>2. Sound(i, ws'[i], arc'[i], reg') /\ Entered(ws'[i], {})
    BY <1>3, <2>1, TreeFacts, EmptySound DEF Sound
  <2>3. pc'[p] \in EasyLabels /\ Runs(pc'[p], job'[p])
    BY <2>1 DEF EasyLabels, Labels, Runs
  <2>4. Local(i, ws'[i], arc'[i], reg', pc'[p], job'[p])
    BY <2>2, <2>3, EasyLocal
  <2>5. Bound(arc[i]) = {}
    BY <1>1, <1>3, <1>5, GoneBound DEF CanArchive
  <2> QED
    BY <2>1, <2>4, <2>5 DEF Kept, Bindings
<1> QED
  BY <1>4, <1>5 DEF RenameBack

(***************************************************************************)
(* ws reopen: a worktree is made for an entry that is there.               *)
(***************************************************************************)
LEMMA ReopenKept ==
    ASSUME SerialInv, NEW p \in Proc, LocalOf(p), ReopenStep(p)
    PROVE  Kept(p)
<1> DEFINE i == Id(p)
<1>1. /\ i \in Ws /\ Fresh(p) /\ ws[i] \in Dir /\ arc[i] \in Dir
      /\ WellFormed(ws[i]) /\ WellFormed(arc[i]) /\ job[p] \in Job
      /\ job[p].held \in Meta /\ job[p].todo \subseteq Repo
  BY Here
<1>2. /\ TypeOK /\ pc \in [Proc -> Labels] /\ job \in [Proc -> Job]
      /\ ws \in [Ws -> Dir] /\ arc \in [Ws -> Dir]
  BY DEF SerialInv, TypeOK
<1>3. /\ Sound(i, ws[i], arc[i], reg)
      /\ EntriesRight(ws[i].meta) /\ EntriesRight(arc[i].meta)
      /\ pc[p] \notin Amid => Entered(ws[i], {})
      /\ pc[p] = "reopen.add" => job[p].held = ws[i].meta
  BY DEF LocalOf, Local, Sound
<1>4. CASE ReopenStat(p) \/ ReopenPreCommit(p) \/ ReopenBaseline(p) \/ ReopenCommit(p)
  <2>1. pc[p] \notin Amid /\ ws' = ws /\ arc' = arc /\ reg' = reg
    BY <1>4 DEF ReopenStat, ReopenPreCommit, ReopenBaseline, ReopenCommit,
           disk, Amid
  <2>2. pc'[p] \in {"idle", "reopen.pre", "reopen.rename", "reopen.post"}
    BY <1>2, <1>4 DEF ReopenStat, ReopenPreCommit, ReopenBaseline,
           ReopenCommit,
                      Goto, Return
  <2>3. pc'[p] \in EasyLabels /\ Runs(pc'[p], job'[p])
    BY <2>2 DEF EasyLabels, Labels, Runs
  <2> QED
    BY <2>1, <2>3, EasyStep
<1>5. CASE ReopenRename(p)
  <2>1. pc[p] \notin Amid /\ reg' = reg
    BY <1>5 DEF ReopenRename, Amid
  <2>2. CASE Return(p) /\ UNCHANGED <<ws, arc>>
    BY <1>2, <2>1, <2>2, EasyReturn
  <2>3. CASE ~(Return(p) /\ UNCHANGED <<ws, arc>>)
    <3>1. /\ CanRestore(i) /\ Goto(p, "reopen.load")
          /\ ws' = [ws EXCEPT ![i] = arc[i]] /\ arc' = [arc EXCEPT ![i] = NoDir]
      BY <1>5, <2>3 DEF ReopenRename
    <3>2. ws'[i] = arc[i] /\ arc'[i] = NoDir /\ pc'[p] = "reopen.load"
      BY <1>1, <1>2, <3>1 DEF Goto
    <3>3. Sound(i, ws'[i], arc'[i], reg') /\ Entered(ws'[i], {})
      BY <1>3, <2>1, <3>2, TreeFacts, EmptySound DEF Sound
    <3>4. pc'[p] \in EasyLabels /\ Runs(pc'[p], job'[p])
      BY <3>2 DEF EasyLabels, Labels, Runs
    <3>5. Local(i, ws'[i], arc'[i], reg', pc'[p], job'[p])
      BY <3>3, <3>4, EasyLocal
    <3>6. Bound(ws[i]) = {}
      BY <1>1, <1>3, <3>1, GoneBound DEF CanRestore
    <3> QED
      BY <3>2, <3>5, <3>6 DEF Kept, Bindings
  <2> QED
    BY <2>2, <2>3
<1>6. CASE ReopenLoad(p)
  <2>1. pc[p] = "reopen.load" /\ reg' = reg /\ pc[p] \notin Amid
    BY <1>6 DEF ReopenLoad, Amid
  <2>2. CASE RenameBack(p) /\ Return(p)
    BY <2>1, <2>2, RenameBackKept
  <2>3. CASE ~(RenameBack(p) /\ Return(p))
    <3> DEFINE j == [job[p] EXCEPT !.held = ws[i].meta,
                                   !.todo = Restorable(ws[i].meta)]
    <3>1. /\ ws' = ws /\ arc' = arc
          /\ job' = [job EXCEPT ![p] = j] /\ Goto(p, "reopen.add")
      BY <1>6, <2>3 DEF ReopenLoad
    <3>2. j.held = ws[i].meta
      BY <1>1 DEF Job
    <3>3. pc'[p] = "reopen.add" /\ job'[p] = j
      BY <1>2, <3>1, GotoWith
    <3> HIDE DEF j
    <3>4. Local(i, ws[i], arc[i], reg, pc'[p], job'[p])
      BY <1>3, <2>1, <3>2, <3>3
         DEF Local, Amid, CloseTask, AddTask, RemoveTask, Runs
    <3> QED
      BY <2>1, <3>1, <3>4 DEF Kept, Bindings
  <2> QED
    BY <2>2, <2>3
<1>7. CASE ReopenAddTree(p)
  <2>1. pc[p] = "reopen.add" /\ pc[p] \notin Amid
    BY <1>7 DEF ReopenAddTree, Amid
  <2>2. PICK r \in job[p].todo :
            \/ /\ job[p].held.restore[r] = "full" /\ AddTree(i, r)
               /\ job' = [job EXCEPT ![p].todo = @ \ {r}]
               /\ UNCHANGED <<pc, arc>>
            \/ RenameBack(p) /\ Return(p) /\ UNCHANGED reg
    BY <1>7 DEF ReopenAddTree
  <2>3. CASE RenameBack(p) /\ Return(p) /\ UNCHANGED reg
    BY <2>1, <2>3, RenameBackKept
  <2>4. CASE /\ job[p].held.restore[r] = "full" /\ AddTree(i, r)
             /\ job' = [job EXCEPT ![p].todo = @ \ {r}]
             /\ UNCHANGED <<pc, arc>>
    <3> DEFINE j == [job[p] EXCEPT !.todo = job[p].todo \ {r}]
    <3>1. j.held = job[p].held /\ r \in Repo
      BY <1>1 DEF Job
    <3>2. pc'[p] = "reopen.add" /\ job'[p] = j
      BY <1>2, <2>1, <2>4, StayWith
    <3> HIDE DEF j
    <3>3. /\ ws'[i].meta = ws[i].meta /\ ws'[i].trees = ws[i].trees \cup {r}
          /\ OnRecord(ws[i], i, reg) => OnRecord(ws'[i], i, reg')
      BY <2>4, <3>1, TreeAdded
    <3>4. OnRecord(arc[i], i, reg')
      BY <1>1, <1>3, <2>1, NoEntries DEF Fresh, WellFormed
    <3>5. Sound(i, ws'[i], arc'[i], reg') /\ Entered(ws'[i], {})
      BY <1>3, <2>1, <2>4, <3>3, <3>4 DEF Sound, Entered, HasMeta
    <3>6. Local(i, ws'[i], arc'[i], reg', pc'[p], job'[p])
      BY <1>3, <2>1, <3>1, <3>2, <3>3, <3>5
         DEF Local, Amid, CloseTask, AddTask, RemoveTask, Runs
    <3>7. Bound(ws[i]) \subseteq Bound(ws'[i])
      BY <3>3 DEF Bound
    <3> QED
      BY <2>4, <3>6, <3>7 DEF Kept, Bindings
  <2> QED
    BY <2>2, <2>3, <2>4
<1>8. CASE ReopenWriteMeta(p)
  <2>1. pc[p] = "reopen.add" /\ reg' = reg /\ pc[p] \notin Amid
    BY <1>8 DEF ReopenWriteMeta, Amid
  <2>2. CASE RenameBack(p) /\ Return(p)
    BY <2>1, <2>2, RenameBackKept
  <2>3. CASE ~(RenameBack(p) /\ Return(p))
    <3> DEFINE m == [job[p].held EXCEPT !.status = "active"]
    <3>1. /\ arc' = arc /\ Goto(p, "reopen.base")
          /\ ws' = [ws EXCEPT ![i] = WithMeta(@, m)]
      BY <1>8, <2>3 DEF ReopenWriteMeta
    <3>2. m \in Meta /\ m.status = "active" /\ m.restore = job[p].held.restore
      BY <1>1 DEF Meta
    <3>3. ws'[i] = WithMeta(ws[i], m) /\ pc'[p] = "reopen.base"
      BY <1>1, <1>2, <3>1 DEF Goto
    <3>4. ws'[i].meta = m /\ ws'[i].trees = ws[i].trees
      BY <1>1, <3>2, <3>3, DirFacts, TreeFacts
    <3> HIDE DEF m
    <3>5. HasMeta(ws[i]) /\ job[p].held = ws[i].meta
      BY <1>1, <1>3, <2>1 DEF Fresh, Agrees
    <3>6. /\ Sound(i, ws'[i], arc'[i], reg') /\ Entered(ws'[i], {})
          /\ Bound(ws'[i]) = Bound(ws[i])
      BY <1>3, <2>1, <3>1, <3>2, <3>4, <3>5, SameEntries DEF Sound
    <3>7. pc'[p] \in EasyLabels /\ Runs(pc'[p], job'[p])
      BY <3>3 DEF EasyLabels, Labels, Runs
    <3>8. Local(i, ws'[i], arc'[i], reg', pc'[p], job'[p])
      BY <3>6, <3>7, EasyLocal
    <3> QED
      BY <3>1, <3>6, <3>8 DEF Kept, Bindings
  <2> QED
    BY <2>2, <2>3
<1> QED
  BY <1>4, <1>5, <1>6, <1>7, <1>8 DEF ReopenStep

(***************************************************************************)
(* ws purge: there is nothing under workspaces/ and it may let go of all.  *)
(***************************************************************************)
LEMMA PurgeKept ==
    ASSUME SerialInv, NEW p \in Proc, LocalOf(p), PurgeStep(p)
    PROVE  Kept(p)
<1> DEFINE i == Id(p)
<1>1. /\ i \in Ws /\ Fresh(p) /\ ws[i] \in Dir /\ arc[i] \in Dir
      /\ WellFormed(ws[i]) /\ job[p] \in Job
      /\ job[p].todo \subseteq Repo
  BY Here
<1>2. /\ TypeOK /\ pc \in [Proc -> Labels] /\ job \in [Proc -> Job]
      /\ ws \in [Ws -> Dir] /\ arc \in [Ws -> Dir]
  BY DEF SerialInv, TypeOK
<1> DEFINE Late == {"purge.pre", "purge.list", "purge.rm", "purge.delarc",
                    "purge.rmdir", "purge.base", "purge.post"}
<1>3. /\ pc[p] \in Late \cup {"purge.check"} /\ pc[p] \notin Amid
  BY DEF PurgeStep, PurgeCheck, PurgePreCommit, PurgeList, PurgeRemoveTree,
         PurgeDeleteWs, PurgeDeleteFiles, PurgeDeleteArc, PurgeBaseline,
         PurgeCommit, Amid
<1>4. /\ Sound(i, ws[i], arc[i], reg) /\ Runs(pc[p], job[p])
      /\ Entered(ws[i], {})
  BY <1>3 DEF LocalOf, Local
<1>5. job[p].cmd = "purge" /\ Freed(job[p]) = Repo
  BY <1>3, <1>4 DEF Runs, Freed
<1>6. ASSUME NEW l \in Late, NEW j, j.cmd = "purge"
      PROVE  l \in EasyLabels /\ Runs(l, j)
  BY <1>6 DEF EasyLabels, Labels, Runs
<1>7. Bindings(i) \subseteq Repo
  BY <1>1, TreeFacts DEF Bindings, Bound, Restorable
<1>8. CASE ws' = ws /\ arc' = arc /\ reg' = reg
  <2>1. CASE Return(p)
    BY <1>2, <1>3, <1>8, <2>1, EasyReturn
  <2>2. CASE \E l \in Late : Goto(p, l) /\ job' = job
    BY <1>2, <1>3, <1>5, <1>6, <1>8, <2>2, EasyGoto
  <2>3. CASE PurgeList(p) \/ PurgeRemoveTree(p)
    <3>1. CASE Return(p)
      BY <2>1, <3>1
    <3>2. CASE ~Return(p)
      <4>1. PICK t : job' = [job EXCEPT ![p].todo = t]
        BY <2>3, <3>2 DEF PurgeList, PurgeRemoveTree
      <4>2. job'[p] = [job[p] EXCEPT !.todo = t]
        BY <1>2, <4>1
      <4>3. job'[p].cmd = "purge"
        BY <1>1, <1>5, <4>2 DEF Job
      <4>4. pc'[p] = "purge.rm"
        BY <1>2, <2>3, <3>2 DEF PurgeList, PurgeRemoveTree, Goto
      <4> QED
        BY <1>3, <1>6, <1>8, <4>3, <4>4, EasyStep
    <3> QED
      BY <3>1, <3>2
  <2> QED
    BY <1>8, <2>1, <2>2, <2>3
       DEF PurgeStep, PurgeCheck, PurgePreCommit, PurgeDeleteWs,
           PurgeDeleteFiles, PurgeDeleteArc, PurgeBaseline, PurgeCommit
<1>9. CASE PurgeRemoveTree(p) /\ ~(ws' = ws /\ arc' = arc /\ reg' = reg)
  <2>1. ws[i].trees = {}
    BY <1>1, <1>9 DEF PurgeRemoveTree, Fresh, WellFormed
  <2> QED
    BY <1>9, <2>1 DEF PurgeRemoveTree, RemoveTree
<1>10. CASE PurgeDeleteWs(p) /\ ~(ws' = ws /\ arc' = arc /\ reg' = reg)
  <2>1. /\ ws' = [ws EXCEPT ![i] = NoDir] /\ arc' = arc /\ reg' = reg
        /\ Goto(p, "purge.delarc") /\ job' = job
    BY <1>10 DEF PurgeDeleteWs
  <2>2. ws'[i] = NoDir /\ pc'[p] = "purge.delarc" /\ job'[p] = job[p]
    BY <1>1, <1>2, <2>1 DEF Goto
  <2>3. Sound(i, ws'[i], arc'[i], reg') /\ Entered(ws'[i], {})
    BY <1>4, <2>1, <2>2, TreeFacts, EmptySound DEF Sound
  <2>4. Local(i, ws'[i], arc'[i], reg', pc'[p], job'[p])
    BY <1>5, <1>6, <2>2, <2>3, EasyLocal
  <2> QED
    BY <1>5, <1>7, <2>4 DEF Kept
<1>11. CASE /\ PurgeDeleteFiles(p) \/ PurgeDeleteArc(p)
            /\ ~(ws' = ws /\ arc' = arc /\ reg' = reg)
  <2>1. PICK l \in Late, d \in {NoDir, WithMeta(arc[i], NoMeta)} :
            /\ arc' = [arc EXCEPT ![i] = d] /\ ws' = ws /\ reg' = reg
            /\ Goto(p, l) /\ job' = job
    BY <1>11 DEF PurgeDeleteFiles, PurgeDeleteArc
  <2>2. arc'[i] = d /\ pc'[p] = l /\ job'[p] = job[p]
    BY <1>1, <1>2, <2>1 DEF Goto
  <2>3. d.meta = NoMeta
    BY <1>1, DirFacts, TreeFacts, ConstantTypes
  <2>4. Sound(i, ws'[i], arc'[i], reg')
    BY <1>4, <2>1, <2>2, <2>3, EmptySound DEF Sound
  <2>5. Local(i, ws'[i], arc'[i], reg', pc'[p], job'[p])
    BY <1>4, <1>5, <1>6, <2>1, <2>2, <2>4, EasyLocal
  <2> QED
    BY <1>5, <1>7, <2>5 DEF Kept
<1> QED
  BY <1>8, <1>9, <1>10, <1>11
     DEF PurgeStep, PurgeCheck, PurgePreCommit, PurgeList, PurgeBaseline,
         PurgeCommit, disk

(***************************************************************************)
(* ws add-repo: what is not yet among the entries is in job[p].done, and   *)
(* the rollback takes exactly that away again, or leaves a scar.           *)
(***************************************************************************)
LEMMA AddRepoKept ==
    ASSUME SerialInv, NEW p \in Proc, LocalOf(p), AddRepoStep(p)
    PROVE  Kept(p)
<1> DEFINE i == Id(p)
<1>1. /\ i \in Ws /\ ws[i] \in Dir /\ arc[i] \in Dir /\ job[p] \in Job
      /\ WellFormed(arc[i]) /\ Fresh(p)
      /\ job[p].held \in Meta /\ job[p].todo \subseteq Repo
      /\ job[p].done \subseteq Repo
  BY Here
<1>2. /\ TypeOK /\ pc \in [Proc -> Labels] /\ job \in [Proc -> Job]
      /\ ws \in [Ws -> Dir]
  BY DEF SerialInv, TypeOK
<1>3. /\ Sound(i, ws[i], arc[i], reg) /\ Runs(pc[p], job[p])
      /\ EntriesRight(ws[i].meta) /\ EntriesRight(arc[i].meta)
      /\ OnRecord(ws[i], i, reg) /\ OnRecord(arc[i], i, reg) /\ Entered(arc[i], {})
      /\ AddTask(ws[i], pc[p], job[p])
      /\ pc[p] \notin Amid => Entered(ws[i], {})
  BY DEF LocalOf, Local, Sound
<1>4. pc[p] \in Amid \cup {"add.plan"} /\ arc' = arc
  BY DEF AddRepoStep, AddPlan, AddTreeOf, AddLoadMeta, AddWriteMeta,
         AddRollback, disk, Amid
<1>5. job[p].cmd = "add-repo" /\ Freed(job[p]) = job[p].done
  BY <1>3, <1>4 DEF Runs, Freed, Amid
<1>6. ASSUME NEW w, NEW R, NEW l \in Amid, NEW j,
             Sound(i, w, arc'[i], R), AddTask(w, l, j), j.cmd = "add-repo"
      PROVE  Local(i, w, arc'[i], R, l, j)
  BY <1>6 DEF Local, Amid, CloseTask, RemoveTask, Runs
<1>7. CASE AddPlan(p)
  <2>1. pc[p] = "add.plan" /\ pc[p] \notin Amid /\ ws' = ws /\ reg' = reg
    BY <1>7 DEF AddPlan, Amid
  <2>2. CASE Return(p)
    BY <1>2, <1>4, <2>1, <2>2, EasyReturn
  <2>3. CASE ~Return(p)
    <3>1. PICK s \in SUBSET (Repo \ Bound(ws[i])) :
              Goto(p, "add.apply") /\ job' = [job EXCEPT ![p].todo = s]
      BY <1>7, <2>3 DEF AddPlan
    <3> DEFINE j == [job[p] EXCEPT !.todo = s]
    <3>2. pc'[p] = "add.apply" /\ job'[p] = j
      BY <1>2, <3>1, GotoWith
    <3>3. j.cmd = job[p].cmd /\ j.done = job[p].done /\ j.todo = s
      BY <1>1 DEF Job
    <3> HIDE DEF j
    <3>4. j.done = {} /\ Entered(ws[i], {})
      BY <1>3, <2>1, <3>3 DEF Runs
    <3>5. s \cap Restorable(ws[i].meta) = {}
      BY <3>1 DEF Bound
    <3>6. AddTask(ws[i], "add.apply", j)
      BY <3>3, <3>4, <3>5 DEF AddTask
    <3>7. Local(i, ws'[i], arc'[i], reg', pc'[p], job'[p])
      BY <1>3, <1>4, <1>5, <1>6, <2>1, <3>2, <3>3, <3>6 DEF Amid
    <3> QED
      BY <1>4, <2>1, <3>7 DEF Kept, Bindings
  <2> QED
    BY <2>2, <2>3
<1>8. CASE Goto(p, "add.rollback") /\ ws' = ws /\ reg' = reg /\ job' = job /\ pc[p] \in Amid
  <2>1. pc'[p] = "add.rollback" /\ job'[p] = job[p]
    BY <1>2, <1>8 DEF Goto
  <2>2. AddTask(ws[i], "add.rollback", job[p])
    BY <1>3, <1>8 DEF AddTask, Amid
  <2>3. Local(i, ws'[i], arc'[i], reg', pc'[p], job'[p])
    BY <1>3, <1>4, <1>5, <1>6, <1>8, <2>1, <2>2 DEF Amid
  <2> QED
    BY <1>4, <1>8, <2>3 DEF Kept, Bindings
<1>9. CASE AddTreeOf(p) /\ ~(Goto(p, "add.rollback") /\ ws' = ws /\ reg' = reg /\ job' = job)
  <2>1. pc[p] = "add.apply" /\ pc[p] \in Amid
    BY <1>9 DEF AddTreeOf, Amid
  <2>2. PICK r \in job[p].todo :
            /\ AddTree(i, r) /\ pc' = pc
            /\ job' = [job EXCEPT ![p].todo = @ \ {r}, ![p].done = @ \cup {r}]
    BY <1>9 DEF AddTreeOf
  <2> DEFINE j == [job[p] EXCEPT !.todo = job[p].todo \ {r}, !.done = job[p].done \cup {r}]
  <2>3. /\ j.cmd = job[p].cmd /\ j.done = job[p].done \cup {r} /\ r \in Repo
        /\ j.todo = job[p].todo \ {r}
    BY <1>1 DEF Job
  <2>4. pc'[p] = "add.apply" /\ job'[p] = j
    <3>1. job' = [job EXCEPT ![p] = j]
      BY <2>2
    <3> QED
      BY <1>2, <2>1, <2>2, <3>1, StayWith
  <2> HIDE DEF j
  <2>5. /\ ws'[i].meta = ws[i].meta
        /\ ws'[i].trees = ws[i].trees \cup {r}
        /\ OnRecord(ws[i], i, reg) => OnRecord(ws'[i], i, reg')
    BY <2>2, <2>3, TreeAdded
  <2>6. /\ Entered(ws[i], job[p].done) /\ job[p].done \subseteq ws[i].trees
        /\ (job[p].todo \cup job[p].done) \cap Restorable(ws[i].meta) = {}
    BY <1>3, <2>1 DEF AddTask
  <2>7. Entered(ws'[i], j.done)
    BY <2>3, <2>5, <2>6 DEF Entered, HasMeta
  <2>8. AddTask(ws'[i], "add.apply", j)
    BY <2>3, <2>5, <2>6, <2>7 DEF AddTask
  <2>9. OnRecord(arc[i], i, reg')
    BY <1>1, <1>3, <2>1, NoEntries DEF Fresh, WellFormed
  <2>10. Sound(i, ws'[i], arc'[i], reg')
    BY <1>3, <1>4, <2>5, <2>9 DEF Sound
  <2>11. Local(i, ws'[i], arc'[i], reg', pc'[p], job'[p])
    BY <1>5, <1>6, <2>1, <2>3, <2>4, <2>8, <2>10
  <2>12. Bound(ws[i]) \subseteq Bound(ws'[i])
    BY <2>5 DEF Bound
  <2> QED
    BY <1>4, <2>11, <2>12 DEF Kept, Bindings
<1>10. CASE AddLoadMeta(p) /\ ~(Goto(p, "add.rollback") /\ job' = job)
  <2> DEFINE j == [job[p] EXCEPT !.held = ws[i].meta]
  <2>1. /\ pc[p] = "add.apply" /\ ws' = ws /\ reg' = reg
        /\ job' = [job EXCEPT ![p] = j] /\ Goto(p, "add.write")
    BY <1>10 DEF AddLoadMeta, disk
  <2>2. /\ j.cmd = job[p].cmd /\ j.done = job[p].done /\ j.todo = job[p].todo
        /\ j.held = ws[i].meta
    BY <1>1 DEF Job
  <2>3. pc'[p] = "add.write" /\ job'[p] = j
    BY <1>2, <2>1, GotoWith
  <2> HIDE DEF j
  <2>4. AddTask(ws[i], "add.write", j)
    BY <1>3, <2>1, <2>2 DEF AddTask, Amid
  <2>5. Local(i, ws'[i], arc'[i], reg', pc'[p], job'[p])
    BY <1>3, <1>4, <1>5, <1>6, <2>1, <2>2, <2>3, <2>4 DEF Amid
  <2> QED
    BY <1>4, <2>1, <2>5 DEF Kept, Bindings
<1>11. CASE AddWriteMeta(p) /\ ~(Goto(p, "add.rollback") /\ ws' = ws /\ job' = job)
  <2> DEFINE m == [job[p].held EXCEPT
                     !.restore = [r \in Repo |->
                         IF r \in job[p].done THEN "full" ELSE @[r]]]
  <2>1. /\ pc[p] = "add.write" /\ pc[p] \in Amid /\ reg' = reg /\ Return(p)
        /\ ws' = [ws EXCEPT ![i] = WithMeta(@, m)]
    BY <1>11 DEF AddWriteMeta, Amid
  <2>2. /\ m \in Meta /\ m.status = job[p].held.status
        /\ \A r \in Repo :
              m.restore[r] = IF r \in job[p].done THEN "full" ELSE job[p].held.restore[r]
    BY <1>1 DEF Meta, Entry
  <2>3. ws'[i] = WithMeta(ws[i], m) /\ pc'[p] = "idle"
    BY <1>1, <1>2, <2>1 DEF Return
  <2>4. ws'[i].meta = m /\ ws'[i].trees = ws[i].trees
    BY <1>1, <2>2, <2>3, DirFacts, TreeFacts
  <2> HIDE DEF m
  <2>5. /\ job[p].held = ws[i].meta /\ Entered(ws[i], job[p].done)
        /\ job[p].done \subseteq ws[i].trees /\ ws[i].trees \subseteq Repo
    BY <1>1, <1>3, <2>1, TreeFacts DEF AddTask
  <2>6. HasMeta(ws[i])
    BY <1>1, <2>1 DEF Fresh, Agrees
  <2>7. EntriesRight(ws'[i].meta)
    BY <1>3, <2>2, <2>4, <2>5, <2>6 DEF EntriesRight, HasMeta
  <2>8. Entered(ws'[i], {})
    BY <2>2, <2>4, <2>5, <2>6 DEF Entered
  <2>9. OnRecord(ws'[i], i, reg')
    BY <1>3, <2>1, <2>2, <2>4, <2>5 DEF OnRecord
  <2>10. Sound(i, ws'[i], arc'[i], reg')
    BY <1>3, <1>4, <2>1, <2>7, <2>9 DEF Sound
  <2>11. pc'[p] \in EasyLabels /\ Runs(pc'[p], job'[p])
    BY <2>3 DEF EasyLabels, Labels, Runs
  <2>12. Local(i, ws'[i], arc'[i], reg', pc'[p], job'[p])
    BY <2>8, <2>10, <2>11, EasyLocal
  <2>13. Bound(ws[i]) \subseteq Bound(ws'[i])
    BY <2>2, <2>4, <2>5 DEF Bound, Restorable
  <2> QED
    BY <1>4, <2>12, <2>13 DEF Kept, Bindings
<1>12. CASE AddRollback(p)
  <2>1. pc[p] = "add.rollback" /\ pc[p] \in Amid
    BY <1>12 DEF AddRollback, Amid
  <2>2. CASE \E r \in job[p].done :
                /\ ws' = [ws EXCEPT ![i] = WithoutTree(@, r)]
                /\ reg' = reg \ {<<r, i>>} \/ reg' = reg
                /\ job' = [job EXCEPT ![p].done = @ \ {r}]
                /\ pc' = pc
    <3>1. PICK r \in job[p].done :
              /\ ws' = [ws EXCEPT ![i] = WithoutTree(@, r)]
              /\ reg' = reg \ {<<r, i>>} \/ reg' = reg
              /\ job' = [job EXCEPT ![p].done = @ \ {r}]
              /\ pc' = pc
      BY <2>2
    <3> DEFINE j == [job[p] EXCEPT !.done = job[p].done \ {r}]
    <3>2. /\ j.cmd = job[p].cmd /\ j.done = job[p].done \ {r} /\ r \in Repo
          /\ j.todo = job[p].todo
      BY <1>1 DEF Job
    <3>3. pc'[p] = "add.rollback" /\ job'[p] = j
      BY <1>2, <2>1, <3>1, StayWith
    <3> HIDE DEF j
    <3>4. ws'[i] = WithoutTree(ws[i], r)
      BY <1>1, <1>2, <3>1
    <3>5. ws'[i].meta = ws[i].meta /\ ws'[i].trees = ws[i].trees \ {r}
      BY <1>1, <3>2, <3>4, DirFacts, TreeFacts
    <3>6. /\ Entered(ws[i], job[p].done) /\ job[p].done \subseteq ws[i].trees
          /\ (job[p].todo \cup job[p].done) \cap Restorable(ws[i].meta) = {}
      BY <1>3, <2>1 DEF AddTask
    <3>7. ws[i].meta.restore[r] = "absent" /\ reg' \subseteq reg
      BY <3>1, <3>2, <3>6 DEF Restorable
    <3>8. OnRecord(ws'[i], i, reg') /\ OnRecord(arc[i], i, reg')
      BY <1>3, <3>5, <3>7 DEF OnRecord
    <3>9. Sound(i, ws'[i], arc'[i], reg')
      BY <1>3, <1>4, <3>5, <3>8 DEF Sound
    <3>10. Entered(ws'[i], j.done)
      BY <3>2, <3>5, <3>6 DEF Entered, HasMeta
    <3>11. AddTask(ws'[i], "add.rollback", j)
      BY <3>2, <3>5, <3>6, <3>10 DEF AddTask
    <3>12. Local(i, ws'[i], arc'[i], reg', pc'[p], job'[p])
      BY <1>5, <1>6, <2>1, <3>2, <3>3, <3>9, <3>11
    <3>13. Bound(ws[i]) \subseteq Bound(ws'[i]) \cup job[p].done
      BY <3>5 DEF Bound
    <3> QED
      BY <1>4, <1>5, <3>12, <3>13 DEF Kept, Bindings
  <2>3. CASE job[p].done = {} /\ Return(p) /\ ws' = ws /\ reg' = reg
    <3>1. pc'[p] = "idle"
      BY <1>2, <2>3 DEF Return
    <3>2. Entered(ws[i], {})
      BY <1>3, <2>1, <2>3 DEF AddTask
    <3>3. pc'[p] \in EasyLabels /\ Runs(pc'[p], job'[p])
      BY <3>1 DEF EasyLabels, Labels, Runs
    <3>4. Local(i, ws'[i], arc'[i], reg', pc'[p], job'[p])
      BY <1>3, <1>4, <2>3, <3>2, <3>3, EasyLocal
    <3> QED
      BY <1>4, <2>3, <3>4 DEF Kept, Bindings
  <2>4. CASE scars' = Scarred(i, "trees") /\ ws' = ws /\ reg' = reg
    <3>1. "trees" \in scars'[i]
      BY <2>4, ScarredHere DEF Scar
    <3> QED
      BY <1>4, <2>4, <3>1 DEF Kept, Bindings
  <2> QED
    BY <1>12, <2>2, <2>3, <2>4 DEF AddRollback
<1> QED
  <2>1. CASE AddTreeOf(p)
    BY <1>8, <1>9, <2>1 DEF AddTreeOf, Amid
  <2>2. CASE AddLoadMeta(p)
    BY <1>8, <1>10, <2>2 DEF AddLoadMeta, disk, Amid
  <2>3. CASE AddWriteMeta(p)
    BY <1>8, <1>11, <2>3 DEF AddWriteMeta, Amid
  <2> QED
    BY <1>7, <1>12, <2>1, <2>2, <2>3 DEF AddRepoStep

(***************************************************************************)
(* ws remove-repo: the entries go when the worktrees are gone.             *)
(***************************************************************************)
LEMMA RemoveRepoKept ==
    ASSUME SerialInv, NEW p \in Proc, LocalOf(p), RemoveRepoStep(p)
    PROVE  Kept(p)
<1> DEFINE i == Id(p)
<1>1. /\ i \in Ws /\ ws[i] \in Dir /\ arc[i] \in Dir /\ job[p] \in Job
      /\ Fresh(p)
      /\ job[p].held \in Meta /\ job[p].todo \subseteq Repo
      /\ job[p].done \subseteq Repo
  BY Here
<1>2. /\ TypeOK /\ pc \in [Proc -> Labels] /\ job \in [Proc -> Job]
      /\ ws \in [Ws -> Dir]
  BY DEF SerialInv, TypeOK
<1>3. /\ pc[p] \in {"remove.plan", "remove.rm", "remove.write"} /\ pc[p] \notin Amid
      /\ arc' = arc
  BY DEF RemoveRepoStep, RemovePlan, RemoveTreeOf, RemoveLoadMeta,
         RemoveWriteMeta, disk, Amid
<1>4. /\ Sound(i, ws[i], arc[i], reg) /\ Runs(pc[p], job[p])
      /\ EntriesRight(ws[i].meta) /\ EntriesRight(arc[i].meta)
      /\ OnRecord(ws[i], i, reg) /\ OnRecord(arc[i], i, reg) /\ Entered(arc[i], {})
      /\ Entered(ws[i], {}) /\ RemoveTask(ws[i], pc[p], job[p])
  BY <1>3 DEF LocalOf, Local, Sound
<1>5. job[p].cmd = "remove-repo" /\ Freed(job[p]) = job[p].done
  BY <1>3, <1>4 DEF Runs, Freed
<1>6. ASSUME NEW w, NEW R, NEW l \in {"remove.rm", "remove.write"}, NEW j,
             Sound(i, w, arc'[i], R), Entered(w, {}), RemoveTask(w, l, j),
             j.cmd = "remove-repo"
      PROVE  Local(i, w, arc'[i], R, l, j)
  BY <1>6 DEF Local, Amid, CloseTask, AddTask, Runs
<1>7. CASE Return(p) /\ ws' = ws /\ reg' = reg
  BY <1>2, <1>3, <1>7, EasyReturn
<1>8. CASE RemovePlan(p) /\ ~Return(p)
  <2>1. PICK s \in SUBSET Bound(ws[i]) :
            /\ job' = [job EXCEPT ![p].todo = s, ![p].done = s]
            /\ Goto(p, "remove.rm")
    BY <1>8 DEF RemovePlan
  <2> DEFINE j == [job[p] EXCEPT !.todo = s, !.done = s]
  <2>2. job' = [job EXCEPT ![p] = j] /\ ws' = ws /\ reg' = reg
    BY <1>8, <2>1 DEF RemovePlan, disk
  <2>3. pc'[p] = "remove.rm" /\ job'[p] = j
    BY <1>2, <2>1, <2>2, GotoWith
  <2>4. j.cmd = job[p].cmd /\ j.todo = s /\ j.done = s
    BY <1>1 DEF Job
  <2> HIDE DEF j
  <2>5. RemoveTask(ws[i], "remove.rm", j)
    BY <2>4 DEF RemoveTask
  <2>6. Local(i, ws'[i], arc'[i], reg', pc'[p], job'[p])
    BY <1>3, <1>4, <1>5, <1>6, <2>2, <2>3, <2>4, <2>5
  <2> QED
    BY <1>3, <2>2, <2>6 DEF Kept, Bindings
<1>9. CASE RemoveTreeOf(p) /\ ~(Return(p) /\ ws' = ws /\ reg' = reg)
  <2>1. pc[p] = "remove.rm"
    BY <1>9 DEF RemoveTreeOf
  <2>2. PICK r \in job[p].todo :
            /\ RemoveTree(i, r) /\ pc' = pc
            /\ job' = [job EXCEPT ![p].todo = @ \ {r}]
    BY <1>9 DEF RemoveTreeOf
  <2> DEFINE j == [job[p] EXCEPT !.todo = job[p].todo \ {r}]
  <2>3. /\ j.cmd = job[p].cmd /\ j.done = job[p].done
        /\ j.todo = job[p].todo \ {r} /\ r \in Repo
    BY <1>1 DEF Job
  <2>4. pc'[p] = "remove.rm" /\ job'[p] = j
    BY <1>2, <2>1, <2>2, StayWith
  <2> HIDE DEF j
  <2>5. /\ ws'[i].meta = ws[i].meta
        /\ ws'[i].trees = ws[i].trees \ {r}
        /\ OnRecord(ws[i], i, reg) => OnRecord(ws'[i], i, reg')
        /\ OnRecord(arc[i], i, reg) => OnRecord(arc[i], i, reg')
    BY <2>2, <2>3, TreeRemoved
  <2>6. Sound(i, ws'[i], arc'[i], reg') /\ Entered(ws'[i], {})
    BY <1>3, <1>4, <2>5 DEF Sound, Entered, HasMeta
  <2>7. RemoveTask(ws'[i], "remove.rm", j) /\ r \in job[p].done
    BY <1>4, <2>1, <2>3, <2>5 DEF RemoveTask
  <2>8. Local(i, ws'[i], arc'[i], reg', pc'[p], job'[p])
    BY <1>5, <1>6, <2>3, <2>4, <2>6, <2>7
  <2>9. Bound(ws[i]) \subseteq Bound(ws'[i]) \cup job[p].done
    BY <2>5, <2>7 DEF Bound
  <2> QED
    BY <1>3, <1>5, <2>8, <2>9 DEF Kept, Bindings
<1>10. CASE RemoveLoadMeta(p) /\ ~Return(p)
  <2> DEFINE j == [job[p] EXCEPT !.held = ws[i].meta]
  <2>1. /\ pc[p] = "remove.rm" /\ job[p].todo = {} /\ ws' = ws /\ reg' = reg
        /\ job' = [job EXCEPT ![p] = j] /\ Goto(p, "remove.write")
    BY <1>10 DEF RemoveLoadMeta, disk
  <2>2. j.cmd = job[p].cmd /\ j.done = job[p].done /\ j.held = ws[i].meta
    BY <1>1 DEF Job
  <2>3. pc'[p] = "remove.write" /\ job'[p] = j
    BY <1>2, <2>1, GotoWith
  <2> HIDE DEF j
  <2>4. RemoveTask(ws[i], "remove.write", j)
    BY <1>4, <2>1, <2>2 DEF RemoveTask
  <2>5. Local(i, ws'[i], arc'[i], reg', pc'[p], job'[p])
    BY <1>3, <1>4, <1>5, <1>6, <2>1, <2>2, <2>3, <2>4
  <2> QED
    BY <1>3, <2>1, <2>5 DEF Kept, Bindings
<1>11. CASE RemoveWriteMeta(p) /\ ~(ws' = ws)
  <2> DEFINE m == [job[p].held EXCEPT
                     !.restore = [r \in Repo |->
                         IF r \in job[p].done THEN "absent" ELSE @[r]]]
  <2>1. /\ pc[p] = "remove.write" /\ reg' = reg /\ Return(p)
        /\ ws' = [ws EXCEPT ![i] = WithMeta(@, m)]
    BY <1>11 DEF RemoveWriteMeta
  <2>2. /\ m \in Meta /\ m.status = job[p].held.status
        /\ \A r \in Repo :
              m.restore[r] = IF r \in job[p].done THEN "absent" ELSE job[p].held.restore[r]
    BY <1>1 DEF Meta, Entry
  <2>3. ws'[i] = WithMeta(ws[i], m) /\ pc'[p] = "idle"
    BY <1>1, <1>2, <2>1 DEF Return
  <2>4. ws'[i].meta = m /\ ws'[i].trees = ws[i].trees
    BY <1>1, <2>2, <2>3, DirFacts, TreeFacts
  <2> HIDE DEF m
  <2>5. /\ job[p].held = ws[i].meta
        /\ ws[i].trees \cap job[p].done = {} /\ ws[i].trees \subseteq Repo
    BY <1>1, <1>4, <2>1, TreeFacts DEF RemoveTask
  <2>6. HasMeta(ws[i])
    BY <1>1, <2>1 DEF Fresh, Agrees
  <2>7. EntriesRight(ws'[i].meta)
    BY <1>4, <2>2, <2>4, <2>5 DEF EntriesRight
  <2>8. Entered(ws'[i], {})
    BY <1>4, <2>2, <2>4, <2>5, <2>6 DEF Entered
  <2>9. OnRecord(ws'[i], i, reg')
    BY <1>4, <2>1, <2>2, <2>4, <2>5 DEF OnRecord
  <2>10. Sound(i, ws'[i], arc'[i], reg')
    BY <1>3, <1>4, <2>1, <2>7, <2>9 DEF Sound
  <2>11. pc'[p] \in EasyLabels /\ Runs(pc'[p], job'[p])
    BY <2>3 DEF EasyLabels, Labels, Runs
  <2>12. Local(i, ws'[i], arc'[i], reg', pc'[p], job'[p])
    BY <2>8, <2>10, <2>11, EasyLocal
  <2>13. Bound(ws[i]) \subseteq Bound(ws'[i]) \cup job[p].done
    BY <2>2, <2>4, <2>5 DEF Bound, Restorable
  <2> QED
    BY <1>3, <1>5, <2>12, <2>13 DEF Kept, Bindings
<1> QED
  BY <1>7, <1>8, <1>9, <1>10, <1>11
     DEF RemoveRepoStep, RemovePlan, RemoveTreeOf, RemoveLoadMeta, RemoveWriteMeta, disk
-----------------------------------------------------------------------------
(***************************************************************************)
(* From the workspace of the step to all of them                           *)
(***************************************************************************)
LEMMA LocalRecord ==
    ASSUME NEW i, NEW w, NEW a, NEW R, NEW S, NEW l, NEW j,
           \A r \in Repo : <<r, i>> \in S <=> <<r, i>> \in R,
           Local(i, w, a, R, l, j)
    PROVE  Local(i, w, a, S, l, j)
<1>1. OnRecord(w, i, R) <=> OnRecord(w, i, S)
  BY DEF OnRecord
<1>2. OnRecord(a, i, R) <=> OnRecord(a, i, S)
  BY DEF OnRecord
<1>3. Sound(i, w, a, R) <=> Sound(i, w, a, S)
  BY <1>1, <1>2 DEF Sound
<1> QED
  BY <1>3 DEF Local

LEMMA LocalIdle ==
    ASSUME NEW i, NEW w, NEW a, NEW R, NEW h, NEW j, h \notin Amid,
           Local(i, w, a, R, h, j), NEW l \in EasyLabels, NEW k, Runs(l, k)
    PROVE  Local(i, w, a, R, l, k)
<1>1. Sound(i, w, a, R) /\ Entered(w, {})
  BY DEF Local
<1> QED
  BY <1>1, EasyLocal

(***************************************************************************)
(* A command changes git's record of its own workspace only.               *)
(***************************************************************************)
LEMMA OwnRecord ==
    ASSUME NEW p \in Proc, Step(p) \/ Crash(p), NEW k \in Ws \ {Id(p)}, NEW r \in Repo
    PROVE  <<r, k>> \in reg' <=> <<r, k>> \in reg
<1>1. \/ reg' = reg
      \/ \E s : reg' = reg \cup {<<s, Id(p)>>}
      \/ \E s : reg' = reg \ {<<s, Id(p)>>}
  <2>1. CASE Crash(p)
    BY <2>1 DEF Crash
  <2>2. CASE CreateStep(p) \/ GuardStep(p)
    BY <2>2 DEF CreateStep, CreateStat, CreateMkdir, CreateFill,
           CreateBaseline,
                CreateCommit, GuardStep, GuardLoad, GuardWrite, disk
  <2>3. CASE CloseStep(p)
    BY <2>3 DEF CloseStep, CloseRisk, CloseScan, ClosePreCommit,
           CloseRemoveTree,
                CloseWriteMeta, CloseRename, CloseBaseline, CloseCommit, RemoveTree, disk
  <2>4. CASE ReopenStep(p)
    BY <2>4 DEF ReopenStep, ReopenStat, ReopenPreCommit, ReopenRename,
           ReopenLoad,
                ReopenAddTree, ReopenWriteMeta, ReopenBaseline, ReopenCommit,
                AddTree, disk
  <2>5. CASE PurgeStep(p)
    BY <2>5 DEF PurgeStep, PurgeCheck, PurgePreCommit, PurgeList,
           PurgeRemoveTree,
                PurgeDeleteWs, PurgeDeleteFiles, PurgeDeleteArc, PurgeBaseline,
                PurgeCommit, RemoveTree, disk
  <2>6. CASE AddRepoStep(p)
    BY <2>6 DEF AddRepoStep, AddPlan, AddTreeOf, AddLoadMeta, AddWriteMeta,
                AddRollback, AddTree, disk
  <2>7. CASE RemoveRepoStep(p)
    BY <2>7 DEF RemoveRepoStep, RemovePlan, RemoveTreeOf, RemoveLoadMeta,
                RemoveWriteMeta, RemoveTree, disk
  <2> QED
    BY <2>1, <2>2, <2>3, <2>4, <2>5, <2>6, <2>7 DEF Step
<1> QED
  BY <1>1

(***************************************************************************)
(* An add-repo that looks at its workspace changes nothing, and goes on    *)
(* beside another one only with a scar.                                    *)
(***************************************************************************)
LEMMA PlanStep ==
    ASSUME SerialInv, NEW p \in Proc, pc[p] = "add.plan", Step(p) \/ Crash(p)
    PROVE  /\ ws' = ws /\ arc' = arc /\ reg' = reg
           /\ pc'[p] \in {"idle", "add.apply"}
           /\ pc'[p] = "add.apply" /\ AddRepoRunning(Id(p), p)
              => "trees" \in scars'[Id(p)]
<1>1. pc \in [Proc -> Labels] /\ "trees" \in Scar
  BY DEF SerialInv, TypeOK, Scar
<1>2. CASE Crash(p)
  BY <1>1, <1>2 DEF Crash, Return
<1>3. CASE AddPlan(p)
  <2>1. CASE Return(p)
    BY <1>1, <1>3, <2>1 DEF AddPlan, Return
  <2>2. CASE ~Return(p)
    <3>1. /\ Goto(p, "add.apply")
          /\ scars' = IF AddRepoRunning(Id(p), p) THEN Scarred(Id(p), "trees") ELSE scars
      BY <1>3, <2>2 DEF AddPlan
    <3> QED
      BY <1>1, <1>3, <3>1, ScarredHere DEF AddPlan, Goto
  <2> QED
    BY <2>1, <2>2
<1>4. Step(p) => AddPlan(p)
  BY AddNext DEF AddCalls, AddRepoStep, AddTreeOf, AddLoadMeta, AddWriteMeta,
         AddRollback
<1> QED
  BY <1>2, <1>3, <1>4

(***************************************************************************)
(* No command comes back to the point where add-repo looks.                *)
(***************************************************************************)
LEMMA NoPlan ==
    ASSUME SerialInv, NEW p \in Proc, Step(p) \/ Crash(p)
    PROVE  pc'[p] # "add.plan"
<1>1. pc \in [Proc -> Labels]
  BY DEF SerialInv, TypeOK
<1>2. CASE Crash(p)
  BY <1>1, <1>2 DEF Crash, Return
<1>3. CASE CreateStep(p)
  BY <1>1, <1>3 DEF CreateStep, CreateStat, CreateMkdir, CreateFill,
         CreateBaseline,
                    CreateCommit, Goto, Return
<1>4. CASE GuardStep(p)
  BY <1>1, <1>4 DEF GuardStep, GuardLoad, GuardWrite, Goto, Return
<1>5. CASE CloseStep(p)
  BY <1>1, <1>5 DEF CloseStep, CloseRisk, CloseScan, ClosePreCommit,
         CloseRemoveTree,
                    CloseWriteMeta, CloseRename, CloseBaseline, CloseCommit, Goto, Return
<1>6. CASE ReopenStep(p)
  BY <1>1, <1>6 DEF ReopenStep, ReopenStat, ReopenPreCommit, ReopenRename,
         ReopenLoad,
                    ReopenAddTree, ReopenWriteMeta, ReopenBaseline, ReopenCommit,
                    Goto, Return
<1>7. CASE PurgeStep(p)
  BY <1>1, <1>7 DEF PurgeStep, PurgeCheck, PurgePreCommit, PurgeList,
         PurgeRemoveTree,
                    PurgeDeleteWs, PurgeDeleteFiles, PurgeDeleteArc, PurgeBaseline,
                    PurgeCommit, Goto, Return
<1>8. CASE AddRepoStep(p)
  BY <1>1, <1>8 DEF AddRepoStep, AddPlan, AddTreeOf, AddLoadMeta, AddWriteMeta,
                    AddRollback, Goto, Return
<1>9. CASE RemoveRepoStep(p)
  BY <1>1, <1>9 DEF RemoveRepoStep, RemovePlan, RemoveTreeOf, RemoveLoadMeta,
                    RemoveWriteMeta, Goto, Return
<1> QED
  BY <1>2, <1>3, <1>4, <1>5, <1>6, <1>7, <1>8, <1>9 DEF Step

(***************************************************************************)
(* The death of a process: worktrees without an entry are a scar.          *)
(***************************************************************************)
LEMMA CrashKept ==
    ASSUME SerialInv, NEW p \in Proc, LocalOf(p), Crash(p)
    PROVE  Kept(p)
<1>1. TypeOK /\ Id(p) \in Ws /\ scars \in [Ws -> SUBSET Scar]
  BY Here DEF SerialInv, TypeOK
<1>2. ws' = ws /\ arc' = arc /\ reg' = reg /\ Return(p)
  BY DEF Crash
<1>3. CASE pc[p] \notin Amid
  BY <1>1, <1>2, <1>3, EasyReturn
<1>4. CASE pc[p] \in Amid
  <2>1. "trees" \in Wounds(pc[p])
    BY <1>4 DEF Amid, Wounds, Scar
  <2>2. "trees" \in scars'[Id(p)]
    BY <1>1, <2>1 DEF Crash
  <2> QED
    BY <1>2, <2>2 DEF Kept, Bindings
<1> QED
  BY <1>3, <1>4

LEMMA StepKept ==
    ASSUME SerialInv, NEW p \in Proc, LocalOf(p), Step(p) \/ Crash(p)
    PROVE  Kept(p)
BY CreateKept, GuardKept, CloseKept, ReopenKept, PurgeKept, AddRepoKept,
   RemoveRepoKept, CrashKept DEF Step

(***************************************************************************)
(* The workspace of the step, as long as it has no scar.  An add-repo that *)
(* looks at it while another one is at work leaves it as it is.            *)
(***************************************************************************)
LEMMA HereKept ==
    ASSUME SerialInv, TreesInv, OnlyAddsOverlap, NEW p \in Proc, Step(p) \/ Crash(p),
           "trees" \notin scars[Id(p)]
    PROVE  \/ Alone(p) /\ Kept(p)
           \/ /\ ~Busy(p) /\ ws' = ws /\ arc' = arc /\ reg' = reg
              /\ "trees" \notin scars'[Id(p)] => pc'[p] = "idle"
<1>1. OwnStep(p) /\ Id(p) \in Ws
  BY StepGood, Here DEF Good
<1>2. CASE Busy(p)
  BY <1>2, StepKept DEF TreesInv
<1>3. CASE ~Busy(p)
  <2>1. pc[p] = "add.plan"
    BY <1>1, <1>3 DEF OwnStep, Busy
  <2>2. CASE Alone(p)
    <3>1. Quiet(Id(p))
      BY <1>3, <2>2 DEF Quiet, Alone
    <3>2. /\ Local(Id(p), ws[Id(p)], arc[Id(p)], reg, "idle", NoJob)
          /\ Runs("add.plan", job[p])
      BY <1>1, <2>1, <3>1 DEF TreesInv
    <3>3. "add.plan" \in EasyLabels /\ "idle" \notin Amid
      BY DEF EasyLabels, Labels, Amid
    <3>4. LocalOf(p)
      BY <2>1, <3>2, <3>3, LocalIdle DEF LocalOf
    <3> QED
      BY <2>2, <3>4, StepKept
  <2>3. CASE ~Alone(p)
    <3>1. PICK q \in Proc \ {p} : Busy(q) /\ Id(q) = Id(p)
      BY <2>3 DEF Alone
    <3>2. pc[q] \in AddCalls
      BY <1>1, <3>1 DEF OnlyAddsOverlap, OwnStep, Busy
    <3>3. AddRepoRunning(Id(p), p)
      BY <3>1, <3>2 DEF AddRepoRunning, AddCalls, Busy
    <3> QED
      BY <1>3, <2>1, <3>3, PlanStep
  <2> QED
    BY <2>2, <2>3
<1> QED
  BY <1>2, <1>3

(***************************************************************************)
(* What the step of one process means for all.                             *)
(***************************************************************************)
LEMMA TreesFrame ==
    ASSUME SerialInv, TreesInv, OnlyAddsOverlap, NEW p \in Proc, Step(p) \/ Crash(p)
    PROVE  TreesInv'
<1> DEFINE i == Id(p)
<1>1. OwnStep(p) /\ i \in Ws /\ pc'[p] # "add.plan"
  BY StepGood, Here, NoPlan DEF Good
<1>2. ASSUME NEW q \in Proc \ {p}
      PROVE  pc'[q] = pc[q] /\ job'[q] = job[q] /\ Id(q)' = Id(q) /\ (Busy(q)' <=> Busy(q))
  BY <1>1 DEF OwnStep, Busy, Id
<1>3. ASSUME "trees" \notin scars'[i]
      PROVE  \/ /\ Alone(p)
                /\ Local(i, ws'[i], arc'[i], reg', pc'[p], job'[p])
             \/ ~Busy(p) /\ ws' = ws /\ arc' = arc /\ reg' = reg /\ pc'[p] = "idle"
  <2>1. "trees" \notin scars[i]
    BY <1>1, <1>3, OwnScars
  <2> QED
    BY <1>3, <2>1, HereKept DEF Kept
<1>4. ASSUME NEW k \in Ws \ {i}
      PROVE  /\ ws'[k] = ws[k] /\ arc'[k] = arc[k] /\ scars'[k] = scars[k]
             /\ \A r \in Repo : <<r, k>> \in reg' <=> <<r, k>> \in reg
  BY <1>1, <1>4, OwnScars, OwnRecord DEF OwnStep
<1>5. ASSUME NEW k \in Ws, "trees" \notin scars'[k], Quiet(k)'
      PROVE  Local(k, ws'[k], arc'[k], reg', "idle", NoJob)
  <2>1. CASE k # i
    <3>1. Quiet(k)
      BY <1>1, <1>2, <1>5, <2>1 DEF Quiet
    <3>2. Local(k, ws[k], arc[k], reg, "idle", NoJob)
      BY <1>4, <1>5, <2>1, <3>1 DEF TreesInv
    <3> QED
      BY <1>4, <2>1, <3>2, LocalRecord
  <2>2. CASE k = i /\ Alone(p) /\ Local(i, ws'[i], arc'[i], reg', pc'[p], job'[p])
    <3>1. pc'[p] = "idle"
      BY <1>1, <1>5, <2>2 DEF Quiet, Busy, OwnStep, Id
    <3>2. "idle" \in EasyLabels /\ Runs("idle", NoJob) /\ "idle" \notin Amid
      BY DEF EasyLabels, Labels, Runs, Amid
    <3> QED
      BY <2>2, <3>1, <3>2, LocalIdle
  <2>3. CASE k = i /\ ~Busy(p) /\ ws' = ws /\ arc' = arc /\ reg' = reg /\ pc'[p] = "idle"
    <3>1. Quiet(k)
      BY <1>2, <1>5, <2>3 DEF Quiet
    <3>2. "trees" \notin scars[k]
      BY <1>5, OwnScars
    <3> QED
      BY <2>3, <3>1, <3>2 DEF TreesInv
  <2> QED
    BY <1>3, <1>5, <2>1, <2>2, <2>3
<1>6. ASSUME NEW q \in Proc, "trees" \notin scars'[Id(q)'], Busy(q)'
      PROVE  LocalOf(q)' /\ Alone(q)'
  <2>1. CASE q = p
    <3>1. Id(p)' = i /\ pc'[p] # "idle"
      BY <1>1, <1>6, <2>1 DEF OwnStep, Busy, Id
    <3>2. Alone(p) /\ Local(i, ws'[i], arc'[i], reg', pc'[p], job'[p])
      BY <1>3, <1>6, <2>1, <3>1
    <3>3. LocalOf(p)'
      BY <3>1, <3>2 DEF LocalOf
    <3>4. Alone(p)'
      <4> SUFFICES ASSUME NEW t \in Proc \ {p}, Busy(t)' PROVE Id(t)' # Id(p)'
        BY DEF Alone
      <4> QED
        BY <1>2, <3>1, <3>2 DEF Alone
    <3> QED
      BY <2>1, <3>3, <3>4
  <2>2. CASE q # p /\ Id(q) # i
    <3>1. /\ pc'[q] = pc[q] /\ job'[q] = job[q] /\ Id(q)' = Id(q) /\ Busy(q)
          /\ Id(q) \in Ws \ {i}
      BY <1>2, <1>6, <2>2, Here
    <3>2. LocalOf(q) /\ Alone(q)
      BY <1>4, <1>6, <3>1 DEF TreesInv
    <3>3. Local(Id(q), ws'[Id(q)], arc'[Id(q)], reg', pc'[q], job'[q])
      BY <1>4, <3>1, <3>2, LocalRecord DEF LocalOf
    <3>4. LocalOf(q)'
      BY <3>1, <3>3 DEF LocalOf
    <3>5. Alone(q)'
      <4> SUFFICES ASSUME NEW t \in Proc \ {q}, Busy(t)' PROVE Id(t)' # Id(q)'
        BY DEF Alone
      <4>1. CASE t = p
        BY <1>1, <2>2, <3>1, <4>1 DEF OwnStep, Busy, Id
      <4>2. CASE t # p
        BY <1>2, <3>1, <3>2, <4>2 DEF Alone
      <4> QED
        BY <4>1, <4>2
    <3> QED
      BY <3>4, <3>5
  <2>3. CASE q # p /\ Id(q) = i
    <3>1. /\ pc'[q] = pc[q] /\ job'[q] = job[q] /\ Id(q)' = Id(q) /\ Busy(q)
      BY <1>2, <1>6, <2>3
    <3>2. ~Alone(p)
      BY <2>3, <3>1 DEF Alone
    <3>3. ~Busy(p) /\ ws' = ws /\ arc' = arc /\ reg' = reg /\ pc'[p] = "idle"
      BY <1>3, <1>6, <2>3, <3>1, <3>2
    <3>4. "trees" \notin scars[i]
      BY <1>1, <1>6, <2>3, <3>1, OwnScars
    <3>5. LocalOf(q) /\ Alone(q)
      BY <2>3, <3>1, <3>4 DEF TreesInv
    <3>6. LocalOf(q)'
      BY <3>1, <3>3, <3>5 DEF LocalOf
    <3>7. Alone(q)'
      <4> SUFFICES ASSUME NEW t \in Proc \ {q}, Busy(t)' PROVE Id(t)' # Id(q)'
        BY DEF Alone
      <4>1. t # p
        BY <3>3 DEF Busy
      <4> QED
        BY <1>2, <3>1, <3>5, <4>1 DEF Alone
    <3> QED
      BY <3>6, <3>7
  <2> QED
    BY <2>1, <2>2, <2>3
<1>7. ASSUME NEW q \in Proc, pc'[q] = "add.plan"
      PROVE  Runs(pc'[q], job'[q])
  BY <1>1, <1>2, <1>7 DEF TreesInv
<1> QED
  BY <1>5, <1>6, <1>7 DEF TreesInv

(***************************************************************************)
(* A command starts on a workspace at rest, or is an add-repo that has not *)
(* looked yet.                                                             *)
(***************************************************************************)
LEMMA StartTrees ==
    ASSUME OnlyAddsOverlap', SerialInv, TreesInv, NEW p \in Proc, Start(p)
    PROVE  TreesInv'
<1>1. PICK c \in Commands, i \in Ws, o \in Modes \cup {TRUE} :
          /\ pc' = [pc EXCEPT ![p] = FirstCall(c)]
          /\ job' = [job EXCEPT ![p] =
                        [NoJob EXCEPT !.cmd = c, !.id = i, !.opt = o]]
  BY DEF Start
<1>2. ws' = ws /\ arc' = arc /\ reg' = reg /\ scars' = scars /\ ~Busy(p)
  BY DEF Start, disk, Busy
<1>3. /\ pc \in [Proc -> Labels] /\ job \in [Proc -> Job]
      /\ c \in AllCommands
  BY ConstantsAssumption DEF SerialInv, TypeOK
<1> DEFINE j == [NoJob EXCEPT !.cmd = c, !.id = i, !.opt = o]
<1>4. pc'[p] = FirstCall(c) /\ job'[p] = j
  BY <1>1, <1>3
<1>5. j.cmd = c /\ j.id = i /\ j.done = {}
  BY DEF NoJob
<1> HIDE DEF j
<1>6. FirstCall(c) \in EasyLabels /\ FirstCall(c) # "idle" /\ Runs(FirstCall(c), j)
  BY <1>3, <1>5 DEF FirstCall, AllCommands, EasyLabels, Labels, Runs
<1>7. ASSUME NEW q \in Proc \ {p}
      PROVE  pc'[q] = pc[q] /\ job'[q] = job[q] /\ Id(q)' = Id(q) /\ (Busy(q)' <=> Busy(q))
  BY <1>1, <1>3 DEF Busy, Id
<1>8. ASSUME NEW k \in Ws, "trees" \notin scars'[k], Quiet(k)'
      PROVE  Local(k, ws'[k], arc'[k], reg', "idle", NoJob)
  <2>1. Quiet(k)
    BY <1>2, <1>7, <1>8 DEF Quiet
  <2> QED
    BY <1>2, <1>8, <2>1 DEF TreesInv
<1>9. Id(p)' = i
  BY <1>4, <1>5 DEF Id
<1>10. ASSUME Busy(p)', NEW t \in Proc, Busy(t) PROVE Id(t) # i
  <2>1. pc'[p] \notin AddCalls
    BY <1>3, <1>4, <1>10 DEF FirstCall, AllCommands, AddCalls, Busy
  <2>2. t # p /\ pc'[t] # "idle" /\ pc'[p] # "idle" /\ Id(t)' = Id(t)
    BY <1>2, <1>7, <1>10 DEF Busy
  <2> QED
    BY <1>9, <2>1, <2>2 DEF OnlyAddsOverlap
<1>11. ASSUME NEW q \in Proc, "trees" \notin scars'[Id(q)'], Busy(q)'
      PROVE  LocalOf(q)' /\ Alone(q)'
  <2>1. CASE q = p
    <3>1. Local(i, ws[i], arc[i], reg, "idle", NoJob) /\ "idle" \notin Amid
      BY <1>2, <1>9, <1>10, <1>11, <2>1 DEF TreesInv, Quiet, Amid
    <3>2. Local(i, ws[i], arc[i], reg, FirstCall(c), j)
      BY <1>6, <3>1, LocalIdle
    <3>3. LocalOf(p)'
      BY <1>2, <1>4, <1>9, <3>2 DEF LocalOf
    <3>4. Alone(p)'
      BY <1>7, <1>9, <1>10, <1>11, <2>1 DEF Alone
    <3> QED
      BY <2>1, <3>3, <3>4
  <2>2. CASE q # p
    <3>1. pc'[q] = pc[q] /\ job'[q] = job[q] /\ Id(q)' = Id(q) /\ Busy(q)
      BY <1>7, <1>11, <2>2
    <3>2. LocalOf(q) /\ Alone(q)
      BY <1>2, <1>11, <3>1 DEF TreesInv
    <3>3. LocalOf(q)'
      BY <1>2, <3>1, <3>2 DEF LocalOf
    <3>4. Alone(q)'
      <4> SUFFICES ASSUME NEW t \in Proc \ {q}, Busy(t)' PROVE Id(t)' # Id(q)'
        BY DEF Alone
      <4>1. CASE t = p
        BY <1>9, <1>10, <3>1, <4>1
      <4>2. CASE t # p
        BY <1>7, <3>1, <3>2, <4>2 DEF Alone
      <4> QED
        BY <4>1, <4>2
    <3> QED
      BY <3>3, <3>4
  <2> QED
    BY <2>1, <2>2
<1>12. ASSUME NEW q \in Proc, pc'[q] = "add.plan"
       PROVE  Runs(pc'[q], job'[q])
  BY <1>4, <1>6, <1>7, <1>12 DEF TreesInv
<1> QED
  BY <1>8, <1>11, <1>12 DEF TreesInv

(***************************************************************************)
(* The user's edits concern neither worktrees as such nor metadata.        *)
(***************************************************************************)
LEMMA LocalSame ==
    ASSUME NEW i, NEW w, NEW v, NEW a, NEW R, NEW l, NEW j,
           v.meta = w.meta, v.trees = w.trees, Local(i, w, a, R, l, j)
    PROVE  Local(i, v, a, R, l, j)
<1>1. \A s : Entered(w, s) => Entered(v, s)
  BY DEF Entered, HasMeta
<1>2. OnRecord(w, i, R) => OnRecord(v, i, R)
  BY DEF OnRecord
<1>3. Sound(i, v, a, R)
  BY <1>2 DEF Sound, Local
<1>4. CloseTask(w, l, j) => CloseTask(v, l, j)
  BY DEF CloseTask
<1>5. AddTask(w, l, j) => AddTask(v, l, j)
  BY <1>1 DEF AddTask
<1>6. RemoveTask(w, l, j) => RemoveTask(v, l, j)
  BY DEF RemoveTask
<1> QED
  BY <1>1, <1>3, <1>4, <1>5, <1>6 DEF Local

LEMMA EditTrees ==
    ASSUME SerialInv, TreesInv, NEW i \in Ws, EditNote(i) \/ EditTree(i)
    PROVE  /\ TreesInv'
           /\ \A k \in Ws : Bindings(k)' = Bindings(k)
<1>1. ws \in [Ws -> Dir]
  BY DEF SerialInv, TypeOK
<1>2. pc' = pc /\ job' = job /\ arc' = arc /\ reg' = reg /\ scars' = scars
  BY DEF EditNote, EditTree
<1>3. \A k \in Ws : ws'[k].meta = ws[k].meta /\ ws'[k].trees = ws[k].trees
  <2>1. CASE EditNote(i)
    <3>1. PICK n \in Notes : ws' = [ws EXCEPT ![i].note = n]
      BY <2>1 DEF EditNote
    <3> QED
      BY <1>1, <3>1 DEF Dir
  <2>2. CASE EditTree(i)
    <3>1. PICK r \in ws[i].trees :
              \/ ws' = [ws EXCEPT ![i].dirty = @ \cup {r}]
              \/ ws' = [ws EXCEPT ![i].dirty = @ \ {r}]
              \/ ws' = [ws EXCEPT ![i].loose = @ \cup {r}]
              \/ ws' = [ws EXCEPT ![i].loose = @ \ {r}]
      BY <2>2 DEF EditTree
    <3> QED
      BY <1>1, <3>1 DEF Dir
  <2> QED
    BY <2>1, <2>2
<1>4. ASSUME NEW k \in Ws, NEW l, NEW j, Local(k, ws[k], arc[k], reg, l, j)
      PROVE  Local(k, ws'[k], arc'[k], reg', l, j)
  BY <1>2, <1>3, <1>4, LocalSame
<1>5. ASSUME NEW k \in Ws, "trees" \notin scars'[k], Quiet(k)'
      PROVE  Local(k, ws'[k], arc'[k], reg', "idle", NoJob)
  <2>1. Quiet(k)
    BY <1>2, <1>5 DEF Quiet, Busy, Id
  <2> QED
    BY <1>2, <1>4, <1>5, <2>1 DEF TreesInv
<1>6. ASSUME NEW q \in Proc, "trees" \notin scars'[Id(q)'], Busy(q)'
      PROVE  LocalOf(q)' /\ Alone(q)'
  <2>1. LocalOf(q) /\ Alone(q) /\ Id(q) \in Ws /\ Id(q)' = Id(q)
    BY <1>2, <1>6, Here DEF TreesInv, Busy, Id
  <2>2. Local(Id(q), ws'[Id(q)], arc'[Id(q)], reg', pc[q], job[q])
    BY <1>4, <2>1 DEF LocalOf
  <2> QED
    BY <1>2, <2>1, <2>2 DEF LocalOf, Alone, Busy, Id
<1>7. \A q \in Proc : pc'[q] = "add.plan" => Runs(pc'[q], job'[q])
  BY <1>2 DEF TreesInv
<1>8. \A k \in Ws : Bindings(k)' = Bindings(k)
  BY <1>2, <1>3 DEF Bindings, Bound
<1> QED
  BY <1>5, <1>6, <1>7, <1>8 DEF TreesInv

(***************************************************************************)
(* An empty root.                                                          *)
(***************************************************************************)
LEMMA InitTrees == Init => TreesInv
<1> SUFFICES ASSUME Init PROVE TreesInv
  OBVIOUS
<1>1. \A p \in Proc : pc[p] = "idle"
  BY DEF Init
<1>2. ASSUME NEW i \in Ws PROVE Local(i, ws[i], arc[i], reg, "idle", NoJob)
  <2>1. ws[i] = NoDir /\ arc[i] = NoDir
    BY DEF Init
  <2>2. Sound(i, NoDir, NoDir, reg) /\ Entered(NoDir, {})
    BY TreeFacts, EmptySound DEF Sound
  <2>3. "idle" \in EasyLabels /\ Runs("idle", NoJob)
    BY DEF EasyLabels, Labels, Runs
  <2> QED
    BY <2>1, <2>2, <2>3, EasyLocal
<1> QED
  BY <1>1, <1>2 DEF TreesInv, Busy

(***************************************************************************)
(* The effect of a step of any process or of the user.                     *)
(***************************************************************************)
LEMMA NextTrees ==
    ASSUME OnlyAddsOverlap, OnlyAddsOverlap', SerialInv, TreesInv, [Next]_vars
    PROVE  /\ TreesInv'
           /\ \A i \in Ws : "trees" \notin scars[i] =>
                  Bindings(i) \subseteq Bindings(i)' \cup Released(i)
<1>1. ASSUME NEW p \in Proc, Start(p)
      PROVE  TreesInv' /\ \A i \in Ws : Bindings(i)' = Bindings(i)
  BY <1>1, StartTrees DEF Start, disk, Bindings
<1>2. ASSUME NEW p \in Proc, Step(p) \/ Crash(p)
      PROVE  /\ TreesInv'
             /\ \A i \in Ws : "trees" \notin scars[i] =>
                    Bindings(i) \subseteq Bindings(i)' \cup Released(i)
  <2>1. OwnStep(p)
    BY <1>2, StepGood DEF Good
  <2>2. TreesInv'
    BY <1>2, TreesFrame
  <2>3. ASSUME NEW i \in Ws, "trees" \notin scars[i]
        PROVE  Bindings(i) \subseteq Bindings(i)' \cup Released(i)
    <3>1. CASE i = Id(p) /\ Kept(p)
      <4>1. Freed(job[p]) \subseteq Released(i)
        BY <2>1, <3>1 DEF Freed, Released, OwnStep
      <4> QED
        BY <3>1, <4>1 DEF Kept, Bindings
    <3>2. CASE i # Id(p)
      BY <2>1, <3>2 DEF OwnStep, Bindings
    <3>3. CASE ws' = ws /\ arc' = arc
      BY <3>3 DEF Bindings
    <3> QED
      BY <1>2, <2>3, <3>1, <3>2, <3>3, HereKept
  <2> QED
    BY <2>2, <2>3
<1>3. ASSUME NEW i \in Ws, EditNote(i) \/ EditTree(i)
      PROVE  TreesInv' /\ \A k \in Ws : Bindings(k)' = Bindings(k)
  BY <1>3, EditTrees
<1>4. CASE UNCHANGED vars
  <2>1. ws' = ws /\ arc' = arc /\ reg' = reg /\ pc' = pc /\ job' = job /\ scars' = scars
    BY <1>4 DEF vars
  <2> QED
    BY <2>1 DEF TreesInv, LocalOf, Quiet, Alone, Busy, Id, Bindings
<1> QED
  BY <1>1, <1>2, <1>3, <1>4 DEF Next
-----------------------------------------------------------------------------
(***************************************************************************)
(* The worktrees, the entries and git's record agree, as long as the       *)
(* workspace has no "trees" scar: whichever calls fail, whichever          *)
(* processes die, and however many add-repos look at it at once.           *)
(***************************************************************************)
THEOREM TreesCorrect == Spec /\ []OnlyAddsOverlap => []TreesInv
<1>1. Init => TreesInv
  BY InitTrees
<1>2. /\ SerialInv /\ TreesInv /\ OnlyAddsOverlap /\ OnlyAddsOverlap'
      /\ [Next]_vars
      => TreesInv'
  BY NextTrees
<1> QED
  BY <1>1, <1>2, SerialCorrect, PTL DEF Spec

(***************************************************************************)
(* Every worktree has its entry in repos_restore, after any sequence of    *)
(* commands that failed half-way: add-repo removes the worktrees it cannot *)
(* enter, and remove-repo keeps the entry of a worktree it cannot remove.  *)
(* What is excepted is what the scar records: a second add-repo that the   *)
(* lock let in, an add-repo that died, and a rollback that failed.         *)
(***************************************************************************)
THEOREM TreesHaveEntriesCorrect ==
    Spec /\ []OnlyAddsOverlap => []TreesHaveEntries
<1>1. TreesInv => TreesHaveEntries
  <2> SUFFICES ASSUME TreesInv, NEW i \in Ws, AtRest(i), HasMeta(ws[i]),
                      "trees" \notin scars[i], NEW r \in ws[i].trees
               PROVE  ws[i].meta.restore[r] = "full"
    BY DEF TreesHaveEntries
  <2>1. Local(i, ws[i], arc[i], reg, "idle", NoJob)
    BY DEF TreesInv, AtRest, Quiet, Busy
  <2> QED
    BY <2>1 DEF Local, Amid, Entered
<1> QED
  BY <1>1, TreesCorrect, PTL

(***************************************************************************)
(* No failure of a command and no death of a process makes a workspace     *)
(* without a "trees" scar forget a repository, but for those remove-repo   *)
(* was asked to remove, those a failing add-repo had just added, and all   *)
(* of them when the workspace is purged.                                   *)
(***************************************************************************)
THEOREM BindingsKeptCorrect == Spec /\ []OnlyAddsOverlap => BindingsKept
<1> DEFINE A == \A i \in Ws : "trees" \notin scars[i] =>
                    Bindings(i) \subseteq Bindings(i)' \cup Released(i)
<1>1. ASSUME SerialInv, TreesInv, OnlyAddsOverlap, OnlyAddsOverlap', [Next]_vars
      PROVE  A
  BY <1>1, NextTrees
<1>2. /\ SerialInv /\ TreesInv /\ OnlyAddsOverlap /\ OnlyAddsOverlap' /\ [Next]_vars
      => [A]_vars
  BY <1>1
<1> QED
  BY <1>2, SerialCorrect, TreesCorrect, PTL DEF Spec, BindingsKept


(***************************************************************************)
(* A process that is about to rename makes no other call.                  *)
(***************************************************************************)
LEMMA RenameNext ==
    ASSUME SerialInv, [Next]_vars, NEW p \in Proc,
           pc[p] = "close.rename", pc'[p] = "close.base"
    PROVE  CloseRename(p)
<1>1. pc \in [Proc -> Labels]
  BY DEF SerialInv, TypeOK
<1>2. ASSUME NEW q \in Proc, Start(q) PROVE FALSE
  <2>1. pc[q] = "idle" /\ \E l : pc' = [pc EXCEPT ![q] = l]
    BY <1>2 DEF Start
  <2> QED
    BY <1>1, <2>1
<1>3. ASSUME NEW q \in Proc, Crash(q) PROVE FALSE
  BY <1>1, <1>3 DEF Crash, Return
<1>4. ASSUME NEW q \in Proc, Step(q) PROVE q = p
  BY <1>4, StepGood DEF Good, OwnStep
<1>5. ASSUME Step(p) PROVE CloseRename(p)
  <2>1. ~CreateStep(p)
    BY DEF CreateStep, CreateStat, CreateMkdir, CreateFill, CreateBaseline,
           CreateCommit
  <2>2. ~GuardStep(p)
    BY DEF GuardStep, GuardLoad, GuardWrite
  <2>3. ~ReopenStep(p)
    BY DEF ReopenStep, ReopenStat, ReopenPreCommit, ReopenRename, ReopenLoad,
           ReopenAddTree, ReopenWriteMeta, ReopenBaseline, ReopenCommit
  <2>4. ~PurgeStep(p)
    BY DEF PurgeStep, PurgeCheck, PurgePreCommit, PurgeList, PurgeRemoveTree,
           PurgeDeleteWs, PurgeDeleteFiles, PurgeDeleteArc, PurgeBaseline, PurgeCommit
  <2>5. ~AddRepoStep(p)
    BY DEF AddRepoStep, AddPlan, AddTreeOf, AddLoadMeta, AddWriteMeta,
           AddRollback
  <2>6. ~RemoveRepoStep(p)
    BY DEF RemoveRepoStep, RemovePlan, RemoveTreeOf, RemoveLoadMeta,
           RemoveWriteMeta
  <2>7. CloseStep(p) => CloseRename(p)
    BY DEF CloseStep, CloseRisk, CloseScan, ClosePreCommit, CloseRemoveTree,
           CloseWriteMeta, CloseBaseline, CloseCommit
  <2> QED
    BY <1>5, <2>1, <2>2, <2>3, <2>4, <2>5, <2>6, <2>7 DEF Step
<1>6. ASSUME NEW i \in Ws, EditNote(i) \/ EditTree(i) PROVE FALSE
  BY <1>6 DEF EditNote, EditTree
<1>7. ~UNCHANGED vars
  BY DEF vars
<1> QED
  BY <1>2, <1>3, <1>4, <1>5, <1>6, <1>7 DEF Next

(***************************************************************************)
(* What close archives, reopen can restore, but for worktrees whose HEAD   *)
(* was detached: close renames a directory without worktrees, whose        *)
(* entries are complete and not on git's record.                           *)
(***************************************************************************)
THEOREM ArchivedReopenableCorrect ==
    Spec /\ []OnlyAddsOverlap => ArchivedReopenable
<1> DEFINE A == \A p \in Proc :
                  LET i == Id(p)
                      a == arc'[i]
                  IN  /\ pc[p] = "close.rename" /\ pc'[p] = "close.base"
                      /\ "trees" \notin scars[i]
                      => /\ a.trees = {}
                         /\ \A r \in Restorable(a.meta) :
                              /\ a.meta.restore[r] \in {"full", "headless"}
                              /\ <<r, i>> \notin reg'
<1>1. SerialInv /\ TreesInv /\ [Next]_vars => A
  <2> SUFFICES ASSUME SerialInv, TreesInv, [Next]_vars, NEW p \in Proc,
                      pc[p] = "close.rename", pc'[p] = "close.base",
                      "trees" \notin scars[Id(p)]
               PROVE  /\ arc'[Id(p)].trees = {}
                      /\ \A r \in Restorable(arc'[Id(p)].meta) :
                          /\ arc'[Id(p)].meta.restore[r] \in {"full", "headless"}
                          /\ <<r, Id(p)>> \notin reg'
    OBVIOUS
  <2>1. CloseRename(p)
    BY RenameNext
  <2>2. /\ Id(p) \in Ws /\ ws[Id(p)] \in Dir /\ ws[Id(p)].meta \in Meta
        /\ arc \in [Ws -> Dir] /\ pc \in [Proc -> Labels]
    BY Here DEF SerialInv, TypeOK
  <2>3. ~Return(p)
    BY <2>2 DEF Return
  <2>4. arc'[Id(p)] = ws[Id(p)] /\ reg' = reg
    BY <2>1, <2>2, <2>3 DEF CloseRename
  <2>5. /\ EntriesRight(ws[Id(p)].meta)
        /\ ws[Id(p)].trees = {} /\ OnRecord(ws[Id(p)], Id(p), reg)
    BY DEF TreesInv, Busy, LocalOf, Local, Sound, CloseTask
  <2>6. \A r \in Repo : ws[Id(p)].meta.restore[r] \in Entry
    BY <2>2 DEF Meta
  <2> QED
    BY <2>4, <2>5, <2>6 DEF Restorable, EntriesRight, OnRecord, Entry
<1> QED
  BY <1>1, SerialCorrect, TreesCorrect, PTL DEF Spec, ArchivedReopenable
-----------------------------------------------------------------------------
(***************************************************************************)
(* Purge in commit mode, with processes that die as well: from the commit  *)
(* of the archive to its deletion the last commit holds what is on disk.   *)
(***************************************************************************)
Doomed == {"purge.list", "purge.rm", "purge.delarc"}

Committed(p) ==
    job[p].opt /\ pc[p] \in Doomed => head[Id(p)].arc = Snap(arc[Id(p)])

PurgeInv == \A p \in Proc : Committed(p)

(***************************************************************************)
(* A command commits its own workspace only.                               *)
(***************************************************************************)
OwnCommit(p) == \A k \in Ws \ {Id(p)} : head'[k] = head[k]

(***************************************************************************)
(* No command but purge is ever about to delete an archive.                *)
(***************************************************************************)
LEMMA OthersNotDoomed ==
    ASSUME SerialInv, NEW p \in Proc,
           CreateStep(p) \/ GuardStep(p) \/ CloseStep(p) \/ ReopenStep(p)
           \/ AddRepoStep(p) \/ RemoveRepoStep(p)
    PROVE  pc'[p] \notin Doomed /\ OwnCommit(p)
<1>1. /\ pc \in [Proc -> Labels] /\ Id(p) \in Ws
      /\ head \in [Ws -> [ws : Snapshot, arc : Snapshot]]
  BY Here DEF SerialInv, TypeOK
<1>2. CASE CreateStep(p)
  BY <1>1, <1>2
     DEF CreateStep, CreateStat, CreateMkdir, CreateFill, CreateBaseline,
         CreateCommit, disk, Goto, Return, Doomed, OwnCommit
<1>3. CASE GuardStep(p)
  BY <1>1, <1>3 DEF GuardStep, GuardLoad, GuardWrite, disk, Goto, Return,
         Doomed, OwnCommit
<1>4. CASE CloseStep(p)
  <2>1. CASE CloseRisk(p) \/ CloseScan(p) \/ ClosePreCommit(p)
    BY <1>1, <2>1 DEF CloseRisk, CloseScan, ClosePreCommit, disk, Goto, Return,
                      Doomed, OwnCommit
  <2>2. CASE CloseRemoveTree(p) \/ CloseWriteMeta(p) \/ CloseRename(p)
    BY <1>1, <2>2 DEF CloseRemoveTree, CloseWriteMeta, CloseRename, Goto,
           Return,
                      Doomed, OwnCommit
  <2>3. CASE CloseBaseline(p) \/ CloseCommit(p)
    BY <1>1, <2>3 DEF CloseBaseline, CloseCommit, CommitBoth, Goto, Return,
                      Doomed, OwnCommit
  <2> QED
    BY <1>4, <2>1, <2>2, <2>3 DEF CloseStep
<1>5. CASE ReopenStep(p)
  <2>1. CASE ReopenStat(p) \/ ReopenPreCommit(p) \/ ReopenRename(p)
    BY <1>1, <2>1 DEF ReopenStat, ReopenPreCommit, ReopenRename, disk, Goto,
           Return,
                      Doomed, OwnCommit
  <2>2. CASE ReopenLoad(p) \/ ReopenAddTree(p) \/ ReopenWriteMeta(p)
    BY <1>1, <2>2 DEF ReopenLoad, ReopenAddTree, ReopenWriteMeta, Goto, Return,
                      Doomed, OwnCommit
  <2>3. CASE ReopenBaseline(p) \/ ReopenCommit(p)
    BY <1>1, <2>3 DEF ReopenBaseline, ReopenCommit, CommitBoth, Goto, Return,
                      Doomed, OwnCommit
  <2> QED
    BY <1>5, <2>1, <2>2, <2>3 DEF ReopenStep
<1>6. CASE AddRepoStep(p)
  BY <1>1, <1>6
     DEF AddRepoStep, AddPlan, AddTreeOf, AddLoadMeta, AddWriteMeta,
         AddRollback, disk, Goto, Return, Doomed, OwnCommit
<1>7. CASE RemoveRepoStep(p)
  BY <1>1, <1>7
     DEF RemoveRepoStep, RemovePlan, RemoveTreeOf, RemoveLoadMeta,
         RemoveWriteMeta, disk, Goto, Return, Doomed, OwnCommit
<1> QED
  BY <1>2, <1>3, <1>4, <1>5, <1>6, <1>7

(***************************************************************************)
(* Purge comes to the deletion by way of its commit.                       *)
(***************************************************************************)
LEMMA PurgeCommitted ==
    ASSUME SerialInv, NEW p \in Proc, Committed(p), PurgeStep(p)
    PROVE  Committed(p)' /\ OwnCommit(p)
<1> DEFINE i == Id(p)
<1>1. /\ pc \in [Proc -> Labels] /\ i \in Ws /\ job \in [Proc -> Job]
      /\ head \in [Ws -> [ws : Snapshot, arc : Snapshot]]
      /\ job[p] \in Job
  BY Here DEF SerialInv, TypeOK
<1>2. OwnCommit(p)
  <2>1. CASE head' = head
    BY <2>1 DEF OwnCommit
  <2>2. CASE PurgePreCommit(p)
    BY <1>1, <2>2 DEF PurgePreCommit, OwnCommit
  <2>3. CASE PurgeCommit(p)
    BY <1>1, <2>3 DEF PurgeCommit, CommitBoth, OwnCommit
  <2> QED
    BY <2>1, <2>2, <2>3
       DEF PurgeStep, PurgeCheck, PurgeList, PurgeRemoveTree, PurgeDeleteWs,
           PurgeDeleteFiles, PurgeDeleteArc, PurgeBaseline, disk
<1>3. CASE pc'[p] \notin Doomed
  BY <1>2, <1>3 DEF Committed
<1>4. CASE pc'[p] \in Doomed
  <2>1. ~Return(p)
    BY <1>1, <1>4 DEF Return, Doomed
  <2>2. CASE PurgeCheck(p)
    <3>1. /\ job' = job
          /\ pc'[p] = IF job[p].opt THEN "purge.pre" ELSE "purge.list"
      BY <1>1, <2>1, <2>2 DEF PurgeCheck, Goto
    <3> QED
      BY <1>2, <1>4, <3>1 DEF Committed, Doomed
  <2>3. CASE PurgePreCommit(p)
    <3>1. head' = [head EXCEPT ![i].arc = Snap(arc[i])] /\ job' = job /\ arc' = arc
      BY <2>1, <2>3 DEF PurgePreCommit
    <3>2. head'[i].arc = Snap(arc[i])
      BY <1>1, <3>1
    <3> QED
      BY <1>2, <3>1, <3>2 DEF Committed, Id, Snap
  <2>4. CASE PurgeList(p) \/ PurgeRemoveTree(p)
    <3>1. PICK t : job' = [job EXCEPT ![p].todo = t]
      BY <2>1, <2>4 DEF PurgeList, PurgeRemoveTree
    <3>2. job'[p] = [job[p] EXCEPT !.todo = t]
      BY <1>1, <3>1
    <3>3. job'[p].opt = job[p].opt /\ job'[p].id = i
      BY <1>1, <3>2 DEF Job, Id
    <3>4. head' = head /\ arc' = arc /\ pc[p] \in Doomed
      BY <2>4 DEF PurgeList, PurgeRemoveTree, disk, Doomed
    <3> QED
      BY <1>2, <3>3, <3>4 DEF Committed, Id, Snap
  <2>5. CASE PurgeDeleteWs(p)
    <3>1. head' = head /\ arc' = arc /\ job' = job /\ pc[p] \in Doomed
      BY <2>1, <2>5 DEF PurgeDeleteWs, Doomed
    <3> QED
      BY <1>2, <3>1 DEF Committed, Id, Snap
  <2>6. CASE \/ PurgeDeleteFiles(p) \/ PurgeDeleteArc(p)
             \/ PurgeBaseline(p) \/ PurgeCommit(p)
    BY <1>1, <1>4, <2>1, <2>6
       DEF PurgeDeleteFiles, PurgeDeleteArc, PurgeBaseline, PurgeCommit, Goto, Doomed
  <2> QED
    BY <2>2, <2>3, <2>4, <2>5, <2>6 DEF PurgeStep
<1> QED
  BY <1>3, <1>4

LEMMA NextPurge ==
    ASSUME OnlyAddsOverlap, SerialInv, PurgeInv, [Next]_vars
    PROVE  PurgeInv'
<1>1. ASSUME NEW p \in Proc, Step(p) \/ Crash(p)
      PROVE  PurgeInv'
  <2>1. OwnStep(p) /\ Turn(p) /\ Id(p) \in Ws
    BY <1>1, StepGood, StepTurn, Here DEF Good
  <2>2. Committed(p)' /\ OwnCommit(p)
    <3>1. CASE PurgeStep(p)
      BY <3>1, PurgeCommitted DEF PurgeInv
    <3>2. CASE Step(p) /\ ~PurgeStep(p)
      BY <3>2, OthersNotDoomed DEF Step, Committed
    <3>3. CASE Crash(p)
      <4>1. head' = head /\ pc'[p] = "idle"
        BY <3>3 DEF Crash, Return, SerialInv, TypeOK
      <4> QED
        BY <4>1 DEF Committed, Doomed, OwnCommit
    <3> QED
      BY <1>1, <3>1, <3>2, <3>3
  <2>3. ASSUME NEW q \in Proc \ {p} PROVE Committed(q)'
    <3>1. pc'[q] = pc[q] /\ job'[q] = job[q] /\ Committed(q) /\ Id(q)' = Id(q)
      BY <2>1 DEF OwnStep, PurgeInv, Id
    <3>2. CASE pc[q] \notin Doomed
      BY <3>1, <3>2 DEF Committed
    <3>3. CASE pc[q] \in Doomed
      <4>1. head'[Id(q)] = head[Id(q)] /\ arc'[Id(q)] = arc[Id(q)]
        <5>1. CASE Id(q) # Id(p)
          BY <2>1, <2>2, <5>1, Here DEF OwnCommit, OwnStep
        <5>2. Id(q) # Id(p)
          BY <2>1, <3>3 DEF OnlyAddsOverlap, OwnStep, Doomed, AddCalls
        <5> QED
          BY <5>1, <5>2
      <4> QED
        BY <3>1, <4>1 DEF Committed, Snap
    <3> QED
      BY <3>2, <3>3
  <2> QED
    BY <2>2, <2>3 DEF PurgeInv
<1>2. ASSUME NEW p \in Proc, Start(p)
      PROVE  PurgeInv'
  <2>1. PICK c \in Commands :
            /\ pc' = [pc EXCEPT ![p] = FirstCall(c)]
            /\ \E j : job' = [job EXCEPT ![p] = j]
    BY <1>2 DEF Start
  <2>2. /\ pc \in [Proc -> Labels] /\ job \in [Proc -> Job]
        /\ c \in AllCommands /\ head' = head /\ arc' = arc
    BY <1>2, ConstantsAssumption DEF SerialInv, TypeOK, Start, disk
  <2>3. pc'[p] \notin Doomed
    BY <2>1, <2>2 DEF FirstCall, AllCommands, Doomed
  <2>4. \A q \in Proc \ {p} : pc'[q] = pc[q] /\ job'[q] = job[q]
    BY <2>1, <2>2
  <2> QED
    BY <2>2, <2>3, <2>4 DEF PurgeInv, Committed, Id, Snap
<1>3. CASE pc' = pc /\ job' = job /\ head' = head /\ arc' = arc
  BY <1>3 DEF PurgeInv, Committed, Id, Snap
<1> QED
  BY <1>1, <1>2, <1>3 DEF Next, EditNote, EditTree, vars

(***************************************************************************)
(* In commit mode purge destroys nothing the last commit does not hold,    *)
(* also after purges that failed or died.                                  *)
(***************************************************************************)
THEOREM PurgeRecoverableCorrect == Spec /\ []OnlyAddsOverlap => PurgeRecoverable
<1>1. Init => PurgeInv
  BY DEF Init, PurgeInv, Committed, Doomed
<1>2. SerialInv /\ PurgeInv /\ OnlyAddsOverlap /\ [Next]_vars => PurgeInv'
  BY NextPurge
<1> DEFINE A == \A p \in Proc :
                  LET i == Id(p)
                  IN  /\ pc[p] = "purge.delarc" /\ job[p].opt
                      /\ HasMeta(arc[i]) /\ arc[i]' # arc[i]
                      => head[i].arc = Snap(arc[i])
<1>3. PurgeInv => A
  BY DEF PurgeInv, Committed, Doomed
<1> QED
  BY <1>1, <1>2, <1>3, SerialCorrect, PTL DEF Spec, PurgeRecoverable
=============================================================================
