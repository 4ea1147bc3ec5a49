---------------------------- MODULE CmuxMapping ----------------------------
(***************************************************************************)
(* The file that maps each workspace of a root to the cmux workspace it is *)
(* shown in, one to one, and the operations that keep it in step with      *)
(* cmux: open (one target, or several with worker goroutines that share    *)
(* the loaded mapping), the last part of ws close, list and switch.  cmux  *)
(* is external: its calls may fail, and the user closes cmux workspaces at *)
(* any time.  kra tells "not found" from other errors by the words in the  *)
(* message, which other errors have too (exec's "executable file not found *)
(* in $PATH"): such an error is misread.                                   *)
(*                                                                         *)
(* Abstractions: the mapping has at most one entry for a workspace, since  *)
(* open writes one; ordinals, titles and time stamps are left out.  One    *)
(* command runs at a time.  An identifier that nothing mentions any more   *)
(* may be given out again, which bounds Id and changes nothing else.       *)
(***************************************************************************)
CONSTANTS
    Key,        \* workspaces, and the root itself
    Id,         \* cmux workspace identifiers
    Worker      \* goroutines of a concurrent open

ASSUME CmuxAssumption ==
    /\ \E v, w \in Worker : v # w
    /\ "none" \notin Key \cup Id

VARIABLES
    file,       \* file[k]: the cmux workspace of k in the file, or "none"
    owner,      \* owner[i]: what the cmux workspace i was made for, or "none"
                \* when it does not exist
    mapping,    \* the mapping in memory
    cli,        \* the command
    worker,     \* worker[v]: the target of v and how far it is
    lost        \* history: cmux workspaces made by an open that has failed, or
                \* whose entry was dropped for an error that was misread

vars == <<file, owner, mapping, cli, worker, lost>>

Live == {i \in Id : owner[i] # "none"}

Entries(m) == {m[k] : k \in Key} \ {"none"}

NoMapping == [k \in Key |-> "none"]

NoCommand == [pc |-> "idle", cmd |-> "none", todo |-> {}, key |-> "none",
              team |-> {}, done |-> FALSE]

Resting == [pc |-> "idle", key |-> "none", id |-> "none"]

(***************************************************************************)
(* The cmux workspaces the running command knows of.                       *)
(***************************************************************************)
InProgress == Entries(mapping) \cup ({worker[v].id : v \in Worker} \ {"none"})

Fresh == Id \ (Live \cup Entries(file) \cup InProgress)

Init ==
    /\ file = NoMapping
    /\ owner = [i \in Id |-> "none"]
    /\ mapping = NoMapping
    /\ cli = NoCommand
    /\ worker = [v \in Worker |-> Resting]
    /\ lost = {}
-----------------------------------------------------------------------------
(***************************************************************************)
(* Steps of the command                                                    *)
(***************************************************************************)
Idle == cli.pc = "idle"

Goto(l) == cli' = [cli EXCEPT !.pc = l]

(***************************************************************************)
(* The command is over, and forgets what it has not saved.                 *)
(***************************************************************************)
Return ==
    /\ cli' = NoCommand
    /\ mapping' = NoMapping
    /\ worker' = [v \in Worker |-> Resting]

(***************************************************************************)
(* open takes distinct targets: one after the other, or with --multi and a *)
(* --concurrency above one with several goroutines.                        *)
(***************************************************************************)
Start ==
    /\ Idle
    /\ \/ \E ts \in SUBSET Key \ {{}} :
          \E team \in {{CHOOSE v \in Worker : TRUE}, Worker} :
             cli' = [NoCommand EXCEPT !.pc = "load", !.cmd = "open",
                                      !.todo = ts, !.team = team]
       \/ \E k \in Key : cli' = [NoCommand EXCEPT !.pc = "load",
                                                  !.cmd = "close", !.key = k]
       \/ cli' = [NoCommand EXCEPT !.pc = "load", !.cmd = "list"]
       \/ \E k \in Key : cli' = [NoCommand EXCEPT !.pc = "load",
                                                  !.cmd = "switch", !.key = k]
    /\ UNCHANGED <<file, owner, mapping, worker, lost>>

(***************************************************************************)
(* A process that dies, or that cannot load or save the mapping, leaves    *)
(* the file alone, and cmux workspaces that no file names.                 *)
(***************************************************************************)
Abandon ==
    /\ ~Idle
    /\ Return
    /\ lost' = lost \cup ((InProgress \cap Live) \ Entries(file))
    /\ UNCHANGED <<file, owner>>

Load ==
    /\ cli.pc = "load"
    /\ mapping' = file
    /\ Goto(CASE cli.cmd = "open" -> "run"
              [] cli.cmd = "close" /\ file[cli.key] # "none" -> "close"
              [] cli.cmd = "close" -> "end"
              [] OTHER -> "list")
    /\ UNCHANGED <<file, owner, worker, lost>>

Save ==
    /\ cli.pc = "save"
    /\ file' = mapping
    /\ Return
    /\ UNCHANGED <<owner, lost>>

End ==
    /\ cli.pc = "end"
    /\ Return
    /\ UNCHANGED <<file, owner, lost>>
-----------------------------------------------------------------------------
(***************************************************************************)
(* open: the work of one goroutine on one target                           *)
(***************************************************************************)
At(v, l) == worker[v].pc = l

Step(v, l) == worker' = [worker EXCEPT ![v].pc = l]

(***************************************************************************)
(* The first entry of the target decides; with none a workspace is made.   *)
(***************************************************************************)
Take(v) ==
    /\ cli.pc = "run" /\ v \in cli.team /\ At(v, "idle")
    /\ \E k \in cli.todo :
        /\ cli' = [cli EXCEPT !.todo = @ \ {k}]
        /\ worker' = [worker EXCEPT ![v] =
              [pc |-> IF mapping[k] = "none" THEN "create" ELSE "identify",
               key |-> k, id |-> mapping[k]]]
    /\ UNCHANGED <<file, owner, mapping, lost>>

(***************************************************************************)
(* Faulty variant: a goroutine that has failed takes no further target.    *)
(***************************************************************************)
FailAndQuit(v) ==
    /\ worker' = [worker EXCEPT ![v] = Resting]
    /\ cli' = [cli EXCEPT !.team = @ \ {v}]
    /\ lost' = lost \cup ({worker[v].id} \cap (Live \ Entries(file)))
    /\ UNCHANGED <<file, owner, mapping>>

(***************************************************************************)
(* The target fails: the only goroutine of a sequential open gives up, the *)
(* others go on with the next target.  A cmux workspace that was made for  *)
(* it stays.                                                               *)
(***************************************************************************)
Fail(v) ==
    /\ worker' = [worker EXCEPT ![v] = Resting]
    /\ cli' = IF cli.team = Worker THEN cli ELSE [cli EXCEPT !.todo = {}]
    /\ lost' = lost \cup ({worker[v].id} \cap (Live \ Entries(file)))
    /\ UNCHANGED <<file, owner, mapping>>

(***************************************************************************)
(* The target succeeds with the cmux workspace of v.                       *)
(***************************************************************************)
Succeed(v) ==
    /\ mapping' = [mapping EXCEPT ![worker[v].key] = worker[v].id]
    /\ worker' = [worker EXCEPT ![v] = Resting]
    /\ cli' = [cli EXCEPT !.done = TRUE]
    /\ UNCHANGED <<file, owner, lost>>

(***************************************************************************)
(* cmux says that the mapped workspace does not exist: the entry goes.     *)
(***************************************************************************)
Forget(v) ==
    /\ mapping' = [mapping EXCEPT ![worker[v].key] = "none"]
    /\ worker' = [worker EXCEPT ![v].pc = "create", ![v].id = "none"]
    /\ UNCHANGED <<file, owner, cli, lost>>

(***************************************************************************)
(* The call fails with an error that reads like not found: the entry goes  *)
(* although the cmux workspace may be there.                               *)
(***************************************************************************)
Misread(v) ==
    /\ mapping' = [mapping EXCEPT ![worker[v].key] = "none"]
    /\ worker' = [worker EXCEPT ![v].pc = "create", ![v].id = "none"]
    /\ lost' = lost \cup ({worker[v].id} \cap Live)
    /\ UNCHANGED <<file, owner, cli>>

(***************************************************************************)
(* Faulty variant: any error counts as not found.                          *)
(***************************************************************************)
IdentifyOrForget(v) ==
    /\ At(v, "identify")
    /\ \/ /\ worker[v].id \in Live
          /\ Step(v, "switch")
          /\ UNCHANGED <<file, owner, mapping, cli, lost>>
       \/ Forget(v)

(***************************************************************************)
(* cmux identify: it exists, it is not found, or the call fails, in a way  *)
(* that is misread or not (IsNotFoundError).                               *)
(***************************************************************************)
Identify(v) ==
    /\ At(v, "identify")
    /\ \/ /\ worker[v].id \in Live
          /\ Step(v, "switch")
          /\ UNCHANGED <<file, owner, mapping, cli, lost>>
       \/ worker[v].id \notin Live /\ Forget(v)
       \/ Misread(v)
       \/ Fail(v)

SwitchTo(v) ==
    /\ At(v, "switch")
    /\ \/ worker[v].id \in Live /\ Succeed(v)
       \/ worker[v].id \notin Live /\ Forget(v)
       \/ Misread(v)
       \/ Fail(v)

(***************************************************************************)
(* cmux new-workspace.                                                     *)
(***************************************************************************)
Create(v) ==
    /\ At(v, "create")
    /\ \/ /\ Fresh # {}
          /\ LET i == CHOOSE j \in Fresh : TRUE
             IN  /\ owner' = [owner EXCEPT ![i] = worker[v].key]
                 /\ worker' = [worker EXCEPT ![v].pc = "rename", ![v].id = i]
          /\ UNCHANGED <<file, mapping, cli, lost>>
       \/ Fail(v)

(***************************************************************************)
(* Title, selection and status of the new cmux workspace.                  *)
(***************************************************************************)
Dress(v) ==
    \/ /\ worker[v].id \in Live
       /\ \/ At(v, "rename") /\ Step(v, "select")
          \/ At(v, "select") /\ Step(v, "status")
       /\ UNCHANGED <<file, owner, mapping, cli, lost>>
    \/ At(v, "status") /\ worker[v].id \in Live /\ Succeed(v)
    \/ worker[v].pc \in {"rename", "select", "status"} /\ Fail(v)

openOne(v) == Identify(v) \/ SwitchTo(v) \/ Create(v) \/ Dress(v)

(***************************************************************************)
(* All targets are done: the mapping is saved if one of them succeeded.    *)
(***************************************************************************)
Collect ==
    /\ cli.pc = "run" /\ cli.todo = {}
    /\ \A v \in Worker : At(v, "idle")
    /\ Goto(IF cli.done THEN "save" ELSE "end")
    /\ UNCHANGED <<file, owner, mapping, worker, lost>>
-----------------------------------------------------------------------------
(***************************************************************************)
(* Faulty variant: the entry goes even if the call fails.                  *)
(***************************************************************************)
CloseMappedAnyway ==
    /\ cli.pc = "close"
    /\ LET i == mapping[cli.key]
       IN  /\ \/ /\ owner' = [owner EXCEPT ![i] = "none"]
                 /\ lost' = lost \ {i}
              \/ UNCHANGED <<owner, lost>>
           /\ mapping' = [mapping EXCEPT ![cli.key] = "none"]
           /\ Goto("save")
    /\ UNCHANGED <<file, worker>>

(***************************************************************************)
(* ws close: close the cmux workspace, then drop the entry.  An error that *)
(* does not read like not found keeps it (isCMUXWorkspaceNotFoundError).   *)
(***************************************************************************)
CloseMapped ==
    /\ cli.pc = "close"
    /\ LET i == mapping[cli.key]
       IN  \/ /\ owner' = [owner EXCEPT ![i] = "none"]
              /\ lost' = lost \ {i}
              /\ mapping' = [mapping EXCEPT ![cli.key] = "none"]
              /\ Goto("save")
           \/ /\ lost' = lost \cup ({i} \cap Live)
              /\ mapping' = [mapping EXCEPT ![cli.key] = "none"]
              /\ Goto("save")
              /\ UNCHANGED owner
           \/ /\ Goto("end")
              /\ UNCHANGED <<owner, lost, mapping>>
    /\ UNCHANGED <<file, worker>>
-----------------------------------------------------------------------------
(***************************************************************************)
(* list and switch                                                         *)
(***************************************************************************)
Pruned(m, gone) == [k \in Key |-> IF m[k] \in gone THEN "none" ELSE m[k]]

(***************************************************************************)
(* What follows once the mapping has been reconciled, and saved if an      *)
(* entry went.                                                             *)
(***************************************************************************)
AfterList == IF cli.cmd = "list" THEN "end" ELSE "select"

(***************************************************************************)
(* Faulty variant: an empty list counts like any other.                    *)
(***************************************************************************)
ListAndPrune ==
    /\ cli.pc = "list"
    /\ \E listed \in {Live, {}} :
        LET m == Pruned(mapping, Id \ listed)
        IN  mapping' = m /\ file' = m
    /\ Goto(AfterList)
    /\ UNCHANGED <<owner, worker, lost>>

(***************************************************************************)
(* cmux list-workspaces.  A list, which may hold workspaces that are not   *)
(* ours, prunes the entries it lacks; an empty one, which may come from a  *)
(* cmux that does not answer properly, prunes nothing; a call that fails   *)
(* is passed over.                                                         *)
(***************************************************************************)
ReconcileMappingWithRuntime ==
    /\ cli.pc = "list"
    /\ \/ LET m == Pruned(mapping, Id \ Live)
          IN  /\ mapping' = m /\ file' = IF m # mapping THEN m ELSE file
              /\ Goto(AfterList)
       \/ /\ Goto(IF cli.cmd = "list" THEN "probe" ELSE "select")
          /\ UNCHANGED <<mapping, file>>
       \/ Goto(AfterList) /\ UNCHANGED <<mapping, file>>
    /\ UNCHANGED <<owner, worker, lost>>

(***************************************************************************)
(* list, after an empty list: ask for each entry.  Those that are not      *)
(* found or whose error is misread go; those that exist or for which the   *)
(* call fails otherwise stay.                                              *)
(***************************************************************************)
probeAndPruneByID ==
    /\ cli.pc = "probe"
    /\ \E gone \in SUBSET Entries(mapping) :
        /\ mapping' = Pruned(mapping, gone)
        /\ file' = IF gone # {} THEN Pruned(mapping, gone) ELSE file
        /\ lost' = lost \cup (gone \cap Live)
    /\ Goto("end")
    /\ UNCHANGED <<owner, worker>>

(***************************************************************************)
(* switch: select the entry, and save its time of use.                     *)
(***************************************************************************)
SwitchEntry ==
    /\ cli.pc = "select"
    /\ \/ mapping[cli.key] \in Live /\ Goto("save")
       \/ Goto("end")
    /\ UNCHANGED <<file, owner, mapping, worker, lost>>
-----------------------------------------------------------------------------
(***************************************************************************)
(* The user closes a cmux workspace.                                       *)
(***************************************************************************)
UserCloses(i) ==
    /\ i \in Live
    /\ owner' = [owner EXCEPT ![i] = "none"]
    /\ lost' = lost \ {i}
    /\ UNCHANGED <<file, mapping, cli, worker>>

CommandStep ==
    \/ Load \/ Save \/ End \/ Collect
    \/ CloseMapped \/ ReconcileMappingWithRuntime \/ probeAndPruneByID
    \/ SwitchEntry

WorkerStep(v) == Take(v) \/ openOne(v)

Next ==
    \/ Start \/ CommandStep \/ Abandon
    \/ \E v \in Worker : WorkerStep(v)
    \/ \E i \in Id : UserCloses(i)

Spec == Init /\ [][Next]_vars

(***************************************************************************)
(* Goroutines are scheduled, and a call of cmux returns in the end.        *)
(***************************************************************************)
FairSpec ==
    /\ Spec
    /\ WF_vars(CommandStep)
    /\ \A v \in Worker : WF_vars(WorkerStep(v))
-----------------------------------------------------------------------------
(***************************************************************************)
(* Properties                                                              *)
(***************************************************************************)

(***************************************************************************)
(* docs/spec/commands/ws/open.md, the 1:1 policy, as far as no open fails  *)
(* and no error is misread: of the cmux workspaces of one workspace all    *)
(* but one are left by an open that failed, or lost their entry to an      *)
(* error that reads like not found, whatever the user closes, whichever    *)
(* calls fail, and however the goroutines of an open interleave.           *)
(***************************************************************************)
OneToOne ==
    \A i, j \in Live \ lost : owner[i] = owner[j] => i = j

(***************************************************************************)
(* Every cmux workspace that kra has made is named by the file, or is in   *)
(* the hands of the running command, or comes from an open that failed, or *)
(* lost its entry to an error that reads like not found: an open of        *)
(* several targets, some of which fail, keeps those that did not, and a    *)
(* close that fails for another reason keeps the entry.                    *)
(***************************************************************************)
AccountedFor ==
    Live \subseteq Entries(file) \cup InProgress \cup lost

(***************************************************************************)
(* An entry leaves the file only when its cmux workspace is gone or when   *)
(* an error was misread: every other call that fails, an empty list, and   *)
(* the entries that other goroutines and other commands write keep it.     *)
(***************************************************************************)
EntriesKept ==
    [][\A k \in Key :
        file[k] # "none" /\ file'[k] # file[k]
        => file[k] \notin Live \/ file[k] \in lost']_vars

(***************************************************************************)
(* Every command ends: the goroutines of an open take all targets, the     *)
(* failed ones included.                                                   *)
(***************************************************************************)
CommandEnds == [](~Idle => <>Idle)
=============================================================================
