-------------------------- MODULE CmuxMappingProofs --------------------------
(***************************************************************************)
(* The mapping to cmux workspaces is one to one, accounts for what kra has *)
(* made and keeps its entries, for any number of workspaces, identifiers   *)
(* and goroutines.                                                         *)
(***************************************************************************)
EXTENDS CmuxMapping, TLAPS

Entry == Id \cup {"none"}
Mappings == [Key -> Entry]

(***************************************************************************)
(* Where a goroutine is: looking at the entry of its target, or without an *)
(* entry and before or after it has made a cmux workspace.                 *)
(***************************************************************************)
Looking == {"identify", "switch"}
Dressing == {"rename", "select", "status"}

Types ==
    /\ file \in Mappings
    /\ owner \in [Id -> Key \cup {"none"}]
    /\ mapping \in Mappings
    /\ cli \in [pc : {"idle", "load", "run", "save", "end", "close", "list",
                      "probe", "select"},
                cmd : {"none", "open", "close", "list", "switch"},
                todo : SUBSET Key, key : Key \cup {"none"},
                team : SUBSET Worker, done : BOOLEAN]
    /\ worker \in [Worker -> [pc : {"idle", "create"} \cup Looking \cup Dressing,
                              key : Key \cup {"none"}, id : Entry]]

(***************************************************************************)
(* What the mapping in memory has to do with the one in the file: nothing  *)
(* before it is loaded; the same until an operation changes it; and after  *)
(* that an entry of the file differs only if its cmux workspace is gone or *)
(* an error was misread.                                                   *)
(***************************************************************************)
Loaded == cli.pc \notin {"idle", "load"}

MemoryInv ==
    /\ ~Loaded => mapping = NoMapping
    /\ cli.pc \in {"close", "list", "probe", "select"} => mapping = file
    /\ cli.pc = "close" => cli.key \in Key /\ mapping[cli.key] # "none"
    /\ cli.pc = "end" \/ (cli.pc = "run" /\ ~cli.done) =>
         \A k \in Key : mapping[k] \in {file[k], "none"}

EntryInv ==
    Loaded => \A k \in Key :
        file[k] # "none" /\ mapping[k] # file[k] => file[k] \notin Live \ lost

(***************************************************************************)
(* Goroutines have different targets, and what they hold fits the entry of *)
(* the target.                                                             *)
(***************************************************************************)
Holds(v) ==
    LET t == worker[v]
    IN  /\ t.pc = "idle" => t.id = "none"
        /\ t.pc # "idle" => cli.pc = "run" /\ t.key \in Key \ cli.todo
        /\ t.pc \in Looking => t.id \in Id /\ mapping[t.key] = t.id
        /\ t.pc = "create" => t.id = "none" /\ mapping[t.key] = "none"
        /\ t.pc \in Dressing => t.id \in Id /\ mapping[t.key] = "none"

WorkerInv ==
    /\ \A v \in Worker : Holds(v)
    /\ \A v, w \in Worker :
         worker[v].pc # "idle" /\ worker[w].pc # "idle" /\ worker[v].key = worker[w].key
         => v = w

(***************************************************************************)
(* What an entry or a goroutine names was made for its workspace, as long  *)
(* as it exists.                                                           *)
(***************************************************************************)
OwnerInv ==
    /\ \A k \in Key : file[k] \in Live => owner[file[k]] = k
    /\ \A k \in Key : mapping[k] \in Live => owner[mapping[k]] = k
    /\ \A v \in Worker : worker[v].id \in Live => owner[worker[v].id] = worker[v].key

CmuxInv == Types /\ MemoryInv /\ EntryInv /\ WorkerInv /\ OwnerInv /\ AccountedFor
-----------------------------------------------------------------------------
LEMMA InitCmuxInv == Init => CmuxInv
BY CmuxAssumption DEF Init, NoCommand, Resting, CmuxInv, Types, MemoryInv,
       EntryInv, WorkerInv, Holds, OwnerInv, AccountedFor, Loaded, Live,
       Entries, InProgress, Entry, Mappings, Looking, Dressing, NoMapping

(***************************************************************************)
(* Steps of the command.                                                   *)
(***************************************************************************)
LEMMA StartCmuxInv ==
    ASSUME CmuxInv, Start
    PROVE  CmuxInv'
<1>a. /\ cli.pc = "idle" /\ cli'.pc = "load" /\ UNCHANGED <<file, owner, mapping, worker, lost>>
      /\ cli' \in [pc : {"load"}, cmd : {"open", "close", "list", "switch"},
                   todo : SUBSET Key, key : Key \cup {"none"},
                   team : SUBSET Worker, done : {FALSE}]
  <2>1. CASE \E ts \in SUBSET Key \ {{}} :
             \E team \in {{CHOOSE v \in Worker : TRUE}, Worker} :
               cli' = [NoCommand EXCEPT !.pc = "load", !.cmd = "open",
                                        !.todo = ts, !.team = team]
    <3>1. (CHOOSE v \in Worker : TRUE) \in Worker
      BY CmuxAssumption
    <3>2. PICK ts \in SUBSET Key, team \in SUBSET Worker :
             cli' = [NoCommand EXCEPT !.pc = "load", !.cmd = "open",
                                      !.todo = ts, !.team = team]
      BY <2>1, <3>1
    <3> QED
      BY <3>2 DEF Start, NoCommand, Idle
  <2>2. CASE \E k \in Key : cli' = [NoCommand EXCEPT !.pc = "load",
                                                    !.cmd = "close", !.key = k]
    BY <2>2 DEF Start, NoCommand, Idle
  <2>3. CASE cli' = [NoCommand EXCEPT !.pc = "load", !.cmd = "list"]
    BY <2>3 DEF Start, NoCommand, Idle
  <2>4. CASE \E k \in Key : cli' = [NoCommand EXCEPT !.pc = "load",
                                                    !.cmd = "switch", !.key = k]
    BY <2>4 DEF Start, NoCommand, Idle
  <2> QED
    BY <2>1, <2>2, <2>3, <2>4 DEF Start
<1>1. Types'
  BY <1>a DEF CmuxInv, Types, Mappings, Entry
<1>2. MemoryInv'
  BY <1>a DEF CmuxInv, Types, MemoryInv, Loaded
<1>3. EntryInv'
  BY <1>a DEF CmuxInv, EntryInv, Loaded, Live
<1>4. WorkerInv'
  BY <1>a DEF CmuxInv, Types, WorkerInv, Holds
<1>5. OwnerInv'
  BY <1>a DEF CmuxInv, Types, OwnerInv, Live
<1>6. AccountedFor'
  BY <1>a DEF CmuxInv, Types, AccountedFor, Live, Entries, InProgress
<1> QED
  BY <1>1, <1>2, <1>3, <1>4, <1>5, <1>6 DEF CmuxInv

LEMMA AbandonCmuxInv ==
    ASSUME CmuxInv, Abandon
    PROVE  CmuxInv'
<1>1. Types'
  BY CmuxAssumption DEF CmuxInv, Types, WorkerInv, Holds, Mappings, Entry,
         NoMapping, Looking, Dressing, Live, Abandon, Idle, Return, NoCommand,
         Resting
<1>2. MemoryInv'
  BY DEF CmuxInv, Types, MemoryInv, Loaded, Abandon, Idle, Return, NoCommand,
         Resting
<1>3. EntryInv'
  BY DEF CmuxInv, EntryInv, Loaded, Live, Abandon, Idle, Return, NoCommand,
         Resting
<1>4. WorkerInv'
  BY DEF CmuxInv, Types, WorkerInv, Holds, Looking, Dressing, Abandon, Idle,
         Return, NoCommand, Resting
<1>5. OwnerInv'
  BY CmuxAssumption DEF CmuxInv, Types, MemoryInv, OwnerInv, WorkerInv, Holds,
         Live, NoMapping, Mappings, Entry, Looking, Dressing, Entries,
         InProgress, Abandon, Idle, Return, NoCommand, Resting
<1>6. AccountedFor'
  BY DEF CmuxInv, Types, AccountedFor, Live, Entries, InProgress, Abandon,
         Idle, Return, NoCommand, Resting
<1> QED
  BY <1>1, <1>2, <1>3, <1>4, <1>5, <1>6 DEF CmuxInv

LEMMA LoadCmuxInv ==
    ASSUME CmuxInv, Load
    PROVE  CmuxInv'
<1>1. Types'
  BY DEF CmuxInv, Types, Mappings, Entry, Load, Goto
<1>2. MemoryInv'
  BY DEF CmuxInv, Types, MemoryInv, Loaded, Load, Goto
<1>3. EntryInv'
  BY DEF CmuxInv, EntryInv, Loaded, Live, Load, Goto
<1>4. WorkerInv'
  BY DEF CmuxInv, Types, WorkerInv, Holds, Looking, Dressing, Load, Goto
<1>5. OwnerInv'
  BY DEF CmuxInv, Types, OwnerInv, Live, Load, Goto
<1>6. AccountedFor'
  BY CmuxAssumption DEF CmuxInv, Types, MemoryInv, EntryInv, WorkerInv, Holds,
         OwnerInv, AccountedFor, Loaded, Live, Entries, InProgress, Entry,
         Mappings, Looking, Dressing, NoMapping, Load, Goto
<1> QED
  BY <1>1, <1>2, <1>3, <1>4, <1>5, <1>6 DEF CmuxInv

LEMMA SaveCmuxInv ==
    ASSUME CmuxInv, Save
    PROVE  CmuxInv'
<1>1. Types'
  BY CmuxAssumption DEF CmuxInv, Types, WorkerInv, Holds, Mappings, Entry,
         NoMapping, Looking, Dressing, Live, Save, Return, NoCommand, Resting
<1>2. MemoryInv'
  BY DEF CmuxInv, Types, MemoryInv, Loaded, Save, Return, NoCommand, Resting
<1>3. EntryInv'
  BY DEF CmuxInv, EntryInv, Loaded, Live, Save, Return, NoCommand, Resting
<1>4. WorkerInv'
  BY DEF CmuxInv, Types, WorkerInv, Holds, Looking, Dressing, Save, Return,
         NoCommand, Resting
<1>5. OwnerInv'
  BY CmuxAssumption DEF CmuxInv, Types, MemoryInv, OwnerInv, WorkerInv, Holds,
         Live, NoMapping, Mappings, Entry, Looking, Dressing, Entries,
         InProgress, Save, Return, NoCommand, Resting
<1>6. AccountedFor'
  BY CmuxAssumption DEF CmuxInv, Types, MemoryInv, EntryInv, WorkerInv, Holds,
         OwnerInv, AccountedFor, Loaded, Live, Entries, InProgress, Entry,
         Mappings, Looking, Dressing, NoMapping, Save, Return, NoCommand,
         Resting
<1> QED
  BY <1>1, <1>2, <1>3, <1>4, <1>5, <1>6 DEF CmuxInv

LEMMA EndCmuxInv ==
    ASSUME CmuxInv, End
    PROVE  CmuxInv'
<1>1. Types'
  BY CmuxAssumption DEF CmuxInv, Types, WorkerInv, Holds, Mappings, Entry,
         NoMapping, Looking, Dressing, Live, End, Return, NoCommand, Resting
<1>2. MemoryInv'
  BY DEF CmuxInv, Types, MemoryInv, Loaded, End, Return, NoCommand, Resting
<1>3. EntryInv'
  BY DEF CmuxInv, EntryInv, Loaded, Live, End, Return, NoCommand, Resting
<1>4. WorkerInv'
  BY DEF CmuxInv, Types, WorkerInv, Holds, Looking, Dressing, End, Return,
         NoCommand, Resting
<1>5. OwnerInv'
  BY CmuxAssumption DEF CmuxInv, Types, MemoryInv, OwnerInv, WorkerInv, Holds,
         Live, NoMapping, Mappings, Entry, Looking, Dressing, Entries,
         InProgress, End, Return, NoCommand, Resting
<1>6. AccountedFor'
  BY CmuxAssumption DEF CmuxInv, Types, MemoryInv, AccountedFor, WorkerInv,
         Holds, Live, NoMapping, Mappings, Entry, Looking, Dressing, Entries,
         InProgress, End, Return, NoCommand, Resting
<1> QED
  BY <1>1, <1>2, <1>3, <1>4, <1>5, <1>6 DEF CmuxInv

LEMMA CollectCmuxInv ==
    ASSUME CmuxInv, Collect
    PROVE  CmuxInv'
<1>1. Types'
  BY DEF CmuxInv, Types, Mappings, Entry, Collect, At, Goto
<1>2. MemoryInv'
  BY DEF CmuxInv, Types, MemoryInv, Loaded, Collect, At, Goto
<1>3. EntryInv'
  BY DEF CmuxInv, EntryInv, Loaded, Live, Collect, At, Goto
<1>4. WorkerInv'
  BY DEF CmuxInv, Types, WorkerInv, Holds, Collect, At, Goto
<1>5. OwnerInv'
  BY DEF CmuxInv, Types, OwnerInv, Live, Collect, At, Goto
<1>6. AccountedFor'
  BY DEF CmuxInv, Types, AccountedFor, Live, Entries, InProgress, Collect, At,
         Goto
<1> QED
  BY <1>1, <1>2, <1>3, <1>4, <1>5, <1>6 DEF CmuxInv

LEMMA CloseMappedCmuxInv ==
    ASSUME CmuxInv, CloseMapped
    PROVE  CmuxInv'
<1>1. Types'
  BY DEF CmuxInv, Types, Mappings, Entry, CloseMapped, Goto
<1>2. MemoryInv'
  BY DEF CmuxInv, Types, MemoryInv, Loaded, CloseMapped, Goto
<1>3. EntryInv'
  BY CmuxAssumption DEF CmuxInv, Types, MemoryInv, EntryInv, WorkerInv, Holds,
         Loaded, Live, Mappings, Entry, Looking, Dressing, CloseMapped, Goto
<1>4. WorkerInv'
  BY DEF CmuxInv, Types, WorkerInv, Holds, Looking, Dressing, CloseMapped, Goto
<1>5. OwnerInv'
  BY CmuxAssumption DEF CmuxInv, Types, MemoryInv, OwnerInv, WorkerInv, Holds,
         Live, NoMapping, Mappings, Entry, Looking, Dressing, Entries,
         InProgress, CloseMapped, Goto
<1>6. AccountedFor'
  BY CmuxAssumption DEF CmuxInv, Types, MemoryInv, AccountedFor, WorkerInv,
         Holds, Live, NoMapping, Mappings, Entry, Looking, Dressing, Entries,
         InProgress, CloseMapped, Goto
<1> QED
  BY <1>1, <1>2, <1>3, <1>4, <1>5, <1>6 DEF CmuxInv

LEMMA ReconcileCmuxInv ==
    ASSUME CmuxInv, ReconcileMappingWithRuntime
    PROVE  CmuxInv'
<1>1. Types'
  BY DEF CmuxInv, Types, Mappings, Entry, ReconcileMappingWithRuntime, Goto,
         AfterList, Pruned
<1>2. MemoryInv'
  BY DEF CmuxInv, Types, MemoryInv, Loaded, ReconcileMappingWithRuntime, Goto,
         AfterList, Pruned
<1>3. EntryInv'
  BY DEF CmuxInv, EntryInv, Loaded, Live, ReconcileMappingWithRuntime, Goto,
         AfterList, Pruned
<1>4. WorkerInv'
  BY DEF CmuxInv, Types, WorkerInv, Holds, Looking, Dressing,
         ReconcileMappingWithRuntime, Goto, AfterList, Pruned
<1>5. OwnerInv'
  BY CmuxAssumption DEF CmuxInv, Types, MemoryInv, OwnerInv, WorkerInv, Holds,
         Live, NoMapping, Mappings, Entry, Looking, Dressing, Entries,
         InProgress, ReconcileMappingWithRuntime, Goto, AfterList, Pruned
<1>6. AccountedFor'
  BY CmuxAssumption DEF CmuxInv, Types, MemoryInv, AccountedFor, WorkerInv,
         Holds, Live, NoMapping, Mappings, Entry, Looking, Dressing, Entries,
         InProgress, ReconcileMappingWithRuntime, Goto, AfterList, Pruned
<1> QED
  BY <1>1, <1>2, <1>3, <1>4, <1>5, <1>6 DEF CmuxInv

LEMMA ProbeCmuxInv ==
    ASSUME CmuxInv, probeAndPruneByID
    PROVE  CmuxInv'
<1>1. Types'
  BY DEF CmuxInv, Types, Mappings, Entry, probeAndPruneByID, Goto, Pruned
<1>2. MemoryInv'
  BY DEF CmuxInv, Types, MemoryInv, Loaded, probeAndPruneByID, Goto, Pruned
<1>3. EntryInv'
  BY DEF CmuxInv, EntryInv, Loaded, Live, probeAndPruneByID, Goto, Pruned
<1>4. WorkerInv'
  BY DEF CmuxInv, Types, WorkerInv, Holds, Looking, Dressing,
         probeAndPruneByID, Goto, Pruned
<1>5. OwnerInv'
  BY CmuxAssumption DEF CmuxInv, Types, MemoryInv, OwnerInv, WorkerInv, Holds,
         Live, NoMapping, Mappings, Entry, Looking, Dressing, Entries,
         InProgress, probeAndPruneByID, Goto, Pruned
<1>6. AccountedFor'
  BY CmuxAssumption DEF CmuxInv, Types, MemoryInv, AccountedFor, WorkerInv,
         Holds, Live, NoMapping, Mappings, Entry, Looking, Dressing, Entries,
         InProgress, probeAndPruneByID, Goto, Pruned
<1> QED
  BY <1>1, <1>2, <1>3, <1>4, <1>5, <1>6 DEF CmuxInv

LEMMA SwitchEntryCmuxInv ==
    ASSUME CmuxInv, SwitchEntry
    PROVE  CmuxInv'
<1>1. Types'
  BY DEF CmuxInv, Types, Mappings, Entry, SwitchEntry, Goto
<1>2. MemoryInv'
  BY DEF CmuxInv, Types, MemoryInv, Loaded, SwitchEntry, Goto
<1>3. EntryInv'
  BY DEF CmuxInv, EntryInv, Loaded, Live, SwitchEntry, Goto
<1>4. WorkerInv'
  BY DEF CmuxInv, Types, WorkerInv, Holds, SwitchEntry, Goto
<1>5. OwnerInv'
  BY DEF CmuxInv, Types, OwnerInv, Live, SwitchEntry, Goto
<1>6. AccountedFor'
  BY DEF CmuxInv, Types, AccountedFor, Live, Entries, InProgress, SwitchEntry,
         Goto
<1> QED
  BY <1>1, <1>2, <1>3, <1>4, <1>5, <1>6 DEF CmuxInv

(***************************************************************************)
(* Steps of a goroutine.                                                   *)
(***************************************************************************)
LEMMA TakeCmuxInv ==
    ASSUME CmuxInv, NEW v \in Worker, Take(v)
    PROVE  CmuxInv'
<1>1. Types'
  BY CmuxAssumption DEF CmuxInv, Types, WorkerInv, Holds, Mappings, Entry,
         NoMapping, Looking, Dressing, Live, Take, At
<1>2. MemoryInv'
  BY DEF CmuxInv, Types, MemoryInv, Loaded, Take, At
<1>3. EntryInv'
  BY DEF CmuxInv, EntryInv, Loaded, Live, Take, At
<1>4. WorkerInv'
  BY CmuxAssumption DEF CmuxInv, Types, MemoryInv, WorkerInv, Holds, Loaded,
         Live, NoMapping, Mappings, Entry, Looking, Dressing, Take, At
<1>5. OwnerInv'
  BY DEF CmuxInv, Types, OwnerInv, Live, Take, At
<1>6. AccountedFor'
  BY CmuxAssumption DEF CmuxInv, Types, MemoryInv, AccountedFor, WorkerInv,
         Holds, Live, NoMapping, Mappings, Entry, Looking, Dressing, Entries,
         InProgress, Take, At
<1> QED
  BY <1>1, <1>2, <1>3, <1>4, <1>5, <1>6 DEF CmuxInv

LEMMA FailCmuxInv ==
    ASSUME CmuxInv, NEW v \in Worker, cli.pc = "run", Fail(v)
    PROVE  CmuxInv'
<1>1. Types'
  BY DEF CmuxInv, Types, Mappings, Entry, Fail, Resting
<1>2. MemoryInv'
  BY DEF CmuxInv, Types, MemoryInv, Loaded, Fail, Resting
<1>3. EntryInv'
  BY DEF CmuxInv, EntryInv, Loaded, Live, Fail, Resting
<1>4. WorkerInv'
  BY DEF CmuxInv, Types, WorkerInv, Holds, Looking, Dressing, Fail, Resting
<1>5. OwnerInv'
  BY CmuxAssumption DEF CmuxInv, Types, MemoryInv, OwnerInv, WorkerInv, Holds,
         Live, NoMapping, Mappings, Entry, Looking, Dressing, Entries,
         InProgress, Fail, Resting
<1>6. AccountedFor'
  BY DEF CmuxInv, Types, AccountedFor, Live, Entries, InProgress, Fail, Resting
<1> QED
  BY <1>1, <1>2, <1>3, <1>4, <1>5, <1>6 DEF CmuxInv

LEMMA SucceedCmuxInv ==
    ASSUME CmuxInv, NEW v \in Worker, worker[v].pc \in {"switch", "status"}, Succeed(v)
    PROVE  CmuxInv'
<1>1. Types'
  BY DEF CmuxInv, Types, Mappings, Entry, Succeed, Resting
<1>2. MemoryInv'
  BY CmuxAssumption DEF CmuxInv, Types, MemoryInv, WorkerInv, Holds, Loaded,
         NoMapping, Mappings, Entry, Looking, Dressing, Succeed, Resting
<1>3. EntryInv'
  BY CmuxAssumption DEF CmuxInv, Types, MemoryInv, EntryInv, WorkerInv, Holds,
         Loaded, Live, Mappings, Entry, Looking, Dressing, Succeed, Resting
<1>4. WorkerInv'
  BY DEF CmuxInv, Types, WorkerInv, Holds, Looking, Dressing, Succeed, Resting
<1>5. OwnerInv'
  BY CmuxAssumption DEF CmuxInv, Types, MemoryInv, OwnerInv, WorkerInv, Holds,
         Live, NoMapping, Mappings, Entry, Looking, Dressing, Entries,
         InProgress, Succeed, Resting
<1>6. AccountedFor'
  BY CmuxAssumption DEF CmuxInv, Types, MemoryInv, AccountedFor, WorkerInv,
         Holds, Live, NoMapping, Mappings, Entry, Looking, Dressing, Entries,
         InProgress, Succeed, Resting
<1> QED
  BY <1>1, <1>2, <1>3, <1>4, <1>5, <1>6 DEF CmuxInv

LEMMA ForgetCmuxInv ==
    ASSUME CmuxInv, NEW v \in Worker, worker[v].pc \in Looking, worker[v].id \notin Live, Forget(v)
    PROVE  CmuxInv'
<1>1. Types'
  BY CmuxAssumption DEF CmuxInv, Types, WorkerInv, Holds, Mappings, Entry,
         NoMapping, Looking, Dressing, Live, Forget
<1>2. MemoryInv'
  BY CmuxAssumption DEF CmuxInv, Types, MemoryInv, WorkerInv, Holds, Loaded,
         NoMapping, Mappings, Entry, Looking, Dressing, Forget
<1>3. EntryInv'
  BY CmuxAssumption DEF CmuxInv, Types, MemoryInv, EntryInv, WorkerInv, Holds,
         Loaded, Live, Mappings, Entry, Looking, Dressing, Forget
<1>4. WorkerInv'
  BY DEF CmuxInv, Types, WorkerInv, Holds, Looking, Dressing, Forget
<1>5. OwnerInv'
  BY DEF CmuxInv, Types, OwnerInv, Live, Forget
<1>6. AccountedFor'
  BY CmuxAssumption DEF CmuxInv, Types, MemoryInv, AccountedFor, WorkerInv,
         Holds, Live, NoMapping, Mappings, Entry, Looking, Dressing, Entries,
         InProgress, Forget
<1> QED
  BY <1>1, <1>2, <1>3, <1>4, <1>5, <1>6 DEF CmuxInv

LEMMA MisreadCmuxInv ==
    ASSUME CmuxInv, NEW v \in Worker, worker[v].pc \in Looking, Misread(v)
    PROVE  CmuxInv'
<1>1. Types'
  BY CmuxAssumption DEF CmuxInv, Types, WorkerInv, Holds, Mappings, Entry,
         NoMapping, Looking, Dressing, Live, Misread
<1>2. MemoryInv'
  BY CmuxAssumption DEF CmuxInv, Types, MemoryInv, WorkerInv, Holds, Loaded,
         NoMapping, Mappings, Entry, Looking, Dressing, Misread
<1>3. EntryInv'
  BY CmuxAssumption DEF CmuxInv, Types, MemoryInv, EntryInv, WorkerInv, Holds,
         Loaded, Live, Mappings, Entry, Looking, Dressing, Misread
<1>4. WorkerInv'
  BY DEF CmuxInv, Types, WorkerInv, Holds, Looking, Dressing, Misread
<1>5. OwnerInv'
  BY DEF CmuxInv, Types, OwnerInv, Live, Misread
<1>6. AccountedFor'
  BY CmuxAssumption DEF CmuxInv, Types, MemoryInv, AccountedFor, WorkerInv,
         Holds, Live, NoMapping, Mappings, Entry, Looking, Dressing, Entries,
         InProgress, Misread
<1> QED
  BY <1>1, <1>2, <1>3, <1>4, <1>5, <1>6 DEF CmuxInv

LEMMA MadeCmuxInv ==
    ASSUME CmuxInv, NEW v \in Worker, worker[v].pc = "create",
           NEW i \in Fresh, owner' = [owner EXCEPT ![i] = worker[v].key],
           worker' = [worker EXCEPT ![v].pc = "rename", ![v].id = i],
           UNCHANGED <<file, mapping, cli, lost>>
    PROVE  CmuxInv'
<1>1. Types'
  BY CmuxAssumption DEF CmuxInv, Types, WorkerInv, Holds, Mappings, Entry,
         NoMapping, Looking, Dressing, Live, Fresh
<1>2. MemoryInv'
  BY DEF CmuxInv, Types, MemoryInv, Loaded, Fresh
<1>3. EntryInv'
  BY CmuxAssumption DEF CmuxInv, Types, MemoryInv, EntryInv, WorkerInv, Holds,
         Loaded, Live, Mappings, Entry, Looking, Dressing, Fresh
<1>4. WorkerInv'
  BY DEF CmuxInv, Types, WorkerInv, Holds, Fresh
<1>5. OwnerInv'
  BY CmuxAssumption DEF CmuxInv, Types, MemoryInv, OwnerInv, WorkerInv, Holds,
         Live, NoMapping, Mappings, Entry, Looking, Dressing, Entries,
         InProgress, Fresh
<1>6. AccountedFor'
  BY CmuxAssumption DEF CmuxInv, Types, MemoryInv, AccountedFor, WorkerInv,
         Holds, Live, NoMapping, Mappings, Entry, Looking, Dressing, Entries,
         InProgress, Fresh
<1> QED
  BY <1>1, <1>2, <1>3, <1>4, <1>5, <1>6 DEF CmuxInv

LEMMA StepCmuxInv ==
    ASSUME CmuxInv, NEW v \in Worker, NEW l,
           \/ worker[v].pc \in Looking /\ l = "switch"
           \/ worker[v].pc \in Dressing /\ l \in Dressing,
           Step(v, l), UNCHANGED <<file, owner, mapping, cli, lost>>
    PROVE  CmuxInv'
<1>1. Types'
  BY CmuxAssumption DEF CmuxInv, Types, MemoryInv, EntryInv, WorkerInv, Holds,
         OwnerInv, AccountedFor, Loaded, Live, Entries, InProgress, Entry,
         Mappings, Looking, Dressing, NoMapping, Step
<1>2. MemoryInv'
  BY DEF CmuxInv, Types, MemoryInv, Loaded, Step
<1>3. EntryInv'
  BY DEF CmuxInv, EntryInv, Loaded, Live, Step
<1>4. WorkerInv'
  BY DEF CmuxInv, Types, WorkerInv, Holds, Looking, Dressing, Step
<1>5. OwnerInv'
  BY DEF CmuxInv, Types, OwnerInv, Live, Step
<1>6. AccountedFor'
  BY DEF CmuxInv, Types, AccountedFor, Live, Entries, InProgress, Step
<1> QED
  BY <1>1, <1>2, <1>3, <1>4, <1>5, <1>6 DEF CmuxInv

(***************************************************************************)
(* The user.                                                               *)
(***************************************************************************)
LEMMA UserClosesCmuxInv ==
    ASSUME CmuxInv, NEW i \in Id, UserCloses(i)
    PROVE  CmuxInv'
<1>1. Types'
  BY DEF CmuxInv, Types, Mappings, Entry, UserCloses
<1>2. MemoryInv'
  BY DEF CmuxInv, Types, MemoryInv, Loaded, UserCloses
<1>3. EntryInv'
  BY DEF CmuxInv, Types, EntryInv, Loaded, Live, UserCloses
<1>4. WorkerInv'
  BY DEF CmuxInv, Types, WorkerInv, Holds, UserCloses
<1>5. OwnerInv'
  BY DEF CmuxInv, Types, OwnerInv, Live, UserCloses
<1>6. AccountedFor'
  BY DEF CmuxInv, Types, AccountedFor, Live, Entries, InProgress, UserCloses
<1> QED
  BY <1>1, <1>2, <1>3, <1>4, <1>5, <1>6 DEF CmuxInv

LEMMA OpenOneCmuxInv ==
    ASSUME CmuxInv, NEW v \in Worker, openOne(v)
    PROVE  CmuxInv'
<1>r. worker[v].pc # "idle" => cli.pc = "run"
  BY DEF CmuxInv, WorkerInv, Holds
<1>1. CASE Identify(v)
  <2>1. worker[v].pc \in Looking /\ cli.pc = "run"
    BY <1>1, <1>r DEF Identify, At, Looking
  <2>2. CASE Step(v, "switch") /\ UNCHANGED <<file, owner, mapping, cli, lost>>
    BY <2>1, <2>2, StepCmuxInv
  <2>3. CASE worker[v].id \notin Live /\ Forget(v)
    BY <2>1, <2>3, ForgetCmuxInv
  <2>4. CASE Misread(v)
    BY <2>1, <2>4, MisreadCmuxInv
  <2>5. CASE Fail(v)
    BY <2>1, <2>5, FailCmuxInv
  <2> QED
    BY <1>1, <2>2, <2>3, <2>4, <2>5 DEF Identify
<1>2. CASE SwitchTo(v)
  <2>1. worker[v].pc = "switch" /\ worker[v].pc \in Looking /\ cli.pc = "run"
    BY <1>2, <1>r DEF SwitchTo, At, Looking
  <2>2. CASE Succeed(v)
    BY <2>1, <2>2, SucceedCmuxInv
  <2>3. CASE worker[v].id \notin Live /\ Forget(v)
    BY <2>1, <2>3, ForgetCmuxInv
  <2>4. CASE Misread(v)
    BY <2>1, <2>4, MisreadCmuxInv
  <2>5. CASE Fail(v)
    BY <2>1, <2>5, FailCmuxInv
  <2> QED
    BY <1>2, <2>2, <2>3, <2>4, <2>5 DEF SwitchTo
<1>3. CASE Create(v)
  BY <1>3, <1>r, MadeCmuxInv, FailCmuxInv DEF Create, At
<1>4. CASE Dress(v)
  BY <1>4, <1>r, StepCmuxInv, SucceedCmuxInv, FailCmuxInv DEF Dress, At,
         Dressing
<1> QED
  BY <1>1, <1>2, <1>3, <1>4 DEF openOne

(***************************************************************************)
(* Every step keeps the invariant.                                         *)
(***************************************************************************)
LEMMA NextCmuxInv ==
    ASSUME CmuxInv, [Next]_vars
    PROVE  CmuxInv'
<1>1. CASE Start \/ Abandon
  BY <1>1, StartCmuxInv, AbandonCmuxInv
<1>2. CASE CommandStep
  BY <1>2, LoadCmuxInv, SaveCmuxInv, EndCmuxInv, CollectCmuxInv,
     CloseMappedCmuxInv,
     ReconcileCmuxInv, ProbeCmuxInv, SwitchEntryCmuxInv DEF CommandStep
<1>3. CASE \E v \in Worker : WorkerStep(v)
  BY <1>3, TakeCmuxInv, OpenOneCmuxInv DEF WorkerStep
<1>4. CASE \E i \in Id : UserCloses(i)
  BY <1>4, UserClosesCmuxInv
<1>5. CASE UNCHANGED vars
  BY <1>5 DEF vars, CmuxInv, Types, MemoryInv, EntryInv, WorkerInv, Holds,
         OwnerInv, AccountedFor, Loaded, Live, Entries, InProgress, Entry,
         Mappings, Looking, Dressing, NoMapping
<1> QED
  BY <1>1, <1>2, <1>3, <1>4, <1>5 DEF Next
-----------------------------------------------------------------------------
(***************************************************************************)
(* The strengthening the results below rest on.                            *)
(***************************************************************************)
THEOREM CmuxCorrect == Spec => []CmuxInv
<1> QED
  BY InitCmuxInv, NextCmuxInv, PTL DEF Spec

(***************************************************************************)
(* Every cmux workspace kra has made is in the file, with the running      *)
(* command, left by an open that failed, or has lost its entry to an error *)
(* that only reads like not found.                                         *)
(***************************************************************************)
THEOREM AccountedForCorrect == Spec => []AccountedFor
<1>1. CmuxInv => AccountedFor
  BY DEF CmuxInv
<1> QED
  BY <1>1, CmuxCorrect, PTL

(***************************************************************************)
(* No two cmux workspaces show one workspace, unless an open has failed or *)
(* an error that only reads like not found has dropped an entry.           *)
(***************************************************************************)
THEOREM OneToOneCorrect == Spec => []OneToOne
<1>1. CmuxInv => OneToOne
  <2> SUFFICES ASSUME CmuxInv, NEW i \in Live \ lost, NEW j \in Live \ lost,
                      owner[i] = owner[j]
               PROVE  i = j
    BY DEF OneToOne
  <2> DEFINE k == owner[i]
  <2>0. i # "none" /\ j # "none" /\ k \in Key
    BY CmuxAssumption DEF CmuxInv, Types, Live
  <2>1. \A l \in Live \ lost :
          \/ l = file[owner[l]] \/ l = mapping[owner[l]]
          \/ \E v \in Worker : l = worker[v].id /\ worker[v].key = owner[l]
    BY DEF CmuxInv, AccountedFor, OwnerInv, Entries, InProgress
  <2>2. mapping[k] \in Live \ lost /\ file[k] \in Live \ lost => mapping[k] = file[k]
    BY CmuxAssumption DEF CmuxInv, EntryInv, MemoryInv, NoMapping, Types, Live
  <2>3. \A v \in Worker : worker[v].id \in Live /\ worker[v].key = k =>
           /\ mapping[k] \in Live => mapping[k] = worker[v].id
           /\ file[k] \in Live \ lost => file[k] = worker[v].id
    BY CmuxAssumption
       DEF CmuxInv, WorkerInv, Holds, EntryInv, Loaded, Types, Live, Looking, Dressing
  <2>4. \A v, w \in Worker :
           /\ worker[v].id \in Live /\ worker[v].key = k
           /\ worker[w].id \in Live /\ worker[w].key = k
           => v = w
    BY CmuxAssumption DEF CmuxInv, WorkerInv, Holds, Live
  <2> QED
    BY <2>0, <2>1, <2>2, <2>3, <2>4
<1> QED
  BY <1>1, CmuxCorrect, PTL

(***************************************************************************)
(* An entry leaves the file only when its cmux workspace is gone, or when  *)
(* the error of a call only reads like not found.                          *)
(***************************************************************************)
THEOREM EntriesKeptCorrect == Spec => EntriesKept
<1>1. CmuxInv /\ [Next]_vars =>
        [\A k \in Key :
            file[k] # "none" /\ file'[k] # file[k]
            => file[k] \notin Live \/ file[k] \in lost']_vars
  <2> SUFFICES ASSUME CmuxInv, Next, NEW k \in Key, file[k] # "none", file'[k] # file[k]
               PROVE  file[k] \notin Live \/ file[k] \in lost'
    OBVIOUS
  <2>1. CASE Save
    BY <2>1 DEF Save, CmuxInv, EntryInv, Loaded
  <2>2. CASE ReconcileMappingWithRuntime
    BY <2>2, CmuxAssumption
       DEF ReconcileMappingWithRuntime, Pruned, CmuxInv, MemoryInv, Types, Mappings, Entry
  <2>3. CASE probeAndPruneByID
    BY <2>3, CmuxAssumption
       DEF probeAndPruneByID, Pruned, CmuxInv, MemoryInv, Types, Mappings, Entry
  <2>4. CASE ~(Save \/ ReconcileMappingWithRuntime \/ probeAndPruneByID)
    <3>1. file' = file
      BY <2>4 DEF Next, CommandStep, WorkerStep, openOne, Start, Abandon, Load,
             End, Collect,
         CloseMapped, SwitchEntry, Take, Identify, SwitchTo, Create, Dress, Fail, Succeed,
         Forget, Misread, UserCloses
    <3> QED
      BY <3>1
  <2> QED
    BY <2>1, <2>2, <2>3, <2>4
<1> QED
  BY <1>1, CmuxCorrect, PTL DEF Spec, EntriesKept
=============================================================================
