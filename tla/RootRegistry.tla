---------------------------- MODULE RootRegistry ----------------------------
(***************************************************************************)
(* The registry of roots, one JSON file for all roots of a user, and the   *)
(* current-context file.  Every command that changes the registry loads    *)
(* it, changes what it has loaded, and replaces the file by a rename, with *)
(* no lock: two commands can interleave between the load and the rename.   *)
(*                                                                         *)
(* Abstractions: the time stamps of an entry, which only order a listing,  *)
(* are left out; root directories stay where they are; a call that fails   *)
(* ends the command with nothing undone, as a crash does (Crash).          *)
(***************************************************************************)
CONSTANTS
    Root,       \* roots
    Name,       \* context names
    Proc,       \* processes that run commands
    Commands    \* Commands[p]: the commands process p runs

RegistryCommands ==
    {"touch", "init", "context-create", "context-create-use",
     "context-use", "context-rename", "context-rm"}

ASSUME RegistryAssumption ==
    /\ Root # {} /\ Name # {}
    /\ Name \cap {"absent", "unnamed", "none"} = {}
    /\ "none" \notin Root

VARIABLES
    file,       \* file[r]: "absent", "unnamed", or the context name of root r
    current,    \* the root the current-context file names, or "none"
    pc,         \* pc[p]: the call process p makes next
    job         \* job[p]: the command line of p and the registry it writes

registryVars == <<file, current, pc, job>>

Registry == [Root -> Name \cup {"absent", "unnamed"}]

Goto(p, l) == pc' = [pc EXCEPT ![p] = l]

Known(f) == {r \in Root : f[r] # "absent"}

(***************************************************************************)
(* The root a context name stands for, if any.                             *)
(***************************************************************************)
Named(f, n) == {r \in Root : f[r] = n}

(***************************************************************************)
(* The changes a command makes to the registry it has loaded.              *)
(***************************************************************************)
Touched(f, r) == IF f[r] = "absent" THEN [f EXCEPT ![r] = "unnamed"] ELSE f

SetName(f, r, n) == [f EXCEPT ![r] = n]

Renamed(f, n, m) == [r \in Root |-> IF f[r] = n THEN m ELSE f[r]]

Removed(f, n) == [r \in Root |-> IF f[r] = n THEN "absent" ELSE f[r]]
-----------------------------------------------------------------------------
(***************************************************************************)
(* The first call of a command, and the call after an update of the        *)
(* registry.  A command of another component touches the registry first    *)
(* and goes on at a label of its own name.                                 *)
(***************************************************************************)
FirstCall(c) ==
    CASE c \in {"context-create", "context-create-use"} -> "set.load"
      [] c = "context-use" -> "resolve"
      [] c = "context-rename" -> "rename.load"
      [] c = "context-rm" -> "rm.check"
      [] OTHER -> "touch.load"

After(c, l) ==
    CASE l = "touch.write" /\ c = "touch" -> "idle"
      [] l = "touch.write" /\ c = "init" -> "set.load"
      [] l = "touch.write" -> c
      [] l = "set.write" /\ c # "context-create" -> "select"
      [] OTHER -> "idle"

NoJob == [cmd |-> "none", root |-> CHOOSE r \in Root : TRUE,
          name |-> "none", to |-> "none",
          snap |-> [r \in Root |-> "absent"]]

(***************************************************************************)
(* The arguments a command takes.                                          *)
(***************************************************************************)
RootArg(c) ==
    IF c \in {"context-use", "context-rename", "context-rm"}
    THEN {NoJob.root} ELSE Root
NameArg(c) == IF c \in RegistryCommands \ {"touch"} THEN Name ELSE {NoJob.name}
ToArg(c) == IF c = "context-rename" THEN Name ELSE {NoJob.name}

Return(p) ==
    /\ Goto(p, "idle")
    /\ job' = [job EXCEPT ![p] = NoJob]

RegistryInit ==
    /\ file = [r \in Root |-> "absent"]
    /\ current = "none"
    /\ pc = [p \in Proc |-> "idle"]
    /\ job = [p \in Proc |-> NoJob]

RegistryStart(p) ==
    /\ pc[p] = "idle"
    /\ \E c \in Commands[p] \cap RegistryCommands :
       \E r \in RootArg(c), n \in NameArg(c), m \in ToArg(c) :
        /\ Goto(p, FirstCall(c))
        /\ job' = [job EXCEPT ![p] =
                      [NoJob EXCEPT !.cmd = c, !.root = r, !.name = n, !.to = m]]
    /\ UNCHANGED <<file, current>>

(***************************************************************************)
(* A check refuses the command, a call fails, or the process dies.         *)
(***************************************************************************)
Crash(p) ==
    /\ pc[p] # "idle"
    /\ Return(p)
    /\ UNCHANGED <<file, current>>

(***************************************************************************)
(* The registry f is what process p is about to write.                     *)
(***************************************************************************)
Prepare(p, f, l) ==
    /\ job' = [job EXCEPT ![p].snap = f]
    /\ Goto(p, l)
    /\ UNCHANGED <<file, current>>

TouchLoad(p) ==
    /\ pc[p] = "touch.load"
    /\ Prepare(p, Touched(file, job[p].root), "touch.write")

(***************************************************************************)
(* Faulty variant: a name that another root has is accepted.               *)
(***************************************************************************)
SetLoadUnchecked(p) ==
    /\ pc[p] = "set.load"
    /\ Prepare(p, SetName(file, job[p].root, job[p].name), "set.write")

(***************************************************************************)
(* A name belongs to one root; a name that another root has is refused.    *)
(***************************************************************************)
SetLoad(p) ==
    /\ pc[p] = "set.load"
    /\ Named(file, job[p].name) \subseteq {job[p].root}
    /\ Prepare(p, SetName(file, job[p].root, job[p].name), "set.write")

RenameLoad(p) ==
    /\ pc[p] = "rename.load"
    /\ job[p].name # job[p].to
    /\ Named(file, job[p].name) # {}
    /\ Named(file, job[p].to) = {}
    /\ Prepare(p, Renamed(file, job[p].name, job[p].to), "rename.write")

(***************************************************************************)
(* context rm refuses the current context, and then loads the registry     *)
(* again and removes the entry of the name, the root with it.              *)
(***************************************************************************)
RemoveCheck(p) ==
    /\ pc[p] = "rm.check"
    /\ Named(file, job[p].name) # {}
    /\ current \notin Named(file, job[p].name)
    /\ Goto(p, "rm.load")
    /\ UNCHANGED <<file, current, job>>

RemoveLoad(p) ==
    /\ pc[p] = "rm.load"
    /\ Named(file, job[p].name) # {}
    /\ Prepare(p, Removed(file, job[p].name), "rm.write")

(***************************************************************************)
(* A temporary file of this process is renamed over the registry.          *)
(***************************************************************************)
WriteRegistry(p) ==
    /\ pc[p] \in {"touch.write", "set.write", "rename.write", "rm.write"}
    /\ file' = job[p].snap
    /\ LET l == After(job[p].cmd, pc[p])
       IN  IF l = "idle" THEN Return(p)
           ELSE /\ Goto(p, l)
                /\ job' = [job EXCEPT ![p].snap = NoJob.snap]
    /\ UNCHANGED current

(***************************************************************************)
(* context use: the root of the name becomes the current one.              *)
(***************************************************************************)
Resolve(p) ==
    /\ pc[p] = "resolve"
    /\ \E r \in Named(file, job[p].name) :
        job' = [job EXCEPT ![p].root = r]
    /\ Goto(p, "select")
    /\ UNCHANGED <<file, current>>

Select(p) ==
    /\ pc[p] = "select"
    /\ current' = job[p].root
    /\ Return(p)
    /\ UNCHANGED file

RegistryStep(p) ==
    \/ TouchLoad(p) \/ SetLoad(p) \/ RenameLoad(p)
    \/ RemoveCheck(p) \/ RemoveLoad(p) \/ WriteRegistry(p)
    \/ Resolve(p) \/ Select(p)
-----------------------------------------------------------------------------
UniqueNames(f) ==
    \A r, s \in Root : f[r] = f[s] /\ f[r] \in Name => r = s

(***************************************************************************)
(* No two roots have the same context name, however the load and the       *)
(* rename of two commands interleave: a lost update loses a change as a    *)
(* whole, and what is written was free of conflicts when it was loaded.    *)
(***************************************************************************)
NamesUnique == UniqueNames(file)
=============================================================================
