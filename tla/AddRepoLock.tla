----------------------------- MODULE AddRepoLock -----------------------------
(***************************************************************************)
(* The lock that ws add-repo takes on a workspace: a file created with     *)
(* O_EXCL that holds the pid of its owner.  A process that finds the file  *)
(* reads it, removes it when the owner is not alive or cannot be read, and *)
(* tries once more.  Creating, stamping, reading and removing the file are *)
(* separate system calls.  kra doctor --fix --apply looks at the file too, *)
(* with a judgement of its own, and removes it some time later.            *)
(*                                                                         *)
(* A process is identified with its pid, which no later process is given.  *)
(* The file at the path of the lock is identified with the process that    *)
(* created it, since a process has at most one such file open; a file      *)
(* removed from the path is out of sight.                                  *)
(***************************************************************************)
EXTENDS Naturals

CONSTANTS
    Proc,       \* processes that run ws add-repo on one workspace
    Crashes,    \* TRUE: a process may die at any time
    Errors      \* TRUE: a system call may fail

ASSUME LockAssumption ==
    /\ Crashes \in BOOLEAN
    /\ Errors \in BOOLEAN
    /\ "none" \notin Proc

VARIABLES
    lock,       \* the lock file
    pc,         \* pc[p]: the call process p makes next
    attempt,    \* attempt[p]: its turn of the loop
    doctor,     \* the lock that doctor has found stale and is to remove
    alone       \* history: processes that, since they started, no other has
                \* met and no system call has failed

vars == <<lock, pc, attempt, alone, doctor>>

Absent == [by |-> "none", stamped |-> FALSE]
Blank(p) == [by |-> p, stamped |-> FALSE]
Stamped(p) == [by |-> p, stamped |-> TRUE]

MaxAttempts == 2

Goto(p, l) == pc' = [pc EXCEPT ![p] = l]

(***************************************************************************)
(* A system call fails and the command returns its error.                  *)
(***************************************************************************)
Fail(p) ==
    /\ Errors
    /\ Goto(p, "idle")
    /\ alone' = alone \ {p}

(***************************************************************************)
(* Signal 0 reaches the process that has this pid now.                     *)
(***************************************************************************)
isProcessAlive(p) == pc[p] \notin {"idle", "dead"}

(***************************************************************************)
(* A missing file and a file without a pid count as stale.                 *)
(***************************************************************************)
isWorkspaceAddRepoLockStale ==
    lock.stamped => ~isProcessAlive(lock.by)

Init ==
    /\ lock = Absent
    /\ pc = [p \in Proc |-> "idle"]
    /\ attempt = [p \in Proc |-> 0]
    /\ alone = {}
    /\ doctor = Absent

Start(p) ==
    /\ pc[p] = "idle"
    /\ Goto(p, "open")
    /\ attempt' = [attempt EXCEPT ![p] = 0]
    /\ alone' = {q \in {p} : \A o \in Proc \ {p} : ~isProcessAlive(o)}
    /\ UNCHANGED <<lock, doctor>>

Crash(p) ==
    /\ Crashes
    /\ isProcessAlive(p)
    /\ Goto(p, "dead")
    /\ UNCHANGED <<lock, attempt, alone, doctor>>

(***************************************************************************)
(* os.OpenFile with O_CREATE and O_EXCL.                                   *)
(***************************************************************************)
Open(p) ==
    /\ pc[p] = "open"
    /\ \/ lock = Absent /\ lock' = Blank(p) /\ Goto(p, "stamp") /\ UNCHANGED alone
       \/ lock # Absent /\ Goto(p, "read") /\ UNCHANGED <<lock, alone>>
       \/ Fail(p) /\ UNCHANGED lock
    /\ UNCHANGED attempt

(***************************************************************************)
(* The metadata goes to the file this process has open, wherever it is.    *)
(* When that fails the file at the path is removed.                        *)
(***************************************************************************)
Stamp(p) ==
    /\ pc[p] = "stamp"
    /\ \/ /\ lock' = IF lock = Blank(p) THEN Stamped(p) ELSE lock
          /\ Goto(p, "held") /\ UNCHANGED alone
       \/ Fail(p) /\ lock' = Absent
    /\ UNCHANGED attempt

Read(p) ==
    /\ pc[p] = "read"
    /\ \/ isWorkspaceAddRepoLockStale /\ Goto(p, "unlink") /\ UNCHANGED alone
       \/ ~isWorkspaceAddRepoLockStale /\ Goto(p, "idle") /\ UNCHANGED alone
       \/ Fail(p)
    /\ UNCHANGED <<lock, attempt>>

(***************************************************************************)
(* Faulty variant: the loop is not bounded.                                *)
(***************************************************************************)
UnlinkForever(p) ==
    /\ pc[p] = "unlink"
    /\ lock' = Absent
    /\ Goto(p, "open")
    /\ UNCHANGED <<attempt, alone>>

(***************************************************************************)
(* Faulty variant: no second attempt.                                      *)
(***************************************************************************)
UnlinkAndGiveUp(p) ==
    /\ pc[p] = "unlink"
    /\ lock' = Absent
    /\ Goto(p, "idle")
    /\ UNCHANGED <<attempt, alone>>

(***************************************************************************)
(* os.Remove of the path, whoever's file is there by now.                  *)
(***************************************************************************)
Unlink(p) ==
    /\ pc[p] = "unlink"
    /\ \/ /\ lock' = Absent
          /\ attempt' = [attempt EXCEPT ![p] = @ + 1]
          /\ Goto(p, IF attempt[p] + 1 < MaxAttempts THEN "open" ELSE "idle")
          /\ UNCHANGED alone
       \/ Fail(p) /\ UNCHANGED <<lock, attempt>>

(***************************************************************************)
(* The end of the command: the path is removed, whoever's file is there.   *)
(***************************************************************************)
Release(p) ==
    /\ pc[p] = "held"
    /\ lock' = Absent
    /\ Goto(p, "idle")
    /\ UNCHANGED <<attempt, alone>>

Step(p) ==
    /\ Open(p) \/ Stamp(p) \/ Read(p) \/ Unlink(p) \/ Release(p)
    /\ UNCHANGED doctor

(***************************************************************************)
(* Faulty variant: doctor judges as add-repo does.                         *)
(***************************************************************************)
StaleLikeAddRepo == isWorkspaceAddRepoLockStale

(***************************************************************************)
(* scanDoctorLocks: a file without a pid is reported, and left to the user.*)
(***************************************************************************)
DoctorStale == lock.stamped /\ ~isProcessAlive(lock.by)

DoctorScan ==
    /\ doctor = Absent
    /\ lock # Absent /\ DoctorStale
    /\ doctor' = lock
    /\ UNCHANGED <<lock, pc, attempt, alone>>

(***************************************************************************)
(* runDoctorFix: os.Remove of the path, whoever's file is there by now.    *)
(* It may fail, and the command may die before.                            *)
(***************************************************************************)
DoctorRemove ==
    /\ doctor # Absent
    /\ doctor' = Absent
    /\ lock' = Absent \/ UNCHANGED lock
    /\ UNCHANGED <<pc, attempt, alone>>

Next ==
    \/ \E p \in Proc : Start(p) \/ Crash(p) \/ Step(p)
    \/ DoctorScan
    \/ DoctorRemove

Spec == Init /\ [][Next]_vars

(***************************************************************************)
(* A process that is alive runs on.                                        *)
(***************************************************************************)
FairSpec == Spec /\ \A p \in Proc : WF_vars(Step(p))
-----------------------------------------------------------------------------
(***************************************************************************)
(* A lock file left behind by a process that died, stamped or still empty, *)
(* never makes a command fail that no other command has met and all whose  *)
(* calls succeed: it recovers and tries again                              *)
(* (acquireWorkspaceAddRepoLock).                                          *)
(***************************************************************************)
RefusedOnlyByOthers ==
    [][\A p \in Proc :
        pc[p] \in {"open", "read", "unlink"} /\ pc'[p] = "idle"
        => p \notin alone']_vars

(***************************************************************************)
(* A command fails fast: it has the lock, or an error, in a bounded number *)
(* of calls, however often others take the lock in the meantime.           *)
(***************************************************************************)
AcquireEnds ==
    \A p \in Proc :
        pc[p] = "open" ~> pc[p] \in {"held", "idle", "dead"}

(***************************************************************************)
(* Doctor never takes the lock away from the process it has seen holding   *)
(* it: the file it found may be gone or be another's by the time it        *)
(* removes the path, but while it is the same file its owner is dead, also *)
(* when that owner had not yet written its pid (scanDoctorLocks,           *)
(* runDoctorFix).                                                          *)
(***************************************************************************)
DoctorSparesTheLiving ==
    [][doctor # Absent /\ doctor' = Absent /\ lock.by = doctor.by /\ lock' = Absent
       => ~isProcessAlive(lock.by)]_vars

(***************************************************************************)
(* docs/spec/commands/ws/add-repo.md: "Concurrent `ws add-repo` on the     *)
(* same workspace must fail fast."  Two of them never hold the lock.       *)
(***************************************************************************)
Mutex == \A p, q \in Proc : pc[p] = "held" /\ pc[q] = "held" => p = q
=============================================================================
