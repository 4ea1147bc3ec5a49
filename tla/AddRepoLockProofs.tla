-------------------------- MODULE AddRepoLockProofs --------------------------
(***************************************************************************)
(* What the lock of ws add-repo does guarantee, for any number of          *)
(* processes that crash and fail at any time: a lock left behind refuses   *)
(* nobody, and doctor takes no lock away from its living owner.            *)
(***************************************************************************)
EXTENDS AddRepoLock, TLAPS

LockFile == [by : Proc \cup {"none"}, stamped : BOOLEAN]

Types ==
    /\ lock \in LockFile
    /\ pc \in [Proc -> {"idle", "dead", "open", "stamp", "read", "unlink", "held"}]
    /\ attempt \in [Proc -> Nat]
    /\ doctor \in LockFile
    /\ alone \in SUBSET Proc

(***************************************************************************)
(* A file at the path is that of a process which is about to write its pid *)
(* to it, holds the lock with it, or has died.                             *)
(***************************************************************************)
FileInv ==
    /\ lock.by = "none" => lock = Absent
    /\ lock.by # "none" =>
         pc[lock.by] \in {"dead", IF lock.stamped THEN "held" ELSE "stamp"}

(***************************************************************************)
(* The owner of the file that doctor is to remove is dead, and stays dead: *)
(* no later process has its pid.                                           *)
(***************************************************************************)
DoctorInv == doctor # Absent => doctor.by \in Proc /\ pc[doctor.by] = "dead"

(***************************************************************************)
(* Of a process that no other has met: it is the only one alive, and the   *)
(* file it removed on its first attempt has not come back on the second.   *)
(***************************************************************************)
AloneInv ==
    \A p \in alone :
        /\ \A q \in Proc \ {p} : ~isProcessAlive(q)
        /\ pc[p] \in {"read", "unlink"} => attempt[p] = 0
        /\ pc[p] = "open" => attempt[p] = 0 \/ lock = Absent

LockInv == Types /\ FileInv /\ DoctorInv /\ AloneInv
-----------------------------------------------------------------------------
LEMMA LockFiles ==
    ASSUME NEW p \in Proc
    PROVE  Absent \in LockFile /\ Blank(p) \in LockFile /\ Stamped(p) \in LockFile
BY DEF LockFile, Absent, Blank, Stamped

LEMMA AbsentFile == Absent \in LockFile
BY DEF LockFile, Absent

LEMMA InitLockInv == Init => LockInv
BY LockAssumption DEF Init, LockFile, LockInv, Types, FileInv, DoctorInv,
       AloneInv, Absent

LEMMA StartLockInv ==
    ASSUME LockInv, NEW p \in Proc, Start(p)
    PROVE  LockInv'
<1>1. Types'
  BY AbsentFile, LockFiles DEF LockInv, Types, Start, Goto
<1>2. FileInv'
  BY DEF LockInv, FileInv, Start, Goto
<1>3. DoctorInv'
  BY DEF LockInv, DoctorInv, Start, Goto
<1>4. AloneInv'
  BY DEF LockInv, Types, AloneInv, isProcessAlive, Start, Goto
<1> QED
  BY <1>1, <1>2, <1>3, <1>4 DEF LockInv

LEMMA CrashLockInv ==
    ASSUME LockInv, NEW p \in Proc, Crash(p)
    PROVE  LockInv'
<1>1. Types'
  BY AbsentFile, LockFiles DEF LockInv, Types, Crash, Goto
<1>2. FileInv'
  BY DEF LockInv, FileInv, Crash, Goto
<1>3. DoctorInv'
  BY DEF LockInv, DoctorInv, Crash, Goto
<1>4. AloneInv'
  BY DEF LockInv, AloneInv, isProcessAlive, Crash, Goto
<1> QED
  BY <1>1, <1>2, <1>3, <1>4 DEF LockInv

LEMMA OpenLockInv ==
    ASSUME LockInv, NEW p \in Proc, Open(p), UNCHANGED doctor
    PROVE  LockInv'
<1>1. Types'
  BY AbsentFile, LockFiles DEF LockInv, Types, Open, Goto, Fail
<1>2. FileInv'
  BY DEF LockInv, Types, LockFile, FileInv, Absent, Open, Goto,
         Blank, Fail
<1>3. DoctorInv'
  BY DEF LockInv, Types, DoctorInv, Open, Goto, Fail
<1>4. AloneInv'
  BY DEF LockInv, Types, AloneInv, isProcessAlive, Open, Goto,
         Fail
<1> QED
  BY <1>1, <1>2, <1>3, <1>4 DEF LockInv

LEMMA StampLockInv ==
    ASSUME LockInv, NEW p \in Proc, Stamp(p), UNCHANGED doctor
    PROVE  LockInv'
<1>1. Types'
  BY AbsentFile, LockFiles DEF LockInv, Types, Stamp, Goto, Fail
<1>2. FileInv'
  BY LockAssumption DEF LockInv, Types, LockFile, FileInv, Absent, Stamp, Goto,
         Blank, Stamped, Fail
<1>3. DoctorInv'
  BY DEF LockInv, Types, LockFile, DoctorInv, Stamp, Goto, Fail
<1>4. AloneInv'
  BY DEF LockInv, Types, LockFile, AloneInv, isProcessAlive,
         Stamp, Goto, Fail
<1> QED
  BY <1>1, <1>2, <1>3, <1>4 DEF LockInv

LEMMA ReadLockInv ==
    ASSUME LockInv, NEW p \in Proc, Read(p), UNCHANGED doctor
    PROVE  LockInv'
<1>1. Types'
  BY AbsentFile, LockFiles DEF LockInv, Types, Read, Goto, Fail
<1>2. FileInv'
  BY DEF LockInv, Types, LockFile, FileInv, Absent, Read, Goto,
         Fail
<1>3. DoctorInv'
  BY DEF LockInv, Types, DoctorInv, Read, Goto, Fail
<1>4. AloneInv'
  BY DEF LockInv, Types, AloneInv, isProcessAlive, Read, Goto,
         Fail
<1> QED
  BY <1>1, <1>2, <1>3, <1>4 DEF LockInv

LEMMA UnlinkLockInv ==
    ASSUME LockInv, NEW p \in Proc, Unlink(p), UNCHANGED doctor
    PROVE  LockInv'
<1>1. Types'
  BY AbsentFile, LockFiles DEF LockInv, Types, Unlink, Goto, Fail
<1>2. FileInv'
  BY DEF LockInv, Types, LockFile, FileInv, Absent, Unlink,
         Goto, Fail
<1>3. DoctorInv'
  BY DEF LockInv, Types, DoctorInv, Unlink, Goto, Fail
<1>4. AloneInv'
  BY DEF LockInv, Types, AloneInv, isProcessAlive, Unlink, Goto,
         Fail
<1> QED
  BY <1>1, <1>2, <1>3, <1>4 DEF LockInv

LEMMA ReleaseLockInv ==
    ASSUME LockInv, NEW p \in Proc, Release(p), UNCHANGED doctor
    PROVE  LockInv'
<1>1. Types'
  BY AbsentFile, LockFiles DEF LockInv, Types, Release, Goto
<1>2. FileInv'
  BY DEF LockInv, FileInv, Absent, Release
<1>3. DoctorInv'
  BY DEF LockInv, DoctorInv, Release, Goto
<1>4. AloneInv'
  BY DEF LockInv, AloneInv, isProcessAlive, Release, Goto
<1> QED
  BY <1>1, <1>2, <1>3, <1>4 DEF LockInv

LEMMA DoctorScanLockInv ==
    ASSUME LockInv, DoctorScan
    PROVE  LockInv'
<1>1. Types'
  BY AbsentFile, LockFiles DEF LockInv, Types, DoctorScan
<1>2. FileInv'
  BY DEF LockInv, FileInv, DoctorScan
<1>3. DoctorInv'
  BY DEF LockInv, Types, LockFile, FileInv, DoctorInv,
         isProcessAlive, DoctorScan, DoctorStale
<1>4. AloneInv'
  BY DEF LockInv, AloneInv, isProcessAlive, DoctorScan
<1> QED
  BY <1>1, <1>2, <1>3, <1>4 DEF LockInv

LEMMA DoctorRemoveLockInv ==
    ASSUME LockInv, DoctorRemove
    PROVE  LockInv'
<1>1. Types'
  BY AbsentFile, LockFiles DEF LockInv, Types, DoctorRemove
<1>2. FileInv'
  BY DEF LockInv, FileInv, Absent, DoctorRemove
<1>3. DoctorInv'
  BY DEF LockInv, DoctorInv, DoctorRemove
<1>4. AloneInv'
  BY DEF LockInv, AloneInv, isProcessAlive, DoctorRemove
<1> QED
  BY <1>1, <1>2, <1>3, <1>4 DEF LockInv

LEMMA LockStep == LockInv /\ [Next]_vars => LockInv'
<1> SUFFICES ASSUME LockInv, [Next]_vars PROVE LockInv'
  OBVIOUS
<1>1. CASE UNCHANGED vars
  BY <1>1 DEF vars, LockInv, Types, FileInv, DoctorInv, AloneInv,
         isProcessAlive
<1>2. ASSUME NEW p \in Proc, Start(p) \/ Crash(p) \/ Step(p) PROVE LockInv'
  BY <1>2, StartLockInv, CrashLockInv, OpenLockInv, StampLockInv, ReadLockInv,
     UnlinkLockInv, ReleaseLockInv DEF Step
<1> QED
  BY <1>1, <1>2, DoctorScanLockInv, DoctorRemoveLockInv DEF Next

(***************************************************************************)
(* The invariant of the lock file, of the finding of doctor and of the     *)
(* process that meets no other.                                            *)
(***************************************************************************)
THEOREM LockCorrect == Spec => []LockInv
BY InitLockInv, LockStep, PTL DEF Spec

(***************************************************************************)
(* A lock left behind refuses nobody: acquireWorkspaceAddRepoLock fails,   *)
(* when its calls do not, only if another command was there in the         *)
(* meantime.                                                               *)
(***************************************************************************)
THEOREM RefusedOnlyByOthersCorrect == Spec => RefusedOnlyByOthers
<1>1. ASSUME LockInv, [Next]_vars, NEW p \in Proc,
             pc[p] \in {"open", "read", "unlink"}, pc'[p] = "idle"
      PROVE  p \notin alone'
  <2>1. CASE UNCHANGED vars
    BY <1>1, <2>1 DEF vars
  <2>2. ASSUME NEW q \in Proc, Start(q) \/ Crash(q) PROVE p \notin alone'
    BY <1>1, <2>2 DEF LockInv, Types, Start, Crash, Goto
  <2>3. ASSUME NEW q \in Proc, Step(q), q # p PROVE FALSE
    BY <1>1, <2>3 DEF LockInv, Types, Step, Open, Stamp, Read, Unlink, Release,
           Fail, Goto
  <2>4. CASE Open(p)
    BY <1>1, <2>4 DEF LockInv, Types, Open, Fail, Goto
  <2>5. CASE Read(p)
    BY <1>1, <2>5, LockAssumption DEF LockInv, Types, LockFile,
           FileInv, AloneInv, Absent, Read, Fail, Goto,
           isWorkspaceAddRepoLockStale,
           isProcessAlive <2>6. CASE Unlink(p) BY <1>1, <2>6 DEF LockInv,
           LockInv, Types, AloneInv, Unlink, Fail, Goto,
           MaxAttempts <2>7. CASE Stamp(p) \/ Release(p) BY <1>1, <2>7
           DEF LockInv, Stamp,
           Release <2>8. CASE DoctorScan \/ DoctorRemove BY <1>1, <2>8
           DEF LockInv, DoctorScan, DoctorRemove <2> QED BY <1>1, <2>1, <2>2,
           <2>3, <2>4, <2>5, <2>6, <2>7, <2>8 DEF LockInv, Next, Step
<1>2. LockInv /\ [Next]_vars =>
        [\A p \in Proc :
            pc[p] \in {"open", "read", "unlink"} /\ pc'[p] = "idle"
            => p \notin alone']_vars
  BY <1>1
<1> QED
  BY <1>2, LockCorrect, PTL DEF Spec, RefusedOnlyByOthers

(***************************************************************************)
(* Doctor takes no lock away from the living process it saw holding it:    *)
(* between scanDoctorLocks and runDoctorFix the file may have become       *)
(* another's, but while it is the same its owner is dead.                  *)
(***************************************************************************)
THEOREM DoctorSparesTheLivingCorrect == Spec => DoctorSparesTheLiving
<1>1. LockInv /\ [Next]_vars =>
        [doctor # Absent /\ doctor' = Absent /\ lock.by = doctor.by /\ lock' = Absent
         => ~isProcessAlive(lock.by)]_vars
  BY DEF LockInv, DoctorInv, isProcessAlive
<1> QED
  BY <1>1, LockCorrect, PTL DEF Spec, DoctorSparesTheLiving
==============================================================================
