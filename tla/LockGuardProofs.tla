---------------------------- MODULE LockGuardProofs ----------------------------
(***************************************************************************)
(* Proofs about LockGuard for any number of processes and lock files: the  *)
(* flock of an inode is held exactly by the running command that opened    *)
(* it, so nobody is refused by a stale lock.  What cannot be proved, since *)
(* it is false, is MutualExclusion: two inodes can be locked together.     *)
(***************************************************************************)
EXTENDS LockGuard, TLAPS

\* A process has the lock file open from Open until Unlock, Refuse or Die.
OpenFiles == \A p \in Procs : fh[p] \in Inodes <=> pc[p] \in {"opened", "running"}

LockInv == TypeOK /\ OpenFiles /\ LockTracksRunning

LEMMA LockInit == ASSUME Init PROVE LockInv
  BY LockGuardAssumption
  DEF Init, LockInv, TypeOK, OpenFiles, LockTracksRunning, Running

LEMMA LockStep == ASSUME LockInv, [Next]_vars PROVE LockInv'
<1> USE LockGuardAssumption DEF LockInv, TypeOK, OpenFiles, LockTracksRunning, Running
<1>1. ASSUME NEW p \in Procs, Open(p) PROVE LockInv'
  <2>1. path' \in Inodes /\ used' \subseteq Inodes
    BY <1>1 DEF Open
  <2> QED
    BY <1>1, <2>1 DEF Open
<1>2. ASSUME NEW p \in Procs, Lock(p) PROVE LockInv'
  BY <1>2 DEF Lock
<1>3. ASSUME NEW p \in Procs, Refuse(p) PROVE LockInv'
  BY <1>3 DEF Refuse
<1>4. ASSUME NEW p \in Procs, Unlock(p) PROVE LockInv'
  BY <1>4 DEF Unlock
<1>5. ASSUME NEW p \in Procs, Unlink(p) PROVE LockInv'
  BY <1>5 DEF Unlink
<1>6. ASSUME NEW p \in Procs, Die(p) PROVE LockInv'
  BY <1>6 DEF Die
<1>7. CASE UNCHANGED vars
  BY <1>7 DEF vars
<1> QED
  BY <1>1, <1>2, <1>3, <1>4, <1>5, <1>6, <1>7 DEF Next, Advance

\* Whatever dies, the locked inodes are those of the running commands.
THEOREM LockTracksRunningCorrect == Spec => []LockTracksRunning
<1>1. LockInv => LockTracksRunning
  BY DEF LockInv
<1> QED
  BY <1>1, LockInit, LockStep, PTL DEF Spec

\* A command is refused only while another one runs with the same lock file.
THEOREM RefusalJustified == Spec => RefusedOnlyWhenRunning
<1> DEFINE Justified ==
      \A p \in Procs : pc[p] = "opened" /\ pc'[p] = "idle" /\ holder[fh[p]] # NoProc
        => \E q \in Running \ {p} : fh[q] = fh[p]
<1>1. ASSUME LockInv PROVE Justified
  <2> SUFFICES ASSUME NEW p \in Procs, pc[p] = "opened", holder[fh[p]] # NoProc
               PROVE  \E q \in Running \ {p} : fh[q] = fh[p]
    OBVIOUS
  <2>1. fh[p] \in Inodes
    BY <1>1 DEF LockInv, OpenFiles
  <2>2. holder[fh[p]] \in Procs
    BY <1>1, <2>1 DEF LockInv, TypeOK
  <2>3. holder[fh[p]] \in Running /\ fh[holder[fh[p]]] = fh[p]
    BY <1>1, <2>1, <2>2 DEF LockInv, LockTracksRunning
  <2> QED
    BY <2>3 DEF Running
<1>2. LockInv /\ [Next]_vars => [Justified]_vars
  BY <1>1
<1> QED
  BY <1>2, LockInit, LockStep, PTL DEF Spec, RefusedOnlyWhenRunning
================================================================================
