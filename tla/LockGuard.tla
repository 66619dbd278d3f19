------------------------------- MODULE LockGuard -------------------------------
(***************************************************************************)
(* The advisory lock of anise (cmd/util/lock.go, used by the pre-run and   *)
(* post-run hooks of cmd/root.go) around install, upgrade and uninstall.   *)
(* The lock is an flock(2) on an inode, found through a path that the      *)
(* winner removes when it is done: opening the path, locking the inode,    *)
(* unlocking it and removing the path are separate steps of each process.  *)
(***************************************************************************)
EXTENDS FiniteSets, Naturals

CONSTANTS
  Procs,    \* processes that run locked commands on one rootfs
  Inodes,   \* inodes the lock file may get: bounds the number of re-creations
  NoInode,  \* the path does not exist; a process with no open lock file
  NoProc    \* an inode nobody locks

ASSUME LockGuardAssumption ==
  /\ NoInode \notin Inodes
  /\ NoProc \notin Procs

VARIABLES
  path,    \* inode the lock path names, NoInode when the file is absent
  used,    \* inodes created so far
  holder,  \* the process that holds the flock of each inode
  fh,      \* the lock file each process has open
  pc       \* idle, opened, running (the command), unlink

vars == <<path, used, holder, fh, pc>>

\* setFh: open with O_CREATE.
Open(p) ==
  /\ pc[p] = "idle"
  /\ \/ path # NoInode /\ UNCHANGED <<path, used>>
     \/ /\ path = NoInode
        /\ \E i \in Inodes \ used : path' = i /\ used' = used \cup {i}
  /\ fh' = [fh EXCEPT ![p] = path']
  /\ pc' = [pc EXCEPT ![p] = "opened"]
  /\ UNCHANGED holder

\* TryLock never waits: LOCK_NB, and the command runs only with the lock.
Lock(p) ==
  /\ pc[p] = "opened"
  /\ holder[fh[p]] = NoProc
  /\ holder' = [holder EXCEPT ![fh[p]] = p]
  /\ pc' = [pc EXCEPT ![p] = "running"]
  /\ UNCHANGED <<path, used, fh>>

\* "Another process is running?": Fatal exits and leaves the file.
Refuse(p) ==
  /\ pc[p] = "opened"
  /\ holder[fh[p]] # NoProc
  /\ fh' = [fh EXCEPT ![p] = NoInode]
  /\ pc' = [pc EXCEPT ![p] = "idle"]
  /\ UNCHANGED <<path, used, holder>>

\* Skips LOCK_UN and goes straight to the removal of the file.
BugUnlock(p) ==
  /\ pc[p] = "running"
  /\ fh' = [fh EXCEPT ![p] = NoInode]
  /\ pc' = [pc EXCEPT ![p] = "idle"]
  /\ UNCHANGED <<path, used, holder>>

\* PersistentPostRun: LOCK_UN and close; the removal of the path is deferred.
Unlock(p) ==
  /\ pc[p] = "running"
  /\ holder' = [holder EXCEPT ![fh[p]] = NoProc]
  /\ fh' = [fh EXCEPT ![p] = NoInode]
  /\ pc' = [pc EXCEPT ![p] = "unlink"]
  /\ UNCHANGED <<path, used>>

Unlink(p) ==
  /\ pc[p] = "unlink"
  /\ path' = NoInode
  /\ pc' = [pc EXCEPT ![p] = "idle"]
  /\ UNCHANGED <<used, holder, fh>>

\* Fatal in the command, or a kill: the kernel drops the lock with the file
\* descriptor, the path stays and no post-run hook runs.
Die(p) ==
  /\ pc[p] # "idle"
  /\ holder' = [i \in Inodes |-> IF holder[i] = p THEN NoProc ELSE holder[i]]
  /\ fh' = [fh EXCEPT ![p] = NoInode]
  /\ pc' = [pc EXCEPT ![p] = "idle"]
  /\ UNCHANGED <<path, used>>

Init ==
  /\ path = NoInode
  /\ used = {}
  /\ holder = [i \in Inodes |-> NoProc]
  /\ fh = [p \in Procs |-> NoInode]
  /\ pc = [p \in Procs |-> "idle"]

\* What a started command does.
Advance(p) == Lock(p) \/ Refuse(p) \/ Unlock(p) \/ Unlink(p)

Next == \E p \in Procs : Open(p) \/ Advance(p) \/ Die(p)

Spec == Init /\ [][Next]_vars

-----------------------------------------------------------------------------
(* Properties.                                                             *)

Running == {p \in Procs : pc[p] = "running"}

\* Every variable has its type.
TypeOK ==
  /\ path \in Inodes \cup {NoInode}
  /\ used \subseteq Inodes
  /\ holder \in [Inodes -> Procs \cup {NoProc}]
  /\ fh \in [Procs -> Inodes \cup {NoInode}]
  /\ pc \in [Procs -> {"idle", "opened", "running", "unlink"}]

\* The lock names exactly the running commands: each holds the inode it
\* opened, and nothing else is locked (a kill leaves no stale lock).
LockTracksRunning ==
  \A i \in Inodes, p \in Procs :
    holder[i] = p <=> p \in Running /\ fh[p] = i

\* A command is refused only while another one is running.
RefusedOnlyWhenRunning ==
  [][\A p \in Procs : pc[p] = "opened" /\ pc'[p] = "idle" /\ holder[fh[p]] # NoProc
       => \E q \in Running \ {p} : fh[q] = fh[p]]_vars

\* (violated) One locked command at a time on a rootfs.
MutualExclusion == Cardinality(Running) <= 1
================================================================================
