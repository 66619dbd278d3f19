SPECIFICATION Spec
CONSTANTS
  Procs = {p1, p2, p3}
  Inodes = {i1, i2, i3}
  NoInode = NoInode
  NoProc = NoProc
INVARIANTS
  LockTracksRunning
PROPERTIES
  RefusedOnlyWhenRunning
\* Once every inode of the bound was used, no lock file can be created.
CHECK_DEADLOCK FALSE
