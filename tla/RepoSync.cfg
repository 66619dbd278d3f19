SPECIFICATION FairSpec
CONSTANTS
  Repos = {"main", "v2"}
  Unknown = "typo"
  V2 = {"v2"}
  Revs = {1, 2}
  NoRev = NoRev
  Torn = Torn
  Requests <- MCRequests
  Faults = {"fetch", "copy", "remove", "unpack", "explode", "metadata"}
  MaxArgs = 2
  MaxCommands = 2
  MaxCrashes = 1
ACTION_CONSTRAINT SameRepository
INVARIANTS
  
  ErrorsReported
PROPERTIES
  TreesNotMixed
  UpdateEnds
\* The commands are bounded: after the last one nothing runs.
CHECK_DEADLOCK FALSE
