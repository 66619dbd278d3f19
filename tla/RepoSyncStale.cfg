SPECIFICATION Spec
CONSTANTS
  Repos = {"main", "v2"}
  Unknown = "typo"
  V2 = {"v2"}
  Revs = {1}
  NoRev = NoRev
  Torn = Torn
  Requests <- MCPlainRequests
  Faults = {"unpack"}
  MaxArgs = 3
  MaxCommands = 2
  MaxCrashes = 0
INVARIANTS
  UpdateOkMeansSynced
\* The commands are bounded: after the last one nothing runs.
CHECK_DEADLOCK FALSE
