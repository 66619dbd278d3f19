SPECIFICATION ManagerSpec
CONSTANTS
  N = 5
  Forests <- MCForests
  Requests <- MCRequests
  Modes <- MCModes
  Options <- MCOptions
  Faults = {"list", "pull", "build", "flatten", "push", "export", "metadata"}
  MaxBuilds = 2
  MaxEdits = 1
INVARIANTS
  SolutionsClosed
  PackagesFresh
  DependenciesReady
