SPECIFICATION UpgradeSpec
CONSTANTS
  Names <- MCNames
  Pkgs <- MCPkgs
  NoPkg = NoPkg
  NameOf <- MCNameOf
  Rank <- MCRank
  NameOrder <- MCNameOrder
  ProvideRank <- MCProvideRank
  Requires <- MCRequires
  Conflicts <- MCConflicts
  Provides <- MCProvides
  Refuses <- MCRefuses
  Problems <- MCProblems
INVARIANTS
  ClosedWhenSingle
  HonoursConflicts
  NothingUnneeded
  InstalledOnlyAsProvider
  PlanForInstaller
  NoDowngrade
  UpgradeCloses
PROPERTIES
  SolveEnds
\* A problem is solved once.
CHECK_DEADLOCK FALSE
