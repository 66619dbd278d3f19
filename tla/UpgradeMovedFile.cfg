SPECIFICATION Spec
CONSTANTS
  Pkgs <- MCPkgs
  Names <- MCNames
  NameOf <- MCNameOf
  Files <- MCFiles
  FilesOf <- MCFilesOf
  Protected <- MCProtected
  Scripted <- MCScripted
  NoPkg = NoPkg
  Options <- PlainOptions
  Overlap = FALSE
  Faults = {}
  MaxCommands = 2
  MaxCrashes = 0
INVARIANTS
  UpgradedFilesPresent
\* The commands are bounded: after the last one the system is at rest.
CHECK_DEADLOCK FALSE
