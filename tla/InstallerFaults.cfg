SPECIFICATION Spec
CONSTANTS
  Pkgs <- MCPkgs
  Names <- MCNames
  NameOf <- MCNameOf
  Files <- MCFiles
  FilesOf <- MCFilesOf
  Protected <- MCProtected
  Scripted <- MCScripted
  NoPkg = NoPkg
  Options <- MixedOptions
  Overlap = TRUE
  Faults = {"unpack", "script", "render"}
  MaxCommands = 2
  MaxCrashes = 1
INVARIANTS
  TypeOK
  SuccessMeansApplied
PROPERTIES
  BystanderIntact
\* The commands are bounded: after the last one the system is at rest.
CHECK_DEADLOCK FALSE
