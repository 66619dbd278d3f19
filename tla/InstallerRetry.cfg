SPECIFICATION FairSpec
CONSTANTS
  Pkgs <- MCPkgs
  Names <- MCNames
  NameOf <- MCNameOf
  Files <- MCFiles
  FilesOf <- MCFilesOf
  Protected <- MCProtected
  Scripted <- MCScripted
  NoPkg = NoPkg
  Options <- ForceOptions
  Overlap = FALSE
  Faults = {"unpack"}
  MaxCommands = 3
  MaxCrashes = 1
INVARIANTS
  OneVersionPerName
  NoOrphanFinalizer
  ForceUninstallCompletes
  CollectionsAgree
PROPERTIES
  ImplementsInstalledSet
  CommandsEnd
\* The commands are bounded: after the last one the system is at rest.
CHECK_DEADLOCK FALSE
