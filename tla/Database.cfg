SPECIFICATION Spec
CONSTANTS
  p1 = p1
  p2 = p2
  a = a
  b1 = b1
  b2 = b2
  c = c
  Procs = {p1, p2}
  NoProc = NoProc
  Commands <- MCCommands
  Pkgs <- MCPkgs
  NameOf <- MCNameOf
  Requires <- MCRequires
  Provides <- MCProvides
  Scripted = {b2}
  Repo = {a, b2, c}
  Worlds <- MCWorlds
  Concurrency = 1
  SearchFails = TRUE
  MaxKills = 1
INVARIANTS
  AnswersComplete
  SecondVersionExplained
PROPERTIES
  UsersGone
