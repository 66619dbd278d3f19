\* Searches of every kind, and the downloads of a locked command and of the
\* miner that share the package cache.
SPECIFICATION Spec
CONSTANTS
  Concurrency = 1
  Searches <- MCSearches
  Wanted <- MCWanted
  Files = {"f", "g"}
  Clients = {"disk", "http", "docker"}
  Urls = 2
  MaxFaults = 2
  MaxPublish = 1
  MaxCommands = 1
  MaxClean = 1
INVARIANTS
  NothingLost
  FailsForAReason
  ReadyIsWhole
PROPERTIES
  SearchEnds
CHECK_DEADLOCK FALSE
