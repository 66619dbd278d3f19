SPECIFICATION Spec
CONSTANTS
  Versions = {1, 2}
  Creators = {c1, c2}
  Options <- MCOptions
  Scenarios <- MCScenarios
SYMMETRY Symmetry
INVARIANTS
  PublishedConsistent
  EntriesMatchTree
  UpToDateIsCurrent
