SPECIFICATION Spec
CONSTANTS
  Scenarios <- MCScenarios
  AlwaysRows <- MCAlwaysRows
INVARIANTS
  AllResultsSaved
