\* Everything, nothing, one feature, all but one, and each type alone.
SPECIFICATION Spec
CONSTANTS
  Scenarios <- MCScenarios
  AlwaysRows <- MCAlwaysRows
INVARIANTS
  ComponentsAreThere
  NothingIsFree
  FilesAgree
  ResultsReachTheDatabase
PROPERTIES
  NothingLost
  ModulesArranged
