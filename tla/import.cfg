\* Two directories, two tables one of which an optional feature fills, two
\* imports cut short at will, and a database that others lock for longer than
\* the import is ready to wait.
SPECIFICATION Spec
CONSTANTS
  capacity = capacity  dispatch = dispatch
  NDirs = 2
  Tables = {capacity, dispatch}
  ModuleSets <- OneOrBoth
  Rules <- AllOrFirst
  MaxImports = 2
  Faults = {"kill", "lock"}
INVARIANTS TypeOK OneImport DoneMirrorsFiles
PROPERTIES ResultsNeverVanish
CHECK_DEADLOCK FALSE
