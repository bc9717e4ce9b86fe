\* Two processes of every kind, on a database with or without earlier data.
SPECIFICATION FairSpec
CONSTANTS
  Procs = {"p", "q"}
  Jobs <- MCJobs
  Ids = {"time", "chars", "curve1", "curve2"}
  NParts <- MCNParts
  BaseOf <- MCBaseOf
  Children <- MCChildren
  NotDeleted <- MCNotDeleted
  Names = {"s1", "s2"}
  Null = "null"
  Nobody = "nobody"
  Earlier = "earlier"
INVARIANTS TypeOK LoadedAsAWhole
PROPERTIES ReferencesKept LoadersEnd
CHECK_DEADLOCK FALSE
