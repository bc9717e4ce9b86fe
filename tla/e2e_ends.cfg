\* One run with fair steps, beside programs that may never give the lock back.
SPECIFICATION FairSpec
CONSTANTS
  r1 = r1  r2 = r2
  Runs = {r1}
  NamedRuns = {r1}
  NoRun = NoRun
  Plans <- AllPlans
  Others = TRUE
  MaxAttempts = 3
  Faults = {"raise", "exit", "busy", "signal", "kill"}
PROPERTIES EndedIsRecorded RunEnds
CHECK_DEADLOCK FALSE
