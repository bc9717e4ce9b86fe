\* Two runs of one scenario, both by name, with every fault.
SPECIFICATION Spec
CONSTANTS
  r1 = r1  r2 = r2
  Runs = {r1, r2}
  NamedRuns = {r1, r2}
  NoRun = NoRun
  Plans <- ImportOnly
  Others = FALSE
  MaxAttempts = 2
  Faults = {"raise", "exit", "busy", "signal", "kill"}
INVARIANTS TypeOK OwnLockOnlyAfterFailure EndTimeOfLastRecorded
PROPERTIES CompleteMeansAllSteps
CHECK_DEADLOCK FALSE
