\* Two subproblems of two stages, solved by the main process or by two workers,
\* from scratch or resumed, by processes that raise or are killed.
SPECIFICATION Spec
CONSTANTS
  w1 = w1  w2 = w2  p1 = p1  p2 = p2
  Subs = {1, 2}
  Stages = {1, 2}
  SubPos <- SubsInOrder
  StagePos <- StagesInOrder
  Linked = FALSE
  Projects = {p1, p2}
  LastStage <- LastStageEarlyLate
  Workers = {w1, w2}
  RunArgs <- PoolArgs
  Outcomes = {"optimal", "infeasible"}
  Faults = {"raise", "kill"}
  ChunksPerWorker = 4
  MaxRuns = 2
SYMMETRY Symmetry
INVARIANTS TypeOK OneWorkerPerSubproblem CommitmentFromPrevStage PassThroughOfOneRun SettledHasResults
CHECK_DEADLOCK FALSE
