\* A kill between two stages, then a resumption.
SPECIFICATION Spec
CONSTANTS
  w1 = w1  w2 = w2  p1 = p1  p2 = p2
  Subs = {1, 2}
  Stages = {1, 2}
  SubPos <- SubsInOrder
  StagePos <- StagesInOrder
  Linked = FALSE
  Projects = {p1}
  LastStage <- LastStageOne
  Workers = {w1, w2}
  RunArgs <- SequentialArgs
  Outcomes = {"optimal"}
  Faults = {"kill"}
  ChunksPerWorker = 4
  MaxRuns = 2
INVARIANTS FixedOnceCommitted
CHECK_DEADLOCK FALSE
