\* Linked subproblems, several runs over the same directory with every kind of
\* command line and of answer, faults and kills, against the abstract
\* specification.
SPECIFICATION Spec
CONSTANTS
  w1 = w1  w2 = w2  p1 = p1  p2 = p2
  Subs = {1, 2, 3}
  Stages = {1}
  SubPos <- SubsInOrder
  StagePos <- StagesInOrder
  Linked = TRUE
  Projects = {p1}
  LastStage <- LastStageOne
  Workers = {w1, w2}
  RunArgs <- AllArgs
  Outcomes = {"optimal", "suboptimal", "infeasible", "unsolved"}
  Faults = {"raise", "kill"}
  ChunksPerWorker = 4
  MaxRuns = 3
INVARIANTS LinkedStateCurrent
PROPERTIES ImplementsSchedule
CHECK_DEADLOCK FALSE
