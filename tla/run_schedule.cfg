\* Three subproblems of two stages, two workers and chunks of two tasks, with
\* fairness, against the abstract specification; the subproblems are "1", "2"
\* and "10".
SPECIFICATION FairSpec
CONSTANTS
  w1 = w1  w2 = w2  p1 = p1  p2 = p2
  Subs = {1, 2, 3}
  Stages = {1, 2}
  SubPos <- SubsAsStrings
  StagePos <- StagesInOrder
  Linked = FALSE
  Projects = {p1}
  LastStage <- LastStageOne
  Workers = {w1, w2}
  RunArgs <- SolveArgs
  Outcomes = {"optimal"}
  Faults = {"raise"}
  ChunksPerWorker = 1
  MaxRuns = 2
PROPERTIES ResumeKeepsComplete RunEnds ImplementsSchedule
CHECK_DEADLOCK FALSE
