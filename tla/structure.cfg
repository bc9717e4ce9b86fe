\* Two runs of get_inputs for structures with every combination of levels, by
\* two workers, killed or failing anywhere.
SPECIFICATION Spec
CONSTANTS
  Scenarios <- Mixed
  MaxGets = 2
  NParallel = 2
  Faults = {"kill", "raise"}
INVARIANTS TypeOK FeaturesMeanInputs ReadsWhatWasWritten LosesNothing
  NoPhantomAux
CHECK_DEADLOCK FALSE
