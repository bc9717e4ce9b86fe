\* Four generators, two subproblems, horizons of up to three timepoints.
SPECIFICATION Spec
CONSTANTS
  Units <- MCUnits
  HorizonHours <- MCHorizonHours
  LinkedTmps = 2
  Subproblems = 2
  Iterations = {TRUE, FALSE}
INVARIANTS
  CommitmentsAreExact
  CapacityIsExact
  OutagesAreExact
  StateCarriedOver
  StartsAreAsHotAsTheyWere
