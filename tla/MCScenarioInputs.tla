-------------------------- MODULE MCScenarioInputs --------------------------
(* Instances of ScenarioInputs for TLC.                                    *)
EXTENDS ScenarioInputs, TLC

Scn3(w, s, t, files) ==
  [iterations |-> w, subproblems |-> s, stages |-> t, optional |-> files]

(* Every combination of levels, small enough that at most four directories *)
(* are written at once.                                                    *)
Mixed ==
  {Scn3({0}, {1}, {1}, {}), Scn3({0}, {1, 2}, {1}, OptionalFiles),
   Scn3({0}, {1}, {1, 2}, {}), Scn3({0}, {1, 2}, {1, 2}, {}),
   Scn3({1, 2}, {1}, {1}, {"solver_options.csv"}),
   Scn3({0, 1}, {1}, {1, 2}, {}), Scn3({1}, {1, 2}, {1}, OptionalFiles)}

(* With stages and without.                                                *)
StagedOrNot == {Scn3({0}, {1}, {1, 2}, {}), Scn3({0}, {1, 2}, {1}, {})}
=============================================================================
