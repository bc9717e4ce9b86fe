----------------------------- MODULE MCEndToEnd -----------------------------
(* Instances of EndToEnd for TLC.                                          *)
EXTENDS EndToEnd, TLC

CONSTANTS r1, r2

AllPlans == {Steps, {"run_scenario", "import_results"}, {"import_results"}}
ImportOnly == {{"import_results"}}
=============================================================================
