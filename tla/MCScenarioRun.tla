--------------------------- MODULE MCScenarioRun ---------------------------
(* Instances of ScenarioRun for TLC.                                       *)
EXTENDS ScenarioRun, TLC

CONSTANTS w1, w2, p1, p2

Identity(S) == [x \in S |-> x]
SubsInOrder == Identity(Subs)
StagesInOrder == Identity(Stages)

(* The directories "1", "10" and "2" as a listing has them: the second and *)
(* the third of three change places.                                       *)
SubsAsStrings == (1 :> 1 @@ 2 :> 3 @@ 3 :> 2)

(* p1 is committed for good in the first stage, p2 in the second.          *)
LastStageEarlyLate == (p1 :> 1 @@ p2 :> 2)
LastStageOne == (p1 :> 1)

Arg(inc, parallel, mode, export) ==
  [inc |-> inc, parallel |-> parallel, mode |-> mode, export |-> export]

SolveArgs == {Arg(inc, par, "solve", TRUE) : inc, par \in BOOLEAN}
SequentialArgs == {Arg(inc, FALSE, "solve", TRUE) : inc \in BOOLEAN}
PoolArgs == SolveArgs \cup {Arg(FALSE, TRUE, "lp_only", TRUE)}

AllArgs == {Arg(inc, FALSE, "solve", exp) : inc, exp \in BOOLEAN}
           \cup {Arg(FALSE, FALSE, m, TRUE) : m \in {"lp_only", "load_xml", "load_highs"}}
           \cup {Arg(FALSE, TRUE, m, TRUE) : m \in {"lp_only", "solve"}}

Symmetry == Permutations(Workers)
=============================================================================
