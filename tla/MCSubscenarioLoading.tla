------------------------ MODULE MCSubscenarioLoading ------------------------
(* Instances of SubscenarioLoading for TLC.  "time" is a temporal subscenario *)
(* (its superperiods are not deleted), "chars" are the operational chars of   *)
(* projects, "curve1" and "curve2" two heat rate curves that they name.       *)
EXTENDS SubscenarioLoading, TLC

MCNParts == [i \in Ids |-> IF i = "time" THEN 3 ELSE 2]
MCBaseOf == [i \in Ids |-> IF i \in {"curve1", "curve2"} THEN "chars" ELSE i]
MCChildren == [i \in Ids |-> 2 .. MCNParts[i]]
MCNotDeleted == [i \in Ids |-> IF i = "time" THEN {3} ELSE {}]

Ref(name, ref) == [name |-> name, ref |-> ref]

MCJobs ==
  {[kind |-> "reload", id |-> i] : i \in {"time", "chars", "curve1"}}
  \cup {[kind |-> "load", ids |-> << "time" >>, gap |-> 1],
        [kind |-> "load", ids |-> << "curve1", "curve2" >>, gap |-> 0]}
  \cup {[kind |-> "scenarios", loads |-> << Ref("s1", "chars"), Ref("s2", Null) >>],
        [kind |-> "delete", name |-> "s1"]}
=============================================================================
