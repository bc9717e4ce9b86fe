--------------------------- MODULE ScenarioInputs ---------------------------
(***************************************************************************)
(* gridpath_get_inputs and the scenario directory it writes:               *)
(* gridpath/get_scenario_inputs.py, and the iteration, subproblem and      *)
(* stage structure that gridpath_run reads back from the directories that  *)
(* are there: gridpath/auxiliary/scenario_chars.py.                        *)
(*                                                                         *)
(* Of the three iteration levels one is modelled.                          *)
(***************************************************************************)
EXTENDS Integers, Sequences, FiniteSets

CONSTANTS
  Scenarios,   \* what the database may say of the scenario
  MaxGets,     \* bound on the runs of get_inputs
  NParallel,   \* n_parallel_get_inputs
  Faults       \* subset of {"kill", "raise"}

NoDir == -1

(* Written if the scenario has a solver with options or linked timepoints. *)
OptionalFiles == {"solver_options.csv", "linked_subproblems_map.csv"}
AuxFiles == {"features.csv", "scenario_description.csv"} \cup OptionalFiles

(* The scenario as far as it decides on files: the ids of the iterations   *)
(* ({0}: none), of the subproblems and of the stages in each of them, and  *)
(* which optional files it needs.                                          *)
Scenario == [iterations : (SUBSET Nat) \ {{}}, subproblems : (SUBSET Nat) \ {{}},
             stages : (SUBSET Nat) \ {{}}, optional : SUBSET OptionalFiles]

ASSUME InputsAssumption ==
  /\ Scenarios \subseteq Scenario
  /\ MaxGets \in Nat
  /\ NParallel \in Nat \ {0}

VARIABLES
  dirs,      \* the directories with an inputs directory
  tabs,      \* tabs[d]: the get_inputs all the .tab files of d are of, or 0
  flag,      \* multi_stage_flag.txt is there
  aux,       \* aux[f]: the get_inputs that wrote the auxiliary file f, or 0
  asked,     \* the scenarios that the runs of get_inputs were for
  pc,        \* where the current one is
  step,      \* which auxiliary file it has come to
  todo,      \* directories whose inputs it has yet to write
  writing    \* those whose inputs its workers are writing

vars == <<dirs, tabs, flag, aux, asked, pc, step, todo, writing>>
------------------------------------------------------------------------------
(* The structure of a scenario.                                            *)

IterationFlag(scn) == scn.iterations # {0}
SubproblemFlag(scn) == Cardinality(scn.subproblems) # 1
StageFlag(scn) == Cardinality(scn.stages) # 1

(* The directories of a structure: a level is there when there is more     *)
(* than one item at that level, the subproblems' also when there are       *)
(* stages.                                                                 *)
DirOf(w, s, t, wFlag, sFlag, tFlag) ==
  <<IF wFlag THEN w ELSE NoDir, IF sFlag \/ tFlag THEN s ELSE NoDir,
    IF tFlag THEN t ELSE NoDir>>

(* Bug: the subproblem level is left out when there is one subproblem.     *)
Paths_NoSubproblemLevel(scn) ==
  {DirOf(w, IF SubproblemFlag(scn) THEN s ELSE NoDir, t, IterationFlag(scn),
         SubproblemFlag(scn), StageFlag(scn)) :
     w \in scn.iterations, s \in scn.subproblems, t \in scn.stages}

Paths(scn) ==
  {DirOf(w, s, t, IterationFlag(scn), SubproblemFlag(scn), StageFlag(scn)) :
     w \in scn.iterations, s \in scn.subproblems, t \in scn.stages}

AllPaths == UNION {Paths(scn) : scn \in Scenarios}

------------------------------------------------------------------------------
(* The structure as it is read from disk.                                  *)

Depth(d) == Cardinality({n \in 1..3 : d[n] # NoDir})

IterationsOnDisk == \E d \in dirs : d[1] # NoDir

(* The number of levels of directories that are not iterations.            *)
Layers ==
  (CHOOSE n \in 0..3 : /\ \A d \in dirs : Depth(d) <= n
                       /\ n = 0 \/ \E d \in dirs : Depth(d) = n)
  - (IF IterationsOnDisk THEN 1 ELSE 0)

(* The directories one and two levels under an iteration.  Once one        *)
(* iteration is on disk every directory at the top is taken for one; one   *)
(* that is called after a number yields to the iteration of that number.   *)
IterationsRead ==
  IF ~IterationsOnDisk THEN {0}
  ELSE ({d[1] : d \in dirs} \cup {d[2] : d \in {e \in dirs : e[1] = NoDir}})
       \ {NoDir}

(* Bug: the one called after a number goes before the iteration.           *)
Below_NumberFirst(w) ==
  LET numbered == {d \in dirs : d[1] = NoDir /\ d[2] = w}
  IN IF ~IterationsOnDisk THEN {<<d[2], d[3]>> : d \in dirs}
     ELSE IF numbered # {} THEN {<<d[3], NoDir>> : d \in numbered}
     ELSE {<<d[2], d[3]>> : d \in {e \in dirs : e[1] = w}}

Below(w) ==
  LET named == {d \in dirs : d[1] = w}
  IN IF ~IterationsOnDisk THEN {<<d[2], d[3]>> : d \in dirs}
     ELSE IF named # {} THEN {<<d[2], d[3]>> : d \in named}
     ELSE {<<d[3], NoDir>> : d \in {e \in dirs : e[1] = NoDir /\ e[2] = w}}

Firsts(w) == {b[1] : b \in Below(w)} \ {NoDir}
Seconds(w, s) == {b[2] : b \in {c \in Below(w) : c[1] = s}} \ {NoDir}

(* Two levels are subproblems and stages, and ask for the flag file; a     *)
(* single level is stages if that file is there and subproblems if not.    *)
Readable == Layers = 2 => flag

SubproblemsRead(w) ==
  IF Layers = 2 \/ (Layers = 1 /\ ~flag) THEN Firsts(w) ELSE {1}

StagesRead(w, s) ==
  CASE Layers = 2 -> Seconds(w, s)
    [] Layers = 1 /\ flag -> Firsts(w)
    [] OTHER -> {1}

(* The directories that gridpath_run will look for.                        *)
Visited ==
  UNION {UNION {{DirOf(w, s, t, IterationsOnDisk,
                       Layers = 2 \/ (Layers = 1 /\ ~flag),
                       Layers = 2 \/ (Layers = 1 /\ flag)) :
                   t \in StagesRead(w, s)} :
                 s \in SubproblemsRead(w)} : w \in IterationsRead}

------------------------------------------------------------------------------
Get == Len(asked)
Scn == asked[Get]

(* The auxiliary files in the order in which they are removed and written. *)
(* Bug: a file is added to those that are written, and to these it is not. *)
DeleteOrder_NoMap ==
  <<"features.csv", "scenario_description.csv", "solver_options.csv">>

DeleteOrder ==
  <<"features.csv", "scenario_description.csv", "solver_options.csv",
    "linked_subproblems_map.csv">>

WriteOrder ==
  <<"features.csv", "scenario_description.csv", "solver_options.csv",
    "linked_subproblems_map.csv">>

Init ==
  /\ dirs = {} /\ tabs = [d \in AllPaths |-> 0] /\ flag = FALSE
  /\ aux = [f \in AuxFiles |-> 0] /\ asked = << >>
  /\ pc = "idle" /\ step = 1 /\ todo = {} /\ writing = {}

(* get_inputs reads the structure of the scenario, whatever it was before. *)
Start ==
  /\ pc \in {"idle", "done", "failed"} /\ Get < MaxGets
  /\ \E scn \in Scenarios : asked' = Append(asked, scn)
  /\ pc' = "flag"
  /\ UNCHANGED <<dirs, tabs, flag, aux, step, todo, writing>>

(* It is written if there are stages, and never removed.                   *)
WriteMultiStageFlag ==
  /\ pc = "flag"
  /\ flag' = (flag \/ StageFlag(Scn))
  /\ pc' = "delete" /\ step' = 1
  /\ UNCHANGED <<dirs, tabs, aux, asked, todo, writing>>

DeletePriorAuxFile ==
  /\ pc = "delete" /\ step <= Len(DeleteOrder)
  /\ aux' = [aux EXCEPT ![DeleteOrder[step]] = 0]
  /\ step' = step + 1
  /\ UNCHANGED <<dirs, tabs, flag, asked, pc, todo, writing>>

ListInputs ==
  /\ pc = "delete" /\ step > Len(DeleteOrder)
  /\ todo' = Paths(Scn)
  /\ pc' = "inputs"
  /\ UNCHANGED <<dirs, tabs, flag, aux, asked, step, writing>>

(* Bug: there is a worker more.                                            *)
BeginInputs_OneMore(d) ==
  /\ pc \in {"inputs", "raised"} /\ d \in todo
  /\ Cardinality(writing) <= NParallel
  /\ todo' = todo \ {d} /\ writing' = writing \cup {d}
  /\ dirs' = dirs \cup {d}
  /\ tabs' = [tabs EXCEPT ![d] = 0]
  /\ UNCHANGED <<flag, aux, asked, pc, step>>

(* A worker of the pool, or the program itself, takes a directory, creates *)
(* it if need be and removes the .tab files it finds, also after another   *)
(* task has raised.                                                        *)
BeginInputs(d) ==
  /\ pc \in {"inputs", "raised"} /\ d \in todo
  /\ Cardinality(writing) < NParallel
  /\ todo' = todo \ {d} /\ writing' = writing \cup {d}
  /\ dirs' = dirs \cup {d}
  /\ tabs' = [tabs EXCEPT ![d] = 0]
  /\ UNCHANGED <<flag, aux, asked, pc, step>>

EndInputs(d) ==
  /\ pc \in {"inputs", "raised"} /\ d \in writing
  /\ tabs' = [tabs EXCEPT ![d] = Get]
  /\ writing' = writing \ {d}
  /\ UNCHANGED <<dirs, flag, aux, asked, pc, step, todo>>

(* A module raises.  In a pool the other directories of the same task are  *)
(* dropped, and pool.map raises once all tasks have ended.                 *)
InputsRaise(d) ==
  /\ "raise" \in Faults /\ d \in writing
  /\ writing' = writing \ {d}
  /\ \E rest \in SUBSET todo :
       /\ NParallel = 1 => rest = {}
       /\ todo' = rest
  /\ pc' = "raised"
  /\ UNCHANGED <<dirs, tabs, flag, aux, asked, step>>

Raise ==
  /\ pc = "raised" /\ todo = {} /\ writing = {}
  /\ pc' = "failed"
  /\ UNCHANGED <<dirs, tabs, flag, aux, asked, step, todo, writing>>

(* Bug: the program does not wait for its workers.                         *)
InputsDone_NoWait ==
  /\ pc = "inputs" /\ todo = {}
  /\ pc' = "aux" /\ step' = 1 /\ writing' = {}
  /\ UNCHANGED <<dirs, tabs, flag, aux, asked, todo>>

InputsDone ==
  /\ pc = "inputs" /\ todo = {} /\ writing = {}
  /\ pc' = "aux" /\ step' = 1
  /\ UNCHANGED <<dirs, tabs, flag, aux, asked, todo, writing>>

(* The units, which no other program reads, are left out.                  *)
WriteAuxFile ==
  /\ pc = "aux" /\ step <= Len(WriteOrder)
  /\ aux' = IF WriteOrder[step] \in OptionalFiles \ Scn.optional
              THEN aux ELSE [aux EXCEPT ![WriteOrder[step]] = Get]
  /\ step' = step + 1
  /\ UNCHANGED <<dirs, tabs, flag, asked, pc, todo, writing>>

Finish ==
  /\ pc = "aux" /\ step > Len(WriteOrder)
  /\ pc' = "done"
  /\ UNCHANGED <<dirs, tabs, flag, aux, asked, step, todo, writing>>

(* The program is killed, and its workers with it, as by a signal to the   *)
(* group of processes.                                                     *)
Kill ==
  /\ "kill" \in Faults /\ pc \notin {"idle", "done", "failed"}
  /\ pc' = "failed" /\ step' = 1 /\ todo' = {} /\ writing' = {}
  /\ UNCHANGED <<dirs, tabs, flag, aux, asked>>

Next ==
  \/ Start \/ WriteMultiStageFlag \/ DeletePriorAuxFile \/ ListInputs
  \/ \E d \in AllPaths :
       BeginInputs(d) \/ EndInputs(d) \/ InputsRaise(d)
  \/ Raise \/ InputsDone \/ WriteAuxFile \/ Finish \/ Kill

Spec == Init /\ [][Next]_vars

------------------------------------------------------------------------------
TypeOK ==
  /\ dirs \subseteq AllPaths
  /\ tabs \in [AllPaths -> 0..Get]
  /\ flag \in BOOLEAN
  /\ aux \in [AuxFiles -> 0..Get]
  /\ asked \in Seq(Scenarios)
  /\ pc \in {"idle", "flag", "delete", "inputs", "raised", "aux", "done",
             "failed"}
  /\ step \in 1..5
  /\ todo \subseteq AllPaths /\ writing \subseteq dirs
  /\ todo \cap writing = {} /\ Cardinality(writing) <= NParallel
  /\ pc # "idle" => asked # << >>

(* A directory that can be run, since it has a features.csv, has all the   *)
(* .tab inputs of the same get_inputs (linked_subproblems_map.csv, written *)
(* after features.csv, is not among them): that file is removed before the first    *)
(* .tab file and written after the last (get_scenario_inputs.py main,      *)
(* write_model_inputs), so neither a kill, nor an error in a worker, nor   *)
(* another structure of the scenario leaves a mixture that can be run.     *)
FeaturesMeanInputs ==
  aux["features.csv"] # 0 =>
    \A d \in Paths(asked[aux["features.csv"]]) :
      tabs[d] = aux["features.csv"]

(* e is d or a directory above it.                                         *)
Above(e, d) == \E k \in 0..3 : \A n \in 1..3 :
                 e[n] = IF n <= k THEN d[n] ELSE NoDir

(* Whatever is left of other structures is above a directory of this one.  *)
NothingForeign == \A e \in dirs : \E d \in Paths(Scn) : Above(e, d)

NoStaleFlag == flag => StageFlag(Scn)

(* What gridpath_run reads from a scenario directory is the structure that *)
(* get_inputs wrote (get_scenario_structure_from_disk,                     *)
(* determine_directory_structure_from_scenario_structure): a run visits    *)
(* the directories of the scenario and no other, provided that the flag    *)
(* file is not of another structure, and nothing is left of one but inputs *)
(* in directories above those of the scenario.                             *)
ReadsWhatWasWritten ==
  pc = "done" /\ NothingForeign /\ NoStaleFlag =>
    Readable /\ Visited = Paths(Scn)

(* Whatever other directories are left, as long as they are no deeper and  *)
(* none is of an iteration if the scenario has none, a run visits at least *)
(* those of the scenario (get_scenario_structure_from_disk): old           *)
(* directories can make a run do too much, not too little.                 *)
LosesNothing ==
  /\ pc = "done" /\ NoStaleFlag
  /\ \A e \in dirs, d \in Paths(Scn) : Depth(e) <= Depth(d)
  /\ IterationsOnDisk => IterationFlag(Scn)
  => Readable /\ Paths(Scn) \subseteq Visited

(* All files of a scenario directory that get_inputs has finished are of   *)
(* the scenario it was run for, those of get_scenario_inputs.py main and   *)
(* those of delete_prior_aux_files, whatever failed before: no phantom     *)
(* file links subproblems that are not, or gives options of another        *)
(* solver.                                                                 *)
NoPhantomAux ==
  pc = "done" =>
    \A f \in AuxFiles :
      aux[f] = IF f \in OptionalFiles \ Scn.optional THEN 0 ELSE Get
=============================================================================
