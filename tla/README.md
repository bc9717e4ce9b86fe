# GridPath: models, model checking and proofs

GridPath is a power-system planning platform. A *scenario* is a row of an
SQLite database that names the inputs to use; four programs carry it from there
to results:

```
  database --gridpath_get_inputs--> scenario directory --gridpath_run--> results files
  results files --gridpath_import_results--> database --gridpath_process_results--> database
```

`gridpath_run_e2e` does the four in one process and records how far it got in the scenario's row. Two more, `db/utilities/port_csvs_to_db.py` and
`scenario.py`, load the inputs and the scenarios into the database. Three kinds
of things are modelled here:

- *the programs*: which files and rows exist, who wrote them, in which order,
  and what is left when a process fails, is killed, waits for a lock in vain, or
  starts again on what another one left behind;
- *the formulation as a system of 297 modules*: GridPath builds its optimization
  problem out of modules that know each other only by names: of Pyomo
  components, of dynamic lists, of functions of types, of input files, data
  frames, CSV files and columns. Which modules a scenario gets, and whether
  whatever one of them names is there when it is used, is modelled for all of
  them;
- *unit commitment*: the one part of the formulation whose meaning is discrete
  (units are on or off, windows of timepoints, hand-over between subproblems) is
  modelled in full. The other constraints are over real numbers and are left to
  the solver.

Paths below are relative to the repository root.

## 1. The system

### 1.1 Components, their state and operations

| Component | Source | State it keeps | Operations |
|---|---|---|---|
| Scenario inputs | `gridpath/get_scenario_inputs.py` | the scenario directory: directories per iteration, subproblem and stage, `.tab` files, auxiliary CSV files, `multi_stage_flag.txt` | delete prior files, write the inputs of every directory (alone or by a pool), write the auxiliary files |
| Scenario structure | `gridpath/auxiliary/scenario_chars.py` | none: it reads the structure from the database, or from the directories that are there | `get_scenario_structure_from_db`, `..._from_disk`, `determine_directory_structure_from_scenario_structure` |
| Running a scenario | `gridpath/run_scenario.py`, `gridpath/project/operations/operational_types/...`, `gridpath/system/markets/fix_market_participation.py` | per (subproblem, stage): solver status, termination condition, results CSVs, objective, duals, saved problem files; per subproblem: `pass_through_inputs/fixed_commitment.tab`; linked inputs | solve alone or with a pool, `--incomplete_only`, `--create_lp_problem_file_only`, `--load_cplex_solution` and the like, saving of results, hand-over to the next stage and the next subproblem |
| Results import | `gridpath/import_scenario_results.py`, `gridpath/auxiliary/db_interface.py`, `gridpath/auxiliary/import_export_rules.py` | `results_*` tables | delete the old results, insert those of each directory, CSV file by CSV file |
| Results processing | `gridpath/process_results.py`, `process_results` of 20 modules and types | `results_*` tables | update columns of imported tables; delete and refill tables of aggregates |
| End-to-end run | `gridpath/run_end_to_end.py`, `db/common_functions.py` | the row in `scenarios`: status, process id, queue order, start and end time; the write lock | run the steps, record the status, handle SIGTERM/SIGINT, spin on the lock |
| Running several scenarios | `gridpath/run_scenario_parallel.py` | none | a pool over scenarios |
| Input validation | `gridpath/validate_inputs.py` | validation table and status | validate |
| Loading | `db/utilities/*.py` | subscenario tables, the `scenarios` table; the write lock | load everything, one subscenario or one id, with or without deleting it first; load and delete scenarios; ask the user in between |
| Choice of modules | `gridpath/auxiliary/module_list.py`, `auxiliary.py` | the ordered list of modules of a scenario; the types its projects use | `determine_modules`, `load_modules`, `get_required_subtype_modules`, `load_subtype_modules` |
| Formulation | `gridpath/temporal`, `geography`, `project`, `transmission`, `system`, `objective` | the abstract model and its instance, the dynamic lists (`dynamic_components.py`), the data frames of results | of each module: `write_model_inputs`, `add_model_components`, `load_model_data`, `export_results`, `import_results_into_database`, `process_results` |
| Unit commitment | `project/operations/operational_types/common_functions.py`, `gen_commit_unit_common.py`, `gen_commit_cap.py`, `availability_types/binary.py` | commitment of a subproblem; linked timepoints handed to the next | constraints on commitment, starts, shutdowns, start types and outages; hand-over |
| Database creation | `db/create_database.py`, `db_schema.sql` | the schema | create once |
| Data toolkit, visualization | `data_toolkit`, `viz` | none that another program sees | |

### 1.2 How they interact

- **Through the scenario directory.** `get_inputs` writes it; `run` infers the
  structure of the scenario from the directories it finds and writes results
  beside the inputs; `import` reads the results. No program locks it, and none
  removes all of what an earlier one left.
- **Through the database.** SQLite has one write lock. A statement goes through
  `spin_on_database_lock`, which tries a number of times and sleeps in between.
  A process may have several connections, which contend with each other.
- **Between stages and subproblems.** A stage appends its final commitments to
  `fixed_commitment.tab`, from which every later stage reads; a linked
  subproblem starts from files the previous one wrote into its inputs.
- **Between processes.** `run` and `get_inputs` use `multiprocessing` pools,
  which cut the work into chunks, keep an exception until all tasks have
  ended, and lose a worker that exits.
- **Between modules.** All modules of a scenario are called in the order of one
  list, phase by phase: inputs are written, components declared, data loaded,
  the instance built, results exported, imported and processed. A module of a family
  (capacity types, operational types, ...) is called by the module that loads
  the family, by the name of a function, with a default if it has none.
- **Through foreign keys.** A scenario names the ids of its inputs. To reload an
  id the loader sets the references to it to NULL, deletes and inserts its rows,
  and puts the references back.
- **Callbacks.** The signal handler of `run_end_to_end` runs in the middle of
  the main program, whose transaction may be open.

### 1.3 What is hard, and what makes each component correct

The full list, each entry at its line, is under `hazards` in `PROJECT.json`.

| Component | Hard | Correct means |
|---|---|---|
| Running a scenario | pool workers in any order; chunks cut short by exceptions; kills between two files; resumption on what is left; answers other than optimal | one writer per subproblem; a stage is fixed to what the stage before it decided, in this run; files of a settled pair are of one run; success means nothing was dropped; every run ends |
| End-to-end run | the handler, and the handling of an exception, need a lock the same process holds; a wait that gives up without an error; two runs of one scenario | "complete" only after every step; every run ends; the row shows how an undisturbed run ended; of two runs each leaves the other's times alone |
| Results import | a commit after each CSV file; a kill or an error in between; another set of modules or another rule the next time; a lock that is not released | results in the database are of one import and hang together; a finished import mirrors the directories; results never vanish |
| Inputs and structure | directories of an earlier structure; several workers, one raising; kills; the structure inferred from depth | what can be run is whole; what is read is what was written; no phantom files |
| Loading | a reload reads which scenarios use an id, asks its user, and only then takes the lock; parts of an id in several tables; a user who never answers while a transaction is open | every scenario keeps its references; an id is in the database as a whole or not at all; no process waits for ever |
| Results processing | the order of the modules: columns updated by one are read by another, tables are shared | what is summed was imported or updated; no module deletes the aggregates of another |
| Choice of modules and formulation | the order of some 200 names carries all dependencies, for each combination of features and types; names repeated in writing, loading, exporting, importing and the schema; lists nobody sums; functions nobody calls | what a module uses is there; nothing costs nothing; no result is lost between the solver and the database |
| Unit commitment | windows over timepoints of unequal length, round a circular horizon, into the previous subproblem | exactly the commitments that keep the minimum times are feasible, across subproblems too |
| Validation | a status that is committed on another connection | the status matches the table |

## 2. Modules

| Module | Models | Role |
|---|---|---|
| `StageSchedule` | the promise of a run | abstract specification: pairs are settled in order, success only when none is left |
| `ScenarioRun` | `gridpath_run` | detailed specification, refines `StageSchedule` |
| `EndToEnd` | `gridpath_run_e2e` and the spin on the lock | row, lock, main program, signal handler |
| `ImportResults` | `gridpath_import_results` | files, committed rows, rows the open transaction sees |
| `ScenarioInputs` | `gridpath_get_inputs`, and the reading of the structure by `gridpath_run` | directories, files, the scenario they are of |
| `SubscenarioLoading` | `port_csvs_to_db.py`, `scenario.py`, `db/utilities/common_functions.py` | processes with a database, a lock and users |
| `Formulation` | the phases of a scenario through its modules | composes the modules below |
| `Arrangement` | nothing of its own: what the table of modules must say for any scenario to work | the assumption the proofs about `Formulation` rest on (`Arranged`), and the scenarios the modules are meant for (`Fits`) |
| `ModuleChoice` | `module_list.py` | the list of modules, and what each feature removes |
| `GridPathModule` | the functions every module may have | the record that describes a module |
| `TemporalModules`, `GeographyModules`, `ProjectModules`, `TransmissionModules`, `SystemModules`, `PolicyModules`, `ObjectiveModules` | the modules of each package | one record per module and phase |
| `CapacityTypes`, `OperationalTypes` | the types projects and lines may have | the same, with the functions they offer |
| `ReserveFunctions` | the functions that the seven reserve products share | operators of the names each product calls them with |
| `ResultsSchema` | results tables of `db_schema.sql` | columns by CSV file |
| `ResultsProcessing` | `process_results` of modules and types | what each reads, updates and refills |
| `Commitment` | unit commitment | pure operators, and a machine that solves one linked subproblem after the other |
| `MC...` | instances for TLC | values of the constants, symmetry |
| `ScenarioRun_proofs`, `ImportResults_proofs`, `ScenarioInputs_proofs`, `EndToEnd_proofs`, `SubscenarioLoading_proofs`, `Commitment_proofs`, `CommitmentWindows_proofs`, `Formulation_proofs` | theorems | proofs for every value of the constants |

Definitions named `X_Something` beside a definition `X`, commented `Bug:`, are
variants with a plausible mistake. Nothing uses them; each has been put in the
place of `X` once to see that a property notices (`mutants` in `PROJECT.json`;
several for the properties that are conjunctions of named parts).

### 2.1 ScenarioRun

State and code:

- Contents of files are abstracted to *the number of the run that wrote them*.
  `status`, `term`/`termRun`, `csv`, `obj`, `duals` are the files of
  `save_results` and of `save_objective_function_value`/`save_duals`; `rows` is
  the content of `fixed_commitment.tab` as rows (project, stage, run);
  `linkedIn` is the file a linked subproblem reads; `prob` the saved problem
  files.
- The main process: `phase` (idle, writing pass-through headers, alone, in a
  pool), `args` (the command line), `pending` and `chunk` (the queue of
  `pool.map`), `failed` (an exception the pool keeps), `lost` (a task whose
  worker left by `SystemExit`), `settled` (a history of what this run is done
  with, from which the refinement is read).
- A worker: `mine` (its chunk), `sub`, `todo`, `stage` (its loops), `pc`, and
  what it has in memory: solver answer, fixed commitments, linked state.

Each file is written by an action of its own, in the order of the code, so a
kill may fall between any two. `Raise` is an exception of any step that reads,
solves or writes: alone it ends the run; in a pool it drops the rest of the
chunk and is reported at the end. `SubPos` and `StagePos` are the order of the
directory listing, which is an order of strings and a parameter for that
reason. `StageSchedule` is instantiated twice: `Listed` in that order, and
`Schedule` in the order of the numbers, in which commitments and end states are
handed over and which `ImplementsSchedule` asks for.

Abstractions: the iteration levels are taken as one; all subproblems have the
same stages; one kind of stage pass-through (`fixed_commitment.tab`; the market
positions of `fix_market_participation` follow the same protocol); a kill takes
the workers with it; the solver answers with status ok (optimal, or "suboptimal"
for every other condition with that status, exported all the same), infeasible
or "something else"; the CSV files of a pair and the state handed to the next
subproblem are written by one loop and are one step, and the summary CSV files
are left out; the inputs of a run do not change under it (`DeletePriorInputs` only
happens between runs).

### 2.2 EndToEnd

`row` is the row as committed, `lock` the owner and connection of the open
write transaction. Each of the five updates of the main program (status
running, process id, removal from the queue, final status, end time) is a
statement (`Update`) and a commit (`Commit`). `Spin` is
`spin_on_database_lock`: its last attempt ends the loop *without* executing
the statement and *without* exiting, since `i` never equals `max_attempts`;
`missed` remembers it. Steps that write have a connection of their own
(`StepWrites`, `StepSpins`, `StepCommits`). `Signal` starts the handler at any
point of the main program, which stands still while the handler runs.

Faults: `raise` (an exception in a step; whether its transaction stays open
depends on who raised), `exit` (`sys.exit`, which `except Exception` does not
catch), `busy` (a commit that raises because of a reader), `signal`, `kill`.

Abstractions: the four steps are one transaction each, at most; what they do is
in the other modules. Readers are only there in `busy`. A second signal during
the handler is not modelled, and nobody puts the scenario into the queue anew while
it runs.

### 2.3 ImportResults

`files[d]` is what a results directory holds: status, termination condition,
CSV files, objective. `SaveResults` puts there whatever `save_results` may
leave on top of what was there, cut short or not, when no import is under way.
`db` are the committed rows (by the import that inserted them), `draft` what the
import's connection sees. `ImportCsv` commits everything so far, as pandas
`to_sql` does on a connection; deletions and the rows of `results_scenario`
become visible with the next such commit, or with the last.

`ReadStatus` keeps the value of the directory before when a status file is not
there and `--ignore_incomplete` lets the import go on, as the local variable of
the loop does.

Abstractions: rows are named by directory; the UPDATE of the objective value
changes no row (it compares integer columns with directory names); one import
at a time.

### 2.4 ScenarioInputs

A directory is `<<iteration, subproblem, stage>>` with `-1` for a level that is
not there. `dirs`, `tabs`, `flag`, `aux` are the scenario directory; `asked`
remembers which scenario each run of `get_inputs` was for; `pc`, `step`,
`todo`, `writing` are the program and its pool. `Paths` are the directories the
code derives from a structure, `Visited` those a run would look for, computed
from `dirs` and `flag` as `get_scenario_structure_from_disk` does: depth first,
then the flag, with every directory at the top an iteration as soon as one is.

Abstractions: one of three iteration levels; the `.tab` files of a directory
are one item; the units file is left out, since no other program reads it; a kill
takes the pool's workers with it; `FeaturesMeanInputs` is about the `.tab` files, not
about the map of linked subproblems, which is written after `features.csv` (section
4).

### 2.5 SubscenarioLoading

`committed` is the database as every connection reads it, `work` what the
process that holds the write lock (`writer`) sees. The rows of an id are in
`NParts` tables, of which part 1 is its name and the others are deleted and
inserted in the order of `csv_structure.csv`; the value of a part is the process
that inserted it. `scenarios` is a function from row numbers to a name and the
id in the column at hand. An id of a project (`sub_input_flag`) has no column of
its own: `BaseOf` gives the id whose main rows name it (`InBase`), by which
scenarios use it. A process has a `job`, and executes the fixed sequence
of statements of that job (`Program`): `Reload`, `Load`, `LoadScenarios` and
`DeleteScenario` are translated from `port_csvs_to_db.py` and `scenario.py` with
the calls they make, and each kind of statement is an action. A
statement that finds the lock taken is retried by SQLite and by
`spin_on_database_lock`, and then passed over (`GiveUp`, `lockedOut`); a commit
or a failed constraint, a refusal and a kill end the transaction as the code
does. `AUTOINCREMENT` (a row number is not given twice) and the foreign keys
come from `db_schema.sql`.

Abstractions: the first CSV file of an id carries its name and main rows; a
scenario refers to at most one modelled id; an UPDATE that matches no row is left
out; a load of everything is one of one subscenario at a time; no copies of
defaults, no custom temporal method, and foreign keys always enforced; readers do
not block (the database is in WAL mode); `update_scenario_*` is called by
nothing. What the rows say is not modelled.

### 2.6 Formulation

One record per module and phase (`GridPathModule`) says which names the function
of that phase uses: `model` (components declared; those its sets and domains are
`over`; those its rules read, for some types only, or only if they are there;
what it puts on dynamic lists and which lists it sums; the functions it calls of
types), `loads` (files it must and may find), `writes`, `results` (frames it
creates, columns it assigns, files it saves), `imports`. Components nobody else
uses are left out, so a record is far shorter than its module. `Formulation`
takes a scenario (features, types, whether it has stages, whether optional
tables have rows) through `ChooseModules` and the phases, one module at a time
in the order of `selected`: `WriteInputs`, `DeclareComponents`, `LoadData`,
`BuildComponents`, `ExportResults`, `ImportResults`, `ProcessResults`. What the
last does is in `ResultsProcessing`: columns read, columns updated (found by name
in the schema, as the code does), tables of aggregates refilled. Pyomo matters here in two
ways: a name that is not declared yet is an error when a component is declared,
and one that is not constructed yet when a rule is evaluated (`BuildComponents`
follows the order of declaration). Modules of a family act when the module that
loads them does (`TypeLoaders`).

Exceptions found while modelling are named sets beside the property they would
violate (`NeverDeclared`, `NeverCalled`, `NoReserveTypes`, `Emptied`,
`SavedTooEarly`, `NeverImported`, `MisnamedColumns`, `HandsOverUnread`,
`SavedWithout`, `FilledTwice`), each with its line in the source.

`determine_modules` removes names from a list one by one; `Only` is what is left of
it, in its order. Where the code goes through a list made from a set, the types come
in any order (`Orders`), and of several that reset a column the last keeps it
(`LastOf`).

`Arrangement` is about the table alone. A *role* is a module, or a type that a module
calls, in a phase. `Wants` gives the sets of features with which a module is in use,
`Brings(x, y)` says that role `y` is played in every scenario in which `x` is, and
`Position` is the place in `all_modules_list`. `Arranged` says, in eight parts, that
for whatever a role needs there is a role that provides it, is brought by the first,
and has a lower position where the order matters. `Fits` leaves out scenarios the
modules are not meant for, each for a reason in the code: features of transmission
without transmission, `gen_hydro_water` without the water system, energy-only
capacity without the feature of deliverability or the feature without it, losses of
storage counted where nothing is stored, no project that may provide reserves, and
limits on startups without a type that has startups.

Abstractions: values, units, bounds and expressions; which members a set has;
components that are only read when results are exported (the flows of each
transmission type in `transmission_target_contributions.py:301-313`); the iteration
directories, so that files opened without one of them are not seen
(`dr_new.py:402-426` leaves out the weather iteration).
Whether a query returns rows is one choice for all tables that may be empty.

### 2.7 Commitment

`RelevantTmps` and `RelevantLinked` are `determine_relevant_timepoints`: which
timepoints before `t` a window of so many hours holds, given the boundary of the
horizon and the linked timepoints. On them rest `binary_logic`, `min_up_time`
and `min_down_time` of `gen_commit_bin`/`gen_commit_lin`, their counterparts for
capacity in `gen_commit_cap`, `active_startup_type`, and the outages of
availability type `binary`. `Feasible` is the set of solutions of these
constraints over 0/1 variables. The machine loads a subproblem, takes any
feasible solution (`Solve`), hands the last timepoints over (`HandedOver`) and
goes on. Properties are stated without windows, in hours of a clock.

Abstractions: no power, ramps or costs; a unit has any number of start types, or none
if it has no startup characteristics; of several that are left the solver takes the
hottest, which costs least; iteration directories only decide whether
a hand-over file can be written.

## 3. Runs

The runs of `PROJECT.json`. `CHECK_DEADLOCK FALSE` where programs stop and the
number of their runs is bounded; `Formulation` and `Commitment` end in a state
of their own (`Done`) and are checked for deadlock.

| Run | Instance | Checks |
|---|---|---|
| `run_pool` | 2 subproblems of 2 stages, 2 workers, 2 runs with any of 5 command lines, kills and exceptions; 813 thousand states | `TypeOK`, `OneWorkerPerSubproblem`, `CommitmentFromPrevStage`, `PassThroughOfOneRun`, `SettledHasResults` |
| `run_schedule` | 3 subproblems of 2 stages whose directories are listed as "1", "10", "2", 2 workers, chunks of 2, exceptions, fairness, 2 runs; 415 thousand states | `ImplementsSchedule` (refinement), `RunEnds`, `ResumeKeepsComplete` |
| `run_linked` | 3 linked subproblems, 3 runs, all command lines and answers, kills and exceptions; 1.5 million states | `LinkedStateCurrent`, `ImplementsSchedule` |
| `e2e` | two runs of a scenario, both by name, 2 attempts, all faults; 1.3 million states | `TypeOK`, `OwnLockOnlyAfterFailure`, `EndTimeOfLastRecorded`, `CompleteMeansAllSteps` |
| `e2e_ends` | one run, all plans and faults, other programs that may never give the lock back, 3 attempts; 20 thousand states | `RunEnds`, `EndedIsRecorded` |
| `import` | 2 directories, 2 tables, 2 module sets, 2 rules, 2 imports, kills and locks; 1.8 million states | `TypeOK`, `OneImport`, `DoneMirrorsFiles`, `ResultsNeverVanish` |
| `structure` | 7 structures with every combination of levels, 2 runs of `get_inputs`, 2 workers, kills and errors; 188 thousand states | `TypeOK`, `FeaturesMeanInputs`, `ReadsWhatWasWritten`, `LosesNothing`, `NoPhantomAux` |
| `formulation` | every feature, none, one of each with what it requires, all but one; every type alone; 126 scenarios; 50 thousand states | `ComponentsAreThere` (with `RemovalsFindTheirModule`), `NothingIsFree`, `FilesAgree`, `ResultsReachTheDatabase`, `NothingLost`, `ModulesArranged` |
| `commitment` | 4 units, 2 subproblems of up to 3 timepoints of 1 or 2 hours, linear, circular and linked; 47 thousand states | `CommitmentsAreExact`, `CapacityIsExact`, `OutagesAreExact`, `StateCarriedOver`, `StartsAreAsHotAsTheyWere` |
| `database` | 2 processes with any of the jobs, 2 ids in 3 tables, 2 scenario names, a database with or without earlier data; 416 thousand states | `TypeOK`, `LoadedAsAWhole`, `ReferencesKept`, `LoadersEnd` |

What they show, in words:

- **run_pool.** Whatever a first run leaves when it is killed or fails, and
  however a second goes on from there, resumed or not, alone or with a pool:
  no two workers are in one subproblem; a stage is fixed to exactly what the
  stage before it decided in the same run; no pass-through file has rows of
  two runs; a pair the run was done with has all its files, all its own.
- **run_schedule.** A run carried out by workers that take chunks of two
  settles the stages of each subproblem in the order of their numbers, and reports
  success only when nothing is left, though an exception may have taken the rest of
  a chunk with it; every run ends, as long as it solves; and a resumed run changes
  no file of a pair that had its termination condition.
- **run_linked.** The linked inputs of a subproblem are the end state just
  reached if the run exports results, also when problems are only written,
  loaded or resumed; linked subproblems are settled one after the other, each
  after all those before it. Their numbers have one digit here, so that the listing
  has them in order; with "1", "10", "2" the run fails, since "10" lacks the state
  that "9" would have handed to it.
- **e2e, e2e_ends.** No interleaving of two runs, their handlers and their
  steps writes "complete" for a run that has not done its steps. The run whose
  process id the row shows has its end time there exactly when it is done, unless it
  gave up an update: the end of an earlier run, which may come after the later one
  took over the row, does not count as its own (the *status* of the later run is not
  protected like that). A run that waits for a lock
  held by its own process ends all the same, since the number of attempts is
  bounded. A run that had the scenario to itself and missed no update leaves
  the row as it must.
- **import.** Although every CSV file is a transaction of its own, the tables
  never mix two imports, as long as no statement was given up on; a finished
  import mirrors the directories; old results disappear only together with the
  first new ones.
- **structure.** A directory with a `features.csv` has whole inputs of the run
  of `get_inputs` that wrote that file; the run reads the structure that was
  written, provided nothing foreign is left; foreign directories make it visit
  too much, never too little.

- **formulation.** `determine_modules` never removes a module twice. In every
  phase a module finds what it uses: components declared before they are indexed
  over and constructed before a rule reads them, also where a rule asks `hasattr`
  and would take a default without a word; files written before they are loaded,
  and none written that nobody loads; frames that exist. What is put on a list
  is summed, every relaxed constraint has its price in the objective, reserves
  take room from the power of a project. What a module puts on a list or in a
  frame stays there, and gets into a file, from the file into a table, under a
  column the table has, and from there into the tables of aggregates, which no
  other module empties. All of it but for the exceptions of section 4. And not for
  these scenarios alone: `ModulesArranged` looks at the table of modules, without a
  scenario, and finds for everything a module or type needs one that provides it
  early enough and is in use whenever the first is (section 5).
- **commitment.** The constraints over windows admit exactly the commitments
  that keep the minimum times in hours; capacity is feasible exactly if so many
  units can share it (of two units this is checked in linear horizons); outages
  likewise, but not in linked horizons, which the module does not support. Minimum
  times hold across subproblems as far back as timepoints are handed over, a start
  or shutdown is flagged exactly when the commitment changes, and a start is as
  hot as the time the unit was off says, unless no timepoint starts between two
  cutoffs.
- **database.** Although a reload selects the scenarios that use an id long
  before it has the lock, and others delete, create and reload meanwhile, no
  scenario loses or gains a reference by it. An id is in the database as a whole or
  not at all, unless everything is loaded at once (which commits between the rows
  of `csv_structure.csv`) or a process was locked out. Every process ends, or asks
  its user, even if the user of another keeps the lock for ever.

### 3.1 Bounds, and why they are enough

- *Two runs* (`MaxRuns`, `MaxImports`, `MaxGets` = 2): what a run finds is what
  the one before left, and "left by an earlier one" is the same for every
  earlier one. `run_linked` has three, since a state may pass through a run
  that only loads.
- *Two stages, two or three subproblems*: first and later stage; first, middle
  and last linked subproblem. Two projects, one committed for good in the first
  stage and one in the second, tell the final commitment stages apart.
- *Two workers, chunks of one and of two* (`ChunksPerWorker` 4, the value of
  `multiprocessing`, and 1): with 1 a chunk holds more than one subproblem
  without 8 subproblems to fill the queue.
- *Attempts* (`MaxAttempts`) 2 or 3 instead of 61: the last attempt, and one
  that is not the last.
- *126 scenarios* of 2^31 sets of features: a module is left out by one feature or by a pair
  that must both be there, so that "everything", "all but one" and "only one" make
  each dependency on a module fail that depends on its feature. A type depends on
  features, and one on another type. The proofs do without this bound.
- *Horizons of up to three timepoints*, of unequal length, and minimum times of
  less than one and of more than all of them: windows that end inside a timepoint,
  wrap around, and reach one or two linked timepoints.
- *Two processes, four ids, two or three tables*: an id with a table that the
  deletion leaves out, and one whose main rows name two ids of projects, of which
  one is reloaded; a second process is any other one between two statements.
- *Runs given the name* in `e2e`: a run given only the id records no process id, so
  that the row never shows it; the proofs allow any of the runs to be so.
- *Symmetry* on workers in `run_pool`, which has invariants only: all workers are
  alike.

### 3.2 Fairness

`ScenarioRun!FairSpec`: weak fairness of the main process's step and of each
worker's: a process that can take a step is scheduled by the operating system.
Nobody has to start a run, and faults need not happen. `EndToEnd!FairSpec`:
weak fairness of the main program and of the handler of each run. Nothing
obliges other programs to release the lock, since nothing in the code does.
The solver is taken to answer. `SubscenarioLoading!FairSpec`: weak fairness of
the next statement of each process; a user need never answer, and a process that
asks has not ended.

## 4. Where code and documentation differ

Two runs check a sentence of the repository and find it violated; `findings` in
`PROJECT.json` quotes the line.

| Run | The sentence | The code |
|---|---|---|
| `bad_resume_commitment` | projects committed in a prior stage have their commitment fixed (`FixedOnceCommitted`) | a resumed run empties `fixed_commitment.tab` and then skips the stages that filled it |
| `bad_results_lost` | `consolidate_results` exports what the modules have added to the frame of transmission operations (`AllResultsSaved`) | it does so before hurdle costs, carbon emissions and contributions to transmission targets have their turn |

The models show more, each an exception named at a property, an abstraction or a
provision of one, and a hazard in `PROJECT.json` where it is more than a slip.

*Programs.* A failed step, or a stop signal on top of an open transaction, leaves
the row "running": the update waits for a lock its own process holds and gives up
without a word (`run_end_to_end.py:414`, `:507`). `--ignore_incomplete` does not
ignore a directory without a status (`import_scenario_results.py:210-215`).
`multi_stage_flag.txt` outlives the structure it was written for
(`get_scenario_inputs.py:439`). Ten and more linked subproblems, or stages, are
run in the order of their names as strings (`scenario_chars.py:742`): a run of
linked ones fails at "10", for which nothing is handed on yet; stages fail likewise
once a commitment is passed on, and until then are solved in the wrong order
(`ImplementsSchedule` fails). `i == max_attempts` cannot happen
(`db/common_functions.py:104`), and `spin_on_database_lock_generic` cannot retry
(`:122`).

*Database.* `scenario.py:414` asks its user while it holds the write lock.
`inputs_temporal_superperiods` is never deleted
(`db/utilities/common_functions.py:603-613`), so an id with superperiods cannot be
reloaded. Reloading inputs of a project nullifies with a condition on
`sub_input_flag` where the column is meant (`:763`), so that the base keeps naming
the id, and deleting its name fails. Rows copied from defaults go stale (`:1288`).

*Formulation.* Rules read components nobody declares
(`aggregate_flow_violation_penalty_costs.py:86`, `group_costs.py:351`, the linked
parameters of `gen_var_stor_hyb.py:652-655`). The energy limit of
`gen_simple_energy_limited.py:290` is in no constraint; the `subtimepoint_*` rules
of `gen_var_stor_hyb` are never called. `energy_load_following` loads the linked
file of another type, `energy_hrz_shaping` and `energy_slice_hrz_shaping` load
none. Projects of seven types get reserves that cost no room. Columns are emptied
by a later type (`availability.py:313-317`,
`energy_target_contributions.py:347-349`). CSV columns that are not in their
table: `dr_new.py:453-472`, `frequency_response.py:242`,
`horizon_energy_target_balance.py:174`, transmission `capacity_groups.py:308`;
five CSV files are never imported (`NeverImported`). The requirement by timepoint
of instantaneous penetration is loaded always and written if there is one
(`instantaneous_penetration_requirements.py:496-498`). The validation of all
reserve products looks at `REGULATION_UP_BA`.

*Results processing.* `gen_var` and `gen_var_stor_hyb` fill
`results_project_curtailment_variable_periodagg`, each after deleting what the
other put there: a scenario with both keeps the curtailment of one
(`gen_var_stor_hyb.py:1098`). The hurdle costs of transmission are summed from
columns that never reached their file, so the sums are NULL
(`hurdle_costs.py:430-460`). `transmission/capacity/capacity.py` and `costs.py`
insert the same aggregates. No table of projects has the column
`performance_standard.py:304-329` would update.

*Commitment.* Hand-over files of nine types are written without the iteration
directories (`gen_commit_unit_common.py:3938-3950`). A hotter start is free when
no timepoint starts between two cutoffs (`:2592`). Outages in a linked horizon
raise `KeyError` (`binary.py:278-293`). `horizons.py:384` compares a period with
itself.

*Hazards no property is about.* Each is in the source, most of them in the model
as far as noted, and none is decided by what the runs check.

- Killed at the wrong moment: `get_scenario_inputs.py:572` (`features.csv` is there,
  the map of linked subproblems is not), `run_scenario.py:944` (skipped by a resumed
  run, without its CSV files).
- Going on after a bad answer: `run_scenario.py:1028` (an infeasible stage, and the
  next stage), `:1031` (an answer that is neither optimal nor infeasible, and the
  next linked subproblem), `:680` (an undefined name, in a parallel run of linked
  subproblems), `db/common_functions.py:115` (`SystemExit` leaves the row "running").
- Keys: `import_scenario_results.py:287` (an UPDATE of the objective that changes
  no row), `db_interface.py:159` (subproblem and stage 0 in one table, 1 in the
  others), `run_end_to_end.py:340` (no name with `--scenario_id`).
- Two at once: two imports of one scenario (`import_scenario_results.py:436`).
- Other: the status of validation is never committed (`validate_inputs.py:335`);
  `aggregate_hurdle_costs.py:75` without the feature transmission; `module_list.py:681`
  (`multi_stage` is None with iterations); the vintages of `subsidies.py:99`.

## 5. Proofs

The proof modules are about every value of the constants that the assumptions
(`ScenarioAssumption`, `ImportAssumption`, `InputsAssumption`,
`EndToEndAssumption`, `LoadingAssumption`, `UnitsAssumption`,
`HorizonAssumption`, `ScenariosFit`) allow: any number of subproblems, stages, workers, runs,
directories, tables, imports, structures, processes, jobs, ids, units,
timepoints, features and types, and any subset of the faults.

**ScenarioRun_proofs.** `WorkInvariant`: `Spec => []WorkInv`, with
`WorkInv == TypeOK /\ WorkerHolds /\ Distribution`. `OneWorkerPerSubproblem`
alone is not inductive: that two workers are in different subproblems follows
from each being in one of *its own chunk* (`WorkerHolds`) and from the chunks
being disjoint from each other and from the queue (`Distribution`), which
`TakeChunk` preserves since it takes from the queue, and which the sequential
loop, where one worker has everything, and the end of a run preserve since
nothing is handed out outside a run. Typing needs `WorkerHolds` too: a worker
that writes a file is at a pair that exists. `FixedCommitmentType` shows that
the choice of the latest row is well-defined (`LastRun`: a bounded set of run
numbers has a greatest one). Corollaries: `TypeCorrect`, `WorkersApart`. It
also proves `OneRunPerPassThroughFile` (`PassThroughOfOneRun`) with `RowsInv`:
before the pool starts the files of all subproblems whose headers are written
are empty; in a pool, and in the subproblem any worker is in, all rows are of
this run. The property alone is not inductive: that a stage of run *n* appends to a file with no rows of an
earlier run needs to know that the file was emptied in *n*.

In the same module, about files: `SettledWhole` (`SettledHasResults`) and
`CompleteKept` (`ResumeKeepsComplete`, an action property), both from
`FilesInv`: the files of the pair a worker has in hand are as far as its place
in `save_results` says (`Written`); a pair in hand is not settled; a settled
pair either was found complete by a resumed run or is one no worker will come
to again (`SettledInv`, `Gone`); no file is of a run yet to come. `WorkInv` is
used to know that no two workers have the same pair.

*How it implements the schedule*, in the second half of the module.
`RunFollowsListing`: `Spec => Listed!Spec`, the refinement of `StageSchedule` with
`open <- phase # "idle"`, in the order of the listing and with no assumption on
it. `RunImplementsSchedule`: `Spec => ImplementsSchedule`, in the order of the
numbers, assuming `ListedInOrder`: that the listing has the stages, and linked
subproblems, in that order. What precedes by number then precedes in the listing,
so that `Listed!Settle` implies `Schedule!Settle` (`SettleByNumber`) and the other
actions are the same. For the first, `ScheduleInv` says that what a resumed run may skip is settled
(`FoundInv`), that a worker is at the first of its subproblems and stages and
has left only settled ones (`OrderInv`), that what nobody has to do any more is
done unless an exception dropped it (`NothingDropped`), and that linked
subproblems are the main process's alone (`AloneInv`). Initial states map to
initial states; `FinishStage` maps to `Settle`, `Start` to `Open` or `Refuse`,
`ReturnObjectiveValues`, an empty `FillPool`, exceptions of the sequential loop
and kills to `Close`, everything else to a stutter. Two more theorems are about what
one subproblem or stage passes to the next. `CommitmentIsThePrevStages`
(`CommitmentFromPrevStage`): a property about what a worker has *loaded* follows
only from what is in the file, so `PassedOnInv` says that the pass-through file of a
subproblem at hand has exactly the rows of the stages this run solved in it, none
of the stages yet to come, and that in a pool the files of subproblems nobody has
come to are empty. `RowsInv` and `ScheduleInv` are used for the stages before the one
at hand. `LinkedStateIsCurrent` (`LinkedStateCurrent`): by `HandedOnInv` every pair
that this run is through with was not infeasible, and if it has results its end
state is in the inputs of the next one, unless a worker is still about to write it.

**ImportResults_proofs.** `ImportInvariant`: `Spec => []IInv`, and from it all
the import run checks: `ImportTypes`, `TablesOfOneImport` (`OneImport`),
`ImportMirrorsFiles` (`DoneMirrorsFiles`) and `ResultsAreReplaced`
(`ResultsNeverVanish`). None of the three properties is inductive, since they
are about what is committed and the commits copy the draft. `DraftInv` says
exactly what the draft holds by where the import is: while it deletes, rows of
tables yet to be emptied; after that what `Added` says, all of the directories
before `dir` and part of `dir` itself. A draft like that is `Tidy`, and at the
end it is what `Imported` says. `PcInv` ties the status that the loop has in
hand to the file it should be of: a status left from the previous directory
gets no further than the objective, because a directory without a status has no
objective either (`FilesInv`, from the order of the writes in `save_results`).
`DraftInv` needs that no statement was given up on; `ReplacedInv` does not. It
says that a draft without any row, unless it is what is committed, is only there
before the first row of the first directory: a statement is only ever given up
on by an import that has no transaction open, so that its draft is still what
is committed. So neither a kill nor a lock can make results vanish.

**ScenarioInputs_proofs.** `RunnableIsWhole`: `Spec => []FeaturesMeanInputs`.
The inductive invariant `IInv` adds to it where the program is (`PcInv`):
`features.csv` is gone from the moment its deletion is over until it is
written, so that tabs may be rewritten; and during the writing every directory
that is neither waiting nor in work has the tabs of this run, so that all of
them have when `features.csv` is written. It also says that `writing` is
finite, which its bound by the number of workers needs. `InputsTypeCorrect` is
its first conjunct. `WrittenInv` adds what is on the disk: which auxiliary files
are gone by the step of the deletion, and which are written by the step of the
writing (`AuxInv`; the lemma `Orders` says that the files that are written and the
files that are deleted are the same ones), which directories are there (`DirsInv`),
and that the flag of stages is (`FlagInv`). `AuxFilesAreOfTheScenario`
(`NoPhantomAux`) is its last line. `OldDirectoriesHideNone` (`LosesNothing`) and
`StructureReadAsWritten` (`ReadsWhatWasWritten`) are about what is *read* from such
a disk, which is a matter of the operators: in a directory that is `Legible` the
depth of the deepest directories is that of the scenario (`DepthOfPath`), so that
`Layers` and `Visited` are those of its structure (`LayersOf`, `VisitedIs`), and
`Visited` has all its directories (`PathsAreVisited`). For the converse, that a run
visits no other, `NothingForeignIsRead` takes a directory on the way to a visited
one: it is one of the scenario or above one.

**EndToEnd_proofs.** Everything the two runs check but termination:
`TypeCorrect`, `LockIsGivenBack` (`OwnLockOnlyAfterFailure`),
`EndTimeIsOfTheRecordedRun` (`EndTimeOfLastRecorded`), `CompleteIsComplete`
(`CompleteMeansAllSteps`) and `EndIsRecorded` (`EndedIsRecorded`), for any number
of runs, attempts and faults. `IInv` has three parts beside the types. `LockInv`
says whose lock it is by where the programs are: the main connection has it only
in an update, the handler's only in one of its two, a step's while it writes or
after the step failed. Typing needs it, since a commit must be that of an update.
`ResultInv`: a run has a result from the end of its steps on, "complete" only with
no step left and no transaction open; a transaction of a step is only open with
nothing but writing steps to do. `RowInv`: what the row shows of a run that is
alone and gave up nothing, up to its last update. `EndInv`, proved on top of these,
is both directions of `EndTimeOfLastRecorded`; it holds since only commits write the
two columns (`EndAndPidFromMain`), and a run that is done neither commits again nor
takes the row back (`DoneStays`). One lemma per part has one step
per action of `Next`; `RowChanges` and `DoneFromMain` say which actions can touch
the row and end a run, so that the action properties are about commits only.

**SubscenarioLoading_proofs.** `ReloadKeepsReferences`: `Spec =>
ReferencesKept`, for any jobs of any processes. The argument: row numbers are not
given twice, and nothing but a reload changes a row, so that a row read before the
lock was taken is the same row or gone (`ConcernInv`, `Renewed`); and what a reload
has set to NULL in its own transaction it has put back by the time it commits
(`WorkInv`, `Touched`), because it goes through its statements in order and has
written nothing before the second (`PlaceInv`). A lemma per operation on the
database says what it leaves alone.

In the same module: `DatabasesTyped` (`TypeOK`) and `IdsLoadedAsAWhole`
(`LoadedAsAWhole`), for any number of processes, ids, tables and jobs. The first part is about the programs: where a load of many ids inserts
which part of which id (`LoadStatement`, `LoadComplete`, with the division that
picks row and id from the number of a statement), that every job which commits
once inserts all parts of its ids before it does (`Complete`), and that a reload
deletes nothing after it has inserted (`Statements`). `LoadedAsAWhole` is about what
is committed, so its invariant is about the open transaction. `ChangeInv`: a load
only fills empty parts, a reload only touches its own id. `DoneInv`: a process that
was never locked out has had the lock since its first insert, and all it came by is
in. `FreshInv`: it has committed nothing before it is done. A process that *was*
locked out makes no promise about its own parts, but it must not spoil those of
others: `FullInv` says that a reload of an id that was whole has either changed
nothing yet or inserted everything it came by, because it fails on the first part it
could not delete. At a commit these give the property for the parts of the
committing process and for those of every other.

**Commitment_proofs.** `StateIsCarriedOver`: `Spec => []StateCarriedOver`, for any
units, any horizons of timepoints of any lengths, and any number of linked
timepoints and subproblems. Three parts. *Sums*: every window is a sum over a finite
set, whose definition is recursive, and no induction over sets can be used here; a
smallest set for which a statement fails takes its place (`SmallestSet`), and gives
that a sum is a natural number, may be split (`SumUnion`) and reindexed
(`SumReindexed`), and is at least any of its parts. *One subproblem*: the window of a
timepoint is a stretch without gaps (`StepsAre`), so a start fewer hours ago is in it
(`InWindow`), and the constraint, which bounds the number of starts in the window by
the status, leaves no other status (`EventsHold`). Where the constraint is left to a
later timepoint, the first later one that has it is taken: if the status were lost
in between, some other start would have to bring it back, and the window would hold
two (`EventsAtLeast`). The same lemmas serve starts and shutdowns, with `Keeping` for
what the two have in common. *From one to the next*: `StateCarriedOver` is not
inductive, since a subproblem sees only what it was handed. `LinkedInv` says that
this is the end of the timeline, latest first, and all of it that the next
subproblem has to know; then hours along the timeline are those a linked window
counts (`ApartAcross`), and what a new timepoint knows of an old one was handed over
(`KnownAcross`). Most of the types is there too (`TimelineInv`), since sums are only
sums over numbers.

**CommitmentWindows_proofs.** `StartsAreHotEnough`: `Spec =>
[]StartsAreAsHotAsTheyWere`, with no assumption on the cutoffs but that the first is
the minimum down time; they need not increase. In one subproblem: a timepoint is in
the window between two cutoffs exactly if its hours are between them
(`EarlierRelevant`, `LaterRelevant`; before the first timepoint of a circular
horizon come the last ones, `BackWraps`), and the hottest type left to a start is
one whose window is empty, or holds a shutdown (`HottestFits`). A minimum down time
leaves no other shutdown in the window, so it is the one that `DownFor` means
(`NoOtherShutdown`: the flags are the changes of commitment, and a unit that was
shut down is off, `OffWhenShutDown`), and its hours are between the cutoffs
(`TypeFitsWithin`, `TypeFitsAcross`). A window may be empty for want of timepoints;
then no timepoint the start knows of lies between the cutoffs (`CoarseFitsNone`).
`HoursSince` and `NewStart` carry this to hours along the timeline, as for
`StateIsCarriedOver`.

`CommitmentsExact`, `OutagesExact`, `CapacityExact`: `Spec => []CommitmentsAreExact`,
`[]OutagesAreExact` and `[]CapacityIsExact`, for any units and any horizons of
timepoints that take some time. The properties speak of hours on a clock, the
constraints of windows, so first the two are the same: the hours from one timepoint
forward to another are those of the steps back, round the circle as well
(`LaterInWindow`, `LaterWithin`). Then both directions. *What fits is kept*
(`FitsKept`): an event is in the window of every timepoint that soon after it, and
where that window's constraint is left to a later one, `EventsHold` has the rest.
*What is kept fits* (`KeptFits`): a window with two events is impossible, for after
the earlier one the status lasts through to the later one, which would have found it
there already (`EventReaches`); so the sum is at most one, and one only if the status
holds at the window's end. In a linked horizon this is false of arbitrary linked
timepoints, and needs the history (`ExactInv`, proved along with `IInv`): all linked
timepoints are of the subproblem just solved (`LastTogether`), so `StateCarriedOver`
applies among them, and what was started is on (`OnWhenStarted`); `HeldOver` is what
follows for the windows. Outages are the same without linked timepoints; the windows
skipped for outages and for a fleet of one hold nothing but the timepoint itself,
whose constraint always holds (`AloneFits`). A *fleet of two* has only sums. That two
units which each keep their times also fit the windows together is a sum of sums
(`SumAtMostSums`, `SharedFits`).
Conversely a feasible level is split by letting the units start and stop in turn,
the odd starts and stops to the one and the even ones to the other (`InTurn`): the
constraint on the starts since some timepoint says that, at the end of its window,
no more were stopped than had been started before it (`FitsInTurn`), and then a unit
in turn has not been stopped again (`InTurnKept`). The minimum down time is the same
with starts and stops exchanged.

**Formulation_proofs.** All that the run `formulation` checks, for every scenario that
fits and not for 126 of them: `RemovalsFound`, `ComponentsSafe`, `NothingFree`,
`FilesSafe`, `ResultsSafe`, and the action property `NothingIsLost`. They assume
`ScenariosFit`, which TLC evaluates for its scenarios, and `Arranged`, which is about
constants and which TLC evaluates too (`ModulesArranged`): a table of 297 modules is
not for a prover, but that a table of this kind is *enough* is. `Arranged` is no
restatement of the properties. It knows no scenario, no state and no step; it is
about positions in one list and about sets of features, and it takes the proof to see
that nothing else matters.

The argument has five steps. *Lists*: `Only` picks from a list without changing its
order (`OnlyIs`) and `Unless` lists what unwanted groups hold (`UnlessIs`), so
`determine_modules` gives the modules a scenario keeps, sorted by `Position`
(`ChosenAre`), and removes no other, none twice (`RemovalsAre`). *Calls*: a phase
calls the selected modules that have its function in that order; `Underway` says that
`todo` is the rest of that list, and `Passed(p)`, the modules called so far in a
phase, grows by the head of it (`CallKeeps`); whoever has a lower position and has the
function has been called (`Reached`). *What there is*: none of the properties is
inductive, since they say what the next call will find. `Concluded` is: the input
files, the components, the lists, the data loaded and the components built are
exactly what the roles of the modules called so far provide (`Formulated`); so are
the frames and the columns in them (`FramesFilled`), the CSV files and theirs
(`Reported`), the files imported, the columns updated and the tables refilled. For
the frames this needs that no later module resets a column that is not one of
`Emptied`, and that a frame is saved after all have put their columns in, but for
`SavedTooEarly`: both are in `FramesArranged`. *Roles*: if a role is played in a
scenario that fits, so is every role it brings (`BroughtPlays`): the features it
wants are among those with which the other is in use, closed under what features
require. *Together*: what the module called needs is provided by a role that is
played, of a module with a lower position, which therefore has been called, and what
it provided is there by `Concluded`. Each conjunct of the properties is one lemma of
that form.

Before they were proved, TLC checked the parts of `Concluded` as invariants of the run:
`Formulated` in all of its states, those on frames, CSV files and tables in the first
40,000 of 49,500, as they are slow to evaluate. `ConcludedAlways` is the invariant as a theorem.

Only model-checked: `Arranged` itself, a fact about the table of modules; and what is
out of the prover's reach, liveness (`RunEnds` in both modules, `LoadersEnd`) and
everything that would need ENABLED.

## 6. Not modelled, and why

- The constraints of the formulation over real numbers (power, ramps, storage,
  flows, costs): a matter of the solver; the modules are there as interfaces.
- `validate_inputs` of the modules and the program of that name: sequential checks
  of data frames that append messages to a table.
- The sums of `process_results`, and its DELETE and INSERT as transactions of
  their own: `Formulation` has what is read and filled, `EndToEnd` that it may fail.
- Tuning of the market positions across stages (`fix_market_participation`), whose
  protocol is that of the commitments.
- What inputs contain, in the database and in files, beyond the structure of the
  scenario.
- Data toolkit, visualization: scripts without state that another actor sees.
- Parallel runs of several scenarios: they share no state.
- `pool.map` that hangs: with `--create_lp_problem_file_only` in a pool the
  workers leave by `SystemExit` and the run never ends. `ScenarioRun` models
  it (`lost`), `run_pool` reaches it, and `RunEnds` is checked for runs that
  solve.

## 7. Plan

1. **Done**: the programs from loading to import, each with its properties; the
   formulation as an interface; commitment; theorems on all of them: every safety and
   action property that a run checks is proved, but the one about the table of modules.
2. **Extend.** Two imports at once, and an import beside a run. Values of sets in `Formulation` where a module
   filters them (the vintages of subsidies, members of groups). Storage and hydro
   balances across linked subproblems in the manner of `Commitment`. A composition
   of inputs, run and import over one scenario directory.
3. **Prove.** The split of a fleet's capacity for any number of units (in turn modulo
   that number). Which of the exceptions of `Arranged` could be dropped if the code were
   corrected.
