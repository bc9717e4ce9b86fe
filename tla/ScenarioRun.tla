---------------------------- MODULE ScenarioRun ----------------------------
(***************************************************************************)
(* gridpath_run: gridpath/run_scenario.py.  One scenario directory, its    *)
(* subproblems and stages, and the processes that solve them: the main     *)
(* process alone, or a pool of workers.  The directory survives the        *)
(* processes, so a later run starts from whatever an earlier one left.     *)
(*                                                                         *)
(* Numbers, solver output and file contents are abstracted to the number   *)
(* of the run that produced them.                                          *)
(***************************************************************************)
EXTENDS Naturals, FiniteSets

CONSTANTS
  Subs, Stages,        \* ids of the subproblems and of the stages
  SubPos, StagePos,    \* places in the list got from the directory listing
  Linked,              \* linked_subproblems_map.csv exists
  Projects,            \* projects with a last commitment stage ...
  LastStage,           \* ... and that stage
  Workers,             \* the processes of --n_parallel_solve
  RunArgs,             \* the command lines a run may get
  Outcomes,            \* what the solver may answer
  Faults,              \* subset of {"raise", "kill"}
  ChunksPerWorker,     \* multiprocessing's pool.map cuts the work in this many
  MaxRuns              \* bound on the number of runs

Args == [inc : BOOLEAN,        \* --incomplete_only
         parallel : BOOLEAN,   \* --n_parallel_solve larger than 1
         mode : {"solve", "lp_only", "load_xml", "load_highs"},
         export : BOOLEAN]     \* what the results export rule says

ASSUME ScenarioAssumption ==
  /\ Subs \subseteq Nat \ {0} /\ IsFiniteSet(Subs) /\ Subs # {}
  /\ Stages \subseteq Nat \ {0} /\ IsFiniteSet(Stages) /\ Stages # {}
  /\ SubPos \in [Subs -> Nat] /\ StagePos \in [Stages -> Nat]
  /\ \A s, r \in Subs : SubPos[s] = SubPos[r] => s = r
  /\ \A t, u \in Stages : StagePos[t] = StagePos[u] => t = u
  /\ Linked \in BOOLEAN
  /\ LastStage \in [Projects -> Stages]
  /\ IsFiniteSet(Workers) /\ Workers # {}
  /\ RunArgs \subseteq Args
  /\ Outcomes \subseteq {"optimal", "suboptimal", "infeasible", "unsolved"}
  /\ ChunksPerWorker \in Nat \ {0}
  /\ MaxRuns \in Nat

VARIABLES
  \* ---- the scenario directory ----
  status,       \* solver_status.txt of a pair
  term,         \* termination_condition.txt of a pair
  termRun,      \* the run that wrote it
  csv, obj, duals,  \* the run that wrote the results CSVs, objective, duals
  rows,         \* pass_through_inputs/fixed_commitment.tab of a subproblem
  linkedIn,     \* the run that wrote *_linked_timepoint_params.tab of a pair
  prob,         \* pairs with saved prob_sol_files
  \* ---- the main process ----
  phase, run, args, result,
  toHead,       \* subproblems whose headers the main process has yet to write
  pending,      \* subproblems not handed to a worker yet
  chunk, active, failed, lost,
  settled,      \* pairs this run is done with, or found complete
  \* ---- each worker ----
  pc, mine, sub, todo, stage, out, fixed, linkedUsed

files == <<status, term, termRun, csv, obj, duals>>
shared == <<rows, linkedIn, prob>>
disk == <<files, shared>>
main == <<phase, run, args, result, toHead, pending, chunk, active, failed, lost>>
task == <<mine, sub, todo, stage>>
worker == <<pc, task, out, fixed, linkedUsed>>
vars == <<disk, main, settled, worker>>

------------------------------------------------------------------------------
Pairs == Subs \X Stages
Runs == 0..MaxRuns
None == 0                                  \* no subproblem or stage at hand
MultiStage == \E t, u \in Stages : t # u   \* STAGE_FLAG
Free == [p \in Projects |-> 0]             \* no commitment is fixed

IsFirst(x, S, pos) == x \in S /\ \A y \in S : pos[x] <= pos[y]

(* The stage before t: stages are sorted as integers.                      *)
IsPrev(u, t) == u < t /\ \A v \in Stages : v < t => v <= u

(* is_subproblem_stage_complete: only the file's existence counts.         *)
IsComplete(s, t) == term[<<s, t>>] # "none"

(* FNL_COMMIT_PRJS: t or an earlier stage is the final commitment stage.   *)
FnlCommitPrjs(t) == {p \in Projects : LastStage[p] <= t}

(* FXD_COMMIT_PRJS: the projects the pass-through file knows at all.       *)
FxdCommitPrjs(s) == {r.prj : r \in rows[s]}

(* The rows whose stage comes right before t in the list of stages.        *)
RelevantRows(s, t) == {r \in rows[s] : IsPrev(r.stage, t)}

(* fixed_commitment has a value for every project that must be fixed.      *)
CanFixCommitment(s, t) ==
  FxdCommitPrjs(s) \subseteq {r.prj : r \in RelevantRows(s, t)}

FixedCommitment(s, t) ==
  [p \in Projects |->
     IF \E r \in RelevantRows(s, t) : r.prj = p
     THEN LET r == CHOOSE r \in RelevantRows(s, t) :
                     /\ r.prj = p
                     /\ \A q \in RelevantRows(s, t) : q.prj = p => q.run <= r.run
          IN  r.run
     ELSE 0]

(* Another subproblem hands this one its starting state.                   *)
HasPredecessor(s) == Linked /\ \E r \in Subs : r + 1 = s

NParallel(a) == IF a.parallel /\ Cardinality(Subs) # 1
                THEN Cardinality(Workers) ELSE 1

(* The answers with solver status ok: the results are exported, with a     *)
(* warning if the termination condition is not optimal.                    *)
Solved == {"optimal", "suboptimal"}

(* multiprocessing.Pool.map: ceil(tasks / (4 * processes)) tasks a chunk.  *)
ChunkSize(tasks, procs) ==
  (tasks + ChunksPerWorker * procs - 1) \div (ChunksPerWorker * procs)

Smaller(a, b) == IF a < b THEN a ELSE b

------------------------------------------------------------------------------
Init ==
  /\ status = [x \in Pairs |-> "none"] /\ term = [x \in Pairs |-> "none"]
  /\ termRun = [x \in Pairs |-> 0] /\ csv = [x \in Pairs |-> 0]
  /\ obj = [x \in Pairs |-> 0] /\ duals = [x \in Pairs |-> 0]
  /\ rows = [s \in Subs |-> {}] /\ linkedIn = [x \in Pairs |-> 0]
  /\ prob = {}
  /\ phase = "idle" /\ run = 0 /\ args \in RunArgs /\ result = "none"
  /\ toHead = {} /\ pending = {} /\ chunk = 0 /\ active = {}
  /\ failed = FALSE /\ lost = FALSE /\ settled = {}
  /\ pc = [w \in Workers |-> "next"] /\ mine = [w \in Workers |-> {}]
  /\ sub = [w \in Workers |-> None] /\ todo = [w \in Workers |-> {}]
  /\ stage = [w \in Workers |-> None] /\ out = [w \in Workers |-> "none"]
  /\ fixed = [w \in Workers |-> Free] /\ linkedUsed = [w \in Workers |-> 0]

------------------------------------------------------------------------------
(* The main process.                                                       *)

(* gridpath_get_inputs wrote the inputs afresh: it deletes every inputs    *)
(* .tab file, those that linked one subproblem to the next included.       *)
DeletePriorInputs ==
  /\ phase = "idle" /\ run < MaxRuns /\ \E x \in Pairs : linkedIn[x] # 0
  /\ linkedIn' = [x \in Pairs |-> 0]
  /\ UNCHANGED <<files, rows, prob, main, settled, worker>>

(* Bug: one run too many.                                                  *)
Begin_OneMore(a) ==
  /\ phase = "idle" /\ run <= MaxRuns
  /\ run' = run + 1 /\ args' = a /\ failed' = FALSE /\ lost' = FALSE

Begin(a) ==
  /\ phase = "idle" /\ run < MaxRuns
  /\ run' = run + 1 /\ args' = a /\ failed' = FALSE /\ lost' = FALSE

FoundComplete(a) == IF a.inc THEN {x \in Pairs : IsComplete(x[1], x[2])} ELSE {}

(* solve_sequentially: the main process takes every subproblem itself.     *)
SolveSequentially(a) ==
  /\ Begin(a)
  /\ NParallel(a) = 1
  /\ phase' = "sequential" /\ result' = "none"
  /\ settled' = FoundComplete(a)
  /\ \E w \in Workers :
       active' = {w} /\ mine' = [mine EXCEPT ![w] = Subs]
  /\ UNCHANGED <<disk, toHead, pending, chunk, pc, sub, todo, stage, out, fixed,
                 linkedUsed>>

(* Linked subproblems and --n_parallel_solve: the fallback call names an   *)
(* undefined variable and the run ends there.                              *)
FallBackToSequential(a) ==
  /\ Begin(a)
  /\ NParallel(a) > 1 /\ Linked
  /\ result' = "failed" /\ settled' = {}
  /\ UNCHANGED <<disk, phase, toHead, pending, chunk, active, worker>>

StartParallel(a) ==
  /\ Begin(a)
  /\ NParallel(a) > 1 /\ ~Linked
  /\ phase' = "headers" /\ result' = "none"
  /\ toHead' = IF MultiStage THEN Subs ELSE {}
  /\ settled' = FoundComplete(a)
  /\ UNCHANGED <<disk, pending, chunk, active, worker>>

(* Bug: the header is appended to what the file holds.                     *)
CreatePassThroughInputs_Append(s) == rows' = rows

(* Writing the header truncates the file.                                  *)
CreatePassThroughInputs(s) == rows' = [rows EXCEPT ![s] = {}]

CreateAllPassThroughInputs(s) ==
  /\ phase = "headers" /\ IsFirst(s, toHead, SubPos)
  /\ CreatePassThroughInputs(s)
  /\ toHead' = toHead \ {s}
  /\ UNCHANGED <<files, linkedIn, prob, phase, run, args, result, pending, chunk,
                 active, failed, lost, settled, worker>>

(* pool_data holds the subproblems with a stage left; a pool of at most as *)
(* many processes as tasks is spawned for them.                            *)
FillPool ==
  /\ phase = "headers" /\ toHead = {}
  /\ LET tasks == {s \in Subs : args.inc => \E t \in Stages : ~IsComplete(s, t)}
         n == Cardinality(tasks)
     IN  IF tasks = {}
         THEN /\ phase' = "idle" /\ result' = "ok"
              /\ UNCHANGED <<pending, active, chunk>>
         ELSE /\ phase' = "pool" /\ pending' = tasks
              /\ \E A \in SUBSET Workers :
                   /\ Cardinality(A) = Smaller(Cardinality(Workers), n)
                   /\ active' = A
                   /\ chunk' = ChunkSize(n, Cardinality(A))
              /\ UNCHANGED result
  /\ UNCHANGED <<disk, run, args, toHead, failed, lost, settled, worker>>

(* Bug: the run ends as soon as the workers are free.                      *)
ReturnObjectiveValues_Early ==
  /\ phase \in {"sequential", "pool"}
  /\ \A w \in Workers : mine[w] = {}
  /\ ~lost
  /\ phase' = "idle" /\ active' = {} /\ chunk' = 0
  /\ result' = IF failed THEN "failed" ELSE "ok"
  /\ UNCHANGED <<disk, run, args, toHead, pending, failed, lost, settled, worker>>

(* The run ends when every task was handed out and every worker is done;   *)
(* pool.map reports the exception of a task only then.                     *)
ReturnObjectiveValues ==
  /\ phase \in {"sequential", "pool"}
  /\ pending = {} /\ \A w \in Workers : mine[w] = {}
  /\ ~lost
  /\ phase' = "idle" /\ active' = {} /\ chunk' = 0
  /\ result' = IF failed THEN "failed" ELSE "ok"
  /\ UNCHANGED <<disk, run, args, toHead, pending, failed, lost, settled, worker>>

------------------------------------------------------------------------------
(* One worker: run_optimization_for_subproblem(_pool).                     *)

At(w) == <<sub[w], stage[w]>>

(* A worker forgets what it had in memory.                                 *)
Forget(w) ==
  /\ stage' = [stage EXCEPT ![w] = None] /\ out' = [out EXCEPT ![w] = "none"]
  /\ fixed' = [fixed EXCEPT ![w] = Free]
  /\ linkedUsed' = [linkedUsed EXCEPT ![w] = 0]

(* Every process is gone.                                                  *)
StopAll(how) ==
  /\ phase' = "idle" /\ result' = how
  /\ toHead' = {} /\ pending' = {} /\ chunk' = 0 /\ active' = {}
  /\ pc' = [w \in Workers |-> "next"] /\ mine' = [w \in Workers |-> {}]
  /\ sub' = [w \in Workers |-> None] /\ todo' = [w \in Workers |-> {}]
  /\ stage' = [w \in Workers |-> None] /\ out' = [w \in Workers |-> "none"]
  /\ fixed' = [w \in Workers |-> Free] /\ linkedUsed' = [w \in Workers |-> 0]
  /\ UNCHANGED <<run, args>>

(* In a pool, a task that ends early takes the rest of its chunk with it.  *)
DropChunk(w) ==
  /\ pc' = [pc EXCEPT ![w] = "next"] /\ mine' = [mine EXCEPT ![w] = {}]
  /\ sub' = [sub EXCEPT ![w] = None] /\ todo' = [todo EXCEPT ![w] = {}]
  /\ Forget(w)
  /\ UNCHANGED <<phase, run, args, result, toHead, pending, chunk, active>>

(* An exception leaves the sequential loop, or is kept by the pool.        *)
Raise(w) ==
  \/ phase = "sequential" /\ StopAll("failed") /\ UNCHANGED <<failed, lost>>
  \/ phase = "pool" /\ DropChunk(w) /\ failed' = TRUE /\ UNCHANGED lost

(* SystemExit is no Exception: the pool's worker dies without answering.   *)
SystemExit(w) ==
  \/ phase = "sequential" /\ StopAll("exit") /\ UNCHANGED <<failed, lost>>
  \/ phase = "pool" /\ DropChunk(w) /\ lost' = TRUE /\ UNCHANGED failed

(* Bug: a chunk stays in the queue.                                        *)
TakeChunk_Keep(w) ==
  /\ phase = "pool" /\ w \in active /\ pc[w] = "next" /\ mine[w] = {}
  /\ \E c \in SUBSET pending :
       /\ c # {} /\ Cardinality(c) = Smaller(chunk, Cardinality(pending))
       /\ \A s \in c, r \in pending \ c : SubPos[s] < SubPos[r]
       /\ mine' = [mine EXCEPT ![w] = c]
  /\ UNCHANGED <<disk, main, settled, pc, sub, todo, stage, out, fixed, linkedUsed>>

TakeChunk(w) ==
  /\ phase = "pool" /\ w \in active /\ pc[w] = "next" /\ mine[w] = {}
  /\ \E c \in SUBSET pending :
       /\ c # {} /\ Cardinality(c) = Smaller(chunk, Cardinality(pending))
       /\ \A s \in c, r \in pending \ c : SubPos[s] < SubPos[r]
       /\ mine' = [mine EXCEPT ![w] = c]
       /\ pending' = pending \ c
  /\ UNCHANGED <<disk, phase, run, args, result, toHead, chunk, active, failed,
                 lost, settled, pc, sub, todo, stage, out, fixed, linkedUsed>>

(* Bug: the subproblems of a chunk are taken in any order.                 *)
RunOptimizationForSubproblem_AnyOrder(w) ==
  /\ phase \in {"sequential", "pool"} /\ pc[w] = "next"
  /\ \E s \in mine[w] :
       /\ sub' = [sub EXCEPT ![w] = s]
       /\ IF phase = "sequential" /\ MultiStage
          THEN CreatePassThroughInputs(s) ELSE UNCHANGED rows
  /\ todo' = [todo EXCEPT ![w] = Stages]
  /\ pc' = [pc EXCEPT ![w] = "stage"]
  /\ UNCHANGED <<files, linkedIn, prob, main, settled, mine, stage, out, fixed,
                 linkedUsed>>

(* Alone, the main process writes the headers right before a subproblem.   *)
RunOptimizationForSubproblem(w) ==
  /\ phase \in {"sequential", "pool"} /\ pc[w] = "next"
  /\ \E s \in mine[w] :
       /\ IsFirst(s, mine[w], SubPos)
       /\ sub' = [sub EXCEPT ![w] = s]
       /\ IF phase = "sequential" /\ MultiStage
          THEN CreatePassThroughInputs(s) ELSE UNCHANGED rows
  /\ todo' = [todo EXCEPT ![w] = Stages]
  /\ pc' = [pc EXCEPT ![w] = "stage"]
  /\ UNCHANGED <<files, linkedIn, prob, main, settled, mine, stage, out, fixed,
                 linkedUsed>>

(* Bug: a finished subproblem stays in the worker's chunk.                 *)
LeaveStage_KeepSubproblem(w, t) ==
  /\ todo' = [todo EXCEPT ![w] = @ \ {t}]
  /\ IF todo[w] = {t}
     THEN /\ pc' = [pc EXCEPT ![w] = "next"] /\ mine' = mine
          /\ sub' = [sub EXCEPT ![w] = None]
     ELSE pc' = [pc EXCEPT ![w] = "stage"] /\ UNCHANGED <<mine, sub>>
  /\ Forget(w)

(* The loop goes on to the next stage, or out of the subproblem.           *)
LeaveStage(w, t) ==
  /\ todo' = [todo EXCEPT ![w] = @ \ {t}]
  /\ IF todo[w] = {t}
     THEN /\ pc' = [pc EXCEPT ![w] = "next"]
          /\ mine' = [mine EXCEPT ![w] = @ \ {sub[w]}]
          /\ sub' = [sub EXCEPT ![w] = None]
     ELSE pc' = [pc EXCEPT ![w] = "stage"] /\ UNCHANGED <<mine, sub>>
  /\ Forget(w)

FinishStage(w) ==
  /\ LeaveStage(w, stage[w])
  /\ settled' = settled \cup {At(w)}

(* Bug: the stages are taken in any order.                                 *)
AtStage_AnyOrder(w, t) == pc[w] = "stage" /\ t \in todo[w]

AtStage(w, t) == pc[w] = "stage" /\ IsFirst(t, todo[w], StagePos)

SkipCompleteStage(w) ==
  /\ \E t \in Stages : /\ AtStage(w, t)
                       /\ args.inc /\ IsComplete(sub[w], t)
                       /\ LeaveStage(w, t)
  /\ UNCHANGED <<disk, main, settled>>

(* load_model_data reads the pass-through and the linked inputs; a missing *)
(* value is a KeyError while the instance is built.                        *)
CreateProblem(w, t) ==
  LET s == sub[w]
      loads == args.mode = "load_xml" => <<s, t>> \in prob
      linked == HasPredecessor(s) => linkedIn[<<s, t>>] # 0
  IN  IF loads /\ CanFixCommitment(s, t) /\ linked
      THEN /\ stage' = [stage EXCEPT ![w] = t]
           /\ fixed' = [fixed EXCEPT ![w] = FixedCommitment(s, t)]
           /\ linkedUsed' =
                [linkedUsed EXCEPT ![w] = IF HasPredecessor(s) THEN linkedIn[<<s, t>>]
                                          ELSE 0]
           /\ pc' = [pc EXCEPT ![w] = "built"]
           /\ UNCHANGED <<main, mine, sub, todo, out>>
      ELSE Raise(w)

(* Only --load_highs_solution takes the place of building and solving.     *)
LoadHighsSolution(w, t) ==
  IF <<sub[w], t>> \in prob
  THEN /\ stage' = [stage EXCEPT ![w] = t]
       /\ \E o \in Outcomes : out' = [out EXCEPT ![w] = o]
       /\ pc' = [pc EXCEPT ![w] = "status"]
       /\ UNCHANGED <<main, mine, sub, todo, fixed, linkedUsed>>
  ELSE Raise(w)

(* Bug: a complete pair is solved again.                                   *)
RunOptimizationForSubproblemStage_NoSkip(w) ==
  /\ \E t \in Stages :
       /\ AtStage(w, t)
       /\ IF args.mode = "load_highs" THEN LoadHighsSolution(w, t)
          ELSE CreateProblem(w, t)
  /\ UNCHANGED <<disk, settled>>

RunOptimizationForSubproblemStage(w) ==
  /\ \E t \in Stages :
       /\ AtStage(w, t) /\ ~(args.inc /\ IsComplete(sub[w], t))
       /\ IF args.mode = "load_highs" THEN LoadHighsSolution(w, t)
          ELSE CreateProblem(w, t)
  /\ UNCHANGED <<disk, settled>>

WriteProblemFile(w) ==
  /\ pc[w] = "built" /\ args.mode = "lp_only"
  /\ prob' = prob \cup {At(w)}
  /\ SystemExit(w)
  /\ UNCHANGED <<files, rows, linkedIn, settled>>

SolveProblem(w) ==
  /\ pc[w] = "built" /\ args.mode # "lp_only"
  /\ \E o \in Outcomes : out' = [out EXCEPT ![w] = o]
  /\ pc' = [pc EXCEPT ![w] = "status"]
  /\ UNCHANGED <<disk, main, settled, task, fixed, linkedUsed>>

------------------------------------------------------------------------------
(* save_results, one action per file.                                      *)

SolverStatus(o) == IF o \in Solved THEN "ok" ELSE "warning"

SaveSolverStatus(w) ==
  /\ pc[w] = "status"
  /\ status' = [status EXCEPT ![At(w)] = SolverStatus(out[w])]
  /\ pc' = [pc EXCEPT ![w] = "term"]
  /\ UNCHANGED <<term, termRun, csv, obj, duals, shared, main, settled, task, out,
                 fixed, linkedUsed>>

SaveTerminationCondition(w) ==
  /\ pc[w] = "term"
  /\ term' = [term EXCEPT ![At(w)] = out[w]]
  /\ termRun' = [termRun EXCEPT ![At(w)] = run]
  /\ pc' = [pc EXCEPT ![w] = IF SolverStatus(out[w]) = "ok" THEN "export"
                              ELSE "noresults"]
  /\ UNCHANGED <<status, csv, obj, duals, shared, main, settled, task, out, fixed,
                 linkedUsed>>

(* Bug: an infeasible linked subproblem is passed over.                    *)
SkipResultsExport_GoOn(w) ==
  /\ pc[w] = "noresults"
  /\ FinishStage(w)
  /\ UNCHANGED <<disk, main>>

(* An infeasible linked subproblem ends the run; any other failure of the  *)
(* solver is passed over.                                                  *)
SkipResultsExport(w) ==
  /\ pc[w] = "noresults"
  /\ IF out[w] = "infeasible" /\ Linked
     THEN Raise(w) /\ UNCHANGED settled
     ELSE FinishStage(w) /\ UNCHANGED main
  /\ UNCHANGED disk

(* The operational types' export_results also write the starting state of  *)
(* the next subproblem, into its inputs; the CSV files of a pair and that  *)
(* state are written by the same loop over the modules, taken as one step  *)
(* (a summary CSV file may follow, which no other program reads).          *)
LinkToNextSubproblem(w) ==
  LET next == <<sub[w] + 1, stage[w]>>
  IN  linkedIn' = IF next \in Pairs /\ Linked
                  THEN [linkedIn EXCEPT ![next] = run] ELSE linkedIn

ExportResults(w) ==
  /\ pc[w] = "export"
  /\ IF args.export
     THEN csv' = [csv EXCEPT ![At(w)] = run] /\ LinkToNextSubproblem(w)
     ELSE UNCHANGED <<csv, linkedIn>>
  /\ pc' = [pc EXCEPT ![w] = "pass"]
  /\ UNCHANGED <<status, term, termRun, obj, duals, rows, prob, main, settled, task,
                 out, fixed, linkedUsed>>

(* Bug: commitments that are not final yet are passed on too.              *)
PassThroughRows_All(t) ==
  {[prj |-> p, stage |-> t, run |-> run] : p \in Projects}

PassThroughRows(t) ==
  {[prj |-> p, stage |-> t, run |-> run] : p \in FnlCommitPrjs(t)}

(* Bug: the objective is forgotten.                                        *)
ExportPassThroughInputs_NoObjective(w) ==
  /\ pc[w] = "pass"
  /\ rows' = IF MultiStage
             THEN [rows EXCEPT ![sub[w]] = @ \cup PassThroughRows(stage[w])]
             ELSE rows
  /\ pc' = [pc EXCEPT ![w] = "duals"]
  /\ UNCHANGED <<files, linkedIn, prob, main, settled, task, out, fixed, linkedUsed>>

ExportPassThroughInputs(w) ==
  /\ pc[w] = "pass"
  /\ rows' = IF MultiStage
             THEN [rows EXCEPT ![sub[w]] = @ \cup PassThroughRows(stage[w])]
             ELSE rows
  /\ pc' = [pc EXCEPT ![w] = "obj"]
  /\ UNCHANGED <<files, linkedIn, prob, main, settled, task, out, fixed, linkedUsed>>

SaveObjectiveFunctionValue(w) ==
  /\ pc[w] = "obj"
  /\ obj' = [obj EXCEPT ![At(w)] = run]
  /\ pc' = [pc EXCEPT ![w] = "duals"]
  /\ UNCHANGED <<status, term, termRun, csv, duals, shared, main, settled, task,
                 out, fixed, linkedUsed>>

SaveDuals(w) ==
  /\ pc[w] = "duals"
  /\ duals' = [duals EXCEPT ![At(w)] = run]
  /\ FinishStage(w)
  /\ UNCHANGED <<status, term, termRun, csv, obj, shared, main>>

------------------------------------------------------------------------------
(* Any step that reads data, solves or writes may raise.                   *)
Fault(w) ==
  /\ "raise" \in Faults
  /\ pc[w] \notin {"next", "noresults"}
  /\ Raise(w)
  /\ UNCHANGED <<disk, settled>>

(* The processes are killed; the directory stays as it is.                 *)
Kill ==
  /\ "kill" \in Faults /\ phase # "idle"
  /\ StopAll("killed")
  /\ UNCHANGED <<disk, failed, lost, settled>>

MainStep ==
  \/ \E s \in Subs : CreateAllPassThroughInputs(s)
  \/ FillPool
  \/ ReturnObjectiveValues

WorkerStep(w) ==
  \/ TakeChunk(w)
  \/ RunOptimizationForSubproblem(w)
  \/ SkipCompleteStage(w)
  \/ RunOptimizationForSubproblemStage(w)
  \/ WriteProblemFile(w)
  \/ SolveProblem(w)
  \/ SaveSolverStatus(w)
  \/ SaveTerminationCondition(w)
  \/ SkipResultsExport(w)
  \/ ExportResults(w)
  \/ ExportPassThroughInputs(w)
  \/ SaveObjectiveFunctionValue(w)
  \/ SaveDuals(w)

Start(a) == SolveSequentially(a) \/ FallBackToSequential(a) \/ StartParallel(a)

Next ==
  \/ DeletePriorInputs
  \/ \E a \in RunArgs : Start(a)
  \/ MainStep
  \/ \E w \in Workers : WorkerStep(w) \/ Fault(w)
  \/ Kill

Spec == Init /\ [][Next]_vars

(* A process that can take a step is scheduled; nobody has to start a run. *)
Fairness == WF_vars(MainStep) /\ \A w \in Workers : WF_vars(WorkerStep(w))

FairSpec == Spec /\ Fairness

------------------------------------------------------------------------------
(* Properties.                                                             *)

PassThroughRow == [prj : Projects, stage : Stages, run : Runs]

FilesTypeOK ==
  /\ status \in [Pairs -> {"none", "ok", "warning"}]
  /\ term \in [Pairs -> {"none", "optimal", "suboptimal", "infeasible", "unsolved"}]
  /\ termRun \in [Pairs -> Runs]
  /\ csv \in [Pairs -> Runs]
  /\ obj \in [Pairs -> Runs]
  /\ duals \in [Pairs -> Runs]

SharedTypeOK ==
  /\ rows \in [Subs -> SUBSET PassThroughRow]
  /\ linkedIn \in [Pairs -> Runs]
  /\ prob \subseteq Pairs

MainTypeOK ==
  /\ phase \in {"idle", "headers", "sequential", "pool"}
  /\ run \in Runs
  /\ args \in Args
  /\ result \in {"none", "ok", "failed", "exit", "killed"}
  /\ toHead \subseteq Subs
  /\ pending \subseteq Subs
  /\ chunk \in Nat
  /\ active \subseteq Workers
  /\ failed \in BOOLEAN /\ lost \in BOOLEAN
  /\ settled \subseteq Pairs

TaskTypeOK ==
  /\ pc \in [Workers -> {"next", "stage", "built", "status", "term", "noresults",
                         "export", "pass", "obj", "duals"}]
  /\ mine \in [Workers -> SUBSET Subs]
  /\ sub \in [Workers -> Subs \cup {None}]
  /\ todo \in [Workers -> SUBSET Stages]
  /\ stage \in [Workers -> Stages \cup {None}]

MemoryTypeOK ==
  /\ out \in [Workers -> {"none", "optimal", "suboptimal", "infeasible", "unsolved"}]
  /\ fixed \in [Workers -> [Projects -> Runs]]
  /\ linkedUsed \in [Workers -> Runs]

(* Every variable has its type: files carry the number of a run that took  *)
(* place, workers hold ids that exist.                                     *)
TypeOK == FilesTypeOK /\ SharedTypeOK /\ MainTypeOK /\ TaskTypeOK /\ MemoryTypeOK

(* What a worker holds, by where it is in its loops.                       *)
WorkerHolds ==
  \A w \in Workers :
    /\ pc[w] = "next" <=> sub[w] = None
    /\ pc[w] # "next" => sub[w] \in mine[w] /\ todo[w] # {}
    /\ pc[w] \in {"next", "stage"} <=> stage[w] = None
    /\ stage[w] # None => stage[w] \in todo[w]

(* A subproblem is in the queue or with one worker, never in two places;   *)
(* nothing is handed out outside a run.                                    *)
Distribution ==
  /\ \A w, v \in Workers : w # v => mine[w] \cap mine[v] = {}
  /\ \A w \in Workers : mine[w] \cap pending = {}
  /\ phase \in {"idle", "headers"} =>
       pending = {} /\ \A w \in Workers : mine[w] = {}

(* The inductive invariant behind OneWorkerPerSubproblem.                  *)
WorkInv == TypeOK /\ WorkerHolds /\ Distribution

(* fixed_commitment.tab is appended to without a lock, so at any time one  *)
(* process at most may be working in a subproblem's directory.             *)
OneWorkerPerSubproblem ==
  \A w, v \in Workers : w # v /\ sub[w] # None => sub[w] # sub[v]

(* A stage is optimised with exactly the commitments the stage before it   *)
(* decided in this run, when that stage was solved in it; nothing is fixed *)
(* in the first stage, whatever an earlier run left in the file.           *)
CommitmentFromPrevStage ==
  \A w \in Workers : pc[w] = "built" =>
    /\ \A t \in Stages :
         IsPrev(t, stage[w]) /\ termRun[<<sub[w], t>>] = run
                            /\ term[<<sub[w], t>>] \in Solved
         => fixed[w] = [p \in Projects |-> IF p \in FnlCommitPrjs(t) THEN run ELSE 0]
    /\ (\A t \in Stages : stage[w] <= t) => fixed[w] = Free

(* The rows of a pass-through file all come from one run, through crashes, *)
(* failures and resumptions.                                               *)
PassThroughOfOneRun ==
  \A s \in Subs : \A q, r \in rows[s] : q.run = r.run

(* A linked subproblem is never built after its predecessor turned out     *)
(* infeasible in the same run; after one with results it starts from the   *)
(* end state just reached, never from one an earlier run left.             *)
LinkedStateCurrent ==
  \A w \in Workers :
    LET before == <<sub[w] - 1, stage[w]>>
    IN  pc[w] = "built" /\ HasPredecessor(sub[w]) /\ termRun[before] = run =>
          /\ term[before] # "infeasible"
          /\ term[before] \in Solved /\ args.export => linkedUsed[w] = run

(* A pair this run solved and moved on from has all its files, optimal or  *)
(* not, and they are this run's.                                           *)
SettledHasResults ==
  \A x \in settled : termRun[x] = run /\ term[x] \in Solved =>
    /\ status[x] = "ok" /\ obj[x] = run /\ duals[x] = run
    /\ args.export => csv[x] = run

(* --incomplete_only never rewrites the files of a pair that had its       *)
(* termination condition when the run began, not even with the same words. *)
ResumeKeepsComplete ==
  [][\A x \in Pairs :
       args'.inc /\ term[x] # "none" /\ termRun[x] # run' =>
         /\ status'[x] = status[x]
         /\ term'[x] = term[x] /\ termRun'[x] = termRun[x]
         /\ csv'[x] = csv[x] /\ obj'[x] = obj[x] /\ duals'[x] = duals[x]]_vars

(* Every run that starts comes to an end, faults included.                 *)
RunEnds == phase # "idle" ~> phase = "idle"

(* The schedule in the order of the directory listing.                     *)
Listed == INSTANCE StageSchedule WITH open <- phase # "idle"

(* The schedule in the order of the numbers of stages and subproblems, in  *)
(* which commitments and end states are handed over.                       *)
Schedule == INSTANCE StageSchedule WITH open <- phase # "idle",
              SubPos <- [s \in Subs |-> s], StagePos <- [t \in Stages |-> t]

(* However it is carried out, a run settles the stages of a subproblem in  *)
(* the order of their numbers and linked subproblems one after the other,  *)
(* and it succeeds only when nothing is left.                              *)
ImplementsSchedule == Schedule!Spec

(* The listing, which is sorted as strings, has the stages and the linked  *)
(* subproblems in the order of their numbers: "1", ..., "9", or with       *)
(* zeros in front, but not "1", "10", "2".                                 *)
ListedInOrder ==
  /\ \A t, u \in Stages : t < u => StagePos[t] < StagePos[u]
  /\ Linked => \A s, r \in Subs : s < r => SubPos[s] < SubPos[r]

------------------------------------------------------------------------------
(* What the documentation says and the code does not do.                   *)

(* fix_commitment.py:48: the projects whose commitment a prior stage fixed *)
(* have it fixed in the stages after it.                                   *)
FixedOnceCommitted ==
  \A w \in Workers : pc[w] = "built" =>
    \A t \in Stages : IsPrev(t, stage[w]) /\ term[<<sub[w], t>>] \in Solved
                      /\ obj[<<sub[w], t>>] = termRun[<<sub[w], t>>] =>
      \A p \in FnlCommitPrjs(t) : fixed[w][p] # 0
=============================================================================
