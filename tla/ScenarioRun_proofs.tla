-------------------------- MODULE ScenarioRun_proofs --------------------------
(***************************************************************************)
(* Proofs about ScenarioRun, for any number of subproblems, stages,        *)
(* workers and runs, any solver answer and any fault.                      *)
(***************************************************************************)
EXTENDS ScenarioRun, FiniteSetTheorems, WellFoundedInduction, TLAPS

-------------------------------------------------------------------------------
(* Initial states.                                                         *)

(* Nothing is handed out before the first run.                             *)
LEMMA InitWorkInv == Init => WorkInv
<1> SUFFICES ASSUME Init PROVE WorkInv
  OBVIOUS
<1>1. FilesTypeOK /\ SharedTypeOK
  BY ScenarioAssumption DEF Init, ScenarioAssumption, FilesTypeOK, SharedTypeOK, Runs
<1>2. MainTypeOK
  <2>1. run \in Runs
    BY ScenarioAssumption DEF Init, ScenarioAssumption, Runs
  <2>2. args \in Args
    BY ScenarioAssumption DEF Init, ScenarioAssumption
  <2> QED
    BY <2>1, <2>2 DEF Init, MainTypeOK
<1>3. TaskTypeOK
  BY DEF Init, TaskTypeOK, None
<1>4. MemoryTypeOK
  BY ScenarioAssumption DEF Init, ScenarioAssumption, MemoryTypeOK, Runs, Free
<1>5. WorkerHolds
  BY DEF Init, WorkerHolds, None
<1>6. Distribution
  BY DEF Init, Distribution
<1> QED
  BY <1>1, <1>2, <1>3, <1>4, <1>5, <1>6 DEF WorkInv, TypeOK

-------------------------------------------------------------------------------
(* Steps that several actions share.                                       *)

(* When every process is gone the workers hold nothing.                    *)
LEMMA StopAllWorkInv ==
  ASSUME WorkInv, NEW how \in {"failed", "exit", "killed"}, StopAll(how),
         (FilesTypeOK /\ SharedTypeOK)', UNCHANGED settled,
         failed' \in BOOLEAN, lost' \in BOOLEAN
  PROVE  WorkInv'
<1> USE DEF WorkInv, TypeOK
<1>2. MainTypeOK'
  BY DEF StopAll, MainTypeOK
<1>3. TaskTypeOK'
  BY DEF StopAll, TaskTypeOK, None
<1>4. MemoryTypeOK'
  BY ScenarioAssumption DEF StopAll, MemoryTypeOK, Free, Runs, ScenarioAssumption
<1>5. WorkerHolds'
  BY DEF StopAll, WorkerHolds, None
<1>6. Distribution'
  BY DEF StopAll, Distribution
<1> QED
  BY <1>2, <1>3, <1>4, <1>5, <1>6

(* A worker that forgets its memory keeps the types.                       *)
LEMMA ForgetType ==
  ASSUME TypeOK, NEW w \in Workers, Forget(w)
  PROVE  MemoryTypeOK' /\ stage' \in [Workers -> Stages \cup {None}]
  BY ScenarioAssumption
     DEF TypeOK, MemoryTypeOK, TaskTypeOK, Forget, Free, None, Runs, ScenarioAssumption

(* A worker that drops its chunk gives nothing to another.                 *)
LEMMA DropChunkWorkInv ==
  ASSUME WorkInv, NEW w \in Workers, DropChunk(w),
         (FilesTypeOK /\ SharedTypeOK)', UNCHANGED settled,
         failed' \in BOOLEAN, lost' \in BOOLEAN
  PROVE  WorkInv'
<1> USE DEF WorkInv, TypeOK
<1>2. MainTypeOK'
  BY DEF DropChunk, MainTypeOK
<1>3. TaskTypeOK' /\ MemoryTypeOK'
  BY ForgetType DEF DropChunk, TaskTypeOK, None
<1>4. WorkerHolds'
  BY DEF DropChunk, Forget, WorkerHolds, None, TaskTypeOK
<1>5. Distribution'
  BY DEF DropChunk, Distribution, TaskTypeOK
<1> QED
  BY <1>2, <1>3, <1>4, <1>5

(* An exception ends the run, or the chunk of one worker.                  *)
LEMMA RaiseWorkInv ==
  ASSUME WorkInv, NEW w \in Workers, Raise(w), UNCHANGED <<disk, settled>>
  PROVE  WorkInv'
<1>1. failed' \in BOOLEAN /\ lost' \in BOOLEAN
  BY DEF Raise, WorkInv, TypeOK, MainTypeOK
<1>2. (FilesTypeOK /\ SharedTypeOK)'
  BY DEF WorkInv, TypeOK, disk, files, shared, FilesTypeOK, SharedTypeOK
<1>3. CASE StopAll("failed")
  BY <1>1, <1>2, <1>3, StopAllWorkInv
<1>4. CASE DropChunk(w)
  BY <1>1, <1>2, <1>4, DropChunkWorkInv
<1> QED
  BY <1>3, <1>4 DEF Raise

(* Leaving a stage takes it, and at last its subproblem, off the worker.   *)
LEMMA LeaveStageWorkInv ==
  ASSUME WorkInv, NEW w \in Workers, NEW t \in Stages, LeaveStage(w, t),
         pc[w] # "next", UNCHANGED main, settled' \subseteq Pairs,
         (FilesTypeOK /\ SharedTypeOK)'
  PROVE  WorkInv'
<1> USE DEF WorkInv, TypeOK
<1>1. MainTypeOK'
  BY DEF main, MainTypeOK
<1>2. TaskTypeOK' /\ MemoryTypeOK'
  BY ForgetType DEF LeaveStage, TaskTypeOK, None
<1>3. WorkerHolds'
  BY ScenarioAssumption
     DEF LeaveStage, Forget, WorkerHolds, None, TaskTypeOK, ScenarioAssumption
<1>4. Distribution'
  BY DEF LeaveStage, Distribution, TaskTypeOK, main
<1> QED
  BY <1>1, <1>2, <1>3, <1>4

-------------------------------------------------------------------------------
(* The steps of the main process.                                          *)

(* A run starts with every subproblem in one place.                        *)
LEMMA StartWorkInv ==
  ASSUME WorkInv, NEW a \in RunArgs, Start(a)
  PROVE  WorkInv'
<1> USE DEF WorkInv, TypeOK
<1>1. run' \in Runs /\ args' \in Args /\ failed' \in BOOLEAN /\ lost' \in BOOLEAN
  <2>1. Begin(a)
    BY DEF Start, SolveSequentially, FallBackToSequential, StartParallel
  <2>2. run' \in Runs
    BY <2>1, ScenarioAssumption DEF Begin, MainTypeOK, Runs, ScenarioAssumption
  <2>3. args' \in Args
    BY <2>1, ScenarioAssumption DEF Begin, ScenarioAssumption
  <2> QED
    BY <2>1, <2>2, <2>3 DEF Begin
<1>2. FoundComplete(a) \subseteq Pairs
  BY DEF FoundComplete
<1>3. CASE SolveSequentially(a)
  <2>1. (FilesTypeOK /\ SharedTypeOK /\ MemoryTypeOK)'
    BY <1>3 DEF SolveSequentially, disk, files, shared, FilesTypeOK, SharedTypeOK,
                MemoryTypeOK
  <2>2. PICK w \in Workers : active' = {w} /\ mine' = [mine EXCEPT ![w] = Subs]
    BY <1>3 DEF SolveSequentially
  <2>3. MainTypeOK'
    BY <1>1, <1>2, <1>3, <2>2 DEF SolveSequentially, MainTypeOK
  <2>4. TaskTypeOK'
    BY <1>3, <2>2 DEF SolveSequentially, TaskTypeOK
  <2>5. WorkerHolds'
    BY <1>3, <2>2 DEF SolveSequentially, WorkerHolds, TaskTypeOK
  <2>6. Distribution'
    BY <1>3, <2>2 DEF SolveSequentially, Begin, Distribution, TaskTypeOK
  <2> QED
    BY <2>1, <2>3, <2>4, <2>5, <2>6
<1>4. CASE FallBackToSequential(a)
  <2>1. (FilesTypeOK /\ SharedTypeOK /\ MemoryTypeOK /\ TaskTypeOK)'
    BY <1>4 DEF FallBackToSequential, disk, files, shared, worker, task, FilesTypeOK,
                SharedTypeOK, MemoryTypeOK, TaskTypeOK
  <2>2. MainTypeOK'
    BY <1>1, <1>4 DEF FallBackToSequential, MainTypeOK
  <2>3. WorkerHolds' /\ Distribution'
    BY <1>4 DEF FallBackToSequential, worker, task, WorkerHolds, Distribution
  <2> QED
    BY <2>1, <2>2, <2>3
<1>5. CASE StartParallel(a)
  <2>1. (FilesTypeOK /\ SharedTypeOK /\ MemoryTypeOK /\ TaskTypeOK)'
    BY <1>5 DEF StartParallel, disk, files, shared, worker, task, FilesTypeOK,
                SharedTypeOK, MemoryTypeOK, TaskTypeOK
  <2>2. MainTypeOK'
    BY <1>1, <1>2, <1>5 DEF StartParallel, MainTypeOK
  <2>3. WorkerHolds' /\ Distribution'
    BY <1>5 DEF StartParallel, Begin, worker, task, WorkerHolds, Distribution
  <2> QED
    BY <2>1, <2>2, <2>3
<1> QED
  BY <1>3, <1>4, <1>5 DEF Start

(* The header of a pass-through file replaces its rows.                    *)
LEMMA HeaderType ==
  ASSUME SharedTypeOK, NEW s \in Subs, CreatePassThroughInputs(s)
  PROVE  rows' \in [Subs -> SUBSET PassThroughRow]
  BY DEF SharedTypeOK, CreatePassThroughInputs

(* Both numbers that pool.map divides are at least one: so is its chunk.   *)
LEMMA PoolChunk ==
  ASSUME NEW tasks \in SUBSET Subs, tasks # {},
         NEW A \in SUBSET Workers,
         Cardinality(A) = Smaller(Cardinality(Workers), Cardinality(tasks))
  PROVE  ChunkSize(Cardinality(tasks), Cardinality(A)) \in Nat \ {0}
<1>1. IsFiniteSet(tasks) /\ IsFiniteSet(Workers) /\ Workers # {}
  BY ScenarioAssumption, FS_Subset DEF ScenarioAssumption
<1>2. Cardinality(tasks) \in Nat \ {0} /\ Cardinality(Workers) \in Nat \ {0}
  BY <1>1, FS_EmptySet, FS_CardinalityType
<1> DEFINE n == Cardinality(tasks)
           m == Cardinality(A)
           d == ChunksPerWorker * m
<1>3. n \in Nat \ {0} /\ m \in Nat \ {0} /\ ChunksPerWorker \in Nat \ {0}
  BY <1>2, ScenarioAssumption DEF Smaller, ScenarioAssumption
<1> HIDE DEF n, m
<1>4. d \in Nat \ {0}
  BY <1>3
<1> HIDE DEF d
<1>5. (n + d - 1) \div d \in Nat \ {0}
  BY <1>3, <1>4
<1> QED
  BY <1>5 DEF ChunkSize, n, m, d

(* The pool's queue is filled while nobody holds anything.                 *)
LEMMA FillPoolWorkInv == WorkInv /\ FillPool => WorkInv'
<1> SUFFICES ASSUME WorkInv, FillPool PROVE WorkInv'
  OBVIOUS
<1> USE DEF WorkInv, TypeOK
<1> DEFINE tasks == {s \in Subs : args.inc => \E t \in Stages : ~IsComplete(s, t)}
           n == Cardinality(tasks)
<1>1. (FilesTypeOK /\ SharedTypeOK /\ MemoryTypeOK /\ TaskTypeOK)'
  BY DEF FillPool, disk, files, shared, worker, task, FilesTypeOK, SharedTypeOK,
         MemoryTypeOK, TaskTypeOK
<1>2. WorkerHolds'
  BY DEF FillPool, worker, task, WorkerHolds
<1>3. CASE tasks = {}
  <2>1. phase' = "idle" /\ result' = "ok" /\ UNCHANGED <<pending, active, chunk>>
    BY <1>3 DEF FillPool
  <2>2. MainTypeOK'
    BY <2>1 DEF FillPool, MainTypeOK
  <2>3. Distribution'
    BY <2>1 DEF FillPool, worker, task, Distribution
  <2> QED
    BY <1>1, <1>2, <2>2, <2>3
<1>4. CASE tasks # {}
  <2>1. phase' = "pool" /\ pending' = tasks /\ UNCHANGED result
    BY <1>4 DEF FillPool
  <2>2. PICK A \in SUBSET Workers :
          /\ Cardinality(A) = Smaller(Cardinality(Workers), n)
          /\ active' = A
          /\ chunk' = ChunkSize(n, Cardinality(A))
    BY <1>4 DEF FillPool
  <2>3. chunk' \in Nat
    BY <2>2, PoolChunk, <1>4
  <2>4. MainTypeOK'
    BY <2>1, <2>2, <2>3 DEF FillPool, MainTypeOK
  <2>5. Distribution'
    BY <2>1 DEF FillPool, worker, task, Distribution
  <2> QED
    BY <1>1, <1>2, <2>4, <2>5
<1> QED
  BY <1>3, <1>4

(* The steps of a run that has started, by the main process.               *)
LEMMA MainStepWorkInv == WorkInv /\ MainStep => WorkInv'
<1> SUFFICES ASSUME WorkInv, MainStep PROVE WorkInv'
  OBVIOUS
<1> USE DEF WorkInv, TypeOK
<1>1. ASSUME NEW s \in Subs, CreateAllPassThroughInputs(s) PROVE WorkInv'
  <2>1. rows' \in [Subs -> SUBSET PassThroughRow]
    BY <1>1, HeaderType DEF CreateAllPassThroughInputs
  <2>2. (FilesTypeOK /\ SharedTypeOK /\ MemoryTypeOK /\ TaskTypeOK)'
    BY <1>1, <2>1 DEF CreateAllPassThroughInputs, files, worker, task, FilesTypeOK,
                      SharedTypeOK, MemoryTypeOK, TaskTypeOK
  <2>3. MainTypeOK'
    BY <1>1 DEF CreateAllPassThroughInputs, MainTypeOK
  <2>4. WorkerHolds' /\ Distribution'
    BY <1>1 DEF CreateAllPassThroughInputs, worker, task, WorkerHolds, Distribution
  <2> QED
    BY <2>2, <2>3, <2>4
<1>2. CASE FillPool
  BY <1>2, FillPoolWorkInv
<1>3. CASE ReturnObjectiveValues
  <2>1. (FilesTypeOK /\ SharedTypeOK /\ MemoryTypeOK /\ TaskTypeOK)'
    BY <1>3 DEF ReturnObjectiveValues, disk, files, shared, worker, task, FilesTypeOK,
                SharedTypeOK, MemoryTypeOK, TaskTypeOK
  <2>2. MainTypeOK'
    BY <1>3 DEF ReturnObjectiveValues, MainTypeOK
  <2>3. WorkerHolds' /\ Distribution'
    BY <1>3 DEF ReturnObjectiveValues, worker, task, WorkerHolds, Distribution
  <2> QED
    BY <2>1, <2>2, <2>3
<1> QED
  BY <1>1, <1>2, <1>3 DEF MainStep

(* New inputs change nothing but the linked ones.                          *)
LEMMA DeletePriorInputsWorkInv == WorkInv /\ DeletePriorInputs => WorkInv'
<1> SUFFICES ASSUME WorkInv, DeletePriorInputs PROVE WorkInv'
  OBVIOUS
<1> USE DEF WorkInv, TypeOK
<1>1. linkedIn' \in [Pairs -> Runs]
  BY ScenarioAssumption DEF DeletePriorInputs, Runs, ScenarioAssumption
<1>2. (FilesTypeOK /\ SharedTypeOK /\ MemoryTypeOK /\ TaskTypeOK)'
  BY <1>1 DEF DeletePriorInputs, files, worker, task, FilesTypeOK, SharedTypeOK,
              MemoryTypeOK, TaskTypeOK
<1>3. MainTypeOK' /\ WorkerHolds' /\ Distribution'
  BY DEF DeletePriorInputs, main, worker, task, MainTypeOK, WorkerHolds, Distribution
<1> QED
  BY <1>2, <1>3

-------------------------------------------------------------------------------
(* The steps of a worker.                                                  *)

(* A worker that has a stage in hand is in a directory that exists.        *)
LEMMA AtType ==
  ASSUME WorkInv, NEW w \in Workers, pc[w] \notin {"next", "stage"}
  PROVE  At(w) \in Pairs /\ sub[w] \in Subs /\ stage[w] \in Stages
<1>1. sub[w] \in Subs
  BY DEF WorkInv, WorkerHolds, TypeOK, TaskTypeOK
<1>2. stage[w] \in Stages
  BY DEF WorkInv, WorkerHolds, TypeOK, TaskTypeOK
<1> QED
  BY <1>1, <1>2 DEF At, Pairs

(* A worker that goes on to the next file of its stage moves its pc only.  *)
LEMMA AdvanceWorkInv ==
  ASSUME WorkInv, NEW w \in Workers, pc[w] \notin {"next", "stage"},
         NEW to \in {"built", "status", "term", "noresults", "export", "pass", "obj",
                     "duals"},
         pc' = [pc EXCEPT ![w] = to],
         UNCHANGED <<main, settled, task, fixed, linkedUsed>>,
         out' \in [Workers -> {"none", "optimal", "suboptimal", "infeasible", "unsolved"}],
         (FilesTypeOK /\ SharedTypeOK)'
  PROVE  WorkInv'
<1> USE DEF WorkInv, TypeOK
<1>1. MainTypeOK' /\ MemoryTypeOK'
  BY DEF main, MainTypeOK, MemoryTypeOK
<1>2. TaskTypeOK'
  BY DEF task, TaskTypeOK
<1>3. WorkerHolds'
  BY DEF task, TaskTypeOK, WorkerHolds
<1>4. Distribution'
  BY DEF main, task, Distribution
<1> QED
  BY <1>1, <1>2, <1>3, <1>4

(* Taking a chunk moves subproblems from the queue to one worker.          *)
LEMMA TakeChunkWorkInv ==
  ASSUME WorkInv, NEW w \in Workers, TakeChunk(w)
  PROVE  WorkInv'
<1> USE DEF WorkInv, TypeOK
<1>1. PICK c \in SUBSET pending :
        mine' = [mine EXCEPT ![w] = c] /\ pending' = pending \ c
  BY DEF TakeChunk
<1>2. (FilesTypeOK /\ SharedTypeOK /\ MemoryTypeOK)'
  BY DEF TakeChunk, disk, files, shared, FilesTypeOK, SharedTypeOK, MemoryTypeOK
<1>3. MainTypeOK'
  BY <1>1 DEF TakeChunk, MainTypeOK
<1>4. TaskTypeOK'
  BY <1>1 DEF TakeChunk, TaskTypeOK, MainTypeOK
<1>5. WorkerHolds'
  BY <1>1 DEF TakeChunk, WorkerHolds, TaskTypeOK
<1>6. Distribution'
  BY <1>1 DEF TakeChunk, Distribution, TaskTypeOK
<1> QED
  BY <1>2, <1>3, <1>4, <1>5, <1>6

(* A worker enters a subproblem it was given.                              *)
LEMMA RunOptimizationForSubproblemWorkInv ==
  ASSUME WorkInv, NEW w \in Workers, RunOptimizationForSubproblem(w)
  PROVE  WorkInv'
<1> USE DEF WorkInv, TypeOK
<1>1. PICK s \in mine[w] :
        /\ sub' = [sub EXCEPT ![w] = s]
        /\ CreatePassThroughInputs(s) \/ UNCHANGED rows
  BY DEF RunOptimizationForSubproblem
<1>2. s \in Subs
  BY <1>1 DEF TaskTypeOK
<1>3. rows' \in [Subs -> SUBSET PassThroughRow]
  BY <1>1, <1>2, HeaderType DEF SharedTypeOK
<1>4. (FilesTypeOK /\ SharedTypeOK /\ MemoryTypeOK)'
  BY <1>3 DEF RunOptimizationForSubproblem, files, FilesTypeOK, SharedTypeOK,
              MemoryTypeOK
<1>5. MainTypeOK'
  BY DEF RunOptimizationForSubproblem, main, MainTypeOK
<1>6. TaskTypeOK'
  BY <1>1, <1>2 DEF RunOptimizationForSubproblem, TaskTypeOK
<1>7. WorkerHolds'
  <2>1. Stages # {}
    BY ScenarioAssumption DEF ScenarioAssumption
  <2>2. s # None
    BY <1>2, ScenarioAssumption DEF None, ScenarioAssumption
  <2> QED
    BY <1>1, <2>1, <2>2 DEF RunOptimizationForSubproblem, WorkerHolds, TaskTypeOK
<1>8. Distribution'
  BY DEF RunOptimizationForSubproblem, main, Distribution
<1> QED
  BY <1>4, <1>5, <1>6, <1>7, <1>8

(* Every non-empty set of naturals has a least element.                    *)
LEMMA LeastNat ==
  ASSUME NEW S \in SUBSET Nat, S # {}
  PROVE  \E x \in S : \A y \in S : x <= y
<1> DEFINE R == {ss \in Nat \X Nat : ss[1] < ss[2]}
<1>1. IsWellFoundedOn(R, Nat)
  BY NatLessThanWellFounded DEF OpToRel
<1> HIDE DEF R
<1>2. PICK x \in S : \A y \in S : ~(<<y, x>> \in R)
  BY <1>1, WFMin, Zenon
<1>3. ASSUME NEW y \in S PROVE x <= y
  <2>1. ~(<<y, x>> \in R)
    BY <1>2
  <2>2. x \in Nat /\ y \in Nat
    OBVIOUS
  <2>3. <<y, x>>[1] = y /\ <<y, x>>[2] = x /\ <<y, x>> \in Nat \X Nat
    BY <2>2
  <2>4. ~(y < x)
    BY <2>1, <2>3 DEF R
  <2> QED
    BY <2>2, <2>4
<1> QED
  BY <1>3

(* A non-empty set of run numbers has a last one.                          *)
LEMMA LastRun ==
  ASSUME NEW S \in SUBSET Runs, S # {}
  PROVE  \E x \in S : \A y \in S : y <= x
<1> DEFINE T == {MaxRuns - x : x \in S}
<1>1. MaxRuns \in Nat /\ \A x \in S : x \in Nat /\ x <= MaxRuns
  BY ScenarioAssumption DEF ScenarioAssumption, Runs
<1>2. T \in SUBSET Nat /\ T # {}
  BY <1>1
<1>3. PICK d \in T : \A e \in T : d <= e
  BY <1>2, LeastNat
<1>4. PICK x \in S : d = MaxRuns - x
  OBVIOUS
<1>5. ASSUME NEW y \in S PROVE y <= x
  <2>1. MaxRuns - x <= MaxRuns - y
    BY <1>3, <1>4
  <2> QED
    BY <1>1, <2>1
<1> QED
  BY <1>5

(* What a stage is optimised with: values of rows of the pass-through file *)
(* or nothing.                                                             *)
LEMMA FixedCommitmentType ==
  ASSUME SharedTypeOK, NEW s \in Subs, NEW t \in Stages
  PROVE  FixedCommitment(s, t) \in [Projects -> Runs]
<1> DEFINE Rel == RelevantRows(s, t)
<1>1. Rel \subseteq PassThroughRow
  BY DEF RelevantRows, SharedTypeOK
<1> HIDE DEF Rel
<1> SUFFICES ASSUME NEW p \in Projects PROVE FixedCommitment(s, t)[p] \in Runs
  BY DEF FixedCommitment
<1> DEFINE last(r) == r.prj = p /\ \A q \in Rel : q.prj = p => q.run <= r.run
<1>2. CASE \E r \in Rel : r.prj = p
  <2> DEFINE S == {r.run : r \in {q \in Rel : q.prj = p}}
  <2>1. S \in SUBSET Runs /\ S # {}
    BY <1>1, <1>2 DEF PassThroughRow
  <2>2. PICK n \in S : \A k \in S : k <= n
    BY <2>1, LastRun
  <2>3. \E r \in Rel : last(r)
    BY <2>2
  <2>4. (CHOOSE r \in Rel : last(r)) \in Rel
    BY <2>3
  <2>5. FixedCommitment(s, t)[p] = (CHOOSE r \in Rel : last(r)).run
    BY <1>2 DEF FixedCommitment, Rel
  <2> QED
    BY <1>1, <2>4, <2>5 DEF PassThroughRow
<1>3. CASE ~\E r \in Rel : r.prj = p
  <2>1. FixedCommitment(s, t)[p] = 0
    BY <1>3 DEF FixedCommitment, Rel
  <2> QED
    BY <2>1, ScenarioAssumption DEF ScenarioAssumption, Runs
<1> QED
  BY <1>2, <1>3

(* Building or loading a problem takes the worker into the stage, or fails *)
(* it.                                                                     *)
LEMMA RunStageWorkInv ==
  ASSUME WorkInv, NEW w \in Workers, RunOptimizationForSubproblemStage(w)
  PROVE  WorkInv'
<1> USE DEF WorkInv, TypeOK
<1>1. PICK t \in Stages :
        AtStage(w, t) /\ (LoadHighsSolution(w, t) \/ CreateProblem(w, t))
  BY DEF RunOptimizationForSubproblemStage
<1>2. UNCHANGED <<disk, settled>>
  BY DEF RunOptimizationForSubproblemStage
<1>3. pc[w] = "stage" /\ t \in todo[w] /\ sub[w] \in Subs
  BY <1>1 DEF AtStage, IsFirst, WorkerHolds, TaskTypeOK
<1>4. CASE Raise(w)
  BY <1>2, <1>4, RaiseWorkInv
<1>5. ASSUME NEW to \in {"built", "status"},
             pc' = [pc EXCEPT ![w] = to], stage' = [stage EXCEPT ![w] = t],
             MemoryTypeOK', UNCHANGED <<main, mine, sub, todo>>
      PROVE  WorkInv'
  <2>1. (FilesTypeOK /\ SharedTypeOK)'
    BY <1>2 DEF disk, files, shared, FilesTypeOK, SharedTypeOK
  <2>2. MainTypeOK'
    BY <1>2, <1>5 DEF main, MainTypeOK
  <2>3. TaskTypeOK'
    BY <1>5 DEF TaskTypeOK
  <2>4. t # None
    BY ScenarioAssumption DEF None, ScenarioAssumption
  <2>5. WorkerHolds'
    BY <1>3, <1>5, <2>4 DEF WorkerHolds, TaskTypeOK
  <2>6. Distribution'
    BY <1>5 DEF main, Distribution
  <2> QED
    BY <1>5, <2>1, <2>2, <2>3, <2>5, <2>6
<1>6. CASE CreateProblem(w, t) /\ ~Raise(w)
  <2>1. fixed' \in [Workers -> [Projects -> Runs]]
    BY <1>3, <1>6, FixedCommitmentType DEF CreateProblem, MemoryTypeOK
  <2>2. linkedUsed' \in [Workers -> Runs]
    <3>1. linkedIn[<<sub[w], t>>] \in Runs
      BY <1>3 DEF SharedTypeOK, Pairs
    <3>2. 0 \in Runs
      BY ScenarioAssumption DEF ScenarioAssumption, Runs
    <3> QED
      BY <1>6, <3>1, <3>2 DEF CreateProblem, MemoryTypeOK
  <2>3. MemoryTypeOK'
    BY <1>6, <2>1, <2>2 DEF CreateProblem, MemoryTypeOK
  <2> QED
    BY <1>5, <1>6, <2>3 DEF CreateProblem
<1>7. CASE LoadHighsSolution(w, t) /\ ~Raise(w)
  <2>1. MemoryTypeOK'
    BY <1>7, ScenarioAssumption DEF LoadHighsSolution, MemoryTypeOK, ScenarioAssumption
  <2> QED
    BY <1>5, <1>7, <2>1 DEF LoadHighsSolution
<1> QED
  BY <1>1, <1>4, <1>6, <1>7

(* A stage that is done, or found complete, leaves the worker's hands.     *)
LEMMA SkipCompleteStageWorkInv ==
  ASSUME WorkInv, NEW w \in Workers, SkipCompleteStage(w)
  PROVE  WorkInv'
<1>1. PICK t \in Stages : AtStage(w, t) /\ LeaveStage(w, t)
  BY DEF SkipCompleteStage
<1>2. (FilesTypeOK /\ SharedTypeOK)' /\ settled' \subseteq Pairs /\ UNCHANGED main
  BY DEF SkipCompleteStage, disk, files, shared, FilesTypeOK, SharedTypeOK, WorkInv,
         TypeOK, MainTypeOK
<1> QED
  BY <1>1, <1>2, LeaveStageWorkInv DEF AtStage

(* A stage that was carried out is settled and leaves the worker.          *)
LEMMA FinishStageWorkInv ==
  ASSUME WorkInv, NEW w \in Workers, pc[w] \notin {"next", "stage"},
         FinishStage(w), UNCHANGED main, (FilesTypeOK /\ SharedTypeOK)'
  PROVE  WorkInv'
<1>1. At(w) \in Pairs /\ stage[w] \in Stages
  BY AtType
<1>2. settled' \subseteq Pairs
  BY <1>1 DEF FinishStage, WorkInv, TypeOK, MainTypeOK
<1> QED
  BY <1>1, <1>2, LeaveStageWorkInv DEF FinishStage

(* Writing a problem file ends the process that wrote it.                  *)
LEMMA WriteProblemFileWorkInv ==
  ASSUME WorkInv, NEW w \in Workers, WriteProblemFile(w)
  PROVE  WorkInv'
<1>1. At(w) \in Pairs
  BY AtType DEF WriteProblemFile
<1>2. (FilesTypeOK /\ SharedTypeOK)'
  BY <1>1 DEF WriteProblemFile, files, FilesTypeOK, SharedTypeOK, WorkInv, TypeOK
<1>3. failed' \in BOOLEAN /\ lost' \in BOOLEAN /\ UNCHANGED settled
  BY DEF WriteProblemFile, SystemExit, WorkInv, TypeOK, MainTypeOK
<1>4. CASE StopAll("exit")
  BY <1>2, <1>3, <1>4, StopAllWorkInv
<1>5. CASE DropChunk(w)
  BY <1>2, <1>3, <1>5, DropChunkWorkInv
<1> QED
  BY <1>4, <1>5 DEF WriteProblemFile, SystemExit

(* Every action that writes one of the files of a pair, or solves.         *)
LEMMA StageStepWorkInv ==
  ASSUME WorkInv, NEW w \in Workers,
         \/ SolveProblem(w) \/ SaveSolverStatus(w) \/ SaveTerminationCondition(w)
         \/ ExportResults(w) \/ ExportPassThroughInputs(w)
         \/ SaveObjectiveFunctionValue(w)
  PROVE  WorkInv'
<1> USE DEF WorkInv, TypeOK
<1>1. pc[w] \notin {"next", "stage"}
  BY DEF SolveProblem, SaveSolverStatus, SaveTerminationCondition, ExportResults,
         ExportPassThroughInputs, SaveObjectiveFunctionValue
<1>2. At(w) \in Pairs /\ sub[w] \in Subs /\ stage[w] \in Stages /\ run \in Runs
  BY <1>1, AtType DEF MainTypeOK
<1>3. CASE SolveProblem(w)
  <2>1. out' \in [Workers -> {"none", "optimal", "suboptimal", "infeasible", "unsolved"}]
    BY <1>3, ScenarioAssumption DEF SolveProblem, MemoryTypeOK, ScenarioAssumption
  <2>2. (FilesTypeOK /\ SharedTypeOK)'
    BY <1>3 DEF SolveProblem, disk, files, shared, FilesTypeOK, SharedTypeOK
  <2> QED
    BY <1>1, <1>3, <2>1, <2>2, AdvanceWorkInv DEF SolveProblem
<1>4. CASE SaveSolverStatus(w)
  <2>1. SolverStatus(out[w]) \in {"ok", "warning"}
    BY DEF SolverStatus
  <2>2. (FilesTypeOK /\ SharedTypeOK)' /\ UNCHANGED out
    BY <1>4, <2>1 DEF SaveSolverStatus, shared, FilesTypeOK, SharedTypeOK
  <2> QED
    BY <1>1, <1>4, <2>2, AdvanceWorkInv DEF SaveSolverStatus, MemoryTypeOK
<1>5. CASE SaveTerminationCondition(w)
  <2>1. (FilesTypeOK /\ SharedTypeOK)' /\ UNCHANGED out
    BY <1>2, <1>5
       DEF SaveTerminationCondition, shared, FilesTypeOK, SharedTypeOK, MemoryTypeOK
  <2> QED
    BY <1>1, <1>5, <2>1, AdvanceWorkInv DEF SaveTerminationCondition, MemoryTypeOK
<1>6. CASE ExportResults(w)
  <2>1. (FilesTypeOK /\ SharedTypeOK)' /\ UNCHANGED out
    BY <1>2, <1>6 DEF ExportResults, LinkToNextSubproblem, FilesTypeOK, SharedTypeOK
  <2> QED
    BY <1>1, <1>6, <2>1, AdvanceWorkInv DEF ExportResults, MemoryTypeOK
<1>7. CASE ExportPassThroughInputs(w)
  <2>1. PassThroughRows(stage[w]) \subseteq PassThroughRow
    BY <1>2 DEF PassThroughRows, PassThroughRow, FnlCommitPrjs
  <2>2. (FilesTypeOK /\ SharedTypeOK)' /\ UNCHANGED out
    BY <1>2, <1>7, <2>1 DEF ExportPassThroughInputs, files, FilesTypeOK, SharedTypeOK
  <2> QED
    BY <1>1, <1>7, <2>2, AdvanceWorkInv DEF ExportPassThroughInputs, MemoryTypeOK
<1>8. CASE SaveObjectiveFunctionValue(w)
  <2>1. (FilesTypeOK /\ SharedTypeOK)' /\ UNCHANGED out
    BY <1>2, <1>8
       DEF SaveObjectiveFunctionValue, shared, FilesTypeOK, SharedTypeOK
  <2> QED
    BY <1>1, <1>8, <2>1, AdvanceWorkInv DEF SaveObjectiveFunctionValue, MemoryTypeOK
<1> QED
  BY <1>3, <1>4, <1>5, <1>6, <1>7, <1>8

(* Every step of one worker, its faults included.                          *)
LEMMA WorkerStepWorkInv ==
  ASSUME WorkInv, NEW w \in Workers, WorkerStep(w) \/ Fault(w)
  PROVE  WorkInv'
<1>1. CASE TakeChunk(w)
  BY <1>1, TakeChunkWorkInv
<1>2. CASE RunOptimizationForSubproblem(w)
  BY <1>2, RunOptimizationForSubproblemWorkInv
<1>3. CASE SkipCompleteStage(w)
  BY <1>3, SkipCompleteStageWorkInv
<1>4. CASE RunOptimizationForSubproblemStage(w)
  BY <1>4, RunStageWorkInv
<1>5. CASE WriteProblemFile(w)
  BY <1>5, WriteProblemFileWorkInv
<1>6. CASE \/ SolveProblem(w) \/ SaveSolverStatus(w) \/ SaveTerminationCondition(w)
           \/ ExportResults(w) \/ ExportPassThroughInputs(w)
           \/ SaveObjectiveFunctionValue(w)
  BY <1>6, StageStepWorkInv
<1>7. CASE SkipResultsExport(w)
  <2>1. CASE Raise(w) /\ UNCHANGED settled
    BY <1>7, <2>1, RaiseWorkInv DEF SkipResultsExport
  <2>2. CASE FinishStage(w) /\ UNCHANGED main
    <3>1. (FilesTypeOK /\ SharedTypeOK)'
      BY <1>7 DEF SkipResultsExport, disk, files, shared, FilesTypeOK, SharedTypeOK,
                  WorkInv, TypeOK
    <3> QED
      BY <1>7, <2>2, <3>1, FinishStageWorkInv DEF SkipResultsExport
  <2> QED
    BY <1>7, <2>1, <2>2 DEF SkipResultsExport
<1>8. CASE SaveDuals(w)
  <2>1. At(w) \in Pairs
    BY <1>8, AtType DEF SaveDuals
  <2>2. (FilesTypeOK /\ SharedTypeOK)'
    BY <1>8, <2>1 DEF SaveDuals, shared, FilesTypeOK, SharedTypeOK, WorkInv, TypeOK,
                      MainTypeOK
  <2> QED
    BY <1>8, <2>2, FinishStageWorkInv DEF SaveDuals
<1>9. CASE Fault(w)
  BY <1>9, RaiseWorkInv DEF Fault
<1> QED
  BY <1>1, <1>2, <1>3, <1>4, <1>5, <1>6, <1>7, <1>8, <1>9 DEF WorkerStep

(* Every step, a kill and a stuttering one included, keeps the invariant.  *)
LEMMA NextWorkInv == WorkInv /\ [Next]_vars => WorkInv'
<1> SUFFICES ASSUME WorkInv, [Next]_vars PROVE WorkInv'
  OBVIOUS
<1>1. CASE DeletePriorInputs
  BY <1>1, DeletePriorInputsWorkInv
<1>2. CASE \E a \in RunArgs : Start(a)
  BY <1>2, StartWorkInv
<1>3. CASE MainStep
  BY <1>3, MainStepWorkInv
<1>4. CASE \E w \in Workers : WorkerStep(w) \/ Fault(w)
  BY <1>4, WorkerStepWorkInv
<1>5. CASE Kill
  <2>1. (FilesTypeOK /\ SharedTypeOK)' /\ failed' \in BOOLEAN /\ lost' \in BOOLEAN
    BY <1>5 DEF Kill, disk, files, shared, FilesTypeOK, SharedTypeOK, MainTypeOK,
                WorkInv, TypeOK
  <2> QED
    BY <1>5, <2>1, StopAllWorkInv DEF Kill
<1>6. CASE UNCHANGED vars
  BY <1>6 DEF vars, disk, files, shared, main, worker, task, WorkInv, TypeOK,
              FilesTypeOK, SharedTypeOK, MainTypeOK, TaskTypeOK, MemoryTypeOK,
              WorkerHolds, Distribution
<1> QED
  BY <1>1, <1>2, <1>3, <1>4, <1>5, <1>6 DEF Next

-------------------------------------------------------------------------------
(* Theorems.                                                               *)

(* The inductive invariant holds throughout: types, what each worker holds *)
(* at each point of its loops, and that no subproblem is in two places.    *)
THEOREM WorkInvariant == Spec => []WorkInv
BY InitWorkInv, NextWorkInv, PTL DEF Spec

(* Files carry the number of a run that took place and workers hold ids    *)
(* that exist, whatever run_scenario.py is made to do to the directory.    *)
THEOREM TypeCorrect == Spec => []TypeOK
<1>1. WorkInv => TypeOK
  BY DEF WorkInv
<1> QED
  BY <1>1, WorkInvariant, PTL

(* However many workers solve however many subproblems, no two of them are *)
(* ever in one subproblem's directory: this is why fixed_commitment.tab    *)
(* can be appended to without a lock.                                      *)
THEOREM WorkersApart == Spec => []OneWorkerPerSubproblem
<1>1. WorkInv => OneWorkerPerSubproblem
  BY DEF WorkInv, WorkerHolds, Distribution, OneWorkerPerSubproblem
<1> QED
  BY <1>1, WorkInvariant, PTL

-------------------------------------------------------------------------------
(* Pass-through files.                                                     *)

(* The rows of a subproblem are of the current run.                        *)
OfThisRun(s) == \A r \in rows[s] : r.run = run

(* A file is emptied before the first worker of a run can append to it:    *)
(* all of them before a pool starts, the one at hand when the main process *)
(* is alone.  Files not emptied yet are still those of some earlier run.   *)
RowsInv ==
  /\ ~MultiStage => \A s \in Subs : rows[s] = {}
  /\ phase = "headers" => \A s \in Subs \ toHead : rows[s] = {}
  /\ phase = "pool" => \A s \in Subs : OfThisRun(s)
  /\ \A w \in Workers : sub[w] # None => OfThisRun(sub[w])
  /\ PassThroughOfOneRun

LEMMA InitRowsInv == Init => RowsInv
  BY DEF Init, RowsInv, PassThroughOfOneRun, OfThisRun

(* A step that writes no pass-through file and enters no subproblem.       *)
LEMMA QuietRowsInv ==
  ASSUME RowsInv, UNCHANGED <<rows, run>>,
         phase' \in {phase, "idle"}, toHead' = toHead \/ phase' = "idle",
         \A w \in Workers : sub'[w] \in {sub[w], None}
  PROVE  RowsInv'
<1>1. \A s \in Subs : OfThisRun(s)' <=> OfThisRun(s)
  BY DEF OfThisRun
<1>2. ASSUME NEW w \in Workers, sub'[w] # None PROVE OfThisRun(sub[w])'
  BY <1>2 DEF RowsInv, OfThisRun
<1>3. ASSUME NEW w \in Workers, sub'[w] # None PROVE sub'[w] = sub[w]
  BY <1>3
<1> QED
  BY <1>1, <1>2, <1>3 DEF RowsInv, PassThroughOfOneRun, OfThisRun

(* A run starts when nobody is in a subproblem.                            *)
LEMMA StartRowsInv ==
  ASSUME WorkInv, RowsInv, NEW a \in RunArgs, Start(a)
  PROVE  RowsInv'
<1>1. UNCHANGED rows /\ phase = "idle" /\ UNCHANGED sub
  BY DEF Start, SolveSequentially, FallBackToSequential, StartParallel, Begin, disk,
         shared, worker, task
<1>2. \A w \in Workers : sub[w] = None
  BY <1>1 DEF WorkInv, WorkerHolds, Distribution
<1>3. phase' # "pool" /\ (phase' = "headers" => (MultiStage => toHead' = Subs))
  BY <1>1 DEF Start, SolveSequentially, FallBackToSequential, StartParallel
<1> QED
  BY <1>1, <1>2, <1>3 DEF RowsInv, PassThroughOfOneRun

LEMMA MainStepRowsInv == WorkInv /\ RowsInv /\ MainStep => RowsInv'
<1> SUFFICES ASSUME WorkInv, RowsInv, MainStep PROVE RowsInv'
  OBVIOUS
<1>1. CASE \E s \in Subs : CreateAllPassThroughInputs(s)
  <2>1. PICK s \in Subs : CreateAllPassThroughInputs(s)
    BY <1>1
  <2>2. /\ rows' = [rows EXCEPT ![s] = {}] /\ toHead' = toHead \ {s}
        /\ phase = "headers" /\ UNCHANGED <<phase, run, sub>>
    BY <2>1 DEF CreateAllPassThroughInputs, CreatePassThroughInputs, worker, task
  <2>3. \A r \in Subs : rows'[r] = IF r = s THEN {} ELSE rows[r]
    BY <2>2 DEF WorkInv, TypeOK, SharedTypeOK
  <2>4. \A w \in Workers : sub[w] = None
    BY <2>2 DEF WorkInv, WorkerHolds, Distribution
  <2> QED
    BY <2>2, <2>3, <2>4 DEF RowsInv, PassThroughOfOneRun
<1>2. CASE FillPool
  <2>1. phase = "headers" /\ toHead = {} /\ UNCHANGED <<rows, run, sub>>
    BY <1>2 DEF FillPool, disk, shared, worker, task
  <2>2. \A s \in Subs : rows[s] = {}
    BY <2>1 DEF RowsInv
  <2>3. phase' \in {"idle", "pool"}
    BY <1>2 DEF FillPool
  <2>4. \A w \in Workers : sub[w] = None
    BY <2>1 DEF WorkInv, WorkerHolds, Distribution
  <2> QED
    BY <2>1, <2>2, <2>3, <2>4 DEF RowsInv, PassThroughOfOneRun, OfThisRun
<1>3. CASE ReturnObjectiveValues
  BY <1>3, QuietRowsInv DEF ReturnObjectiveValues, disk, shared, worker, task
<1> QED
  BY <1>1, <1>2, <1>3 DEF MainStep

(* Alone, the main process empties the file of the subproblem it enters;   *)
(* in a pool that has been done.                                           *)
LEMMA EnterSubproblemRowsInv ==
  ASSUME WorkInv, RowsInv, NEW w \in Workers, RunOptimizationForSubproblem(w)
  PROVE  RowsInv'
<1>1. PICK s \in mine[w] :
        /\ sub' = [sub EXCEPT ![w] = s]
        /\ IF phase = "sequential" /\ MultiStage
           THEN CreatePassThroughInputs(s) ELSE UNCHANGED rows
  BY DEF RunOptimizationForSubproblem
<1>2. s \in Subs
  BY <1>1 DEF WorkInv, TypeOK, TaskTypeOK
<1>3. phase \in {"sequential", "pool"} /\ UNCHANGED <<phase, run, toHead>>
  BY DEF RunOptimizationForSubproblem, main
<1>4. \A v \in Workers : sub'[v] = IF v = w THEN s ELSE sub[v]
  BY <1>1 DEF WorkInv, TypeOK, TaskTypeOK
<1>5. CASE phase = "sequential" /\ MultiStage
  <2>1. \A r \in Subs : rows'[r] = IF r = s THEN {} ELSE rows[r]
    BY <1>1, <1>2, <1>5 DEF CreatePassThroughInputs, WorkInv, TypeOK, SharedTypeOK
  <2>2. \A v \in Workers : sub[v] \in Subs \cup {None}
    BY DEF WorkInv, TypeOK, TaskTypeOK
  <2>3. None \notin Subs
    BY ScenarioAssumption DEF ScenarioAssumption, None
  <2> QED
    BY <1>2, <1>3, <1>4, <1>5, <2>1, <2>2, <2>3
       DEF RowsInv, PassThroughOfOneRun, OfThisRun
<1>6. CASE ~(phase = "sequential" /\ MultiStage)
  <2>1. UNCHANGED rows /\ OfThisRun(s)
    BY <1>1, <1>2, <1>3, <1>6 DEF RowsInv, OfThisRun
  <2> QED
    BY <1>3, <1>4, <2>1 DEF RowsInv, PassThroughOfOneRun, OfThisRun
<1> QED
  BY <1>5, <1>6

(* A stage adds rows of this run to a file that has no others.             *)
LEMMA ExportPassThroughRowsInv ==
  ASSUME WorkInv, RowsInv, NEW w \in Workers, ExportPassThroughInputs(w)
  PROVE  RowsInv'
<1>1. sub[w] \in Subs /\ sub[w] # None
  <2>1. pc[w] \notin {"next", "stage"}
    BY DEF ExportPassThroughInputs
  <2> QED
    BY <2>1, AtType DEF WorkInv, WorkerHolds
<1>2. UNCHANGED <<phase, run, toHead, sub>> /\ phase # "headers"
  BY <1>1 DEF ExportPassThroughInputs, main, task, WorkInv, WorkerHolds, Distribution
<1>3. CASE ~MultiStage
  BY <1>2, <1>3, QuietRowsInv DEF ExportPassThroughInputs
<1>4. CASE MultiStage
  <2>1. \A s \in Subs : rows'[s] = IF s = sub[w]
                                   THEN rows[s] \cup PassThroughRows(stage[w])
                                   ELSE rows[s]
    BY <1>1, <1>4 DEF ExportPassThroughInputs, WorkInv, TypeOK, SharedTypeOK
  <2>2. \A r \in PassThroughRows(stage[w]) : r.run = run
    BY DEF PassThroughRows
  <2>3. \A s \in Subs : OfThisRun(s) => OfThisRun(s)'
    BY <1>2, <2>1, <2>2 DEF OfThisRun
  <2>4. OfThisRun(sub[w])'
    BY <1>1, <1>2, <2>3 DEF RowsInv, OfThisRun
  <2>5. PassThroughOfOneRun'
    <3> SUFFICES ASSUME NEW s \in Subs, NEW q \in rows'[s], NEW r \in rows'[s]
                 PROVE  q.run = r.run
      BY DEF PassThroughOfOneRun
    <3>1. CASE s = sub[w]
      BY <1>2, <2>4, <3>1 DEF OfThisRun
    <3>2. CASE s # sub[w]
      BY <2>1, <3>2 DEF RowsInv, PassThroughOfOneRun
    <3> QED
      BY <3>1, <3>2
  <2>6. \A v \in Workers : sub[v] \in Subs \cup {None}
    BY DEF WorkInv, TypeOK, TaskTypeOK
  <2>7. \A v \in Workers : sub'[v] # None => OfThisRun(sub[v])'
    BY <1>2, <2>3, <2>6 DEF RowsInv
  <2> QED
    BY <1>2, <1>4, <2>3, <2>5, <2>7 DEF RowsInv, OfThisRun
<1> QED
  BY <1>3, <1>4

(* A worker that ends a stage, a chunk or itself leaves its subproblem at  *)
(* most.                                                                   *)
LEMMA RaiseQuiet ==
  ASSUME WorkInv, NEW w \in Workers, Raise(w) \/ SystemExit(w)
  PROVE  /\ phase' \in {phase, "idle"} /\ (toHead' = toHead \/ phase' = "idle")
         /\ UNCHANGED run
         /\ \A v \in Workers : sub'[v] \in {sub[v], None}
<1>1. CASE \E how \in {"failed", "exit"} : StopAll(how)
  BY <1>1 DEF StopAll
<1>2. CASE DropChunk(w)
  BY <1>2 DEF DropChunk, WorkInv, TypeOK, TaskTypeOK
<1> QED
  BY <1>1, <1>2 DEF Raise, SystemExit

LEMMA LeaveStageQuiet ==
  ASSUME WorkInv, NEW w \in Workers, NEW t, LeaveStage(w, t)
  PROVE  \A v \in Workers : sub'[v] \in {sub[v], None}
  BY DEF LeaveStage, WorkInv, TypeOK, TaskTypeOK

LEMMA WorkerStepRowsInv ==
  ASSUME WorkInv, RowsInv, NEW w \in Workers, WorkerStep(w) \/ Fault(w)
  PROVE  RowsInv'
<1>1. CASE RunOptimizationForSubproblem(w)
  BY <1>1, EnterSubproblemRowsInv
<1>2. CASE ExportPassThroughInputs(w)
  BY <1>2, ExportPassThroughRowsInv
<1>3. CASE \/ TakeChunk(w) \/ SolveProblem(w) \/ SaveSolverStatus(w)
           \/ SaveTerminationCondition(w) \/ ExportResults(w)
           \/ SaveObjectiveFunctionValue(w)
  <2>1. UNCHANGED <<rows, run, phase, toHead, sub>>
    BY <1>3 DEF TakeChunk, SolveProblem, SaveSolverStatus, SaveTerminationCondition,
                ExportResults, SaveObjectiveFunctionValue, disk, shared, main, task
  <2> QED
    BY <2>1, QuietRowsInv
<1>4. CASE SkipCompleteStage(w)
  <2>1. PICK t \in Stages : LeaveStage(w, t)
    BY <1>4 DEF SkipCompleteStage
  <2>2. UNCHANGED <<rows, run, phase, toHead>>
    BY <1>4 DEF SkipCompleteStage, disk, shared, main
  <2> QED
    BY <2>1, <2>2, LeaveStageQuiet, QuietRowsInv
<1>5. CASE RunOptimizationForSubproblemStage(w)
  <2>1. UNCHANGED rows
    BY <1>5 DEF RunOptimizationForSubproblemStage, disk, shared
  <2>2. Raise(w) \/ UNCHANGED <<run, phase, toHead, sub>>
    BY <1>5 DEF RunOptimizationForSubproblemStage, LoadHighsSolution, CreateProblem, main
  <2> QED
    BY <2>1, <2>2, RaiseQuiet, QuietRowsInv
<1>6. CASE WriteProblemFile(w)
  <2>1. UNCHANGED rows /\ SystemExit(w)
    BY <1>6 DEF WriteProblemFile
  <2> QED
    BY <2>1, RaiseQuiet, QuietRowsInv
<1>7. CASE SkipResultsExport(w)
  <2>1. UNCHANGED rows
    BY <1>7 DEF SkipResultsExport, disk, shared
  <2>2. CASE Raise(w)
    BY <2>1, <2>2, RaiseQuiet, QuietRowsInv
  <2>3. CASE FinishStage(w) /\ UNCHANGED main
    <3>1. UNCHANGED <<run, phase, toHead>> /\ LeaveStage(w, stage[w])
      BY <2>3 DEF FinishStage, main
    <3> QED
      BY <2>1, <3>1, LeaveStageQuiet, QuietRowsInv
  <2> QED
    BY <1>7, <2>2, <2>3 DEF SkipResultsExport
<1>8. CASE SaveDuals(w)
  <2>1. UNCHANGED <<rows, run, phase, toHead>> /\ LeaveStage(w, stage[w])
    BY <1>8 DEF SaveDuals, FinishStage, shared, main
  <2> QED
    BY <2>1, LeaveStageQuiet, QuietRowsInv
<1>9. CASE Fault(w)
  <2>1. UNCHANGED rows /\ Raise(w)
    BY <1>9 DEF Fault, disk, shared
  <2> QED
    BY <2>1, RaiseQuiet, QuietRowsInv
<1> QED
  BY <1>1, <1>2, <1>3, <1>4, <1>5, <1>6, <1>7, <1>8, <1>9 DEF WorkerStep

LEMMA NextRowsInv == WorkInv /\ RowsInv /\ [Next]_vars => RowsInv'
<1> SUFFICES ASSUME WorkInv, RowsInv, [Next]_vars PROVE RowsInv'
  OBVIOUS
<1>1. CASE DeletePriorInputs
  BY <1>1, QuietRowsInv DEF DeletePriorInputs, main, worker, task
<1>2. CASE \E a \in RunArgs : Start(a)
  BY <1>2, StartRowsInv
<1>3. CASE MainStep
  BY <1>3, MainStepRowsInv
<1>4. CASE \E w \in Workers : WorkerStep(w) \/ Fault(w)
  BY <1>4, WorkerStepRowsInv
<1>5. CASE Kill
  BY <1>5, QuietRowsInv DEF Kill, StopAll, disk, shared
<1>6. CASE UNCHANGED vars
  BY <1>6, QuietRowsInv DEF vars, disk, shared, main, worker, task
<1> QED
  BY <1>1, <1>2, <1>3, <1>4, <1>5, <1>6 DEF Next

(* Through kills, failures and resumptions the rows of a pass-through file *)
(* are of one run: create_pass_through_inputs truncates the file before    *)
(* any stage of the same run can append to it.                             *)
THEOREM OneRunPerPassThroughFile == Spec => []PassThroughOfOneRun
<1>1. RowsInv => PassThroughOfOneRun
  BY DEF RowsInv
<1>2. Spec => []RowsInv
  BY InitRowsInv, NextRowsInv, WorkInvariant, PTL DEF Spec
<1> QED
  BY <1>1, <1>2, PTL

-------------------------------------------------------------------------------
(* The files of a pair: what a run has left behind settled is whole, and a     *)
(* resumed run never rewrites what was complete when it began.                 *)

(* A worker has a stage in hand: it has gone past the question whether it  *)
(* is complete.                                                            *)
InHand(w) == pc[w] \notin {"next", "stage"}

(* The files of the pair in hand, by how far save_results has come.        *)
Written(w) ==
  /\ args.inc => term[At(w)] = "none" \/ termRun[At(w)] = run
  /\ pc[w] \in {"term", "noresults", "export", "pass", "obj", "duals"} =>
       status[At(w)] = SolverStatus(out[w])
  /\ pc[w] \in {"noresults", "export", "pass", "obj", "duals"} =>
       term[At(w)] = out[w] /\ termRun[At(w)] = run
  /\ pc[w] = "noresults" => out[w] \notin Solved
  /\ pc[w] \in {"export", "pass", "obj", "duals"} => out[w] \in Solved
  /\ pc[w] \in {"pass", "obj", "duals"} => (args.export => csv[At(w)] = run)
  /\ pc[w] = "duals" => obj[At(w)] = run

InHandInv == \A w \in Workers : InHand(w) => Written(w) /\ At(w) \notin settled

(* This run will not come to x again.                                      *)
Gone(x) ==
  /\ x[1] \notin pending
  /\ \A w \in Workers : x[1] \in mine[w] => sub[w] = x[1] /\ x[2] \notin todo[w]

(* A pair is settled because this run has solved it, or because a resumed  *)
(* run found it complete.                                                  *)
SettledInv ==
  \A x \in settled : IF termRun[x] = run THEN Gone(x)
                     ELSE args.inc /\ term[x] # "none"

(* Nothing is of a run that is yet to come, or to start its pool.          *)
TermRunInv ==
  /\ \A x \in Pairs : termRun[x] <= run
  /\ phase = "headers" => \A x \in Pairs : termRun[x] # run

FilesInv == TermRunInv /\ InHandInv /\ SettledInv /\ SettledHasResults

-------------------------------------------------------------------------------
LEMMA InitFilesInv == Init => FilesInv
  BY ScenarioAssumption
     DEF ScenarioAssumption, Init, FilesInv, TermRunInv, InHandInv, InHand,
         SettledInv, SettledHasResults

(* A step that writes no file and takes no stage in hand.                  *)
LEMMA QuietFilesInv ==
  ASSUME FilesInv, UNCHANGED <<files, run, args, settled>>,
         phase' = "headers" => phase = "headers",
         \A v \in Workers : InHand(v)' =>
           /\ InHand(v) /\ pc'[v] = pc[v] /\ out'[v] = out[v]
           /\ sub'[v] = sub[v] /\ stage'[v] = stage[v],
         \A x \in settled : termRun[x] = run /\ Gone(x) => Gone(x)'
  PROVE  FilesInv'
<1>1. UNCHANGED <<status, term, termRun, csv, obj, duals>>
  BY DEF files
<1>2. ASSUME NEW v \in Workers, InHand(v)' PROVE (Written(v) /\ At(v) \notin settled)'
  <2>1. Written(v) /\ At(v) \notin settled
    BY <1>2 DEF FilesInv, InHandInv
  <2>2. At(v)' = At(v)
    BY <1>2 DEF At
  <2>3. pc'[v] = pc[v] /\ out'[v] = out[v]
    BY <1>2
  <2> QED
    BY <1>1, <2>1, <2>2, <2>3 DEF Written
<1>3. TermRunInv'
  BY <1>1 DEF FilesInv, TermRunInv
<1>4. SettledInv'
  BY <1>1 DEF FilesInv, SettledInv
<1>5. SettledHasResults'
  BY <1>1 DEF FilesInv, SettledHasResults
<1> QED
  BY <1>2, <1>3, <1>4, <1>5 DEF FilesInv, InHandInv

(* A run starts with what it found complete, and nobody has a stage.       *)
LEMMA StartFilesInv ==
  ASSUME WorkInv, FilesInv, NEW a \in RunArgs, Start(a)
  PROVE  FilesInv'
<1>1. /\ UNCHANGED <<status, term, termRun, csv, obj, duals, pc>>
      /\ phase = "idle" /\ run' = run + 1 /\ args' = a
  BY DEF Start, SolveSequentially, FallBackToSequential, StartParallel, Begin, disk,
         files, worker, task
<1>2. settled' = {} \/ settled' = FoundComplete(a)
  BY DEF Start, SolveSequentially, FallBackToSequential, StartParallel
<1>3. \A w \in Workers : pc[w] = "next"
  BY <1>1 DEF WorkInv, WorkerHolds, Distribution
<1>4. \A x \in Pairs : termRun'[x] < run'
  BY <1>1, ScenarioAssumption
     DEF FilesInv, TermRunInv, WorkInv, TypeOK, FilesTypeOK, MainTypeOK, Runs,
         ScenarioAssumption
<1>5. \A x \in settled' : x \in Pairs /\ a.inc /\ term[x] # "none"
  <2>1. ASSUME NEW x \in FoundComplete(a)
        PROVE  x \in Pairs /\ a.inc /\ term[x] # "none"
    <3>1. x \in Pairs /\ a.inc /\ IsComplete(x[1], x[2])
      BY <2>1 DEF FoundComplete
    <3>2. x = <<x[1], x[2]>>
      BY <3>1 DEF Pairs
    <3> QED
      BY <3>1, <3>2 DEF IsComplete
  <2> QED
    BY <1>2, <2>1
<1>6. run' \in Nat /\ \A x \in Pairs : termRun'[x] \in Nat
  BY <1>1, ScenarioAssumption
     DEF WorkInv, TypeOK, FilesTypeOK, MainTypeOK, Runs, ScenarioAssumption
<1>7. \A x \in Pairs : termRun'[x] # run' /\ termRun'[x] <= run'
  BY <1>4, <1>6
<1>8. TermRunInv'
  BY <1>7 DEF TermRunInv
<1>9. InHandInv'
  BY <1>1, <1>3 DEF InHandInv, InHand
<1>10. SettledInv' /\ SettledHasResults'
  BY <1>1, <1>5, <1>7 DEF SettledInv, SettledHasResults
<1> QED
  BY <1>8, <1>9, <1>10 DEF FilesInv

LEMMA MainStepFilesInv == WorkInv /\ FilesInv /\ MainStep => FilesInv'
<1> SUFFICES ASSUME WorkInv, FilesInv, MainStep PROVE FilesInv'
  OBVIOUS
<1>1. UNCHANGED <<files, run, args, settled, pc, out, sub, stage, mine, todo>>
  BY DEF MainStep, CreateAllPassThroughInputs, FillPool, ReturnObjectiveValues, disk,
         worker, task
<1>2. phase' = "headers" => phase = "headers"
  BY DEF MainStep, CreateAllPassThroughInputs, FillPool, ReturnObjectiveValues
<1>3. \A x \in settled : termRun[x] = run /\ Gone(x) => Gone(x)'
  <2>1. CASE phase = "headers"
    BY <2>1 DEF FilesInv, TermRunInv, WorkInv, TypeOK, MainTypeOK
  <2>2. CASE phase # "headers"
    <3>1. UNCHANGED pending
      BY <2>2 DEF MainStep, CreateAllPassThroughInputs, FillPool,
                  ReturnObjectiveValues
    <3> QED
      BY <1>1, <3>1 DEF Gone
  <2> QED
    BY <2>1, <2>2
<1> QED
  BY <1>1, <1>2, <1>3, QuietFilesInv DEF InHand

-------------------------------------------------------------------------------
(* The steps of a worker.                                                  *)

(* Two workers never have the same pair.                                   *)
LEMMA PairsApart ==
  ASSUME WorkInv, NEW w \in Workers, NEW v \in Workers, w # v, InHand(w), InHand(v)
  PROVE  At(w) # At(v) /\ sub[w] # sub[v]
<1>1. sub[w] \in mine[w] /\ sub[v] \in mine[v]
  BY DEF InHand, WorkInv, WorkerHolds
<1> QED
  BY <1>1 DEF WorkInv, Distribution, At

(* Writing the next file of the pair in hand.                              *)
LEMMA AdvanceFilesInv ==
  ASSUME WorkInv, FilesInv, NEW w \in Workers, InHand(w), NEW to,
         to \notin {"next", "stage"}, pc' = [pc EXCEPT ![w] = to],
         UNCHANGED <<main, settled, task>>,
         \A v \in Workers \ {w} : out'[v] = out[v],
         \A x \in Pairs \ {At(w)} :
           /\ status'[x] = status[x] /\ term'[x] = term[x]
           /\ termRun'[x] = termRun[x] /\ csv'[x] = csv[x]
           /\ obj'[x] = obj[x] /\ duals'[x] = duals[x],
         termRun'[At(w)] \in {termRun[At(w)], run},
         Written(w)'
  PROVE  FilesInv'
<1>1. At(w) \in Pairs /\ At(w) \notin settled /\ settled \subseteq Pairs
  BY AtType DEF InHand, FilesInv, InHandInv, WorkInv, TypeOK, MainTypeOK
<1>2. UNCHANGED <<phase, run, args, pending, mine, sub, todo, stage>>
  BY DEF main, task
<1>3. \A v \in Workers : pc'[v] = IF v = w THEN to ELSE pc[v]
  BY DEF WorkInv, TypeOK, TaskTypeOK
<1>4. \A v \in Workers : At(v)' = At(v)
  BY <1>2 DEF At
<1>5. run \in Nat /\ phase # "headers"
  <2>1. mine[w] # {}
    BY DEF InHand, WorkInv, WorkerHolds
  <2> QED
    BY <2>1, ScenarioAssumption
       DEF WorkInv, Distribution, TypeOK, MainTypeOK, Runs, ScenarioAssumption
<1>6. TermRunInv'
  BY <1>1, <1>2, <1>5 DEF FilesInv, TermRunInv
<1>7. InHandInv'
  <2> SUFFICES ASSUME NEW v \in Workers, InHand(v)'
               PROVE  Written(v)' /\ (At(v) \notin settled)'
    BY DEF InHandInv
  <2>1. CASE v = w
    BY <1>1, <1>4, <2>1
  <2>2. CASE v # w
    <3>1. InHand(v) /\ pc'[v] = pc[v]
      BY <1>3, <2>2 DEF InHand
    <3>2. At(v) # At(w) /\ At(v) \in Pairs
      BY <2>2, <3>1, PairsApart, AtType DEF InHand
    <3>3. Written(v) /\ At(v) \notin settled
      BY <3>1 DEF FilesInv, InHandInv
    <3> QED
      BY <1>2, <1>4, <2>2, <3>1, <3>2, <3>3 DEF Written
  <2> QED
    BY <2>1, <2>2
<1>8. SettledInv'
  BY <1>1, <1>2 DEF FilesInv, SettledInv, Gone
<1>9. SettledHasResults'
  BY <1>1, <1>2 DEF FilesInv, SettledHasResults
<1> QED
  BY <1>6, <1>7, <1>8, <1>9 DEF FilesInv

(* Every action that writes one of the files of a pair, or solves.         *)
LEMMA StageStepFilesInv ==
  ASSUME WorkInv, FilesInv, NEW w \in Workers,
         \/ SolveProblem(w) \/ SaveSolverStatus(w) \/ SaveTerminationCondition(w)
         \/ ExportResults(w) \/ ExportPassThroughInputs(w)
         \/ SaveObjectiveFunctionValue(w)
  PROVE  FilesInv'
<1> USE DEF files, main, task, disk
<1>1. InHand(w)
  BY DEF InHand, SolveProblem, SaveSolverStatus, SaveTerminationCondition,
         ExportResults, ExportPassThroughInputs, SaveObjectiveFunctionValue
<1>2. At(w) \in Pairs /\ Written(w)
  BY <1>1, AtType DEF InHand, FilesInv, InHandInv
<1>3. UNCHANGED <<main, settled, task>> /\ At(w)' = At(w) /\ UNCHANGED <<args, run>>
  BY DEF SolveProblem, SaveSolverStatus, SaveTerminationCondition, ExportResults,
         ExportPassThroughInputs, SaveObjectiveFunctionValue, At
<1>4. /\ status \in [Pairs -> {"none", "ok", "warning"}]
      /\ term \in [Pairs -> {"none", "optimal", "suboptimal", "infeasible", "unsolved"}]
      /\ termRun \in [Pairs -> Runs] /\ csv \in [Pairs -> Runs]
      /\ obj \in [Pairs -> Runs]
      /\ pc \in [Workers -> {"next", "stage", "built", "status", "term", "noresults",
                             "export", "pass", "obj", "duals"}]
      /\ out \in [Workers -> {"none", "optimal", "suboptimal", "infeasible", "unsolved"}]
  BY DEF WorkInv, TypeOK, FilesTypeOK, TaskTypeOK, MemoryTypeOK
<1>5. CASE SolveProblem(w)
  <2>1. pc'[w] = "status" /\ UNCHANGED files
    BY <1>4, <1>5 DEF SolveProblem
  <2>2. Written(w)'
    BY <1>2, <1>3, <2>1 DEF Written
  <2> QED
    BY <1>1, <1>3, <1>4, <1>5, <2>1, <2>2, AdvanceFilesInv DEF SolveProblem
<1>6. CASE SaveSolverStatus(w)
  <2>1. /\ pc[w] = "status" /\ pc'[w] = "term" /\ UNCHANGED <<term, termRun, out>>
        /\ status'[At(w)] = SolverStatus(out[w])
    BY <1>2, <1>4, <1>6 DEF SaveSolverStatus
  <2>2. Written(w)'
    BY <1>2, <1>3, <2>1 DEF Written, SolverStatus
  <2> QED
    BY <1>1, <1>3, <1>4, <1>6, <2>1, <2>2, AdvanceFilesInv DEF SaveSolverStatus
<1>7. CASE SaveTerminationCondition(w)
  <2>1. /\ pc[w] = "term"
        /\ pc' = [pc EXCEPT ![w] =
                    IF SolverStatus(out[w]) = "ok" THEN "export" ELSE "noresults"]
        /\ UNCHANGED <<status, csv, obj, duals, out>>
        /\ term'[At(w)] = out[w] /\ termRun'[At(w)] = run
    BY <1>2, <1>4, <1>7 DEF SaveTerminationCondition
  <2>2. pc'[w] = IF SolverStatus(out[w]) = "ok" THEN "export" ELSE "noresults"
    BY <1>4, <2>1
  <2>3. Written(w)'
    BY <1>2, <1>3, <2>1, <2>2 DEF Written, SolverStatus
  <2>4. \A x \in Pairs \ {At(w)} : term'[x] = term[x] /\ termRun'[x] = termRun[x]
    BY <1>4, <1>7 DEF SaveTerminationCondition
  <2>5. CASE out[w] \in Solved
    BY <1>1, <1>3, <2>1, <2>3, <2>4, <2>5, AdvanceFilesInv
  <2>6. CASE out[w] \notin Solved
    BY <1>1, <1>3, <2>1, <2>3, <2>4, <2>6, AdvanceFilesInv
  <2> QED
    BY <2>5, <2>6
<1>8. CASE ExportResults(w)
  <2>1. /\ pc[w] = "export" /\ pc'[w] = "pass"
        /\ UNCHANGED <<status, term, termRun, obj, duals, out>>
        /\ args.export => csv'[At(w)] = run
    BY <1>2, <1>4, <1>8 DEF ExportResults
  <2>2. \A x \in Pairs \ {At(w)} : csv'[x] = csv[x]
    BY <1>4, <1>8 DEF ExportResults
  <2>3. Written(w)'
    BY <1>2, <1>3, <2>1 DEF Written, SolverStatus
  <2> QED
    BY <1>1, <1>3, <1>8, <2>1, <2>2, <2>3, AdvanceFilesInv DEF ExportResults
<1>9. CASE ExportPassThroughInputs(w)
  <2>1. pc[w] = "pass" /\ pc'[w] = "obj" /\ UNCHANGED <<files, out>>
    BY <1>4, <1>9 DEF ExportPassThroughInputs
  <2>2. Written(w)'
    BY <1>2, <1>3, <2>1 DEF Written, SolverStatus
  <2> QED
    BY <1>1, <1>3, <1>9, <2>1, <2>2, AdvanceFilesInv DEF ExportPassThroughInputs
<1>10. CASE SaveObjectiveFunctionValue(w)
  <2>1. /\ pc[w] = "obj" /\ pc'[w] = "duals"
        /\ UNCHANGED <<status, term, termRun, csv, duals, out>>
        /\ obj'[At(w)] = run
    BY <1>2, <1>4, <1>10 DEF SaveObjectiveFunctionValue
  <2>2. \A x \in Pairs \ {At(w)} : obj'[x] = obj[x]
    BY <1>4, <1>10 DEF SaveObjectiveFunctionValue
  <2>3. Written(w)'
    BY <1>2, <1>3, <2>1 DEF Written, SolverStatus
  <2> QED
    BY <1>1, <1>3, <1>10, <2>1, <2>2, <2>3, AdvanceFilesInv
       DEF SaveObjectiveFunctionValue
<1> QED
  BY <1>5, <1>6, <1>7, <1>8, <1>9, <1>10

(* What a worker takes from the queue is not settled by this run.          *)
LEMMA TakeChunkFilesInv ==
  ASSUME WorkInv, FilesInv, NEW w \in Workers, TakeChunk(w)
  PROVE  FilesInv'
<1>1. PICK c \in SUBSET pending :
        mine' = [mine EXCEPT ![w] = c] /\ pending' = pending \ c
  BY DEF TakeChunk
<1>2. UNCHANGED <<files, run, args, phase, settled, pc, out, sub, stage, todo>>
  BY DEF TakeChunk, disk
<1>3. \A x \in settled : termRun[x] = run /\ Gone(x) => Gone(x)'
  BY <1>1, <1>2 DEF Gone, WorkInv, TypeOK, TaskTypeOK
<1> QED
  BY <1>2, <1>3, QuietFilesInv DEF InHand

(* The subproblem that a worker enters has no pair settled by this run.    *)
LEMMA EnterSubproblemFilesInv ==
  ASSUME WorkInv, FilesInv, NEW w \in Workers, RunOptimizationForSubproblem(w)
  PROVE  FilesInv'
<1>1. PICK s \in mine[w] : sub' = [sub EXCEPT ![w] = s]
  BY DEF RunOptimizationForSubproblem
<1>2. /\ UNCHANGED <<files, run, args, phase, settled, pending, mine, out, stage>>
      /\ pc[w] = "next" /\ pc' = [pc EXCEPT ![w] = "stage"]
      /\ todo' = [todo EXCEPT ![w] = Stages]
  BY DEF RunOptimizationForSubproblem, main
<1>3. sub[w] = None
  BY <1>2 DEF WorkInv, WorkerHolds
<1>4. \A v \in Workers : v # w => sub'[v] = sub[v] /\ todo'[v] = todo[v] /\ pc'[v] = pc[v]
  BY <1>1, <1>2 DEF WorkInv, TypeOK, TaskTypeOK
<1>5. ~InHand(w)'
  BY <1>2 DEF InHand, WorkInv, TypeOK, TaskTypeOK
<1>6. ASSUME NEW x \in settled, Gone(x) PROVE Gone(x)'
  <2>1. x[1] \in Subs
    BY DEF WorkInv, TypeOK, MainTypeOK, Pairs
  <2>2. x[1] # None
    BY <2>1, ScenarioAssumption DEF ScenarioAssumption, None
  <2>3. x[1] \notin mine[w]
    BY <1>3, <1>6, <2>2 DEF Gone
  <2> QED
    BY <1>2, <1>4, <1>6, <2>3 DEF Gone
<1> QED
  BY <1>2, <1>4, <1>5, <1>6, QuietFilesInv DEF InHand

(* Leaving a stage makes no worker come back to anything.                  *)
LEMMA LeaveStageGone ==
  ASSUME WorkInv, NEW w \in Workers, NEW t, LeaveStage(w, t), UNCHANGED pending,
         NEW x, Gone(x)
  PROVE  Gone(x)'
<1>1. \A v \in Workers : /\ mine'[v] \subseteq mine[v] /\ todo'[v] \subseteq todo[v]
                         /\ v # w => sub'[v] = sub[v]
  BY DEF LeaveStage, WorkInv, TypeOK, TaskTypeOK
<1>2. mine'[w] = mine[w] \ {sub[w]} \/ sub'[w] = sub[w]
  BY DEF LeaveStage, WorkInv, TypeOK, TaskTypeOK
<1> QED
  BY <1>1, <1>2 DEF Gone

LEMMA LeaveStageHands ==
  ASSUME WorkInv, NEW w \in Workers, NEW t, LeaveStage(w, t)
  PROVE  /\ ~InHand(w)'
         /\ \A v \in Workers : v # w => /\ pc'[v] = pc[v] /\ out'[v] = out[v]
                                        /\ sub'[v] = sub[v] /\ stage'[v] = stage[v]
  BY DEF LeaveStage, Forget, InHand, WorkInv, TypeOK, TaskTypeOK, MemoryTypeOK

LEMMA SkipCompleteStageFilesInv ==
  ASSUME WorkInv, FilesInv, NEW w \in Workers, SkipCompleteStage(w)
  PROVE  FilesInv'
<1>1. PICK t \in Stages : LeaveStage(w, t)
  BY DEF SkipCompleteStage
<1>2. UNCHANGED <<files, run, args, phase, settled, pending>>
  BY DEF SkipCompleteStage, disk, main
<1>3. ~InHand(w)' /\ \A v \in Workers : v # w =>
        /\ pc'[v] = pc[v] /\ out'[v] = out[v]
        /\ sub'[v] = sub[v] /\ stage'[v] = stage[v]
  BY <1>1, LeaveStageHands
<1>4. \A x \in settled : Gone(x) => Gone(x)'
  BY <1>1, <1>2, LeaveStageGone
<1> QED
  BY <1>2, <1>3, <1>4, QuietFilesInv DEF InHand

(* A pair that this run is done with has the files that it has written.    *)
LEMMA FinishStageFilesInv ==
  ASSUME WorkInv, FilesInv, NEW w \in Workers, pc[w] \in {"noresults", "duals"},
         FinishStage(w), UNCHANGED <<main, status, term, termRun, csv, obj>>,
         \A x \in Pairs \ {At(w)} : duals'[x] = duals[x],
         pc[w] = "duals" => duals'[At(w)] = run
  PROVE  FilesInv'
<1>1. At(w) \in Pairs /\ sub[w] \in Subs /\ stage[w] \in Stages /\ InHand(w)
  BY AtType DEF InHand
<1>2. Written(w) /\ At(w) \notin settled
  BY <1>1 DEF FilesInv, InHandInv
<1>3. LeaveStage(w, stage[w]) /\ settled' = settled \cup {At(w)}
  BY DEF FinishStage
<1>4. UNCHANGED <<phase, run, args, pending>>
  BY DEF main
<1>5. TermRunInv'
  BY <1>4 DEF FilesInv, TermRunInv
<1>6. InHandInv'
  <2> SUFFICES ASSUME NEW v \in Workers, InHand(v)'
               PROVE  Written(v)' /\ (At(v) \notin settled)'
    BY DEF InHandInv
  <2>1. /\ v # w /\ pc'[v] = pc[v] /\ out'[v] = out[v]
        /\ sub'[v] = sub[v] /\ stage'[v] = stage[v]
    BY <1>3, LeaveStageHands
  <2>2. InHand(v) /\ At(v)' = At(v)
    BY <2>1 DEF InHand, At
  <2>3. At(v) # At(w)
    BY <1>1, <2>1, <2>2, PairsApart
  <2>4. Written(v) /\ At(v) \notin settled
    BY <2>2 DEF FilesInv, InHandInv
  <2> QED
    BY <1>3, <1>4, <2>1, <2>2, <2>3, <2>4 DEF Written
<1>7. SettledInv'
  <2>1. ASSUME NEW x \in settled
        PROVE  (IF termRun[x] = run THEN Gone(x) ELSE args.inc /\ term[x] # "none")'
    <3>1. IF termRun[x] = run THEN Gone(x) ELSE args.inc /\ term[x] # "none"
      BY <2>1 DEF FilesInv, SettledInv
    <3> QED
      BY <1>3, <1>4, <3>1, LeaveStageGone
  <2>2. ASSUME NEW x, x = At(w) PROVE Gone(x)'
    <3>1. sub[w] \in mine[w] /\ sub[w] \notin pending
      BY <1>1 DEF InHand, WorkInv, WorkerHolds, Distribution
    <3>2. \A v \in Workers : v # w => sub[w] \notin mine'[v]
      BY <1>3, <3>1 DEF LeaveStage, WorkInv, Distribution, TypeOK, TaskTypeOK
    <3>3. sub[w] \in mine'[w] => sub'[w] = sub[w]
      BY <1>3 DEF LeaveStage, WorkInv, TypeOK, TaskTypeOK
    <3>4. stage[w] \notin todo'[w]
      BY <1>3 DEF LeaveStage, WorkInv, TypeOK, TaskTypeOK
    <3> QED
      BY <1>4, <2>2, <3>1, <3>2, <3>3, <3>4 DEF Gone, At
  <2>3. termRun'[At(w)] = run'
    BY <1>2, <1>4 DEF Written
  <2> QED
    BY <1>3, <2>1, <2>2, <2>3 DEF SettledInv
<1>8. SettledHasResults'
  <2>1. ASSUME NEW x \in settled, termRun[x] = run, term[x] \in Solved
        PROVE  /\ status[x] = "ok" /\ obj[x] = run /\ duals'[x] = run
               /\ args.export => csv[x] = run
    <3>1. x \in Pairs /\ x # At(w)
      BY <1>2, <2>1 DEF WorkInv, TypeOK, MainTypeOK
    <3> QED
      BY <2>1, <3>1 DEF FilesInv, SettledHasResults
  <2>2. ASSUME term[At(w)] \in Solved
        PROVE  /\ status[At(w)] = "ok" /\ obj[At(w)] = run /\ duals'[At(w)] = run
               /\ args.export => csv[At(w)] = run
    <3>1. pc[w] = "duals" /\ out[w] \in Solved
      BY <1>2, <2>2 DEF Written
    <3> QED
      BY <1>2, <3>1 DEF Written, SolverStatus
  <2> QED
    BY <1>3, <1>4, <2>1, <2>2 DEF SettledHasResults
<1> QED
  BY <1>5, <1>6, <1>7, <1>8 DEF FilesInv

(* An exception, or an exit, leaves nobody with more than before.          *)
LEMMA RaiseFilesInv ==
  ASSUME WorkInv, FilesInv, NEW w \in Workers, Raise(w) \/ SystemExit(w),
         UNCHANGED <<files, settled>>
  PROVE  FilesInv'
<1>1. CASE \E how \in {"failed", "exit"} : StopAll(how)
  <2>1. \A v \in Workers : pc'[v] = "next" /\ mine'[v] = {}
    BY <1>1 DEF StopAll
  <2>2. pending' = {} /\ phase' = "idle" /\ UNCHANGED <<run, args>>
    BY <1>1 DEF StopAll
  <2>3. \A x \in settled : Gone(x)'
    BY <2>1, <2>2 DEF Gone
  <2> QED
    BY <2>1, <2>2, <2>3, QuietFilesInv DEF InHand
<1>2. CASE DropChunk(w)
  <2>1. UNCHANGED <<run, args, phase, pending>> /\ ~InHand(w)' /\ mine'[w] = {}
    BY <1>2 DEF DropChunk, InHand, WorkInv, TypeOK, TaskTypeOK
  <2>2. \A v \in Workers : v # w =>
          /\ pc'[v] = pc[v] /\ out'[v] = out[v] /\ sub'[v] = sub[v]
          /\ stage'[v] = stage[v] /\ mine'[v] = mine[v] /\ todo'[v] = todo[v]
    BY <1>2 DEF DropChunk, Forget, WorkInv, TypeOK, TaskTypeOK, MemoryTypeOK
  <2>3. \A x \in settled : Gone(x) => Gone(x)'
    BY <2>1, <2>2 DEF Gone
  <2> QED
    BY <2>1, <2>2, <2>3, QuietFilesInv DEF InHand
<1> QED
  BY <1>1, <1>2 DEF Raise, SystemExit

(* A stage is taken in hand only if it is not complete, or the run is not  *)
(* a resumed one; in either case this run has not settled it.              *)
LEMMA RunStageFilesInv ==
  ASSUME WorkInv, FilesInv, NEW w \in Workers, RunOptimizationForSubproblemStage(w)
  PROVE  FilesInv'
<1>1. UNCHANGED <<files, settled>>
  BY DEF RunOptimizationForSubproblemStage, disk
<1>2. CASE Raise(w)
  BY <1>1, <1>2, RaiseFilesInv
<1>3. CASE ~Raise(w)
  <2>1. PICK t \in Stages :
          /\ AtStage(w, t) /\ ~(args.inc /\ IsComplete(sub[w], t))
          /\ stage' = [stage EXCEPT ![w] = t]
          /\ \E to \in {"built", "status"} : pc' = [pc EXCEPT ![w] = to]
          /\ UNCHANGED <<main, mine, sub, todo>>
    BY <1>3 DEF RunOptimizationForSubproblemStage, CreateProblem, LoadHighsSolution
  <2>2. \A v \in Workers \ {w} : out'[v] = out[v]
    BY <1>3 DEF RunOptimizationForSubproblemStage, CreateProblem, LoadHighsSolution,
                WorkInv, TypeOK, MemoryTypeOK
  <2>3. UNCHANGED <<run, args, phase, pending>>
    BY <2>1 DEF main
  <2>4. /\ sub[w] \in mine[w] /\ sub[w] \in Subs /\ t \in todo[w]
        /\ stage'[w] = t /\ pc'[w] \in {"built", "status"}
    BY <2>1 DEF AtStage, IsFirst, WorkInv, WorkerHolds, TypeOK, TaskTypeOK
  <2>5. \A v \in Workers : v # w => pc'[v] = pc[v] /\ stage'[v] = stage[v]
    BY <2>1 DEF WorkInv, TypeOK, TaskTypeOK
  <2>6. <<sub[w], t>> \notin settled
    <3>1. ASSUME <<sub[w], t>> \in settled PROVE FALSE
      <4>1. ~Gone(<<sub[w], t>>)
        BY <2>4 DEF Gone
      <4>2. ~(args.inc /\ term[<<sub[w], t>>] # "none")
        BY <2>1 DEF IsComplete
      <4> QED
        BY <3>1, <4>1, <4>2 DEF FilesInv, SettledInv
    <3> QED
      BY <3>1
  <2>7. InHandInv'
    <3> SUFFICES ASSUME NEW v \in Workers, InHand(v)'
                 PROVE  Written(v)' /\ (At(v) \notin settled)'
      BY DEF InHandInv
    <3>1. UNCHANGED <<status, term, termRun, csv, obj, sub>>
      BY <1>1, <2>1 DEF files
    <3>2. CASE v = w
      <4>1. At(v)' = <<sub[w], t>>
        BY <2>4, <3>1, <3>2 DEF At
      <4>2. args'.inc => term'[At(v)'] = "none"
        BY <2>1, <2>3, <3>1, <4>1 DEF IsComplete
      <4> QED
        BY <1>1, <2>4, <2>6, <3>2, <4>1, <4>2 DEF Written
    <3>3. CASE v # w
      <4>1. InHand(v) /\ At(v)' = At(v) /\ pc'[v] = pc[v] /\ out'[v] = out[v]
        BY <2>2, <2>5, <3>1, <3>3 DEF InHand, At
      <4>2. Written(v) /\ At(v) \notin settled
        BY <4>1 DEF FilesInv, InHandInv
      <4> QED
        BY <1>1, <2>3, <3>1, <4>1, <4>2 DEF Written
    <3> QED
      BY <3>2, <3>3
  <2>8. TermRunInv' /\ SettledHasResults'
    BY <1>1, <2>3 DEF files, FilesInv, TermRunInv, SettledHasResults
  <2>9. SettledInv'
    BY <1>1, <2>1, <2>3 DEF files, FilesInv, SettledInv, Gone
  <2> QED
    BY <2>7, <2>8, <2>9 DEF FilesInv
<1> QED
  BY <1>2, <1>3

(* Every step of one worker, its faults included.                          *)
LEMMA WorkerStepFilesInv ==
  ASSUME WorkInv, FilesInv, NEW w \in Workers, WorkerStep(w) \/ Fault(w)
  PROVE  FilesInv'
<1>1. CASE TakeChunk(w) \/ RunOptimizationForSubproblem(w)
  BY <1>1, TakeChunkFilesInv, EnterSubproblemFilesInv
<1>2. CASE SkipCompleteStage(w) \/ RunOptimizationForSubproblemStage(w)
  BY <1>2, SkipCompleteStageFilesInv, RunStageFilesInv
<1>3. CASE WriteProblemFile(w)
  BY <1>3, RaiseFilesInv DEF WriteProblemFile
<1>4. CASE \/ SolveProblem(w) \/ SaveSolverStatus(w) \/ SaveTerminationCondition(w)
           \/ ExportResults(w) \/ ExportPassThroughInputs(w)
           \/ SaveObjectiveFunctionValue(w)
  BY <1>4, StageStepFilesInv
<1>5. CASE SkipResultsExport(w)
  <2>1. pc[w] = "noresults" /\ UNCHANGED files
    BY <1>5 DEF SkipResultsExport, disk
  <2>2. CASE Raise(w) /\ UNCHANGED settled
    BY <2>1, <2>2, RaiseFilesInv
  <2>3. CASE FinishStage(w) /\ UNCHANGED main
    BY <2>1, <2>3, FinishStageFilesInv DEF files
  <2> QED
    BY <1>5, <2>2, <2>3 DEF SkipResultsExport
<1>6. CASE SaveDuals(w)
  <2>1. At(w) \in Pairs
    BY <1>6, AtType DEF SaveDuals
  <2>2. duals'[At(w)] = run /\ \A x \in Pairs \ {At(w)} : duals'[x] = duals[x]
    BY <1>6, <2>1 DEF SaveDuals, WorkInv, TypeOK, FilesTypeOK
  <2> QED
    BY <1>6, <2>2, FinishStageFilesInv DEF SaveDuals
<1>7. CASE Fault(w)
  BY <1>7, RaiseFilesInv DEF Fault, disk
<1> QED
  BY <1>1, <1>2, <1>3, <1>4, <1>5, <1>6, <1>7 DEF WorkerStep

LEMMA NextFilesInv == WorkInv /\ FilesInv /\ [Next]_vars => FilesInv'
<1> SUFFICES ASSUME WorkInv, FilesInv, [Next]_vars PROVE FilesInv'
  OBVIOUS
<1>1. CASE DeletePriorInputs \/ UNCHANGED vars
  <2>1. UNCHANGED <<files, main, settled, worker>>
    BY <1>1 DEF DeletePriorInputs, vars, disk
  <2> QED
    BY <2>1, QuietFilesInv DEF main, worker, task, InHand, Gone
<1>2. CASE \E a \in RunArgs : Start(a)
  BY <1>2, StartFilesInv
<1>3. CASE MainStep
  BY <1>3, MainStepFilesInv
<1>4. CASE \E w \in Workers : WorkerStep(w) \/ Fault(w)
  BY <1>4, WorkerStepFilesInv
<1>5. CASE Kill
  <2>1. /\ UNCHANGED <<files, settled, run, args>> /\ pending' = {} /\ phase' = "idle"
        /\ \A v \in Workers : pc'[v] = "next" /\ mine'[v] = {}
    BY <1>5 DEF Kill, StopAll, disk
  <2>2. \A x \in settled : Gone(x)'
    BY <2>1 DEF Gone
  <2> QED
    BY <2>1, <2>2, QuietFilesInv DEF InHand
<1> QED
  BY <1>1, <1>2, <1>3, <1>4, <1>5 DEF Next

-------------------------------------------------------------------------------
(* Theorems.                                                               *)

(* FilesInv holds throughout, beside the distribution of the work.         *)
THEOREM FilesInvariant == Spec => [](WorkInv /\ FilesInv)
<1>1. Spec => []FilesInv
  BY InitFilesInv, NextFilesInv, WorkInvariant, PTL DEF Spec
<1> QED
  BY <1>1, WorkInvariant, PTL

(* A pair that a run of run_scenario.py solved, optimal or not, and left   *)
(* has all files of save_results, of that run, whichever workers were      *)
(* killed, raised or resumed before.                                       *)
THEOREM SettledWhole == Spec => []SettledHasResults
<1>1. FilesInv => SettledHasResults
  BY DEF FilesInv
<1> QED
  BY <1>1, FilesInvariant, PTL

(* A step writes at most the files of a pair that a worker has in hand.    *)
LEMMA WrittenInHand ==
  ASSUME WorkInv, [Next]_vars, NEW x \in Pairs,
         \/ status'[x] # status[x] \/ term'[x] # term[x]
         \/ termRun'[x] # termRun[x] \/ csv'[x] # csv[x]
         \/ obj'[x] # obj[x] \/ duals'[x] # duals[x]
  PROVE  \E w \in Workers : InHand(w) /\ At(w) = x /\ UNCHANGED <<run, args>>
<1>1. PICK w \in Workers : WorkerStep(w) \/ Fault(w)
  BY DEF Next, DeletePriorInputs, Start, SolveSequentially, FallBackToSequential,
         StartParallel, MainStep, CreateAllPassThroughInputs, FillPool,
         ReturnObjectiveValues, Kill, disk, files, vars
<1>2. \/ SaveSolverStatus(w) \/ SaveTerminationCondition(w) \/ ExportResults(w)
      \/ SaveObjectiveFunctionValue(w) \/ SaveDuals(w)
  BY <1>1 DEF WorkerStep, Fault, TakeChunk, RunOptimizationForSubproblem,
              SkipCompleteStage, RunOptimizationForSubproblemStage, WriteProblemFile,
              SolveProblem, SkipResultsExport, ExportPassThroughInputs, disk, files
<1>3. InHand(w) /\ UNCHANGED <<run, args>>
  BY <1>2 DEF SaveSolverStatus, SaveTerminationCondition, ExportResults,
              SaveObjectiveFunctionValue, SaveDuals, InHand, main
<1>4. At(w) \in Pairs
  BY <1>3, AtType DEF InHand
<1>5. At(w) = x
  BY <1>2, <1>4
     DEF SaveSolverStatus, SaveTerminationCondition, ExportResults,
         SaveObjectiveFunctionValue, SaveDuals, WorkInv, TypeOK, FilesTypeOK
<1> QED
  BY <1>3, <1>5

(* --incomplete_only leaves the files of every pair that had its           *)
(* termination condition when the run began as they were.                  *)
THEOREM CompleteKept == Spec => ResumeKeepsComplete
<1> DEFINE Kept == \A x \in Pairs :
             args'.inc /\ term[x] # "none" /\ termRun[x] # run' =>
               /\ status'[x] = status[x]
               /\ term'[x] = term[x] /\ termRun'[x] = termRun[x]
               /\ csv'[x] = csv[x] /\ obj'[x] = obj[x] /\ duals'[x] = duals[x]
<1>1. ASSUME WorkInv, FilesInv, [Next]_vars PROVE Kept
  <2> SUFFICES ASSUME NEW x \in Pairs, args'.inc, term[x] # "none", termRun[x] # run',
                      \/ status'[x] # status[x] \/ term'[x] # term[x]
                      \/ termRun'[x] # termRun[x]
                      \/ csv'[x] # csv[x] \/ obj'[x] # obj[x] \/ duals'[x] # duals[x]
               PROVE  FALSE
    OBVIOUS
  <2>1. PICK w \in Workers : InHand(w) /\ At(w) = x /\ UNCHANGED <<run, args>>
    BY <1>1, WrittenInHand
  <2>2. Written(w)
    BY <1>1, <2>1 DEF FilesInv, InHandInv
  <2> QED
    BY <2>1, <2>2 DEF Written
<1>2. WorkInv /\ FilesInv /\ [Next]_vars => [Kept]_vars
  BY <1>1
<1> QED
  BY <1>2, FilesInvariant, PTL DEF Spec, ResumeKeepsComplete

-------------------------------------------------------------------------------
(***************************************************************************)
(* ScenarioRun implements StageSchedule: whatever processes carry out a    *)
(* run, and whatever happened to earlier ones, it settles the stages of a  *)
(* subproblem in order, linked subproblems one after the other, and        *)
(* reports success only when nothing is left.  From the same invariant:    *)
(* what a stage is built from, the commitments of the stage before it and  *)
(* the end state of the subproblem before it.                              *)
(***************************************************************************)

Done(s) == \A u \in Stages : <<s, u>> \in settled

(* A process will come to x, and has not yet.                              *)
ToCome(x) ==
  \/ x[1] \in pending
  \/ \E w \in Workers :
       x[1] \in mine[w] /\ (sub[w] = x[1] => x[2] \in todo[w] /\ stage[w] # x[2])

(* A pair that a resumed run may skip is one that it found complete.       *)
FoundInv ==
  /\ phase # "idle" /\ args.inc =>
       \A x \in Pairs : term[x] # "none" /\ termRun[x] # run => x \in settled
  /\ \A x \in Pairs : ToCome(x) => termRun[x] # run

(* A worker is at the first of its subproblems, and of the stages it has   *)
(* left there; those it has not left are settled.                          *)
OrderInv ==
  \A w \in Workers :
    /\ pc[w] # "next" => \A u \in Stages \ todo[w] : <<sub[w], u>> \in settled
    /\ InHand(w) => \A u \in todo[w] : StagePos[stage[w]] <= StagePos[u]
    /\ sub[w] # None => \A r \in mine[w] : SubPos[sub[w]] <= SubPos[r]

(* What nobody has to do any more is done, unless something was dropped.   *)
NothingDropped ==
  phase \in {"sequential", "pool"} /\ ~failed /\ ~lost =>
    \A s \in Subs : s \notin pending /\ (\A w \in Workers : s \notin mine[w]) => Done(s)

(* Alone, the main process has all the work and drops none of it; linked   *)
(* subproblems are its business only.                                      *)
AloneInv ==
  /\ phase = "sequential" =>
       /\ ~failed /\ ~lost /\ pending = {}
       /\ \A w \in Workers : mine[w] # {} => active = {w}
  /\ Linked => phase \notin {"headers", "pool"}

ScheduleInv == FoundInv /\ OrderInv /\ NothingDropped /\ AloneInv

-------------------------------------------------------------------------------
LEMMA InitScheduleInv == Init => ScheduleInv
  BY DEF Init, ScheduleInv, FoundInv, ToCome, OrderInv, InHand, NothingDropped,
         AloneInv

(* A step that writes files of a pair in hand, or none.                    *)
LEMMA WriteScheduleInv ==
  ASSUME ScheduleInv, UNCHANGED <<main, settled, task>>,
         \A v \in Workers : pc'[v] = pc[v] \/ (InHand(v) /\ pc'[v] # "next"),
         \A v \in Workers : InHand(v)' => InHand(v),
         \A x \in Pairs : \/ term'[x] = term[x] /\ termRun'[x] = termRun[x]
                          \/ termRun'[x] = run /\ ~ToCome(x)
  PROVE  ScheduleInv'
<1>1. UNCHANGED <<phase, run, args, pending, active, failed, lost, mine, sub, todo,
                  stage>>
  BY DEF main, task
<1>2. \A x \in Pairs : ToCome(x)' <=> ToCome(x)
  BY <1>1 DEF ToCome
<1>3. FoundInv'
  BY <1>1, <1>2 DEF ScheduleInv, FoundInv
<1>4. OrderInv'
  BY <1>1 DEF ScheduleInv, OrderInv, InHand
<1>5. NothingDropped' /\ AloneInv'
  BY <1>1 DEF ScheduleInv, NothingDropped, Done, AloneInv
<1> QED
  BY <1>3, <1>4, <1>5 DEF ScheduleInv

(* An exception or an exit gives up the chunk, or the run.                 *)
LEMMA RaiseScheduleInv ==
  ASSUME WorkInv, ScheduleInv, NEW w \in Workers, Raise(w) \/ SystemExit(w),
         UNCHANGED <<files, settled>>
  PROVE  ScheduleInv'
<1>0. UNCHANGED <<term, termRun>>
  BY DEF files
<1>1. CASE \E how \in {"failed", "exit"} : StopAll(how)
  BY <1>1 DEF StopAll, ScheduleInv, FoundInv, ToCome, OrderInv, InHand,
              NothingDropped, AloneInv
<1>2. CASE DropChunk(w) /\ phase = "pool" /\ (failed' = TRUE \/ lost' = TRUE)
  <2>1. UNCHANGED <<phase, run, args, pending, active>>
    BY <1>2 DEF DropChunk
  <2>2. /\ pc'[w] = "next" /\ mine'[w] = {} /\ sub'[w] = None
        /\ \A v \in Workers : v # w =>
             /\ pc'[v] = pc[v] /\ mine'[v] = mine[v] /\ sub'[v] = sub[v]
             /\ todo'[v] = todo[v] /\ stage'[v] = stage[v]
    BY <1>2 DEF DropChunk, Forget, WorkInv, TypeOK, TaskTypeOK
  <2>3. \A x \in Pairs : ToCome(x)' => ToCome(x)
    BY <2>1, <2>2 DEF ToCome
  <2>4. FoundInv'
    BY <1>0, <2>1, <2>3 DEF ScheduleInv, FoundInv
  <2>5. OrderInv'
    BY <2>2 DEF ScheduleInv, OrderInv, InHand
  <2>6. NothingDropped' /\ AloneInv'
    BY <1>2, <2>1 DEF ScheduleInv, NothingDropped, AloneInv
  <2> QED
    BY <2>4, <2>5, <2>6 DEF ScheduleInv
<1> QED
  BY <1>1, <1>2 DEF Raise, SystemExit

(* A stage that a worker leaves is settled.                                *)
LEMMA LeaveStageScheduleInv ==
  ASSUME WorkInv, ScheduleInv, NEW w \in Workers, NEW t \in todo[w], LeaveStage(w, t),
         pc[w] # "next", UNCHANGED <<main, term, termRun>>,
         stage[w] \in {t, None}, settled \subseteq settled',
         <<sub[w], t>> \in settled'
  PROVE  ScheduleInv'
<1>1. UNCHANGED <<phase, run, args, pending, active, failed, lost>>
  BY DEF main
<1>2. /\ pc'[w] \in {"next", "stage"} /\ todo'[w] = todo[w] \ {t} /\ stage'[w] = None
      /\ \A v \in Workers : v # w =>
             /\ pc'[v] = pc[v] /\ mine'[v] = mine[v] /\ sub'[v] = sub[v]
             /\ todo'[v] = todo[v] /\ stage'[v] = stage[v]
  BY DEF LeaveStage, Forget, WorkInv, TypeOK, TaskTypeOK
<1>3. IF todo[w] = {t}
      THEN pc'[w] = "next" /\ mine'[w] = mine[w] \ {sub[w]} /\ sub'[w] = None
      ELSE pc'[w] = "stage" /\ mine'[w] = mine[w] /\ sub'[w] = sub[w]
  BY DEF LeaveStage, WorkInv, TypeOK, TaskTypeOK
<1>4. sub[w] \in mine[w] /\ sub[w] \in Subs /\ sub[w] # None
  BY DEF WorkInv, WorkerHolds, TypeOK, TaskTypeOK
<1>5. None \notin Stages /\ None \notin Subs
  BY ScenarioAssumption DEF ScenarioAssumption, None
<1>6. \A x \in Pairs : ToCome(x)' => ToCome(x)
  <2> SUFFICES ASSUME NEW x \in Pairs, ToCome(x)' PROVE ToCome(x)
    OBVIOUS
  <2>1. x[1] \in Subs /\ x[2] \in Stages
    BY DEF Pairs
  <2>2. CASE x[1] \in pending
    BY <2>2 DEF ToCome
  <2>3. CASE x[1] \notin pending
    <3>1. PICK v \in Workers :
            /\ x[1] \in mine'[v]
            /\ sub'[v] = x[1] => x[2] \in todo'[v] /\ stage'[v] # x[2]
      BY <1>1, <2>3 DEF ToCome
    <3>2. CASE v # w
      BY <1>2, <3>1, <3>2 DEF ToCome
    <3>3. CASE v = w /\ x[1] # sub[w]
      BY <1>3, <3>1, <3>3 DEF ToCome
    <3>4. CASE v = w /\ x[1] = sub[w]
      <4>1. todo[w] # {t} /\ sub'[w] = sub[w]
        BY <1>3, <3>1, <3>4
      <4>2. x[2] \in todo[w] /\ x[2] # t
        BY <1>2, <3>1, <3>4, <4>1
      <4>3. stage[w] # x[2]
        BY <1>5, <2>1, <4>2
      <4> QED
        BY <1>4, <3>4, <4>2, <4>3 DEF ToCome
    <3> QED
      BY <3>2, <3>3, <3>4
  <2> QED
    BY <2>2, <2>3
<1>7. FoundInv'
  BY <1>1, <1>6 DEF ScheduleInv, FoundInv
<1>8. OrderInv'
  <2> SUFFICES ASSUME NEW v \in Workers
               PROVE  /\ pc'[v] # "next" =>
                           \A u \in Stages \ todo'[v] : <<sub'[v], u>> \in settled'
                      /\ InHand(v)' =>
                           \A u \in todo'[v] : StagePos[stage'[v]] <= StagePos[u]
                      /\ sub'[v] # None =>
                           \A r \in mine'[v] : SubPos[sub'[v]] <= SubPos[r]
    BY DEF OrderInv
  <2>1. CASE v # w
    BY <1>2, <2>1 DEF ScheduleInv, OrderInv, InHand
  <2>2. CASE v = w
    <3>1. ~InHand(v)'
      BY <1>2, <2>2 DEF InHand
    <3>2. ASSUME pc'[v] # "next", NEW u \in Stages \ todo'[v]
          PROVE  <<sub'[v], u>> \in settled'
      BY <1>2, <1>3, <2>2, <3>2 DEF ScheduleInv, OrderInv
    <3>3. ASSUME sub'[v] # None, NEW r \in mine'[v]
          PROVE  SubPos[sub'[v]] <= SubPos[r]
      BY <1>3, <1>4, <2>2, <3>3 DEF ScheduleInv, OrderInv
    <3> QED
      BY <3>1, <3>2, <3>3
  <2> QED
    BY <2>1, <2>2
<1>9. NothingDropped'
  <2> SUFFICES ASSUME phase \in {"sequential", "pool"}, ~failed, ~lost,
                      NEW s \in Subs, s \notin pending,
                      \A v \in Workers : s \notin mine'[v], NEW u \in Stages
               PROVE  <<s, u>> \in settled'
    BY <1>1 DEF NothingDropped, Done
  <2>1. CASE s = sub[w]
    <3>1. todo[w] = {t}
      BY <1>3, <1>4, <2>1
    <3> QED
      BY <2>1, <3>1 DEF ScheduleInv, OrderInv
  <2>2. CASE s # sub[w]
    <3>1. \A v \in Workers : s \notin mine[v]
      BY <1>2, <1>3, <2>2
    <3> QED
      BY <3>1 DEF ScheduleInv, NothingDropped, Done
  <2> QED
    BY <2>1, <2>2
<1>10. AloneInv'
  BY <1>1, <1>2, <1>3 DEF ScheduleInv, AloneInv
<1> QED
  BY <1>7, <1>8, <1>9, <1>10 DEF ScheduleInv

-------------------------------------------------------------------------------
(* The main process.                                                       *)

LEMMA StartScheduleInv ==
  ASSUME WorkInv, FilesInv, ScheduleInv, NEW a \in RunArgs, Start(a)
  PROVE  ScheduleInv'
<1>1. /\ UNCHANGED <<term, termRun, pc, sub, todo, stage, pending>>
      /\ phase = "idle" /\ run' = run + 1 /\ args' = a /\ ~failed' /\ ~lost'
  BY DEF Start, SolveSequentially, FallBackToSequential, StartParallel, Begin, disk,
         files, worker, task
<1>2. \A v \in Workers : pc[v] = "next" /\ sub[v] = None /\ mine[v] = {}
  BY <1>1 DEF WorkInv, WorkerHolds, Distribution
<1>3. pending = {}
  BY <1>1 DEF WorkInv, Distribution
<1>4. \A x \in Pairs : termRun'[x] # run'
  BY <1>1, ScenarioAssumption
     DEF FilesInv, TermRunInv, WorkInv, TypeOK, FilesTypeOK, MainTypeOK, Runs,
         ScenarioAssumption
<1>5. phase' = "idle" \/ settled' = FoundComplete(a)
  BY <1>1 DEF Start, SolveSequentially, FallBackToSequential, StartParallel
<1>6. FoundInv'
  <2>1. ASSUME NEW x \in Pairs, a.inc, term[x] # "none" PROVE x \in FoundComplete(a)
    <3>1. x = <<x[1], x[2]>>
      BY DEF Pairs
    <3> QED
      BY <2>1, <3>1 DEF FoundComplete, IsComplete
  <2> QED
    BY <1>1, <1>4, <1>5, <2>1 DEF FoundInv
<1>7. OrderInv'
  BY <1>1, <1>2 DEF OrderInv, InHand
<1>8. CASE SolveSequentially(a)
  <2>1. PICK w \in Workers : active' = {w} /\ mine' = [mine EXCEPT ![w] = Subs]
    BY <1>8 DEF SolveSequentially
  <2>2. phase' = "sequential" /\ mine'[w] = Subs /\ \A v \in Workers : v # w => mine'[v] = {}
    BY <1>2, <1>8, <2>1 DEF SolveSequentially, WorkInv, TypeOK, TaskTypeOK
  <2> QED
    BY <1>1, <1>3, <1>6, <1>7, <2>1, <2>2 DEF ScheduleInv, NothingDropped, AloneInv
<1>9. CASE FallBackToSequential(a)
  <2>1. phase' = "idle"
    BY <1>1, <1>9 DEF FallBackToSequential
  <2> QED
    BY <1>6, <1>7, <2>1 DEF ScheduleInv, NothingDropped, AloneInv
<1>10. CASE StartParallel(a)
  <2>1. phase' = "headers" /\ ~Linked
    BY <1>10 DEF StartParallel
  <2> QED
    BY <1>6, <1>7, <2>1 DEF ScheduleInv, NothingDropped, AloneInv
<1> QED
  BY <1>8, <1>9, <1>10 DEF Start

(* The subproblems that FillPool leaves out have been found complete.      *)
LEMMA LeftOutIsDone ==
  ASSUME WorkInv, FilesInv, ScheduleInv, phase = "headers", NEW s \in Subs,
         ~(args.inc => \E t \in Stages : ~IsComplete(s, t))
  PROVE  Done(s)
<1> SUFFICES ASSUME NEW u \in Stages PROVE <<s, u>> \in settled
  BY DEF Done
<1>1. <<s, u>> \in Pairs /\ term[<<s, u>>] # "none"
  BY DEF Pairs, IsComplete
<1>2. termRun[<<s, u>>] # run
  BY <1>1 DEF FilesInv, TermRunInv
<1> QED
  BY <1>1, <1>2 DEF ScheduleInv, FoundInv

LEMMA FillPoolScheduleInv ==
  ASSUME WorkInv, FilesInv, ScheduleInv, FillPool
  PROVE  ScheduleInv'
<1> DEFINE tasks == {s \in Subs : args.inc => \E t \in Stages : ~IsComplete(s, t)}
<1>1. /\ phase = "headers" /\ phase' \in {"idle", "pool"}
      /\ phase' = "pool" => pending' = tasks
      /\ UNCHANGED <<term, termRun, run, args, settled, pc, mine, sub, todo, stage>>
  BY DEF FillPool, disk, files, worker, task
<1>2. \A v \in Workers : pc[v] = "next" /\ sub[v] = None /\ mine[v] = {}
  BY <1>1 DEF WorkInv, WorkerHolds, Distribution
<1>3. \A x \in Pairs : termRun[x] # run
  BY <1>1 DEF FilesInv, TermRunInv
<1>4. FoundInv'
  BY <1>1, <1>3 DEF ScheduleInv, FoundInv
<1>5. OrderInv'
  BY <1>1, <1>2 DEF OrderInv, InHand
<1>6. NothingDropped'
  <2>1. \A s \in Subs \ tasks : Done(s)
    BY <1>1, LeftOutIsDone
  <2> QED
    BY <1>1, <2>1 DEF NothingDropped, Done
<1>7. AloneInv'
  BY <1>1 DEF ScheduleInv, AloneInv
<1> QED
  BY <1>4, <1>5, <1>6, <1>7 DEF ScheduleInv

LEMMA MainStepScheduleInv ==
  ASSUME WorkInv, FilesInv, ScheduleInv, MainStep
  PROVE  ScheduleInv'
<1>1. CASE \E s \in Subs : CreateAllPassThroughInputs(s)
  <2>1. UNCHANGED <<term, termRun, phase, run, args, pending, active, failed, lost,
                    settled, pc, mine, sub, todo, stage>>
    BY <1>1 DEF CreateAllPassThroughInputs, files, worker, task
  <2> QED
    BY <2>1 DEF ScheduleInv, FoundInv, ToCome, OrderInv, InHand, NothingDropped, Done,
                AloneInv
<1>2. CASE FillPool
  BY <1>2, FillPoolScheduleInv
<1>3. CASE ReturnObjectiveValues
  <2>1. /\ phase' = "idle"
        /\ UNCHANGED <<term, termRun, run, args, pending, settled, pc, mine, sub,
                       todo, stage>>
    BY <1>3 DEF ReturnObjectiveValues, disk, files, worker, task
  <2> QED
    BY <2>1 DEF ScheduleInv, FoundInv, ToCome, OrderInv, InHand, NothingDropped,
                AloneInv
<1> QED
  BY <1>1, <1>2, <1>3 DEF MainStep

-------------------------------------------------------------------------------
(* The steps of a worker.                                                  *)

LEMMA TakeChunkScheduleInv ==
  ASSUME WorkInv, ScheduleInv, NEW w \in Workers, TakeChunk(w)
  PROVE  ScheduleInv'
<1>1. PICK c \in SUBSET pending :
        mine' = [mine EXCEPT ![w] = c] /\ pending' = pending \ c
  BY DEF TakeChunk
<1>2. /\ UNCHANGED <<term, termRun, phase, run, args, active, failed, lost, settled,
                     pc, sub, todo, stage>>
      /\ phase = "pool" /\ pc[w] = "next" /\ mine[w] = {}
  BY DEF TakeChunk, disk, files
<1>3. sub[w] = None
  BY <1>2 DEF WorkInv, WorkerHolds
<1>4. mine'[w] = c /\ \A v \in Workers : v # w => mine'[v] = mine[v]
  BY <1>1 DEF WorkInv, TypeOK, TaskTypeOK
<1>5. \A x \in Pairs : ToCome(x)' => ToCome(x)
  BY <1>1, <1>2, <1>4 DEF ToCome
<1>6. FoundInv'
  BY <1>2, <1>5 DEF ScheduleInv, FoundInv
<1>7. OrderInv'
  BY <1>2, <1>3, <1>4 DEF ScheduleInv, OrderInv, InHand
<1>8. NothingDropped'
  <2>1. ASSUME NEW s \in Subs, s \notin pending', \A v \in Workers : s \notin mine'[v]
        PROVE  s \notin pending /\ \A v \in Workers : s \notin mine[v]
    BY <1>1, <1>2, <1>4, <2>1
  <2> QED
    BY <1>2, <2>1 DEF ScheduleInv, NothingDropped, Done
<1>9. AloneInv'
  BY <1>2 DEF ScheduleInv, AloneInv
<1> QED
  BY <1>6, <1>7, <1>8, <1>9 DEF ScheduleInv

LEMMA EnterSubproblemScheduleInv ==
  ASSUME WorkInv, ScheduleInv, NEW w \in Workers, RunOptimizationForSubproblem(w)
  PROVE  ScheduleInv'
<1>1. PICK s \in mine[w] : IsFirst(s, mine[w], SubPos) /\ sub' = [sub EXCEPT ![w] = s]
  BY DEF RunOptimizationForSubproblem
<1>2. /\ UNCHANGED <<term, termRun, phase, run, args, pending, active, failed, lost,
                     settled, mine, stage>>
      /\ pc[w] = "next" /\ pc' = [pc EXCEPT ![w] = "stage"]
      /\ todo' = [todo EXCEPT ![w] = Stages]
  BY DEF RunOptimizationForSubproblem, main, files
<1>3. sub[w] = None
  BY <1>2 DEF WorkInv, WorkerHolds
<1>4. /\ pc'[w] = "stage" /\ sub'[w] = s /\ todo'[w] = Stages
      /\ \A v \in Workers : v # w =>
           sub'[v] = sub[v] /\ todo'[v] = todo[v] /\ pc'[v] = pc[v]
  BY <1>1, <1>2 DEF WorkInv, TypeOK, TaskTypeOK
<1>5. None \notin Subs
  BY ScenarioAssumption DEF ScenarioAssumption, None
<1>6. \A x \in Pairs : ToCome(x)' => ToCome(x)
  <2> SUFFICES ASSUME NEW x \in Pairs, ToCome(x)' PROVE ToCome(x)
    OBVIOUS
  <2>1. x[1] # None
    BY <1>5 DEF Pairs
  <2> QED
    BY <1>2, <1>3, <1>4, <2>1 DEF ToCome
<1>7. FoundInv'
  BY <1>2, <1>6 DEF ScheduleInv, FoundInv
<1>8. OrderInv'
  BY <1>1, <1>2, <1>4 DEF ScheduleInv, OrderInv, InHand, IsFirst
<1>9. NothingDropped' /\ AloneInv'
  BY <1>2 DEF ScheduleInv, NothingDropped, Done, AloneInv
<1> QED
  BY <1>7, <1>8, <1>9 DEF ScheduleInv

(* What a resumed run skips it has found complete.                         *)
LEMMA SkippedIsSettled ==
  ASSUME WorkInv, ScheduleInv, NEW w \in Workers, NEW t \in Stages, AtStage(w, t),
         args.inc, IsComplete(sub[w], t)
  PROVE  <<sub[w], t>> \in settled
<1>1. /\ sub[w] \in mine[w] /\ sub[w] \in Subs /\ t \in todo[w] /\ stage[w] = None
      /\ phase # "idle"
  BY DEF AtStage, IsFirst, WorkInv, WorkerHolds, Distribution, TypeOK, TaskTypeOK
<1>2. stage[w] # t
  BY <1>1, ScenarioAssumption DEF ScenarioAssumption, None
<1>3. ToCome(<<sub[w], t>>)
  BY <1>1, <1>2 DEF ToCome
<1> QED
  BY <1>1, <1>3 DEF ScheduleInv, FoundInv, Pairs, IsComplete

LEMMA SkipCompleteStageScheduleInv ==
  ASSUME WorkInv, ScheduleInv, NEW w \in Workers, SkipCompleteStage(w)
  PROVE  ScheduleInv'
<1>1. PICK t \in Stages : /\ AtStage(w, t) /\ args.inc /\ IsComplete(sub[w], t)
                          /\ LeaveStage(w, t)
  BY DEF SkipCompleteStage
<1>2. <<sub[w], t>> \in settled
  BY <1>1, SkippedIsSettled
<1>3. UNCHANGED <<main, term, termRun, settled>>
  BY DEF SkipCompleteStage, disk, files
<1>4. t \in todo[w] /\ pc[w] # "next" /\ stage[w] = None
  BY <1>1 DEF AtStage, IsFirst, WorkInv, WorkerHolds
<1> QED
  BY <1>1, <1>2, <1>3, <1>4, LeaveStageScheduleInv

LEMMA FinishStageScheduleInv ==
  ASSUME WorkInv, ScheduleInv, NEW w \in Workers, InHand(w), FinishStage(w),
         UNCHANGED <<main, term, termRun>>
  PROVE  ScheduleInv'
<1>1. stage[w] \in todo[w] /\ pc[w] # "next"
  BY DEF InHand, WorkInv, WorkerHolds
<1> QED
  BY <1>1, LeaveStageScheduleInv DEF FinishStage, At

LEMMA RunStageScheduleInv ==
  ASSUME WorkInv, ScheduleInv, NEW w \in Workers, RunOptimizationForSubproblemStage(w)
  PROVE  ScheduleInv'
<1>1. UNCHANGED <<files, settled>>
  BY DEF RunOptimizationForSubproblemStage, disk
<1>2. CASE Raise(w)
  BY <1>1, <1>2, RaiseScheduleInv
<1>3. CASE ~Raise(w)
  <2>1. PICK t \in Stages :
          /\ AtStage(w, t)
          /\ stage' = [stage EXCEPT ![w] = t]
          /\ \E to \in {"built", "status"} : pc' = [pc EXCEPT ![w] = to]
          /\ UNCHANGED <<main, mine, sub, todo>>
    BY <1>3 DEF RunOptimizationForSubproblemStage, CreateProblem, LoadHighsSolution
  <2>2. UNCHANGED <<term, termRun, phase, run, args, pending, active, failed, lost>>
    BY <1>1, <2>1 DEF main, files
  <2>3. /\ stage[w] = None /\ stage'[w] = t /\ pc[w] # "next"
        /\ \A v \in Workers : v # w => stage'[v] = stage[v] /\ pc'[v] = pc[v]
    BY <2>1 DEF AtStage, WorkInv, WorkerHolds, TypeOK, TaskTypeOK
  <2>4. \A x \in Pairs : ToCome(x)' => ToCome(x)
    <3>1. None \notin Stages
      BY ScenarioAssumption DEF ScenarioAssumption, None
    <3> QED
      BY <2>1, <2>2, <2>3, <3>1 DEF ToCome, Pairs
  <2>5. FoundInv'
    BY <1>1, <2>2, <2>4 DEF ScheduleInv, FoundInv
  <2>6. OrderInv'
    BY <1>1, <2>1, <2>3 DEF ScheduleInv, OrderInv, InHand, AtStage, IsFirst
  <2>7. NothingDropped' /\ AloneInv'
    BY <1>1, <2>1, <2>2 DEF ScheduleInv, NothingDropped, Done, AloneInv
  <2> QED
    BY <2>5, <2>6, <2>7 DEF ScheduleInv
<1> QED
  BY <1>2, <1>3

(* The pair in hand is nobody's to come to.                                *)
LEMMA InHandNotToCome ==
  ASSUME WorkInv, NEW w \in Workers, InHand(w)
  PROVE  ~ToCome(At(w))
<1>1. sub[w] \in mine[w] /\ sub[w] \notin pending
  BY DEF InHand, WorkInv, WorkerHolds, Distribution
<1>2. \A v \in Workers : v # w => sub[w] \notin mine[v]
  BY <1>1 DEF WorkInv, Distribution
<1> QED
  BY <1>1, <1>2 DEF ToCome, At

LEMMA StageStepScheduleInv ==
  ASSUME WorkInv, ScheduleInv, NEW w \in Workers,
         \/ SolveProblem(w) \/ SaveSolverStatus(w) \/ SaveTerminationCondition(w)
         \/ ExportResults(w) \/ ExportPassThroughInputs(w)
         \/ SaveObjectiveFunctionValue(w)
  PROVE  ScheduleInv'
<1>1. InHand(w)
  BY DEF InHand, SolveProblem, SaveSolverStatus, SaveTerminationCondition,
         ExportResults, ExportPassThroughInputs, SaveObjectiveFunctionValue
<1>2. UNCHANGED <<main, settled, task>>
  BY DEF SolveProblem, SaveSolverStatus, SaveTerminationCondition, ExportResults,
         ExportPassThroughInputs, SaveObjectiveFunctionValue
<1>3. \A v \in Workers : IF v = w THEN pc'[v] \notin {"next", "stage"} ELSE pc'[v] = pc[v]
  BY DEF SolveProblem, SaveSolverStatus, SaveTerminationCondition, ExportResults,
         ExportPassThroughInputs, SaveObjectiveFunctionValue, WorkInv, TypeOK,
         TaskTypeOK
<1>4. \A x \in Pairs : \/ term'[x] = term[x] /\ termRun'[x] = termRun[x]
                       \/ termRun'[x] = run /\ ~ToCome(x)
  <2>1. CASE SaveTerminationCondition(w)
    BY <1>1, <2>1, InHandNotToCome
       DEF SaveTerminationCondition, WorkInv, TypeOK, FilesTypeOK
  <2>2. CASE ~SaveTerminationCondition(w)
    BY <2>2 DEF SolveProblem, SaveSolverStatus, ExportResults,
                ExportPassThroughInputs, SaveObjectiveFunctionValue, disk, files
  <2> QED
    BY <2>1, <2>2
<1> QED
  BY <1>1, <1>2, <1>3, <1>4, WriteScheduleInv DEF InHand

LEMMA WorkerStepScheduleInv ==
  ASSUME WorkInv, ScheduleInv, NEW w \in Workers, WorkerStep(w) \/ Fault(w)
  PROVE  ScheduleInv'
<1>1. CASE TakeChunk(w) \/ RunOptimizationForSubproblem(w)
  BY <1>1, TakeChunkScheduleInv, EnterSubproblemScheduleInv
<1>2. CASE SkipCompleteStage(w) \/ RunOptimizationForSubproblemStage(w)
  BY <1>2, SkipCompleteStageScheduleInv, RunStageScheduleInv
<1>3. CASE WriteProblemFile(w)
  BY <1>3, RaiseScheduleInv DEF WriteProblemFile
<1>4. CASE \/ SolveProblem(w) \/ SaveSolverStatus(w) \/ SaveTerminationCondition(w)
           \/ ExportResults(w) \/ ExportPassThroughInputs(w)
           \/ SaveObjectiveFunctionValue(w)
  BY <1>4, StageStepScheduleInv
<1>5. CASE SkipResultsExport(w)
  <2>1. InHand(w) /\ UNCHANGED files
    BY <1>5 DEF SkipResultsExport, disk, InHand
  <2>2. CASE Raise(w) /\ UNCHANGED settled
    BY <2>1, <2>2, RaiseScheduleInv
  <2>3. CASE FinishStage(w) /\ UNCHANGED main
    BY <2>1, <2>3, FinishStageScheduleInv DEF files
  <2> QED
    BY <1>5, <2>2, <2>3 DEF SkipResultsExport
<1>6. CASE SaveDuals(w)
  BY <1>6, FinishStageScheduleInv DEF SaveDuals, InHand
<1>7. CASE Fault(w)
  BY <1>7, RaiseScheduleInv DEF Fault, disk
<1> QED
  BY <1>1, <1>2, <1>3, <1>4, <1>5, <1>6, <1>7 DEF WorkerStep

LEMMA NextScheduleInv == WorkInv /\ FilesInv /\ ScheduleInv /\ [Next]_vars => ScheduleInv'
<1> SUFFICES ASSUME WorkInv, FilesInv, ScheduleInv, [Next]_vars PROVE ScheduleInv'
  OBVIOUS
<1>1. CASE DeletePriorInputs \/ UNCHANGED vars
  BY <1>1, WriteScheduleInv DEF DeletePriorInputs, vars, disk, files, worker, task,
                                InHand
<1>2. CASE \E a \in RunArgs : Start(a)
  BY <1>2, StartScheduleInv
<1>3. CASE MainStep
  BY <1>3, MainStepScheduleInv
<1>4. CASE \E w \in Workers : WorkerStep(w) \/ Fault(w)
  BY <1>4, WorkerStepScheduleInv
<1>5. CASE Kill
  BY <1>5 DEF Kill, StopAll, disk, files, ScheduleInv, FoundInv, ToCome, OrderInv,
              InHand, NothingDropped, AloneInv
<1> QED
  BY <1>1, <1>2, <1>3, <1>4, <1>5 DEF Next

LEMMA ScheduleInvariant == Spec => []ScheduleInv
  BY InitScheduleInv, NextScheduleInv, FilesInvariant, PTL DEF Spec

-------------------------------------------------------------------------------
(* Every step is a step of StageSchedule, in the order of the directory    *)
(* listing, or changes nothing it speaks of.                               *)

(* A worker finishes the stage whose turn it is.                           *)
LEMMA FinishStageSettles ==
  ASSUME WorkInv, FilesInv, ScheduleInv, NEW w \in Workers, InHand(w),
         FinishStage(w), UNCHANGED main
  PROVE  Listed!Settle(sub[w], stage[w])
<1>1. /\ sub[w] \in Subs /\ stage[w] \in Stages /\ stage[w] \in todo[w]
      /\ sub[w] \in mine[w] /\ sub[w] # None /\ pc[w] # "next"
  BY AtType DEF InHand, WorkInv, WorkerHolds
<1>2. phase \in {"sequential", "pool"} /\ UNCHANGED <<phase, result>>
  BY <1>1 DEF WorkInv, Distribution, TypeOK, MainTypeOK, main
<1>3. <<sub[w], stage[w]>> \notin settled
  BY DEF FilesInv, InHandInv, At
<1>4. ASSUME NEW u \in Stages, StagePos[u] < StagePos[stage[w]]
      PROVE  <<sub[w], u>> \in settled
  <2>1. StagePos[u] \in Nat /\ StagePos[stage[w]] \in Nat
    BY <1>1, ScenarioAssumption DEF ScenarioAssumption
  <2>2. u \notin todo[w]
    BY <1>4, <2>1 DEF ScheduleInv, OrderInv
  <2> QED
    BY <1>1, <2>2 DEF ScheduleInv, OrderInv
<1>5. ASSUME Linked, NEW r \in Subs, NEW u \in Stages, SubPos[r] < SubPos[sub[w]]
      PROVE  <<r, u>> \in settled
  <2>1. phase = "sequential" /\ ~failed /\ ~lost /\ pending = {} /\ active = {w}
    BY <1>1, <1>2, <1>5 DEF ScheduleInv, AloneInv
  <2>2. SubPos[r] \in Nat /\ SubPos[sub[w]] \in Nat
    BY <1>1, ScenarioAssumption DEF ScenarioAssumption
  <2>3. r \notin mine[w]
    BY <1>1, <1>5, <2>2 DEF ScheduleInv, OrderInv
  <2>4. \A v \in Workers : v # w => mine[v] = {}
    BY <2>1 DEF ScheduleInv, AloneInv
  <2> QED
    BY <2>1, <2>3, <2>4 DEF ScheduleInv, NothingDropped, Done
<1> QED
  BY <1>2, <1>3, <1>4, <1>5 DEF Listed!Settle, FinishStage, At

(* A run reports success when every pair is settled.                       *)
LEMMA SuccessIsWhole ==
  ASSUME WorkInv, FilesInv, ScheduleInv,
         ReturnObjectiveValues \/ (FillPool /\ phase' = "idle"), result' = "ok"
  PROVE  settled = Pairs
<1>1. settled \subseteq Pairs
  BY DEF WorkInv, TypeOK, MainTypeOK
<1>2. ASSUME NEW s \in Subs PROVE Done(s)
  <2>1. CASE ReturnObjectiveValues
    <3>1. /\ phase \in {"sequential", "pool"} /\ pending = {} /\ ~lost /\ ~failed
          /\ \A w \in Workers : mine[w] = {}
      BY <2>1 DEF ReturnObjectiveValues
    <3> QED
      BY <3>1 DEF ScheduleInv, NothingDropped
  <2>2. CASE FillPool /\ phase' = "idle"
    <3>1. phase = "headers" /\ ~(args.inc => \E t \in Stages : ~IsComplete(s, t))
      BY <2>2 DEF FillPool
    <3> QED
      BY <3>1, LeftOutIsDone
  <2> QED
    BY <2>1, <2>2
<1> QED
  BY <1>1, <1>2 DEF Done, Pairs

LEMMA StopAllCloses ==
  ASSUME WorkInv, phase # "idle", NEW how \in {"failed", "exit", "killed"},
         StopAll(how), UNCHANGED settled
  PROVE  Listed!Close(how)
  BY DEF StopAll, Listed!Close

LEMMA RaiseMaps ==
  ASSUME WorkInv, NEW w \in Workers, Raise(w) \/ SystemExit(w), UNCHANGED settled
  PROVE  [Listed!Next]_(Listed!scheduleVars)
<1>1. CASE phase = "sequential"
  <2>1. PICK how \in {"failed", "exit"} : StopAll(how)
    BY <1>1 DEF Raise, SystemExit
  <2> QED
    BY <1>1, <2>1, StopAllCloses DEF Listed!Next
<1>2. CASE phase = "pool"
  BY <1>2 DEF Raise, SystemExit, DropChunk, Listed!scheduleVars
<1> QED
  BY <1>1, <1>2 DEF Raise, SystemExit

LEMMA WorkerStepMaps ==
  ASSUME WorkInv, FilesInv, ScheduleInv, NEW w \in Workers, WorkerStep(w) \/ Fault(w)
  PROVE  [Listed!Next]_(Listed!scheduleVars)
<1>1. CASE /\ SkipResultsExport(w) \/ SaveDuals(w)
           /\ FinishStage(w) /\ UNCHANGED main
  <2>1. InHand(w)
    BY <1>1 DEF InHand, SkipResultsExport, SaveDuals
  <2>2. Listed!Settle(sub[w], stage[w]) /\ sub[w] \in Subs /\ stage[w] \in Stages
    BY <1>1, <2>1, FinishStageSettles, AtType DEF InHand
  <2> QED
    BY <2>2 DEF Listed!Next
<1>2. CASE \/ Raise(w) /\ UNCHANGED settled
           \/ SystemExit(w) /\ UNCHANGED settled
  BY <1>2, RaiseMaps
<1>3. CASE UNCHANGED <<phase, settled, result>>
  BY <1>3 DEF Listed!scheduleVars
<1>4. CASE RunOptimizationForSubproblemStage(w)
  <2>1. Raise(w) \/ UNCHANGED main
    BY <1>4 DEF RunOptimizationForSubproblemStage, CreateProblem, LoadHighsSolution
  <2> QED
    BY <1>2, <1>3, <1>4, <2>1 DEF RunOptimizationForSubproblemStage, main
<1>5. CASE SkipResultsExport(w) \/ SaveDuals(w)
  BY <1>1, <1>2, <1>5 DEF SkipResultsExport, SaveDuals
<1>6. CASE WriteProblemFile(w) \/ Fault(w)
  BY <1>2, <1>6 DEF WriteProblemFile, Fault
<1>7. CASE \/ TakeChunk(w) \/ RunOptimizationForSubproblem(w) \/ SkipCompleteStage(w)
           \/ SolveProblem(w) \/ SaveSolverStatus(w) \/ SaveTerminationCondition(w)
           \/ ExportResults(w) \/ ExportPassThroughInputs(w)
           \/ SaveObjectiveFunctionValue(w)
  BY <1>3, <1>7
     DEF TakeChunk, RunOptimizationForSubproblem, SkipCompleteStage, SolveProblem,
         SaveSolverStatus, SaveTerminationCondition, ExportResults,
         ExportPassThroughInputs, SaveObjectiveFunctionValue, main
<1> QED
  BY <1>4, <1>5, <1>6, <1>7 DEF WorkerStep

LEMMA StartMaps ==
  ASSUME WorkInv, NEW a \in RunArgs, Start(a)
  PROVE  Listed!Next
<1>1. phase = "idle"
  BY DEF Start, SolveSequentially, FallBackToSequential, StartParallel, Begin
<1>2. CASE FallBackToSequential(a)
  BY <1>1, <1>2 DEF FallBackToSequential, Listed!Next, Listed!Refuse
<1>3. CASE SolveSequentially(a) \/ StartParallel(a)
  <2>1. FoundComplete(a) \in SUBSET Listed!Pairs
    BY DEF FoundComplete, Pairs, Listed!Pairs
  <2>2. Listed!Open(FoundComplete(a))
    BY <1>1, <1>3 DEF SolveSequentially, StartParallel, Listed!Open
  <2> QED
    BY <2>1, <2>2 DEF Listed!Next
<1> QED
  BY <1>2, <1>3 DEF Start

LEMMA MainStepMaps ==
  ASSUME WorkInv, FilesInv, ScheduleInv, MainStep
  PROVE  [Listed!Next]_(Listed!scheduleVars)
<1>1. CASE \E s \in Subs : CreateAllPassThroughInputs(s)
  BY <1>1 DEF CreateAllPassThroughInputs, Listed!scheduleVars
<1>2. CASE FillPool /\ phase' # "idle"
  <2>1. phase = "headers" /\ phase' = "pool" /\ UNCHANGED <<settled, result>>
    BY <1>2 DEF FillPool
  <2> QED
    BY <2>1 DEF Listed!scheduleVars
<1>3. CASE ReturnObjectiveValues \/ (FillPool /\ phase' = "idle")
  <2>1. /\ phase # "idle" /\ phase' = "idle" /\ UNCHANGED settled
        /\ result' \in {"ok", "failed"}
    BY <1>3 DEF ReturnObjectiveValues, FillPool
  <2>2. result' = "ok" => settled = Listed!Pairs
    BY <1>3, SuccessIsWhole DEF Pairs, Listed!Pairs
  <2>3. Listed!Close(result')
    BY <2>1, <2>2 DEF Listed!Close
  <2> QED
    BY <2>1, <2>3 DEF Listed!Next
<1> QED
  BY <1>1, <1>2, <1>3 DEF MainStep

(* A run of run_scenario.py, alone or in a pool, from scratch or resumed,  *)
(* is a run of StageSchedule in the order of the directory listing: stages *)
(* in order, linked subproblems one after the other, success only when     *)
(* nothing is left.                                                        *)
THEOREM RunFollowsListing == Spec => Listed!Spec
<1>1. Init => Listed!Init
  BY DEF Init, Listed!Init
<1>2. WorkInv /\ FilesInv /\ ScheduleInv /\ [Next]_vars
        => [Listed!Next]_(Listed!scheduleVars)
  <2> SUFFICES ASSUME WorkInv, FilesInv, ScheduleInv, [Next]_vars
               PROVE  [Listed!Next]_(Listed!scheduleVars)
    OBVIOUS
  <2>1. CASE DeletePriorInputs \/ UNCHANGED vars
    BY <2>1 DEF DeletePriorInputs, vars, main, Listed!scheduleVars
  <2>2. CASE \E a \in RunArgs : Start(a)
    BY <2>2, StartMaps
  <2>3. CASE MainStep
    BY <2>3, MainStepMaps
  <2>4. CASE \E w \in Workers : WorkerStep(w) \/ Fault(w)
    BY <2>4, WorkerStepMaps
  <2>5. CASE Kill
    BY <2>5, StopAllCloses DEF Kill, Listed!Next
  <2> QED
    BY <2>1, <2>2, <2>3, <2>4, <2>5 DEF Next
<1> QED
  BY <1>1, <1>2, ScheduleInvariant, FilesInvariant, PTL
     DEF Spec, Listed!Spec

(* A listing in the order of the numbers: what comes before by number has  *)
(* come before in the listing.                                             *)
LEMMA SettleByNumber ==
  ASSUME ListedInOrder, NEW s \in Subs, NEW t \in Stages, Listed!Settle(s, t)
  PROVE  Schedule!Settle(s, t)
<1>1. ASSUME NEW u \in Stages, u < t PROVE <<s, u>> \in settled
  <2>1. StagePos[u] < StagePos[t]
    BY <1>1 DEF ListedInOrder
  <2> QED
    BY <2>1 DEF Listed!Settle
<1>2. ASSUME Linked, NEW r \in Subs, NEW u \in Stages, r < s
      PROVE  <<r, u>> \in settled
  <2>1. SubPos[r] < SubPos[s]
    BY <1>2 DEF ListedInOrder
  <2> QED
    BY <1>2, <2>1 DEF Listed!Settle
<1>3. \A u \in Stages : [v \in Stages |-> v][u] = u
  OBVIOUS
<1>4. \A r \in Subs : [q \in Subs |-> q][r] = r
  OBVIOUS
<1> QED
  BY <1>1, <1>2, <1>3, <1>4 DEF Listed!Settle, Schedule!Settle

LEMMA NextByNumber ==
  ASSUME ListedInOrder, [Listed!Next]_(Listed!scheduleVars)
  PROVE  [Schedule!Next]_(Schedule!scheduleVars)
<1>1. CASE \E found \in SUBSET Listed!Pairs : Listed!Open(found)
  BY <1>1 DEF Listed!Open, Schedule!Open, Listed!Pairs, Schedule!Pairs, Schedule!Next
<1>2. CASE \E s \in Subs, t \in Stages : Listed!Settle(s, t)
  BY <1>2, SettleByNumber DEF Schedule!Next
<1>3. CASE \E r \in {"ok", "failed", "exit", "killed"} : Listed!Close(r)
  BY <1>3 DEF Listed!Close, Schedule!Close, Listed!Pairs, Schedule!Pairs, Schedule!Next
<1>4. CASE Listed!Refuse
  BY <1>4 DEF Listed!Refuse, Schedule!Refuse, Schedule!Next
<1>5. CASE UNCHANGED Listed!scheduleVars
  BY <1>5 DEF Listed!scheduleVars, Schedule!scheduleVars
<1> QED
  BY <1>1, <1>2, <1>3, <1>4, <1>5 DEF Listed!Next

(* If the listing has the stages and the linked subproblems in the order   *)
(* of their numbers, as numbers of one digit have it, a run settles them   *)
(* in that order, and succeeds only when nothing is left.                  *)
THEOREM RunImplementsSchedule ==
  ASSUME ListedInOrder
  PROVE  Spec => ImplementsSchedule
<1>1. Listed!Init => Schedule!Init
  BY DEF Listed!Init, Schedule!Init
<1>2. [Listed!Next]_(Listed!scheduleVars) => [Schedule!Next]_(Schedule!scheduleVars)
  BY NextByNumber
<1> QED
  BY <1>1, <1>2, RunFollowsListing, PTL DEF Listed!Spec, Schedule!Spec, ImplementsSchedule

-------------------------------------------------------------------------------
(* What a stage is built from: the commitments of the stage before it and  *)
(* the end state of the subproblem before it.                              *)

StageRows(s, t) == {r \in rows[s] : r.stage = t}

(* The rows that a stage left behind, if this run solved it.               *)
RowsLeft(s, t) ==
  IF termRun[<<s, t>>] = run /\ term[<<s, t>>] \in Solved
  THEN PassThroughRows(t) ELSE {}

(* The worker has yet to append the rows of this stage.                    *)
Unwritten(w, t) ==
  t \in todo[w] /\ ~(t = stage[w] /\ pc[w] \in {"obj", "duals"})

Untouched(s) ==
  s \in pending \/ \E w \in Workers : s \in mine[w] /\ sub[w] # s

(* The file of the subproblem at hand, if there are stages to pass on to,  *)
(* has exactly the rows of the stages that this run solved in it; that of  *)
(* one a pool has not come to has none.                                    *)
PassedOnInv ==
  /\ phase = "pool" => \A s \in Subs : Untouched(s) => rows[s] = {}
  /\ \A w \in Workers : MultiStage /\ pc[w] # "next" =>
       \A t \in Stages :
         StageRows(sub[w], t) = IF Unwritten(w, t) THEN {} ELSE RowsLeft(sub[w], t)

LEMMA InitPassedOnInv == Init => PassedOnInv
  BY DEF Init, PassedOnInv

(* A step that leaves the pass-through files and the terminations alone    *)
(* and brings no worker to or past a stage.                                *)
LEMMA QuietPassedOnInv ==
  ASSUME PassedOnInv, UNCHANGED <<rows, term, termRun, run>>,
         phase' = "pool" => phase = "pool",
         phase' = "pool" => \A s \in Subs : Untouched(s)' => Untouched(s),
         \A v \in Workers : pc'[v] # "next" =>
           /\ pc[v] # "next" /\ sub'[v] = sub[v]
           /\ \A t \in Stages : Unwritten(v, t)' <=> Unwritten(v, t)
  PROVE  PassedOnInv'
<1>1. phase' = "pool" => \A s \in Subs : Untouched(s)' => rows'[s] = {}
  BY DEF PassedOnInv
<1>2. ASSUME NEW v \in Workers, MultiStage, pc'[v] # "next", NEW t \in Stages
      PROVE  StageRows(sub[v], t)' = IF Unwritten(v, t)' THEN {} ELSE RowsLeft(sub[v], t)'
  <2>1. StageRows(sub[v], t) = IF Unwritten(v, t) THEN {} ELSE RowsLeft(sub[v], t)
    BY <1>2 DEF PassedOnInv
  <2>2. sub'[v] = sub[v] /\ (Unwritten(v, t)' <=> Unwritten(v, t))
    BY <1>2
  <2>3. StageRows(sub[v], t)' = StageRows(sub[v], t)
    BY <2>2 DEF StageRows
  <2>4. RowsLeft(sub[v], t)' = RowsLeft(sub[v], t)
    BY <2>2 DEF RowsLeft, PassThroughRows, FnlCommitPrjs
  <2> QED
    BY <2>1, <2>2, <2>3, <2>4
<1> QED
  BY <1>1, <1>2 DEF PassedOnInv

(* A run starts, and a pool is filled, when nobody is in a subproblem.     *)
LEMMA StartPassedOnInv ==
  ASSUME WorkInv, NEW a \in RunArgs, Start(a)
  PROVE  PassedOnInv'
<1>1. phase = "idle" /\ UNCHANGED pc /\ phase' # "pool"
  BY DEF Start, SolveSequentially, FallBackToSequential, StartParallel, Begin, worker
<1>2. \A w \in Workers : pc'[w] = "next"
  BY <1>1 DEF WorkInv, WorkerHolds, Distribution
<1> QED
  BY <1>1, <1>2 DEF PassedOnInv

LEMMA MainStepPassedOnInv ==
  ASSUME WorkInv, RowsInv, PassedOnInv, MainStep
  PROVE  PassedOnInv'
<1>1. CASE \E s \in Subs : CreateAllPassThroughInputs(s)
  <2>1. phase = "headers" /\ UNCHANGED <<phase, pc>>
    BY <1>1 DEF CreateAllPassThroughInputs, worker
  <2>2. \A w \in Workers : pc'[w] = "next"
    BY <2>1 DEF WorkInv, WorkerHolds, Distribution
  <2> QED
    BY <2>1, <2>2 DEF PassedOnInv
<1>2. CASE FillPool
  <2>1. phase = "headers" /\ toHead = {} /\ UNCHANGED <<rows, pc>>
    BY <1>2 DEF FillPool, disk, shared, worker
  <2>2. \A w \in Workers : pc'[w] = "next"
    BY <2>1 DEF WorkInv, WorkerHolds, Distribution
  <2>3. \A s \in Subs : rows'[s] = {}
    BY <2>1 DEF RowsInv
  <2> QED
    BY <2>2, <2>3 DEF PassedOnInv
<1>3. CASE ReturnObjectiveValues
  <2>1. /\ UNCHANGED <<rows, term, termRun, run, pc, sub, todo, stage>>
        /\ phase' = "idle"
    BY <1>3 DEF ReturnObjectiveValues, disk, files, shared, worker, task
  <2> QED
    BY <2>1, QuietPassedOnInv DEF Unwritten
<1> QED
  BY <1>1, <1>2, <1>3 DEF MainStep

(* An exception, or an exit, leaves a subproblem for good.                 *)
LEMMA RaisePassedOnInv ==
  ASSUME WorkInv, PassedOnInv, NEW w \in Workers, Raise(w) \/ SystemExit(w),
         UNCHANGED <<rows, term, termRun>>
  PROVE  PassedOnInv'
<1>1. CASE \E how \in {"failed", "exit"} : StopAll(how)
  BY <1>1 DEF StopAll, PassedOnInv
<1>2. CASE DropChunk(w)
  <2>1. UNCHANGED <<run, phase, pending>> /\ pc'[w] = "next" /\ mine'[w] = {}
    BY <1>2 DEF DropChunk, WorkInv, TypeOK, TaskTypeOK
  <2>2. \A v \in Workers : v # w =>
          /\ pc'[v] = pc[v] /\ sub'[v] = sub[v] /\ stage'[v] = stage[v]
          /\ mine'[v] = mine[v] /\ todo'[v] = todo[v]
    BY <1>2 DEF DropChunk, Forget, WorkInv, TypeOK, TaskTypeOK
  <2>3. \A s \in Subs : Untouched(s)' => Untouched(s)
    BY <2>1, <2>2 DEF Untouched
  <2>4. \A v \in Workers : v # w => \A t \in Stages : Unwritten(v, t)' <=> Unwritten(v, t)
    BY <2>2 DEF Unwritten
  <2> QED
    BY <2>1, <2>2, <2>3, <2>4, QuietPassedOnInv
<1> QED
  BY <1>1, <1>2 DEF Raise, SystemExit

LEMMA TakeChunkPassedOnInv ==
  ASSUME WorkInv, PassedOnInv, NEW w \in Workers, TakeChunk(w)
  PROVE  PassedOnInv'
<1>1. PICK c \in SUBSET pending :
        mine' = [mine EXCEPT ![w] = c] /\ pending' = pending \ c
  BY DEF TakeChunk
<1>2. UNCHANGED <<rows, term, termRun, run, phase, pc, sub, todo, stage>>
  BY DEF TakeChunk, disk, files, shared
<1>3. \A s \in Subs : Untouched(s)' => Untouched(s)
  BY <1>1, <1>2 DEF Untouched, WorkInv, TypeOK, TaskTypeOK
<1> QED
  BY <1>2, <1>3, QuietPassedOnInv DEF Unwritten

(* The file of the subproblem that a worker enters is empty.               *)
LEMMA EnterSubproblemPassedOnInv ==
  ASSUME WorkInv, RowsInv, PassedOnInv, NEW w \in Workers,
         RunOptimizationForSubproblem(w)
  PROVE  PassedOnInv'
<1>1. PICK s \in mine[w] :
        /\ sub' = [sub EXCEPT ![w] = s]
        /\ IF phase = "sequential" /\ MultiStage
           THEN CreatePassThroughInputs(s) ELSE UNCHANGED rows
  BY DEF RunOptimizationForSubproblem
<1>2. /\ UNCHANGED <<term, termRun, run, phase, pending, mine, stage>>
      /\ pc[w] = "next" /\ pc' = [pc EXCEPT ![w] = "stage"]
      /\ todo' = [todo EXCEPT ![w] = Stages] /\ phase \in {"sequential", "pool"}
  BY DEF RunOptimizationForSubproblem, main, files
<1>3. sub[w] = None /\ s \in Subs /\ s # None
  BY <1>1, <1>2, ScenarioAssumption
     DEF WorkInv, WorkerHolds, TypeOK, TaskTypeOK, ScenarioAssumption, None
<1>4. /\ pc'[w] = "stage" /\ sub'[w] = s /\ todo'[w] = Stages
      /\ \A v \in Workers : v # w =>
           sub'[v] = sub[v] /\ todo'[v] = todo[v] /\ pc'[v] = pc[v]
  BY <1>1, <1>2 DEF WorkInv, TypeOK, TaskTypeOK
<1>5. rows'[s] = {} /\ \A r \in Subs : r # s => rows'[r] = rows[r]
  <2>1. CASE phase = "sequential" /\ MultiStage
    BY <1>1, <1>3, <2>1 DEF CreatePassThroughInputs, WorkInv, TypeOK, SharedTypeOK
  <2>2. CASE ~MultiStage
    BY <1>1, <1>3, <2>2 DEF RowsInv
  <2>3. CASE phase = "pool"
    <3>1. Untouched(s)
      BY <1>1, <1>3 DEF Untouched
    <3> QED
      BY <1>1, <1>3, <2>3, <3>1 DEF PassedOnInv
  <2> QED
    BY <1>2, <2>1, <2>2, <2>3
<1>6. \A r \in Subs : Untouched(r)' => Untouched(r)
  <2>1. None \notin Subs
    BY ScenarioAssumption DEF ScenarioAssumption, None
  <2> QED
    BY <1>2, <1>3, <1>4, <2>1 DEF Untouched
<1>7. phase' = "pool" => \A r \in Subs : Untouched(r)' => rows'[r] = {}
  BY <1>2, <1>5, <1>6 DEF PassedOnInv
<1>8. ASSUME NEW v \in Workers, MultiStage, pc'[v] # "next", NEW t \in Stages
      PROVE  StageRows(sub[v], t)' = IF Unwritten(v, t)' THEN {} ELSE RowsLeft(sub[v], t)'
  <2>1. CASE v = w
    BY <1>4, <1>5, <2>1 DEF StageRows, Unwritten
  <2>2. CASE v # w
    <3>1. pc[v] # "next" /\ sub'[v] = sub[v]
      BY <1>4, <1>8, <2>2
    <3>2. sub[v] \in mine[v] /\ sub[v] \in Subs
      BY <3>1 DEF WorkInv, WorkerHolds, TypeOK, TaskTypeOK
    <3>3. sub[v] # s
      BY <1>1, <2>2, <3>2 DEF WorkInv, Distribution
    <3>4. StageRows(sub[v], t) = IF Unwritten(v, t) THEN {} ELSE RowsLeft(sub[v], t)
      BY <1>8, <3>1 DEF PassedOnInv
    <3>5. StageRows(sub[v], t)' = StageRows(sub[v], t)
      BY <1>5, <3>1, <3>2, <3>3 DEF StageRows
    <3>6. Unwritten(v, t)' <=> Unwritten(v, t)
      BY <1>2, <1>4, <2>2 DEF Unwritten
    <3>7. RowsLeft(sub[v], t)' = RowsLeft(sub[v], t)
      BY <1>2, <3>1 DEF RowsLeft, PassThroughRows, FnlCommitPrjs
    <3> QED
      BY <3>4, <3>5, <3>6, <3>7
  <2> QED
    BY <2>1, <2>2
<1> QED
  BY <1>7, <1>8 DEF PassedOnInv

(* A stage that a worker leaves has written its rows, or has none.         *)
LEMMA LeaveStagePassedOnInv ==
  ASSUME WorkInv, PassedOnInv, NEW w \in Workers, NEW t \in todo[w], LeaveStage(w, t),
         pc[w] # "next", stage[w] \in {t, None},
         UNCHANGED <<rows, term, termRun, run, phase, pending>>,
         Unwritten(w, t) => RowsLeft(sub[w], t) = {}
  PROVE  PassedOnInv'
<1>1. /\ pc'[w] \in {"next", "stage"} /\ todo'[w] = todo[w] \ {t} /\ stage'[w] = None
      /\ mine'[w] \subseteq mine[w]
      /\ \A v \in Workers : v # w =>
             /\ pc'[v] = pc[v] /\ mine'[v] = mine[v] /\ sub'[v] = sub[v]
             /\ todo'[v] = todo[v] /\ stage'[v] = stage[v]
  BY DEF LeaveStage, Forget, WorkInv, TypeOK, TaskTypeOK
<1>2. pc'[w] # "next" => sub'[w] = sub[w]
  BY DEF LeaveStage, WorkInv, TypeOK, TaskTypeOK
<1>3. mine'[w] = mine[w] \ {sub[w]} \/ sub'[w] = sub[w]
  BY DEF LeaveStage, WorkInv, TypeOK, TaskTypeOK
<1>4. \A s \in Subs : Untouched(s)' => Untouched(s)
  BY <1>1, <1>3 DEF Untouched
<1>5. None \notin Stages
  BY ScenarioAssumption DEF ScenarioAssumption, None
<1>6. ASSUME NEW v \in Workers, MultiStage, pc'[v] # "next", NEW u \in Stages
      PROVE  StageRows(sub[v], u)' = IF Unwritten(v, u)' THEN {} ELSE RowsLeft(sub[v], u)'
  <2>1. sub'[v] = sub[v] /\ pc[v] # "next"
    BY <1>1, <1>2, <1>6
  <2>2. StageRows(sub[v], u) = IF Unwritten(v, u) THEN {} ELSE RowsLeft(sub[v], u)
    BY <1>6, <2>1 DEF PassedOnInv
  <2>3. StageRows(sub[v], u)' = StageRows(sub[v], u)
    BY <2>1 DEF StageRows
  <2>4. RowsLeft(sub[v], u)' = RowsLeft(sub[v], u)
    BY <2>1 DEF RowsLeft, PassThroughRows, FnlCommitPrjs
  <2>5. CASE v # w
    <3>1. Unwritten(v, u)' <=> Unwritten(v, u)
      BY <1>1, <2>5 DEF Unwritten
    <3> QED
      BY <2>2, <2>3, <2>4, <3>1
  <2>6. CASE v = w /\ u = t
    <3>1. ~Unwritten(v, u)'
      BY <1>1, <2>6 DEF Unwritten
    <3>2. StageRows(sub[v], u) = RowsLeft(sub[v], u)
      BY <2>2, <2>6
    <3> QED
      BY <2>3, <2>4, <3>1, <3>2
  <2>7. CASE v = w /\ u # t
    <3>1. Unwritten(v, u)' <=> Unwritten(v, u)
      BY <1>1, <1>5, <2>7 DEF Unwritten
    <3> QED
      BY <2>2, <2>3, <2>4, <3>1
  <2> QED
    BY <2>5, <2>6, <2>7
<1> QED
  BY <1>4, <1>6 DEF PassedOnInv

(* A stage that a resumed run skips is not of this run.                    *)
LEMMA SkipCompleteStagePassedOnInv ==
  ASSUME WorkInv, ScheduleInv, PassedOnInv, NEW w \in Workers, SkipCompleteStage(w)
  PROVE  PassedOnInv'
<1>1. PICK t \in Stages : AtStage(w, t) /\ LeaveStage(w, t)
  BY DEF SkipCompleteStage
<1>2. UNCHANGED <<rows, term, termRun, run, phase, pending>>
  BY DEF SkipCompleteStage, disk, files, shared, main
<1>3. /\ t \in todo[w] /\ pc[w] = "stage" /\ stage[w] = None
      /\ sub[w] \in mine[w] /\ sub[w] \in Subs
  BY <1>1 DEF AtStage, IsFirst, WorkInv, WorkerHolds, TypeOK, TaskTypeOK
<1>4. ToCome(<<sub[w], t>>)
  BY <1>3, ScenarioAssumption DEF ToCome, ScenarioAssumption, None
<1>5. termRun[<<sub[w], t>>] # run
  BY <1>3, <1>4 DEF ScheduleInv, FoundInv, Pairs
<1> QED
  BY <1>1, <1>2, <1>3, <1>5, LeaveStagePassedOnInv DEF RowsLeft

LEMMA FinishStagePassedOnInv ==
  ASSUME WorkInv, FilesInv, PassedOnInv, NEW w \in Workers,
         pc[w] \in {"noresults", "duals"}, FinishStage(w), UNCHANGED <<rows, term, termRun, run, phase, pending>>
  PROVE  PassedOnInv'
<1>1. stage[w] \in todo[w] /\ InHand(w)
  BY DEF InHand, WorkInv, WorkerHolds
<1>2. Written(w)
  BY <1>1 DEF FilesInv, InHandInv
<1>3. Unwritten(w, stage[w]) => RowsLeft(sub[w], stage[w]) = {}
  BY <1>2 DEF Unwritten, RowsLeft, Written, At
<1> QED
  BY <1>1, <1>3, LeaveStagePassedOnInv DEF FinishStage

(* A stage that is taken in hand has yet to write its rows.                *)
LEMMA RunStagePassedOnInv ==
  ASSUME WorkInv, PassedOnInv, NEW w \in Workers, RunOptimizationForSubproblemStage(w)
  PROVE  PassedOnInv'
<1>1. UNCHANGED <<rows, term, termRun>>
  BY DEF RunOptimizationForSubproblemStage, disk, files, shared
<1>2. CASE Raise(w)
  BY <1>1, <1>2, RaisePassedOnInv
<1>3. CASE ~Raise(w)
  <2>1. PICK t \in Stages :
          /\ AtStage(w, t)
          /\ stage' = [stage EXCEPT ![w] = t]
          /\ \E to \in {"built", "status"} : pc' = [pc EXCEPT ![w] = to]
          /\ UNCHANGED <<main, mine, sub, todo>>
    BY <1>3 DEF RunOptimizationForSubproblemStage, CreateProblem, LoadHighsSolution
  <2>2. UNCHANGED <<phase, run, pending>>
    BY <2>1 DEF main
  <2>3. /\ pc[w] = "stage" /\ pc'[w] \in {"built", "status"}
        /\ \A v \in Workers : v # w => stage'[v] = stage[v] /\ pc'[v] = pc[v]
    BY <2>1 DEF AtStage, WorkInv, TypeOK, TaskTypeOK
  <2>4. \A v \in Workers : \A u \in Stages : Unwritten(v, u)' <=> Unwritten(v, u)
    BY <2>1, <2>3 DEF Unwritten
  <2>5. \A s \in Subs : Untouched(s)' <=> Untouched(s)
    BY <2>1, <2>2 DEF Untouched
  <2> QED
    BY <1>1, <2>1, <2>2, <2>3, <2>4, <2>5, QuietPassedOnInv
<1> QED
  BY <1>2, <1>3

(* The termination of a stage is known before its rows are written.        *)
LEMMA SaveTerminationConditionPassedOnInv ==
  ASSUME WorkInv, PassedOnInv, NEW w \in Workers, SaveTerminationCondition(w)
  PROVE  PassedOnInv'
<1>1. /\ pc[w] = "term" /\ UNCHANGED <<rows, phase, run, pending, mine, sub, todo, stage>>
  BY DEF SaveTerminationCondition, shared, main, task
<1>2. InHand(w) /\ At(w) \in Pairs /\ stage[w] \in todo[w]
  BY <1>1, AtType DEF InHand, WorkInv, WorkerHolds
<1>3. /\ pc'[w] \in {"export", "noresults"}
      /\ \A v \in Workers : v # w => pc'[v] = pc[v]
  BY DEF SaveTerminationCondition, WorkInv, TypeOK, TaskTypeOK
<1>4. \A x \in Pairs : x # At(w) => term'[x] = term[x] /\ termRun'[x] = termRun[x]
  BY DEF SaveTerminationCondition, WorkInv, TypeOK, FilesTypeOK
<1>5. ASSUME NEW v \in Workers, MultiStage, pc'[v] # "next", NEW u \in Stages
      PROVE  StageRows(sub[v], u)' = IF Unwritten(v, u)' THEN {} ELSE RowsLeft(sub[v], u)'
  <2>1. pc[v] # "next" /\ (Unwritten(v, u)' <=> Unwritten(v, u))
    BY <1>1, <1>3, <1>5 DEF Unwritten
  <2>2. StageRows(sub[v], u) = IF Unwritten(v, u) THEN {} ELSE RowsLeft(sub[v], u)
    BY <1>5, <2>1 DEF PassedOnInv
  <2>3. StageRows(sub[v], u)' = StageRows(sub[v], u)
    BY <1>1 DEF StageRows
  <2>4. CASE Unwritten(v, u)
    BY <2>1, <2>2, <2>3, <2>4
  <2>5. CASE ~Unwritten(v, u)
    <3>1. <<sub[v], u>> # At(w)
      <4>1. CASE v = w
        BY <1>1, <1>2, <2>5, <4>1 DEF Unwritten, At
      <4>2. CASE v # w
        <5>1. sub[v] \in mine[v] /\ sub[w] \in mine[w]
          BY <1>1, <2>1 DEF WorkInv, WorkerHolds
        <5> QED
          BY <4>2, <5>1 DEF WorkInv, Distribution, At
      <4> QED
        BY <4>1, <4>2
    <3>2. sub[v] \in Subs
      BY <2>1 DEF WorkInv, WorkerHolds, TypeOK, TaskTypeOK
    <3>3. RowsLeft(sub[v], u)' = RowsLeft(sub[v], u)
      BY <1>1, <1>4, <3>1, <3>2 DEF RowsLeft, PassThroughRows, FnlCommitPrjs, Pairs
    <3> QED
      BY <2>1, <2>2, <2>3, <2>5, <3>3
  <2> QED
    BY <2>4, <2>5
<1>6. \A s \in Subs : Untouched(s)' <=> Untouched(s)
  BY <1>1 DEF Untouched
<1> QED
  BY <1>1, <1>5, <1>6 DEF PassedOnInv

(* The rows of the stage in hand are appended, and no others.              *)
LEMMA ExportPassThroughPassedOnInv ==
  ASSUME WorkInv, FilesInv, RowsInv, PassedOnInv, NEW w \in Workers,
         ExportPassThroughInputs(w)
  PROVE  PassedOnInv'
<1>1. /\ pc[w] = "pass"
      /\ UNCHANGED <<term, termRun, phase, run, pending, mine, sub, todo, stage>>
  BY DEF ExportPassThroughInputs, files, main, task
<1>2. /\ InHand(w) /\ At(w) \in Pairs /\ sub[w] \in Subs /\ stage[w] \in Stages
      /\ stage[w] \in todo[w] /\ sub[w] \in mine[w]
  BY <1>1, AtType DEF InHand, WorkInv, WorkerHolds
<1>3. /\ pc'[w] = "obj" /\ \A v \in Workers : v # w => pc'[v] = pc[v]
  BY DEF ExportPassThroughInputs, WorkInv, TypeOK, TaskTypeOK
<1>4. RowsLeft(sub[w], stage[w]) = PassThroughRows(stage[w])
  <2>1. Written(w)
    BY <1>2 DEF FilesInv, InHandInv
  <2> QED
    BY <1>1, <2>1 DEF Written, RowsLeft, At
<1>5. \A v \in Workers, u \in Stages : RowsLeft(sub[v], u)' = RowsLeft(sub[v], u)
  BY <1>1 DEF RowsLeft, PassThroughRows, FnlCommitPrjs
<1>6. /\ \A s \in Subs : s # sub[w] => rows'[s] = rows[s]
      /\ MultiStage => rows'[sub[w]] = rows[sub[w]] \cup PassThroughRows(stage[w])
      /\ ~MultiStage => rows'[sub[w]] = rows[sub[w]]
  BY <1>2 DEF ExportPassThroughInputs, WorkInv, TypeOK, SharedTypeOK
<1>7. \A r \in PassThroughRows(stage[w]) : r.stage = stage[w]
  BY DEF PassThroughRows
<1>8. phase' = "pool" => \A s \in Subs : Untouched(s)' => rows'[s] = {}
  <2>1. ~Untouched(sub[w])
    BY <1>2 DEF Untouched, WorkInv, Distribution
  <2> QED
    BY <1>1, <1>6, <2>1 DEF PassedOnInv, Untouched
<1>9. ASSUME NEW v \in Workers, MultiStage, pc'[v] # "next", NEW u \in Stages
      PROVE  StageRows(sub[v], u)' = IF Unwritten(v, u)' THEN {} ELSE RowsLeft(sub[v], u)'
  <2>1. pc[v] # "next" /\ sub'[v] = sub[v]
    BY <1>1, <1>3, <1>9
  <2>2. StageRows(sub[v], u) = IF Unwritten(v, u) THEN {} ELSE RowsLeft(sub[v], u)
    BY <1>9, <2>1 DEF PassedOnInv
  <2>3. CASE v # w
    <3>1. sub[v] # sub[w] /\ sub[v] \in Subs
      BY <1>2, <2>1, <2>3 DEF WorkInv, WorkerHolds, Distribution, TypeOK, TaskTypeOK
    <3>2. StageRows(sub[v], u)' = StageRows(sub[v], u)
      BY <1>6, <2>1, <3>1 DEF StageRows
    <3>3. Unwritten(v, u)' <=> Unwritten(v, u)
      BY <1>1, <1>3, <2>3 DEF Unwritten
    <3> QED
      BY <1>5, <2>2, <3>2, <3>3
  <2>4. CASE v = w /\ u # stage[w]
    <3>1. StageRows(sub[w], u)' = StageRows(sub[w], u)
      BY <1>1, <1>6, <1>7, <2>4 DEF StageRows, MultiStage
    <3>2. Unwritten(w, u)' <=> Unwritten(w, u)
      BY <1>1, <1>3, <2>4 DEF Unwritten
    <3> QED
      BY <1>5, <2>2, <2>4, <3>1, <3>2
  <2>5. CASE v = w /\ u = stage[w]
    <3>1. Unwritten(w, u) /\ ~Unwritten(w, u)'
      BY <1>1, <1>2, <1>3, <2>5 DEF Unwritten
    <3>2. StageRows(sub[w], u) = {}
      BY <2>2, <2>5, <3>1
    <3>3. StageRows(sub[w], u)' = PassThroughRows(stage[w])
      BY <1>1, <1>6, <1>7, <1>9, <2>5, <3>2 DEF StageRows
    <3> QED
      BY <1>4, <1>5, <2>5, <3>1, <3>3
  <2> QED
    BY <2>3, <2>4, <2>5
<1> QED
  BY <1>8, <1>9 DEF PassedOnInv

LEMMA WorkerStepPassedOnInv ==
  ASSUME WorkInv, RowsInv, FilesInv, ScheduleInv, PassedOnInv, NEW w \in Workers,
         WorkerStep(w) \/ Fault(w)
  PROVE  PassedOnInv'
<1>1. CASE TakeChunk(w) \/ RunOptimizationForSubproblem(w)
  BY <1>1, TakeChunkPassedOnInv, EnterSubproblemPassedOnInv
<1>2. CASE SkipCompleteStage(w) \/ RunOptimizationForSubproblemStage(w)
  BY <1>2, SkipCompleteStagePassedOnInv, RunStagePassedOnInv
<1>3. CASE WriteProblemFile(w)
  BY <1>3, RaisePassedOnInv DEF WriteProblemFile, files
<1>4. CASE \/ SolveProblem(w) \/ SaveSolverStatus(w) \/ ExportResults(w)
           \/ SaveObjectiveFunctionValue(w)
  <2>1. UNCHANGED <<rows, term, termRun, phase, run, pending, mine, sub, todo, stage>>
    BY <1>4 DEF SolveProblem, SaveSolverStatus, ExportResults,
                SaveObjectiveFunctionValue, disk, files, shared, main, task
  <2>2. \A v \in Workers :
          /\ pc'[v] # "next" => pc[v] # "next"
          /\ pc'[v] \in {"obj", "duals"} <=> pc[v] \in {"obj", "duals"}
    BY <1>4 DEF SolveProblem, SaveSolverStatus, ExportResults,
                SaveObjectiveFunctionValue, WorkInv, TypeOK, TaskTypeOK
  <2> QED
    BY <2>1, <2>2, QuietPassedOnInv DEF Unwritten, Untouched
<1>5. CASE SaveTerminationCondition(w) \/ ExportPassThroughInputs(w)
  BY <1>5, SaveTerminationConditionPassedOnInv, ExportPassThroughPassedOnInv
<1>6. CASE SkipResultsExport(w)
  <2>1. UNCHANGED <<rows, term, termRun>> /\ pc[w] = "noresults"
    BY <1>6 DEF SkipResultsExport, disk, files, shared
  <2>2. CASE Raise(w)
    BY <2>1, <2>2, RaisePassedOnInv
  <2>3. CASE FinishStage(w) /\ UNCHANGED main
    BY <2>1, <2>3, FinishStagePassedOnInv DEF main
  <2> QED
    BY <1>6, <2>2, <2>3 DEF SkipResultsExport
<1>7. CASE SaveDuals(w)
  BY <1>7, FinishStagePassedOnInv DEF SaveDuals, shared, main
<1>8. CASE Fault(w)
  BY <1>8, RaisePassedOnInv DEF Fault, disk, files, shared
<1> QED
  BY <1>1, <1>2, <1>3, <1>4, <1>5, <1>6, <1>7, <1>8 DEF WorkerStep

LEMMA NextPassedOnInv ==
  WorkInv /\ RowsInv /\ FilesInv /\ ScheduleInv /\ PassedOnInv /\ [Next]_vars
    => PassedOnInv'
<1> SUFFICES ASSUME WorkInv, RowsInv, FilesInv, ScheduleInv, PassedOnInv, [Next]_vars
             PROVE  PassedOnInv'
  OBVIOUS
<1>1. CASE DeletePriorInputs \/ UNCHANGED vars
  <2>1. UNCHANGED <<rows, term, termRun, phase, run, pending, pc, mine, sub, todo, stage>>
    BY <1>1 DEF DeletePriorInputs, vars, disk, files, shared, main, worker, task
  <2> QED
    BY <2>1, QuietPassedOnInv DEF Unwritten, Untouched
<1>2. CASE \E a \in RunArgs : Start(a)
  BY <1>2, StartPassedOnInv
<1>3. CASE MainStep
  BY <1>3, MainStepPassedOnInv
<1>4. CASE \E w \in Workers : WorkerStep(w) \/ Fault(w)
  BY <1>4, WorkerStepPassedOnInv
<1>5. CASE Kill
  BY <1>5 DEF Kill, StopAll, PassedOnInv
<1> QED
  BY <1>1, <1>2, <1>3, <1>4, <1>5 DEF Next

(* What was built stays as it was until it is solved; meanwhile only pairs *)
(* of other subproblems, in the hands of other workers, come to an end.    *)
LEMMA BuiltStays ==
  ASSUME WorkInv, [Next]_vars, NEW w \in Workers, pc'[w] = "built",
         ~(RunOptimizationForSubproblemStage(w) /\ ~Raise(w))
  PROVE  /\ pc[w] = "built" /\ sub'[w] = sub[w] /\ stage'[w] = stage[w]
         /\ fixed'[w] = fixed[w] /\ linkedUsed'[w] = linkedUsed[w]
         /\ UNCHANGED <<run, args>>
         /\ \A x \in Pairs :
              \/ term'[x] = term[x] /\ termRun'[x] = termRun[x]
              \/ \E v \in Workers : v # w /\ InHand(v) /\ At(v) = x
<1> DEFINE same == /\ pc[w] = "built" /\ sub'[w] = sub[w] /\ stage'[w] = stage[w]
                   /\ fixed'[w] = fixed[w] /\ linkedUsed'[w] = linkedUsed[w]
                   /\ UNCHANGED <<run, args>>
           others == \A x \in Pairs :
                       \/ term'[x] = term[x] /\ termRun'[x] = termRun[x]
                       \/ \E v \in Workers : v # w /\ InHand(v) /\ At(v) = x
<1>1. CASE DeletePriorInputs \/ UNCHANGED vars
  BY <1>1 DEF DeletePriorInputs, vars, disk, files, main, worker, task
<1>2. CASE \E a \in RunArgs : Start(a)
  <2>1. phase = "idle" /\ UNCHANGED pc
    BY <1>2 DEF Start, SolveSequentially, FallBackToSequential, StartParallel, Begin,
                worker
  <2> QED
    BY <2>1 DEF WorkInv, WorkerHolds, Distribution
<1>3. CASE MainStep
  BY <1>3 DEF MainStep, CreateAllPassThroughInputs, FillPool, ReturnObjectiveValues,
              disk, files, worker, task
<1>4. CASE Kill
  BY <1>4 DEF Kill, StopAll
<1>5. ASSUME NEW v \in Workers, Raise(v) \/ SystemExit(v), UNCHANGED <<term, termRun>>
      PROVE  same /\ others
  <2>1. DropChunk(v)
    BY <1>5 DEF Raise, SystemExit, StopAll
  <2>2. w # v
    BY <2>1 DEF DropChunk, WorkInv, TypeOK, TaskTypeOK
  <2> QED
    BY <1>5, <2>1, <2>2 DEF DropChunk, Forget, WorkInv, TypeOK, TaskTypeOK, MemoryTypeOK
<1>6. ASSUME NEW v \in Workers, NEW t, LeaveStage(v, t),
             UNCHANGED <<term, termRun, run, args>>
      PROVE  same /\ others
  <2>1. w # v
    BY <1>6 DEF LeaveStage, WorkInv, TypeOK, TaskTypeOK
  <2> QED
    BY <1>6, <2>1 DEF LeaveStage, Forget, WorkInv, TypeOK, TaskTypeOK, MemoryTypeOK
<1>7. ASSUME NEW v \in Workers, TakeChunk(v) \/ RunOptimizationForSubproblem(v)
      PROVE  same /\ others
  <2>1. UNCHANGED <<term, termRun, run, args, stage, fixed, linkedUsed>> /\ pc[v] = "next"
    BY <1>7 DEF TakeChunk, RunOptimizationForSubproblem, disk, files, main
  <2>2. w # v
    BY <1>7, <2>1 DEF TakeChunk, RunOptimizationForSubproblem, WorkInv, TypeOK, TaskTypeOK
  <2>3. pc'[w] = pc[w] /\ sub'[w] = sub[w]
    BY <1>7, <2>2 DEF TakeChunk, RunOptimizationForSubproblem, WorkInv, TypeOK, TaskTypeOK
  <2> QED
    BY <2>1, <2>3
<1>8. ASSUME NEW v \in Workers, RunOptimizationForSubproblemStage(v)
      PROVE  same /\ others
  <2>1. UNCHANGED <<term, termRun>>
    BY <1>8 DEF RunOptimizationForSubproblemStage, disk, files
  <2>2. CASE Raise(v)
    BY <1>5, <2>1, <2>2
  <2>3. CASE ~Raise(v)
    <3>1. v # w
      BY <1>8, <2>3
    <3>2. UNCHANGED <<run, args, sub>>
      BY <1>8, <2>3 DEF RunOptimizationForSubproblemStage, CreateProblem,
                        LoadHighsSolution, main
    <3>3. /\ pc'[w] = pc[w] /\ stage'[w] = stage[w] /\ fixed'[w] = fixed[w]
          /\ linkedUsed'[w] = linkedUsed[w]
      BY <1>8, <2>3, <3>1 DEF RunOptimizationForSubproblemStage, CreateProblem,
              LoadHighsSolution, WorkInv, TypeOK, TaskTypeOK, MemoryTypeOK
    <3> QED
      BY <2>1, <3>2, <3>3
  <2> QED
    BY <2>2, <2>3
<1>9. ASSUME NEW v \in Workers,
             \/ SolveProblem(v) \/ SaveSolverStatus(v) \/ SaveTerminationCondition(v)
             \/ ExportResults(v) \/ ExportPassThroughInputs(v)
             \/ SaveObjectiveFunctionValue(v)
      PROVE  same /\ others
  <2>1. UNCHANGED <<run, args, sub, stage, fixed, linkedUsed>>
    BY <1>9 DEF SolveProblem, SaveSolverStatus, SaveTerminationCondition, ExportResults,
                ExportPassThroughInputs, SaveObjectiveFunctionValue, main, task
  <2>2. /\ pc'[v] # "built" /\ InHand(v)
        /\ \A u \in Workers : u # v => pc'[u] = pc[u]
    BY <1>9 DEF SolveProblem, SaveSolverStatus, SaveTerminationCondition, ExportResults,
                ExportPassThroughInputs, SaveObjectiveFunctionValue, InHand, WorkInv,
                TypeOK, TaskTypeOK
  <2>3. \A x \in Pairs : x # At(v) => term'[x] = term[x] /\ termRun'[x] = termRun[x]
    BY <1>9 DEF SolveProblem, SaveSolverStatus, SaveTerminationCondition, ExportResults,
                ExportPassThroughInputs, SaveObjectiveFunctionValue, disk, files,
                WorkInv, TypeOK, FilesTypeOK
  <2> QED
    BY <2>1, <2>2, <2>3
<1>10. ASSUME NEW v \in Workers, WorkerStep(v) \/ Fault(v)
       PROVE  same /\ others
  <2> HIDE DEF same, others
  <2>1. CASE SkipCompleteStage(v)
    <3>1. UNCHANGED <<term, termRun, run, args>>
      BY <2>1 DEF SkipCompleteStage, disk, files, main
    <3> QED
      BY <1>6, <2>1, <3>1 DEF SkipCompleteStage
  <2>2. CASE WriteProblemFile(v) \/ Fault(v)
    BY <1>5, <2>2 DEF WriteProblemFile, Fault, disk, files
  <2>3. CASE SkipResultsExport(v)
    <3>1. UNCHANGED <<term, termRun>>
      BY <2>3 DEF SkipResultsExport, disk, files
    <3>2. CASE Raise(v)
      BY <1>5, <3>1, <3>2
    <3>3. CASE FinishStage(v) /\ UNCHANGED main
      BY <1>6, <3>1, <3>3 DEF FinishStage, main
    <3> QED
      BY <2>3, <3>2, <3>3 DEF SkipResultsExport
  <2>4. CASE SaveDuals(v)
    BY <1>6, <2>4 DEF SaveDuals, FinishStage, main
  <2> QED
    BY <1>7, <1>8, <1>9, <1>10, <2>1, <2>2, <2>3, <2>4 DEF WorkerStep
<1> QED
  BY <1>1, <1>2, <1>3, <1>4, <1>10 DEF Next

-------------------------------------------------------------------------------
(* With no stage before it nothing is fixed; with one that this run solved *)
(* what it passed on is fixed, and nothing else.                           *)
LEMMA CommitmentThatIsFixed ==
  ASSUME WorkInv, PassedOnInv, NEW w \in Workers, NEW t \in Stages, AtStage(w, t)
  PROVE  /\ \A u \in Stages :
              IsPrev(u, t) /\ termRun[<<sub[w], u>>] = run
                /\ term[<<sub[w], u>>] \in Solved /\ u \notin todo[w]
              => FixedCommitment(sub[w], t)
                   = [p \in Projects |-> IF p \in FnlCommitPrjs(u) THEN run ELSE 0]
         /\ (\A u \in Stages : t <= u) => FixedCommitment(sub[w], t) = Free
<1>1. pc[w] = "stage" /\ sub[w] \in Subs /\ stage[w] = None
  BY DEF AtStage, WorkInv, WorkerHolds, TypeOK, TaskTypeOK
<1>2. Stages \subseteq Nat
  BY ScenarioAssumption DEF ScenarioAssumption
<1>3. ASSUME NEW u \in Stages, IsPrev(u, t), termRun[<<sub[w], u>>] = run,
             term[<<sub[w], u>>] \in Solved, u \notin todo[w]
      PROVE  FixedCommitment(sub[w], t)
               = [p \in Projects |-> IF p \in FnlCommitPrjs(u) THEN run ELSE 0]
  <2>1. MultiStage
    BY <1>2, <1>3 DEF IsPrev, MultiStage
  <2>2. StageRows(sub[w], u) = PassThroughRows(u)
    BY <1>1, <1>3, <2>1 DEF PassedOnInv, Unwritten, RowsLeft
  <2>3. \A r \in rows[sub[w]] : r.stage \in Stages
    BY <1>1 DEF WorkInv, TypeOK, SharedTypeOK, PassThroughRow
  <2>4. ASSUME NEW v \in Stages, IsPrev(v, t) PROVE v = u
    BY <1>2, <1>3, <2>4 DEF IsPrev
  <2>5. RelevantRows(sub[w], t) = PassThroughRows(u)
    <3>1. RelevantRows(sub[w], t) = StageRows(sub[w], u)
      BY <1>3, <2>3, <2>4 DEF RelevantRows, StageRows
    <3> QED
      BY <2>2, <3>1
  <2>6. ASSUME NEW p \in Projects
        PROVE  FixedCommitment(sub[w], t)[p] = IF p \in FnlCommitPrjs(u) THEN run ELSE 0
    <3>1. (\E r \in RelevantRows(sub[w], t) : r.prj = p) <=> p \in FnlCommitPrjs(u)
      <4>1. RelevantRows(sub[w], t)
              = {[prj |-> q, stage |-> u, run |-> run] : q \in FnlCommitPrjs(u)}
        BY <2>5 DEF PassThroughRows
      <4>2. \A q : [prj |-> q, stage |-> u, run |-> run].prj = q
        OBVIOUS
      <4> QED
        BY <4>1, <4>2, Zenon
    <3> DEFINE row(r) == /\ r.prj = p
                         /\ \A q \in RelevantRows(sub[w], t) : q.prj = p => q.run <= r.run
    <3>2. FixedCommitment(sub[w], t)[p] =
            IF \E r \in RelevantRows(sub[w], t) : r.prj = p
            THEN (CHOOSE r \in RelevantRows(sub[w], t) : row(r)).run ELSE 0
      BY <2>6 DEF FixedCommitment
    <3>3. CASE p \in FnlCommitPrjs(u)
      <4>1. PICK r \in RelevantRows(sub[w], t) : r.prj = p
        BY <3>1, <3>3
      <4>2. \A q \in RelevantRows(sub[w], t) : q.run = run /\ run <= run
        BY <2>5 DEF PassThroughRows, WorkInv, TypeOK, MainTypeOK, Runs
      <4>3. row(r)
        BY <4>1, <4>2
      <4>4. (CHOOSE q \in RelevantRows(sub[w], t) : row(q)) \in RelevantRows(sub[w], t)
        BY <4>3
      <4> QED
        BY <3>1, <3>2, <3>3, <4>2, <4>4
    <3>4. CASE p \notin FnlCommitPrjs(u)
      BY <3>1, <3>2, <3>4
    <3> QED
      BY <3>3, <3>4
  <2> QED
    BY <2>6, Zenon DEF FixedCommitment
<1>4. ASSUME \A u \in Stages : t <= u
      PROVE  FixedCommitment(sub[w], t) = Free
  <2>1. \A r \in rows[sub[w]] : r.stage \in Stages
    BY <1>1 DEF WorkInv, TypeOK, SharedTypeOK, PassThroughRow
  <2>2. \A u \in Stages : ~IsPrev(u, t)
    BY <1>2, <1>4 DEF IsPrev
  <2>3. RelevantRows(sub[w], t) = {}
    BY <2>1, <2>2 DEF RelevantRows
  <2> QED
    BY <2>3 DEF FixedCommitment, Free
<1> QED
  BY <1>1, <1>3, <1>4

(* What a step builds has the commitments of the stage before it.          *)
LEMMA BuildStage ==
  ASSUME WorkInv, NEW w \in Workers, pc'[w] = "built",
         RunOptimizationForSubproblemStage(w), ~Raise(w)
  PROVE  /\ \E t \in Stages :
              /\ AtStage(w, t) /\ stage'[w] = t /\ sub'[w] = sub[w]
              /\ fixed'[w] = FixedCommitment(sub[w], t)
              /\ HasPredecessor(sub[w]) => linkedUsed'[w] = linkedIn[<<sub[w], t>>]
         /\ UNCHANGED <<term, termRun, run, args>>
<1>1. UNCHANGED <<term, termRun>>
  BY DEF RunOptimizationForSubproblemStage, disk, files
<1>2. PICK t \in Stages :
        /\ AtStage(w, t)
        /\ IF args.mode = "load_highs" THEN LoadHighsSolution(w, t)
           ELSE CreateProblem(w, t)
  BY DEF RunOptimizationForSubproblemStage
<1>3. CreateProblem(w, t)
  <2>1. ~LoadHighsSolution(w, t)
    BY DEF LoadHighsSolution, WorkInv, TypeOK, TaskTypeOK
  <2> QED
    BY <1>2, <2>1
<1>4. /\ stage' = [stage EXCEPT ![w] = t]
      /\ fixed' = [fixed EXCEPT ![w] = FixedCommitment(sub[w], t)]
      /\ linkedUsed' = [linkedUsed EXCEPT ![w] =
                          IF HasPredecessor(sub[w]) THEN linkedIn[<<sub[w], t>>] ELSE 0]
      /\ UNCHANGED <<main, sub>>
  BY <1>3 DEF CreateProblem
<1>5. /\ stage'[w] = t /\ fixed'[w] = FixedCommitment(sub[w], t) /\ UNCHANGED <<run, args>>
      /\ HasPredecessor(sub[w]) => linkedUsed'[w] = linkedIn[<<sub[w], t>>]
  BY <1>4 DEF main, WorkInv, TypeOK, TaskTypeOK, MemoryTypeOK
<1> QED
  BY <1>1, <1>2, <1>4, <1>5

LEMMA NextCommitment ==
  ASSUME WorkInv, ScheduleInv, PassedOnInv, CommitmentFromPrevStage, [Next]_vars
  PROVE  CommitmentFromPrevStage'
<1> SUFFICES ASSUME NEW w \in Workers, pc'[w] = "built"
             PROVE  /\ \A t \in Stages :
                         IsPrev(t, stage'[w]) /\ termRun'[<<sub'[w], t>>] = run'
                            /\ term'[<<sub'[w], t>>] \in Solved
                         => fixed'[w] = [p \in Projects |->
                                           IF p \in FnlCommitPrjs(t) THEN run' ELSE 0]
                    /\ (\A t \in Stages : stage'[w] <= t) => fixed'[w] = Free
  BY DEF CommitmentFromPrevStage, IsPrev, FnlCommitPrjs, Free
<1>1. CASE RunOptimizationForSubproblemStage(w) /\ ~Raise(w)
  <2>1. PICK t \in Stages :
          /\ AtStage(w, t) /\ stage'[w] = t /\ sub'[w] = sub[w]
          /\ fixed'[w] = FixedCommitment(sub[w], t)
    BY <1>1, BuildStage
  <2>2. UNCHANGED <<term, termRun, run>>
    BY <1>1, BuildStage
  <2>3. sub[w] \in mine[w] /\ sub[w] \in Subs /\ pc[w] = "stage" /\ stage[w] = None
    BY <2>1 DEF AtStage, WorkInv, WorkerHolds, TypeOK, TaskTypeOK
  <2>4. ASSUME NEW u \in Stages, termRun[<<sub[w], u>>] = run
        PROVE  u \notin todo[w]
    <3>1. ~ToCome(<<sub[w], u>>)
      BY <2>3, <2>4 DEF ScheduleInv, FoundInv, Pairs
    <3>2. None \notin Stages
      BY ScenarioAssumption DEF ScenarioAssumption, None
    <3> QED
      BY <2>3, <3>1, <3>2 DEF ToCome
  <2> QED
    BY <2>1, <2>2, <2>4, CommitmentThatIsFixed
<1>2. CASE ~(RunOptimizationForSubproblemStage(w) /\ ~Raise(w))
  <2>1. /\ pc[w] = "built" /\ sub'[w] = sub[w] /\ stage'[w] = stage[w]
        /\ fixed'[w] = fixed[w] /\ UNCHANGED run
        /\ \A x \in Pairs :
             \/ term'[x] = term[x] /\ termRun'[x] = termRun[x]
             \/ \E v \in Workers : v # w /\ InHand(v) /\ At(v) = x
    BY <1>2, BuiltStays
  <2>2. sub[w] \in Subs /\ InHand(w)
    BY <2>1, AtType DEF InHand
  <2>3. ASSUME NEW t \in Stages
        PROVE  term'[<<sub[w], t>>] = term[<<sub[w], t>>]
               /\ termRun'[<<sub[w], t>>] = termRun[<<sub[w], t>>]
    <3>1. <<sub[w], t>> \in Pairs
      BY <2>2 DEF Pairs
    <3>2. \A v \in Workers : v # w /\ InHand(v) => At(v) # <<sub[w], t>>
      BY <2>2, PairsApart DEF At
    <3> QED
      BY <2>1, <3>1, <3>2
  <2> QED
    BY <2>1, <2>3 DEF CommitmentFromPrevStage
<1> QED
  BY <1>1, <1>2

(* A stage is optimised with exactly the commitments that the stage before *)
(* it decided in this run (ExportPassThroughInputs of one, CreateProblem   *)
(* of the other), for any number of workers, stages and projects and       *)
(* whatever earlier runs left in fixed_commitment.tab.                     *)
THEOREM CommitmentIsThePrevStages == Spec => []CommitmentFromPrevStage
<1>1. Init => CommitmentFromPrevStage
  BY DEF Init, CommitmentFromPrevStage
<1>2. Spec => []RowsInv
  BY InitRowsInv, NextRowsInv, WorkInvariant, PTL DEF Spec
<1>3. Spec => []PassedOnInv
  BY <1>2, InitPassedOnInv, NextPassedOnInv, FilesInvariant, ScheduleInvariant, PTL
     DEF Spec
<1>4. WorkInv /\ ScheduleInv /\ PassedOnInv /\ CommitmentFromPrevStage /\ [Next]_vars
        => CommitmentFromPrevStage'
  BY NextCommitment
<1> QED
  BY <1>1, <1>3, <1>4, FilesInvariant, ScheduleInvariant, PTL DEF Spec

-------------------------------------------------------------------------------
(* Linked subproblems.                                                     *)

NextPair(x) == <<x[1] + 1, x[2]>>

(* A pair that this run is through with has handed its end state on, if it *)
(* had one; with none the run is over.                                     *)
HandedOn(x) ==
  /\ term[x] # "infeasible"
  /\ term[x] \in Solved /\ args.export /\ NextPair(x) \in Pairs
       => linkedIn[NextPair(x)] = run

HandedOnInv ==
  Linked /\ phase # "idle" =>
    \A x \in Pairs : termRun[x] = run =>
      \/ HandedOn(x)
      \/ \E w \in Workers : pc[w] \in {"noresults", "export"} /\ At(w) = x

(* A step that ends no stage and hands nothing on.                         *)
LEMMA QuietHandedOnInv ==
  ASSUME HandedOnInv, UNCHANGED <<term, termRun, linkedIn, run, args>>,
         phase' # "idle" => phase # "idle",
         \A v \in Workers : pc[v] \in {"noresults", "export"} =>
           pc'[v] = pc[v] /\ sub'[v] = sub[v] /\ stage'[v] = stage[v]
  PROVE  HandedOnInv'
<1>1. \A x \in Pairs : HandedOn(x)' <=> HandedOn(x)
  BY DEF HandedOn, NextPair
<1>2. \A v \in Workers : pc[v] \in {"noresults", "export"} => At(v)' = At(v)
  BY DEF At
<1> QED
  BY <1>1, <1>2 DEF HandedOnInv

(* Linked subproblems are solved by the main process, which an exception   *)
(* or an exit ends.                                                        *)
LEMMA RaiseHandedOnInv ==
  ASSUME WorkInv, ScheduleInv, NEW w \in Workers, Raise(w) \/ SystemExit(w)
  PROVE  HandedOnInv'
  BY DEF Raise, SystemExit, StopAll, ScheduleInv, AloneInv, HandedOnInv

LEMMA StartHandedOnInv ==
  ASSUME WorkInv, FilesInv, NEW a \in RunArgs, Start(a)
  PROVE  HandedOnInv'
<1>1. UNCHANGED termRun /\ run' = run + 1
  BY DEF Start, SolveSequentially, FallBackToSequential, StartParallel, Begin, disk, files
<1>2. \A x \in Pairs : termRun[x] <= run /\ termRun[x] \in Nat /\ run \in Nat
  BY ScenarioAssumption
     DEF FilesInv, TermRunInv, WorkInv, TypeOK, FilesTypeOK, MainTypeOK, Runs,
         ScenarioAssumption
<1>3. \A x \in Pairs : termRun'[x] # run'
  BY <1>1, <1>2
<1> QED
  BY <1>3 DEF HandedOnInv

(* What ends a stage, or hands its end state on.                           *)
LEMMA EndStageHandedOnInv ==
  ASSUME WorkInv, FilesInv, HandedOnInv, NEW w \in Workers,
         \/ SaveTerminationCondition(w)
         \/ ExportResults(w)
         \/ SkipResultsExport(w) /\ ~Raise(w)
  PROVE  HandedOnInv'
<1> SUFFICES ASSUME Linked, phase' # "idle", NEW x \in Pairs, termRun'[x] = run'
             PROVE  \/ HandedOn(x)'
                    \/ \E v \in Workers : pc'[v] \in {"noresults", "export"} /\ At(v)' = x
  BY DEF HandedOnInv
<1>1. UNCHANGED <<phase, run, args>>
  BY DEF SaveTerminationCondition, ExportResults, SkipResultsExport, main
<1>2. InHand(w) /\ At(w) \in Pairs
  BY AtType DEF SaveTerminationCondition, ExportResults, SkipResultsExport, InHand
<1>3. Written(w)
  BY <1>2 DEF FilesInv, InHandInv
<1>4. CASE SaveTerminationCondition(w)
  <2>1. /\ UNCHANGED <<linkedIn, sub, stage>> /\ pc[w] = "term"
        /\ pc'[w] \in {"noresults", "export"}
        /\ \A v \in Workers : v # w => pc'[v] = pc[v]
        /\ \A y \in Pairs : y # At(w) => term'[y] = term[y] /\ termRun'[y] = termRun[y]
    BY <1>4 DEF SaveTerminationCondition, shared, task, WorkInv, TypeOK, TaskTypeOK,
                FilesTypeOK
  <2>2. \A v \in Workers : At(v)' = At(v)
    BY <2>1 DEF At
  <2>3. CASE x = At(w)
    BY <2>1, <2>2, <2>3
  <2>4. CASE x # At(w)
    BY <1>1, <2>1, <2>2, <2>4 DEF HandedOnInv, HandedOn, NextPair
  <2> QED
    BY <2>3, <2>4
<1>5. CASE ExportResults(w)
  <2>1. /\ UNCHANGED <<term, termRun, sub, stage>> /\ pc[w] = "export"
        /\ \A v \in Workers : v # w => pc'[v] = pc[v]
    BY <1>5 DEF ExportResults, task, WorkInv, TypeOK, TaskTypeOK
  <2>2. \A v \in Workers : At(v)' = At(v)
    BY <2>1 DEF At
  <2>3. \A y \in Pairs : linkedIn'[y] = linkedIn[y] \/ linkedIn'[y] = run
    BY <1>5 DEF ExportResults, LinkToNextSubproblem, WorkInv, TypeOK, SharedTypeOK
  <2>4. CASE x = At(w)
    <3>1. NextPair(x) = <<sub[w] + 1, stage[w]>>
      BY <2>4 DEF NextPair, At
    <3>2. args.export /\ NextPair(x) \in Pairs => linkedIn'[NextPair(x)] = run
      BY <1>5, <3>1 DEF ExportResults, LinkToNextSubproblem, WorkInv, TypeOK, SharedTypeOK
    <3>3. term[x] \in Solved
      BY <1>3, <2>1, <2>4 DEF Written
    <3> QED
      BY <1>1, <2>1, <3>2, <3>3 DEF HandedOn, NextPair, Solved
  <2>5. CASE x # At(w)
    <3>1. HandedOn(x) => HandedOn(x)'
      BY <1>1, <2>1, <2>3 DEF HandedOn, NextPair
    <3> QED
      BY <1>1, <2>1, <2>2, <2>5, <3>1 DEF HandedOnInv
  <2> QED
    BY <2>4, <2>5
<1>6. CASE SkipResultsExport(w) /\ ~Raise(w)
  <2>1. /\ UNCHANGED <<term, termRun, linkedIn>> /\ pc[w] = "noresults"
        /\ LeaveStage(w, stage[w]) /\ ~(out[w] = "infeasible" /\ Linked)
    BY <1>6 DEF SkipResultsExport, FinishStage, disk, files, shared
  <2>2. \A v \in Workers : v # w =>
          pc'[v] = pc[v] /\ sub'[v] = sub[v] /\ stage'[v] = stage[v]
    BY <2>1, LeaveStageHands
  <2>3. \A v \in Workers : v # w => At(v)' = At(v)
    BY <2>2 DEF At
  <2>4. HandedOn(x)' <=> HandedOn(x)
    BY <1>1, <2>1 DEF HandedOn, NextPair
  <2>5. CASE x = At(w)
    BY <1>3, <2>1, <2>4, <2>5 DEF Written, HandedOn
  <2>6. CASE x # At(w)
    BY <1>1, <2>1, <2>2, <2>3, <2>4, <2>6 DEF HandedOnInv
  <2> QED
    BY <2>5, <2>6
<1> QED
  BY <1>4, <1>5, <1>6

LEMMA WorkerStepHandedOnInv ==
  ASSUME WorkInv, FilesInv, ScheduleInv, HandedOnInv, NEW w \in Workers,
         WorkerStep(w) \/ Fault(w)
  PROVE  HandedOnInv'
<1>1. CASE Raise(w) \/ SystemExit(w)
  BY <1>1, RaiseHandedOnInv
<1>2. CASE \/ SaveTerminationCondition(w) \/ ExportResults(w)
           \/ SkipResultsExport(w) /\ ~Raise(w)
  BY <1>2, EndStageHandedOnInv
<1>3. CASE TakeChunk(w) \/ RunOptimizationForSubproblem(w)
  <2>1. /\ UNCHANGED <<term, termRun, linkedIn, run, args, stage, phase>> /\ pc[w] = "next"
        /\ \A v \in Workers : v # w => pc'[v] = pc[v] /\ sub'[v] = sub[v]
    BY <1>3 DEF TakeChunk, RunOptimizationForSubproblem, disk, files, shared, main,
                WorkInv, TypeOK, TaskTypeOK
  <2> QED
    BY <2>1, QuietHandedOnInv
<1>4. CASE SkipCompleteStage(w) \/ SaveDuals(w)
  <2>1. /\ UNCHANGED <<term, termRun, linkedIn, run, args, phase>>
        /\ pc[w] \notin {"noresults", "export"}
        /\ \E t : LeaveStage(w, t)
    BY <1>4 DEF SkipCompleteStage, SaveDuals, FinishStage, AtStage, disk, files, shared,
                main
  <2> QED
    BY <2>1, LeaveStageHands, QuietHandedOnInv
<1>5. CASE RunOptimizationForSubproblemStage(w) /\ ~Raise(w)
  <2>1. UNCHANGED <<term, termRun, linkedIn>>
    BY <1>5 DEF RunOptimizationForSubproblemStage, disk, files, shared
  <2>2. PICK t \in Stages :
          /\ AtStage(w, t)
          /\ stage' = [stage EXCEPT ![w] = t]
          /\ \E to \in {"built", "status"} : pc' = [pc EXCEPT ![w] = to]
          /\ UNCHANGED <<main, sub>>
    BY <1>5 DEF RunOptimizationForSubproblemStage, CreateProblem, LoadHighsSolution
  <2>3. pc[w] = "stage" /\ UNCHANGED <<run, args, phase, sub>>
        /\ \A v \in Workers : v # w => pc'[v] = pc[v] /\ stage'[v] = stage[v]
    BY <2>2 DEF AtStage, main, WorkInv, TypeOK, TaskTypeOK
  <2> QED
    BY <2>1, <2>3, QuietHandedOnInv
<1>6. CASE \/ SolveProblem(w) \/ SaveSolverStatus(w) \/ ExportPassThroughInputs(w)
           \/ SaveObjectiveFunctionValue(w)
  <2>1. /\ UNCHANGED <<term, termRun, linkedIn, run, args, phase, sub, stage>>
        /\ pc[w] \notin {"noresults", "export"}
        /\ \A v \in Workers : v # w => pc'[v] = pc[v]
    BY <1>6 DEF SolveProblem, SaveSolverStatus, ExportPassThroughInputs,
                SaveObjectiveFunctionValue, disk, files, shared, main, task, WorkInv,
                TypeOK, TaskTypeOK
  <2> QED
    BY <2>1, QuietHandedOnInv
<1> QED
  BY <1>1, <1>2, <1>3, <1>4, <1>5, <1>6 DEF WorkerStep, Fault, WriteProblemFile

LEMMA NextHandedOnInv ==
  WorkInv /\ FilesInv /\ ScheduleInv /\ HandedOnInv /\ [Next]_vars => HandedOnInv'
<1> SUFFICES ASSUME WorkInv, FilesInv, ScheduleInv, HandedOnInv, [Next]_vars
             PROVE  HandedOnInv'
  OBVIOUS
<1>1. CASE DeletePriorInputs
  BY <1>1 DEF DeletePriorInputs, main, HandedOnInv
<1>2. CASE \E a \in RunArgs : Start(a)
  BY <1>2, StartHandedOnInv
<1>3. CASE MainStep
  BY <1>3 DEF MainStep, CreateAllPassThroughInputs, FillPool, ReturnObjectiveValues,
              ScheduleInv, AloneInv, HandedOnInv
<1>4. CASE \E w \in Workers : WorkerStep(w) \/ Fault(w)
  BY <1>4, WorkerStepHandedOnInv
<1>5. CASE Kill
  BY <1>5 DEF Kill, StopAll, HandedOnInv
<1>6. CASE UNCHANGED vars
  BY <1>6, QuietHandedOnInv DEF vars, disk, files, shared, main, worker, task
<1> QED
  BY <1>1, <1>2, <1>3, <1>4, <1>5, <1>6 DEF Next

(* Beside the main process nobody works on linked subproblems.             *)
LEMMA LinkedAlone ==
  ASSUME WorkInv, ScheduleInv, Linked, NEW w \in Workers, pc[w] # "next",
         NEW v \in Workers, v # w
  PROVE  phase # "idle" /\ pc[v] = "next"
<1>1. mine[w] # {} /\ phase = "sequential"
  BY DEF WorkInv, WorkerHolds, Distribution, ScheduleInv, AloneInv, TypeOK, MainTypeOK
<1>2. mine[v] = {}
  BY <1>1 DEF ScheduleInv, AloneInv
<1> QED
  BY <1>1, <1>2 DEF WorkInv, WorkerHolds

LEMMA NextLinkedState ==
  ASSUME WorkInv, ScheduleInv, HandedOnInv, LinkedStateCurrent, [Next]_vars
  PROVE  LinkedStateCurrent'
<1> SUFFICES ASSUME NEW w \in Workers, pc'[w] = "built", HasPredecessor(sub'[w]),
                    NEW x, x = <<sub'[w] - 1, stage'[w]>>, termRun'[x] = run'
             PROVE  /\ term'[x] # "infeasible"
                    /\ term'[x] \in Solved /\ args'.export => linkedUsed'[w] = run'
  BY DEF LinkedStateCurrent, HasPredecessor
<1>1. Linked
  BY DEF HasPredecessor
<1>2. CASE RunOptimizationForSubproblemStage(w) /\ ~Raise(w)
  <2>1. PICK t \in Stages :
          /\ AtStage(w, t) /\ stage'[w] = t /\ sub'[w] = sub[w]
          /\ HasPredecessor(sub[w]) => linkedUsed'[w] = linkedIn[<<sub[w], t>>]
    BY <1>2, BuildStage
  <2>2. UNCHANGED <<term, termRun, run, args>>
    BY <1>2, BuildStage
  <2>3. sub[w] \in Subs /\ pc[w] = "stage"
    BY <2>1 DEF AtStage, WorkInv, WorkerHolds, TypeOK, TaskTypeOK
  <2>4. PICK r \in Subs : r + 1 = sub[w]
    BY <2>1 DEF HasPredecessor
  <2>5. x = <<r, t>> /\ x \in Pairs /\ NextPair(x) = <<sub[w], t>>
        /\ NextPair(x) \in Pairs
    <3>1. r \in Nat /\ sub[w] - 1 = r
      BY <2>4, ScenarioAssumption DEF ScenarioAssumption
    <3> QED
      BY <2>1, <2>3, <2>4, <3>1 DEF Pairs, NextPair
  <2>6. phase # "idle"
    BY <2>3 DEF WorkInv, WorkerHolds, Distribution
  <2>7. \A v \in Workers : pc[v] \notin {"noresults", "export"}
    BY <1>1, <2>3, LinkedAlone
  <2>8. HandedOn(x)
    BY <1>1, <2>2, <2>5, <2>6, <2>7 DEF HandedOnInv
  <2> QED
    BY <2>1, <2>2, <2>5, <2>8 DEF HandedOn
<1>3. CASE ~(RunOptimizationForSubproblemStage(w) /\ ~Raise(w))
  <2>1. /\ pc[w] = "built" /\ sub'[w] = sub[w] /\ stage'[w] = stage[w]
        /\ linkedUsed'[w] = linkedUsed[w] /\ UNCHANGED <<run, args>>
        /\ \A y \in Pairs :
             \/ term'[y] = term[y] /\ termRun'[y] = termRun[y]
             \/ \E v \in Workers : v # w /\ InHand(v) /\ At(v) = y
    BY <1>3, BuiltStays
  <2>2. sub[w] \in Subs /\ stage[w] \in Stages
    BY <2>1, AtType
  <2>3. x \in Pairs
    <3>1. PICK r \in Subs : r + 1 = sub[w]
      BY <2>1 DEF HasPredecessor
    <3>2. r \in Nat /\ sub[w] - 1 = r
      BY <3>1, ScenarioAssumption DEF ScenarioAssumption
    <3> QED
      BY <2>1, <2>2, <3>1, <3>2 DEF Pairs
  <2>4. \A v \in Workers : v # w => ~InHand(v)
    BY <1>1, <2>1, LinkedAlone DEF InHand
  <2>5. term'[x] = term[x] /\ termRun'[x] = termRun[x]
    BY <2>1, <2>3, <2>4
  <2> QED
    BY <2>1, <2>5 DEF LinkedStateCurrent
<1> QED
  BY <1>2, <1>3

(* A linked subproblem is never built after its predecessor turned out     *)
(* infeasible in the same run, and after one with results starts from the  *)
(* end state that this run has just written (LinkToNextSubproblem), for    *)
(* any number of subproblems and whatever earlier runs left behind.        *)
THEOREM LinkedStateIsCurrent == Spec => []LinkedStateCurrent
<1>1. Init => HandedOnInv /\ LinkedStateCurrent
  BY DEF Init, HandedOnInv, LinkedStateCurrent
<1>2. Spec => []HandedOnInv
  BY <1>1, NextHandedOnInv, FilesInvariant, ScheduleInvariant, PTL DEF Spec
<1>3. WorkInv /\ ScheduleInv /\ HandedOnInv /\ LinkedStateCurrent /\ [Next]_vars
        => LinkedStateCurrent'
  BY NextLinkedState
<1> QED
  BY <1>1, <1>2, <1>3, FilesInvariant, ScheduleInvariant, PTL DEF Spec
=============================================================================
