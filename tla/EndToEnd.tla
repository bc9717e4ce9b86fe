------------------------------ MODULE EndToEnd ------------------------------
(***************************************************************************)
(* gridpath_run_e2e: gridpath/run_end_to_end.py.  One row of the scenarios *)
(* table, the processes that run that scenario end to end and record their *)
(* progress in it, and the write lock of the SQLite database, which a      *)
(* process may wait for in vain (db/common_functions.py) and which its own *)
(* connections contend for too.                                            *)
(***************************************************************************)
EXTENDS Naturals

CONSTANTS
  Runs,          \* processes of run_end_to_end.py for the scenario
  NamedRuns,     \* those given --scenario, not --scenario_id alone
  NoRun,         \* no process
  Plans,         \* the sets of steps the command lines leave
  Others,        \* TRUE: other programs take the write lock now and then
  MaxAttempts,   \* max_attempts of spin_on_database_lock
  Faults         \* subset of {"raise", "exit", "busy", "signal", "kill"}

Steps == {"get_inputs", "run_scenario", "import_results", "process_results"}
WritingSteps == {"import_results", "process_results"}

ASSUME EndToEndAssumption ==
  /\ NamedRuns \subseteq Runs /\ NoRun \notin Runs
  /\ Plans \subseteq SUBSET Steps
  /\ Others \in BOOLEAN
  /\ MaxAttempts \in Nat \ {0}

VARIABLES
  row,      \* the scenario's row, as committed
  lock,     \* <<owner, connection>> of the open write transaction
  pc,       \* where the main program of each process is
  handler,  \* where its signal handler is
  todo,     \* the steps it has yet to do
  tx,       \* where its current step is with its database transaction
  inQueue,  \* queue_order_id as it read it: not NULL
  result,   \* the status it is going to record
  tries,    \* attempts its current statement has made
  missed    \* whether it gave up on an update

vars == <<row, lock, pc, handler, todo, tx, inQueue, result, tries, missed>>

------------------------------------------------------------------------------
Free == <<NoRun, "none">>
OtherLock == <<NoRun, "other">>

(* run_status_id: mod_run_status_types.csv.                                *)
NotRun == 0
Running == 1
Complete == 2
RunError == 3
RunStopped == 4
InQueue == 5

Updates == {"mark", "pid", "dequeue", "final", "end"}
Over == {"done", "stopped", "gone"}

Row == [status : 0..5, queued : BOOLEAN, pid : Runs \cup {NoRun},
        end : Runs \cup {NoRun}]

(* The order in which they are done.                                       *)
Rank(s) == CASE s = "get_inputs" -> 1 [] s = "run_scenario" -> 2
             [] s = "import_results" -> 3 [] s = "process_results" -> 4

IsNext(p, s) == s \in todo[p] /\ \A u \in todo[p] : Rank(s) <= Rank(u)

NextPc == [mark |-> "pid", pid |-> "steps", dequeue |-> "final",
           final |-> "end", end |-> "done"]

(* Bug: the end time is recorded whoever runs the scenario now.            *)
NewRow_AnyPid(p, u) ==
  CASE u = "mark"    -> [row EXCEPT !.status = Running]
    [] u = "pid"     -> IF p \in NamedRuns THEN [row EXCEPT !.pid = p] ELSE row
    [] u = "dequeue" -> [row EXCEPT !.queued = FALSE]
    [] u = "final"   -> [row EXCEPT !.status = result[p]]
    [] u = "end"     -> [row EXCEPT !.end = p]

(* What an UPDATE makes of the row.  The process id is recorded under the  *)
(* --scenario argument, NULL when the run was given an id; the end time    *)
(* where the process id matches.                                           *)
NewRow(p, u) ==
  CASE u = "mark"    -> [row EXCEPT !.status = Running]
    [] u = "pid"     -> IF p \in NamedRuns THEN [row EXCEPT !.pid = p] ELSE row
    [] u = "dequeue" -> [row EXCEPT !.queued = FALSE]
    [] u = "final"   -> [row EXCEPT !.status = result[p]]
    [] u = "end"     -> IF row.pid = p THEN [row EXCEPT !.end = p] ELSE row

Alive(p) == pc[p] \notin Over \cup {"off"}

(* The main program runs: no signal handler has interrupted it.            *)
InMain(p) == Alive(p) /\ handler[p] = "off"

------------------------------------------------------------------------------
Init ==
  /\ \E q \in BOOLEAN : row = [status |-> IF q THEN InQueue ELSE NotRun,
                             queued |-> q, pid |-> NoRun, end |-> NoRun]
  /\ lock = Free
  /\ pc = [p \in Runs |-> "off"] /\ handler = [p \in Runs |-> "off"]
  /\ todo = [p \in Runs |-> {}] /\ tx = [p \in Runs |-> "none"]
  /\ inQueue = [p \in Runs |-> FALSE] /\ result = [p \in Runs |-> NotRun]
  /\ tries = [p \in Runs |-> 0] /\ missed = [p \in Runs |-> FALSE]

(* Programs outside this module take the lock and release it.              *)
OtherTakesLock ==
  /\ Others /\ lock = Free
  /\ lock' = OtherLock
  /\ UNCHANGED <<row, pc, handler, todo, tx, inQueue, result, tries, missed>>

OtherReleasesLock ==
  /\ lock = OtherLock
  /\ lock' = Free
  /\ UNCHANGED <<row, pc, handler, todo, tx, inQueue, result, tries, missed>>

------------------------------------------------------------------------------
(* The main program.                                                       *)

(* Which steps are skipped is settled by the command line.                 *)
Start(p) ==
  /\ pc[p] = "off"
  /\ \E plan \in Plans : todo' = [todo EXCEPT ![p] = plan]
  /\ pc' = [pc EXCEPT ![p] = "check"]
  /\ UNCHANGED <<row, lock, handler, tx, inQueue, result, tries, missed>>

CheckIfInQueue(p) ==
  /\ InMain(p) /\ pc[p] = "check"
  /\ inQueue' = [inQueue EXCEPT ![p] = row.queued]
  /\ pc' = [pc EXCEPT ![p] = "mark"]
  /\ UNCHANGED <<row, lock, handler, todo, tx, result, tries, missed>>

(* Execute a statement: the transaction and the lock are one's own.        *)
TakeLock(p, connection) ==
  /\ lock = Free
  /\ lock' = <<p, connection>>
  /\ tries' = [tries EXCEPT ![p] = 0]

(* The transaction that a process has open is rolled back.                 *)
Rollback(p) == lock' = IF lock[1] = p THEN Free ELSE lock

(* A process that ends takes what it knew and its connections with it.     *)
Ends(p, how) ==
  /\ pc' = [pc EXCEPT ![p] = how] /\ handler' = [handler EXCEPT ![p] = "off"]
  /\ todo' = [todo EXCEPT ![p] = {}] /\ tx' = [tx EXCEPT ![p] = "none"]
  /\ inQueue' = [inQueue EXCEPT ![p] = FALSE]
  /\ result' = [result EXCEPT ![p] = NotRun] /\ tries' = [tries EXCEPT ![p] = 0]
  /\ Rollback(p)
  /\ UNCHANGED <<row, missed>>

Update(p) ==
  /\ InMain(p) /\ pc[p] \in Updates /\ (pc[p] = "dequeue" => inQueue[p])
  /\ TakeLock(p, "main")
  /\ UNCHANGED <<row, pc, handler, todo, tx, inQueue, result, missed>>

Commit(p) ==
  /\ InMain(p) /\ lock = <<p, "main">>
  /\ row' = NewRow(p, pc[p]) /\ lock' = Free
  /\ pc' = [pc EXCEPT ![p] = NextPc[pc[p]]]
  /\ UNCHANGED <<handler, todo, tx, inQueue, result, tries, missed>>

(* Bug: nothing to remove from the queue, so nothing to record either.     *)
NotQueued_NoStatus(p) ==
  /\ InMain(p) /\ pc[p] = "dequeue" /\ ~inQueue[p]
  /\ pc' = [pc EXCEPT ![p] = "end"]
  /\ UNCHANGED <<row, lock, handler, todo, tx, inQueue, result, tries, missed>>

NotQueued(p) ==
  /\ InMain(p) /\ pc[p] = "dequeue" /\ ~inQueue[p]
  /\ pc' = [pc EXCEPT ![p] = "final"]
  /\ UNCHANGED <<row, lock, handler, todo, tx, inQueue, result, tries, missed>>

(* The last of the attempts.                                               *)
LastAttempt(p) == tries[p] + 1 = MaxAttempts /\ tries' = [tries EXCEPT ![p] = 0]

(* Bug: the attempts are not counted.                                      *)
AnotherAttempt_Uncounted(p) == tries[p] + 1 < MaxAttempts /\ UNCHANGED tries

(* Bug: one attempt too many.                                              *)
AnotherAttempt_OneMore(p) ==
  /\ tries[p] < MaxAttempts
  /\ tries' = [tries EXCEPT ![p] = @ + 1]

AnotherAttempt(p) ==
  /\ tries[p] + 1 < MaxAttempts
  /\ tries' = [tries EXCEPT ![p] = @ + 1]

(* spin_on_database_lock: i never equals max_attempts, so that the loop    *)
(* ends without executing the statement and without exiting; the commit    *)
(* that follows commits nothing.  After the last update the process ends.  *)
Spin(p) ==
  /\ InMain(p) /\ pc[p] \in Updates /\ (pc[p] = "dequeue" => inQueue[p])
  /\ lock \notin {Free, <<p, "main">>}
  /\ \/ AnotherAttempt(p) /\ UNCHANGED <<lock, pc, missed>>
     \/ /\ LastAttempt(p)
        /\ missed' = [missed EXCEPT ![p] = TRUE]
        /\ pc' = [pc EXCEPT ![p] = NextPc[pc[p]]]
        /\ IF pc[p] = "end" THEN Rollback(p) ELSE UNCHANGED lock
  /\ UNCHANGED <<row, handler, todo, tx, inQueue, result>>

(* A step that writes to the database has a connection of its own.         *)
StepWrites(p) ==
  /\ InMain(p) /\ pc[p] = "steps" /\ tx[p] = "none"
  /\ \E s \in WritingSteps : IsNext(p, s)
  /\ TakeLock(p, "step")
  /\ tx' = [tx EXCEPT ![p] = "open"]
  /\ UNCHANGED <<row, pc, handler, todo, inQueue, result, missed>>

StepSpins(p) ==
  /\ InMain(p) /\ pc[p] = "steps" /\ tx[p] = "none"
  /\ \E s \in WritingSteps : IsNext(p, s)
  /\ lock \notin {Free, <<p, "step">>}
  /\ \/ AnotherAttempt(p) /\ UNCHANGED <<tx, missed>>
     \/ /\ LastAttempt(p)
        /\ missed' = [missed EXCEPT ![p] = TRUE]
        /\ tx' = [tx EXCEPT ![p] = "over"]
  /\ UNCHANGED <<row, lock, pc, handler, todo, inQueue, result>>

(* Bug: the step leaves its connection open.                               *)
StepCommits_LeftOpen(p) ==
  /\ InMain(p) /\ lock = <<p, "step">> /\ tx[p] = "open" /\ pc[p] = "steps"
  /\ tx' = [tx EXCEPT ![p] = "over"]
  /\ UNCHANGED <<row, lock, pc, handler, todo, inQueue, result, tries, missed>>

StepCommits(p) ==
  /\ InMain(p) /\ lock = <<p, "step">> /\ tx[p] = "open" /\ pc[p] = "steps"
  /\ lock' = Free
  /\ tx' = [tx EXCEPT ![p] = "over"]
  /\ UNCHANGED <<row, pc, handler, todo, inQueue, result, tries, missed>>

StepDone(p) ==
  /\ InMain(p) /\ pc[p] = "steps"
  /\ \E s \in Steps :
       /\ IsNext(p, s) /\ (s \in WritingSteps => tx[p] = "over")
       /\ todo' = [todo EXCEPT ![p] = @ \ {s}]
  /\ tx' = [tx EXCEPT ![p] = "none"]
  /\ UNCHANGED <<row, lock, pc, handler, inQueue, result, tries, missed>>

StepsDone(p) ==
  /\ InMain(p) /\ pc[p] = "steps" /\ todo[p] = {}
  /\ result' = [result EXCEPT ![p] = Complete]
  /\ pc' = [pc EXCEPT ![p] = "dequeue"]
  /\ UNCHANGED <<row, lock, handler, todo, tx, inQueue, tries, missed>>

MainStep(p) ==
  \/ CheckIfInQueue(p) \/ Update(p) \/ Commit(p) \/ NotQueued(p) \/ Spin(p)
  \/ StepWrites(p) \/ StepSpins(p) \/ StepCommits(p) \/ StepDone(p) \/ StepsDone(p)

------------------------------------------------------------------------------
(* The signal handler, which runs in the middle of the main program.       *)

Signal(p) ==
  /\ "signal" \in Faults /\ InMain(p)
  /\ handler' = [handler EXCEPT ![p] = "check"]
  /\ tries' = [tries EXCEPT ![p] = 0]
  /\ UNCHANGED <<row, lock, pc, todo, tx, inQueue, result, missed>>

HandlerChecksQueue(p) ==
  /\ Alive(p) /\ handler[p] = "check"
  /\ handler' = [handler EXCEPT ![p] = IF row.queued THEN "dequeue" ELSE "status"]
  /\ UNCHANGED <<row, lock, pc, todo, tx, inQueue, result, tries, missed>>

HandlerRow(p) == IF handler[p] = "dequeue" THEN [row EXCEPT !.queued = FALSE]
                 ELSE [row EXCEPT !.status = RunStopped]

AfterHandler(p) == IF handler[p] = "dequeue" THEN "status" ELSE "exit"

HandlerUpdates(p) ==
  /\ Alive(p) /\ handler[p] \in {"dequeue", "status"}
  /\ TakeLock(p, "handler")
  /\ UNCHANGED <<row, pc, handler, todo, tx, inQueue, result, missed>>

HandlerCommits(p) ==
  /\ Alive(p) /\ lock = <<p, "handler">>
  /\ row' = HandlerRow(p) /\ lock' = Free
  /\ handler' = [handler EXCEPT ![p] = AfterHandler(p)]
  /\ UNCHANGED <<pc, todo, tx, inQueue, result, tries, missed>>

(* The lock it waits for may be that of the program it interrupted.        *)
HandlerSpins(p) ==
  /\ Alive(p) /\ handler[p] \in {"dequeue", "status"}
  /\ lock \notin {Free, <<p, "handler">>}
  /\ \/ AnotherAttempt(p) /\ UNCHANGED <<handler, missed>>
     \/ /\ LastAttempt(p)
        /\ missed' = [missed EXCEPT ![p] = TRUE]
        /\ handler' = [handler EXCEPT ![p] = AfterHandler(p)]
  /\ UNCHANGED <<row, lock, pc, todo, tx, inQueue, result>>

HandlerExits(p) == Alive(p) /\ handler[p] = "exit" /\ Ends(p, "stopped")

HandlerStep(p) ==
  \/ HandlerChecksQueue(p) \/ HandlerUpdates(p) \/ HandlerCommits(p)
  \/ HandlerSpins(p) \/ HandlerExits(p)

------------------------------------------------------------------------------
(* What may go wrong.                                                      *)

(* Bug: a step that failed is taken for done.                              *)
StepRaises_Complete(p) ==
  /\ "raise" \in Faults /\ InMain(p) /\ pc[p] = "steps" /\ todo[p] # {}
  /\ result' = [result EXCEPT ![p] = Complete]
  /\ pc' = [pc EXCEPT ![p] = "dequeue"]
  /\ tries' = [tries EXCEPT ![p] = 0]
  /\ Rollback(p)
  /\ UNCHANGED <<row, handler, todo, tx, inQueue, missed>>

(* except Exception: while the exception is handled its traceback keeps    *)
(* the step's connection, and the transaction, open.  Only to_sql rolls    *)
(* back before it raises.                                                  *)
StepRaises(p) ==
  /\ "raise" \in Faults /\ InMain(p) /\ pc[p] = "steps" /\ todo[p] # {}
  /\ result' = [result EXCEPT ![p] = RunError]
  /\ pc' = [pc EXCEPT ![p] = "dequeue"]
  /\ tries' = [tries EXCEPT ![p] = 0]
  /\ UNCHANGED lock \/ Rollback(p)
  /\ UNCHANGED <<row, handler, todo, tx, inQueue, missed>>

(* SystemExit, by sys.exit() in a step or on a database error that is no   *)
(* lock, is no Exception.                                                  *)
StepExits(p) == "exit" \in Faults /\ InMain(p) /\ pc[p] # "check" /\ Ends(p, "gone")

(* The commit is outside the loop of attempts: with a reader in the way it *)
(* raises, in the main program where nothing catches it.                   *)
CommitRaises(p) == "busy" \in Faults /\ InMain(p) /\ lock = <<p, "main">> /\ Ends(p, "gone")

(* In the handler, it comes up in the program that was interrupted.        *)
HandlerCommitRaises(p) ==
  /\ "busy" \in Faults /\ Alive(p) /\ lock = <<p, "handler">>
  /\ IF pc[p] = "steps" /\ todo[p] # {}
     THEN /\ result' = [result EXCEPT ![p] = RunError]
          /\ pc' = [pc EXCEPT ![p] = "dequeue"]
          /\ handler' = [handler EXCEPT ![p] = "off"]
          /\ Rollback(p)
          /\ UNCHANGED <<row, todo, tx, inQueue, tries, missed>>
     ELSE Ends(p, "gone")

Kill(p) == "kill" \in Faults /\ Alive(p) /\ Ends(p, "gone")

Fault(p) ==
  \/ StepRaises(p) \/ StepExits(p) \/ CommitRaises(p) \/ HandlerCommitRaises(p)
  \/ Kill(p)

Next ==
  \/ OtherTakesLock \/ OtherReleasesLock
  \/ \E p \in Runs : Start(p) \/ MainStep(p) \/ Signal(p) \/ HandlerStep(p) \/ Fault(p)

Spec == Init /\ [][Next]_vars

(* A process that can go on does; nothing makes the others give the lock   *)
(* back.                                                                   *)
Fairness == \A p \in Runs : WF_vars(MainStep(p)) /\ WF_vars(HandlerStep(p))

FairSpec == Spec /\ Fairness

------------------------------------------------------------------------------
(* Properties.                                                             *)

(* Every variable has its type; a statement never makes more attempts than *)
(* it may.                                                                 *)
TypeOK ==
  /\ row \in Row
  /\ lock \in {Free, OtherLock} \cup (Runs \X {"main", "step", "handler"})
  /\ pc \in [Runs -> {"off", "check", "steps"} \cup Updates \cup Over]
  /\ handler \in [Runs -> {"off", "check", "dequeue", "status", "exit"}]
  /\ todo \in [Runs -> SUBSET Steps]
  /\ tx \in [Runs -> {"none", "open", "over"}]
  /\ inQueue \in [Runs -> BOOLEAN]
  /\ result \in [Runs -> 0..5]
  /\ tries \in [Runs -> 0..(MaxAttempts - 1)]
  /\ missed \in [Runs -> BOOLEAN]

(* Every run comes to an end, even when its signal handler or the handling *)
(* of its failure waits for a lock that its own process holds, and even if *)
(* another program never gives the lock back.                              *)
RunEnds == \A p \in Runs : pc[p] = "check" ~> pc[p] \in Over

(* The run whose process id the row shows, unless it gave up an update,    *)
(* has its end time there when and only when it is done: neither the end   *)
(* of an earlier run, which may come after the later one took the row, nor *)
(* a signal, a failure or the loss of the lock gives it one too soon, and  *)
(* nobody takes it away.                                                   *)
EndTimeOfLastRecorded ==
  \A p \in Runs : row.pid = p /\ ~missed[p] => (row.end = p <=> pc[p] = "done")

(* The lock a run holds in one of its connections never outlasts the use   *)
(* of that connection, but for a step that failed or was interrupted.      *)
OwnLockOnlyAfterFailure ==
  \A p \in Runs : lock = <<p, "step">> /\ pc[p] # "steps" => result[p] = RunError

(* "complete" is only ever written by a run that did all its steps.        *)
CompleteMeansAllSteps ==
  [][row'.status = Complete /\ row.status # Complete =>
       \E p \in Runs : lock = <<p, "main">> /\ todo[p] = {} /\ tx[p] = "none"]_vars

(* A run that had the scenario to itself and got every lock it wanted      *)
(* leaves the row as it must: its status, out of the queue, its end time.  *)
EndedIsRecorded ==
  [][\A p \in Runs :
       /\ pc[p] # "done" /\ pc'[p] = "done" /\ ~missed'[p]
       /\ \A q \in Runs \ {p} : pc[q] = "off"
       => /\ row'.status = result[p] /\ ~row'.queued
          /\ p \in NamedRuns => row'.end = p]_vars
=============================================================================
