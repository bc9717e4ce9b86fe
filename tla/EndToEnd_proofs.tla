-------------------------- MODULE EndToEnd_proofs ---------------------------
(***************************************************************************)
(* Proofs about EndToEnd, for any number of runs of a scenario, any number *)
(* of attempts and any faults: who may hold the write lock, what a row     *)
(* that says "complete" stands for, whose end time it shows, and what a    *)
(* run that had the scenario to itself leaves in it.                       *)
(***************************************************************************)
EXTENDS EndToEnd, TLAPS

(* A connection has the lock only while the program it belongs to is using *)
(* it; that of a failed step has it until the process is over.             *)
LockInv ==
  \A p \in Runs :
    /\ lock = <<p, "main">> => pc[p] \in Updates
    /\ lock = <<p, "step">> =>
         /\ Alive(p)
         /\ (pc[p] = "steps" /\ tx[p] = "open") \/ result[p] = RunError
    /\ lock = <<p, "handler">> => Alive(p) /\ handler[p] \in {"dequeue", "status"}

(* A run has a result from the end of its steps on, and the result is      *)
(* "complete" only with no step left to do.                                *)
ResultInv ==
  \A p \in Runs :
    /\ pc[p] \in {"off", "check", "mark", "pid", "steps"} => result[p] = NotRun
    /\ pc[p] \in {"dequeue", "final", "end"} => result[p] \in {Complete, RunError}
    /\ pc[p] \in {"off", "check", "mark", "pid"} => tx[p] = "none"
    /\ pc[p] = "steps" /\ tx[p] # "none" => todo[p] # {} /\ todo[p] \subseteq WritingSteps
    /\ result[p] = Complete => todo[p] = {} /\ tx[p] = "none"

(* The others have not begun, and no update was given up.                  *)
Alone(p) == ~missed[p] /\ \A q \in Runs \ {p} : pc[q] = "off"

(* What the row shows of a run that is alone with the scenario.            *)
RowInv ==
  \A p \in Runs : Alone(p) =>
    /\ pc[p] \in Updates \cup {"steps"} /\ row.queued => inQueue[p]
    /\ pc[p] \in {"final", "end"} => ~row.queued
    /\ pc[p] \in {"steps", "dequeue", "final", "end"} /\ p \in NamedRuns => row.pid = p
    /\ pc[p] = "end" /\ handler[p] # "exit" => row.status = result[p]

IInv == TypeOK /\ LockInv /\ ResultInv /\ RowInv
-------------------------------------------------------------------------------
(* What an action writes into the row is a row.                            *)
LEMMA RowTyped ==
  ASSUME TypeOK, NEW p \in Runs
  PROVE  /\ \A u \in Updates : NewRow(p, u) \in Row
         /\ HandlerRow(p) \in Row
<1> USE DEF TypeOK, Row
<1>1. ASSUME NEW u \in Updates PROVE NewRow(p, u) \in Row
  <2>1. CASE u = "mark"
    BY <2>1 DEF NewRow, Running
  <2>2. CASE u = "pid"
    BY <2>2 DEF NewRow
  <2>3. CASE u = "dequeue"
    BY <2>3 DEF NewRow
  <2>4. CASE u = "final"
    BY <2>4 DEF NewRow
  <2>5. CASE u = "end"
    BY <2>5 DEF NewRow
  <2> QED
    BY <2>1, <2>2, <2>3, <2>4, <2>5 DEF Updates
<1>2. HandlerRow(p) \in Row
  <2>1. CASE handler[p] = "dequeue"
    BY <2>1 DEF HandlerRow
  <2>2. CASE handler[p] # "dequeue"
    BY <2>2 DEF HandlerRow, RunStopped
  <2> QED
    BY <2>1, <2>2
<1> QED
  BY <1>1, <1>2

LEMMA NextPcTyped ==
  \A u \in Updates : NextPc[u] \in Updates \cup {"steps", "done"}
BY DEF NextPc, Updates

LEMMA Attempts ==
  ASSUME TypeOK, NEW p \in Runs, AnotherAttempt(p) \/ LastAttempt(p)
  PROVE  tries' \in [Runs -> 0 .. (MaxAttempts - 1)]
<1> USE EndToEndAssumption DEF TypeOK
<1>1. CASE AnotherAttempt(p)
  BY <1>1 DEF AnotherAttempt
<1>2. CASE LastAttempt(p)
  BY <1>2 DEF LastAttempt
<1> QED
  BY <1>1, <1>2

LEMMA EndsTyped ==
  ASSUME TypeOK, NEW p \in Runs, NEW how \in Over, Ends(p, how)
  PROVE  TypeOK'
BY EndToEndAssumption DEF TypeOK, Ends, Rollback, Free, NotRun, Row

(* The type invariant.                                                     *)
LEMMA TypeStep ==
  ASSUME TypeOK, LockInv, [Next]_vars
  PROVE  TypeOK'
<1> USE EndToEndAssumption DEF TypeOK, Row, Updates, Over, Free, OtherLock,
        NotRun, Running, Complete, RunError, RunStopped
<1>1. CASE OtherTakesLock \/ OtherReleasesLock
  BY <1>1 DEF OtherTakesLock, OtherReleasesLock
<1>2. ASSUME NEW p \in Runs, Start(p) PROVE TypeOK'
  BY <1>2 DEF Start
<1>3. ASSUME NEW p \in Runs, CheckIfInQueue(p) PROVE TypeOK'
  BY <1>3 DEF CheckIfInQueue, InMain, Alive
<1>4. ASSUME NEW p \in Runs, Update(p) PROVE TypeOK'
  BY <1>4 DEF Update, InMain, Alive, TakeLock
<1>5. ASSUME NEW p \in Runs, Commit(p) PROVE TypeOK'
  <2>1. pc[p] \in Updates
    BY <1>5 DEF Commit, LockInv
  <2> QED
    BY <1>5, <2>1, RowTyped, NextPcTyped DEF Commit
<1>6. ASSUME NEW p \in Runs, NotQueued(p) PROVE TypeOK'
  BY <1>6 DEF NotQueued, InMain, Alive
<1>7. ASSUME NEW p \in Runs, Spin(p) PROVE TypeOK'
  <2>1. tries' \in [Runs -> 0 .. (MaxAttempts - 1)]
    BY <1>7, Attempts DEF Spin
  <2>2. lock' \in {lock, Free} /\ UNCHANGED <<row, handler, todo, tx, inQueue, result>>
    BY <1>7 DEF Spin, Rollback
  <2>3. missed' \in [Runs -> BOOLEAN]
    BY <1>7 DEF Spin
  <2>4. pc' = pc \/ (pc' = [pc EXCEPT ![p] = NextPc[pc[p]]] /\ pc[p] \in Updates)
    BY <1>7 DEF Spin
  <2> QED
    BY <2>1, <2>2, <2>3, <2>4, NextPcTyped
<1>8. ASSUME NEW p \in Runs, StepWrites(p) PROVE TypeOK'
  BY <1>8 DEF StepWrites, InMain, Alive, TakeLock
<1>9. ASSUME NEW p \in Runs, StepSpins(p) PROVE TypeOK'
  <2>1. tries' \in [Runs -> 0 .. (MaxAttempts - 1)]
    BY <1>9, Attempts DEF StepSpins
  <2> QED
    BY <1>9, <2>1 DEF StepSpins
<1>10. ASSUME NEW p \in Runs, StepCommits(p) PROVE TypeOK'
  BY <1>10 DEF StepCommits, InMain, Alive
<1>11. ASSUME NEW p \in Runs, StepDone(p) PROVE TypeOK'
  BY <1>11 DEF StepDone, InMain, Alive
<1>12. ASSUME NEW p \in Runs, StepsDone(p) PROVE TypeOK'
  BY <1>12 DEF StepsDone, InMain, Alive
<1>13. ASSUME NEW p \in Runs, Signal(p) PROVE TypeOK'
  BY <1>13 DEF Signal, InMain, Alive
<1>14. ASSUME NEW p \in Runs, HandlerChecksQueue(p) PROVE TypeOK'
  BY <1>14 DEF HandlerChecksQueue, Alive
<1>15. ASSUME NEW p \in Runs, HandlerUpdates(p) PROVE TypeOK'
  BY <1>15 DEF HandlerUpdates, Alive, TakeLock
<1>16. ASSUME NEW p \in Runs, HandlerCommits(p) PROVE TypeOK'
  BY <1>16, RowTyped DEF HandlerCommits, AfterHandler
<1>17. ASSUME NEW p \in Runs, HandlerSpins(p) PROVE TypeOK'
  <2>1. tries' \in [Runs -> 0 .. (MaxAttempts - 1)]
    BY <1>17, Attempts DEF HandlerSpins
  <2> QED
    BY <1>17, <2>1 DEF HandlerSpins, AfterHandler
<1>18. ASSUME NEW p \in Runs, HandlerExits(p) PROVE TypeOK'
  BY <1>18, EndsTyped DEF HandlerExits
<1>19. ASSUME NEW p \in Runs, StepRaises(p) PROVE TypeOK'
  BY <1>19 DEF StepRaises, InMain, Alive, Rollback
<1>20. ASSUME NEW p \in Runs, StepExits(p) PROVE TypeOK'
  BY <1>20, EndsTyped DEF StepExits
<1>21. ASSUME NEW p \in Runs, CommitRaises(p) PROVE TypeOK'
  BY <1>21, EndsTyped DEF CommitRaises
<1>22. ASSUME NEW p \in Runs, HandlerCommitRaises(p) PROVE TypeOK'
  <2>1. CASE Ends(p, "gone")
    BY <2>1, EndsTyped
  <2>2. CASE ~Ends(p, "gone")
    BY <1>22, <2>2 DEF HandlerCommitRaises, Rollback
  <2> QED
    BY <2>1, <2>2
<1>23. ASSUME NEW p \in Runs, Kill(p) PROVE TypeOK'
  BY <1>23, EndsTyped DEF Kill
<1>24. CASE UNCHANGED vars
  BY <1>24 DEF vars
<1> QED
  BY <1>1, <1>2, <1>3, <1>4, <1>5, <1>6, <1>7, <1>8, <1>9, <1>10, <1>11, <1>12,
     <1>13, <1>14, <1>15, <1>16, <1>17, <1>18, <1>19, <1>20, <1>21, <1>22,
     <1>23, <1>24 DEF Next, MainStep, HandlerStep, Fault

-------------------------------------------------------------------------------
(* The rest of the inductive invariant.                                    *)

(* Nothing but writing steps follow a writing step.                        *)
LEMMA WritingLast ==
  ASSUME TypeOK, NEW p \in Runs, NEW s \in WritingSteps, IsNext(p, s)
  PROVE  todo[p] # {} /\ todo[p] \subseteq WritingSteps
BY DEF TypeOK, IsNext, Rank, Steps, WritingSteps

LEMMA LockStep ==
  ASSUME TypeOK, LockInv, ResultInv, [Next]_vars
  PROVE  LockInv'
<1> USE DEF TypeOK, LockInv, InMain, Alive, Free, OtherLock, Updates, Over
<1>1. CASE OtherTakesLock \/ OtherReleasesLock
  BY <1>1 DEF OtherTakesLock, OtherReleasesLock
<1>2. ASSUME NEW p \in Runs, Start(p) PROVE LockInv'
  BY <1>2 DEF Start
<1>3. ASSUME NEW p \in Runs, CheckIfInQueue(p) PROVE LockInv'
  BY <1>3 DEF CheckIfInQueue
<1>4. ASSUME NEW p \in Runs, Update(p) PROVE LockInv'
  BY <1>4 DEF Update, TakeLock
<1>5. ASSUME NEW p \in Runs, Commit(p) PROVE LockInv'
  BY <1>5 DEF Commit, NewRow, NextPc
<1>6. ASSUME NEW p \in Runs, NotQueued(p) PROVE LockInv'
  BY <1>6 DEF NotQueued
<1>7. ASSUME NEW p \in Runs, Spin(p) PROVE LockInv'
  BY <1>7 DEF Spin, AnotherAttempt, LastAttempt, Rollback, NextPc
<1>8. ASSUME NEW p \in Runs, StepWrites(p) PROVE LockInv'
  BY <1>8 DEF StepWrites, TakeLock
<1>9. ASSUME NEW p \in Runs, StepSpins(p) PROVE LockInv'
  BY <1>9 DEF StepSpins
<1>10. ASSUME NEW p \in Runs, StepCommits(p) PROVE LockInv'
  BY <1>10 DEF StepCommits
<1>11. ASSUME NEW p \in Runs, StepDone(p) PROVE LockInv'
  <2>1. lock # <<p, "step">>
    <3>1. SUFFICES ASSUME lock = <<p, "step">> PROVE FALSE
      OBVIOUS
    <3>2. pc[p] = "steps" /\ result[p] = NotRun
      BY <1>11 DEF StepDone, ResultInv
    <3>3. tx[p] = "open"
      BY <3>1, <3>2 DEF NotRun, RunError
    <3>4. todo[p] \subseteq WritingSteps
      BY <3>2, <3>3 DEF ResultInv
    <3> QED
      BY <1>11, <3>3, <3>4 DEF StepDone, IsNext
  <2> QED
    BY <1>11, <2>1 DEF StepDone
<1>12. ASSUME NEW p \in Runs, StepsDone(p) PROVE LockInv'
  <2>1. lock # <<p, "step">>
    BY <1>12 DEF StepsDone, ResultInv, NotRun, RunError
  <2> QED
    BY <1>12, <2>1 DEF StepsDone
<1>13. ASSUME NEW p \in Runs, Signal(p) PROVE LockInv'
  BY <1>13 DEF Signal
<1>14. ASSUME NEW p \in Runs, HandlerChecksQueue(p) PROVE LockInv'
  BY <1>14 DEF HandlerChecksQueue
<1>15. ASSUME NEW p \in Runs, HandlerUpdates(p) PROVE LockInv'
  BY <1>15 DEF HandlerUpdates, TakeLock
<1>16. ASSUME NEW p \in Runs, HandlerCommits(p) PROVE LockInv'
  BY <1>16 DEF HandlerCommits, HandlerRow, AfterHandler
<1>17. ASSUME NEW p \in Runs, HandlerSpins(p) PROVE LockInv'
  BY <1>17 DEF HandlerSpins, AfterHandler
<1>18. ASSUME NEW p \in Runs, HandlerExits(p) PROVE LockInv'
  BY <1>18 DEF HandlerExits, Ends, Rollback
<1>19. ASSUME NEW p \in Runs, StepRaises(p) PROVE LockInv'
  BY <1>19 DEF StepRaises, Rollback
<1>20. ASSUME NEW p \in Runs, StepExits(p) PROVE LockInv'
  BY <1>20 DEF StepExits, Ends, Rollback
<1>21. ASSUME NEW p \in Runs, CommitRaises(p) PROVE LockInv'
  BY <1>21 DEF CommitRaises, Ends, Rollback
<1>22. ASSUME NEW p \in Runs, HandlerCommitRaises(p) PROVE LockInv'
  BY <1>22 DEF HandlerCommitRaises, Ends, Rollback
<1>23. ASSUME NEW p \in Runs, Kill(p) PROVE LockInv'
  BY <1>23 DEF Kill, Ends, Rollback
<1>24. CASE UNCHANGED vars
  BY <1>24 DEF vars
<1> QED
  BY <1>1, <1>2, <1>3, <1>4, <1>5, <1>6, <1>7, <1>8, <1>9, <1>10, <1>11, <1>12,
     <1>13, <1>14, <1>15, <1>16, <1>17, <1>18, <1>19, <1>20, <1>21, <1>22,
     <1>23, <1>24 DEF Next, MainStep, HandlerStep, Fault

LEMMA ResultStep ==
  ASSUME TypeOK, LockInv, ResultInv, [Next]_vars
  PROVE  ResultInv'
<1> USE DEF TypeOK, ResultInv, InMain, Updates, NotRun, Complete, RunError,
        WritingSteps, Steps
<1>1. CASE OtherTakesLock \/ OtherReleasesLock
  BY <1>1 DEF OtherTakesLock, OtherReleasesLock
<1>2. ASSUME NEW p \in Runs, Start(p) PROVE ResultInv'
  BY <1>2 DEF Start
<1>3. ASSUME NEW p \in Runs, CheckIfInQueue(p) PROVE ResultInv'
  BY <1>3 DEF CheckIfInQueue
<1>4. ASSUME NEW p \in Runs, Update(p) PROVE ResultInv'
  BY <1>4 DEF Update, TakeLock
<1>5. ASSUME NEW p \in Runs, Commit(p) PROVE ResultInv'
  <2>1. pc[p] \in Updates
    BY <1>5 DEF Commit, LockInv
  <2> QED
    BY <1>5, <2>1 DEF Commit, NextPc
<1>6. ASSUME NEW p \in Runs, NotQueued(p) PROVE ResultInv'
  BY <1>6 DEF NotQueued
<1>7. ASSUME NEW p \in Runs, Spin(p) PROVE ResultInv'
  BY <1>7 DEF Spin, AnotherAttempt, LastAttempt, Rollback, NextPc
<1>8. ASSUME NEW p \in Runs, StepWrites(p) PROVE ResultInv'
  <2>1. todo[p] # {} /\ todo[p] \subseteq WritingSteps
    BY <1>8, WritingLast DEF StepWrites
  <2> QED
    BY <1>8, <2>1 DEF StepWrites
<1>9. ASSUME NEW p \in Runs, StepSpins(p) PROVE ResultInv'
  <2>1. todo[p] # {} /\ todo[p] \subseteq WritingSteps
    BY <1>9, WritingLast DEF StepSpins
  <2> QED
    BY <1>9, <2>1 DEF StepSpins
<1>10. ASSUME NEW p \in Runs, StepCommits(p) PROVE ResultInv'
  BY <1>10 DEF StepCommits
<1>11. ASSUME NEW p \in Runs, StepDone(p) PROVE ResultInv'
  BY <1>11 DEF StepDone
<1>12. ASSUME NEW p \in Runs, StepsDone(p) PROVE ResultInv'
  BY <1>12 DEF StepsDone
<1>13. ASSUME NEW p \in Runs, Signal(p) PROVE ResultInv'
  BY <1>13 DEF Signal
<1>14. ASSUME NEW p \in Runs, HandlerChecksQueue(p) PROVE ResultInv'
  BY <1>14 DEF HandlerChecksQueue
<1>15. ASSUME NEW p \in Runs, HandlerUpdates(p) PROVE ResultInv'
  BY <1>15 DEF HandlerUpdates, TakeLock
<1>16. ASSUME NEW p \in Runs, HandlerCommits(p) PROVE ResultInv'
  BY <1>16 DEF HandlerCommits, HandlerRow, AfterHandler
<1>17. ASSUME NEW p \in Runs, HandlerSpins(p) PROVE ResultInv'
  BY <1>17 DEF HandlerSpins, AfterHandler
<1>18. ASSUME NEW p \in Runs, HandlerExits(p) PROVE ResultInv'
  BY <1>18 DEF HandlerExits, Ends, Rollback
<1>19. ASSUME NEW p \in Runs, StepRaises(p) PROVE ResultInv'
  BY <1>19 DEF StepRaises, Rollback
<1>20. ASSUME NEW p \in Runs, StepExits(p) PROVE ResultInv'
  BY <1>20 DEF StepExits, Ends, Rollback
<1>21. ASSUME NEW p \in Runs, CommitRaises(p) PROVE ResultInv'
  BY <1>21 DEF CommitRaises, Ends, Rollback
<1>22. ASSUME NEW p \in Runs, HandlerCommitRaises(p) PROVE ResultInv'
  BY <1>22 DEF HandlerCommitRaises, Ends, Rollback
<1>23. ASSUME NEW p \in Runs, Kill(p) PROVE ResultInv'
  BY <1>23 DEF Kill, Ends, Rollback
<1>24. CASE UNCHANGED vars
  BY <1>24 DEF vars
<1> QED
  BY <1>1, <1>2, <1>3, <1>4, <1>5, <1>6, <1>7, <1>8, <1>9, <1>10, <1>11, <1>12,
     <1>13, <1>14, <1>15, <1>16, <1>17, <1>18, <1>19, <1>20, <1>21, <1>22,
     <1>23, <1>24 DEF Next, MainStep, HandlerStep, Fault

LEMMA RowStep ==
  ASSUME TypeOK, LockInv, ResultInv, RowInv, [Next]_vars
  PROVE  RowInv'
<1> USE DEF TypeOK, RowInv, Alone, InMain, Updates
<1>1. CASE OtherTakesLock \/ OtherReleasesLock
  BY <1>1 DEF OtherTakesLock, OtherReleasesLock
<1>2. ASSUME NEW p \in Runs, Start(p) PROVE RowInv'
  BY <1>2 DEF Start
<1>3. ASSUME NEW p \in Runs, CheckIfInQueue(p) PROVE RowInv'
  BY <1>3 DEF CheckIfInQueue
<1>4. ASSUME NEW p \in Runs, Update(p) PROVE RowInv'
  BY <1>4 DEF Update, TakeLock
<1>5. ASSUME NEW p \in Runs, Commit(p) PROVE RowInv'
  <2>1. pc[p] \in Updates
    BY <1>5 DEF Commit, LockInv
  <2>2. pc'[p] = NextPc[pc[p]] /\ pc'[p] # "off"
    BY <1>5, <2>1 DEF Commit, NextPc
  <2>3. \A q \in Runs \ {p} : ~Alone(q)'
    BY <2>2
  <2>4. SUFFICES ASSUME Alone(p)'
        PROVE  /\ pc'[p] \in Updates \cup {"steps"} /\ row'.queued => inQueue'[p]
               /\ pc'[p] \in {"final", "end"} => ~row'.queued
               /\ pc'[p] \in {"steps", "dequeue", "final", "end"} /\ p \in NamedRuns
                    => row'.pid = p
               /\ pc'[p] = "end" /\ handler'[p] # "exit" => row'.status = result'[p]
    BY <2>3
  <2>5. Alone(p)
    BY <1>5, <2>4 DEF Commit
  <2>6. row' = NewRow(p, pc[p]) /\ UNCHANGED <<handler, inQueue, result>>
    BY <1>5 DEF Commit
  <2>7. CASE pc[p] = "mark"
    BY <2>2, <2>5, <2>6, <2>7 DEF NewRow, NextPc, Row
  <2>8. CASE pc[p] = "pid"
    BY <2>2, <2>5, <2>6, <2>8 DEF NewRow, NextPc, Row
  <2>9. CASE pc[p] = "dequeue"
    BY <2>2, <2>5, <2>6, <2>9 DEF NewRow, NextPc, Row
  <2>10. CASE pc[p] = "final"
    BY <2>2, <2>5, <2>6, <2>10 DEF NewRow, NextPc, Row
  <2>11. CASE pc[p] = "end"
    BY <2>2, <2>11 DEF NextPc
  <2> QED
    BY <2>1, <2>7, <2>8, <2>9, <2>10, <2>11
<1>6. ASSUME NEW p \in Runs, NotQueued(p) PROVE RowInv'
  BY <1>6 DEF NotQueued
<1>7. ASSUME NEW p \in Runs, Spin(p) PROVE RowInv'
  BY <1>7 DEF Spin, AnotherAttempt, LastAttempt, Rollback, NextPc
<1>8. ASSUME NEW p \in Runs, StepWrites(p) PROVE RowInv'
  BY <1>8 DEF StepWrites, TakeLock
<1>9. ASSUME NEW p \in Runs, StepSpins(p) PROVE RowInv'
  BY <1>9 DEF StepSpins
<1>10. ASSUME NEW p \in Runs, StepCommits(p) PROVE RowInv'
  BY <1>10 DEF StepCommits
<1>11. ASSUME NEW p \in Runs, StepDone(p) PROVE RowInv'
  BY <1>11 DEF StepDone
<1>12. ASSUME NEW p \in Runs, StepsDone(p) PROVE RowInv'
  BY <1>12 DEF StepsDone
<1>13. ASSUME NEW p \in Runs, Signal(p) PROVE RowInv'
  BY <1>13 DEF Signal
<1>14. ASSUME NEW p \in Runs, HandlerChecksQueue(p) PROVE RowInv'
  BY <1>14 DEF HandlerChecksQueue
<1>15. ASSUME NEW p \in Runs, HandlerUpdates(p) PROVE RowInv'
  BY <1>15 DEF HandlerUpdates, TakeLock
<1>16. ASSUME NEW p \in Runs, HandlerCommits(p) PROVE RowInv'
  <2>1. pc[p] # "off" /\ handler[p] \in {"dequeue", "status"}
    BY <1>16 DEF HandlerCommits, Alive, LockInv
  <2>2. CASE handler[p] = "dequeue"
    BY <1>16, <2>1, <2>2 DEF HandlerCommits, HandlerRow, AfterHandler, Row
  <2>3. CASE handler[p] = "status"
    BY <1>16, <2>1, <2>3 DEF HandlerCommits, HandlerRow, AfterHandler, Row
  <2> QED
    BY <2>1, <2>2, <2>3
<1>17. ASSUME NEW p \in Runs, HandlerSpins(p) PROVE RowInv'
  BY <1>17 DEF HandlerSpins, AfterHandler
<1>18. ASSUME NEW p \in Runs, HandlerExits(p) PROVE RowInv'
  BY <1>18 DEF HandlerExits, Ends, Rollback
<1>19. ASSUME NEW p \in Runs, StepRaises(p) PROVE RowInv'
  BY <1>19 DEF StepRaises, Rollback
<1>20. ASSUME NEW p \in Runs, StepExits(p) PROVE RowInv'
  BY <1>20 DEF StepExits, Ends, Rollback
<1>21. ASSUME NEW p \in Runs, CommitRaises(p) PROVE RowInv'
  BY <1>21 DEF CommitRaises, Ends, Rollback
<1>22. ASSUME NEW p \in Runs, HandlerCommitRaises(p) PROVE RowInv'
  BY <1>22 DEF HandlerCommitRaises, Ends, Rollback
<1>23. ASSUME NEW p \in Runs, Kill(p) PROVE RowInv'
  BY <1>23 DEF Kill, Ends, Rollback
<1>24. CASE UNCHANGED vars
  BY <1>24 DEF vars
<1> QED
  BY <1>1, <1>2, <1>3, <1>4, <1>5, <1>6, <1>7, <1>8, <1>9, <1>10, <1>11, <1>12,
     <1>13, <1>14, <1>15, <1>16, <1>17, <1>18, <1>19, <1>20, <1>21, <1>22,
     <1>23, <1>24 DEF Next, MainStep, HandlerStep, Fault


LEMMA InvInit == Init => IInv
<1> SUFFICES ASSUME Init PROVE IInv
  OBVIOUS
<1>1. TypeOK
  BY EndToEndAssumption DEF Init, TypeOK, Row, Free, InQueue, NotRun
<1>2. LockInv
  BY EndToEndAssumption DEF Init, LockInv, Free
<1>3. ResultInv
  BY DEF Init, ResultInv, NotRun, Complete
<1>4. RowInv
  BY DEF Init, RowInv, Updates
<1> QED
  BY <1>1, <1>2, <1>3, <1>4 DEF IInv

LEMMA InvNext == IInv /\ [Next]_vars => IInv'
BY TypeStep, LockStep, ResultStep, RowStep DEF IInv

LEMMA Inductive == Spec => []IInv
BY InvInit, InvNext, PTL DEF Spec

-------------------------------------------------------------------------------
(* Theorems.                                                               *)

(* A step that changes the row is a commit, of the main program or of the  *)
(* signal handler of a run.                                                *)
LEMMA RowChanges ==
  ASSUME TypeOK, [Next]_vars, row' # row
  PROVE  \E p \in Runs : Commit(p) \/ HandlerCommits(p)
BY DEF Next, MainStep, HandlerStep, Fault, vars, OtherTakesLock, OtherReleasesLock,
       Start, CheckIfInQueue, Update, NotQueued, Spin, StepWrites, StepSpins,
       StepCommits, StepDone, StepsDone, Signal, HandlerChecksQueue,
       HandlerUpdates, HandlerSpins, HandlerExits, StepRaises, StepExits,
       CommitRaises, HandlerCommitRaises, Kill, Ends

(* Only its last update or giving that up makes a run done.                *)
LEMMA DoneFromMain ==
  ASSUME TypeOK, [Next]_vars, NEW p \in Runs, pc[p] # "done", pc'[p] = "done"
  PROVE  Commit(p) \/ Spin(p)
<1> USE DEF TypeOK
<1>1. ASSUME NEW q \in Runs, Commit(q) \/ Spin(q) PROVE Commit(p) \/ Spin(p)
  BY <1>1 DEF Commit, Spin
<1>2. ASSUME NEW q \in Runs,
             \/ Start(q) \/ CheckIfInQueue(q) \/ NotQueued(q) \/ StepsDone(q)
             \/ StepRaises(q)
      PROVE  FALSE
  BY <1>2 DEF Start, CheckIfInQueue, NotQueued, StepsDone, StepRaises
<1>3. ASSUME NEW q \in Runs, NEW how \in {"stopped", "gone"}, Ends(q, how) PROVE FALSE
  BY <1>3 DEF Ends
<1>4. ASSUME NEW q \in Runs, HandlerCommitRaises(q), ~Ends(q, "gone") PROVE FALSE
  BY <1>4 DEF HandlerCommitRaises
<1>5. pc' # pc
  OBVIOUS
<1> QED
  BY <1>1, <1>2, <1>3, <1>4, <1>5 DEF Next, MainStep, HandlerStep, Fault, vars,
     OtherTakesLock, OtherReleasesLock, Update, StepWrites, StepSpins, StepCommits,
     StepDone, Signal, HandlerChecksQueue, HandlerUpdates, HandlerCommits,
     HandlerSpins, HandlerExits, StepExits, CommitRaises, Kill

(* Every variable has its type; no statement makes more attempts than it   *)
(* may.                                                                    *)
THEOREM TypeCorrect == Spec => []TypeOK
BY Inductive, PTL DEF IInv

(* A run keeps the lock of a step outside its steps only if that step      *)
(* failed: no run that does well blocks itself or the others.              *)
THEOREM LockIsGivenBack == Spec => []OwnLockOnlyAfterFailure
<1>1. IInv => OwnLockOnlyAfterFailure
  BY DEF IInv, LockInv, OwnLockOnlyAfterFailure
<1> QED
  BY <1>1, Inductive, PTL

(* An end time in the row is that of a run that is done; the run the row   *)
(* shows has its end time there when it is done.                           *)
EndInv ==
  \A p \in Runs :
    /\ row.end = p => pc[p] = "done"
    /\ row.pid = p /\ pc[p] = "done" /\ ~missed[p] => row.end = p

(* A run that is done takes no step; an update once given up stays so.     *)
LEMMA DoneStays ==
  ASSUME TypeOK, [Next]_vars, NEW p \in Runs
  PROVE  /\ pc[p] = "done" => pc'[p] = "done"
         /\ missed[p] => missed'[p]
<1> USE DEF TypeOK, InMain, Alive, Over, Ends
<1>1. ASSUME NEW q \in Runs, MainStep(q) \/ Start(q) \/ Signal(q)
      PROVE  /\ pc[p] = "done" => pc'[p] = "done"
             /\ missed[p] => missed'[p]
  BY <1>1 DEF MainStep, Start, Signal, CheckIfInQueue, Update, Commit, NotQueued,
              Spin, StepWrites, StepSpins, StepCommits, StepDone, StepsDone
<1>2. ASSUME NEW q \in Runs, HandlerStep(q) \/ Fault(q)
      PROVE  /\ pc[p] = "done" => pc'[p] = "done"
             /\ missed[p] => missed'[p]
  BY <1>2 DEF HandlerStep, Fault, HandlerChecksQueue, HandlerUpdates, HandlerCommits,
              HandlerSpins, HandlerExits, StepRaises, StepExits, CommitRaises,
              HandlerCommitRaises, Kill
<1>3. CASE OtherTakesLock \/ OtherReleasesLock \/ UNCHANGED vars
  BY <1>3 DEF OtherTakesLock, OtherReleasesLock, vars
<1> QED
  BY <1>1, <1>2, <1>3 DEF Next

(* Who writes the end time and the process id.                             *)
LEMMA EndAndPidFromMain ==
  ASSUME TypeOK, LockInv, [Next]_vars,
         row'.end # row.end \/ row'.pid # row.pid
  PROVE  \E q \in Runs :
           /\ Commit(q)
           /\ \/ /\ pc[q] = "end" /\ row.pid = q
                 /\ row'.end = q /\ row'.pid = row.pid
              \/ pc[q] = "pid" /\ row'.pid = q /\ row'.end = row.end
<1>1. PICK q \in Runs : Commit(q) \/ HandlerCommits(q)
  BY RowChanges
<1>2. row \in Row
  BY DEF TypeOK
<1>3. ~HandlerCommits(q)
  BY <1>2 DEF HandlerCommits, HandlerRow, Row
<1>4. Commit(q) /\ row' = NewRow(q, pc[q]) /\ pc[q] \in Updates
  BY <1>1, <1>3 DEF Commit, LockInv
<1>5. CASE pc[q] = "end"
  BY <1>2, <1>4, <1>5 DEF NewRow, Row
<1>6. CASE pc[q] = "pid"
  BY <1>2, <1>4, <1>6 DEF NewRow, Row
<1>7. CASE pc[q] \in {"mark", "dequeue", "final"}
  BY <1>2, <1>4, <1>7 DEF NewRow, Row
<1> QED
  BY <1>4, <1>5, <1>6, <1>7 DEF Updates

LEMMA EndStep ==
  ASSUME TypeOK, LockInv, EndInv, [Next]_vars
  PROVE  EndInv'
<1> SUFFICES ASSUME NEW p \in Runs
             PROVE  /\ row'.end = p => pc'[p] = "done"
                    /\ row'.pid = p /\ pc'[p] = "done" /\ ~missed'[p] => row'.end = p
  BY DEF EndInv
<1>1. ASSUME row'.end = p PROVE pc'[p] = "done"
  <2>1. CASE row.end = p
    BY <2>1, DoneStays DEF EndInv
  <2>2. CASE row.end # p
    <3>1. Commit(p) /\ pc[p] = "end"
      BY <1>1, <2>2, EndAndPidFromMain
    <3> QED
      BY <3>1 DEF Commit, NextPc, TypeOK
  <2> QED
    BY <2>1, <2>2
<1>2. ASSUME row'.pid = p, pc'[p] = "done", ~missed'[p] PROVE row'.end = p
  <2>1. ~missed[p]
    BY <1>2, DoneStays
  <2>2. CASE pc[p] = "done"
    <3>1. ~Commit(p)
      BY <2>2 DEF Commit, InMain, Alive, Over
    <3>2. row.pid = p
      BY <1>2, <3>1, EndAndPidFromMain
    <3>3. row.end = p
      BY <2>1, <2>2, <3>2 DEF EndInv
    <3> QED
      BY <3>1, <3>2, <3>3, EndAndPidFromMain
  <2>3. CASE pc[p] # "done"
    <3>1. Commit(p)
      <4>1. Commit(p) \/ Spin(p)
        BY <1>2, <2>3, DoneFromMain
      <4>2. ~Spin(p)
        BY <1>2, <2>3 DEF Spin, TypeOK
      <4> QED
        BY <4>1, <4>2
    <3>2. pc[p] \in Updates /\ pc'[p] = NextPc[pc[p]] /\ row' = NewRow(p, pc[p])
      BY <3>1 DEF Commit, LockInv, TypeOK
    <3>3. pc[p] = "end"
      BY <1>2, <3>2 DEF NextPc, Updates
    <3>4. row' = IF row.pid = p THEN [row EXCEPT !.end = p] ELSE row
      BY <3>2, <3>3 DEF NewRow
    <3> QED
      BY <1>2, <3>4 DEF TypeOK, Row
  <2> QED
    BY <2>2, <2>3
<1> QED
  BY <1>1, <1>2

(* Whichever runs there are of a scenario, interleaved, retried, failed or *)
(* interrupted: the run the row shows has its end time there when and only *)
(* when it is done, unless it gave up an update.                           *)
THEOREM EndTimeIsOfTheRecordedRun == Spec => []EndTimeOfLastRecorded
<1>1. Init => EndInv
  <2> SUFFICES ASSUME Init PROVE EndInv
    OBVIOUS
  <2>1. row.end = NoRun
    BY DEF Init
  <2>2. \A p \in Runs : pc[p] = "off" /\ p # NoRun
    BY EndToEndAssumption DEF Init
  <2> QED
    BY <2>1, <2>2 DEF EndInv
<1>2. IInv /\ EndInv /\ [Next]_vars => EndInv'
  BY EndStep DEF IInv
<1>3. EndInv => EndTimeOfLastRecorded
  BY DEF EndInv, EndTimeOfLastRecorded
<1> QED
  BY <1>1, <1>2, <1>3, Inductive, PTL DEF Spec

(* A scenario is marked complete only by a run that has done all its       *)
(* steps and has no transaction of theirs open.                            *)
THEOREM CompleteIsComplete == Spec => CompleteMeansAllSteps
<1>1. IInv /\ [Next]_vars =>
        [row'.status = Complete /\ row.status # Complete =>
           \E p \in Runs : lock = <<p, "main">> /\ todo[p] = {} /\ tx[p] = "none"]_vars
  <2> SUFFICES ASSUME IInv, [Next]_vars, row'.status = Complete, row.status # Complete
               PROVE  \E p \in Runs :
                        lock = <<p, "main">> /\ todo[p] = {} /\ tx[p] = "none"
    OBVIOUS
  <2>1. PICK p \in Runs : Commit(p) \/ HandlerCommits(p)
    BY RowChanges DEF IInv
  <2>2. row \in Row
    BY DEF IInv, TypeOK
  <2>3. CASE HandlerCommits(p)
    BY <2>2, <2>3 DEF HandlerCommits, HandlerRow, Row, Complete, RunStopped
  <2>4. CASE Commit(p)
    <3>1. row' = NewRow(p, pc[p]) /\ pc[p] \in Updates /\ lock = <<p, "main">>
      BY <2>4 DEF Commit, IInv, LockInv
    <3>2. CASE pc[p] = "final"
      <4>1. result[p] = Complete
        BY <2>2, <3>1, <3>2 DEF NewRow, Row
      <4> QED
        BY <3>1, <4>1 DEF IInv, ResultInv
    <3>3. CASE pc[p] # "final"
      BY <2>2, <3>1, <3>3 DEF NewRow, Row, Updates, Complete, Running
    <3> QED
      BY <3>2, <3>3
  <2> QED
    BY <2>1, <2>3, <2>4
<1> QED
  BY <1>1, Inductive, PTL DEF Spec, CompleteMeansAllSteps

(* A run that had the scenario to itself and gave up no update leaves its  *)
(* status, no place in the queue and, if it was given the name, its end    *)
(* time in the row.                                                        *)
THEOREM EndIsRecorded == Spec => EndedIsRecorded
<1> DEFINE Recorded(p) ==
      /\ row'.status = result[p] /\ ~row'.queued
      /\ p \in NamedRuns => row'.end = p
<1>1. ASSUME IInv, [Next]_vars, NEW p \in Runs, pc[p] # "done", pc'[p] = "done",
             ~missed'[p], \A q \in Runs \ {p} : pc[q] = "off"
      PROVE  Recorded(p)
  <2>1. Commit(p)
    <3>1. Commit(p) \/ Spin(p)
      BY <1>1, DoneFromMain DEF IInv
    <3>2. ASSUME Spin(p) PROVE FALSE
      BY <1>1, <3>2 DEF Spin, IInv, TypeOK
    <3> QED
      BY <3>1, <3>2
  <2>2. pc[p] = "end"
    BY <1>1, <2>1 DEF Commit, NextPc, IInv, LockInv, Updates, TypeOK
  <2>3. Alone(p) /\ handler[p] # "exit"
    BY <1>1, <2>1 DEF Commit, InMain, Alone
  <2>4. /\ row.status = result[p] /\ ~row.queued
        /\ p \in NamedRuns => row.pid = p
    BY <1>1, <2>2, <2>3 DEF IInv, RowInv
  <2>5. row' = IF row.pid = p THEN [row EXCEPT !.end = p] ELSE row
    BY <2>1, <2>2 DEF Commit, NewRow
  <2> QED
    BY <1>1, <2>4, <2>5 DEF IInv, TypeOK, Row
<1>2. IInv /\ [Next]_vars =>
        [\A p \in Runs :
           /\ pc[p] # "done" /\ pc'[p] = "done" /\ ~missed'[p]
           /\ \A q \in Runs \ {p} : pc[q] = "off"
           => Recorded(p)]_vars
  BY <1>1
<1> QED
  BY <1>2, Inductive, PTL DEF Spec, EndedIsRecorded
=============================================================================
