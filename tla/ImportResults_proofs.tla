------------------------ MODULE ImportResults_proofs ------------------------
(***************************************************************************)
(* Proofs about ImportResults, for any number of directories, tables and   *)
(* imports, any modules and import rules, and any fault: what the results  *)
(* tables hold at any time, what a complete import leaves in them, and     *)
(* that results are only ever replaced by others.                          *)
(***************************************************************************)
EXTENDS ImportResults, TLAPS

Keys == Dirs \X AllTables

(* The old results are deleted, the new ones are being added.              *)
Adding == pc \in {"term", "status", "objective", "csv", "next"}

(* save_results writes the status before any other file.                   *)
FilesInv ==
  \A d \in Dirs : files[d].status = "none" => ~files[d].obj

PcInv ==
  /\ Quiet => ~inTx
  /\ ~Quiet => import # 0
  /\ pc = "delete" => dir = 1
  /\ pc \in {"status", "objective", "csv", "next"} => dir \in Dirs
  /\ pc = "objective" => files[dir].status \in {"none", "ok"}
  /\ pc = "csv" =>
       /\ files[dir].status = "ok"
       /\ pending = {} \/ dir \in opts.rule
       /\ pending \subseteq opts.modules
  /\ pc = "next" => files[dir].status # "ok"

(* The rows that an import has added by the time it is where it is.        *)
Added(d, t) ==
  \/ d < dir /\ Imported(d, t)
  \/ d = dir /\ pc # "term" /\ t = "scenario"
  \/ d = dir /\ pc = "csv" /\ t \notin pending /\ Imported(d, t)

(* What the connection of the import sees: first what it has not deleted,  *)
(* then what it has added.                                                 *)
DraftInv ==
  /\ pc = "delete" =>
       \A d \in Dirs, t \in AllTables : draft[<<d, t>>] # 0 => t \in pending
  /\ Adding =>
       \A d \in Dirs, t \in AllTables :
         draft[<<d, t>>] = IF Added(d, t) THEN import ELSE 0

(* There is something to take the place of what was deleted, from the      *)
(* first row of the first directory on, whatever was missed.               *)
ReplacedInv ==
  Adding =>
    \/ pc = "term" /\ dir = 1
    \/ draft = db
    \/ \E d \in Dirs, t \in AllTables : draft[<<d, t>>] # 0

Clean == DraftInv /\ OneImport /\ DoneMirrorsFiles

IInv == TypeOK /\ FilesInv /\ PcInv /\ ReplacedInv /\ (~missed => Clean)

-------------------------------------------------------------------------------
LEMMA KeyIsPair ==
  ASSUME NEW k \in Keys
  PROVE  \E d \in Dirs, t \in AllTables : k = <<d, t>>
BY SMT DEF Keys

(* Rows of one import, each beside its row of results_scenario.            *)
Tidy(f, n) ==
  \A d \in Dirs, t \in AllTables :
    f[<<d, t>>] # 0 => f[<<d, t>>] = n /\ f[<<d, "scenario">>] # 0

LEMMA TidyIsOneImport ==
  ASSUME NEW f, NEW n, Tidy(f, n)
  PROVE  /\ \A j, k \in Keys : f[j] # 0 /\ f[k] # 0 => f[j] = f[k]
         /\ \A d \in Dirs, t \in Tables : f[<<d, t>>] # 0 => f[<<d, "scenario">>] # 0
<1>1. ASSUME NEW k \in Keys, f[k] # 0 PROVE f[k] = n
  <2>1. PICK d \in Dirs, t \in AllTables : k = <<d, t>>
    BY KeyIsPair
  <2> QED
    BY <1>1, <2>1 DEF Tidy
<1>2. \A d \in Dirs, t \in Tables : f[<<d, t>>] # 0 => f[<<d, "scenario">>] # 0
  BY DEF Tidy, AllTables
<1> QED
  BY <1>1, <1>2

(* What an import has added is tidy.                                       *)
LEMMA AddedIsTidy ==
  ASSUME Adding, import # 0, DraftInv
  PROVE  Tidy(draft, import)
<1> SUFFICES ASSUME NEW d \in Dirs, NEW t \in AllTables, draft[<<d, t>>] # 0
             PROVE  draft[<<d, t>>] = import /\ draft[<<d, "scenario">>] # 0
  BY DEF Tidy
<1>1. Added(d, t) /\ draft[<<d, t>>] = import
  BY DEF DraftInv
<1>2. Added(d, "scenario")
  BY <1>1 DEF Added, Imported
<1> QED
  BY <1>1, <1>2 DEF DraftInv, AllTables

-------------------------------------------------------------------------------
LEMMA InitIInv == Init => IInv
<1> SUFFICES ASSUME Init PROVE IInv
  OBVIOUS
<1>1. db = [k \in Keys |-> 0] /\ draft = db
  BY DEF Init, Empty, Keys
<1>2. TypeOK
  <2>1. db \in Rows
    BY <1>1 DEF Init, Rows, Keys
  <2>2. files \in [Dirs -> [status : {"none", "ok", "warning"}, term : BOOLEAN,
                            csv : SUBSET Tables, obj : BOOLEAN]]
    BY DEF Init, NoFiles
  <2>3. dir \in 1..(NDirs + 1)
    BY ImportAssumption DEF Init, ImportAssumption
  <2> QED
    BY <1>1, <2>1, <2>2, <2>3 DEF Init, TypeOK
<1>3. FilesInv
  BY DEF Init, FilesInv, NoFiles
<1>4. PcInv /\ ReplacedInv
  BY DEF Init, PcInv, Quiet, ReplacedInv, Adding
<1>5. Tidy(db, 0)
  BY <1>1 DEF Tidy, Keys
<1>6. OneImport
  BY <1>5, TidyIsOneImport DEF OneImport, Keys
<1>7. Clean
  BY <1>6 DEF Init, Clean, DraftInv, Adding, DoneMirrorsFiles
<1> QED
  BY <1>2, <1>3, <1>4, <1>7 DEF IInv

-------------------------------------------------------------------------------
(* What a statement does to the connection, once it went through and when  *)
(* it was given up on.                                                     *)
LEMMA StatementEffect ==
  ASSUME NEW new \in Rows, TypeOK, Statement(new),
         UNCHANGED <<db, locked, import>>
  PROVE  /\ draft' \in Rows' /\ inTx' \in BOOLEAN /\ missed' \in BOOLEAN
         /\ ~(inTx' /\ locked') /\ (~inTx' => draft' = db')
         /\ ~missed' => ~missed /\ draft' = new
         /\ draft' = new \/ (draft' = draft /\ draft = db)
<1>1. /\ db \in Rows /\ draft \in Rows /\ Rows' = Rows
      /\ inTx \in BOOLEAN /\ missed \in BOOLEAN
      /\ ~(inTx /\ locked) /\ (~inTx => draft = db)
  BY DEF TypeOK, Rows
<1>2. CASE ~locked /\ draft' = new /\ inTx' = TRUE /\ UNCHANGED missed
  BY <1>1, <1>2
<1>3. CASE locked /\ missed' = TRUE /\ UNCHANGED <<draft, inTx>>
  BY <1>1, <1>3
<1> QED
  BY <1>2, <1>3 DEF Statement

(* The invariant is kept by a failure or a kill.                           *)
LEMMA FailsKeeps ==
  ASSUME IInv, Fails, UNCHANGED <<files, db, locked, import, opts, missed>>
  PROVE  IInv'
<1>1. TypeOK'
  <2>1. TypeOK /\ Rows' = Rows
    BY DEF IInv, Rows
  <2>2. dir' \in 1..(NDirs + 1)
    BY ImportAssumption DEF ImportAssumption, Fails
  <2> QED
    BY <2>1, <2>2 DEF TypeOK, Fails
<1>2. FilesInv' /\ PcInv' /\ ReplacedInv'
  BY DEF IInv, Fails, FilesInv, PcInv, Quiet, ReplacedInv, Adding
<1>3. ~missed' => Clean'
  BY DEF IInv, Fails, Clean, DraftInv, Adding, OneImport, DoneMirrorsFiles
<1> QED
  BY <1>1, <1>2, <1>3 DEF IInv

LEMMA SaveResultsKeeps ==
  ASSUME IInv, NEW d \in Dirs, SaveResults(d)
  PROVE  IInv'
<1>1. PICK st \in {"ok", "warning"}, last \in {"status", "term", "csv", "obj"},
           written \in SUBSET Tables :
        files' = [files EXCEPT ![d] = Saved(@, st, last, written)]
  BY DEF SaveResults
<1>2. TypeOK'
  <2>1. files' \in [Dirs -> [status : {"none", "ok", "warning"}, term : BOOLEAN,
                             csv : SUBSET Tables, obj : BOOLEAN]]
    BY <1>1 DEF IInv, TypeOK, Saved
  <2> QED
    BY <2>1 DEF IInv, TypeOK, SaveResults, Rows
<1>3. FilesInv'
  BY <1>1 DEF IInv, TypeOK, FilesInv, Saved
<1>4. PcInv' /\ ReplacedInv' /\ (~missed' => Clean')
  BY DEF IInv, SaveResults, PcInv, Quiet, ReplacedInv, Adding, Clean, DraftInv,
    OneImport, DoneMirrorsFiles
<1> QED
  BY <1>2, <1>3, <1>4 DEF IInv

(* Nothing that the invariant speaks of, or only the lock, changes.        *)
LEMMA OthersKeep ==
  ASSUME IInv, OtherTakesLock \/ OtherReleasesLock \/ UNCHANGED vars
  PROVE  IInv'
<1>1. /\ UNCHANGED <<files, db, draft, inTx, pc, dir, pending, status, import,
                     opts, missed>>
      /\ locked' \in BOOLEAN /\ ~(inTx' /\ locked')
  <2>1. TypeOK
    BY DEF IInv
  <2>2. CASE OtherTakesLock
    BY <2>1, <2>2 DEF TypeOK, OtherTakesLock, imp
  <2>3. CASE OtherReleasesLock
    BY <2>1, <2>3 DEF TypeOK, OtherReleasesLock, imp
  <2>4. CASE UNCHANGED vars
    BY <2>1, <2>4 DEF TypeOK, vars
  <2> QED
    BY <2>2, <2>3, <2>4
<1>2. TypeOK'
  BY <1>1 DEF IInv, TypeOK, Rows
<1>3. FilesInv' /\ PcInv' /\ ReplacedInv'
  BY <1>1 DEF IInv, FilesInv, PcInv, Quiet, ReplacedInv, Adding
<1>4. ASSUME ~missed' PROVE Clean'
  <2>1. Clean
    BY <1>1, <1>4 DEF IInv
  <2>2. DraftInv'
    BY <1>1, <2>1 DEF Clean, DraftInv, Adding, Added, Imported
  <2>3. OneImport' /\ DoneMirrorsFiles'
    BY <1>1, <2>1 DEF Clean, OneImport, DoneMirrorsFiles, Imported
  <2> QED
    BY <2>2, <2>3 DEF Clean
<1> QED
  BY <1>2, <1>3, <1>4 DEF IInv

-------------------------------------------------------------------------------
LEMMA StartImportKeeps ==
  ASSUME IInv, StartImport
  PROVE  IInv'
<1>1. TypeOK'
  <2>1. TypeOK /\ Rows \subseteq Rows'
    BY DEF IInv, TypeOK, Rows, StartImport
  <2>2. dir' \in 1..(NDirs + 1)
    BY ImportAssumption DEF ImportAssumption, StartImport
  <2>3. opts' \in Options /\ import' \in Nat
    BY <2>1 DEF StartImport, TypeOK
  <2> QED
    BY <2>1, <2>2, <2>3 DEF TypeOK, StartImport
<1>2. FilesInv' /\ ReplacedInv'
  BY DEF IInv, FilesInv, ReplacedInv, Adding, StartImport
<1>3. PcInv'
  BY DEF IInv, TypeOK, PcInv, Quiet, StartImport
<1>4. ~missed' => Clean'
  BY DEF IInv, Clean, DraftInv, Adding, OneImport, DoneMirrorsFiles, StartImport
<1> QED
  BY <1>1, <1>2, <1>3, <1>4 DEF IInv

LEMMA DeleteTableKeeps ==
  ASSUME IInv, NEW t \in AllTables, DeleteTable(t)
  PROVE  IInv'
<1> DEFINE new == [k \in Dirs \X AllTables |->
                     IF k[2] = t /\ t \in ToDelete THEN 0 ELSE draft[k]]
<1>1. TypeOK /\ Statement(new)
  BY DEF IInv, DeleteTable
<1>2. new \in Rows
  BY <1>1 DEF TypeOK, Rows
<1> HIDE DEF new
<1>3. /\ draft' \in Rows' /\ inTx' \in BOOLEAN /\ missed' \in BOOLEAN
      /\ ~(inTx' /\ locked') /\ (~inTx' => draft' = db')
      /\ ~missed' => ~missed /\ draft' = new
  BY <1>1, <1>2, StatementEffect DEF DeleteTable
<1>4. TypeOK'
  BY <1>1, <1>3 DEF TypeOK, Rows, DeleteTable
<1>5. FilesInv' /\ PcInv' /\ ReplacedInv'
  BY DEF IInv, FilesInv, PcInv, Quiet, ReplacedInv, Adding, DeleteTable
<1>6. ASSUME ~missed' PROVE Clean'
  <2>1. Clean /\ draft' = new
    BY <1>3, <1>6 DEF IInv
  <2>2. ASSUME NEW d \in Dirs, NEW u \in AllTables, draft'[<<d, u>>] # 0
        PROVE  u \in pending'
    BY <2>1, <2>2 DEF new, ToDelete, Clean, DraftInv, DeleteTable
  <2> QED
    BY <2>1, <2>2, <1>3, <1>6 DEF Clean, DraftInv, Adding, OneImport, DoneMirrorsFiles,
      DeleteTable
<1> QED
  BY <1>4, <1>5, <1>6 DEF IInv

LEMMA DeleteDoneKeeps ==
  ASSUME IInv, DeleteDone
  PROVE  IInv'
<1>1. TypeOK /\ dir = 1
  BY DEF IInv, PcInv, DeleteDone
<1>2. TypeOK' /\ FilesInv' /\ PcInv' /\ ReplacedInv'
  BY <1>1 DEF IInv, TypeOK, Rows, FilesInv, PcInv, Quiet, ReplacedInv, Adding,
    DeleteDone
<1>3. ASSUME ~missed' PROVE Clean'
  <2>1. Clean
    BY <1>3 DEF IInv, DeleteDone
  <2>2. ASSUME NEW d \in Dirs, NEW t \in AllTables
        PROVE  draft[<<d, t>>] = 0 /\ ~Added(d, t)'
    BY <1>1, <2>1 DEF Clean, DraftInv, Added, Dirs, DeleteDone
  <2>3. DraftInv'
    BY <2>2 DEF DraftInv, DeleteDone
  <2> QED
    BY <2>1, <2>3 DEF Clean, OneImport, DoneMirrorsFiles, DeleteDone
<1> QED
  BY <1>2, <1>3 DEF IInv

-------------------------------------------------------------------------------
(* An import that is adding rows and leaves the committed ones, the files  *)
(* and the options alone keeps the invariant if its draft stays right.     *)
LEMMA AddingKeeps ==
  ASSUME IInv, TypeOK', PcInv', ReplacedInv', UNCHANGED <<files, db, import, opts>>,
         Adding', ~missed' => ~missed,
         ~missed' => \A d \in Dirs, t \in AllTables :
           draft'[<<d, t>>] = IF Added(d, t)' THEN import ELSE 0
  PROVE  IInv'
<1>1. FilesInv'
  BY DEF IInv, FilesInv
<1>2. ASSUME ~missed' PROVE Clean'
  <2>1. Clean
    BY <1>2 DEF IInv
  <2>2. DraftInv'
    BY <1>2 DEF DraftInv, Adding
  <2> QED
    BY <2>1, <2>2 DEF Clean, OneImport, DoneMirrorsFiles, Adding
<1> QED
  BY <1>1, <1>2 DEF IInv

LEMMA InsertTermKeeps ==
  ASSUME IInv, InsertTerm
  PROVE  IInv'
<1> DEFINE new == [draft EXCEPT ![<<dir, "scenario">>] = import]
<1>1. /\ TypeOK /\ Statement(new) /\ import # 0 /\ dir \in Dirs
      /\ "scenario" \in AllTables
  <2>1. TypeOK /\ dir <= NDirs /\ Statement(new) /\ pc = "term"
    BY DEF IInv, InsertTerm
  <2> QED
    BY <2>1, ImportAssumption
    DEF IInv, TypeOK, PcInv, Quiet, Dirs, AllTables, ImportAssumption
<1>2. draft \in [Keys -> 0..import] /\ <<dir, "scenario">> \in Keys
  BY <1>1 DEF TypeOK, Rows, Keys
<1>3. /\ new \in Rows /\ new[<<dir, "scenario">>] = import
      /\ \A d \in Dirs, t \in AllTables :
           <<d, t>> # <<dir, "scenario">> => new[<<d, t>>] = draft[<<d, t>>]
  BY <1>1, <1>2 DEF TypeOK, Rows, Keys
<1> HIDE DEF new
<1>4. /\ draft' \in Rows' /\ inTx' \in BOOLEAN /\ missed' \in BOOLEAN
      /\ ~(inTx' /\ locked') /\ (~inTx' => draft' = db')
      /\ ~missed' => ~missed /\ draft' = new
      /\ draft' = new \/ (draft' = draft /\ draft = db)
  BY <1>1, <1>3, StatementEffect DEF InsertTerm
<1>5. TypeOK'
  BY <1>1, <1>4 DEF TypeOK, Rows, InsertTerm
<1>6. PcInv'
  BY <1>1 DEF IInv, PcInv, Quiet, InsertTerm
<1>7. ReplacedInv'
  BY <1>1, <1>3, <1>4 DEF ReplacedInv, InsertTerm
<1>8. ASSUME ~missed', NEW d \in Dirs, NEW t \in AllTables
      PROVE  draft'[<<d, t>>] = IF Added(d, t)' THEN import ELSE 0
  <2>1. draft[<<d, t>>] = IF Added(d, t) THEN import ELSE 0
    BY <1>4, <1>8 DEF IInv, Clean, DraftInv, Adding, InsertTerm
  <2>2. draft' = new /\ UNCHANGED <<files, opts, dir>> /\ pc = "term" /\ pc' = "status"
    BY <1>4, <1>8 DEF InsertTerm
  <2>3. CASE d = dir /\ t = "scenario"
    BY <2>2, <2>3, <1>3 DEF Added
  <2>4. CASE ~(d = dir /\ t = "scenario")
    <3>1. draft'[<<d, t>>] = draft[<<d, t>>]
      BY <2>2, <2>4, <1>3
    <3>2. Added(d, t)' <=> Added(d, t)
      BY <2>2, <2>4 DEF Added, Imported
    <3> QED
      BY <2>1, <3>1, <3>2
  <2> QED
    BY <2>3, <2>4
<1> QED
  BY <1>4, <1>5, <1>6, <1>7, <1>8, AddingKeeps DEF Adding, InsertTerm

LEMMA ReadStatusKeeps ==
  ASSUME IInv, ReadStatus
  PROVE  IInv'
<1>1. /\ TypeOK /\ pc = "status" /\ dir \in Dirs /\ import # 0
      /\ UNCHANGED <<files, db, draft, inTx, locked, dir, pending, import, opts,
                     missed>>
  BY DEF IInv, PcInv, Quiet, ReadStatus
<1>2. /\ status' \in {"ok", "warning"}
      /\ files[dir].status = "none" \/ status' = files[dir].status
      /\ pc' = IF status' = "ok" THEN "objective" ELSE "next"
  <2>1. /\ files[dir].status \in {"none", "ok", "warning"}
        /\ status \in {"unbound", "ok", "warning"}
    BY <1>1 DEF TypeOK
  <2>2. CASE files[dir].status # "none"
    BY <2>1, <2>2 DEF ReadStatus
  <2>3. CASE files[dir].status = "none"
    BY <2>1, <2>3 DEF ReadStatus
  <2> QED
    BY <2>2, <2>3
<1>3. TypeOK'
  BY <1>1, <1>2 DEF TypeOK, Rows
<1>4. PcInv'
  <2>1. files[dir].status \in {"none", "ok", "warning"}
    BY <1>1 DEF TypeOK
  <2> QED
    BY <1>1, <1>2, <2>1 DEF PcInv, Quiet
<1>5. ReplacedInv'
  BY <1>1 DEF IInv, ReplacedInv, Adding
<1>6. ASSUME ~missed', NEW d \in Dirs, NEW t \in AllTables
      PROVE  draft'[<<d, t>>] = IF Added(d, t)' THEN import ELSE 0
  <2>1. draft[<<d, t>>] = IF Added(d, t) THEN import ELSE 0
    BY <1>1, <1>6 DEF IInv, Clean, DraftInv, Adding
  <2>2. Added(d, t)' <=> Added(d, t)
    BY <1>1, <1>2 DEF Added, Imported
  <2> QED
    BY <1>1, <2>1, <2>2
<1> QED
  BY <1>1, <1>2, <1>3, <1>4, <1>5, <1>6, AddingKeeps DEF Adding

LEMMA ReadObjectiveKeeps ==
  ASSUME IInv, ReadObjective
  PROVE  IInv'
<1>1. /\ TypeOK /\ pc = "objective" /\ pc' = "csv" /\ dir \in Dirs /\ import # 0
      /\ draft \in Rows /\ Statement(draft)
      /\ UNCHANGED <<files, db, locked, dir, status, import, opts>>
      /\ pending' = IF dir \in opts.rule THEN opts.modules ELSE {}
  BY DEF IInv, TypeOK, PcInv, Quiet, ReadObjective
<1>2. files[dir].status = "ok"
  BY <1>1 DEF IInv, PcInv, FilesInv, ReadObjective
<1>3. /\ draft' \in Rows' /\ inTx' \in BOOLEAN /\ missed' \in BOOLEAN
      /\ ~(inTx' /\ locked') /\ (~inTx' => draft' = db')
      /\ (~missed' => ~missed) /\ draft' = draft
  BY <1>1, StatementEffect
<1>4. opts.modules \subseteq Tables
  BY <1>1, ImportAssumption DEF TypeOK, Options, ImportAssumption
<1>5. TypeOK'
  BY <1>1, <1>3, <1>4 DEF TypeOK, Rows, AllTables
<1>6. PcInv' /\ ReplacedInv'
  BY <1>1, <1>2, <1>3 DEF IInv, PcInv, Quiet, ReplacedInv, Adding
<1>7. ASSUME ~missed', NEW d \in Dirs, NEW t \in AllTables
      PROVE  draft'[<<d, t>>] = IF Added(d, t)' THEN import ELSE 0
  <2>1. draft[<<d, t>>] = IF Added(d, t) THEN import ELSE 0
    BY <1>1, <1>3, <1>7 DEF IInv, Clean, DraftInv, Adding
  <2>2. Added(d, t)' <=> Added(d, t)
    BY <1>1 DEF Added, Imported
  <2> QED
    BY <1>3, <2>1, <2>2
<1> QED
  BY <1>1, <1>3, <1>5, <1>6, <1>7, AddingKeeps DEF Adding

LEMMA SkipCsvKeeps ==
  ASSUME IInv, NEW t \in Tables, SkipCsv(t)
  PROVE  IInv'
<1>1. /\ TypeOK /\ pc = "csv" /\ dir \in Dirs /\ import # 0
      /\ t \notin files[dir].csv /\ pending' = pending \ {t} /\ t # "scenario"
      /\ UNCHANGED <<files, db, draft, inTx, locked, pc, dir, status, import, opts,
                     missed>>
  BY ImportAssumption DEF IInv, PcInv, Quiet, SkipCsv, ImportAssumption
<1>2. TypeOK'
  BY <1>1 DEF TypeOK, Rows
<1>3. PcInv' /\ ReplacedInv'
  BY <1>1 DEF IInv, PcInv, Quiet, ReplacedInv, Adding
<1>4. ASSUME ~missed', NEW d \in Dirs, NEW u \in AllTables
      PROVE  draft'[<<d, u>>] = IF Added(d, u)' THEN import ELSE 0
  <2>1. draft[<<d, u>>] = IF Added(d, u) THEN import ELSE 0
    BY <1>1, <1>4 DEF IInv, Clean, DraftInv, Adding
  <2>2. Added(d, u)' <=> Added(d, u)
    BY <1>1 DEF Added, Imported
  <2> QED
    BY <1>1, <2>1, <2>2
<1> QED
  BY <1>1, <1>2, <1>3, <1>4, AddingKeeps DEF Adding

LEMMA NextDirKeeps ==
  ASSUME IInv, NextDir
  PROVE  IInv'
<1>1. /\ TypeOK /\ dir \in Dirs /\ import # 0 /\ dir' = dir + 1 /\ pc' = "term"
      /\ pc = "next" \/ (pc = "csv" /\ pending = {})
      /\ UNCHANGED <<files, db, draft, inTx, locked, pending, status, import, opts,
                     missed>>
  BY DEF IInv, PcInv, Quiet, NextDir
<1>2. TypeOK'
  BY <1>1, ImportAssumption DEF TypeOK, Rows, Dirs, ImportAssumption
<1>3. PcInv'
  BY <1>1 DEF PcInv, Quiet
<1>4. ReplacedInv'
  BY <1>1 DEF IInv, ReplacedInv, Adding
<1>5. ASSUME ~missed', NEW d \in Dirs, NEW t \in AllTables
      PROVE  draft'[<<d, t>>] = IF Added(d, t)' THEN import ELSE 0
  <2>1. draft[<<d, t>>] = IF Added(d, t) THEN import ELSE 0
    BY <1>1, <1>5 DEF IInv, Clean, DraftInv, Adding
  <2>2. Added(d, t)' <=> d <= dir /\ Imported(d, t)
    BY <1>1, ImportAssumption DEF Added, Imported, Dirs, ImportAssumption
  <2>3. pc = "next" => files[dir].status # "ok"
    BY DEF IInv, PcInv
  <2>4. Added(d, t) <=> d <= dir /\ Imported(d, t)
    BY <1>1, <2>3, ImportAssumption DEF Added, Imported, Dirs, ImportAssumption
  <2> QED
    BY <1>1, <2>1, <2>2, <2>4
<1> QED
  BY <1>1, <1>2, <1>3, <1>4, <1>5, AddingKeeps DEF Adding

-------------------------------------------------------------------------------
(* The steps that commit.                                                  *)
LEMMA ImportCsvKeeps ==
  ASSUME IInv, NEW t \in Tables, ImportCsv(t)
  PROVE  /\ IInv'
         /\ \E k \in Keys : db'[k] # 0
<1>1. /\ TypeOK /\ pc = "csv" /\ dir \in Dirs /\ import # 0
      /\ t \in pending /\ t \in files[dir].csv /\ pending' = pending \ {t}
      /\ db' = [draft EXCEPT ![<<dir, t>>] = import] /\ draft' = db' /\ ~inTx'
      /\ UNCHANGED <<files, locked, pc, dir, status, import, opts, missed>>
  BY DEF IInv, PcInv, Quiet, ImportCsv
<1>2. draft \in [Keys -> 0..import] /\ <<dir, t>> \in Keys
  BY <1>1 DEF TypeOK, Rows, Keys, AllTables
<1>3. /\ db' \in Rows' /\ db'[<<dir, t>>] = import
      /\ \A d \in Dirs, u \in AllTables :
           <<d, u>> # <<dir, t>> => db'[<<d, u>>] = draft[<<d, u>>]
  BY <1>1, <1>2 DEF TypeOK, Rows, Keys
<1>4. TypeOK'
  <2>1. inTx' \in BOOLEAN
    BY DEF ImportCsv
  <2> QED
    BY <1>1, <1>3, <2>1 DEF TypeOK
<1>5. FilesInv' /\ PcInv' /\ ReplacedInv'
  BY <1>1 DEF IInv, FilesInv, PcInv, Quiet, ReplacedInv
<1>6. ASSUME ~missed' PROVE Clean'
  <2>1. Imported(dir, t)
    BY <1>1 DEF IInv, PcInv, Imported
  <2>2. DraftInv
    BY <1>1, <1>6 DEF IInv, Clean
  <2>3. ASSUME NEW d \in Dirs, NEW u \in AllTables
        PROVE  draft'[<<d, u>>] = IF Added(d, u)' THEN import ELSE 0
    <3>1. draft[<<d, u>>] = IF Added(d, u) THEN import ELSE 0
      BY <1>1, <2>2 DEF DraftInv, Adding
    <3>2. CASE d = dir /\ u = t
      BY <1>1, <1>3, <2>1, <3>2 DEF Added, Imported
    <3>3. CASE ~(d = dir /\ u = t)
      <4>1. Added(d, u)' <=> Added(d, u)
        BY <1>1, <3>3 DEF Added, Imported
      <4> QED
        BY <1>1, <1>3, <3>1, <3>3, <4>1
    <3> QED
      BY <3>2, <3>3
  <2>4. Tidy(db', import)
    <3>1. Tidy(draft, import) /\ draft[<<dir, "scenario">>] # 0
      <4>1. draft[<<dir, "scenario">>] = IF Added(dir, "scenario") THEN import ELSE 0
        BY <1>1, <2>2 DEF DraftInv, Adding, AllTables
      <4> QED
        BY <1>1, <2>2, <4>1, AddedIsTidy DEF Adding, Added
    <3>2. t # "scenario"
      BY ImportAssumption DEF ImportAssumption
    <3> SUFFICES ASSUME NEW d \in Dirs, NEW u \in AllTables, db'[<<d, u>>] # 0
                 PROVE  db'[<<d, u>>] = import /\ db'[<<d, "scenario">>] # 0
      BY DEF Tidy
    <3>3. db'[<<d, "scenario">>] = draft[<<d, "scenario">>]
      BY <1>3, <3>2 DEF AllTables
    <3> QED
      BY <1>3, <3>1, <3>3 DEF Tidy
  <2>5. OneImport'
    BY <2>4, TidyIsOneImport DEF OneImport, Keys
  <2> QED
    BY <1>1, <2>3, <2>5 DEF Clean, DraftInv, Adding, DoneMirrorsFiles
<1> QED
  BY <1>1, <1>2, <1>3, <1>4, <1>5, <1>6 DEF IInv

LEMMA FinishKeeps ==
  ASSUME IInv, Finish
  PROVE  /\ IInv'
         /\ db' = db \/ \E k \in Keys : db'[k] # 0
<1>1. /\ TypeOK /\ pc = "term" /\ pc' = "done" /\ dir > NDirs /\ import # 0
      /\ db' = draft /\ draft' = draft /\ ~inTx' /\ dir' = 1 /\ status' = "unbound"
      /\ UNCHANGED <<files, locked, pending, import, opts, missed>>
  BY DEF IInv, PcInv, Quiet, Finish
<1>2. NDirs \in Nat \ {0} /\ dir \in Nat
  BY <1>1, ImportAssumption DEF TypeOK, ImportAssumption
<1>3. TypeOK'
  <2>1. inTx' \in BOOLEAN
    BY DEF Finish
  <2>2. dir' \in 1..(NDirs + 1)
    BY <1>1, <1>2
  <2> QED
    BY <1>1, <2>1, <2>2 DEF TypeOK, Rows
<1>4. FilesInv' /\ PcInv' /\ ReplacedInv'
  BY <1>1 DEF IInv, FilesInv, PcInv, Quiet, ReplacedInv, Adding
<1>5. ASSUME ~missed' PROVE Clean'
  <2>1. DraftInv
    BY <1>1, <1>5 DEF IInv, Clean
  <2>2. OneImport'
    <3>1. Tidy(db', import)
      BY <1>1, <2>1, AddedIsTidy DEF Adding
    <3> QED
      BY <3>1, TidyIsOneImport DEF OneImport, Keys
  <2>3. ASSUME NEW d \in Dirs, NEW t \in AllTables
        PROVE  db'[<<d, t>>] = IF Imported(d, t)' THEN import' ELSE 0
    <3>1. db'[<<d, t>>] = IF Added(d, t) THEN import ELSE 0
      BY <1>1, <2>1 DEF DraftInv, Adding
    <3>2. Added(d, t) <=> Imported(d, t)'
      BY <1>1, <1>2 DEF Added, Imported, Dirs
    <3> QED
      BY <1>1, <3>1, <3>2
  <2> QED
    BY <1>1, <2>2, <2>3 DEF Clean, DraftInv, Adding, DoneMirrorsFiles
<1>6. db' = db \/ \E k \in Keys : db'[k] # 0
  <2>1. draft = db \/ \E d \in Dirs, t \in AllTables : draft[<<d, t>>] # 0
    BY <1>1, <1>2 DEF IInv, ReplacedInv, Adding
  <2> QED
    BY <1>1, <2>1 DEF Keys
<1> QED
  BY <1>3, <1>4, <1>5, <1>6 DEF IInv

-------------------------------------------------------------------------------
(* The steps that leave what is committed alone.                           *)
Uncommitting ==
  \/ \E d \in Dirs : SaveResults(d)
  \/ OtherTakesLock \/ OtherReleasesLock \/ StartImport
  \/ \E t \in AllTables : DeleteTable(t)
  \/ DeleteDone
  \/ InsertTerm \/ TermMissing \/ TermDuplicate
  \/ ReadStatus \/ StatusMissing \/ ReadObjective \/ ObjectiveMissing
  \/ \E t \in Tables : SkipCsv(t) \/ CsvFails(t)
  \/ NextDir \/ Kill \/ UNCHANGED vars

LEMMA StepKinds ==
  ASSUME [Next]_vars
  PROVE  Uncommitting \/ (\E t \in Tables : ImportCsv(t)) \/ Finish
BY Zenon DEF Next, Uncommitting

LEMMA UncommittingKeeps ==
  ASSUME IInv, Uncommitting
  PROVE  IInv' /\ db' = db
<1>1. ASSUME NEW d \in Dirs, SaveResults(d) PROVE IInv' /\ db' = db
  BY <1>1, SaveResultsKeeps DEF SaveResults
<1>2. CASE OtherTakesLock \/ OtherReleasesLock \/ UNCHANGED vars
  BY <1>2, OthersKeep DEF OtherTakesLock, OtherReleasesLock, vars
<1>3. CASE StartImport
  BY <1>3, StartImportKeeps DEF StartImport
<1>4. ASSUME NEW t \in AllTables, DeleteTable(t) PROVE IInv' /\ db' = db
  BY <1>4, DeleteTableKeeps DEF DeleteTable
<1>5. CASE DeleteDone
  BY <1>5, DeleteDoneKeeps DEF DeleteDone
<1>6. CASE InsertTerm
  BY <1>6, InsertTermKeeps DEF InsertTerm
<1>7. CASE TermMissing \/ TermDuplicate \/ StatusMissing \/ ObjectiveMissing \/ Kill
  BY <1>7, FailsKeeps
  DEF TermMissing, TermDuplicate, StatusMissing, ObjectiveMissing, Kill
<1>8. CASE ReadStatus
  BY <1>8, ReadStatusKeeps DEF ReadStatus
<1>9. CASE ReadObjective
  BY <1>9, ReadObjectiveKeeps DEF ReadObjective
<1>10. ASSUME NEW t \in Tables, SkipCsv(t) PROVE IInv' /\ db' = db
  BY <1>10, SkipCsvKeeps DEF SkipCsv
<1>11. ASSUME NEW t \in Tables, CsvFails(t) PROVE IInv' /\ db' = db
  BY <1>11, FailsKeeps DEF CsvFails
<1>12. CASE NextDir
  BY <1>12, NextDirKeeps DEF NextDir
<1> QED
  BY <1>1, <1>2, <1>3, <1>4, <1>5, <1>6, <1>7, <1>8, <1>9, <1>10, <1>11, <1>12
  DEF Uncommitting

(* Everything the runs check of the import follows from this invariant.    *)
THEOREM ImportInvariant == Spec => []IInv
<1>1. IInv /\ [Next]_vars => IInv'
  BY StepKinds, UncommittingKeeps, ImportCsvKeeps, FinishKeeps
<1> QED
  BY InitIInv, <1>1, PTL DEF Spec

(* The types of the module, and with them that an import without an open   *)
(* transaction sees what is committed, and never writes beside another.    *)
THEOREM ImportTypes == Spec => []TypeOK
BY ImportInvariant, PTL DEF IInv

(* Whatever is in the results tables is of one import, each row beside its *)
(* row of results_scenario, however imports were cut short.                *)
THEOREM TablesOfOneImport == Spec => []OneImport
<1>1. IInv => OneImport
  BY DEF IInv, Clean, OneImport
<1> QED
  BY ImportInvariant, <1>1, PTL

(* What a complete import leaves in the results tables is what the results *)
(* directories hold, all of it and nothing else.                           *)
THEOREM ImportMirrorsFiles == Spec => []DoneMirrorsFiles
<1>1. IInv => DoneMirrorsFiles
  BY DEF IInv, Clean, DoneMirrorsFiles
<1> QED
  BY ImportInvariant, <1>1, PTL

(* No step, a kill or a table that was missed included, empties the        *)
(* results tables of a scenario that had results in them.                  *)
THEOREM ResultsAreReplaced == Spec => ResultsNeverVanish
<1> DEFINE Held == \E k \in DOMAIN db : db[k] # 0
           Stays == \E k \in DOMAIN db : db'[k] # 0
<1>1. ASSUME IInv, [Next]_vars, Held PROVE Stays
  <2>1. DOMAIN db = Keys
    BY <1>1 DEF IInv, TypeOK, Rows, Keys
  <2>2. db' = db \/ \E k \in Keys : db'[k] # 0
    BY <1>1, StepKinds, UncommittingKeeps, ImportCsvKeeps, FinishKeeps
  <2> QED
    BY <1>1, <2>1, <2>2
<1>2. IInv /\ [Next]_vars => [Held => Stays]_vars
  BY <1>1
<1> QED
  BY ImportInvariant, <1>2, PTL DEF Spec, ResultsNeverVanish
=============================================================================
