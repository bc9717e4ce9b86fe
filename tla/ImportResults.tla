--------------------------- MODULE ImportResults ---------------------------
(***************************************************************************)
(* gridpath_import_results: gridpath/import_scenario_results.py over the   *)
(* results directories that gridpath_run leaves behind (save_results of    *)
(* gridpath/run_scenario.py) and the results tables of the database.  The  *)
(* import is one connection, but not one transaction: pandas commits the   *)
(* connection after each CSV file, so a failure or a kill in the middle    *)
(* leaves the part of the import that was committed.                       *)
(***************************************************************************)
EXTENDS Naturals

CONSTANTS
  NDirs,        \* how many results directories the scenario has
  Tables,       \* the results tables that are filled from CSV files
  ModuleSets,   \* the sets of those that the modules in use may fill
  Rules,        \* the import rules, as the directories they let through
  MaxImports,   \* bound on the imports
  Faults        \* subset of {"kill", "lock"}

Dirs == 1..NDirs

(* results_scenario has one row for each directory, the other tables may   *)
(* have rows of a directory.                                               *)
AllTables == Tables \cup {"scenario"}

ASSUME ImportAssumption ==
  /\ NDirs \in Nat \ {0}
  /\ "scenario" \notin Tables
  /\ ModuleSets \subseteq SUBSET Tables
  /\ Rules \subseteq SUBSET Dirs
  /\ MaxImports \in Nat

VARIABLES
  files,     \* files[d]: what the results directory holds
  db,        \* db[<<d, t>>]: the import the rows of d in t are of, 0 if none
  draft,     \* the same, as the connection of the import sees it
  inTx,      \* that connection has a transaction open
  locked,    \* another program has the write lock
  pc,        \* where the import is
  dir,       \* the directory that it has come to
  pending,   \* the tables it has yet to delete from, or to fill from dir
  status,    \* its local variable solver_status
  import,    \* which import this is
  opts,      \* --ignore_incomplete, the import rule, the modules in use
  missed     \* whether a statement was ever given up on

imp == <<pc, dir, pending, status>>
vars == <<files, db, draft, inTx, locked, pc, dir, pending, status, import,
          opts, missed>>

------------------------------------------------------------------------------
Empty == [k \in Dirs \X AllTables |-> 0]

NoFiles == [status |-> "none", term |-> FALSE, csv |-> {}, obj |-> FALSE]

Options == [ignore : BOOLEAN, rule : Rules, modules : ModuleSets]

(* No import is under way.                                                 *)
Quiet == pc \in {"idle", "done", "failed"}

Init ==
  /\ files = [d \in Dirs |-> NoFiles]
  /\ db = Empty /\ draft = Empty /\ inTx = FALSE /\ locked = FALSE
  /\ pc = "idle" /\ dir = 1 /\ pending = {} /\ status = "unbound"
  /\ import = 0
  /\ opts \in Options
  /\ missed = FALSE

------------------------------------------------------------------------------
(* Files that save_results leaves, on top of those that were there: the    *)
(* status, the termination condition, and if the status is "ok" CSV files  *)
(* and at last the objective.  All are written over, none is removed.  A   *)
(* kill stops it after any of them; an export rule may leave out the CSVs. *)
Saved(old, st, last, written) ==
  [status |-> st,
   term |-> old.term \/ last # "status",
   csv |-> old.csv \cup written,
   obj |-> old.obj \/ last = "obj"]

LastFile(st) == IF st = "ok" THEN "obj" ELSE "term"

SaveResults(d) ==
  /\ Quiet
  /\ \E st \in {"ok", "warning"}, last \in {"status", "term", "csv", "obj"},
        written \in SUBSET Tables :
       /\ last \in {"csv", "obj"} => st = "ok"
       /\ last \in {"status", "term"} => written = {}
       /\ last = "obj" => written \in ModuleSets \cup {{}}
       /\ "kill" \in Faults \/ last = LastFile(st)
       /\ files' = [files EXCEPT ![d] = Saved(@, st, last, written)]
  /\ pc' = "idle"
  /\ UNCHANGED <<db, draft, inTx, locked, dir, pending, status, import, opts,
                 missed>>

(* Other programs open a transaction and end it.                           *)
OtherTakesLock ==
  /\ "lock" \in Faults /\ ~inTx /\ ~locked
  /\ locked' = TRUE
  /\ UNCHANGED <<files, db, draft, inTx, imp, import, opts, missed>>

OtherReleasesLock ==
  /\ locked
  /\ locked' = FALSE
  /\ UNCHANGED <<files, db, draft, inTx, imp, import, opts, missed>>

------------------------------------------------------------------------------
(* The statements of the import.                                           *)

(* A statement by way of spin_on_database_lock: it waits for the lock, and *)
(* after its last attempt it goes on without an error and without effect.  *)
Statement(new) ==
  \/ /\ ~locked
     /\ draft' = new
     /\ inTx' = TRUE
     /\ UNCHANGED missed
  \/ /\ locked
     /\ missed' = TRUE
     /\ UNCHANGED <<draft, inTx>>

(* Bug: what a failed import has done stays, with no transaction open.     *)
Fails_NoRollback ==
  /\ pc' = "failed" /\ UNCHANGED draft /\ inTx' = FALSE
  /\ dir' = 1 /\ pending' = {} /\ status' = "unbound"

(* The connection of a program that fails or is killed is rolled back.     *)
Fails ==
  /\ pc' = "failed" /\ draft' = db /\ inTx' = FALSE
  /\ dir' = 1 /\ pending' = {} /\ status' = "unbound"

StartImport ==
  /\ Quiet /\ import < MaxImports
  /\ opts' \in Options
  /\ import' = import + 1
  /\ draft' = db
  /\ pc' = "delete" /\ pending' = AllTables /\ dir' = 1 /\ status' = "unbound"
  /\ UNCHANGED <<files, db, inTx, locked, missed>>

(* Bug: the rows of the modules in use are deleted, those of others stay.  *)
ToDelete_OfModules == opts.modules \cup {"scenario"}

(* delete_scenario_results: all tables whose name starts with "results".   *)
ToDelete == AllTables

DeleteTable(t) ==
  /\ pc = "delete" /\ t \in pending
  /\ Statement([k \in Dirs \X AllTables |->
                  IF k[2] = t /\ t \in ToDelete THEN 0 ELSE draft[k]])
  /\ pending' = pending \ {t}
  /\ UNCHANGED <<files, db, locked, pc, dir, status, import, opts>>

(* Bug: the deletion is committed before there are new results.            *)
DeleteDone_Commits ==
  /\ pc = "delete" /\ pending = {}
  /\ pc' = "term"
  /\ db' = draft /\ inTx' = FALSE
  /\ UNCHANGED <<files, draft, locked, dir, pending, status, import, opts,
                 missed>>

DeleteDone ==
  /\ pc = "delete" /\ pending = {}
  /\ pc' = "term"
  /\ UNCHANGED <<files, db, draft, inTx, locked, dir, pending, status, import,
                 opts, missed>>

(* The row of results_scenario: with --ignore_incomplete a termination     *)
(* condition that is not there is replaced by a remark.                    *)
InsertTerm ==
  /\ pc = "term" /\ dir <= NDirs
  /\ files[dir].term \/ opts.ignore
  /\ draft[<<dir, "scenario">>] = 0
  /\ Statement([draft EXCEPT ![<<dir, "scenario">>] = import])
  /\ pc' = "status"
  /\ UNCHANGED <<files, db, locked, dir, pending, status, import, opts>>

TermMissing ==
  /\ pc = "term" /\ dir <= NDirs
  /\ ~files[dir].term /\ ~opts.ignore
  /\ Fails
  /\ UNCHANGED <<files, db, locked, import, opts, missed>>

(* The primary key holds; IntegrityError is none of the errors spun on.    *)
TermDuplicate ==
  /\ pc = "term" /\ dir <= NDirs /\ ~locked
  /\ draft[<<dir, "scenario">>] # 0
  /\ Fails
  /\ UNCHANGED <<files, db, locked, import, opts, missed>>

(* solver_status.txt.  When it is not there and the import goes on, the    *)
(* local variable keeps the value it has, from the previous directory.     *)
ReadStatus ==
  /\ pc = "status"
  /\ IF files[dir].status # "none" THEN status' = files[dir].status
                                   ELSE opts.ignore /\ UNCHANGED status
  /\ status' # "unbound"
  /\ pc' = IF status' = "ok" THEN "objective" ELSE "next"
  /\ UNCHANGED <<files, db, draft, inTx, locked, dir, pending, import, opts,
                 missed>>

(* FileNotFoundError, or the comparison of a variable with no value.       *)
StatusMissing ==
  /\ pc = "status" /\ files[dir].status = "none"
  /\ ~opts.ignore \/ status = "unbound"
  /\ Fails
  /\ UNCHANGED <<files, db, locked, import, opts, missed>>

(* import_objective_function_value: its UPDATE compares the INTEGER columns *)
(* of the iterations with the names of their directories, "" among them,   *)
(* and changes no row.  Then the rule is asked for the directory.          *)
ReadObjective ==
  /\ pc = "objective" /\ files[dir].obj
  /\ Statement(draft)
  /\ pc' = "csv"
  /\ pending' = IF dir \in opts.rule THEN opts.modules ELSE {}
  /\ UNCHANGED <<files, db, locked, dir, status, import, opts>>

ObjectiveMissing ==
  /\ pc = "objective" /\ ~files[dir].obj
  /\ Fails
  /\ UNCHANGED <<files, db, locked, import, opts, missed>>

(* import_csv: to_sql commits all that the connection has done.            *)
ImportCsv(t) ==
  /\ pc = "csv" /\ t \in pending /\ t \in files[dir].csv
  /\ ~locked /\ draft[<<dir, t>>] = 0
  /\ db' = [draft EXCEPT ![<<dir, t>>] = import]
  /\ draft' = db' /\ inTx' = FALSE
  /\ pending' = pending \ {t}
  /\ UNCHANGED <<files, locked, pc, dir, status, import, opts, missed>>

SkipCsv(t) ==
  /\ pc = "csv" /\ t \in pending /\ t \notin files[dir].csv
  /\ pending' = pending \ {t}
  /\ UNCHANGED <<files, db, draft, inTx, locked, pc, dir, status, import, opts,
                 missed>>

(* The command is an argument of spin_on_database_lock_generic: it has     *)
(* raised before that function can catch anything.                         *)
CsvFails(t) ==
  /\ pc = "csv" /\ t \in pending /\ t \in files[dir].csv
  /\ locked \/ draft[<<dir, t>>] # 0
  /\ Fails
  /\ UNCHANGED <<files, db, locked, import, opts, missed>>

NextDir ==
  /\ pc = "next" \/ (pc = "csv" /\ pending = {})
  /\ dir' = dir + 1
  /\ pc' = "term"
  /\ UNCHANGED <<files, db, draft, inTx, locked, pending, status, import, opts,
                 missed>>

(* Bug: the connection is closed without the last commit.                  *)
Finish_NoCommit ==
  /\ pc = "term" /\ dir > NDirs
  /\ draft' = db /\ inTx' = FALSE
  /\ pc' = "done" /\ dir' = 1 /\ status' = "unbound"
  /\ UNCHANGED <<files, db, locked, pending, import, opts, missed>>

Finish ==
  /\ pc = "term" /\ dir > NDirs
  /\ db' = draft /\ draft' = db' /\ inTx' = FALSE
  /\ pc' = "done" /\ dir' = 1 /\ status' = "unbound"
  /\ UNCHANGED <<files, locked, pending, import, opts, missed>>

(* The import is killed.                                                   *)
Kill ==
  /\ "kill" \in Faults /\ ~Quiet
  /\ Fails
  /\ UNCHANGED <<files, db, locked, import, opts, missed>>

Next ==
  \/ \E d \in Dirs : SaveResults(d)
  \/ OtherTakesLock \/ OtherReleasesLock
  \/ StartImport
  \/ \E t \in AllTables : DeleteTable(t)
  \/ DeleteDone
  \/ InsertTerm \/ TermMissing \/ TermDuplicate
  \/ ReadStatus \/ StatusMissing
  \/ ReadObjective \/ ObjectiveMissing
  \/ \E t \in Tables : ImportCsv(t) \/ SkipCsv(t) \/ CsvFails(t)
  \/ NextDir \/ Finish \/ Kill

Spec == Init /\ [][Next]_vars

------------------------------------------------------------------------------
Rows == [Dirs \X AllTables -> 0..import]

(* Everything is of its kind, the import without a transaction sees what   *)
(* is committed, and no two programs have a transaction open.              *)
TypeOK ==
  /\ files \in [Dirs -> [status : {"none", "ok", "warning"}, term : BOOLEAN,
                         csv : SUBSET Tables, obj : BOOLEAN]]
  /\ db \in Rows /\ draft \in Rows
  /\ inTx \in BOOLEAN /\ locked \in BOOLEAN /\ ~(inTx /\ locked)
  /\ ~inTx => draft = db
  /\ pc \in {"idle", "delete", "term", "status", "objective", "csv", "next",
             "done", "failed"}
  /\ dir \in 1..(NDirs + 1) /\ pending \subseteq AllTables
  /\ status \in {"unbound", "ok", "warning"}
  /\ import \in Nat /\ opts \in Options /\ missed \in BOOLEAN

(* Whatever is in the results tables is of one import, and no table has    *)
(* rows of a directory that has none in results_scenario: whenever imports *)
(* fail or are killed, and though every CSV file is committed on its own,  *)
(* provided no statement was given up on.  It rests on the deletion of all *)
(* results in import_scenario_results.py main and on the order in which a  *)
(* directory's rows are added.                                             *)
OneImport ==
  ~missed =>
    /\ \A j, k \in Dirs \X AllTables : db[j] # 0 /\ db[k] # 0 => db[j] = db[k]
    /\ \A d \in Dirs, t \in Tables : db[<<d, t>>] # 0 => db[<<d, "scenario">>] # 0

(* The rows that a complete import of these files adds.                    *)
Imported(d, t) ==
  \/ t = "scenario"
  \/ /\ files[d].status = "ok" /\ d \in opts.rule
     /\ t \in opts.modules /\ t \in files[d].csv

(* An import that ran to its end has left in the results tables exactly    *)
(* what the directories hold for the modules in use and the rule lets      *)
(* through, all of it its own, whatever earlier imports, of other modules  *)
(* or cut short, had left there (import_scenario_results.py main,          *)
(* delete_scenario_results), provided no statement was given up on.        *)
DoneMirrorsFiles ==
  pc = "done" /\ ~missed =>
    \A d \in Dirs, t \in AllTables :
      db[<<d, t>>] = IF Imported(d, t) THEN import ELSE 0

(* Once a scenario has results in the database no step leaves it with      *)
(* none: the deletion of the old results reaches the database only with    *)
(* the first of the new ones, however an import ends.                      *)
ResultsNeverVanish ==
  [][(\E k \in DOMAIN db : db[k] # 0) => \E k \in DOMAIN db : db'[k] # 0]_vars
=============================================================================
