------------------------- MODULE SubscenarioLoading -------------------------
(* Processes that load subscenarios and scenarios into one SQLite database:   *)
(* port_csvs_to_db.py loads everything, one subscenario or one id, with or    *)
(* without deleting what is there; scenario.py loads or deletes scenarios.    *)
(* The rows of an id are kept in parts, one per table: its name, its main     *)
(* rows, and further tables.  A part is one value, the process that inserted  *)
(* it.  A process executes a fixed sequence of statements and asks its user   *)
(* in between; SQLite lets one process write at a time, and a transaction is  *)
(* of its writer alone until it commits.                                      *)
EXTENDS Integers, Sequences

CONSTANTS
  Procs,        \* the processes
  Jobs,         \* what a process may be asked to do
  Ids,          \* the subscenario ids
  NParts,       \* of an id: how many tables hold its parts; 1 its name, 2 main
  BaseOf,       \* of an id: the one whose main rows name it, for an id of a
                \* project (sub_input_flag); for any other the id itself
  Children,     \* of an id: the parts with a foreign key to its name
  NotDeleted,   \* of an id: the parts determine_tables_to_delete_from leaves out
  Names,        \* the scenario names
  Null,         \* a scenario's column without an id
  Nobody,       \* no process
  Earlier       \* whoever loaded what is there at first

Parts(id) == 1 .. NParts[id]

(* The ids that a column of scenarios is for, and the ones of a project that  *)
(* the main rows of an id name.                                               *)
Columns == {id \in Ids : BaseOf[id] = id}
NamedBy(base) == {id \in Ids \ Columns : BaseOf[id] = base}

ASSUME LoadingAssumption ==
  /\ NParts \in [Ids -> Nat] /\ \A id \in Ids : NParts[id] > 1
  /\ BaseOf \in [Ids -> Columns]
  /\ Children \in [Ids -> SUBSET Nat] /\ NotDeleted \in [Ids -> SUBSET Nat]
  /\ \A id \in Ids : Children[id] \cup NotDeleted[id] \subseteq 2 .. NParts[id]
  /\ Null \notin Ids
  /\ Nobody \notin Procs \cup {Earlier}
  /\ Earlier \notin Procs
  /\ \A j \in Jobs :
       \/ j.kind = "reload" /\ j.id \in Ids
       \/ /\ j.kind = "load" /\ j.ids \in Seq(Ids) /\ j.gap \in {0, 1}
          /\ j.ids # << >>
          /\ \A m \in DOMAIN j.ids : NParts[j.ids[m]] = NParts[j.ids[1]]
       \/ /\ j.kind = "scenarios"
          /\ j.loads \in Seq([name : Names, ref : Columns \cup {Null}])
       \/ j.kind = "delete" /\ j.name \in Names

(* A statement: an operation on a part of an id, or on a scenario name.       *)
Stmt(op, id, part, name) == [op |-> op, id |-> id, part |-> part, name |-> name]
OfPart(op, id, part) == Stmt(op, id, part, Null)
OfId(op, id) == OfPart(op, id, 1)
OfName(op, name) == Stmt(op, Null, 1, name)
Commit == OfId("commit", Null)

(* One id is deleted and loaded again: the scenarios that use it are found,   *)
(* their column is emptied, the parts are deleted last first and inserted     *)
(* first to last, and the column is filled again.                             *)
Reload(id) ==
  LET n == NParts[id]
  IN  [m \in 1 .. 2 * n + 4 |->
         IF m = 1 THEN OfId("select", id)
         ELSE IF m = 2 THEN OfId("nullify", id)
         ELSE IF m <= n + 2 THEN OfPart("delete", id, n + 3 - m)
         ELSE IF m <= 2 * n + 2 THEN OfPart("insert", id, m - n - 2)
         ELSE IF m = 2 * n + 3 THEN OfId("repopulate", id)
         ELSE Commit]

(* The ids of a subscenario are loaded in the order of its rows in            *)
(* csv_structure.csv: the first inserts the name and the main part of every   *)
(* id, each further row one more part of every id.  gap = 1: every row is     *)
(* committed, as load_all_from_csv_structure does; gap = 0: all of them at    *)
(* the end.                                                                   *)
RowsEnd(ids, gap, rows) == 2 * Len(ids) + gap + (rows - 1) * (Len(ids) + gap)

LoadStmt(ids, gap, m) ==
  LET first == RowsEnd(ids, gap, 1)
      row == (m - first - 1) \div (Len(ids) + gap)
      pos == (m - first - 1) % (Len(ids) + gap)
  IN  IF m <= 2 * Len(ids) THEN OfPart("insert", ids[(m + 1) \div 2], 2 - (m % 2))
      ELSE IF m <= first \/ m > RowsEnd(ids, gap, NParts[ids[1]] - 1) THEN Commit
      ELSE IF pos = Len(ids) THEN Commit
      ELSE OfPart("insert", ids[pos + 1], row + 3)

Load(ids, gap) ==
  [m \in 1 .. RowsEnd(ids, gap, NParts[ids[1]] - 1) + 1 - gap |->
     LoadStmt(ids, gap, m)]

(* Scenarios are loaded one after the other: one that exists is deleted first *)
(* if the user agrees, else it is left as it is.  One commit at the end.      *)
LoadScenarios(loads) ==
  [m \in 1 .. 4 * Len(loads) + 1 |->
     IF m = 4 * Len(loads) + 1 THEN Commit
     ELSE LET load == loads[(m + 3) \div 4]
              step == (m + 3) % 4
          IN  IF step = 0 THEN OfName("lookup", load.name)
              ELSE IF step = 1 THEN OfName("clear", load.name)
              ELSE IF step = 2 THEN OfName("drop", load.name)
              ELSE Stmt("create", load.ref, 1, load.name)]

(* The scenario of one name is deleted: the user is asked before it is found. *)
DeleteScenario(name) ==
  << OfName("confirm", name), OfName("find", name), OfName("clear", name),
     OfName("drop", name), Commit >>

Program(j) ==
  CASE j.kind = "reload" -> Reload(j.id)
    [] j.kind = "load" -> Load(j.ids, j.gap)
    [] j.kind = "scenarios" -> LoadScenarios(j.loads)
    [] j.kind = "delete" -> DeleteScenario(j.name)

VARIABLES
  job,         \* what each process was asked to do
  committed,   \* the database as others see it
  work,        \* the database as the writer sees it
  writer,      \* who holds the write lock, or Nobody
  at,          \* the statement each process is at
  status,      \* "running", "asking" its user, "done", "failed", "exited", "killed"
  concerned,   \* the rows of scenarios each process selected
  lockedOut    \* whether a statement of the process was given up
vars == << job, committed, work, writer, at, status, concerned, lockedOut >>

Now(p) == Program(job[p])[at[p]]
View(p) == IF writer = p THEN work ELSE committed
Locked(p) == writer \notin {Nobody, p}
Live == {"running", "asking"}

(* Whether the main rows of the base of an id are there, and name it.         *)
InBase(db, id) == BaseOf[id] # id /\ db.parts[BaseOf[id]][2] # Nobody

(* Rows of scenarios by their scenario_id: the ones with an id in their       *)
(* column, the ones that use it there or by way of its base, the ones with a  *)
(* name.                                                                      *)
WithRef(db, id) == {r \in DOMAIN db.scenarios : db.scenarios[r].ref = id}
UsedBy(db, id) ==
  IF id \in Columns \/ InBase(db, id) THEN WithRef(db, BaseOf[id]) ELSE {}
Named(db, name) == {r \in DOMAIN db.scenarios : db.scenarios[r].name = name}

(* The column of some rows is set.                                            *)
SetRef(db, rows, ref) ==
  [db EXCEPT !.scenarios = [r \in DOMAIN @ |->
      [name |-> @[r].name, ref |-> IF r \in rows THEN ref ELSE @[r].ref]]]

(* Inserting a part: the key is new, a child has its parent, main rows have   *)
(* the ids they name.                                                         *)
CanInsert(db, id, part) ==
  /\ db.parts[id][part] = Nobody
  /\ part \in Children[id] => db.parts[id][1] # Nobody
  /\ part = 2 => \A i \in NamedBy(id) : db.parts[i][1] # Nobody

(* Deleting a part: the name last, when no scenario, child or base refers to  *)
(* it any more.                                                               *)
CanDelete(db, id, part) ==
  part = 1 => /\ WithRef(db, id) = {} /\ ~InBase(db, id)
              /\ \A k \in Children[id] : db.parts[id][k] = Nobody

SetPart(db, id, part, who) == [db EXCEPT !.parts[id][part] = who]

(* A new row of scenarios: scenario_id is AUTOINCREMENT, so it is larger than *)
(* any there has ever been.                                                   *)
(* Bug: the scenario_id is the primary key without AUTOINCREMENT, and the     *)
(* next one is the largest there is plus one.                                 *)
NewRow_Reused(db) ==
  CHOOSE r \in 1 .. db.last + 1 :
    /\ \A s \in DOMAIN db.scenarios : s < r
    /\ r = 1 \/ r - 1 \in DOMAIN db.scenarios

NewRow(db) == db.last + 1

(* Creating a scenario: its name is UNIQUE, the id it names exists.           *)
CanCreate(db, name, ref) ==
  /\ Named(db, name) = {}
  /\ ref # Null => db.parts[ref][1] # Nobody

Create(db, name, ref) ==
  LET row == NewRow(db)
  IN  [db EXCEPT !.last = row,
                 !.scenarios = [r \in DOMAIN @ \cup {row} |->
                    IF r = row THEN [name |-> name, ref |-> ref] ELSE @[r]]]

Drop(db, rows) == [db EXCEPT !.scenarios = [r \in DOMAIN @ \ rows |-> @[r]]]
Clear(db, rows) == [db EXCEPT !.results = @ \ rows]

-----------------------------------------------------------------------------
(* A process ends: what it has not committed is lost.                         *)
(* Bug: the connection is closed by a context that commits on its way out.    *)
Discard_Commits(p) ==
  IF writer = p THEN writer' = Nobody /\ committed' = work /\ work' = work
  ELSE UNCHANGED << committed, work, writer >>

(* Bug: a process that fails lets go of the lock without a rollback.          *)
Discard_KeepsWork(p) ==
  /\ IF writer = p THEN writer' = Nobody ELSE UNCHANGED writer
  /\ UNCHANGED << committed, work >>

Discard(p) ==
  /\ IF writer = p THEN writer' = Nobody /\ work' = committed
     ELSE UNCHANGED << work, writer >>
  /\ UNCHANGED committed

End(p, how) ==
  /\ Discard(p)
  /\ status' = [status EXCEPT ![p] = how]
  /\ UNCHANGED << job, at, concerned, lockedOut >>

Goto(p, m) == at' = [at EXCEPT ![p] = m]
Ask(p) == status' = [status EXCEPT ![p] = "asking"]

(* A statement that needs no lock, as it changes nothing.                     *)
Skip(p) ==
  /\ Goto(p, at[p] + 1)
  /\ UNCHANGED << job, committed, work, writer, status, concerned, lockedOut >>

(* A statement that writes: it takes the write lock, which stays with the     *)
(* process until it commits or ends.  A constraint that does not hold raises. *)
Write(p, ok, db) ==
  /\ ~Locked(p)
  /\ \/ /\ ok
        /\ work' = db /\ writer' = p
        /\ Goto(p, at[p] + 1)
        /\ UNCHANGED << job, committed, status, concerned, lockedOut >>
     \/ ~ok /\ End(p, "failed")

Running(p, op) ==
  status[p] = "running" /\ Now(p).op = op /\ at[p] \in DOMAIN Program(job[p])

(* confirm_and_temp_update_affected_tables: the rows are read, the user is    *)
(* asked if there are any, and then their column is emptied.  The base of the *)
(* id should be emptied of it as well, but its rows are looked for with       *)
(* sub_input_flag where the column is meant (:763), and none is found; an     *)
(* UPDATE that matches no row is left out.                                    *)
Select(p) ==
  /\ Running(p, "select")
  /\ LET rows == UsedBy(View(p), Now(p).id)
     IN  /\ concerned' = [concerned EXCEPT ![p] = rows]
         /\ IF rows # {} THEN Ask(p) /\ UNCHANGED at
            ELSE Goto(p, at[p] + 1) /\ UNCHANGED status
  /\ UNCHANGED << job, committed, work, writer, lockedOut >>

Nullify(p) ==
  /\ Running(p, "nullify")
  /\ IF concerned[p] = {} THEN Skip(p)
     ELSE Write(p, TRUE, SetRef(View(p), concerned[p], Null))

(* generic_delete_subscenario.                                                *)
DeletePart(p) ==
  /\ Running(p, "delete")
  /\ LET id == Now(p).id
         part == Now(p).part
     IN  IF part \in NotDeleted[id] THEN Skip(p)
         ELSE Write(p, CanDelete(View(p), id, part),
                    SetPart(View(p), id, part, Nobody))

(* generic_insert_subscenario_info and generic_insert_subscenario_data.       *)
InsertPart(p) ==
  /\ Running(p, "insert")
  /\ LET id == Now(p).id
         part == Now(p).part
     IN  Write(p, CanInsert(View(p), id, part), SetPart(View(p), id, part, p))

(* repopulate_tables.                                                         *)
Repopulate(p) ==
  /\ Running(p, "repopulate")
  /\ LET id == BaseOf[Now(p).id]
         rows == concerned[p] \cap DOMAIN View(p).scenarios
     IN  IF concerned[p] = {} THEN Skip(p)
         ELSE Write(p, rows # {} => View(p).parts[id][1] # Nobody,
                    SetRef(View(p), rows, id))

(* main of scenario.py: the name is looked up; a new one is created at once,  *)
(* for one that exists the user is asked.                                     *)
Lookup(p) ==
  /\ Running(p, "lookup")
  /\ LET rows == Named(View(p), Now(p).name)
     IN  /\ concerned' = [concerned EXCEPT ![p] = rows]
         /\ IF rows # {} THEN Ask(p) /\ UNCHANGED at
            ELSE Goto(p, at[p] + 3) /\ UNCHANGED status
  /\ UNCHANGED << job, committed, work, writer, lockedOut >>

Confirm(p) ==
  /\ Running(p, "confirm")
  /\ Ask(p)
  /\ UNCHANGED << job, committed, work, writer, at, concerned, lockedOut >>

Find(p) ==
  /\ Running(p, "find")
  /\ LET rows == Named(View(p), Now(p).name)
     IN  IF rows = {} THEN End(p, "failed")
         ELSE /\ concerned' = [concerned EXCEPT ![p] = rows]
              /\ Goto(p, at[p] + 1)
              /\ UNCHANGED << job, committed, work, writer, status, lockedOut >>

(* delete_scenario: first the results, then the row.                          *)
ClearResults(p) ==
  /\ Running(p, "clear")
  /\ Write(p, TRUE, Clear(View(p), concerned[p]))

DropRow(p) ==
  /\ Running(p, "drop")
  /\ Write(p, concerned[p] \cap View(p).results = {}, Drop(View(p), concerned[p]))

CreateRow(p) ==
  /\ Running(p, "create")
  /\ Write(p, CanCreate(View(p), Now(p).name, Now(p).id),
           Create(View(p), Now(p).name, Now(p).id))

CommitWork(p) ==
  /\ Running(p, "commit")
  /\ IF writer = p THEN committed' = work /\ writer' = Nobody
     ELSE UNCHANGED << committed, writer >>
  /\ IF at[p] = Len(Program(job[p]))
     THEN status' = [status EXCEPT ![p] = "done"] /\ UNCHANGED at
     ELSE Goto(p, at[p] + 1) /\ UNCHANGED status
  /\ UNCHANGED << job, work, concerned, lockedOut >>

(* spin_on_database_lock: another process holds the lock through every        *)
(* attempt.  "i == max_attempts" is never true, so the statement is passed    *)
(* over without a word.                                                       *)
Writing(p) ==
  \/ Now(p).op \in {"nullify", "repopulate"} /\ concerned[p] # {}
  \/ Now(p).op = "delete" /\ Now(p).part \notin NotDeleted[Now(p).id]
  \/ Now(p).op \in {"insert", "clear", "drop", "create"}

(* Bug: the attempts are not counted.                                         *)
AttemptsEnd_Never(p) == FALSE

AttemptsEnd(p) == Locked(p)

GiveUp(p) ==
  /\ status[p] = "running" /\ AttemptsEnd(p)
  /\ Writing(p) /\ at[p] \in DOMAIN Program(job[p])
  /\ Goto(p, at[p] + 1)
  /\ lockedOut' = [lockedOut EXCEPT ![p] = TRUE]
  /\ UNCHANGED << job, committed, work, writer, status, concerned >>

(* The user says yes: the process goes on.  No: a reload exits, a scenario is *)
(* left as it is.                                                             *)
Agree(p) ==
  /\ status[p] = "asking"
  /\ status' = [status EXCEPT ![p] = "running"]
  /\ Goto(p, at[p] + 1)
  /\ UNCHANGED << job, committed, work, writer, concerned, lockedOut >>

Refuse(p) ==
  /\ status[p] = "asking"
  /\ IF Now(p).op = "select" THEN End(p, "exited")
     ELSE /\ status' = [status EXCEPT ![p] = "running"]
          /\ Goto(p, at[p] + 4)
          /\ UNCHANGED << job, committed, work, writer, concerned, lockedOut >>

Kill(p) == status[p] \in Live /\ End(p, "killed")

Step(p) ==
  \/ Select(p) \/ Nullify(p) \/ DeletePart(p) \/ InsertPart(p) \/ Repopulate(p)
  \/ Lookup(p) \/ Confirm(p) \/ Find(p)
  \/ ClearResults(p) \/ DropRow(p) \/ CreateRow(p)
  \/ CommitWork(p) \/ GiveUp(p)

Next == \E p \in Procs : Step(p) \/ Agree(p) \/ Refuse(p) \/ Kill(p)

(* At first some ids are loaded, each with those it names, and one scenario   *)
(* may use one of them.                                                       *)
EarlierIds == {loaded \in SUBSET Ids : \A i \in loaded : NamedBy(i) \subseteq loaded}

EarlierScenarios(loaded) ==
  {<< >>} \cup
  {<< [name |-> n, ref |-> i] >> :
     n \in Names, i \in (loaded \cap Columns) \cup {Null}}

EarlierData(loaded, scenarios) ==
  [parts |-> [i \in Ids |-> [k \in Parts(i) |->
                 IF i \in loaded THEN Earlier ELSE Nobody]],
   scenarios |-> scenarios,
   results |-> DOMAIN scenarios,
   last |-> Len(scenarios)]

Init ==
  /\ job \in [Procs -> Jobs]
  /\ \E loaded \in EarlierIds : \E scenarios \in EarlierScenarios(loaded) :
       committed = EarlierData(loaded, scenarios)
  /\ work = committed
  /\ writer = Nobody
  /\ at = [p \in Procs |-> 1]
  /\ status = [p \in Procs |-> "running"]
  /\ concerned = [p \in Procs |-> {}]
  /\ lockedOut = [p \in Procs |-> FALSE]

Spec == Init /\ [][Next]_vars

(* A process that can execute its statement, or has waited long enough for    *)
(* the lock, does so; nobody has to answer.                                   *)
FairSpec == Spec /\ \A p \in Procs : WF_vars(Step(p))

-----------------------------------------------------------------------------
(* Rows have numbers no larger than the last one given, results are those of  *)
(* scenarios that are there.                                                  *)
DatabaseOK(db) ==
  /\ DOMAIN db.parts = Ids
  /\ \A i \in Ids : db.parts[i] \in [Parts(i) -> Procs \cup {Nobody, Earlier}]
  /\ DOMAIN db.scenarios \subseteq 1 .. db.last
  /\ \A r \in DOMAIN db.scenarios :
       db.scenarios[r] \in [name : Names, ref : Columns \cup {Null}]
  /\ db.results \subseteq DOMAIN db.scenarios
  /\ db.last \in Nat

(* Type correctness of the two databases, the lock and the processes; a       *)
(* database nobody writes to has no open transaction.                         *)
TypeOK ==
  /\ job \in [Procs -> Jobs]
  /\ DatabaseOK(committed) /\ DatabaseOK(work)
  /\ writer \in Procs \cup {Nobody}
  /\ writer = Nobody => work = committed
  /\ at \in [Procs -> Nat \ {0}]
  /\ status \in [Procs -> Live \cup {"done", "failed", "exited", "killed"}]
  /\ lockedOut \in [Procs -> BOOLEAN]

(* Processes that commit between the rows of csv_structure.csv.               *)
Piecemeal(p) == job[p].kind = "load" /\ job[p].gap = 1

(* An id is loaded as a whole or not at all, whatever is killed, refused or   *)
(* loaded by another process in between: its parts in the database are of one *)
(* process, and that process has ended well.  Not so for load_all, which      *)
(* commits after every row of csv_structure.csv (port_csvs_to_db.py:224), nor *)
(* for a process that passed over a statement when it was locked out: a part  *)
(* without a foreign key goes in alone.                                       *)
LoadedAsAWhole ==
  \A id \in Ids : \A p \in Procs \cup {Earlier} :
    /\ \E k \in Parts(id) : committed.parts[id][k] = p
    /\ p \in Procs => ~lockedOut[p] /\ ~Piecemeal(p)
    => /\ \A k \in Parts(id) : committed.parts[id][k] = p
       /\ p \in Procs => status[p] = "done"

(* A reload leaves the scenarios as they are when it commits: it empties and  *)
(* refills the column of the rows it selected before it had the lock, and     *)
(* although scenarios may have been deleted and loaded again while its user   *)
(* was asked, no scenario is given an id that it did not have                 *)
(* (common_functions.py: confirm_and_temp_update_affected_tables,             *)
(* repopulate_tables).                                                        *)
ReloadCommits(p) == CommitWork(p) /\ job[p].kind = "reload"

ReferencesKept ==
  [][\A p \in Procs : ReloadCommits(p) => committed'.scenarios = committed.scenarios]_vars

(* Every process ends or asks its user, even when another one keeps the lock  *)
(* because its own user never answers.                                        *)
LoadersEnd == \A p \in Procs : <>[](status[p] # "running")

=============================================================================
