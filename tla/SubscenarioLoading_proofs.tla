---------------------- MODULE SubscenarioLoading_proofs ----------------------
(* Proof that a reload leaves the scenarios as they are, for any processes,   *)
(* jobs, ids, parts and names.  A reload reads the rows that use its id       *)
(* before it holds the write lock, and writes to them by their number long    *)
(* after.  What makes this safe is in two parts: numbers are not given twice  *)
(* and a row never changes, so a row that was read is the same row or gone;   *)
(* and what a reload changes in its own transaction it has changed back by    *)
(* the time it commits.                                                       *)
EXTENDS SubscenarioLoading, TLAPS

IsReload(p) == job[p].kind = "reload"
Last(p) == 2 * NParts[job[p].id] + 4

(* A database as the operators build it: a record, with the scenarios as a    *)
(* function of row numbers that have been given.                              *)
Row(db, r) == [name |-> db.scenarios[r].name, ref |-> db.scenarios[r].ref]
IsDb(db) ==
  /\ db = [parts |-> db.parts, scenarios |-> db.scenarios,
           results |-> db.results, last |-> db.last]
  /\ db.last \in Nat
  /\ db.scenarios = [r \in DOMAIN db.scenarios |-> Row(db, r)]
  /\ DOMAIN db.scenarios \subseteq 1 .. db.last

(* The transaction of a reload that is at statement a: only the column of the *)
(* rows it selected may differ, and not once they are filled again.           *)
Touched(p, db, a) ==
  /\ db.last = committed.last
  /\ DOMAIN db.scenarios = DOMAIN committed.scenarios
  /\ \A r \in DOMAIN committed.scenarios :
       /\ db.scenarios[r].name = committed.scenarios[r].name
       /\ r \notin concerned[p] \/ a = Last(p) =>
            db.scenarios[r].ref = committed.scenarios[r].ref

(* The transaction of any other process: rows go, and new ones get numbers    *)
(* that have not been given before.                                           *)
Renewed(db) ==
  /\ db.last >= committed.last
  /\ \A r \in DOMAIN db.scenarios :
       \/ r \in DOMAIN committed.scenarios /\ Row(db, r) = Row(committed, r)
       \/ r > committed.last

Statuses == {"running", "asking", "done", "failed", "exited", "killed"}

TypeInv ==
  /\ job \in [Procs -> Jobs]
  /\ writer \in Procs \cup {Nobody}
  /\ at \in [Procs -> Nat]
  /\ status \in [Procs -> Statuses]
  /\ concerned \in [Procs -> SUBSET Nat]
  /\ IsDb(committed) /\ IsDb(work)
  /\ writer = Nobody => work = committed

(* Where a reload is: it asks only at its first statement, and has written    *)
(* nothing before the second.                                                 *)
PlaceInv ==
  \A p \in Procs : IsReload(p) =>
    /\ status[p] \in Live => at[p] \in 1 .. Last(p)
    /\ status[p] = "asking" => at[p] = 1
    /\ writer = p => at[p] > 1

(* The rows that a reload selected still use its id, if they are there.       *)
ConcernInv ==
  \A p \in Procs : IsReload(p) =>
    \A r \in concerned[p] :
      /\ r <= committed.last
      /\ r \in DOMAIN committed.scenarios => committed.scenarios[r].ref = BaseOf[job[p].id]

WorkInv ==
  \A p \in Procs : writer = p =>
    IF IsReload(p) THEN Touched(p, work, at[p]) ELSE Renewed(work)

IInv == TypeInv /\ PlaceInv /\ ConcernInv /\ WorkInv

-------------------------------------------------------------------------------
LEMMA LastInNat ==
  ASSUME NEW p \in Procs, IsReload(p), job[p] \in Jobs
  PROVE  /\ job[p].id \in Ids
         /\ NParts[job[p].id] \in Nat /\ NParts[job[p].id] > 1
         /\ Last(p) \in Nat /\ Last(p) > 7
<1>1. job[p].id \in Ids
  BY LoadingAssumption DEF IsReload
<1>2. NParts[job[p].id] \in Nat /\ NParts[job[p].id] > 1
  BY <1>1, LoadingAssumption
<1> QED
  BY <1>1, <1>2 DEF Last

(* What the statements of a reload are.                                       *)
LEMMA ReloadOps ==
  ASSUME IInv, NEW p \in Procs, IsReload(p), at[p] \in DOMAIN Program(job[p])
  PROVE  /\ at[p] \in 1 .. Last(p)
         /\ Len(Program(job[p])) = Last(p)
         /\ Now(p).op \in {"select", "nullify", "delete", "insert", "repopulate", "commit"}
         /\ Now(p).op = "select" <=> at[p] = 1
         /\ Now(p).op = "repopulate" <=> at[p] = Last(p) - 1
         /\ Now(p).op = "commit" <=> at[p] = Last(p)
         /\ Now(p).op # "commit" => Now(p).id = job[p].id
<1>1. Program(job[p]) = Reload(job[p].id)
  BY DEF Program, IsReload
<1> DEFINE n == NParts[job[p].id]
<1>2. n \in Nat /\ n > 1 /\ Last(p) = 2 * n + 4
  BY LastInNat DEF IInv, TypeInv, Last
<1>3. DOMAIN Reload(job[p].id) = 1 .. Last(p)
  BY DEF Reload, Last
<1>4. at[p] \in 1 .. Last(p)
  BY <1>1, <1>3
<1>5. Len(Reload(job[p].id)) = Last(p)
  <2> DEFINE S == {Reload(job[p].id)[m] : m \in 1 .. Last(p)}
  <2>1. Reload(job[p].id) \in [1 .. Last(p) -> S]
    BY DEF Reload, Last
  <2>2. Last(p) \in Nat
    BY <1>2 DEF Last
  <2> HIDE DEF S
  <2>3. \A i \in Nat : \A f \in [1 .. i -> S] : f \in Seq(S) /\ Len(f) = i
    OBVIOUS
  <2> QED
    BY <2>1, <2>2, <2>3
<1>6. Now(p) = IF at[p] = 1 THEN OfId("select", job[p].id)
               ELSE IF at[p] = 2 THEN OfId("nullify", job[p].id)
               ELSE IF at[p] <= n + 2
                    THEN OfPart("delete", job[p].id, n + 3 - at[p])
               ELSE IF at[p] <= 2 * n + 2
                    THEN OfPart("insert", job[p].id, at[p] - n - 2)
               ELSE IF at[p] = 2 * n + 3 THEN OfId("repopulate", job[p].id)
               ELSE Commit
  BY <1>1, <1>4 DEF Now, Reload, Last
<1> QED
  <2> HIDE DEF n
  <2> QED
    BY <1>1, <1>2, <1>4, <1>5, <1>6 DEF OfId, OfPart, Stmt, Commit

(* No other program touches the column of a scenario.                         *)
LEMMA OtherOps ==
  ASSUME NEW p \in Procs, job[p] \in Jobs, ~IsReload(p),
         at[p] \in DOMAIN Program(job[p])
  PROVE  Now(p).op \notin {"select", "nullify", "repopulate"}
<1>1. CASE job[p].kind = "load"
  <2>1. Program(job[p]) = Load(job[p].ids, job[p].gap)
    BY <1>1 DEF Program
  <2>2. Now(p) = LoadStmt(job[p].ids, job[p].gap, at[p])
    BY <2>1 DEF Now, Load
  <2>3. ASSUME NEW ids, NEW gap, NEW m
        PROVE  LoadStmt(ids, gap, m).op \in {"insert", "commit"}
    <3> DEFINE first == RowsEnd(ids, gap, 1)
               row == (m - first - 1) \div (Len(ids) + gap)
               pos == (m - first - 1) % (Len(ids) + gap)
               last == RowsEnd(ids, gap, NParts[ids[1]] - 1)
               half == (m + 1) \div 2
               part == 2 - (m % 2)
               more == row + 3
               next == pos + 1
    <3>1. LoadStmt(ids, gap, m) =
            IF m <= 2 * Len(ids) THEN OfPart("insert", ids[half], part)
            ELSE IF m <= first \/ m > last THEN Commit
            ELSE IF pos = Len(ids) THEN Commit
            ELSE OfPart("insert", ids[next], more)
      BY Zenon DEF LoadStmt
    <3> HIDE DEF first, row, pos, last, half, part, more, next
    <3> QED
      BY <3>1 DEF OfPart, OfId, Stmt, Commit
  <2>4. Now(p).op \in {"insert", "commit"}
    BY <2>2, <2>3 DEF OfPart, OfId, Stmt, Commit
  <2> QED
    BY <2>4
<1>2. CASE job[p].kind = "scenarios"
  <2>1. Program(job[p]) = LoadScenarios(job[p].loads)
    BY <1>2 DEF Program
  <2>2. Now(p).op \in {"lookup", "clear", "drop", "create", "commit"}
    BY <2>1 DEF Now, LoadScenarios, OfName, OfPart, OfId, Stmt, Commit
  <2> QED
    BY <2>2
<1>3. CASE job[p].kind = "delete"
  <2>1. Program(job[p]) = DeleteScenario(job[p].name)
    BY <1>3 DEF Program
  <2>2. at[p] \in 1 .. 5
    BY <2>1 DEF DeleteScenario
  <2>3. Now(p).op \in {"confirm", "find", "clear", "drop", "commit"}
    BY <2>1, <2>2 DEF Now, DeleteScenario, OfName, OfPart, OfId, Stmt, Commit
  <2> QED
    BY <2>3
<1> QED
  BY <1>1, <1>2, <1>3, LoadingAssumption DEF IsReload

-------------------------------------------------------------------------------
(* The operations keep a database a database, and what they change of the     *)
(* scenarios.                                                                 *)
LEMMA SetRefDb ==
  ASSUME NEW db, IsDb(db), NEW rows, NEW ref
  PROVE  /\ IsDb(SetRef(db, rows, ref))
         /\ SetRef(db, rows, ref).last = db.last
         /\ DOMAIN SetRef(db, rows, ref).scenarios = DOMAIN db.scenarios
         /\ \A r \in DOMAIN db.scenarios :
              /\ SetRef(db, rows, ref).scenarios[r].name = db.scenarios[r].name
              /\ SetRef(db, rows, ref).scenarios[r].ref =
                   IF r \in rows THEN ref ELSE db.scenarios[r].ref
<1> DEFINE new == [r \in DOMAIN db.scenarios |->
                     [name |-> db.scenarios[r].name,
                      ref |-> IF r \in rows THEN ref ELSE db.scenarios[r].ref]]
<1>1. SetRef(db, rows, ref) = [parts |-> db.parts, scenarios |-> new,
                               results |-> db.results, last |-> db.last]
  BY DEF SetRef, IsDb
<1>2. \A r \in DOMAIN db.scenarios :
        new[r] = [name |-> new[r].name, ref |-> new[r].ref]
  OBVIOUS
<1>3. new = [r \in DOMAIN new |-> [name |-> new[r].name, ref |-> new[r].ref]]
  BY <1>2
<1> HIDE DEF new
<1>4. IsDb([parts |-> db.parts, scenarios |-> new,
            results |-> db.results, last |-> db.last])
  <2>1. DOMAIN new = DOMAIN db.scenarios
    BY DEF new
  <2> QED
    BY <1>3, <2>1 DEF IsDb, Row
<1>5. \A r \in DOMAIN db.scenarios :
        /\ new[r].name = db.scenarios[r].name
        /\ new[r].ref = IF r \in rows THEN ref ELSE db.scenarios[r].ref
  BY DEF new
<1>6. DOMAIN new = DOMAIN db.scenarios
  BY DEF new
<1> QED
  BY <1>1, <1>4, <1>5, <1>6

LEMMA SetPartDb ==
  ASSUME NEW db, IsDb(db), NEW id, NEW part, NEW who
  PROVE  /\ IsDb(SetPart(db, id, part, who))
         /\ SetPart(db, id, part, who).last = db.last
         /\ SetPart(db, id, part, who).scenarios = db.scenarios
<1> DEFINE parts == [db.parts EXCEPT ![id][part] = who]
<1>1. SetPart(db, id, part, who) = [parts |-> parts, scenarios |-> db.scenarios,
                                    results |-> db.results, last |-> db.last]
  BY DEF SetPart, IsDb
<1> HIDE DEF parts
<1> QED
  BY <1>1 DEF IsDb, Row

LEMMA ClearDb ==
  ASSUME NEW db, IsDb(db), NEW rows
  PROVE  /\ IsDb(Clear(db, rows))
         /\ Clear(db, rows).last = db.last
         /\ Clear(db, rows).scenarios = db.scenarios
<1>1. Clear(db, rows) = [parts |-> db.parts, scenarios |-> db.scenarios,
                         results |-> db.results \ rows, last |-> db.last]
  BY DEF Clear, IsDb
<1> QED
  BY <1>1 DEF IsDb, Row

LEMMA DropDb ==
  ASSUME NEW db, IsDb(db), NEW rows
  PROVE  /\ IsDb(Drop(db, rows))
         /\ Drop(db, rows).last = db.last
         /\ \A r \in DOMAIN Drop(db, rows).scenarios :
              /\ r \in DOMAIN db.scenarios
              /\ Drop(db, rows).scenarios[r] = db.scenarios[r]
<1> DEFINE new == [r \in DOMAIN db.scenarios \ rows |-> db.scenarios[r]]
<1>1. Drop(db, rows) = [parts |-> db.parts, scenarios |-> new,
                        results |-> db.results, last |-> db.last]
  BY DEF Drop, IsDb
<1>2. \A r \in DOMAIN new : r \in DOMAIN db.scenarios /\ new[r] = db.scenarios[r]
  OBVIOUS
<1>3. \A r \in DOMAIN db.scenarios : db.scenarios[r] = Row(db, r)
  BY DEF IsDb
<1>4. new = [r \in DOMAIN new |-> [name |-> new[r].name, ref |-> new[r].ref]]
  BY <1>2, <1>3 DEF Row
<1> HIDE DEF new
<1> QED
  BY <1>1, <1>2, <1>4 DEF IsDb, Row

LEMMA CreateDb ==
  ASSUME NEW db, IsDb(db), NEW name, NEW ref
  PROVE  /\ IsDb(Create(db, name, ref))
         /\ Create(db, name, ref).last = db.last + 1
         /\ \A r \in DOMAIN Create(db, name, ref).scenarios :
              \/ /\ r \in DOMAIN db.scenarios
                 /\ Create(db, name, ref).scenarios[r] = db.scenarios[r]
              \/ r = db.last + 1
<1> DEFINE new == [r \in DOMAIN db.scenarios \cup {db.last + 1} |->
                     IF r = db.last + 1 THEN [name |-> name, ref |-> ref]
                     ELSE db.scenarios[r]]
<1>1. Create(db, name, ref) = [parts |-> db.parts, scenarios |-> new,
                               results |-> db.results, last |-> db.last + 1]
  <2>1. Create(db, name, ref) = [db EXCEPT !.last = db.last + 1, !.scenarios = new]
    BY Zenon DEF Create, NewRow
  <2> HIDE DEF new
  <2> QED
    BY <2>1 DEF IsDb
<1>2. \A r \in DOMAIN new :
        \/ r \in DOMAIN db.scenarios /\ new[r] = db.scenarios[r]
        \/ r = db.last + 1 /\ new[r] = [name |-> name, ref |-> ref]
  OBVIOUS
<1>3. \A r \in DOMAIN db.scenarios : db.scenarios[r] = Row(db, r)
  BY DEF IsDb
<1>4. new = [r \in DOMAIN new |-> [name |-> new[r].name, ref |-> new[r].ref]]
  BY <1>2, <1>3 DEF Row
<1>5. DOMAIN new \subseteq 1 .. db.last + 1 /\ db.last + 1 \in Nat
  BY DEF IsDb
<1> HIDE DEF new
<1> QED
  BY <1>1, <1>2, <1>4, <1>5 DEF IsDb, Row

-------------------------------------------------------------------------------
LEMMA InitInv == Init => IInv
<1> SUFFICES ASSUME Init PROVE IInv
  OBVIOUS
<1>1. Nobody \notin Procs
  BY LoadingAssumption
<1>2. IsDb(committed)
  <2>1. PICK loaded \in EarlierIds : \E scenarios \in EarlierScenarios(loaded) :
          committed = EarlierData(loaded, scenarios)
    BY DEF Init
  <2>2. PICK scenarios \in EarlierScenarios(loaded) :
          committed = EarlierData(loaded, scenarios)
    BY <2>1
  <2>3. /\ Len(scenarios) \in Nat
        /\ DOMAIN scenarios = 1 .. Len(scenarios)
        /\ scenarios = [r \in DOMAIN scenarios |->
             [name |-> scenarios[r].name, ref |-> scenarios[r].ref]]
    <3>1. CASE scenarios = << >>
      BY <3>1
    <3>2. ASSUME NEW n, NEW i, scenarios = << [name |-> n, ref |-> i] >>
          PROVE  <2>3
      BY <3>2
    <3> QED
      BY <3>1, <3>2 DEF EarlierScenarios
  <2>4. committed = [parts |-> committed.parts, scenarios |-> scenarios,
                     results |-> DOMAIN scenarios, last |-> Len(scenarios)]
    BY <2>2 DEF EarlierData
  <2> QED
    BY <2>3, <2>4 DEF IsDb, Row
<1>3. TypeInv
  BY <1>2 DEF Init, TypeInv, Statuses
<1>4. PlaceInv
  <2>1. \A p \in Procs : IsReload(p) => Last(p) \in Nat /\ Last(p) > 7
    BY LastInNat DEF Init
  <2> QED
    BY <1>1, <2>1 DEF Init, PlaceInv, Live
<1>5. ConcernInv /\ WorkInv
  BY <1>1 DEF Init, ConcernInv, WorkInv
<1> QED
  BY <1>3, <1>4, <1>5 DEF IInv

(* A process ends without committing.                                         *)
LEMMA EndStep ==
  ASSUME IInv, NEW p \in Procs, NEW how \in Statuses \ Live, End(p, how)
  PROVE  IInv'
<1>1. TypeInv'
  BY DEF IInv, TypeInv, End, Discard, IsDb, Row
<1>2. PlaceInv'
  BY LoadingAssumption DEF IInv, TypeInv, PlaceInv, End, Discard, IsReload, Live, Last
<1>3. ConcernInv'
  BY DEF IInv, ConcernInv, End, Discard, IsReload
<1>4. WorkInv'
  <2> SUFFICES ASSUME NEW q \in Procs, writer' = q
               PROVE  IF IsReload(q)' THEN Touched(q, work, at[q])' ELSE Renewed(work)'
    BY DEF WorkInv
  <2>1. writer = q /\ UNCHANGED << job, committed, work, at, concerned >>
    BY LoadingAssumption DEF End, Discard
  <2>2. IF IsReload(q) THEN Touched(q, work, at[q]) ELSE Renewed(work)
    BY <2>1 DEF IInv, WorkInv
  <2> QED
    BY <2>1, <2>2 DEF IsReload, Touched, Renewed, Row, Last
<1> QED
  BY <1>1, <1>2, <1>3, <1>4 DEF IInv

(* A process writes in its transaction, or fails.                             *)
LEMMA WriteStep ==
  ASSUME IInv, NEW p \in Procs, status[p] = "running",
         NEW ok, NEW db, IsDb(db), Write(p, ok, db),
         IsReload(p) => at[p] \in 2 .. Last(p) - 1 /\ Touched(p, db, at[p] + 1),
         ~IsReload(p) => Renewed(db)
  PROVE  IInv'
<1>1. CASE End(p, "failed")
  <2>1. "failed" \in Statuses \ Live
    BY DEF Statuses, Live
  <2> QED
    BY <1>1, <2>1, EndStep
<1>2. CASE /\ work' = db /\ writer' = p
           /\ at' = [at EXCEPT ![p] = at[p] + 1]
           /\ UNCHANGED << job, committed, status, concerned, lockedOut >>
  <2>0. Nobody \notin Procs /\ (IsReload(p) => Last(p) \in Nat)
    BY LoadingAssumption, LastInNat DEF IInv, TypeInv
  <2>1. TypeInv'
    <3>1. IsDb(work)' /\ IsDb(committed)'
      BY <1>2 DEF IInv, TypeInv, IsDb, Row
    <3> QED
      BY <1>2, <2>0, <3>1 DEF IInv, TypeInv
  <2>2. PlaceInv'
    BY <1>2, <2>0 DEF IInv, TypeInv, PlaceInv, IsReload, Live, Last
  <2>3. ConcernInv'
    BY <1>2 DEF IInv, ConcernInv, IsReload
  <2>4. WorkInv'
    <3>1. \A q \in Procs : writer' = q => q = p
      BY <1>2
    <3>2. at'[p] = at[p] + 1
      BY <1>2 DEF IInv, TypeInv
    <3>3. IsReload(p)' = IsReload(p)
      BY <1>2 DEF IsReload
    <3>4. IsReload(p) => Touched(p, work, at[p])'
      BY <1>2, <3>2 DEF Touched, Last
    <3>5. ~IsReload(p) => Renewed(work)'
      BY <1>2 DEF Renewed, Row
    <3> QED
      BY <3>1, <3>3, <3>4, <3>5 DEF WorkInv
  <2> QED
    BY <2>1, <2>2, <2>3, <2>4 DEF IInv
<1> QED
  BY <1>1, <1>2 DEF Write, Goto

(* A process goes on without writing.                                         *)
LEMMA GoOn ==
  ASSUME IInv, NEW p \in Procs, NEW m \in Nat, NEW s \in Statuses,
         UNCHANGED << job, committed, work, writer, concerned >>,
         at' = [at EXCEPT ![p] = m],
         status' = [status EXCEPT ![p] = s],
         IsReload(p) => /\ s \in Live => m \in 1 .. Last(p)
                        /\ s = "asking" => m = 1
                        /\ writer = p => m > 1 /\ Touched(p, work, m)
  PROVE  IInv'
<1>1. TypeInv'
  BY DEF IInv, TypeInv, IsDb, Row
<1>2. PlaceInv'
  BY DEF IInv, TypeInv, PlaceInv, IsReload, Live, Last
<1>3. ConcernInv'
  BY DEF IInv, ConcernInv, IsReload
<1>4. WorkInv'
  <2> SUFFICES ASSUME NEW q \in Procs, writer = q
               PROVE  IF IsReload(q)' THEN Touched(q, work, at[q])' ELSE Renewed(work)'
    BY DEF WorkInv
  <2>1. IsReload(q)' = IsReload(q)
    BY DEF IsReload
  <2>2. CASE ~IsReload(q)
    BY <2>1, <2>2 DEF IInv, WorkInv, Renewed, Row
  <2>3. CASE IsReload(q) /\ q # p
    BY <2>1, <2>3 DEF IInv, TypeInv, WorkInv, Touched, Last
  <2>4. CASE IsReload(q) /\ q = p
    BY <2>1, <2>4 DEF IInv, TypeInv, Touched, Last
  <2> QED
    BY <2>2, <2>3, <2>4
<1> QED
  BY <1>1, <1>2, <1>3, <1>4 DEF IInv

-------------------------------------------------------------------------------
(* What a process sees is the database with what it did to it itself.         *)
LEMMA ViewOk ==
  ASSUME IInv, NEW p \in Procs
  PROVE  /\ IsDb(View(p))
         /\ IsReload(p) => Touched(p, View(p), at[p])
         /\ ~IsReload(p) => Renewed(View(p))
<1>1. CASE writer = p
  BY <1>1 DEF IInv, TypeInv, WorkInv, View
<1>2. CASE writer # p
  BY <1>2 DEF IInv, TypeInv, View, Touched, Renewed, IsDb, Last
<1> QED
  BY <1>1, <1>2

LEMMA AtInNat ==
  ASSUME IInv, NEW p \in Procs
  PROVE  /\ at[p] \in Nat /\ at[p] + 1 \in Nat
         /\ IsReload(p) => Last(p) \in Nat /\ Last(p) > 7
  BY LastInNat DEF IInv, TypeInv

(* A statement that is passed over.                                           *)
LEMMA SkipStep ==
  ASSUME IInv, NEW p \in Procs, status[p] = "running", Skip(p),
         IsReload(p), at[p] \in 2 .. Last(p) - 1,
         at[p] = Last(p) - 1 => concerned[p] = {}
  PROVE  IInv'
<1>1. writer = p => Touched(p, work, at[p] + 1)
  BY AtInNat DEF IInv, WorkInv, Touched, Last
<1>2. /\ at' = [at EXCEPT ![p] = at[p] + 1]
      /\ status' = [status EXCEPT ![p] = "running"]
      /\ UNCHANGED << job, committed, work, writer, concerned >>
  BY DEF Skip, Goto, IInv, TypeInv
<1>3. at[p] + 1 \in 1 .. Last(p) /\ at[p] + 1 > 1 /\ at[p] + 1 \in Nat
  BY AtInNat
<1>4. "running" \in Statuses /\ "running" # "asking"
  BY DEF Statuses
<1> QED
  BY <1>1, <1>2, <1>3, <1>4, GoOn

LEMMA SelectStep ==
  ASSUME IInv, NEW p \in Procs, Select(p)
  PROVE  IInv'
<1> DEFINE rows == UsedBy(View(p), Now(p).id)
<1>1. /\ status[p] = "running" /\ Now(p).op = "select"
      /\ at[p] \in DOMAIN Program(job[p])
      /\ UNCHANGED << job, committed, work, writer >>
      /\ concerned' = [concerned EXCEPT ![p] = rows]
      /\ \/ status' = [status EXCEPT ![p] = "asking"] /\ UNCHANGED at
         \/ at' = [at EXCEPT ![p] = at[p] + 1] /\ UNCHANGED status
  BY DEF Select, Running, Ask, Goto
<1>2. IsReload(p)
  BY <1>1, OtherOps DEF IInv, TypeInv
<1>3. at[p] = 1 /\ Now(p).id = job[p].id
  BY <1>1, <1>2, ReloadOps
<1>4. writer # p
  BY <1>2, <1>3 DEF IInv, PlaceInv, Last
<1>5. rows = UsedBy(committed, job[p].id)
  BY <1>3, <1>4 DEF View
<1> HIDE DEF rows
<1>6. rows \subseteq DOMAIN committed.scenarios /\ rows \subseteq 1 .. committed.last
  BY <1>5 DEF UsedBy, WithRef, IInv, TypeInv, IsDb
<1>7. TypeInv'
  <2>1. rows \in SUBSET Nat
    BY <1>6 DEF IInv, TypeInv, IsDb
  <2>2. status' \in [Procs -> Statuses]
    BY <1>1 DEF IInv, TypeInv, Statuses
  <2> QED
    BY <1>1, <2>1, <2>2, AtInNat DEF IInv, TypeInv, IsDb, Row
<1>8. PlaceInv'
  BY <1>1, <1>3, <1>4, AtInNat DEF IInv, TypeInv, PlaceInv, IsReload, Live, Last
<1>9. ConcernInv'
  <2> SUFFICES ASSUME NEW q \in Procs, IsReload(q)', NEW r \in concerned'[q]
               PROVE  /\ r <= committed'.last
                      /\ r \in DOMAIN committed'.scenarios =>
                           committed'.scenarios[r].ref = BaseOf[job'[q].id]
    BY DEF ConcernInv
  <2>1. CASE q = p
    BY <1>1, <1>5, <1>6, <2>1 DEF IInv, TypeInv, UsedBy, WithRef, IsDb
  <2>2. CASE q # p
    BY <1>1, <2>2 DEF IInv, TypeInv, ConcernInv, IsReload
  <2> QED
    BY <2>1, <2>2
<1>10. WorkInv'
  <2> SUFFICES ASSUME NEW q \in Procs, writer = q
               PROVE  IF IsReload(q)' THEN Touched(q, work, at[q])' ELSE Renewed(work)'
    BY <1>1 DEF WorkInv
  <2>1. q # p /\ at'[q] = at[q] /\ concerned'[q] = concerned[q]
    BY <1>1, <1>4 DEF IInv, TypeInv
  <2> QED
    BY <1>1, <2>1 DEF IInv, WorkInv, IsReload, Touched, Renewed, Row, Last
<1> QED
  BY <1>7, <1>8, <1>9, <1>10 DEF IInv

LEMMA NullifyStep ==
  ASSUME IInv, NEW p \in Procs, Nullify(p)
  PROVE  IInv'
<1>1. /\ status[p] = "running" /\ Now(p).op = "nullify"
      /\ at[p] \in DOMAIN Program(job[p])
  BY DEF Nullify, Running
<1>2. IsReload(p)
  BY <1>1, OtherOps DEF IInv, TypeInv
<1>3. at[p] \in 2 .. Last(p) - 2
  BY <1>1, <1>2, ReloadOps, AtInNat
<1>4. CASE Skip(p)
  BY <1>1, <1>2, <1>3, <1>4, SkipStep, AtInNat
<1>5. CASE Write(p, TRUE, SetRef(View(p), concerned[p], Null))
  <2> DEFINE db == SetRef(View(p), concerned[p], Null)
  <2>1. IsDb(View(p)) /\ Touched(p, View(p), at[p])
    BY <1>2, ViewOk
  <2>2. /\ IsDb(db) /\ db.last = View(p).last
        /\ DOMAIN db.scenarios = DOMAIN View(p).scenarios
        /\ \A r \in DOMAIN View(p).scenarios :
             /\ db.scenarios[r].name = View(p).scenarios[r].name
             /\ db.scenarios[r].ref = IF r \in concerned[p] THEN Null
                                      ELSE View(p).scenarios[r].ref
    BY <2>1, SetRefDb
  <2> HIDE DEF db
  <2>3. Write(p, TRUE, db)
    BY <1>5 DEF db
  <2>4. at[p] \in 2 .. Last(p) - 1 /\ at[p] + 1 # Last(p)
    BY <1>2, <1>3, AtInNat
  <2>5. Touched(p, db, at[p] + 1)
    BY <2>1, <2>2, <2>4 DEF Touched, Last
  <2> QED
    BY <1>1, <1>2, <2>2, <2>3, <2>4, <2>5, WriteStep
<1> QED
  BY <1>4, <1>5 DEF Nullify

LEMMA RepopulateStep ==
  ASSUME IInv, NEW p \in Procs, Repopulate(p)
  PROVE  IInv'
<1> DEFINE base == BaseOf[Now(p).id]
           rows == concerned[p] \cap DOMAIN View(p).scenarios
           ok == rows # {} => View(p).parts[base][1] # Nobody
           db == SetRef(View(p), rows, base)
<1>1. /\ status[p] = "running" /\ Now(p).op = "repopulate"
      /\ at[p] \in DOMAIN Program(job[p])
  BY DEF Repopulate, Running
<1>2. IsReload(p)
  BY <1>1, OtherOps DEF IInv, TypeInv
<1>3. at[p] = Last(p) - 1 /\ Now(p).id = job[p].id
  BY <1>1, <1>2, ReloadOps
<1>4. at[p] \in 2 .. Last(p) - 1 /\ at[p] + 1 = Last(p)
  BY <1>2, <1>3, AtInNat
<1>5. CASE concerned[p] = {} /\ Skip(p)
  BY <1>1, <1>2, <1>4, <1>5, SkipStep
<1>6. CASE Write(p, ok, db)
  <2>1. IsDb(View(p)) /\ Touched(p, View(p), at[p])
    BY <1>2, ViewOk
  <2>2. IsDb(db) /\ db.last = View(p).last
        /\ DOMAIN db.scenarios = DOMAIN View(p).scenarios
        /\ \A r \in DOMAIN View(p).scenarios :
             /\ db.scenarios[r].name = View(p).scenarios[r].name
             /\ db.scenarios[r].ref = IF r \in rows THEN base
                                      ELSE View(p).scenarios[r].ref
    BY <2>1, SetRefDb
  <2>3. \A r \in concerned[p] : r \in DOMAIN committed.scenarios =>
          committed.scenarios[r].ref = base
    BY <1>2, <1>3 DEF IInv, ConcernInv
  <2> HIDE DEF db, ok
  <2>4. Touched(p, db, at[p] + 1)
    <3>1. \A r \in DOMAIN View(p).scenarios : r \in rows <=> r \in concerned[p]
      OBVIOUS
    <3> HIDE DEF rows
    <3> QED
      BY <2>1, <2>2, <2>3, <3>1 DEF Touched, Last
  <2> QED
    BY <1>1, <1>2, <1>4, <1>6, <2>2, <2>4, WriteStep
<1> QED
  BY <1>5, <1>6 DEF Repopulate

(* A part is inserted or deleted: the scenarios are as they were.             *)
LEMMA WriteParts ==
  ASSUME IInv, NEW p \in Procs, status[p] = "running",
         NEW ok, NEW db, IsDb(db), Write(p, ok, db),
         db.scenarios = View(p).scenarios, db.last = View(p).last,
         IsReload(p) => at[p] \in 2 .. Last(p) - 2
  PROVE  IInv'
<1>1. CASE IsReload(p)
  <2>1. at[p] \in 2 .. Last(p) - 1 /\ at[p] + 1 # Last(p)
    BY <1>1, AtInNat
  <2>2. Touched(p, db, at[p] + 1)
    BY <1>1, <2>1, ViewOk DEF Touched, Last
  <2> QED
    BY <1>1, <2>1, <2>2, WriteStep
<1>2. CASE ~IsReload(p)
  <2>1. Renewed(db)
    BY <1>2, ViewOk DEF Renewed, Row
  <2> QED
    BY <1>2, <2>1, WriteStep
<1> QED
  BY <1>1, <1>2

LEMMA DeleteStep ==
  ASSUME IInv, NEW p \in Procs, DeletePart(p)
  PROVE  IInv'
<1> DEFINE id == Now(p).id
           part == Now(p).part
           ok == CanDelete(View(p), id, part)
           db == SetPart(View(p), id, part, Nobody)
<1>1. /\ status[p] = "running" /\ Now(p).op = "delete"
      /\ at[p] \in DOMAIN Program(job[p])
  BY DEF DeletePart, Running
<1>2. IsReload(p) => at[p] \in 2 .. Last(p) - 2
  BY <1>1, ReloadOps, AtInNat
<1>3. CASE Write(p, ok, db)
  <2>1. IsDb(db) /\ db.scenarios = View(p).scenarios /\ db.last = View(p).last
    BY ViewOk, SetPartDb
  <2> HIDE DEF ok, db
  <2> QED
    BY <1>1, <1>2, <1>3, <2>1, WriteParts
<1>4. CASE IsReload(p) /\ Skip(p)
  <2>1. at[p] \in 2 .. Last(p) - 1 /\ at[p] # Last(p) - 1
    BY <1>2, <1>4, AtInNat
  <2> QED
    BY <1>1, <1>4, <2>1, SkipStep
<1>5. CASE ~IsReload(p) /\ Skip(p)
  <2>1. /\ at' = [at EXCEPT ![p] = at[p] + 1]
        /\ status' = [status EXCEPT ![p] = "running"]
        /\ UNCHANGED << job, committed, work, writer, concerned >>
    BY <1>1, <1>5 DEF Skip, Goto, IInv, TypeInv
  <2>2. "running" \in Statuses /\ at[p] + 1 \in Nat
    BY AtInNat DEF Statuses
  <2> QED
    BY <1>5, <2>1, <2>2, GoOn
<1> QED
  BY <1>3, <1>4, <1>5 DEF DeletePart

LEMMA InsertStep ==
  ASSUME IInv, NEW p \in Procs, InsertPart(p)
  PROVE  IInv'
<1> DEFINE id == Now(p).id
           part == Now(p).part
           ok == CanInsert(View(p), id, part)
           db == SetPart(View(p), id, part, p)
<1>1. /\ status[p] = "running" /\ Now(p).op = "insert"
      /\ at[p] \in DOMAIN Program(job[p])
      /\ Write(p, ok, db)
  BY DEF InsertPart, Running
<1>2. IsReload(p) => at[p] \in 2 .. Last(p) - 2
  BY <1>1, ReloadOps, AtInNat
<1>3. IsDb(db) /\ db.scenarios = View(p).scenarios /\ db.last = View(p).last
  BY ViewOk, SetPartDb
<1> HIDE DEF ok, db
<1> QED
  BY <1>1, <1>2, <1>3, WriteParts

(* The statements of scenario.py.                                             *)
LEMMA NotReload ==
  ASSUME IInv, NEW p \in Procs, at[p] \in DOMAIN Program(job[p]),
         Now(p).op \in {"lookup", "confirm", "find", "clear", "drop", "create"}
  PROVE  ~IsReload(p)
BY ReloadOps

LEMMA OtherStep ==
  ASSUME IInv, NEW p \in Procs, ~IsReload(p),
         NEW m \in Nat, NEW s \in Statuses, NEW rows \in SUBSET Nat,
         UNCHANGED << job, committed, work, writer >>,
         at' = [at EXCEPT ![p] = m],
         status' = [status EXCEPT ![p] = s],
         concerned' = [concerned EXCEPT ![p] = rows]
  PROVE  IInv'
<1>1. TypeInv'
  BY DEF IInv, TypeInv, IsDb, Row
<1>2. PlaceInv'
  BY DEF IInv, TypeInv, PlaceInv, IsReload, Live, Last
<1>3. \A q \in Procs : IsReload(q)' =>
        /\ IsReload(q) /\ q # p
        /\ at'[q] = at[q] /\ concerned'[q] = concerned[q]
  BY DEF IInv, TypeInv, IsReload
<1>4. ConcernInv'
  BY <1>3 DEF IInv, ConcernInv
<1>5. WorkInv'
  <2> SUFFICES ASSUME NEW q \in Procs, writer = q
               PROVE  IF IsReload(q)' THEN Touched(q, work, at[q])' ELSE Renewed(work)'
    BY DEF WorkInv
  <2>1. CASE IsReload(q)'
    BY <1>3, <2>1 DEF IInv, WorkInv, Touched, Last
  <2>2. CASE ~IsReload(q)'
    BY <2>2 DEF IInv, WorkInv, IsReload, Renewed, Row
  <2> QED
    BY <2>1, <2>2
<1> QED
  BY <1>1, <1>2, <1>4, <1>5 DEF IInv

LEMMA NamedRows ==
  ASSUME IInv, NEW p \in Procs, NEW name
  PROVE  Named(View(p), name) \in SUBSET Nat
<1>1. Named(View(p), name) \subseteq DOMAIN View(p).scenarios
  BY DEF Named
<1>2. DOMAIN View(p).scenarios \subseteq 1 .. View(p).last /\ View(p).last \in Nat
  BY ViewOk DEF IsDb
<1>3. 1 .. View(p).last \subseteq Nat
  BY <1>2
<1> QED
  BY <1>1, <1>2, <1>3

LEMMA LookupStep ==
  ASSUME IInv, NEW p \in Procs, Lookup(p)
  PROVE  IInv'
<1> DEFINE rows == Named(View(p), Now(p).name)
<1>1. ~IsReload(p)
  BY NotReload DEF Lookup, Running
<1>2. rows \in SUBSET Nat
  BY NamedRows
<1>3. /\ concerned' = [concerned EXCEPT ![p] = rows]
      /\ UNCHANGED << job, committed, work, writer >>
      /\ \/ /\ status' = [status EXCEPT ![p] = "asking"]
            /\ at' = [at EXCEPT ![p] = at[p]]
         \/ /\ status' = [status EXCEPT ![p] = "running"]
            /\ at' = [at EXCEPT ![p] = at[p] + 3]
  BY DEF Lookup, Running, Ask, Goto, IInv, TypeInv
<1>4. at[p] \in Nat /\ at[p] + 3 \in Nat
  BY AtInNat
<1>5. "running" \in Statuses /\ "asking" \in Statuses
  BY DEF Statuses
<1> HIDE DEF rows
<1> QED
  BY <1>1, <1>2, <1>3, <1>4, <1>5, OtherStep

LEMMA ConfirmStep ==
  ASSUME IInv, NEW p \in Procs, Confirm(p)
  PROVE  IInv'
<1>1. ~IsReload(p)
  BY NotReload DEF Confirm, Running
<1>2. /\ status' = [status EXCEPT ![p] = "asking"]
      /\ at' = [at EXCEPT ![p] = at[p]]
      /\ concerned' = [concerned EXCEPT ![p] = concerned[p]]
      /\ UNCHANGED << job, committed, work, writer >>
  BY DEF Confirm, Ask, IInv, TypeInv
<1>3. at[p] \in Nat /\ concerned[p] \in SUBSET Nat /\ "asking" \in Statuses
  BY AtInNat DEF IInv, TypeInv, Statuses
<1> QED
  BY <1>1, <1>2, <1>3, OtherStep

LEMMA FindStep ==
  ASSUME IInv, NEW p \in Procs, Find(p)
  PROVE  IInv'
<1> DEFINE rows == Named(View(p), Now(p).name)
<1>1. ~IsReload(p)
  BY NotReload DEF Find, Running
<1>2. CASE End(p, "failed")
  <2>1. "failed" \in Statuses \ Live
    BY DEF Statuses, Live
  <2> QED
    BY <1>2, <2>1, EndStep
<1>3. CASE /\ concerned' = [concerned EXCEPT ![p] = rows]
           /\ Goto(p, at[p] + 1)
           /\ UNCHANGED << job, committed, work, writer, status, lockedOut >>
  <2>1. rows \in SUBSET Nat
    BY NamedRows
  <2>2. /\ status' = [status EXCEPT ![p] = status[p]]
        /\ at' = [at EXCEPT ![p] = at[p] + 1]
    BY <1>3 DEF Goto, IInv, TypeInv
  <2>3. at[p] + 1 \in Nat /\ status[p] \in Statuses
    BY AtInNat DEF IInv, TypeInv
  <2> HIDE DEF rows
  <2> QED
    BY <1>1, <1>3, <2>1, <2>2, <2>3, OtherStep
<1> QED
  BY <1>2, <1>3 DEF Find

LEMMA ClearStep ==
  ASSUME IInv, NEW p \in Procs, ClearResults(p)
  PROVE  IInv'
<1> DEFINE db == Clear(View(p), concerned[p])
<1>1. ~IsReload(p) /\ status[p] = "running" /\ Write(p, TRUE, db)
  BY NotReload DEF ClearResults, Running
<1>2. IsDb(db) /\ db.scenarios = View(p).scenarios /\ db.last = View(p).last
  BY ViewOk, ClearDb
<1> HIDE DEF db
<1> QED
  BY <1>1, <1>2, WriteParts

LEMMA DropStep ==
  ASSUME IInv, NEW p \in Procs, DropRow(p)
  PROVE  IInv'
<1> DEFINE ok == concerned[p] \cap View(p).results = {}
           db == Drop(View(p), concerned[p])
<1>1. ~IsReload(p) /\ status[p] = "running" /\ Write(p, ok, db)
  BY NotReload DEF DropRow, Running
<1>2. /\ IsDb(db) /\ db.last = View(p).last
      /\ \A r \in DOMAIN db.scenarios :
           r \in DOMAIN View(p).scenarios /\ db.scenarios[r] = View(p).scenarios[r]
  BY ViewOk, DropDb
<1> HIDE DEF ok, db
<1>3. Renewed(db)
  BY <1>1, <1>2, ViewOk DEF Renewed, Row
<1> QED
  BY <1>1, <1>2, <1>3, WriteStep

LEMMA CreateStep ==
  ASSUME IInv, NEW p \in Procs, CreateRow(p)
  PROVE  IInv'
<1> DEFINE ok == CanCreate(View(p), Now(p).name, Now(p).id)
           db == Create(View(p), Now(p).name, Now(p).id)
<1>1. ~IsReload(p) /\ status[p] = "running" /\ Write(p, ok, db)
  BY NotReload DEF CreateRow, Running
<1>2. /\ IsDb(db) /\ db.last = View(p).last + 1
      /\ \A r \in DOMAIN db.scenarios :
           \/ r \in DOMAIN View(p).scenarios /\ db.scenarios[r] = View(p).scenarios[r]
           \/ r = View(p).last + 1
  BY ViewOk, CreateDb
<1> HIDE DEF ok, db
<1>3. IsDb(View(p)) /\ Renewed(View(p)) /\ View(p).last \in Nat /\ committed.last \in Nat
  BY <1>1, ViewOk DEF IsDb, IInv, TypeInv
<1>4. Renewed(db)
  BY <1>2, <1>3 DEF Renewed, Row
<1> QED
  BY <1>1, <1>2, <1>4, WriteStep

-------------------------------------------------------------------------------
(* What a reload commits has the scenarios it began with.                     *)
LEMMA ReloadWork ==
  ASSUME IInv, NEW p \in Procs, IsReload(p), writer = p, at[p] = Last(p)
  PROVE  work.scenarios = committed.scenarios /\ work.last = committed.last
<1>1. Touched(p, work, Last(p))
  BY DEF IInv, WorkInv
<1>2. /\ work.scenarios = [r \in DOMAIN work.scenarios |-> Row(work, r)]
      /\ committed.scenarios = [r \in DOMAIN committed.scenarios |-> Row(committed, r)]
  BY DEF IInv, TypeInv, IsDb
<1>3. /\ DOMAIN work.scenarios = DOMAIN committed.scenarios
      /\ \A r \in DOMAIN committed.scenarios : Row(work, r) = Row(committed, r)
  BY <1>1 DEF Touched, Row, Last
<1> QED
  BY <1>1, <1>2, <1>3 DEF Touched, Last

LEMMA CommitStep ==
  ASSUME IInv, NEW p \in Procs, CommitWork(p)
  PROVE  /\ IInv'
         /\ IsReload(p) => committed'.scenarios = committed.scenarios
<1>1. /\ status[p] = "running" /\ Now(p).op = "commit"
      /\ at[p] \in DOMAIN Program(job[p])
      /\ UNCHANGED << job, work, concerned >>
      /\ \/ status' = [status EXCEPT ![p] = "done"] /\ UNCHANGED at
            /\ at[p] = Len(Program(job[p]))
         \/ at' = [at EXCEPT ![p] = at[p] + 1] /\ UNCHANGED status
            /\ at[p] # Len(Program(job[p]))
  BY DEF CommitWork, Running, Goto
<1>2. IsReload(p) =>
        /\ at[p] = Last(p)
        /\ status' = [status EXCEPT ![p] = "done"] /\ UNCHANGED at
  BY <1>1, ReloadOps
<1>3. \/ writer = p /\ committed' = work /\ writer' = Nobody
      \/ writer # p /\ UNCHANGED << committed, writer >>
  BY DEF CommitWork
<1>4. IsReload(p) => committed'.scenarios = committed.scenarios
                     /\ committed'.last = committed.last
  BY <1>2, <1>3, ReloadWork
<1>5. ~IsReload(p) =>
        /\ committed'.last >= committed.last
        /\ \A r \in DOMAIN committed'.scenarios :
             \/ /\ r \in DOMAIN committed.scenarios
                /\ Row(committed', r) = Row(committed, r)
             \/ r > committed.last
  <2>1. CASE writer = p
    BY <1>3, <2>1 DEF IInv, WorkInv, Renewed, Row
  <2>2. CASE writer # p
    BY <1>3, <2>2 DEF IInv, TypeInv, IsDb
  <2> QED
    BY <2>1, <2>2
<1>6. TypeInv'
  <2>1. IsDb(committed)' /\ IsDb(work)'
    BY <1>1, <1>3 DEF IInv, TypeInv, IsDb, Row
  <2>2. status' \in [Procs -> Statuses] /\ at' \in [Procs -> Nat]
    BY <1>1, AtInNat DEF IInv, TypeInv, Statuses
  <2> QED
    BY <1>1, <1>3, <2>1, <2>2 DEF IInv, TypeInv
<1>7. \A q \in Procs : IsReload(q)' =>
        /\ IsReload(q) /\ at'[q] = at[q] /\ concerned'[q] = concerned[q]
        /\ status'[q] = status[q] \/ status'[q] = "done"
  BY <1>1, <1>2 DEF IInv, TypeInv, IsReload
<1>8. PlaceInv'
  BY <1>1, <1>3, <1>7, LoadingAssumption DEF IInv, PlaceInv, Live, Last
<1>9. ConcernInv'
  <2> SUFFICES ASSUME NEW q \in Procs, IsReload(q)', NEW r \in concerned[q]
               PROVE  /\ r <= committed'.last
                      /\ r \in DOMAIN committed'.scenarios =>
                           committed'.scenarios[r].ref = BaseOf[job[q].id]
    BY <1>1 DEF ConcernInv
  <2>1. /\ r \in Nat /\ r <= committed.last
        /\ r \in DOMAIN committed.scenarios =>
             committed.scenarios[r].ref = BaseOf[job[q].id]
    BY <1>7 DEF IInv, TypeInv, ConcernInv
  <2>2. committed.last \in Nat /\ committed'.last \in Nat
    BY <1>6 DEF IInv, TypeInv, IsDb
  <2>3. CASE IsReload(p)
    BY <1>4, <2>1, <2>3
  <2>4. CASE ~IsReload(p)
    <3>1. committed'.last >= committed.last
      BY <1>5, <2>4
    <3>2. r \in DOMAIN committed'.scenarios =>
            r \in DOMAIN committed.scenarios /\ Row(committed', r) = Row(committed, r)
      BY <1>5, <2>1, <2>2, <2>4
    <3>3. Row(committed', r) = Row(committed, r) =>
            committed'.scenarios[r].ref = committed.scenarios[r].ref
      BY DEF Row
    <3> QED
      BY <2>1, <2>2, <3>1, <3>2, <3>3
  <2> QED
    BY <2>3, <2>4
<1>10. WorkInv'
  <2> SUFFICES ASSUME NEW q \in Procs, writer' = q
               PROVE  IF IsReload(q)' THEN Touched(q, work, at[q])' ELSE Renewed(work)'
    BY DEF WorkInv
  <2>1. writer = q /\ UNCHANGED << committed, work >>
    BY <1>1, <1>3, LoadingAssumption
  <2>2. CASE IsReload(q)'
    BY <1>1, <1>7, <2>1, <2>2 DEF IInv, WorkInv, Touched, Last
  <2>3. CASE ~IsReload(q)'
    BY <1>1, <2>1, <2>3 DEF IInv, WorkInv, IsReload, Renewed, Row
  <2> QED
    BY <2>2, <2>3
<1> QED
  BY <1>4, <1>6, <1>8, <1>9, <1>10 DEF IInv

LEMMA GiveUpStep ==
  ASSUME IInv, NEW p \in Procs, GiveUp(p)
  PROVE  IInv'
<1>1. /\ status[p] = "running" /\ at[p] \in DOMAIN Program(job[p])
      /\ writer # p
      /\ Now(p).op \in {"nullify", "repopulate", "delete", "insert",
                        "clear", "drop", "create"}
      /\ at' = [at EXCEPT ![p] = at[p] + 1]
      /\ UNCHANGED << job, committed, work, writer, status, concerned >>
  BY DEF GiveUp, Writing, AttemptsEnd, Locked, Goto
<1>2. IsReload(p) => at[p] + 1 \in 1 .. Last(p)
  BY <1>1, ReloadOps, AtInNat
<1>3. /\ status' = [status EXCEPT ![p] = "running"]
      /\ "running" \in Statuses /\ at[p] + 1 \in Nat
  BY <1>1, AtInNat DEF IInv, TypeInv, Statuses
<1> QED
  BY <1>1, <1>2, <1>3, GoOn

LEMMA AskingReload ==
  ASSUME IInv, NEW p \in Procs, IsReload(p), status[p] = "asking"
  PROVE  at[p] = 1 /\ writer # p /\ Now(p).op = "select"
<1>1. at[p] = 1 /\ writer # p
  BY DEF IInv, PlaceInv, Last
<1>2. DOMAIN Program(job[p]) = 1 .. Last(p)
  BY DEF IsReload, Program, Reload, Last
<1>3. at[p] \in DOMAIN Program(job[p])
  BY <1>1, <1>2, AtInNat
<1> QED
  BY <1>1, <1>3, ReloadOps

LEMMA AgreeStep ==
  ASSUME IInv, NEW p \in Procs, Agree(p)
  PROVE  IInv'
<1>1. /\ status[p] = "asking"
      /\ status' = [status EXCEPT ![p] = "running"]
      /\ at' = [at EXCEPT ![p] = at[p] + 1]
      /\ UNCHANGED << job, committed, work, writer, concerned >>
  BY DEF Agree, Goto
<1>2. IsReload(p) => at[p] + 1 \in 1 .. Last(p) /\ writer # p
  BY <1>1, AskingReload, AtInNat
<1>3. "running" \in Statuses /\ at[p] + 1 \in Nat
  BY AtInNat DEF Statuses
<1> QED
  BY <1>1, <1>2, <1>3, GoOn

LEMMA RefuseStep ==
  ASSUME IInv, NEW p \in Procs, Refuse(p)
  PROVE  IInv'
<1>1. status[p] = "asking"
  BY DEF Refuse
<1>2. CASE End(p, "exited")
  <2>1. "exited" \in Statuses \ Live
    BY DEF Statuses, Live
  <2> QED
    BY <1>2, <2>1, EndStep
<1>3. CASE /\ Now(p).op # "select"
           /\ status' = [status EXCEPT ![p] = "running"]
           /\ Goto(p, at[p] + 4)
           /\ UNCHANGED << job, committed, work, writer, concerned, lockedOut >>
  <2>1. ~IsReload(p)
    BY <1>1, <1>3, AskingReload
  <2>2. /\ at' = [at EXCEPT ![p] = at[p] + 4]
        /\ at[p] + 4 \in Nat /\ "running" \in Statuses
    BY <1>3, AtInNat DEF Goto, Statuses
  <2> QED
    BY <1>3, <2>1, <2>2, GoOn
<1> QED
  BY <1>2, <1>3 DEF Refuse

LEMMA KillStep ==
  ASSUME IInv, NEW p \in Procs, Kill(p)
  PROVE  IInv'
<1>1. "killed" \in Statuses \ Live
  BY DEF Statuses, Live
<1> QED
  BY <1>1, EndStep DEF Kill

LEMMA NextInv == IInv /\ [Next]_vars => IInv'
<1> SUFFICES ASSUME IInv, [Next]_vars PROVE IInv'
  OBVIOUS
<1>1. CASE UNCHANGED vars
  BY <1>1
  DEF vars, IInv, TypeInv, PlaceInv, ConcernInv, WorkInv, IsDb, Row, Touched, Last,
      Renewed, IsReload
<1>2. ASSUME NEW p \in Procs, Step(p)
      PROVE  IInv'
  BY <1>2, SelectStep, NullifyStep, DeleteStep, InsertStep, RepopulateStep,
     LookupStep, ConfirmStep, FindStep, ClearStep, DropStep, CreateStep,
     CommitStep, GiveUpStep DEF Step
<1>3. ASSUME NEW p \in Procs, Agree(p) \/ Refuse(p) \/ Kill(p)
      PROVE  IInv'
  BY <1>3, AgreeStep, RefuseStep, KillStep
<1> QED
  BY <1>1, <1>2, <1>3 DEF Next

(* Whatever other processes load, delete or kill, and whenever its user       *)
(* answers, a reload commits the scenarios with the ids that they had         *)
(* (confirm_and_temp_update_affected_tables, repopulate_tables).              *)
THEOREM ReloadKeepsReferences == Spec => ReferencesKept
<1>1. IInv /\ [Next]_vars =>
        [\A p \in Procs : ReloadCommits(p) =>
           committed'.scenarios = committed.scenarios]_vars
  BY CommitStep DEF ReloadCommits, IsReload
<1> QED
  BY <1>1, InitInv, NextInv, PTL DEF Spec, ReferencesKept

-----------------------------------------------------------------------------
(* Proofs that the two databases are typed, and that an id is loaded as a     *)
(* whole or not at all.  The second rests on the order of the statements: a   *)
(* load inserts every part of its ids before it commits, a reload deletes     *)
(* before it inserts, and an insert fails on a part that is there; so a       *)
(* process that was never locked out commits all parts or none, and one that  *)
(* was locked out of some of its deletes fails on the parts it left.          *)

(* The quotient and the rest of a division.                                   *)
LEMMA Quotient ==
  ASSUME NEW L \in Nat, L > 0, NEW n \in Nat
  PROVE  /\ n \div L \in Nat
         /\ n % L \in 0 .. L - 1
         /\ n = L * (n \div L) + (n % L)
  OBVIOUS

LEMMA QuotientBelow ==
  ASSUME NEW L \in Nat, L > 0, NEW n \in Nat, NEW a \in Nat, n < a * L
  PROVE  n \div L < a
<1>1. n \div L >= a => L * (n \div L) >= a * L
  BY Quotient
<1> QED
  BY <1>1, Quotient

LEMMA QuotientIs ==
  ASSUME NEW L \in Nat, L > 0, NEW q \in Nat, NEW r \in 0 .. L - 1
  PROVE  /\ (q * L + r) \div L = q
         /\ (q * L + r) % L = r
<1> DEFINE n == q * L + r
           d == n \div L
<1>1. n \in Nat
  OBVIOUS
<1>2. d \in Nat /\ n % L \in 0 .. L - 1 /\ n = L * d + (n % L)
  BY <1>1, Quotient
<1>3. d > q => L * d >= L * q + L
  BY <1>2
<1>4. d < q => L * q >= L * d + L
  BY <1>2
<1> QED
  BY <1>2, <1>3, <1>4

LEMMA ElementOf ==
  ASSUME NEW S, NEW s \in Seq(S), NEW x \in 1 .. Len(s)
  PROVE  s[x] \in S
  OBVIOUS

LEMMA LenIs ==
  ASSUME NEW n \in Nat, NEW S, NEW f \in [1 .. n -> S]
  PROVE  f \in Seq(S) /\ Len(f) = n
  OBVIOUS

-----------------------------------------------------------------------------
LEMMA LoadStmtIs ==
  ASSUME NEW ids, NEW gap, NEW m
  PROVE  LoadStmt(ids, gap, m) =
           IF m <= 2 * Len(ids) THEN OfPart("insert", ids[(m + 1) \div 2], 2 - (m % 2))
           ELSE IF \/ m <= RowsEnd(ids, gap, 1)
                   \/ m > RowsEnd(ids, gap, NParts[ids[1]] - 1) THEN Commit
           ELSE IF (m - RowsEnd(ids, gap, 1) - 1) % (Len(ids) + gap) = Len(ids)
                THEN Commit
           ELSE OfPart("insert",
                  ids[((m - RowsEnd(ids, gap, 1) - 1) % (Len(ids) + gap)) + 1],
                  ((m - RowsEnd(ids, gap, 1) - 1) \div (Len(ids) + gap)) + 3)
  BY Zenon DEF LoadStmt

(* The statements of a load: each inserts a part of one of the ids, or        *)
(* commits, and without gaps only the last commits.                           *)
LEMMA LoadStatement ==
  ASSUME NEW ids \in Seq(Ids), ids # << >>, NEW gap \in {0, 1},
         NEW n \in Nat, n > 1, n = NParts[ids[1]],
         NEW m \in 1 .. RowsEnd(ids, gap, n - 1) + 1 - gap
  PROVE  /\ \/ LoadStmt(ids, gap, m) = Commit
            \/ \E j \in 1 .. Len(ids), k \in 1 .. n :
                 LoadStmt(ids, gap, m) = OfPart("insert", ids[j], k)
         /\ gap = 0 /\ LoadStmt(ids, gap, m) = Commit =>
              m = RowsEnd(ids, gap, n - 1) + 1
<1>1. PICK L, g, rows \in Nat :
        /\ L = Len(ids) /\ L > 0 /\ rows = n - 2
        /\ g = L + gap /\ g = Len(ids) + gap /\ g > 0
  <2>1. Len(ids) \in Nat /\ Len(ids) > 0
    OBVIOUS
  <2>2. Len(ids) + gap \in Nat /\ Len(ids) + gap > 0 /\ n - 2 \in Nat
    BY <2>1
  <2> QED
    BY <2>1, <2>2
<1>2. PICK rest \in Nat : rest = rows * g
  <2>1. rows * g \in Nat
    OBVIOUS
  <2> QED
    BY <2>1
<1>3. PICK first, last \in Nat :
        /\ first = 2 * L + gap /\ last = first + rest
        /\ RowsEnd(ids, gap, 1) = first /\ RowsEnd(ids, gap, n - 1) = last
  <2>1. RowsEnd(ids, gap, 1) = 2 * L + gap + 0 * g
    BY <1>1 DEF RowsEnd
  <2>2. RowsEnd(ids, gap, n - 1) = 2 * L + gap + rows * g
    <3>1. n - 1 - 1 = rows
      BY <1>1
    <3> QED
      BY <1>1, <3>1 DEF RowsEnd
  <2>3. 2 * L + gap \in Nat /\ 2 * L + gap + rest \in Nat /\ 0 * g = 0
    OBVIOUS
  <2> QED
    BY <1>2, <2>1, <2>2, <2>3
<1>4. m \in Nat /\ m >= 1 /\ m <= last + 1 - gap
  <2>1. m \in 1 .. last + 1 - gap
    BY <1>3
  <2> QED
    BY <2>1
<1>5. LoadStmt(ids, gap, m) =
        IF m <= 2 * L THEN OfPart("insert", ids[(m + 1) \div 2], 2 - (m % 2))
        ELSE IF m <= first \/ m > last THEN Commit
        ELSE IF (m - first - 1) % g = L THEN Commit
        ELSE OfPart("insert", ids[((m - first - 1) % g) + 1],
                    ((m - first - 1) \div g) + 3)
  BY Zenon, LoadStmtIs, <1>1, <1>3
<1>6. L > 0 /\ g = L + gap /\ g > 0 /\ rows = n - 2
  BY <1>1
<1>7. first = 2 * L + gap /\ last = first + rest
  BY <1>3
<1>8. \A i, k : OfPart("insert", i, k) # Commit
  BY DEF OfPart, OfId, Stmt, Commit
<1>9. CASE m <= 2 * L
  <2>1. (m + 1) \div 2 \in 1 .. L /\ 2 - (m % 2) \in 1 .. n
    BY <1>6, <1>4, <1>9
  <2>2. LoadStmt(ids, gap, m) = OfPart("insert", ids[(m + 1) \div 2], 2 - (m % 2))
    BY <1>5, <1>9
  <2> QED
    BY Zenon, <1>1, <1>8, <2>1, <2>2
<1>10. CASE ~(m <= 2 * L) /\ (m <= first \/ m > last)
  <2>1. LoadStmt(ids, gap, m) = Commit
    BY Zenon, <1>5, <1>10
  <2>2. gap = 0 => m = last + 1
    BY <1>1, <1>3, <1>4, <1>10
  <2> QED
    BY <1>3, <2>1, <2>2
<1>11. CASE ~(m <= 2 * L) /\ ~(m <= first \/ m > last)
  <2>1. PICK d \in Nat : d = m - first - 1 /\ d < rows * g
    <3>1. m - first - 1 \in Nat /\ m - first - 1 < rest
      BY <1>6, <1>7, <1>4, <1>11
    <3> QED
      BY <1>2, <3>1
  <2>2. PICK row \in Nat : row = d \div g /\ row < rows
    BY <1>1, <2>1, Quotient, QuotientBelow
  <2>3. PICK pos \in 0 .. g - 1 : pos = d % g
    BY <1>1, <2>1, Quotient
  <2>4. /\ pos # L => pos + 1 \in 1 .. L
        /\ gap = 0 => pos # L
        /\ row + 3 \in 1 .. n
    BY <1>6, <2>2, <2>3
  <2>5. LoadStmt(ids, gap, m) =
          IF pos = L THEN Commit ELSE OfPart("insert", ids[pos + 1], row + 3)
    BY Zenon, <1>5, <1>11, <2>1, <2>2, <2>3
  <2> QED
    BY Zenon, <1>1, <1>8, <2>4, <2>5
<1> QED
  BY <1>9, <1>10, <1>11

(* Every part of every id is inserted before the commit.                      *)
LEMMA LoadComplete ==
  ASSUME NEW ids \in Seq(Ids), ids # << >>,
         NEW n \in Nat, n > 1, n = NParts[ids[1]],
         NEW j \in 1 .. Len(ids), NEW k \in 1 .. n
  PROVE  \E m \in 1 .. RowsEnd(ids, 0, n - 1) :
           LoadStmt(ids, 0, m) = OfPart("insert", ids[j], k)
<1>1. PICK L, g, rows \in Nat :
        /\ L = Len(ids) /\ L > 0 /\ rows = n - 2
        /\ g = L + 0 /\ g = Len(ids) + 0 /\ g > 0
  <2>1. Len(ids) \in Nat /\ Len(ids) > 0
    OBVIOUS
  <2>2. Len(ids) + 0 \in Nat /\ Len(ids) + 0 > 0 /\ n - 2 \in Nat
    BY <2>1
  <2> QED
    BY <2>1, <2>2
<1>2. PICK rest \in Nat : rest = rows * g
  <2>1. rows * g \in Nat
    OBVIOUS
  <2> QED
    BY <2>1
<1>3. PICK first, last \in Nat :
        /\ first = 2 * L + 0 /\ last = first + rest
        /\ RowsEnd(ids, 0, 1) = first /\ RowsEnd(ids, 0, n - 1) = last
  <2>1. RowsEnd(ids, 0, 1) = 2 * L + 0 + 0 * g
    BY <1>1 DEF RowsEnd
  <2>2. RowsEnd(ids, 0, n - 1) = 2 * L + 0 + rows * g
    <3>1. n - 1 - 1 = rows
      BY <1>1
    <3> QED
      BY <1>1, <3>1 DEF RowsEnd
  <2>3. 2 * L + 0 \in Nat /\ 2 * L + 0 + rest \in Nat /\ 0 * g = 0
    OBVIOUS
  <2> QED
    BY <1>2, <2>1, <2>2, <2>3
<1>4. g = L /\ j \in 1 .. L
  BY <1>1
<1>5. ASSUME NEW m
      PROVE  LoadStmt(ids, 0, m) =
               IF m <= 2 * L THEN OfPart("insert", ids[(m + 1) \div 2], 2 - (m % 2))
               ELSE IF m <= first \/ m > last THEN Commit
               ELSE IF (m - first - 1) % g = L THEN Commit
               ELSE OfPart("insert", ids[((m - first - 1) % g) + 1],
                           ((m - first - 1) \div g) + 3)
  BY Zenon, LoadStmtIs, <1>1, <1>3
<1>6. CASE k \in {1, 2}
  <2>1. PICK m \in Nat : m = 2 * (j - 1) + k /\ m >= 1 /\ m <= 2 * L
    <3>1. 2 * (j - 1) + k \in Nat
      BY <1>6
    <3> QED
      BY <1>4, <1>6, <3>1
  <2>2. (m + 1) \div 2 = j /\ 2 - (m % 2) = k
    BY <1>6, <2>1
  <2>3. m \in 1 .. last
    BY <1>3, <2>1
  <2>4. LoadStmt(ids, 0, m) = OfPart("insert", ids[j], k)
    BY Zenon, <1>5, <2>1, <2>2
  <2> QED
    BY Zenon, <1>3, <2>3, <2>4
<1>7. CASE k >= 3
  <2>1. PICK q \in Nat, r \in 0 .. g - 1 :
          q + 3 = k /\ r + 1 = j /\ q + 1 <= rows /\ r # L
    <3>1. k - 3 \in Nat /\ j - 1 \in 0 .. g - 1 /\ k - 3 + 1 <= rows
      BY <1>1, <1>7
    <3> QED
      BY <1>4, <3>1
  <2>2. PICK d \in Nat : d = q * g + r /\ d + 1 <= rest
    <3>1. q * g + r \in Nat
      BY <2>1
    <3>2. (q + 1) * g <= rows * g
      BY <2>1
    <3>3. q * g + r + 1 <= rows * g
      BY <2>1, <3>2
    <3> QED
      BY <1>2, <3>1, <3>3
  <2>3. d \div g = q /\ d % g = r
    BY <1>1, <2>1, <2>2, QuotientIs
  <2>4. PICK m \in Nat : m = first + 1 + d
    BY <2>2
  <2>5. /\ d = m - first - 1 /\ m \in 1 .. last
        /\ ~(m <= 2 * L) /\ ~(m <= first \/ m > last)
    BY <1>3, <1>4, <2>2, <2>4
  <2>6. LoadStmt(ids, 0, m) = OfPart("insert", ids[r + 1], q + 3)
    BY Zenon, <1>5, <2>1, <2>3, <2>5
  <2> QED
    BY Zenon, <1>3, <2>1, <2>5, <2>6
<1> QED
  BY <1>6, <1>7

-----------------------------------------------------------------------------
(* The ids whose parts a job inserts.                                         *)
Loads(j) ==
  IF j.kind = "reload" THEN {j.id}
  ELSE IF j.kind = "load" THEN {j.ids[m] : m \in DOMAIN j.ids} ELSE {}

(* Whether a job commits once, at its end.                                    *)
AtOnce(j) == ~(j.kind = "load" /\ j.gap = 1)

(* What the statements of a job are.                                          *)
StatementOK(j, m) ==
  LET s == Program(j)[m]
  IN  /\ s.op \in {"insert", "delete"} => s.id \in Loads(j) /\ s.part \in Parts(s.id)
      /\ s.op \in {"select", "nullify", "delete", "repopulate"} =>
           j.kind = "reload" /\ s.id = j.id
      /\ s.op \in {"lookup", "confirm", "find", "clear", "drop", "create"} =>
           j.kind \notin {"reload", "load"}
      /\ s.op = "create" => s.name \in Names /\ s.id \in Columns \cup {Null}
      /\ s.op = "commit" /\ AtOnce(j) => m = Len(Program(j))
      /\ s.op = "insert" => j.kind \in {"reload", "load"}

LEMMA LoadsIds ==
  ASSUME NEW j \in Jobs, NEW i \in Loads(j)
  PROVE  /\ i \in Ids /\ NParts[i] \in Nat /\ NParts[i] > 1
         /\ 1 \in Parts(i) /\ 2 \in Parts(i)
<1>1. i \in Ids
  BY LoadingAssumption DEF Loads
<1> QED
  BY <1>1, LoadingAssumption DEF Parts

(* The program of a reload of an id with n parts.                             *)
ReloadIs(j, n) ==
  /\ n > 1 /\ n = NParts[j.id] /\ j.id \in Ids
  /\ DOMAIN Program(j) = 1 .. 2 * n + 4 /\ Len(Program(j)) = 2 * n + 4
  /\ \A m \in 1 .. 2 * n + 4 : Program(j)[m] =
       IF m = 1 THEN OfId("select", j.id)
       ELSE IF m = 2 THEN OfId("nullify", j.id)
       ELSE IF m <= n + 2 THEN OfPart("delete", j.id, n + 3 - m)
       ELSE IF m <= 2 * n + 2 THEN OfPart("insert", j.id, m - n - 2)
       ELSE IF m = 2 * n + 3 THEN OfId("repopulate", j.id)
       ELSE Commit

LEMMA ReloadProgram ==
  ASSUME NEW j \in Jobs, j.kind = "reload"
  PROVE  \E n \in Nat : ReloadIs(j, n)
<1>1. j.id \in Ids
  BY LoadingAssumption
<1>2. PICK n \in Nat : n > 1 /\ n = NParts[j.id]
  BY <1>1, LoadingAssumption
<1>3. Program(j) = Reload(j.id)
  BY DEF Program
<1> DEFINE F == [m \in 1 .. 2 * n + 4 |->
           IF m = 1 THEN OfId("select", j.id)
           ELSE IF m = 2 THEN OfId("nullify", j.id)
           ELSE IF m <= n + 2 THEN OfPart("delete", j.id, n + 3 - m)
           ELSE IF m <= 2 * n + 2 THEN OfPart("insert", j.id, m - n - 2)
           ELSE IF m = 2 * n + 3 THEN OfId("repopulate", j.id)
           ELSE Commit]
<1>4. Program(j) = F
  BY Zenon, <1>2, <1>3 DEF Reload
<1>5. DOMAIN F = 1 .. 2 * n + 4
  OBVIOUS
<1>6. \A m \in 1 .. 2 * n + 4 : F[m] =
       IF m = 1 THEN OfId("select", j.id)
       ELSE IF m = 2 THEN OfId("nullify", j.id)
       ELSE IF m <= n + 2 THEN OfPart("delete", j.id, n + 3 - m)
       ELSE IF m <= 2 * n + 2 THEN OfPart("insert", j.id, m - n - 2)
       ELSE IF m = 2 * n + 3 THEN OfId("repopulate", j.id)
       ELSE Commit
  BY Zenon
<1> HIDE DEF F
<1>7. Len(F) = 2 * n + 4
  <2>1. PICK l \in Nat : l = 2 * n + 4
    OBVIOUS
  <2>2. F = [m \in DOMAIN F |-> F[m]]
    BY DEF F
  <2>3. F \in [1 .. l -> {F[m] : m \in 1 .. l}]
    BY <1>5, <2>1, <2>2
  <2> QED
    BY <2>1, <2>2, <2>3, LenIs
<1>8. ReloadIs(j, n)
  BY Zenon, <1>1, <1>2, <1>4, <1>5, <1>6, <1>7 DEF ReloadIs
<1> QED
  BY <1>8

LEMMA ReloadAt ==
  ASSUME NEW j \in Jobs, j.kind = "reload", NEW n \in Nat, ReloadIs(j, n),
         NEW m \in DOMAIN Program(j)
  PROVE  /\ m \in 1 .. 2 * n + 4 /\ Len(Program(j)) = 2 * n + 4
         /\ \/ m = 1 /\ Program(j)[m] = OfId("select", j.id)
            \/ m = 2 /\ Program(j)[m] = OfId("nullify", j.id)
            \/ /\ m > 2 /\ m <= n + 2
               /\ Program(j)[m] = OfPart("delete", j.id, n + 3 - m)
               /\ n + 3 - m \in 1 .. n
            \/ /\ m > n + 2 /\ m <= 2 * n + 2
               /\ Program(j)[m] = OfPart("insert", j.id, m - n - 2)
               /\ m - n - 2 \in 1 .. n
            \/ m = 2 * n + 3 /\ Program(j)[m] = OfId("repopulate", j.id)
            \/ m = 2 * n + 4 /\ Program(j)[m] = Commit
<1>1. m \in 1 .. 2 * n + 4 /\ Len(Program(j)) = 2 * n + 4
  BY DEF ReloadIs
<1>2. Program(j)[m] =
        IF m = 1 THEN OfId("select", j.id)
        ELSE IF m = 2 THEN OfId("nullify", j.id)
        ELSE IF m <= n + 2 THEN OfPart("delete", j.id, n + 3 - m)
        ELSE IF m <= 2 * n + 2 THEN OfPart("insert", j.id, m - n - 2)
        ELSE IF m = 2 * n + 3 THEN OfId("repopulate", j.id)
        ELSE Commit
  BY Zenon, <1>1 DEF ReloadIs
<1>3. n > 1
  BY DEF ReloadIs
<1>4. \/ m = 1 \/ m = 2
      \/ m > 2 /\ m <= n + 2 /\ n + 3 - m \in 1 .. n
      \/ m > n + 2 /\ m <= 2 * n + 2 /\ m - n - 2 \in 1 .. n
      \/ m = 2 * n + 3 \/ m = 2 * n + 4
  BY <1>1, <1>3
<1> QED
  BY <1>1, <1>2, <1>3, <1>4

LEMMA ReloadStatements ==
  ASSUME NEW j \in Jobs, j.kind = "reload", NEW m \in DOMAIN Program(j)
  PROVE  /\ StatementOK(j, m)
         /\ Program(j)[m].op = "delete" =>
              \A l \in DOMAIN Program(j) : l < m => Program(j)[l].op # "insert"
<1>1. PICK n \in Nat : ReloadIs(j, n)
  BY ReloadProgram
<1>2. Parts(j.id) = 1 .. n /\ 1 \in 1 .. n /\ n > 1 /\ Loads(j) = {j.id}
  BY <1>1 DEF ReloadIs, Parts, Loads
<1>3. StatementOK(j, m)
  BY <1>1, <1>2, ReloadAt DEF StatementOK, OfId, OfPart, Stmt, Commit
<1>4. Program(j)[m].op = "delete" => m <= n + 2
  BY <1>1, ReloadAt DEF OfId, OfPart, Stmt, Commit
<1>5. ASSUME NEW l \in DOMAIN Program(j), Program(j)[l].op = "insert"
      PROVE  l > n + 2
  BY <1>1, <1>5, ReloadAt DEF OfId, OfPart, Stmt, Commit
<1>6. DOMAIN Program(j) \subseteq Nat
  BY <1>1 DEF ReloadIs
<1> QED
  BY <1>3, <1>4, <1>5, <1>6

(* Every part is inserted before the commit.                                  *)
LEMMA ReloadComplete ==
  ASSUME NEW j \in Jobs, j.kind = "reload", NEW i \in Loads(j), NEW k \in Parts(i)
  PROVE  \E m \in DOMAIN Program(j) :
           m < Len(Program(j)) /\ Program(j)[m] = OfPart("insert", i, k)
<1>1. PICK n \in Nat : ReloadIs(j, n)
  BY ReloadProgram
<1>2. i = j.id /\ k \in 1 .. n
  BY <1>1 DEF Loads, Parts, ReloadIs
<1>3. PICK m \in Nat : m = k + n + 2
  BY <1>2
<1>4. /\ m \in 1 .. 2 * n + 4 /\ m < 2 * n + 4 /\ m > n + 2 /\ m <= 2 * n + 2
      /\ m - n - 2 = k
  BY <1>2, <1>3
<1>5. m \in DOMAIN Program(j) /\ m < Len(Program(j))
  BY <1>1, <1>4 DEF ReloadIs
<1>6. Program(j)[m] = OfPart("insert", j.id, m - n - 2)
  BY <1>1, <1>2, <1>4, <1>5, ReloadAt
<1> QED
  BY <1>2, <1>4, <1>5, <1>6

-----------------------------------------------------------------------------
LEMMA LoadIs ==
  ASSUME NEW j \in Jobs, j.kind = "load"
  PROVE  /\ j.ids \in Seq(Ids) /\ j.ids # << >> /\ j.gap \in {0, 1}
         /\ NParts[j.ids[1]] \in Nat /\ NParts[j.ids[1]] > 1
         /\ \A m \in DOMAIN j.ids : j.ids[m] \in Ids /\ NParts[j.ids[m]] = NParts[j.ids[1]]
         /\ Loads(j) = {j.ids[m] : m \in DOMAIN j.ids}
         /\ DOMAIN j.ids = 1 .. Len(j.ids)
         /\ Program(j) = Load(j.ids, j.gap)
<1>1. /\ j.ids \in Seq(Ids) /\ j.ids # << >> /\ j.gap \in {0, 1}
      /\ \A m \in DOMAIN j.ids : NParts[j.ids[m]] = NParts[j.ids[1]]
  BY LoadingAssumption
<1>2. /\ DOMAIN j.ids = 1 .. Len(j.ids) /\ j.ids[1] \in Ids
      /\ \A m \in DOMAIN j.ids : j.ids[m] \in Ids
  BY <1>1
<1>3. NParts[j.ids[1]] \in Nat /\ NParts[j.ids[1]] > 1
  BY <1>2, LoadingAssumption
<1> QED
  BY <1>1, <1>2, <1>3 DEF Loads, Program

(* The program of a load of ids with n parts.                                 *)
LEMMA LoadProgram ==
  ASSUME NEW j \in Jobs, j.kind = "load",
         NEW last \in Nat, last = RowsEnd(j.ids, j.gap, NParts[j.ids[1]] - 1)
  PROVE  /\ DOMAIN Program(j) = 1 .. last + 1 - j.gap
         /\ Len(Program(j)) = last + 1 - j.gap
         /\ \A m \in DOMAIN Program(j) : Program(j)[m] = LoadStmt(j.ids, j.gap, m)
<1>1. Program(j) = Load(j.ids, j.gap) /\ j.gap \in {0, 1}
  BY LoadIs
<1>2. PICK l \in Nat : l = last + 1 - j.gap
  BY <1>1
<1>3. Load(j.ids, j.gap) = [m \in 1 .. l |-> LoadStmt(j.ids, j.gap, m)]
  BY Zenon, <1>2 DEF Load
<1>4. DOMAIN Program(j) = 1 .. l
  BY <1>1, <1>3
<1>5. \A m \in 1 .. l : Program(j)[m] = LoadStmt(j.ids, j.gap, m)
  BY Zenon, <1>1, <1>3
<1>6. Len(Program(j)) = l
  <2>1. Program(j) = [m \in DOMAIN Program(j) |-> Program(j)[m]]
    BY Zenon, <1>1, <1>3
  <2>2. Program(j) \in [1 .. l -> {Program(j)[m] : m \in 1 .. l}]
    BY <1>4, <2>1
  <2> QED
    BY <2>2, LenIs
<1> QED
  BY <1>2, <1>4, <1>5, <1>6

LEMMA RowsEndNat ==
  ASSUME NEW j \in Jobs, j.kind = "load"
  PROVE  RowsEnd(j.ids, j.gap, NParts[j.ids[1]] - 1) \in Nat
<1>1. PICK L \in Nat : L = Len(j.ids)
  BY LoadIs
<1>2. PICK g \in Nat : g = L + j.gap /\ j.gap \in Nat
  BY <1>1, LoadIs
<1>3. PICK rows \in Nat : rows = NParts[j.ids[1]] - 1 - 1
  BY LoadIs
<1>4. 2 * L + j.gap + rows * g \in Nat
  BY <1>2
<1> QED
  BY Zenon, <1>1, <1>2, <1>3, <1>4 DEF RowsEnd

LEMMA LoadStatements ==
  ASSUME NEW j \in Jobs, j.kind = "load", NEW m \in DOMAIN Program(j)
  PROVE  StatementOK(j, m) /\ Program(j)[m].op # "delete"
<1>1. PICK last \in Nat : last = RowsEnd(j.ids, j.gap, NParts[j.ids[1]] - 1)
  BY RowsEndNat
<1>2. /\ m \in 1 .. last + 1 - j.gap /\ Len(Program(j)) = last + 1 - j.gap
      /\ Program(j)[m] = LoadStmt(j.ids, j.gap, m)
  BY <1>1, LoadProgram
<1>3. PICK n \in Nat : n = NParts[j.ids[1]] /\ n > 1
  BY LoadIs
<1>4. /\ \/ Program(j)[m] = Commit
         \/ \E i \in 1 .. Len(j.ids), k \in 1 .. n :
              Program(j)[m] = OfPart("insert", j.ids[i], k)
      /\ j.gap = 0 /\ Program(j)[m] = Commit => m = last + 1
  <2>1. j.ids \in Seq(Ids) /\ j.ids # << >> /\ j.gap \in {0, 1}
    BY LoadIs
  <2>2. m \in 1 .. RowsEnd(j.ids, j.gap, n - 1) + 1 - j.gap
    BY <1>1, <1>2, <1>3
  <2>3. /\ \/ LoadStmt(j.ids, j.gap, m) = Commit
           \/ \E i \in 1 .. Len(j.ids), k \in 1 .. n :
                LoadStmt(j.ids, j.gap, m) = OfPart("insert", j.ids[i], k)
        /\ j.gap = 0 /\ LoadStmt(j.ids, j.gap, m) = Commit =>
             m = RowsEnd(j.ids, j.gap, n - 1) + 1
    BY <1>3, <2>1, <2>2, LoadStatement
  <2>4. RowsEnd(j.ids, j.gap, n - 1) = last
    BY <1>1, <1>3
  <2> QED
    BY Zenon, <1>2, <2>3, <2>4
<1>5. CASE Program(j)[m] = Commit
  <2>1. AtOnce(j) => m = Len(Program(j))
    BY <1>2, <1>4, <1>5, LoadIs DEF AtOnce
  <2> QED
    BY <1>5, <2>1 DEF StatementOK, OfId, OfPart, Stmt, Commit
<1>6. ASSUME NEW i \in 1 .. Len(j.ids), NEW k \in 1 .. n,
             Program(j)[m] = OfPart("insert", j.ids[i], k)
      PROVE  StatementOK(j, m) /\ Program(j)[m].op # "delete"
  <2>1. j.ids[i] \in Loads(j) /\ k \in Parts(j.ids[i])
    BY <1>3, LoadIs DEF Parts
  <2> QED
    BY <1>6, <2>1 DEF StatementOK, OfId, OfPart, Stmt, Commit
<1> QED
  BY <1>4, <1>5, <1>6 DEF OfId, OfPart, Stmt, Commit

(* Without gaps every part of every id is inserted before the commit.         *)
LEMMA LoadInserts ==
  ASSUME NEW j \in Jobs, j.kind = "load", AtOnce(j),
         NEW i \in Loads(j), NEW k \in Parts(i)
  PROVE  \E m \in DOMAIN Program(j) :
           m < Len(Program(j)) /\ Program(j)[m] = OfPart("insert", i, k)
<1>1. j.gap = 0
  BY LoadIs DEF AtOnce
<1>2. PICK last \in Nat : last = RowsEnd(j.ids, j.gap, NParts[j.ids[1]] - 1)
  BY RowsEndNat
<1>3. /\ DOMAIN Program(j) = 1 .. last + 1 /\ Len(Program(j)) = last + 1
      /\ \A m \in DOMAIN Program(j) : Program(j)[m] = LoadStmt(j.ids, 0, m)
  BY <1>1, <1>2, LoadProgram
<1>4. PICK n \in Nat : n = NParts[j.ids[1]] /\ n > 1
  BY LoadIs
<1>5. PICK x \in 1 .. Len(j.ids) : i = j.ids[x]
  BY LoadIs
<1>6. k \in 1 .. n
  BY <1>4, <1>5, LoadIs DEF Parts
<1>7. PICK m \in 1 .. last : LoadStmt(j.ids, 0, m) = OfPart("insert", j.ids[x], k)
  <2>1. j.ids \in Seq(Ids) /\ j.ids # << >>
    BY LoadIs
  <2>2. last = RowsEnd(j.ids, 0, n - 1)
    BY <1>1, <1>2, <1>4
  <2> QED
    BY <1>4, <1>6, <2>1, <2>2, LoadComplete
<1> QED
  BY <1>3, <1>5, <1>7

-----------------------------------------------------------------------------
(* The programs of the other jobs insert and delete no part.                  *)
LEMMA ScenariosStatements ==
  ASSUME NEW j \in Jobs, j.kind = "scenarios", NEW m \in DOMAIN Program(j)
  PROVE  StatementOK(j, m) /\ Program(j)[m].op \notin {"insert", "delete"}
<1>1. Program(j) = LoadScenarios(j.loads)
  BY DEF Program
<1>0. j.loads \in Seq([name : Names, ref : Columns \cup {Null}])
  <2>1. \A x \in Jobs : x.kind = "scenarios" =>
          x.loads \in Seq([name : Names, ref : Columns \cup {Null}])
    BY LoadingAssumption
  <2> QED
    BY <2>1
<1>2. PICK n \in Nat : n = Len(j.loads)
  BY <1>0
<1> DEFINE load == j.loads[(m + 3) \div 4]
           step == (m + 3) % 4
<1>3. m \in 1 .. 4 * n + 1
  BY <1>1, <1>2 DEF LoadScenarios
<1>4. Program(j)[m] =
        IF m = 4 * n + 1 THEN Commit
        ELSE IF step = 0 THEN OfName("lookup", load.name)
        ELSE IF step = 1 THEN OfName("clear", load.name)
        ELSE IF step = 2 THEN OfName("drop", load.name)
        ELSE Stmt("create", load.ref, 1, load.name)
  BY Zenon, <1>1, <1>2, <1>3 DEF LoadScenarios
<1>5. Len(Program(j)) = 4 * n + 1
  <2>1. PICK l \in Nat : l = 4 * n + 1
    OBVIOUS
  <2>2. DOMAIN Program(j) = 1 .. l
    BY <1>1, <1>2, <2>1 DEF LoadScenarios
  <2>3. Program(j) = [x \in DOMAIN Program(j) |-> Program(j)[x]]
    BY <1>1 DEF LoadScenarios
  <2>4. Program(j) \in [1 .. l -> {Program(j)[x] : x \in 1 .. l}]
    BY <2>2, <2>3
  <2> QED
    BY <2>1, <2>4, LenIs
<1>6. m # 4 * n + 1 => load.name \in Names /\ load.ref \in Columns \cup {Null}
  <2>1. ASSUME m # 4 * n + 1 PROVE (m + 3) \div 4 \in 1 .. n
    BY <1>3, <2>1
  <2>2. PICK S : S = [name : Names, ref : Columns \cup {Null}]
    OBVIOUS
  <2>3. m # 4 * n + 1 => load \in S
    <3> SUFFICES ASSUME m # 4 * n + 1 PROVE load \in S
      OBVIOUS
    <3>1. PICK x \in 1 .. Len(j.loads) : x = (m + 3) \div 4
      BY <1>2, <2>1
    <3>2. j.loads \in Seq(S)
      BY Zenon, <1>0, <2>2
    <3>3. j.loads[x] \in S
      BY <3>2, ElementOf
    <3> QED
      BY Zenon, <3>1, <3>3
  <2> HIDE DEF load
  <2> QED
    BY <2>2, <2>3
<1> HIDE DEF load, step
<1> QED
  BY <1>4, <1>5, <1>6 DEF StatementOK, OfName, OfId, OfPart, Stmt, Commit

LEMMA DeleteStatements ==
  ASSUME NEW j \in Jobs, j.kind = "delete", NEW m \in DOMAIN Program(j)
  PROVE  StatementOK(j, m) /\ Program(j)[m].op \notin {"insert", "delete"}
<1>1. Program(j) = DeleteScenario(j.name)
  BY DEF Program
<1>2. m \in 1 .. 5 /\ Len(Program(j)) = 5
  BY <1>1 DEF DeleteScenario
<1> QED
  BY <1>1, <1>2
  DEF DeleteScenario, StatementOK, OfName, OfId, OfPart, Stmt, Commit

(* For every job.                                                             *)
LEMMA Statements ==
  ASSUME NEW j \in Jobs, NEW m \in DOMAIN Program(j)
  PROVE  /\ StatementOK(j, m)
         /\ Program(j)[m].op = "delete" =>
              \A l \in DOMAIN Program(j) : l < m => Program(j)[l].op # "insert"
<1>1. j.kind \in {"reload", "load", "scenarios", "delete"}
  BY LoadingAssumption
<1> QED
  BY <1>1, ReloadStatements, LoadStatements, ScenariosStatements, DeleteStatements

LEMMA Complete ==
  ASSUME NEW j \in Jobs, AtOnce(j), NEW i \in Loads(j), NEW k \in Parts(i)
  PROVE  \E m \in DOMAIN Program(j) :
           m < Len(Program(j)) /\ Program(j)[m] = OfPart("insert", i, k)
<1>1. j.kind \in {"reload", "load"}
  BY DEF Loads
<1> QED
  BY <1>1, ReloadComplete, LoadInserts

LEMMA DomainNat ==
  ASSUME NEW j \in Jobs, NEW m \in DOMAIN Program(j)
  PROVE  m \in Nat /\ m # 0
<1>1. CASE j.kind = "reload"
  BY <1>1 DEF Program, Reload
<1>2. CASE j.kind = "load"
  BY <1>2 DEF Program, Load
<1>3. CASE j.kind = "scenarios"
  BY <1>3 DEF Program, LoadScenarios
<1>4. CASE j.kind = "delete"
  BY <1>4 DEF Program, DeleteScenario
<1> QED
  BY <1>1, <1>2, <1>3, <1>4, LoadingAssumption

-----------------------------------------------------------------------------
(* The operations on a database that is typed.                                *)
LEMMA SetRefOK ==
  ASSUME NEW db, IsDb(db), DatabaseOK(db), NEW rows, NEW ref \in Columns \cup {Null}
  PROVE  /\ DatabaseOK(SetRef(db, rows, ref))
         /\ SetRef(db, rows, ref).parts = db.parts
<1> DEFINE new == [r \in DOMAIN db.scenarios |->
                     [name |-> db.scenarios[r].name,
                      ref |-> IF r \in rows THEN ref ELSE db.scenarios[r].ref]]
<1>1. SetRef(db, rows, ref) = [parts |-> db.parts, scenarios |-> new,
                               results |-> db.results, last |-> db.last]
  <2>1. SetRef(db, rows, ref) = [db EXCEPT !.scenarios = new]
    BY Zenon DEF SetRef
  <2> HIDE DEF new
  <2> QED
    BY <2>1 DEF IsDb
<1>2. /\ DOMAIN new = DOMAIN db.scenarios
      /\ \A r \in DOMAIN new : new[r] \in [name : Names, ref : Columns \cup {Null}]
  BY DEF DatabaseOK
<1> HIDE DEF new
<1> QED
  BY <1>1, <1>2 DEF DatabaseOK

LEMMA SetPartOK ==
  ASSUME NEW db, IsDb(db), DatabaseOK(db), NEW id \in Ids, NEW part \in Parts(id),
         NEW who \in Procs \cup {Nobody, Earlier}
  PROVE  /\ DatabaseOK(SetPart(db, id, part, who))
         /\ \A i \in Ids : \A k \in Parts(i) :
              SetPart(db, id, part, who).parts[i][k] =
                IF i = id /\ k = part THEN who ELSE db.parts[i][k]
<1> DEFINE new == [db.parts EXCEPT ![id][part] = who]
<1>1. SetPart(db, id, part, who) = [parts |-> new, scenarios |-> db.scenarios,
                                    results |-> db.results, last |-> db.last]
  BY DEF SetPart, IsDb
<1>2. /\ DOMAIN new = Ids
      /\ \A i \in Ids : new[i] = IF i = id THEN [db.parts[i] EXCEPT ![part] = who]
                                 ELSE db.parts[i]
  BY DEF DatabaseOK
<1> HIDE DEF new
<1>3. \A i \in Ids : db.parts[i] \in [Parts(i) -> Procs \cup {Nobody, Earlier}]
  BY DEF DatabaseOK
<1>4. \A i \in Ids :
        /\ new[i] \in [Parts(i) -> Procs \cup {Nobody, Earlier}]
        /\ \A k \in Parts(i) :
             new[i][k] = IF i = id /\ k = part THEN who ELSE db.parts[i][k]
  BY <1>2, <1>3
<1> QED
  BY <1>1, <1>2, <1>4 DEF DatabaseOK

LEMMA ClearOK ==
  ASSUME NEW db, IsDb(db), DatabaseOK(db), NEW rows
  PROVE  /\ DatabaseOK(Clear(db, rows))
         /\ Clear(db, rows).parts = db.parts
<1>1. Clear(db, rows) = [parts |-> db.parts, scenarios |-> db.scenarios,
                         results |-> db.results \ rows, last |-> db.last]
  BY DEF Clear, IsDb
<1> QED
  BY <1>1 DEF DatabaseOK

(* A row is dropped once its results are.                                     *)
LEMMA DropOK ==
  ASSUME NEW db, IsDb(db), DatabaseOK(db), NEW rows, rows \cap db.results = {}
  PROVE  /\ DatabaseOK(Drop(db, rows))
         /\ Drop(db, rows).parts = db.parts
<1> DEFINE new == [r \in DOMAIN db.scenarios \ rows |-> db.scenarios[r]]
<1>1. Drop(db, rows) = [parts |-> db.parts, scenarios |-> new,
                        results |-> db.results, last |-> db.last]
  BY DEF Drop, IsDb
<1>2. /\ DOMAIN new = DOMAIN db.scenarios \ rows
      /\ \A r \in DOMAIN new : new[r] = db.scenarios[r]
  OBVIOUS
<1> HIDE DEF new
<1> QED
  BY <1>1, <1>2 DEF DatabaseOK

LEMMA CreateOK ==
  ASSUME NEW db, IsDb(db), DatabaseOK(db), NEW name \in Names,
         NEW ref \in Columns \cup {Null}
  PROVE  /\ DatabaseOK(Create(db, name, ref))
         /\ Create(db, name, ref).parts = db.parts
<1> DEFINE new == [r \in DOMAIN db.scenarios \cup {db.last + 1} |->
                     IF r = db.last + 1 THEN [name |-> name, ref |-> ref]
                     ELSE db.scenarios[r]]
<1>1. Create(db, name, ref) = [parts |-> db.parts, scenarios |-> new,
                               results |-> db.results, last |-> db.last + 1]
  <2>1. Create(db, name, ref) = [db EXCEPT !.last = db.last + 1, !.scenarios = new]
    BY Zenon DEF Create, NewRow
  <2> HIDE DEF new
  <2> QED
    BY <2>1 DEF IsDb
<1>2. /\ DOMAIN new = DOMAIN db.scenarios \cup {db.last + 1}
      /\ \A r \in DOMAIN new :
           \/ r \in DOMAIN db.scenarios /\ new[r] = db.scenarios[r]
           \/ new[r] = [name |-> name, ref |-> ref]
  OBVIOUS
<1> HIDE DEF new
<1>3. \A r \in DOMAIN new : new[r] \in [name : Names, ref : Columns \cup {Null}]
  BY <1>2 DEF DatabaseOK
<1>4. DOMAIN new \subseteq 1 .. db.last + 1 /\ db.last + 1 \in Nat
  BY <1>2 DEF DatabaseOK
<1> QED
  BY <1>1, <1>2, <1>3, <1>4 DEF DatabaseOK

-----------------------------------------------------------------------------
(* Both databases are typed.                                                  *)
TypedInv ==
  /\ IInv
  /\ DatabaseOK(committed) /\ DatabaseOK(work)
  /\ at \in [Procs -> Nat \ {0}]
  /\ lockedOut \in [Procs -> BOOLEAN]

LEMMA TypedImplies == TypedInv => TypeOK
  BY DEF TypedInv, IInv, TypeInv, TypeOK, Statuses, Live

LEMMA TypedInit == Init => TypedInv
<1> SUFFICES ASSUME Init PROVE TypedInv
  OBVIOUS
<1>1. PICK loaded \in EarlierIds : \E scenarios \in EarlierScenarios(loaded) :
        committed = EarlierData(loaded, scenarios)
  BY DEF Init
<1>2. PICK scenarios \in EarlierScenarios(loaded) :
        committed = EarlierData(loaded, scenarios)
  BY <1>1
<1>3. loaded \subseteq Ids
  BY DEF EarlierIds
<1>4. /\ Len(scenarios) \in Nat /\ DOMAIN scenarios = 1 .. Len(scenarios)
      /\ \A r \in DOMAIN scenarios :
           scenarios[r] \in [name : Names, ref : Columns \cup {Null}]
  <2>1. CASE scenarios = << >>
    BY <2>1
  <2>2. ASSUME NEW n \in Names, NEW i \in (loaded \cap Columns) \cup {Null},
               scenarios = << [name |-> n, ref |-> i] >>
        PROVE  <1>4
    BY <2>2
  <2> QED
    BY <2>1, <2>2 DEF EarlierScenarios
<1>5. DatabaseOK(committed)
  <2>1. \A i \in Ids : [k \in Parts(i) |-> IF i \in loaded THEN Earlier ELSE Nobody]
          \in [Parts(i) -> Procs \cup {Nobody, Earlier}]
    OBVIOUS
  <2>2. /\ DOMAIN committed.parts = Ids
        /\ \A i \in Ids : committed.parts[i] =
             [k \in Parts(i) |-> IF i \in loaded THEN Earlier ELSE Nobody]
        /\ committed.scenarios = scenarios /\ committed.last = Len(scenarios)
        /\ committed.results = DOMAIN scenarios
    BY <1>2 DEF EarlierData
  <2> QED
    BY <1>4, <2>1, <2>2 DEF DatabaseOK
<1>6. DatabaseOK(work)
  BY <1>5 DEF Init
<1> QED
  BY <1>5, <1>6, InitInv DEF Init, TypedInv

(* What a process can reach is a statement of its job.                        *)
LEMMA NowOK ==
  ASSUME TypedInv, NEW p \in Procs, at[p] \in DOMAIN Program(job[p])
  PROVE  /\ StatementOK(job[p], at[p]) /\ Now(p) = Program(job[p])[at[p]]
         /\ job[p] \in Jobs
         /\ Now(p).op \in {"insert", "delete"} =>
              Now(p).id \in Ids /\ Now(p).part \in Parts(Now(p).id)
         /\ Now(p).op = "repopulate" => BaseOf[Now(p).id] \in Columns
         /\ Now(p).op = "create" =>
              Now(p).name \in Names /\ Now(p).id \in Columns \cup {Null}
<1>1. job[p] \in Jobs
  BY DEF TypedInv, IInv, TypeInv
<1>2. StatementOK(job[p], at[p]) /\ Now(p) = Program(job[p])[at[p]]
  BY <1>1, Statements DEF Now
<1>3. Now(p).op = "repopulate" => BaseOf[Now(p).id] \in Columns
  BY <1>1, <1>2, LoadingAssumption DEF StatementOK
<1> QED
  BY <1>1, <1>2, <1>3, LoadsIds DEF StatementOK

LEMMA ViewTyped ==
  ASSUME TypedInv, NEW p \in Procs
  PROVE  IsDb(View(p)) /\ DatabaseOK(View(p))
  BY ViewOk DEF TypedInv, View

(* A process writes, or fails.                                                *)
LEMMA TypedWrite ==
  ASSUME TypedInv, IInv', NEW p \in Procs, NEW ok, NEW db, Write(p, ok, db),
         ok => DatabaseOK(db)
  PROVE  TypedInv'
<1>1. CASE End(p, "failed")
  BY <1>1 DEF End, Discard, TypedInv
<1>2. CASE /\ ok /\ work' = db /\ at' = [at EXCEPT ![p] = at[p] + 1]
           /\ UNCHANGED << committed, lockedOut >>
  BY <1>2 DEF TypedInv, DatabaseOK
<1> QED
  BY <1>1, <1>2 DEF Write, Goto

(* A process goes on without writing.                                         *)
LEMMA TypedGoOn ==
  ASSUME TypedInv, IInv', NEW p \in Procs, NEW a \in Nat \ {0},
         UNCHANGED << committed, work >>,
         at' = [at EXCEPT ![p] = a],
         UNCHANGED lockedOut \/ lockedOut' = [lockedOut EXCEPT ![p] = TRUE]
  PROVE  TypedInv'
  BY DEF TypedInv, DatabaseOK

LEMMA TypedStep ==
  ASSUME TypedInv, IInv', NEW p \in Procs, Step(p)
  PROVE  TypedInv'
<1>1. /\ at[p] \in Nat \ {0} /\ at[p] + 1 \in Nat \ {0} /\ at[p] + 3 \in Nat \ {0}
      /\ at = [at EXCEPT ![p] = at[p]]
  BY DEF TypedInv
<1>2. CASE Skip(p)
  BY <1>1, <1>2, TypedGoOn DEF Skip, Goto
<1>3. CASE Select(p) \/ Lookup(p) \/ Confirm(p)
  <2>1. /\ UNCHANGED << committed, work, lockedOut >>
        /\ at' = at \/ at' = [at EXCEPT ![p] = at[p] + 1]
           \/ at' = [at EXCEPT ![p] = at[p] + 3]
    BY <1>3 DEF Select, Lookup, Confirm, Goto
  <2> QED
    BY <1>1, <2>1, TypedGoOn
<1>4. CASE Find(p)
  <2>1. \/ End(p, "failed")
        \/ /\ UNCHANGED << committed, work, lockedOut >>
           /\ at' = [at EXCEPT ![p] = at[p] + 1]
    BY <1>4 DEF Find, Goto
  <2>2. CASE End(p, "failed")
    BY <2>2 DEF End, Discard, TypedInv
  <2> QED
    BY <1>1, <2>1, <2>2, TypedGoOn
<1>5. CASE Nullify(p)
  <2>1. DatabaseOK(SetRef(View(p), concerned[p], Null))
    BY ViewTyped, SetRefOK
  <2> QED
    BY <1>2, <1>5, <2>1, TypedWrite DEF Nullify
<1>6. CASE Repopulate(p)
  <2>1. \A rows : DatabaseOK(SetRef(View(p), rows, BaseOf[Now(p).id]))
    BY <1>6, ViewTyped, SetRefOK, NowOK DEF Repopulate, Running
  <2> QED
    BY <1>2, <1>6, <2>1, TypedWrite DEF Repopulate
<1>7. CASE DeletePart(p)
  <2>1. DatabaseOK(SetPart(View(p), Now(p).id, Now(p).part, Nobody))
    BY <1>7, ViewTyped, SetPartOK, NowOK DEF DeletePart, Running
  <2> QED
    BY <1>2, <1>7, <2>1, TypedWrite DEF DeletePart
<1>8. CASE InsertPart(p)
  <2>1. DatabaseOK(SetPart(View(p), Now(p).id, Now(p).part, p))
    BY <1>8, ViewTyped, SetPartOK, NowOK DEF InsertPart, Running
  <2> QED
    BY <1>8, <2>1, TypedWrite DEF InsertPart
<1>9. CASE ClearResults(p)
  <2>1. DatabaseOK(Clear(View(p), concerned[p]))
    BY ViewTyped, ClearOK
  <2> QED
    BY <1>9, <2>1, TypedWrite DEF ClearResults
<1>10. CASE DropRow(p)
  <2>1. concerned[p] \cap View(p).results = {} =>
          DatabaseOK(Drop(View(p), concerned[p]))
    BY ViewTyped, DropOK
  <2> QED
    BY <1>10, <2>1, TypedWrite DEF DropRow
<1>11. CASE CreateRow(p)
  <2>1. DatabaseOK(Create(View(p), Now(p).name, Now(p).id))
    BY <1>11, ViewTyped, CreateOK, NowOK DEF CreateRow, Running
  <2> QED
    BY <1>11, <2>1, TypedWrite DEF CreateRow
<1>12. CASE CommitWork(p)
  <2>1. /\ UNCHANGED << work, lockedOut >>
        /\ committed' = work \/ committed' = committed
        /\ at' = at \/ at' = [at EXCEPT ![p] = at[p] + 1]
    BY <1>12 DEF CommitWork, Goto
  <2>2. at' \in [Procs -> Nat \ {0}]
    BY <1>1, <2>1 DEF TypedInv
  <2> QED
    BY <2>1, <2>2 DEF TypedInv, DatabaseOK
<1>13. CASE GiveUp(p)
  BY <1>1, <1>13, TypedGoOn DEF GiveUp, Goto
<1> QED
  BY <1>3, <1>4, <1>5, <1>6, <1>7, <1>8, <1>9, <1>10, <1>11, <1>12, <1>13 DEF Step

LEMMA TypedNext == TypedInv /\ [Next]_vars => TypedInv'
<1> SUFFICES ASSUME TypedInv, [Next]_vars PROVE TypedInv'
  OBVIOUS
<1>1. IInv'
  BY NextInv DEF TypedInv
<1>2. CASE UNCHANGED vars
  BY <1>1, <1>2 DEF vars, TypedInv, DatabaseOK
<1>3. ASSUME NEW p \in Procs, Step(p)
      PROVE  TypedInv'
  BY <1>1, <1>3, TypedStep
<1>4. ASSUME NEW p \in Procs, Agree(p) \/ Refuse(p) \/ Kill(p)
      PROVE  TypedInv'
  <2>1. /\ at[p] + 1 \in Nat \ {0} /\ at[p] + 4 \in Nat \ {0}
    BY DEF TypedInv
  <2>2. CASE Agree(p)
    BY <1>1, <2>1, <2>2, TypedGoOn DEF Agree, Goto
  <2>3. ASSUME NEW how, End(p, how)
        PROVE  TypedInv'
    BY <1>1, <2>3 DEF End, Discard, TypedInv
  <2>4. CASE Refuse(p)
    BY <1>1, <2>1, <2>3, <2>4, TypedGoOn DEF Refuse, Goto
  <2>5. CASE Kill(p)
    BY <2>3, <2>5 DEF Kill
  <2> QED
    BY <1>4, <2>2, <2>4, <2>5
<1> QED
  BY <1>2, <1>3, <1>4 DEF Next

(* Whatever the processes load, delete or give up, the two databases keep     *)
(* their form: every id has the parts that its tables can hold, a scenario    *)
(* names an id that is one of its column, results are those of a scenario     *)
(* that is there (db_schema.sql), and without a writer there is no open       *)
(* transaction.                                                               *)
THEOREM DatabasesTyped == Spec => []TypeOK
<1> QED
  BY TypedInit, TypedNext, TypedImplies, PTL DEF Spec

-----------------------------------------------------------------------------
(* What the statements before m insert are the process's own parts.           *)
Inserts(p, m) == m \in DOMAIN Program(job[p]) /\ Program(job[p])[m].op = "insert"
PartOf(p, db, m) == db.parts[Program(job[p])[m].id][Program(job[p])[m].part]
Full(id) == \A k \in Parts(id) : committed.parts[id][k] # Nobody

(* A process that is not done has committed nothing, and what is not          *)
(* committed is the writer's.                                                 *)
FreshInv ==
  \A p \in Procs : ~Piecemeal(p) /\ status[p] # "done" =>
    \A i \in Ids : \A k \in Parts(i) :
      committed.parts[i][k] # p /\ (writer # p => work.parts[i][k] # p)

(* In its transaction a load fills parts that were empty, a reload empties    *)
(* and fills parts of its id.                                                 *)
ChangeInv ==
  \A p \in Procs : writer = p =>
    \A i \in Ids : \A k \in Parts(i) :
      \/ work.parts[i][k] = committed.parts[i][k]
      \/ /\ i \in Loads(job[p])
         /\ work.parts[i][k] = p \/ (IsReload(p) /\ work.parts[i][k] = Nobody)
         /\ IsReload(p) \/ committed.parts[i][k] = Nobody

(* A process that was never locked out has inserted what it came by, and      *)
(* holds the lock since.                                                      *)
DoneInv ==
  \A p \in Procs : ~Piecemeal(p) /\ status[p] \in Live /\ ~lockedOut[p] =>
    \A m \in Nat : Inserts(p, m) /\ m < at[p] => writer = p /\ PartOf(p, work, m) = p

(* A reload that may have been locked out: if all parts were there, it has    *)
(* changed none yet, or inserted all it came by.                              *)
FullInv ==
  \A p \in Procs : writer = p /\ IsReload(p) /\ Full(job[p].id) =>
    \/ \A k \in Parts(job[p].id) :
         work.parts[job[p].id][k] = committed.parts[job[p].id][k]
    \/ \A m \in Nat : Inserts(p, m) /\ m < at[p] => PartOf(p, work, m) = p

AskInv == \A p \in Procs : status[p] = "asking" => job[p].kind # "load"

PartsInv ==
  TypedInv /\ FreshInv /\ ChangeInv /\ DoneInv /\ FullInv /\ AskInv /\ LoadedAsAWhole

LEMMA InsertIs ==
  ASSUME TypedInv, NEW p \in Procs, NEW m, Inserts(p, m)
  PROVE  /\ Program(job[p])[m].id \in Loads(job[p])
         /\ Program(job[p])[m].id \in Ids
         /\ Program(job[p])[m].part \in Parts(Program(job[p])[m].id)
         /\ job[p].kind \in {"reload", "load"}
         /\ IsReload(p) => Program(job[p])[m].id = job[p].id
<1>1. job[p] \in Jobs /\ StatementOK(job[p], m)
  BY Statements DEF TypedInv, IInv, TypeInv, Inserts
<1> QED
  BY <1>1, LoadsIds DEF StatementOK, Inserts, Loads, IsReload

(* A process goes on, and no part changes.                                    *)
LEMMA StayStep ==
  ASSUME PartsInv, TypedInv', NEW p \in Procs, status[p] \in Live,
         NEW a \in Nat, NEW s \in Live, NEW l \in BOOLEAN,
         UNCHANGED << job, committed >>, work'.parts = work.parts,
         writer' = writer \/ (writer' = p /\ writer = Nobody),
         at' = [at EXCEPT ![p] = a],
         status' = [status EXCEPT ![p] = s],
         lockedOut' = [lockedOut EXCEPT ![p] = l],
         lockedOut[p] => l,
         s = "asking" => job[p].kind # "load",
         \/ l /\ writer' # p
         \/ \A m \in Nat : Inserts(p, m) /\ m < a => m < at[p]
  PROVE  PartsInv'
<1>0. /\ \A q \in Procs : /\ q # p => at'[q] = at[q] /\ status'[q] = status[q]
                                      /\ lockedOut'[q] = lockedOut[q]
      /\ at'[p] = a /\ status'[p] = s /\ lockedOut'[p] = l
      /\ Nobody \notin Procs
  BY LoadingAssumption DEF PartsInv, TypedInv, IInv, TypeInv
<1>1. FreshInv'
  BY <1>0 DEF PartsInv, FreshInv, Piecemeal, Live
<1>2. ChangeInv'
  <2> SUFFICES ASSUME NEW q \in Procs, writer' = q, NEW i \in Ids, NEW k \in Parts(i)
               PROVE  \/ work'.parts[i][k] = committed.parts[i][k]
                      \/ /\ i \in Loads(job[q])
                         /\ \/ work'.parts[i][k] = q
                            \/ IsReload(q) /\ work'.parts[i][k] = Nobody
                         /\ IsReload(q) \/ committed.parts[i][k] = Nobody
    BY DEF ChangeInv, IsReload
  <2>1. CASE writer = q
    BY <2>1 DEF PartsInv, ChangeInv
  <2>2. CASE writer = Nobody
    BY <2>2 DEF PartsInv, TypedInv, IInv, TypeInv
  <2> QED
    BY <2>1, <2>2
<1>3. DoneInv'
  <2> SUFFICES ASSUME NEW q \in Procs, ~Piecemeal(q), status'[q] \in Live,
                      ~lockedOut'[q], NEW m \in Nat, Inserts(q, m), m < at'[q]
               PROVE  writer' = q /\ PartOf(q, work, m)' = q
    BY DEF DoneInv, Inserts, Piecemeal
  <2>1. status[q] \in Live /\ ~lockedOut[q] /\ m < at[q]
    BY <1>0 DEF PartsInv
  <2>2. writer = q /\ PartOf(q, work, m) = q
    BY <2>1 DEF PartsInv, DoneInv
  <2> QED
    BY <1>0, <2>2 DEF PartOf
<1>4. FullInv'
  <2> SUFFICES ASSUME NEW q \in Procs, writer' = q, IsReload(q), Full(job[q].id)
               PROVE  \/ \A k \in Parts(job[q].id) :
                           work'.parts[job[q].id][k] = committed.parts[job[q].id][k]
                      \/ \A m \in Nat :
                           Inserts(q, m) /\ m < at'[q] => PartOf(q, work, m)' = q
    BY DEF FullInv, IsReload, Full, Inserts
  <2>1. CASE writer = Nobody
    BY <2>1 DEF PartsInv, TypedInv, IInv, TypeInv
  <2>2. CASE writer = q
    <3>1. \A m \in Nat : Inserts(q, m) /\ m < at'[q] => m < at[q]
      BY <1>0, <2>2
    <3> QED
      BY <2>2, <3>1 DEF PartsInv, FullInv, PartOf
  <2> QED
    BY <2>1, <2>2
<1>5. AskInv'
  BY <1>0 DEF PartsInv, AskInv
<1>6. LoadedAsAWhole'
  BY <1>0 DEF PartsInv, LoadedAsAWhole, Piecemeal, Live
<1> QED
  BY <1>1, <1>2, <1>3, <1>4, <1>5, <1>6 DEF PartsInv

(* A process ends.                                                            *)
LEMMA EndParts ==
  ASSUME PartsInv, TypedInv', NEW p \in Procs, status[p] \in Live,
         NEW how \in {"failed", "exited", "killed"}, End(p, how)
  PROVE  PartsInv'
<1>0. /\ \A q \in Procs : q # p => status'[q] = status[q]
      /\ status'[p] = how /\ status[p] # "done" /\ how \notin Live \cup {"done", "asking"}
      /\ Nobody \notin Procs
      /\ UNCHANGED << job, committed, at, lockedOut >>
      /\ \/ writer = p /\ writer' = Nobody /\ work' = committed
         \/ writer # p /\ UNCHANGED << work, writer >>
  BY LoadingAssumption DEF PartsInv, TypedInv, IInv, TypeInv, End, Discard, Live
<1>1. FreshInv'
  BY <1>0 DEF PartsInv, FreshInv, Piecemeal
<1>2. ChangeInv'
  BY <1>0 DEF PartsInv, ChangeInv, IsReload
<1>3. DoneInv'
  BY <1>0 DEF PartsInv, DoneInv, Piecemeal, Inserts, PartOf
<1>4. FullInv'
  BY <1>0 DEF PartsInv, FullInv, IsReload, Full, Inserts, PartOf
<1>5. AskInv'
  BY <1>0 DEF PartsInv, AskInv
<1>6. LoadedAsAWhole'
  BY <1>0 DEF PartsInv, LoadedAsAWhole, Piecemeal
<1> QED
  BY <1>1, <1>2, <1>3, <1>4, <1>5, <1>6 DEF PartsInv

(* A process sets one part, and holds the lock from then on.                  *)
SetsPart(p, id, part, who) ==
  /\ status[p] \in Live /\ at[p] \in DOMAIN Program(job[p])
  /\ writer \in {p, Nobody} /\ writer' = p
  /\ \A i \in Ids : \A k \in Parts(i) :
       work'.parts[i][k] = IF i = id /\ k = part THEN who ELSE work.parts[i][k]
  /\ at' = [at EXCEPT ![p] = at[p] + 1]
  /\ UNCHANGED << job, committed, status, lockedOut >>

LEMMA NobodyWrites ==
  ASSUME TypedInv, writer = Nobody
  PROVE  work = committed
  BY DEF TypedInv, IInv, TypeInv

(* For the other processes nothing changes.                                   *)
LEMMA SetForOthers ==
  ASSUME PartsInv, NEW p \in Procs, NEW id, NEW part, NEW who,
         SetsPart(p, id, part, who), NEW q \in Procs, q # p,
         ~Piecemeal(q), status[q] \in Live, ~lockedOut[q],
         NEW m \in Nat, Inserts(q, m), m < at'[q]
  PROVE  FALSE
<1>1. at'[q] = at[q]
  BY DEF PartsInv, TypedInv, SetsPart
<1>2. writer = q
  BY <1>1 DEF PartsInv, DoneInv
<1> QED
  BY <1>2, LoadingAssumption DEF SetsPart

LEMMA InsertParts ==
  ASSUME PartsInv, TypedInv', NEW p \in Procs, NEW id, NEW part,
         SetsPart(p, id, part, p), Now(p).op = "insert",
         id = Now(p).id, part = Now(p).part, work.parts[id][part] = Nobody
  PROVE  PartsInv'
<1>0. /\ Inserts(p, at[p])
      /\ \A m \in Nat : m = at[p] => PartOf(p, work, m)' = work'.parts[id][part]
      /\ at[p] \in Nat /\ at'[p] = at[p] + 1 /\ Nobody \notin Procs
      /\ \A q \in Procs : q # p => at'[q] = at[q]
  BY LoadingAssumption DEF PartsInv, TypedInv, SetsPart, Now, Inserts, PartOf
<1>1. /\ id \in Loads(job[p]) /\ id \in Ids /\ part \in Parts(id)
      /\ IsReload(p) => id = job[p].id
  BY <1>0, InsertIs DEF PartsInv, Now
<1>2. work'.parts[id][part] = p
  BY <1>1 DEF SetsPart
<1>3. FreshInv'
  BY <1>0 DEF PartsInv, FreshInv, SetsPart, Piecemeal
<1>4. ChangeInv'
  <2> SUFFICES ASSUME NEW i \in Ids, NEW k \in Parts(i)
               PROVE  \/ work'.parts[i][k] = committed.parts[i][k]
                      \/ /\ i \in Loads(job[p])
                         /\ \/ work'.parts[i][k] = p
                            \/ IsReload(p) /\ work'.parts[i][k] = Nobody
                         /\ IsReload(p) \/ committed.parts[i][k] = Nobody
    BY DEF ChangeInv, IsReload, SetsPart
  <2>1. CASE writer = p
    BY <1>1, <2>1 DEF PartsInv, ChangeInv, SetsPart
  <2>2. CASE writer = Nobody
    BY <1>1, <2>2, NobodyWrites DEF PartsInv, SetsPart
  <2> QED
    BY <2>1, <2>2 DEF SetsPart
<1>5. ASSUME NEW m \in Nat, Inserts(p, m), m < at[p] + 1,
             m < at[p] => PartOf(p, work, m) = p
      PROVE  PartOf(p, work, m)' = p
  <2>1. CASE m = at[p]
    BY <1>0, <1>2, <2>1
  <2>2. CASE m < at[p]
    BY <1>0, <1>5, <2>2, InsertIs DEF PartsInv, SetsPart, PartOf
  <2> QED
    BY <1>0, <1>5, <2>1, <2>2
<1>6. DoneInv'
  <2> SUFFICES ASSUME NEW q \in Procs, ~Piecemeal(q), status[q] \in Live,
                      ~lockedOut[q], NEW m \in Nat, Inserts(q, m), m < at'[q]
               PROVE  writer' = q /\ PartOf(q, work, m)' = q
    BY DEF DoneInv, Inserts, Piecemeal, SetsPart
  <2>1. q = p
    BY SetForOthers
  <2>2. m < at[p] => PartOf(p, work, m) = p
    BY <2>1 DEF PartsInv, DoneInv
  <2> QED
    BY <1>0, <1>5, <2>1, <2>2 DEF SetsPart
<1>7. FullInv'
  <2> SUFFICES ASSUME IsReload(p), Full(job[p].id)
               PROVE  \A m \in Nat :
                        Inserts(p, m) /\ m < at'[p] => PartOf(p, work, m)' = p
    BY <1>0 DEF FullInv, IsReload, Full, Inserts, SetsPart
  <2>1. committed.parts[id][part] # work.parts[id][part]
    BY <1>1 DEF Full
  <2>2. writer = p
    BY <2>1, NobodyWrites DEF PartsInv, SetsPart
  <2>3. \A m \in Nat : Inserts(p, m) /\ m < at[p] => PartOf(p, work, m) = p
    BY <1>1, <2>1, <2>2 DEF PartsInv, FullInv
  <2> QED
    BY <1>0, <1>5, <2>3
<1>8. AskInv' /\ LoadedAsAWhole'
  BY DEF PartsInv, AskInv, LoadedAsAWhole, Piecemeal, SetsPart
<1> QED
  BY <1>3, <1>4, <1>6, <1>7, <1>8 DEF PartsInv

LEMMA DeleteParts ==
  ASSUME PartsInv, TypedInv', NEW p \in Procs, NEW id, NEW part,
         SetsPart(p, id, part, Nobody), Now(p).op = "delete",
         id = Now(p).id, part = Now(p).part
  PROVE  PartsInv'
<1>0. /\ at[p] \in Nat /\ at'[p] = at[p] + 1 /\ Nobody \notin Procs
      /\ \A q \in Procs : q # p => at'[q] = at[q]
  BY LoadingAssumption DEF PartsInv, TypedInv, SetsPart
<1>1. id \in Ids /\ part \in Parts(id) /\ IsReload(p) /\ id = job[p].id
      /\ id \in Loads(job[p])
  BY NowOK DEF PartsInv, SetsPart, StatementOK, IsReload
<1>2. FreshInv'
  BY <1>0 DEF PartsInv, FreshInv, SetsPart, Piecemeal
<1>3. ChangeInv'
  <2> SUFFICES ASSUME NEW i \in Ids, NEW k \in Parts(i)
               PROVE  \/ work'.parts[i][k] = committed.parts[i][k]
                      \/ /\ i \in Loads(job[p])
                         /\ \/ work'.parts[i][k] = p
                            \/ IsReload(p) /\ work'.parts[i][k] = Nobody
                         /\ IsReload(p) \/ committed.parts[i][k] = Nobody
    BY DEF ChangeInv, IsReload, SetsPart
  <2>1. CASE writer = p
    BY <1>1, <2>1 DEF PartsInv, ChangeInv, SetsPart
  <2>2. CASE writer = Nobody
    BY <1>1, <2>2, NobodyWrites DEF PartsInv, SetsPart
  <2> QED
    BY <2>1, <2>2 DEF SetsPart
<1>4. ASSUME NEW m \in Nat, Inserts(p, m), m < at[p] + 1
      PROVE  FALSE
  <2>1. job[p] \in Jobs /\ Program(job[p])[at[p]].op = "delete"
    BY DEF PartsInv, TypedInv, IInv, TypeInv, Now
  <2>2. m # at[p]
    BY <1>4, <2>1 DEF Inserts
  <2>3. m < at[p]
    BY <1>0, <1>4, <2>2
  <2> QED
    BY <1>4, <2>1, <2>3, Statements DEF Inserts, SetsPart
<1>5. DoneInv'
  <2> SUFFICES ASSUME NEW q \in Procs, ~Piecemeal(q), status[q] \in Live,
                      ~lockedOut[q], NEW m \in Nat, Inserts(q, m), m < at'[q]
               PROVE  FALSE
    BY DEF DoneInv, Inserts, Piecemeal, SetsPart
  <2> QED
    BY <1>0, <1>4, SetForOthers
<1>6. FullInv'
  BY <1>0, <1>4 DEF FullInv, IsReload, Full, Inserts, SetsPart
<1>7. AskInv' /\ LoadedAsAWhole'
  BY DEF PartsInv, AskInv, LoadedAsAWhole, Piecemeal, SetsPart
<1> QED
  BY <1>2, <1>3, <1>5, <1>6, <1>7 DEF PartsInv

(* The writer commits.                                                        *)
LEMMA CommitParts ==
  ASSUME PartsInv, TypedInv', NEW p \in Procs, CommitWork(p), writer = p
  PROVE  PartsInv'
<1>0. /\ status[p] = "running" /\ at[p] \in DOMAIN Program(job[p])
      /\ committed' = work /\ writer' = Nobody /\ Nobody \notin Procs
      /\ UNCHANGED << job, work, lockedOut >>
      /\ \A q \in Procs : q # p => at'[q] = at[q] /\ status'[q] = status[q]
      /\ status'[p] # "asking"
      /\ Now(p).op = "commit" /\ job[p] \in Jobs
      /\ at[p] = Len(Program(job[p])) => status'[p] = "done" /\ at'[p] = at[p]
  BY LoadingAssumption
  DEF PartsInv, TypedInv, IInv, TypeInv, CommitWork, Running, Goto
<1>1. ~Piecemeal(p) => AtOnce(job[p]) /\ at[p] = Len(Program(job[p]))
                       /\ status'[p] = "done"
  <2>1. StatementOK(job[p], at[p])
    BY <1>0, NowOK DEF PartsInv
  <2> QED
    BY <1>0, <2>1 DEF StatementOK, AtOnce, Piecemeal, Now
<1>2. FreshInv'
  <2> SUFFICES ASSUME NEW q \in Procs, ~Piecemeal(q), status'[q] # "done",
                      NEW i \in Ids, NEW k \in Parts(i)
               PROVE  work.parts[i][k] # q
    BY <1>0 DEF FreshInv, Piecemeal
  <2>1. q # p
    BY <1>1
  <2> QED
    BY <1>0, <2>1 DEF PartsInv, FreshInv
<1>3. ChangeInv' /\ FullInv'
  BY <1>0 DEF ChangeInv, FullInv
<1>4. DoneInv'
  <2> SUFFICES ASSUME NEW q \in Procs, ~Piecemeal(q), status'[q] \in Live,
                      ~lockedOut[q], NEW m \in Nat, Inserts(q, m), m < at'[q]
               PROVE  FALSE
    BY <1>0 DEF DoneInv, Inserts, Piecemeal
  <2>1. q # p
    BY <1>1 DEF Live
  <2>2. writer = q
    BY <1>0, <2>1 DEF PartsInv, DoneInv
  <2> QED
    BY <2>1, <2>2
<1>5. AskInv'
  BY <1>0 DEF PartsInv, AskInv
<1>6. LoadedAsAWhole'
  <2> SUFFICES ASSUME NEW i \in Ids, NEW q \in Procs \cup {Earlier},
                      NEW k0 \in Parts(i), work.parts[i][k0] = q,
                      q \in Procs => ~lockedOut[q] /\ ~Piecemeal(q)
               PROVE  /\ \A k \in Parts(i) : work.parts[i][k] = q
                      /\ q \in Procs => status'[q] = "done"
    BY <1>0 DEF LoadedAsAWhole, Piecemeal
  <2>1. CASE q = p
    <3>1. status'[p] = "done" /\ AtOnce(job[p]) /\ at[p] = Len(Program(job[p]))
      BY <1>1, <2>1
    <3>2. committed.parts[i][k0] # p
      BY <1>0, <2>1 DEF PartsInv, FreshInv
    <3>3. i \in Loads(job[p])
      BY <2>1, <3>2 DEF PartsInv, ChangeInv
    <3>4. ASSUME NEW k \in Parts(i) PROVE work.parts[i][k] = p
      <4>1. PICK m \in DOMAIN Program(job[p]) :
              /\ m < Len(Program(job[p]))
              /\ Program(job[p])[m] = OfPart("insert", i, k)
        BY <1>0, <3>1, <3>3, Complete
      <4>2. Inserts(p, m) /\ m < at[p] /\ PartOf(p, work, m) = work.parts[i][k]
        BY <3>1, <4>1 DEF Inserts, PartOf, OfPart, Stmt
      <4>3. m \in Nat
        BY <1>0, DomainNat
      <4> QED
        BY <1>0, <2>1, <4>2, <4>3 DEF PartsInv, DoneInv, Live
    <3> QED
      BY <2>1, <3>1, <3>4
  <2>2. CASE q # p
    <3>1. q # Nobody
      BY <1>0, LoadingAssumption
    <3>2. committed.parts[i][k0] = q
      BY <1>0, <2>2, <3>1 DEF PartsInv, ChangeInv
    <3>3. /\ \A k \in Parts(i) : committed.parts[i][k] = q
          /\ q \in Procs => status[q] = "done"
      BY <3>2 DEF PartsInv, LoadedAsAWhole
    <3>4. \A k \in Parts(i) : work.parts[i][k] = committed.parts[i][k]
      <4>1. CASE i \notin Loads(job[p]) \/ ~IsReload(p)
        BY <1>0, <3>1, <3>3, <4>1 DEF PartsInv, ChangeInv
      <4>2. CASE i \in Loads(job[p]) /\ IsReload(p)
        <5>1. i = job[p].id /\ Full(job[p].id)
          BY <3>1, <3>3, <4>2 DEF Loads, IsReload, Full
        <5>2. ASSUME \A m \in Nat : Inserts(p, m) /\ m < at[p] => PartOf(p, work, m) = p
              PROVE  FALSE
          <6>1. at[p] = Len(Program(job[p])) /\ AtOnce(job[p])
            BY <1>1, <4>2 DEF Piecemeal, IsReload
          <6>2. PICK m \in DOMAIN Program(job[p]) :
                  /\ m < Len(Program(job[p]))
                  /\ Program(job[p])[m] = OfPart("insert", i, k0)
            BY <1>0, <4>2, <6>1, Complete
          <6>3. Inserts(p, m) /\ m < at[p] /\ PartOf(p, work, m) = work.parts[i][k0]
            BY <6>1, <6>2 DEF Inserts, PartOf, OfPart, Stmt
          <6>4. m \in Nat
            BY <1>0, DomainNat
          <6> QED
            BY <2>2, <5>2, <6>3, <6>4
        <5> QED
          BY <1>0, <4>2, <5>1, <5>2 DEF PartsInv, FullInv
      <4> QED
        BY <4>1, <4>2
    <3> QED
      BY <1>0, <2>2, <3>3, <3>4
  <2> QED
    BY <2>1, <2>2
<1> QED
  BY <1>2, <1>3, <1>4, <1>5, <1>6 DEF PartsInv

(* A statement that writes no part, or fails.                                 *)
LEMMA OtherWrite ==
  ASSUME PartsInv, TypedInv', NEW p \in Procs, NEW ok, NEW db,
         status[p] = "running", at[p] \in DOMAIN Program(job[p]),
         Now(p).op # "insert", Write(p, ok, db), db.parts = View(p).parts
  PROVE  PartsInv'
<1>1. CASE End(p, "failed")
  BY <1>1, EndParts DEF Live
<1>2. CASE /\ work' = db /\ writer' = p
           /\ at' = [at EXCEPT ![p] = at[p] + 1]
           /\ UNCHANGED << job, committed, status, concerned, lockedOut >>
  <2>1. writer \in {p, Nobody}
    BY DEF Write, Locked
  <2>2. work'.parts = work.parts
    BY <1>2, <2>1, NobodyWrites DEF PartsInv, View
  <2>3. ASSUME NEW m \in Nat, Inserts(p, m), m < at[p] + 1
        PROVE  m < at[p]
    BY <2>3 DEF PartsInv, TypedInv, Inserts, Now
  <2>4. /\ at[p] + 1 \in Nat /\ status[p] \in Live /\ "running" \in Live
        /\ status' = [status EXCEPT ![p] = "running"]
        /\ lockedOut' = [lockedOut EXCEPT ![p] = lockedOut[p]]
        /\ lockedOut[p] \in BOOLEAN /\ UNCHANGED << job, committed >>
    BY <1>2 DEF PartsInv, TypedInv, IInv, TypeInv, Live
  <2>5. writer' = writer \/ (writer' = p /\ writer = Nobody)
    BY <1>2, <2>1
  <2>6. at' = [at EXCEPT ![p] = at[p] + 1]
    BY <1>2
  <2>7. \A m \in Nat : Inserts(p, m) /\ m < at[p] + 1 => m < at[p]
    BY <2>3
  <2> QED
    BY <2>2, <2>4, <2>5, <2>6, <2>7, StayStep
<1> QED
  BY <1>1, <1>2 DEF Write, Goto

(* A process that has nothing to commit is done.                              *)
LEMMA DoneParts ==
  ASSUME PartsInv, TypedInv', NEW p \in Procs, CommitWork(p), writer # p,
         status' = [status EXCEPT ![p] = "done"],
         UNCHANGED << job, committed, work, writer, at, lockedOut >>
  PROVE  PartsInv'
<1>0. /\ \A q \in Procs : q # p => status'[q] = status[q]
      /\ status'[p] = "done" /\ status[p] = "running"
  BY DEF PartsInv, TypedInv, IInv, TypeInv, CommitWork, Running
<1>1. FreshInv' /\ AskInv'
  BY <1>0 DEF PartsInv, FreshInv, AskInv, Piecemeal
<1>2. ChangeInv' /\ FullInv'
  BY DEF PartsInv, ChangeInv, FullInv, IsReload, Full, Inserts, PartOf
<1>3. DoneInv'
  BY <1>0 DEF PartsInv, DoneInv, Piecemeal, Inserts, PartOf, Live
<1>4. LoadedAsAWhole'
  BY <1>0 DEF PartsInv, LoadedAsAWhole, Piecemeal
<1> QED
  BY <1>1, <1>2, <1>3, <1>4 DEF PartsInv

(* A process goes on, to a later statement, and no insert in between.         *)
LEMMA GoOnParts ==
  ASSUME PartsInv, TypedInv', NEW p \in Procs, NEW a \in Nat, NEW s \in Live,
         status[p] \in Live,
         UNCHANGED << job, committed, work, writer, lockedOut >>,
         at' = [at EXCEPT ![p] = a], status' = [status EXCEPT ![p] = s],
         s = "asking" => job[p].kind # "load",
         \A m \in Nat : Inserts(p, m) /\ m < a => m < at[p]
  PROVE  PartsInv'
<1>1. lockedOut[p] \in BOOLEAN /\ lockedOut' = [lockedOut EXCEPT ![p] = lockedOut[p]]
  BY DEF PartsInv, TypedInv
<1> QED
  BY <1>1, StayStep

(* What a process passes over at a statement that inserts nothing; the        *)
(* statements of scenario.py are of jobs that insert nothing.                 *)
LEMMA NoInsert ==
  ASSUME TypedInv, NEW p \in Procs, at[p] \in DOMAIN Program(job[p]),
         Now(p).op # "insert"
  PROVE  /\ \A m \in Nat : Inserts(p, m) /\ m < at[p] + 1 => m < at[p]
         /\ Now(p).op \in {"lookup", "confirm", "find"} =>
              \A m \in Nat : ~Inserts(p, m)
         /\ Now(p).op \in {"select", "lookup", "confirm", "find"} => job[p].kind # "load"
<1>1. at[p] \in Nat
  BY DEF TypedInv
<1>2. \A m \in Nat : Inserts(p, m) /\ m < at[p] + 1 => m < at[p]
  BY <1>1 DEF Inserts, Now
<1>3. Now(p).op \in {"lookup", "confirm", "find"} => job[p].kind \notin {"reload", "load"}
  BY NowOK DEF StatementOK
<1>4. Now(p).op = "select" => job[p].kind = "reload"
  BY NowOK DEF StatementOK
<1> QED
  BY <1>2, <1>3, <1>4, InsertIs

(* A process that asks its user is not at an insert.                          *)
LEMMA AskingNoInsert ==
  ASSUME PartsInv, NEW p \in Procs, status[p] = "asking"
  PROVE  /\ \A m \in Nat : Inserts(p, m) /\ m < at[p] + 1 => m < at[p]
         /\ Now(p).op # "select" => \A m \in Nat : ~Inserts(p, m)
<1>1. IInv /\ TypedInv /\ at[p] \in Nat /\ job[p].kind # "load"
  BY DEF PartsInv, TypedInv, AskInv
<1>2. CASE IsReload(p)
  <2>1. Now(p).op = "select"
    BY <1>1, <1>2, AskingReload
  <2>2. \A m \in Nat : Inserts(p, m) /\ m < at[p] + 1 => m # at[p]
    BY <2>1 DEF Inserts, Now
  <2> QED
    BY <1>1, <2>1, <2>2
<1>3. CASE ~IsReload(p)
  BY <1>1, <1>3, InsertIs DEF IsReload
<1> QED
  BY <1>2, <1>3

LEMMA PartsStep ==
  ASSUME PartsInv, TypedInv', NEW p \in Procs, Step(p)
  PROVE  PartsInv'
<1>1. /\ IInv /\ TypedInv /\ at[p] \in Nat /\ at[p] + 1 \in Nat /\ at[p] + 3 \in Nat
      /\ at = [at EXCEPT ![p] = at[p]] /\ status = [status EXCEPT ![p] = status[p]]
      /\ "running" \in Live /\ "asking" \in Live
      /\ \A db : DatabaseOK(db) => DOMAIN db.parts = Ids
  BY DEF PartsInv, TypedInv, IInv, TypeInv, Live, DatabaseOK
<1>2. ASSUME Skip(p), status[p] = "running", at[p] \in DOMAIN Program(job[p]),
             Now(p).op # "insert"
      PROVE  PartsInv'
  BY <1>1, <1>2, NoInsert, GoOnParts DEF Skip, Goto
<1>3. CASE Select(p)
  <2>1. /\ status[p] = "running" /\ at[p] \in DOMAIN Program(job[p])
        /\ Now(p).op = "select"
        /\ UNCHANGED << job, committed, work, writer, lockedOut >>
        /\ \/ status' = [status EXCEPT ![p] = "asking"] /\ UNCHANGED at
           \/ at' = [at EXCEPT ![p] = at[p] + 1] /\ UNCHANGED status
    BY <1>3 DEF Select, Running, Ask, Goto
  <2>2. /\ job[p].kind # "load"
        /\ \A m \in Nat : Inserts(p, m) /\ m < at[p] + 1 => m < at[p]
    BY <1>1, <2>1, NoInsert
  <2>3. CASE status' = [status EXCEPT ![p] = "asking"] /\ UNCHANGED at
    BY <1>1, <2>1, <2>2, <2>3, GoOnParts
  <2>4. CASE at' = [at EXCEPT ![p] = at[p] + 1] /\ UNCHANGED status
    BY <1>1, <2>1, <2>2, <2>4, GoOnParts
  <2> QED
    BY <2>1, <2>3, <2>4
<1>4. CASE Lookup(p)
  <2>1. /\ status[p] = "running" /\ at[p] \in DOMAIN Program(job[p])
        /\ Now(p).op = "lookup"
        /\ UNCHANGED << job, committed, work, writer, lockedOut >>
        /\ \/ status' = [status EXCEPT ![p] = "asking"] /\ UNCHANGED at
           \/ at' = [at EXCEPT ![p] = at[p] + 3] /\ UNCHANGED status
    BY <1>4 DEF Lookup, Running, Ask, Goto
  <2>2. job[p].kind # "load" /\ \A m \in Nat : ~Inserts(p, m)
    BY <1>1, <2>1, NoInsert
  <2>3. CASE status' = [status EXCEPT ![p] = "asking"] /\ UNCHANGED at
    BY <1>1, <2>1, <2>2, <2>3, GoOnParts
  <2>4. CASE at' = [at EXCEPT ![p] = at[p] + 3] /\ UNCHANGED status
    BY <1>1, <2>1, <2>2, <2>4, GoOnParts
  <2> QED
    BY <2>1, <2>3, <2>4
<1>5. CASE Confirm(p)
  <2>1. /\ status[p] = "running" /\ at[p] \in DOMAIN Program(job[p])
        /\ Now(p).op = "confirm"
        /\ UNCHANGED << job, committed, work, writer, at, lockedOut >>
        /\ status' = [status EXCEPT ![p] = "asking"]
    BY <1>5 DEF Confirm, Running, Ask
  <2>2. job[p].kind # "load" /\ \A m \in Nat : ~Inserts(p, m)
    BY <1>1, <2>1, NoInsert
  <2> QED
    BY <1>1, <2>1, <2>2, GoOnParts
<1>6. CASE Find(p)
  <2>1. /\ status[p] = "running" /\ at[p] \in DOMAIN Program(job[p])
        /\ Now(p).op = "find"
        /\ \/ End(p, "failed")
           \/ /\ UNCHANGED << job, committed, work, writer, status, lockedOut >>
              /\ at' = [at EXCEPT ![p] = at[p] + 1]
    BY <1>6 DEF Find, Running, Goto
  <2>2. CASE End(p, "failed")
    BY <1>1, <2>1, <2>2, EndParts
  <2>3. CASE /\ UNCHANGED << job, committed, work, writer, status, lockedOut >>
             /\ at' = [at EXCEPT ![p] = at[p] + 1]
    <3>1. \A m \in Nat : ~Inserts(p, m)
      BY <1>1, <2>1, NoInsert
    <3> QED
      BY <1>1, <2>1, <2>3, <3>1, GoOnParts
  <2> QED
    BY <2>1, <2>2, <2>3
<1>7. CASE Nullify(p)
  <2>1. SetRef(View(p), concerned[p], Null).parts = View(p).parts
    BY <1>1, ViewTyped, SetRefOK
  <2> QED
    BY <1>2, <1>7, <2>1, OtherWrite DEF Nullify, Running
<1>8. CASE Repopulate(p)
  <2>1. \A rows : SetRef(View(p), rows, BaseOf[Now(p).id]).parts = View(p).parts
    BY <1>1, <1>8, ViewTyped, SetRefOK, NowOK DEF Repopulate, Running
  <2> QED
    BY <1>2, <1>8, <2>1, OtherWrite DEF Repopulate, Running
<1>9. CASE ClearResults(p)
  <2>1. Clear(View(p), concerned[p]).parts = View(p).parts
    BY <1>1, ViewTyped, ClearOK
  <2> QED
    BY <1>9, <2>1, OtherWrite DEF ClearResults, Running
<1>10. CASE DropRow(p)
  <2>1. Drop(View(p), concerned[p]).parts = View(p).parts
    BY <1>1, ViewTyped DEF Drop, IsDb
  <2> QED
    BY <1>10, <2>1, OtherWrite DEF DropRow, Running
<1>11. CASE CreateRow(p)
  <2>1. Create(View(p), Now(p).name, Now(p).id).parts = View(p).parts
    BY <1>1, <1>11, ViewTyped, CreateOK, NowOK DEF CreateRow, Running
  <2> QED
    BY <1>11, <2>1, OtherWrite DEF CreateRow, Running
<1>12. CASE DeletePart(p)
  <2>1. /\ status[p] = "running" /\ at[p] \in DOMAIN Program(job[p])
        /\ Now(p).op = "delete"
        /\ Now(p).id \in Ids /\ Now(p).part \in Parts(Now(p).id)
    BY <1>1, <1>12, NowOK DEF DeletePart, Running
  <2>2. CASE Skip(p)
    BY <1>2, <2>1, <2>2
  <2>3. CASE End(p, "failed")
    BY <1>1, <2>1, <2>3, EndParts
  <2>4. CASE /\ ~Locked(p)
             /\ work' = SetPart(View(p), Now(p).id, Now(p).part, Nobody) /\ writer' = p
             /\ at' = [at EXCEPT ![p] = at[p] + 1]
             /\ UNCHANGED << job, committed, status, concerned, lockedOut >>
    <3>1. writer \in {p, Nobody} /\ View(p) = work
      BY <1>1, <2>4, NobodyWrites DEF Locked, View
    <3>2. SetsPart(p, Now(p).id, Now(p).part, Nobody)
      BY <1>1, <2>1, <2>4, <3>1, ViewTyped, SetPartOK DEF SetsPart
    <3> QED
      BY <2>1, <3>2, DeleteParts
  <2> QED
    BY <1>12, <2>2, <2>3, <2>4 DEF DeletePart, Write, Goto
<1>13. CASE InsertPart(p)
  <2>1. /\ status[p] = "running" /\ at[p] \in DOMAIN Program(job[p])
        /\ Now(p).op = "insert"
        /\ Now(p).id \in Ids /\ Now(p).part \in Parts(Now(p).id)
    BY <1>1, <1>13, NowOK DEF InsertPart, Running
  <2>2. CASE End(p, "failed")
    BY <1>1, <2>1, <2>2, EndParts
  <2>3. CASE /\ ~Locked(p) /\ CanInsert(View(p), Now(p).id, Now(p).part)
             /\ work' = SetPart(View(p), Now(p).id, Now(p).part, p) /\ writer' = p
             /\ at' = [at EXCEPT ![p] = at[p] + 1]
             /\ UNCHANGED << job, committed, status, concerned, lockedOut >>
    <3>1. writer \in {p, Nobody} /\ View(p) = work
      BY <1>1, <2>3, NobodyWrites DEF Locked, View
    <3>2. SetsPart(p, Now(p).id, Now(p).part, p)
      BY <1>1, <2>1, <2>3, <3>1, ViewTyped, SetPartOK DEF SetsPart
    <3>3. work.parts[Now(p).id][Now(p).part] = Nobody
      BY <2>3, <3>1 DEF CanInsert
    <3> QED
      BY <2>1, <3>2, <3>3, InsertParts
  <2> QED
    BY <1>13, <2>2, <2>3 DEF InsertPart, Write, Goto
<1>14. CASE CommitWork(p) /\ writer = p
  BY <1>14, CommitParts
<1>15. CASE CommitWork(p) /\ writer # p
  <2>1. /\ status[p] = "running" /\ at[p] \in DOMAIN Program(job[p])
        /\ Now(p).op = "commit"
        /\ UNCHANGED << job, committed, work, writer, lockedOut >>
        /\ \/ status' = [status EXCEPT ![p] = "done"] /\ UNCHANGED at
           \/ at' = [at EXCEPT ![p] = at[p] + 1] /\ UNCHANGED status
    BY <1>15 DEF CommitWork, Running, Goto
  <2>2. CASE at' = [at EXCEPT ![p] = at[p] + 1] /\ UNCHANGED status
    BY <1>1, <2>1, <2>2, NoInsert, GoOnParts
  <2>3. CASE status' = [status EXCEPT ![p] = "done"] /\ UNCHANGED at
    BY <1>15, <2>1, <2>3, DoneParts
  <2> QED
    BY <2>1, <2>2, <2>3
<1>16. CASE GiveUp(p)
  <2>1. /\ status[p] = "running" /\ writer # p
        /\ UNCHANGED << job, committed, work, writer, status >>
        /\ at' = [at EXCEPT ![p] = at[p] + 1]
        /\ lockedOut' = [lockedOut EXCEPT ![p] = TRUE]
    BY <1>16 DEF GiveUp, AttemptsEnd, Locked, Goto
  <2> QED
    BY <1>1, <2>1, StayStep
<1> QED
  BY <1>3, <1>4, <1>5, <1>6, <1>7, <1>8, <1>9, <1>10, <1>11, <1>12, <1>13, <1>14,
     <1>15, <1>16 DEF Step

LEMMA PartsNext == PartsInv /\ [Next]_vars => PartsInv'
<1> SUFFICES ASSUME PartsInv, [Next]_vars PROVE PartsInv'
  OBVIOUS
<1>1. TypedInv'
  BY TypedNext DEF PartsInv
<1>2. CASE UNCHANGED vars
  BY <1>1, <1>2
  DEF vars, PartsInv, FreshInv, ChangeInv, DoneInv, FullInv, AskInv, LoadedAsAWhole,
      Piecemeal, IsReload, Full, Inserts, PartOf
<1>3. ASSUME NEW p \in Procs, Step(p)
      PROVE  PartsInv'
  BY <1>1, <1>3, PartsStep
<1>4. ASSUME NEW p \in Procs, Agree(p) \/ Refuse(p)
      PROVE  PartsInv'
  <2>1. /\ status[p] = "asking" /\ status[p] \in Live /\ "running" \in Live
        /\ at[p] + 1 \in Nat /\ at[p] + 4 \in Nat
    BY <1>4 DEF Agree, Refuse, Live, PartsInv, TypedInv
  <2>2. CASE Agree(p)
    BY <1>1, <2>1, <2>2, AskingNoInsert, GoOnParts DEF Agree, Goto
  <2>3. CASE Refuse(p)
    <3>1. \/ End(p, "exited")
          \/ /\ Now(p).op # "select"
             /\ status' = [status EXCEPT ![p] = "running"]
             /\ at' = [at EXCEPT ![p] = at[p] + 4]
             /\ UNCHANGED << job, committed, work, writer, concerned, lockedOut >>
      BY <2>3 DEF Refuse, Goto
    <3>2. CASE End(p, "exited")
      BY <1>1, <2>1, <3>2, EndParts
    <3>3. CASE ~End(p, "exited")
      BY <1>1, <2>1, <3>1, <3>3, AskingNoInsert, GoOnParts
    <3> QED
      BY <3>2, <3>3
  <2> QED
    BY <1>4, <2>2, <2>3
<1>5. ASSUME NEW p \in Procs, Kill(p)
      PROVE  PartsInv'
  BY <1>1, <1>5, EndParts DEF Kill
<1> QED
  BY <1>2, <1>3, <1>4, <1>5 DEF Next

LEMMA PartsInit == Init => PartsInv
<1> SUFFICES ASSUME Init PROVE PartsInv
  OBVIOUS
<1>1. PICK loaded \in EarlierIds : \E scenarios \in EarlierScenarios(loaded) :
        committed = EarlierData(loaded, scenarios)
  BY DEF Init
<1>2. \A i \in Ids : \A k \in Parts(i) :
        committed.parts[i][k] = IF i \in loaded THEN Earlier ELSE Nobody
  BY <1>1 DEF EarlierData
<1>3. Nobody \notin Procs \cup {Earlier} /\ Earlier \notin Procs
  BY LoadingAssumption
<1>4. FreshInv /\ LoadedAsAWhole
  BY <1>2, <1>3 DEF Init, FreshInv, LoadedAsAWhole
<1>5. ChangeInv /\ FullInv /\ AskInv
  BY <1>3 DEF Init, ChangeInv, FullInv, AskInv
<1>6. DoneInv
  <2> SUFFICES ASSUME NEW p \in Procs, NEW m \in Nat, Inserts(p, m), m < at[p]
               PROVE  FALSE
    BY DEF DoneInv
  <2>1. job[p] \in Jobs /\ at[p] = 1
    BY DEF Init
  <2>2. m \in DOMAIN Program(job[p])
    BY DEF Inserts
  <2>3. m # 0
    BY <2>1, <2>2, DomainNat
  <2> QED
    BY <2>1, <2>3
<1> QED
  BY <1>4, <1>5, <1>6, TypedInit DEF PartsInv

(* Whoever is killed, refuses, fails or waits for the lock, and in whatever   *)
(* order the statements of the processes come: the parts of an id in the      *)
(* database are all of one process that has ended well, unless one commits    *)
(* between the rows of csv_structure.csv or was locked out of a statement     *)
(* (generic_delete_subscenario, generic_insert_subscenario_info,              *)
(* generic_insert_subscenario_data, spin_on_database_lock).                   *)
THEOREM IdsLoadedAsAWhole == Spec => []LoadedAsAWhole
<1>1. PartsInv => LoadedAsAWhole
  BY DEF PartsInv
<1> QED
  BY <1>1, PartsInit, PartsNext, PTL DEF Spec
=============================================================================
