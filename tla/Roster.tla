------------------------------- MODULE Roster -------------------------------
(***************************************************************************)
(* The class roster (lib/roster.ts, lib/rosterGuards.ts) with the teacher's *)
(* adds, edits and removals, the students' logins (lib/store.ts) and the   *)
(* rows that carry a student's key, one statement a step.                  *)
(***************************************************************************)
EXTENDS Naturals, FiniteSets

CONSTANTS
  Schools, Ids, Names,
  Requests,  \* requests in flight at one time
  MaxRows,   \* bound on roster rows ever added
  MaxOps,    \* bound on requests
  None

VARIABLES
  roster,  \* rows: id, school, sid, name, order, active
  data,    \* rows elsewhere: kind, the key they carry, and whose they are
  req,     \* the requests
  nextId, ops,
  given,   \* history: the sort orders ever given, with the id they went to
  crossed  \* history: the ids that a request wrote for after what it had read of
           \* them had changed

vars == <<roster, data, req, nextId, ops, given, crossed>>

Inputs == [school : Schools, sid : Ids, name : Names]

\* studentKeyOf; the login identifier is another pair.
KeyOf(x) == <<x.sid, x.name>>
LoginOf(x) == <<x.school, x.sid>>

\* students, sessions; submissions, attempts and the warm-up tables; reviews,
\* notes, jobs, runs and results.
Kinds == {"student", "session", "work", "research"}

\* Slip: the sessions are left out of the batch.
RenamedNoSession == {"student", "work"}

\* Slip: a login alone does not count.
CountedWork == {"work"}

\* What updateRosterStudent renames, and what countStudentData counts.
Renamed == {"student", "session", "work"}
Counted == {"student", "work"}

TypeOK ==
  /\ \A x \in roster : x.id \in 1..MaxRows /\ x.order < x.id /\ x.active \in BOOLEAN
  /\ Cardinality({x.id : x \in roster}) = Cardinality(roster)
  /\ \A d \in data : d.kind \in Kinds /\ d.owner \in 1..MaxRows
  /\ \A q \in Requests : req[q].pc \in
       {"idle", "order", "insert", "check", "rename", "count", "remove",
        "student", "session", "save"}
  /\ crossed \subseteq 1..MaxRows

Idle == [pc |-> "idle"]
Rows(id) == {x \in roster : x.id = id}

\* Slip: only the active rows are compared, by the check and by the index.
DuplicateActive(x, id) ==
  \E y \in roster : y.active /\ y.id # id /\ (LoginOf(y) = LoginOf(x) \/ KeyOf(y) = KeyOf(x))

\* assertNoDuplicateStudentId, over every row, active or not.
Duplicate(x, id) ==
  \E y \in roster : y.id # id /\ (LoginOf(y) = LoginOf(x) \/ KeyOf(y) = KeyOf(x))

Stored(kind, key) == \E d \in data : d.kind = kind /\ d.key = key

Start(q) == req[q].pc = "idle" /\ ops < MaxOps /\ ops' = ops + 1
Go(q, r) == req' = [req EXCEPT ![q] = r]
End(q) == Go(q, Idle)

-----------------------------------------------------------------------------
(* The teacher.                                                            *)

\* addRosterStudent: the identities, the highest order, the row.
StartAdd(q, x) ==
  /\ Start(q) /\ ~Duplicate(x, None) /\ nextId <= MaxRows
  /\ Go(q, [pc |-> "order", input |-> x])
  /\ UNCHANGED <<roster, data, nextId, given, crossed>>

\* Slip: the count, from one.
NextOrderCounted == Cardinality(roster) + 1

NextOrder == IF roster = {} THEN 0
             ELSE 1 + (CHOOSE n \in {x.order : x \in roster} : \A y \in roster : y.order <= n)

ReadOrder(q) ==
  /\ req[q].pc = "order"
  /\ Go(q, [pc |-> "insert", input |-> req[q].input, order |-> NextOrder])
  /\ UNCHANGED <<roster, data, nextId, ops, given, crossed>>

\* The unique indexes repeat the duplicate check.
Insert(q) ==
  LET x == req[q].input IN
  /\ req[q].pc = "insert"
  /\ IF Duplicate(x, None) \/ nextId > MaxRows THEN UNCHANGED <<roster, nextId, given>>
     ELSE /\ roster' = roster \cup {[id |-> nextId, school |-> x.school, sid |-> x.sid,
                                     name |-> x.name, order |-> req[q].order, active |-> TRUE]}
          /\ given' = given \cup {<<req[q].order, nextId>>}
          /\ nextId' = nextId + 1
  /\ End(q)
  /\ UNCHANGED <<data, ops, crossed>>

\* updateRosterStudent reads the row,
StartEdit(q, old, x) ==
  /\ Start(q)
  /\ Go(q, [pc |-> "check", row |-> old, input |-> x])
  /\ UNCHANGED <<roster, data, nextId, given, crossed>>

\* and the identities,
Check(q) ==
  /\ req[q].pc = "check"
  /\ IF Duplicate(req[q].input, req[q].row.id) THEN End(q)
     ELSE Go(q, [pc |-> "rename", row |-> req[q].row, input |-> req[q].input])
  /\ UNCHANGED <<roster, data, nextId, ops, given, crossed>>

\* The row still has the key that was read.
AsRead(id, key) == \E x \in Rows(id) : KeyOf(x) = key

Edited(y, x) == [y EXCEPT !.school = x.school, !.sid = x.sid, !.name = x.name]

\* and renames the key it read to the new one wherever it is stored; the
\* unique indexes undo the whole batch.  If the row has meanwhile another key,
\* or has gone, the rows of whoever has the old key now go with it.
Rename(q) ==
  LET id == req[q].row.id
      x == req[q].input
      from == KeyOf(req[q].row) IN
  /\ req[q].pc = "rename"
  /\ IF from = KeyOf(x)
     THEN /\ roster' = {IF y.id = id THEN [y EXCEPT !.school = x.school] ELSE y : y \in roster}
          /\ UNCHANGED <<data, crossed>>
     ELSE IF \/ Rows(id) # {} /\ Duplicate(x, id)
             \/ Stored("student", from) /\ Stored("student", KeyOf(x))
     THEN UNCHANGED <<roster, data, crossed>>
     ELSE /\ roster' = {IF y.id = id THEN Edited(y, x) ELSE y : y \in roster}
          /\ data' = {IF d.kind \in Renamed /\ d.key = from
                      THEN [d EXCEPT !.key = KeyOf(x)] ELSE d : d \in data}
          /\ crossed' = IF AsRead(id, from) THEN crossed
                        ELSE crossed \cup {id} \cup {y.id : y \in {z \in roster : KeyOf(z) = from}}
  /\ End(q)
  /\ UNCHANGED <<nextId, ops, given>>

\* deleteRosterStudent reads the row, counts its traces,
StartDelete(q, old) ==
  /\ Start(q) /\ Go(q, [pc |-> "count", row |-> old])
  /\ UNCHANGED <<roster, data, nextId, given, crossed>>

HasData(key) == \E d \in data : d.kind \in Counted /\ d.key = key

Count(q) ==
  /\ req[q].pc = "count"
  /\ Go(q, [pc |-> "remove", row |-> req[q].row, hasAnyData |-> HasData(KeyOf(req[q].row))])
  /\ UNCHANGED <<roster, data, nextId, ops, given, crossed>>

\* and deletes or deactivates it.
Remove(q) ==
  LET id == req[q].row.id
      key == KeyOf(req[q].row)
      gone == Rows(id) IN
  /\ req[q].pc = "remove"
  /\ roster' = (roster \ gone) \cup
       (IF req[q].hasAnyData THEN {[y EXCEPT !.active = FALSE] : y \in gone} ELSE {})
  /\ crossed' = IF req[q].hasAnyData \/ (AsRead(id, key) /\ ~HasData(key))
                THEN crossed ELSE crossed \cup {id}
  /\ End(q)
  /\ UNCHANGED <<data, nextId, ops, given>>

-----------------------------------------------------------------------------
(* The students.                                                           *)

\* A login finds the active row,
StartLogin(q, x) ==
  /\ Start(q) /\ x.active
  /\ Go(q, [pc |-> "student", key |-> KeyOf(x), owner |-> x.id])
  /\ UNCHANGED <<roster, data, nextId, given, crossed>>

Record(kind, q) == [kind |-> kind, key |-> req[q].key, owner |-> req[q].owner]

\* What a student's request writes carries the key it has read.
CrossLate(q) ==
  crossed' = IF AsRead(req[q].owner, req[q].key) THEN crossed ELSE crossed \cup {req[q].owner}

\* records the student once (findOrCreateStudent),
SaveStudent(q) ==
  /\ req[q].pc = "student"
  /\ data' = IF Stored("student", req[q].key) THEN data ELSE data \cup {Record("student", q)}
  /\ CrossLate(q)
  /\ Go(q, [pc |-> "session", key |-> req[q].key, owner |-> req[q].owner])
  /\ UNCHANGED <<roster, nextId, ops, given>>

\* and opens a session (createSession).
OpenSession(q) ==
  /\ req[q].pc = "session"
  /\ data' = data \cup {Record("session", q)}
  /\ CrossLate(q)
  /\ End(q)
  /\ UNCHANGED <<roster, nextId, ops, given>>

\* A student's request reads its session and then the active row of its key.
StartWork(q, s) ==
  /\ Start(q) /\ s.kind = "session"
  /\ \E x \in roster : x.active /\ KeyOf(x) = s.key
  /\ Go(q, [pc |-> "save", key |-> s.key, owner |-> s.owner])
  /\ UNCHANGED <<roster, data, nextId, given, crossed>>

\* Work that is graded and reviewed leaves rows of both kinds.
SaveWork(q) ==
  /\ req[q].pc = "save"
  /\ data' = data \cup {Record("work", q), Record("research", q)}
  /\ CrossLate(q)
  /\ End(q)
  /\ UNCHANGED <<roster, nextId, ops, given>>

Logout(s) ==
  /\ s.kind = "session"
  /\ data' = data \ {s}
  /\ UNCHANGED <<roster, req, nextId, ops, given, crossed>>

-----------------------------------------------------------------------------
Init ==
  /\ roster = {} /\ data = {} /\ nextId = 1 /\ ops = 0 /\ given = {} /\ crossed = {}
  /\ req = [q \in Requests |-> Idle]

Next ==
  \/ \E q \in Requests :
       \/ \E x \in Inputs : StartAdd(q, x)
       \/ \E old \in roster : StartLogin(q, old) \/ StartDelete(q, old)
       \/ \E old \in roster, x \in Inputs : StartEdit(q, old, x)
       \/ \E s \in data : StartWork(q, s)
       \/ ReadOrder(q) \/ Insert(q) \/ Check(q) \/ Rename(q) \/ Count(q) \/ Remove(q)
       \/ SaveStudent(q) \/ OpenSession(q) \/ SaveWork(q)
  \/ \E s \in data : Logout(s)

Spec == Init /\ [][Next]_vars

-----------------------------------------------------------------------------
(* Properties.                                                             *)

Follows(kinds) ==
  \A d \in data, x \in roster :
    d.kind \in kinds /\ d.owner = x.id /\ x.id \notin crossed => d.key = KeyOf(x)

\* A student's login, sessions and work carry the key of the student's row,
\* through every correction of the student's id or name; what is lost is lost
\* by a request that wrote after its row had been renamed or removed.
HistoryFollows == Follows({"student", "session", "work"})

\* So do the reviews, runs and results.
ResearchFollows == Follows({"research"})

\* A row with work or a login is never deleted outright, unless its traces were
\* written between their count and the deletion.
HistoryHasOwner ==
  \A d \in data : d.kind # "session" /\ d.owner \notin crossed => \E x \in roster : x.id = d.owner

\* A key, once it has history, is one student's for good.
OneOwner ==
  \A d, e \in data :
    /\ d.kind # "research" /\ e.kind # "research" /\ d.key = e.key
    /\ {d.owner, e.owner} \cap crossed = {}
    => d.owner = e.owner

\* A sort order, on which the assignment of problems rests, is given once.
OrdersNotReused == \A g, h \in given : g[1] = h[1] => g[2] = h[2]

=============================================================================
