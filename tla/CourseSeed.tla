----------------------------- MODULE CourseSeed -----------------------------
(***************************************************************************)
(* getOrCreateDefaultCourse (lib/store.ts) and seedRosterForCourse         *)
(* (lib/roster.ts): every request of a fresh deployment may be the one     *)
(* that makes the course and seeds its roster, and may die on the way.     *)
(***************************************************************************)
EXTENDS Naturals, Sequences

CONSTANTS
  Default,    \* the default roster
  Requests,   \* requests, each of which runs once
  FixedCode,  \* whether COURSE_CODE is set
  MayDie      \* whether a request may die half-way

VARIABLES
  courses,    \* by id: the roster's rows and whether it is marked seeded; history:
              \* whether a crossed request made the course (extra) or seeded it (again)
  req,        \* what each has read, and whether another request's writing crossed it
  removed     \* history: the default students a teacher removed, per course

vars == <<courses, req, removed>>

Ids == DOMAIN courses
Fresh(extra) == [rows |-> {}, seeded |-> FALSE, extra |-> extra, again |-> FALSE]
Update(c, x) == courses' = [courses EXCEPT ![c] = x]

TypeOK ==
  /\ \A c \in Ids : courses[c].rows \subseteq Default
  /\ \A q \in Requests : req[q].pc \in {"start", "create", "check", "count", "seed", "mark", "done", "dead"}
  /\ \A q \in Requests : req[q].pc \notin {"start", "create", "dead"} => req[q].course \in Ids
  /\ \A q \in Requests : req[q].pc = "mark" => LET x == courses[req[q].course] IN x.seeded \/ x.rows # {}

\* Slip: only a course that is seeded is found.
ExistsSeeded == \E c \in Ids : courses[c].seeded

Exists == courses # << >>

At(pc, c, seeded) == [pc |-> pc, course |-> c, seeded |-> seeded, crossed |-> FALSE]
Start == [pc |-> "start"]
Dead == [pc |-> "dead"]

\* The earliest course, if there is one.
Read(q) ==
  /\ req[q].pc = "start"
  /\ req' = [req EXCEPT ![q] =
       IF ~Exists THEN [pc |-> "create", crossed |-> FALSE]
       ELSE At("check", 1, courses[1].seeded)]
  /\ UNCHANGED <<courses, removed>>

\* The requests once q goes on to "to", and its writing crosses "others".
Cross(q, to, others) ==
  req' = [p \in Requests |->
            IF p = q THEN to
            ELSE IF p \in others THEN [req[p] EXCEPT !.crossed = TRUE] ELSE req[p]]

\* Those that have read that there is no course.
Creating == {p \in Requests : req[p].pc = "create"}

\* A fixed code is unique, a generated one never clashes.
Create(q) ==
  /\ req[q].pc = "create"
  /\ IF FixedCode /\ courses # << >>
     THEN req' = [req EXCEPT ![q] = Dead] /\ UNCHANGED courses
     ELSE /\ courses' = Append(courses, Fresh(req[q].crossed))
          /\ Cross(q, At("check", Len(courses) + 1, FALSE), Creating)
  /\ UNCHANGED removed

\* Slip: the flag is not looked at, only the rows.
SeededByRows(q) == FALSE

AlreadySeeded(q) == req[q].seeded

Check(q) ==
  /\ req[q].pc = "check"
  /\ req' = [req EXCEPT ![q].pc = IF AlreadySeeded(q) THEN "done" ELSE "count"]
  /\ UNCHANGED <<courses, removed>>

Count(q) ==
  /\ req[q].pc = "count"
  /\ req' = [req EXCEPT ![q].pc = IF courses[req[q].course].rows # {} THEN "mark" ELSE "seed"]
  /\ UNCHANGED <<courses, removed>>

\* Those on a course that have read that it is not seeded yet.
Unaware(c) ==
  {p \in Requests : req[p].pc \in {"check", "count", "seed"} /\ req[p].course = c}

\* Slip: one statement after the other, so that a limit stops them half-way.
RowsPartly == SUBSET Default \ {{}}

\* Slip: no statement at all.
RowsNone == {{}}

\* One atomic batch.
RowsSeeded == {Default}

\* Rows that are there already are left alone.
Seed(q) ==
  LET c == req[q].course IN
  /\ req[q].pc = "seed"
  /\ \E rows \in RowsSeeded :
       Update(c, [courses[c] EXCEPT !.rows = @ \cup rows, !.again = @ \/ req[q].crossed])
  /\ Cross(q, [req[q] EXCEPT !.pc = "mark"], Unaware(c))
  /\ UNCHANGED removed

Mark(q) ==
  LET c == req[q].course IN
  /\ req[q].pc = "mark"
  /\ Update(c, [courses[c] EXCEPT !.seeded = TRUE])
  /\ Cross(q, [req[q] EXCEPT !.pc = "done"], Unaware(c))
  /\ UNCHANGED removed

Die(q) ==
  /\ MayDie /\ req[q].pc \notin {"done", "dead"}
  /\ req' = [req EXCEPT ![q] = Dead]
  /\ UNCHANGED <<courses, removed>>

\* A teacher's request has the course and removes a student from its roster.
RemoveStudent(q, s) ==
  LET c == req[q].course IN
  /\ req[q].pc = "done" /\ s \in courses[c].rows
  /\ Update(c, [courses[c] EXCEPT !.rows = @ \ {s}])
  /\ removed' = removed \cup {<<c, s>>}
  /\ UNCHANGED req

Init == courses = << >> /\ req = [q \in Requests |-> Start] /\ removed = {}

Next ==
  \E q \in Requests :
    \/ Read(q) \/ Create(q) \/ Check(q) \/ Count(q) \/ Seed(q) \/ Mark(q) \/ Die(q)
    \/ \E s \in Default : RemoveStudent(q, s)

Spec == Init /\ [][Next]_vars

-----------------------------------------------------------------------------
(* Properties.                                                             *)

\* The requests that got a course got the same one, unless two of them read
\* that there is none before either had made it (lib/store.ts:41), which a
\* fixed code rules out.
OneCourse ==
  \A p, q \in Requests :
    LET c == req[p].course
        d == req[q].course
    IN  req[p].pc = "done" /\ req[q].pc = "done" /\ c # d =>
          ~FixedCode /\ (courses[c].extra \/ courses[d].extra)

\* A student the teacher removed is not brought back by a later seeding, unless
\* by a request that read the course before another one seeded or marked it.
RemovedStaysRemoved ==
  \A c \in Ids : ~courses[c].again =>
    \A s \in Default : <<c, s>> \in removed => s \notin courses[c].rows

\* A request that has the course sees a roster that was seeded in full, except
\* for the students a teacher removed, however requests overlap and whoever
\* died before (lib/roster.ts:58-62).
SeededInFull ==
  \A q \in Requests : req[q].pc = "done" =>
    \A s \in Default : s \in courses[req[q].course].rows \/ <<req[q].course, s>> \in removed

=============================================================================
