------------------------------- MODULE JobPage -------------------------------
(* A round's jobs on the teacher's page (components/jev/JevRoundJob.tsx and   *)
(* its panel). While the page shows an active job it keeps sending requests   *)
(* that each advance it by one wave; the teacher starts, resumes and cancels, *)
(* here and on another page. Answers overtake each other and get lost. What a *)
(* request does to a job is JevJobs'; here a job has a number of waves left.  *)
EXTENDS Integers, Sequences, FiniteSets

CONSTANTS
  None,
  Waves,       \* of a job
  MaxJobs,     \* bound on the jobs of the round
  MaxActs,     \* bound on what the teacher does
  MaxFaults    \* bound on lost requests and failed waves

VARIABLES
  jobs, acts,               \* the round's jobs, the teacher's actions so far
  job, busy, error, gen,    \* the page; gen is raised by each action
  wire, faults

server == <<jobs, acts>>
page == <<job, busy, error, gen>>
vars == <<server, page, wire, faults>>

Active == {"queued", "running"}
\* ver counts a job's changes; the page does not see it.
JobViews == [id : 1..MaxJobs, status : Active \cup {"failed", "cancelled", "completed"},
             left : 0..Waves, ver : Nat]
NewJob == [id |-> Len(jobs) + 1, status |-> "queued", left |-> Waves, ver |-> 0]
Request(kind) == [kind |-> kind, id |-> IF job = None THEN 0 ELSE job.id, gen |-> gen,
                  live |-> TRUE, done |-> FALSE, answer |-> None]
\* An answer without a job is a refusal.
Answered(q, j) == wire' = (wire \ {q}) \cup {[q EXCEPT !.done = TRUE, !.answer = j]}
Ticks == {q \in wire : q.kind = "advance" /\ q.live}

activeId == job # None /\ job.status \in Active
canStart == ~ activeId
\* In the panel, and the page's own button after an error.
canResume == job # None /\ (activeId => error = "failed")
Offered(a) == CASE a = "start"  -> canStart
                [] a = "resume" -> canResume /\ job.status # "completed"
                [] a = "cancel" -> activeId
-----------------------------------------------------------------------------
Init ==
  /\ jobs = <<>> /\ acts = 0
  /\ job = None /\ busy = TRUE /\ error = "none" /\ gen = 0
  /\ wire = {[kind |-> "read", id |-> 0, gen |-> 0, live |-> TRUE, done |-> FALSE, answer |-> None]}
  /\ faults = 0

Others(id) == {i \in 1..Len(jobs) \ {id} : jobs[i].status \in Active}
Become(id, st, n) ==
  jobs' = [jobs EXCEPT ![id] = [id |-> id, status |-> st, left |-> n, ver |-> @.ver + 1]]
\* createJevJob returns the active job, if there is one.
createJob ==
  IF Others(0) # {} THEN UNCHANGED jobs
  ELSE Len(jobs) < MaxJobs /\ jobs' = Append(jobs, NewJob)
Newest == CHOOSE i \in 1..Len(jobs') : jobs'[i].status \in Active
\* Slip: an older job is resumed beside the active one.
ResumeBeside(id) == jobs[id].status \in {"failed", "cancelled"}
Resumable(id) == jobs[id].status \in {"failed", "cancelled"} /\ Others(id) = {}
cancelJob(id) == IF jobs[id].status \in Active THEN Become(id, "cancelled", jobs[id].left)
                 ELSE UNCHANGED jobs
resumeJob(id) == IF Resumable(id) THEN Become(id, "queued", jobs[id].left) ELSE UNCHANGED jobs
advanceJob(id) ==
  IF jobs[id].status \notin Active THEN UNCHANGED jobs
  ELSE Become(id, IF jobs[id].left = 1 THEN "completed" ELSE "running", jobs[id].left - 1)

\* The teacher on another page.
Elsewhere ==
  /\ acts < MaxActs /\ acts' = acts + 1 /\ UNCHANGED <<page, wire, faults>>
  /\ createJob \/ \E id \in 1..Len(jobs) : cancelJob(id) \/ resumeJob(id)

\* Slip: the requests go on after an error.
DrivingOn == activeId
\* Slip: a job in the queue is not driven.
DrivingRunning == job # None /\ job.status = "running" /\ error = "none"
Driving == activeId /\ error = "none"
Tick == /\ Driving /\ Ticks = {} /\ wire' = wire \cup {Request("advance")}
        /\ UNCHANGED <<server, page, faults>>

\* The effect stops: its request is aborted, which the server may not notice.
Stop == {IF q.kind = "advance" THEN [q EXCEPT !.live = FALSE] ELSE q : q \in wire}
act(a) ==
  /\ ~ busy /\ Offered(a) /\ acts < MaxActs /\ acts' = acts + 1
  /\ busy' = TRUE /\ error' = "changing" /\ gen' = gen + 1
  /\ wire' = Stop \cup {[Request(a) EXCEPT !.gen = gen + 1]}
  /\ UNCHANGED <<jobs, job, faults>>
-----------------------------------------------------------------------------
Serve(q) ==
  /\ q \in wire /\ ~ q.done /\ UNCHANGED <<acts, page, faults>>
  /\ \/ /\ q.kind = "read" /\ UNCHANGED jobs
        /\ Answered(q, IF jobs = <<>> THEN None ELSE jobs[Len(jobs)])
     \/ q.kind = "start" /\ createJob /\ Answered(q, jobs'[Newest])
     \/ q.kind = "cancel" /\ cancelJob(q.id) /\ Answered(q, jobs'[q.id])
     \/ /\ q.kind = "resume" /\ resumeJob(q.id)
        /\ Answered(q, IF jobs[q.id].status \in {"failed", "cancelled"} /\ jobs' = jobs
                         THEN None ELSE jobs'[q.id])
     \/ q.kind = "advance" /\ advanceJob(q.id) /\ Answered(q, jobs'[q.id])
\* The service failed: so did a student's item, and the job.
Outage(q) ==
  /\ q \in wire /\ q.kind = "advance" /\ ~ q.done /\ jobs[q.id].status \in Active
  /\ faults < MaxFaults /\ faults' = faults + 1
  /\ Become(q.id, "failed", jobs[q.id].left) /\ Answered(q, jobs'[q.id])
  /\ UNCHANGED <<acts, page>>

\* Slip: whatever comes is shown.
CurrentAny(q) == TRUE
Current(q) == q.live /\ q.gen = gen
\* Slip: a lost action leaves the page in the middle of it.
SettlesIfOk(q, ok) == IF q.kind = "advance" THEN UNCHANGED busy ELSE busy' = ~ ok
Settles(q, ok) == IF q.kind = "advance" THEN UNCHANGED busy ELSE busy' = FALSE
Got(q) ==
  /\ q \in wire /\ q.done /\ wire' = wire \ {q} /\ UNCHANGED <<server, gen, faults>>
  /\ IF ~ Current(q) THEN UNCHANGED <<job, busy, error>>
     ELSE /\ Settles(q, TRUE)
          /\ IF q.answer # None THEN job' = q.answer /\ error' = "none"
             ELSE UNCHANGED job /\ error' = IF q.kind = "read" THEN error ELSE "failed"
Lose(q) ==
  /\ q \in wire /\ faults < MaxFaults /\ faults' = faults + 1 /\ wire' = wire \ {q}
  /\ UNCHANGED <<server, job, gen>>
  /\ IF Current(q) THEN Settles(q, FALSE) /\ error' = "failed" ELSE UNCHANGED <<busy, error>>

Acts == {"start", "resume", "cancel"}
Next ==
  \/ Elsewhere \/ Tick \/ \E a \in Acts : act(a)
  \/ \E q \in wire : Serve(q) \/ Outage(q) \/ Got(q) \/ Lose(q)
Spec == Init /\ [][Next]_vars

-----------------------------------------------------------------------------
TypeOK ==
  /\ \A i \in 1..Len(jobs) : jobs[i] \in JobViews /\ jobs[i].id = i
  /\ job \in JobViews \cup {None} /\ error \in {"none", "changing", "failed"}
  \* The buttons are disabled only while an answer may still enable them.
  /\ busy => \E q \in wire : q.kind # "advance" /\ Current(q)

\* One active job per round, whichever page starts and resumes.
OneActive == Cardinality(Others(0)) <= 1

\* The page never goes back to an older state of a job: no answer to a request
\* of before an action shows "running" again after a cancel.
NeverBack == (job # None /\ job'.id = job.id) => job'.ver >= job.ver

\* No request drives a job from a page on which an error or a cancel is shown
\* ("stop automatic dispatch until the mutation has returned").
DispatchStops ==
  error # "none" => Cardinality({q \in wire' : q.kind = "advance"})
                      <= Cardinality({q \in wire : q.kind = "advance"})
=============================================================================
