------------------------------ MODULE AutoPages ------------------------------
(* The pages that drive the automatic runs: each student's own status         *)
(* (components/jev/JevAutoGradeStatus.tsx) and the teacher's round panel      *)
(* (JevAutoRoundStatus.tsx), with the two routes they call. Nothing else      *)
(* advances a run, so a run moves only while a page shows one of the two.     *)
(* What a wave does inside is AutoRuns'; here a run has some waves left, and a  *)
(* request that finds no free slot or a pause to wait out is not shown.       *)
EXTENDS Naturals, FiniteSets

CONSTANTS
  None, Students,
  Waves,       \* of a run
  MaxActs,     \* bound on the clicks
  MaxFaults    \* bound on lost answers, failed waves and service outages

VARIABLES
  runs,                      \* one per student, for the latest revision
  view, next, tries,         \* each student's page
  auto, ask, busy, gen,      \* the teacher's panel
  wire, acts, faults

pageVars == <<view, next, tries>>
panelVars == <<auto, ask, busy, gen>>
vars == <<runs, pageVars, panelVars, wire, acts, faults>>

ACTIVE == {"queued", "running", "retrying"}
\* ver counts a run's changes; no page sees it.
RunViews == [status : ACTIVE \cup {"completed", "failed", "cancelled", "transferred"},
             left : 0..Waves, ver : Nat]
Asked(who, step, g) == [who |-> who, step |-> step, gen |-> g, live |-> TRUE, done |-> FALSE,
                        answer |-> None, off |-> FALSE]
Answered(q, a, off) ==
  wire' = (wire \ {q}) \cup {[q EXCEPT !.done = TRUE, !.answer = a, !.off = off]}
Of(who) == {q \in wire : q.who = who /\ q.live}
Stopped(who) == {IF q.who = who THEN [q EXCEPT !.live = FALSE] ELSE q : q \in wire}
-----------------------------------------------------------------------------
Init ==
  /\ runs = [s \in Students |-> [status |-> "queued", left |-> Waves, ver |-> 0]]
  /\ view = [s \in Students |-> None] /\ tries = [s \in Students |-> 0]
  \* The students' pages show their component, or a teacher's the panel, or both.
  /\ \E shown \in {{"student"}, {"teacher"}, {"student", "teacher"}} :
       /\ next = [s \in Students |-> IF "student" \in shown THEN "get" ELSE "none"]
       /\ ask = IF "teacher" \in shown THEN "auto-status" ELSE "none"
  /\ auto = None /\ busy = FALSE /\ gen = 0
  /\ wire = {} /\ acts = 0 /\ faults = 0

To(r, st, n) == [status |-> st, left |-> n, ver |-> r.ver + 1]
\* One wave: saved trials, the last of them, or a failure.
Wave(r) == IF r.left = 1 THEN To(r, "completed", 0) ELSE To(r, "running", r.left - 1)
FailedWave(r) == {To(r, st, r.left) : st \in {"retrying", "failed"}}
\* What a request does to one run: advanceAutoRuns, retryOwnAutoRun, cancelAutoRuns, resumeAutoRuns.
Moved(step, r) ==
  CASE step \in {"advance", "auto-advance"} /\ r.status \in ACTIVE -> Wave(r)
    [] step = "retry" /\ r.status = "failed" -> Wave(To(r, "queued", r.left))
    [] step = "auto-cancel" /\ r.status \in ACTIVE \cup {"failed"} -> To(r, "cancelled", r.left)
    [] step = "auto-resume" /\ r.status \in {"cancelled", "failed"} -> To(r, "queued", r.left)
    [] OTHER -> r
Concerns(q) == IF q.who = "teacher" THEN Students ELSE {q.who}
ServeWith(q, new, off) ==
  /\ q \in wire /\ ~ q.done /\ runs' = new
  /\ Answered(q, IF q.who = "teacher" THEN new ELSE new[q.who], off)
  /\ UNCHANGED <<pageVars, panelVars, acts>>
Serve(q) == /\ ServeWith(q, [s \in Students |-> IF s \in Concerns(q) THEN Moved(q.step, runs[s])
                                                ELSE runs[s]], FALSE)
            /\ UNCHANGED faults
\* The executor failed: the trials go back, and too many failures end the run.
Outage(q) ==
  /\ q.step \in {"advance", "auto-advance"} /\ faults < MaxFaults /\ faults' = faults + 1
  /\ \E s \in Concerns(q) : /\ runs[s].status \in ACTIVE
                            /\ \E r \in FailedWave(runs[s]) : ServeWith(q, [runs EXCEPT ![s] = r], FALSE)
\* No service is configured: the student's route says so and moves nothing.
Unconfigured(q) == /\ q.step = "advance" /\ faults < MaxFaults /\ faults' = faults + 1
                   /\ ServeWith(q, runs, TRUE)
\* A teacher's job takes an ended run over for good.
Transfer(s) == /\ acts < MaxActs /\ acts' = acts + 1 /\ runs[s].status \in {"failed", "cancelled"}
               /\ runs' = [runs EXCEPT ![s] = To(@, "transferred", @.left)]
               /\ UNCHANGED <<pageVars, panelVars, wire, faults>>
-----------------------------------------------------------------------------
\* The student's page. A timer, or the effect itself, sends the next request.
run(s) == /\ next[s] # "none" /\ Of(s) = {} /\ wire' = wire \cup {Asked(s, next[s], tries[s])}
          /\ UNCHANGED <<runs, pageVars, panelVars, acts, faults>>
\* "Try the rest again": the effect starts over.
Retry(s) ==
  /\ view[s] # None /\ view[s].status = "failed" /\ acts < MaxActs /\ acts' = acts + 1
  /\ tries' = [tries EXCEPT ![s] = @ + 1] /\ view' = [view EXCEPT ![s] = None]
  /\ next' = [next EXCEPT ![s] = "retry"] /\ wire' = Stopped(s)
  /\ UNCHANGED <<runs, panelVars, faults>>
\* Slip: only an active run is asked about again.
NextStepActive(v, off) == IF v.status \in ACTIVE THEN "advance" ELSE "none"
\* Slip: while no service is configured the page does not ask again.
NextStepOn(v, off) == CASE v.status = "completed" \/ off -> "none" [] v.status \in ACTIVE -> "advance"
                        [] OTHER -> "get"
NextStep(v, off) == CASE v.status = "completed" -> "none"
                      [] v.status \in ACTIVE -> "advance"
                      [] OTHER -> "get"
\* Slip: the answer of a stopped effect is shown.
HeardAny(q) == TRUE
Heard(q) == q.live
StudentGot(q) ==
  /\ q \in wire /\ q.who \in Students /\ q.done /\ wire' = wire \ {q}
  /\ IF ~ Heard(q) THEN UNCHANGED <<view, next>>
     ELSE /\ view' = [view EXCEPT ![q.who] = q.answer]
          /\ next' = [next EXCEPT ![q.who] = NextStep(q.answer, q.off)]
  /\ UNCHANGED <<runs, tries, panelVars, acts, faults>>
StudentLost(q) ==
  /\ q \in wire /\ q.who \in Students /\ faults < MaxFaults /\ faults' = faults + 1
  /\ wire' = wire \ {q} /\ next' = IF Heard(q) THEN [next EXCEPT ![q.who] = "get"] ELSE next
  /\ UNCHANGED <<runs, view, tries, panelVars, acts>>
-----------------------------------------------------------------------------
\* The teacher's panel. Polling pauses while an action is under way.
tick == /\ ask # "none" /\ ~ busy /\ Of("teacher") = {}
        /\ wire' = wire \cup {Asked("teacher", ask, gen)}
        /\ UNCHANGED <<runs, pageVars, panelVars, acts, faults>>
Offered(a) == auto # None /\ \E s \in Students :
  auto[s].status \in IF a = "auto-cancel" THEN ACTIVE ELSE {"failed", "cancelled"}
act(a) ==
  /\ ~ busy /\ Offered(a) /\ acts < MaxActs /\ acts' = acts + 1 /\ busy' = TRUE /\ gen' = gen + 1
  /\ wire' = Stopped("teacher") \cup {Asked("teacher", a, gen + 1)}
  /\ UNCHANGED <<runs, pageVars, auto, ask, faults>>
IsAct(q) == q.step \in {"auto-cancel", "auto-resume"}
Pending(a) == \E s \in Students : a[s].status \in ACTIVE
\* Slip: the poll stays what it was.
PollSame(q, a) == ask
Poll(q, a) == IF IsAct(q) \/ ~ Pending(a) THEN "auto-status" ELSE "auto-advance"
\* Slip: an answer of before an action is shown.
CurrentAny(q) == TRUE
Current(q) == q.live /\ q.gen = gen
\* Slip: a lost action leaves the panel in the middle of it.
ResumePollingIfOk(q, ok) == IF IsAct(q) THEN busy' = ~ ok ELSE UNCHANGED busy
ResumePolling(q, ok) == IF IsAct(q) THEN busy' = FALSE ELSE UNCHANGED busy
TeacherGot(q) ==
  /\ q \in wire /\ q.who = "teacher" /\ q.done /\ wire' = wire \ {q}
  /\ IF ~ Current(q) THEN UNCHANGED <<auto, ask, busy>>
     ELSE auto' = q.answer /\ ask' = Poll(q, q.answer) /\ ResumePolling(q, TRUE)
  /\ UNCHANGED <<runs, pageVars, gen, acts, faults>>
TeacherLost(q) ==
  /\ q \in wire /\ q.who = "teacher" /\ faults < MaxFaults /\ faults' = faults + 1
  /\ wire' = wire \ {q}
  /\ IF Current(q) THEN ask' = "auto-status" /\ ResumePolling(q, FALSE) ELSE UNCHANGED <<ask, busy>>
  /\ UNCHANGED <<runs, pageVars, auto, gen, acts>>
-----------------------------------------------------------------------------
Next ==
  \/ \E s \in Students : run(s) \/ Retry(s) \/ Transfer(s)
  \/ tick \/ \E a \in {"auto-cancel", "auto-resume"} : act(a)
  \/ \E q \in wire : \/ Serve(q) \/ Outage(q) \/ Unconfigured(q)
                     \/ StudentGot(q) \/ StudentLost(q) \/ TeacherGot(q) \/ TeacherLost(q)
Spec == Init /\ [][Next]_vars

-----------------------------------------------------------------------------
TypeOK ==
  /\ \A s \in Students : /\ runs[s] \in RunViews /\ view[s] \in RunViews \cup {None}
                         /\ next[s] \in {"none", "get", "advance", "retry"} /\ tries[s] \in Nat
  /\ ask \in {"none", "auto-status", "auto-advance"} /\ gen \in Nat
  \* The panel polls, or an action's answer will let it poll again.
  /\ busy => \E q \in Of("teacher") : IsAct(q) /\ q.gen = gen

\* Neither page goes back to an older state of a run, though the requests of
\* before a retry, a cancel or a resume are still answered after it.
NeverBack == \A s \in Students :
  /\ (view[s] # None /\ view'[s] # None) => view'[s].ver >= view[s].ver
  /\ auto # None => auto'[s].ver >= auto[s].ver

Active == \E s \in Students : runs[s].status \in ACTIVE
\* Every page shows how each run stands, a teacher's resume or takeover on a
\* student's page too ("without a reload").
Agrees ==
  /\ \A s \in Students : (view[s] # None \/ next[s] # "none") => view[s] = runs[s]
  /\ ask # "none" => auto = runs
=============================================================================
