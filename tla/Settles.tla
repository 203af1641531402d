------------------------------ MODULE Settles ------------------------------
(***************************************************************************)
(* What the server promises to finish: automatic runs, teachers' jobs and  *)
(* the AI feedback.  A behaviour is of one of the three, chosen at the     *)
(* start; the variables of the others stay unused.  Workers and requests   *)
(* are numbers.                                                            *)
(***************************************************************************)
EXTENDS Integers, FiniteSets

CONSTANTS
  Unused  \* the value of the others' variables

VARIABLES
  area,
  asked,  \* somebody asks for the run again and again: a teacher's job, a page
  open, faults, req,
  rev, run, trial, slot, pc, claim,      \* AutoRuns
  auto, job, item, evaluations,          \* JevJobs
  status, token, left, lost, busy        \* ResearchAI

runV == <<rev, run, trial, slot, pc, claim>>
jobV == <<auto, job, item, evaluations>>
aiV  == <<status, token, left, lost, busy>>
vars == <<area, asked, open, faults, req, runV, jobV, aiV>>

\* Two workers on one run, and a fault.
Auto == INSTANCE AutoRuns WITH
  Submissions <- {1}, MaxRev <- 1, AUTO_TRIALS <- 1, SlotCount <- 2, Workers <- {1, 2},
  Tokens <- 1..4, NoToken <- 0, MAX_WAVES <- 2, MaxCalls <- 1, MaxEpoch <- 1, MaxFaults <- 1

\* Two requests of a page, and two faults.
Jobs == INSTANCE JevJobs WITH
  Jobs <- {1}, Submissions <- {1}, Unexecutable <- {}, TRIALS <- 2, AUTO_TRIALS <- 1,
  SlotCount <- 2, Requests <- {1, 2}, MaxFaults <- 2

\* Two requests, one that dies and one that finds no slot.
Feedback == INSTANCE ResearchAI WITH
  Requests <- {1, 2}, Lease <- 3, Deadline <- 1, CallTime <- 1, SlotLease <- 4,
  MaxLost <- 1, MaxBusy <- 1, Nobody <- 0

NoAuto == rev = Unused /\ run = Unused /\ trial = Unused /\ slot = Unused /\ pc = Unused /\ claim = Unused
NoJobs == auto = Unused /\ job = Unused /\ item = Unused /\ evaluations = Unused
NoFeedback == status = Unused /\ token = Unused /\ left = Unused /\ lost = Unused /\ busy = Unused

Init ==
  \/ area = "runs" /\ asked \in BOOLEAN /\ Auto!Init /\ NoJobs /\ NoFeedback /\ req = Unused
  \/ area = "jobs" /\ asked = Unused /\ Jobs!Init /\ NoAuto /\ NoFeedback /\ open = Unused
  \/ area = "feedback" /\ asked = Unused /\ Feedback!Init /\ NoAuto /\ NoJobs /\ faults = Unused

\* A step of one area.
InAuto(step)     == area = "runs" /\ step /\ UNCHANGED <<area, asked, req, jobV, aiV>>
InJobs(step)     == area = "jobs" /\ step /\ UNCHANGED <<area, asked, open, runV, aiV>>
InFeedback(step) == area = "feedback" /\ step /\ UNCHANGED <<area, asked, faults, runV, jobV>>

\* A teacher's job reaches the submission and asks for its run (advanceJobItem),
\* or is cancelled; a page that would ask is opened or left.
Asks ==
  /\ area = "runs" /\ asked' = ~ asked
  /\ UNCHANGED <<area, open, faults, req, runV, jobV, aiV>>

Next == InAuto(Auto!Next) \/ Asks \/ InJobs(Jobs!Next) \/ InFeedback(Feedback!Next)

Run == <<1, 1>>
Slot(r) == Feedback!GetSlot(r) \/ Feedback!NoSlot(r)
Ends(r) == Feedback!Complete(r) \/ (req[r].pc = "work" /\ Feedback!Fail(r))

\* The fairness of each module, restricted to its area.  A worker starts when
\* somebody asks, and then goes on to its end; without a request nothing starts.
AutoFairness ==
  /\ \A w \in 1..2 : WF_vars(InAuto((asked \/ pc[w] # "idle") /\ Auto!Work(w)))
  /\ \A tok \in 1..4 : WF_vars(InAuto(Auto!Holders(tok) = {} /\ Auto!Expire(tok)))
  /\ WF_vars(InAuto(Auto!BackoffEnds(Run)))

JobFairness ==
  /\ \A r \in 1..2 : WF_vars(InJobs(Jobs!Advance(r)))
  /\ WF_vars(InJobs(Jobs!ExpireLease(1) /\ UNCHANGED faults))
  /\ WF_vars(InJobs(/\ job[1].status \in Jobs!Active
                    /\ Jobs!AutoRecord(1) /\ UNCHANGED <<job, item, evaluations, req, faults>>))

FeedbackFairness ==
  /\ WF_vars(InFeedback(Feedback!Tick))
  /\ \A r \in 1..2 :
       /\ WF_vars(InFeedback(Feedback!NeedsRun /\ Feedback!Ask(r)))
       /\ WF_vars(InFeedback(Feedback!Claim(r)))
       /\ WF_vars(InFeedback(Feedback!Call(r)))
       /\ WF_vars(InFeedback(Feedback!CallEnds(r)))
       /\ WF_vars(InFeedback(Slot(r)))
       /\ WF_vars(InFeedback(Ends(r)))

\* Their strong fairness.  A behaviour stays in its area, so that fairness of a
\* disjunction over the areas is fairness of the one it is in.
StrongFairness ==
  \A i \in 1..2 :
    /\ SF_vars(\/ InAuto(i = 1 /\ asked /\ \E w \in 1..2 : Auto!ClaimTrial(w, Run))
               \/ InJobs(Jobs!Claim(i) /\ req[i].pc' # "finish")
               \/ InFeedback(Feedback!Holds(i) /\ Slot(i)))
    /\ SF_vars(InJobs(Jobs!EndWave(i)) \/ InFeedback(Feedback!Holds(i) /\ Ends(i)))

Spec ==
  Init /\ [][Next]_vars /\ AutoFairness /\ JobFairness /\ FeedbackFairness /\ StrongFairness

-----------------------------------------------------------------------------
(* Properties.                                                             *)

\* A trial of the run may be claimed by the next request that asks.
MayGoOn == \E i \in Auto!Trials : Auto!Claimable(Run, i)

\* What is not settled: the active run of the latest revision that is asked for
\* or that no request could go on with, an active job, a version without a
\* result or an error while its round is open.
Unsettled ==
  \/ /\ area = "runs" /\ run[Run].status \in {"queued", "running"} /\ Auto!Latest(Run)
     /\ asked \/ ~ MayGoOn
  \/ area = "jobs" /\ job[1].status \in Jobs!Active
  \/ area = "feedback" /\ open /\ status \notin {"completed", "failed"}

\* Everything settles.  A run that is asked for completes, fails or is stopped
\* (AutoRuns!RunSettles); one that nobody asks for is never stuck: leases of dead
\* workers and backoffs end, and it waits with a trial that the next request
\* claims.  Jobs complete, fail or are cancelled (JevJobs!JobSettles), and every
\* version gets a result or an error that offers another try
\* (ResearchAI!FeedbackSettles), through dead requests and full slots.
EverythingSettles == Unsettled ~> ~Unsettled
=============================================================================
