------------------------------ MODULE JevJobs -------------------------------
(***************************************************************************)
(* Teacher jobs (lib/jevJobs.ts): the teacher has every submission of a    *)
(* closed round executed again.  A job is advanced one item at a time by   *)
(* requests of any open teacher page; a lease with a fencing token keeps   *)
(* overlapping, stale and cancelled requests from committing.  The first   *)
(* trials of an item are those of the submission's automatic run, which is *)
(* driven, frozen or reused; its own workers (AutoRuns) go on meanwhile    *)
(* and appear here as AutoStep.                                            *)
(*                                                                         *)
(* One D1 statement or batch is one action.  A request's name stands for   *)
(* its lease token.  Time is abstracted as in AutoRuns: a lease is live or *)
(* not, and does not end while its holder is in a call.                    *)
(***************************************************************************)
EXTENDS Naturals, FiniteSets

CONSTANTS
  Jobs,         \* ids of the jobs of one round, in the order of creation
  Submissions,  \* ids of its submissions, which give the order of the items
  Unexecutable, \* those without a step or with an invalid one
  TRIALS,       \* trials_per_student
  AUTO_TRIALS,  \* trials of an automatic run
  SlotCount,    \* GLOBAL_TRIAL_SLOTS
  Requests,     \* advance requests in flight at one time
  MaxFaults     \* bound on crashes, database errors and overrun leases

ASSUME JobsAssumption ==
  /\ Jobs \subseteq Nat /\ Submissions \subseteq Nat
  /\ Jobs # {} /\ Submissions # {}  \* the job of an empty round has no item to advance
  /\ Unexecutable \subseteq Submissions /\ IsFiniteSet(Submissions)
  /\ TRIALS \in Nat \ {0} /\ AUTO_TRIALS \in Nat \ {0}
  /\ SlotCount \in Nat \ {0} /\ MaxFaults \in Nat
  /\ 0 \notin Requests

VARIABLES
  auto,        \* jev_auto_runs of each submission's revision, and its results
  job,         \* jev_jobs
  item,        \* jev_job_items
  evaluations, \* trials in the jev_batch_evaluations row of an item, 0 if none
  req,         \* what each advance request is doing
  faults

vars == <<auto, job, item, evaluations, req, faults>>

NoOne == 0
Active == {"queued", "running"}

AutoRow == [status : {"none", "active", "completed", "failed", "cancelled",
                      "skipped", "transferred"}, done : 0..AUTO_TRIALS]
JobRow == [status : Active \cup {"none", "completed", "failed", "cancelled"},
           lease : Requests \cup {NoOne}, live : BOOLEAN]
ItemRow == [status : {"none", "pending", "completed", "failed", "skipped"},
            trials : 0..TRIALS,  \* results saved
            reused : 0..TRIALS]  \* those taken from the automatic run
RequestRow ==
  [pc : {"idle", "locked", "auto", "transfer", "load", "claim", "ready",
         "calling", "commit", "finish"},
   job : Jobs, sub : Submissions,
   trials : 0..TRIALS, reused : 0..TRIALS,  \* the local copy of the item
   wave : 0..SlotCount,                     \* slots claimed
   status : {"pending", "completed", "failed", "skipped"}]

Least(S) == CHOOSE x \in S : \A y \in S : x <= y
IdleRequest == [pc |-> "idle", job |-> Least(Jobs), sub |-> Least(Submissions),
                trials |-> 0, reused |-> 0, wave |-> 0, status |-> "pending"]
NoJob == [status |-> "none", lease |-> NoOne, live |-> FALSE]

TypeOK ==
  /\ auto \in [Submissions -> AutoRow]
  /\ job \in [Jobs -> JobRow]
  /\ item \in [Jobs -> [Submissions -> ItemRow]]
  /\ evaluations \in [Jobs -> [Submissions -> 0..TRIALS]]
  /\ req \in [Requests -> RequestRow]
  /\ faults \in 0..MaxFaults

-----------------------------------------------------------------------------
Smaller(a, b) == IF a <= b THEN a ELSE b
Fault == faults < MaxFaults /\ faults' = faults + 1

Mine(r) == job[req[r].job]
Pending(j) == {s \in Submissions : item[j][s].status = "pending"}
Unleased(row) == [status |-> row.status, lease |-> NoOne, live |-> FALSE]

\* Slip: the commit asks only whether the job is running.
HoldsJobRunning(r, live) == Mine(r).status = "running"

\* The fence of every call and of the commit: lease_token, status, lease_until.
HoldsJob(r, live) ==
  Mine(r).lease = r /\ Mine(r).status = "running" /\ live

\* UPDATE ... WHERE lease_token = ?: the lease of r's job goes only if it is r's.
ReleaseJob(r, status) ==
  job' = [job EXCEPT ![req[r].job] =
            IF @.lease = r THEN [Unleased(@) EXCEPT !.status = status] ELSE @]

At(r, pc) == req[r].pc = pc
GoTo(r, pc) == req' = [req EXCEPT ![r].pc = pc]

-----------------------------------------------------------------------------
(* The teacher.                                                            *)

\* createJevJob on a round without an active job: the job and its items, one
\* for every current submission, in one batch.
CreateJob(j) ==
  /\ job[j].status = "none" /\ \A k \in Jobs : k < j => job[k].status # "none"
  /\ \A k \in Jobs : job[k].status \notin Active
  /\ job' = [job EXCEPT ![j].status = "queued"]
  /\ item' = [item EXCEPT ![j] =
                [s \in Submissions |-> [status |-> "pending", trials |-> 0, reused |-> 0]]]
  /\ UNCHANGED <<auto, evaluations, req, faults>>

CancelJob(j) ==
  /\ job[j].status \in Active
  /\ job' = [job EXCEPT ![j] = [status |-> "cancelled", lease |-> NoOne, live |-> FALSE]]
  /\ UNCHANGED <<auto, item, evaluations, req, faults>>

\* The unique index allows one active job per round.
ResumeJob(j) ==
  /\ job[j].status \in {"failed", "cancelled"}
  /\ \A k \in Jobs : job[k].status \notin Active
  /\ job' = [job EXCEPT ![j] = [status |-> "queued", lease |-> NoOne, live |-> FALSE]]
  /\ item' = [item EXCEPT ![j] = [s \in Submissions |->
                IF @[s].status = "failed" THEN [@[s] EXCEPT !.status = "pending"] ELSE @[s]]]
  /\ UNCHANGED <<auto, evaluations, req, faults>>

\* What the teacher sees (jevJobProgress): in trials, a skipped item counts as
\* done.
Saved(j) == {p \in Submissions \X (1..TRIALS) : p[2] <= item[j][p[1]].trials}
totalTrials == Cardinality(Submissions) * TRIALS
Skipped(j) == {s \in Submissions : item[j][s].status = "skipped"}
\* Slip: only the saved trials count.
doneTrialsSaved(j) == Cardinality(Saved(j))
doneTrials(j) == Smaller(totalTrials, Cardinality(Saved(j)) + TRIALS * Cardinality(Skipped(j)))

-----------------------------------------------------------------------------
(* A request that advances a job.                                          *)

\* Slip: only a lease that was given back is taken.
FreeIfReleased(j) == job[j].status \in Active /\ job[j].lease = NoOne

\* status IN ('queued','running') AND (lease_token IS NULL OR lease_until < now)
Free(j) == job[j].status \in Active /\ ~job[j].live

TakeLease(r, j) ==
  /\ At(r, "idle") /\ \A k \in Jobs : job[k].lease # r
  /\ Free(j)
  /\ job' = [job EXCEPT ![j] = [status |-> "running", lease |-> r, live |-> TRUE]]
  /\ req' = [req EXCEPT ![r].pc = "locked", ![r].job = j]
  /\ UNCHANGED <<auto, item, evaluations, faults>>

\* The first pending item.  One that cannot be executed is committed as
\* skipped; one without trials asks for the automatic run.
ReadItem(r) ==
  /\ At(r, "locked")
  /\ LET j == req[r].job
         s == Least(Pending(j))
         row == item[j][s]
     IN  IF Pending(j) = {} THEN GoTo(r, "finish")
         ELSE req' = [req EXCEPT ![r] =
           [job |-> j, sub |-> s, trials |-> row.trials, reused |-> row.reused, wave |-> 0,
            status |-> IF s \in Unexecutable THEN "skipped" ELSE "pending",
            pc |-> IF s \in Unexecutable THEN "commit"
                   ELSE IF row.trials = 0 THEN "auto" ELSE "claim"]]
  /\ UNCHANGED <<auto, job, item, evaluations, faults>>

\* Slip: a failed run is loaded as it is.
LoadedFailed == {"completed", "transferred", "failed"}

\* Runs whose results no longer change.
Loaded == {"completed", "transferred"}

\* Its status decides: an active run is driven (advanceAutoRuns, whose effect is
\* an AutoStep) and nothing else is done in this request.
ReadAuto(r) ==
  /\ At(r, "auto")
  /\ LET status == auto[req[r].sub].status
     IN  GoTo(r, CASE status = "active" -> "finish"
                   [] status \in Loaded -> "load"
                   [] status \in {"failed", "cancelled"} -> "transfer"
                   [] OTHER -> "claim")
  /\ UNCHANGED <<auto, job, item, evaluations, faults>>

\* Slip: the job goes on although the run was resumed before it was frozen.
TransferUnchecked(r) ==
  /\ At(r, "transfer")
  /\ auto' = IF auto[req[r].sub].status \in {"failed", "cancelled"}
               THEN [auto EXCEPT ![req[r].sub].status = "transferred"] ELSE auto
  /\ GoTo(r, "load")
  /\ UNCHANGED <<job, item, evaluations, faults>>

\* transferAutoRun freezes the run unless it has changed in the meantime.
Transfer(r) ==
  /\ At(r, "transfer")
  /\ IF auto[req[r].sub].status \in {"failed", "cancelled"}
       THEN /\ auto' = [auto EXCEPT ![req[r].sub].status = "transferred"]
            /\ GoTo(r, "load")
       ELSE GoTo(r, "finish") /\ UNCHANGED auto
  /\ UNCHANGED <<job, item, evaluations, faults>>

\* loadAutoTrials
Load(r) ==
  /\ At(r, "load")
  /\ LET n == Smaller(auto[req[r].sub].done, TRIALS)
     IN  req' = [req EXCEPT ![r].pc = "claim", ![r].trials = n, ![r].reused = n]
  /\ UNCHANGED <<auto, job, item, evaluations, faults>>

\* Slip: every slot is used, however few trials are missing.
WaveLimitSlots(need) == SlotCount

WaveLimit(need) == Smaller(need, SlotCount)

\* As many slots as are free and needed; without one, and without anything new
\* to save, the request ends.
Claim(r) ==
  /\ At(r, "claim")
  /\ LET need == TRIALS - req[r].trials
         before == item[req[r].job][req[r].sub].trials
     IN  IF need = 0 THEN GoTo(r, "commit")
         ELSE \E n \in 0..WaveLimit(need) :
                req' = [req EXCEPT ![r].wave = n,
                          ![r].pc = IF n > 0 THEN "ready"
                                    ELSE IF req[r].reused = 0 \/ before > 0 THEN "finish"
                                    ELSE "commit"]
  /\ UNCHANGED <<auto, job, item, evaluations, faults>>

\* Some trial of the wave asks the service, after its fence.
StartCall(r) ==
  /\ At(r, "ready")
  /\ HoldsJob(r, Mine(r).live)
  /\ GoTo(r, "calling")
  /\ UNCHANGED <<auto, job, item, evaluations, faults>>

EndCall(r) ==
  /\ At(r, "calling")
  /\ GoTo(r, "ready")
  /\ UNCHANGED <<auto, job, item, evaluations, faults>>

\* Every trial of the wave has settled: some with a result, the others with an
\* outage (the item fails) or, if a fence said so, stale.
EndWave(r) ==
  /\ At(r, "ready")
  /\ \E done \in 0..req[r].wave, outage \in BOOLEAN :
       /\ outage => done < req[r].wave
       /\ HoldsJob(r, Mine(r).live) => outage \/ done = req[r].wave
       /\ req' = [req EXCEPT ![r].pc = "commit", ![r].trials = @ + done,
                     ![r].status = IF outage THEN "failed" ELSE "pending"]
  /\ UNCHANGED <<auto, job, item, evaluations, faults>>

\* What the item becomes.
Outcome(r) ==
  IF req[r].status = "pending" /\ req[r].trials >= TRIALS
    THEN "completed" ELSE req[r].status

\* INSERT INTO jev_batch_evaluations ... SELECT ... WHERE i.status = 'completed'
\* ON CONFLICT DO NOTHING
Evaluates(r, saved) ==
  /\ Outcome(r) = "completed"
  /\ saved[req[r].job][req[r].sub].status = "completed"
  /\ HoldsJob(r, TRUE)
  /\ evaluations[req[r].job][req[r].sub] = 0

\* The batch: the item if the lease is ours and looks live (its time was read
\* before), the evaluation of a completed item, and a failed job.
Commit(r) ==
  /\ At(r, "commit")
  /\ LET j == req[r].job
         s == req[r].sub
     IN  \E live \in BOOLEAN :
           /\ Mine(r).live => live
           /\ item' = IF HoldsJob(r, live)
                        THEN [item EXCEPT ![j][s] =
                                [status |-> Outcome(r), trials |-> req[r].trials,
                                 reused |-> req[r].reused]]
                        ELSE item
           /\ evaluations' = IF Evaluates(r, item')
                               THEN [evaluations EXCEPT ![j][s] = req[r].trials]
                               ELSE evaluations
           /\ job' = IF Outcome(r) = "failed" /\ HoldsJob(r, TRUE)
                       THEN [job EXCEPT ![j].status = "failed"] ELSE job
  /\ GoTo(r, "finish")
  /\ UNCHANGED <<auto, faults>>

\* Slip: the job is complete as soon as no item is pending in this request.
JobStatusAfterLast(j, sub) ==
  IF job[j].status # "running" THEN job[j].status
  ELSE IF Pending(j) \ {sub} # {} THEN "running" ELSE "completed"

\* The status the job is left with.
JobStatus(j, sub) ==
  IF job[j].status # "running" THEN job[j].status
  ELSE IF Pending(j) # {} THEN "running"
  ELSE IF \E s \in Submissions : item[j][s].status = "failed" THEN "failed"
  ELSE "completed"

Finish(r) ==
  /\ At(r, "finish")
  /\ ReleaseJob(r, JobStatus(req[r].job, req[r].sub))
  /\ req' = [req EXCEPT ![r] = IdleRequest]
  /\ UNCHANGED <<auto, item, evaluations, faults>>

\* A statement fails: the finally block still gives the lease back.
DbError(r) ==
  /\ req[r].pc \notin {"idle", "calling"}
  /\ ReleaseJob(r, Mine(r).status)
  /\ req' = [req EXCEPT ![r] = IdleRequest]
  /\ Fault
  /\ UNCHANGED <<auto, item, evaluations>>

\* The isolate dies with the lease held.
Crash(r) ==
  /\ req[r].pc # "idle"
  /\ req' = [req EXCEPT ![r] = IdleRequest]
  /\ Fault
  /\ UNCHANGED <<auto, job, item, evaluations>>

\* lease_until passes: of a dead request, or (a fault) of a live one, which is
\* not in a call.
ExpireLease(j) ==
  /\ job[j].live
  /\ LET alive == req[job[j].lease].pc # "idle"
     IN  /\ req[job[j].lease].pc # "calling"
         /\ IF alive THEN Fault ELSE UNCHANGED faults
  /\ job' = [job EXCEPT ![j].live = FALSE]
  /\ UNCHANGED <<auto, item, evaluations, req>>

-----------------------------------------------------------------------------
(* What the workers of AutoRuns, the student and the teacher do to the     *)
(* automatic run meanwhile.                                                *)

\* A result is accepted while the run is active or failed; the last one
\* completes it.
AutoRecord(s) ==
  /\ auto[s].status \in {"active", "failed"}
  /\ auto' = [auto EXCEPT ![s] =
       [status |-> IF @.done + 1 = AUTO_TRIALS THEN "completed" ELSE @.status,
        done |-> @.done + 1]]

\* The last wave fails, or the teacher cancels.
AutoStop(s) ==
  \/ auto[s].status = "active" /\ auto' = [auto EXCEPT ![s].status = "failed"]
  \/ /\ auto[s].status \in {"active", "failed"}
     /\ auto' = [auto EXCEPT ![s].status = "cancelled"]

\* resumeAutoRuns, retryOwnAutoRun
AutoRestart(s) ==
  /\ auto[s].status \in {"failed", "cancelled"}
  /\ auto' = [auto EXCEPT ![s].status = "active"]
  /\ Fault

AutoStep(s) == AutoRecord(s) \/ AutoStop(s)

-----------------------------------------------------------------------------
\* The round has just been closed: every executable submission has an active or
\* settled run, or none if its request died before registering it.
Init ==
  /\ auto \in [Submissions -> AutoRow]
  /\ \A s \in Submissions :
       \/ s \in Unexecutable /\ auto[s] = [status |-> "skipped", done |-> 0]
       \/ s \notin Unexecutable /\ auto[s] = [status |-> "none", done |-> 0]
       \/ s \notin Unexecutable /\ auto[s] = [status |-> "active", done |-> 0]
  /\ job = [j \in Jobs |-> NoJob]
  /\ item = [j \in Jobs |-> [s \in Submissions |->
               [status |-> "none", trials |-> 0, reused |-> 0]]]
  /\ evaluations = [j \in Jobs |-> [s \in Submissions |-> 0]]
  /\ req = [r \in Requests |-> IdleRequest]
  /\ faults = 0

Advance(r) ==
  \/ \E j \in Jobs : TakeLease(r, j)
  \/ ReadItem(r) \/ ReadAuto(r) \/ Transfer(r) \/ Load(r) \/ Claim(r)
  \/ StartCall(r) \/ EndCall(r) \/ EndWave(r) \/ Commit(r) \/ Finish(r)

Next ==
  \/ \E j \in Jobs : CreateJob(j) \/ CancelJob(j) \/ ResumeJob(j) \/ ExpireLease(j)
  \/ \E r \in Requests : Advance(r) \/ DbError(r) \/ Crash(r)
  \/ \E s \in Submissions : AutoStep(s) /\ UNCHANGED <<job, item, evaluations, req, faults>>
  \/ \E s \in Submissions : AutoRestart(s) /\ UNCHANGED <<job, item, evaluations, req>>

Spec == Init /\ [][Next]_vars

\* A teacher page stays open and polls, requests run to their end and get a slot
\* now and then, the lease of a dead request runs out, and the automatic runs
\* settle (AutoRuns!RunSettles) because the job's requests drive them.
Fairness ==
  /\ \A r \in Requests :
       /\ WF_vars(Advance(r))
       /\ SF_vars(Claim(r) /\ req[r].pc' # "finish")
       /\ SF_vars(EndWave(r))
  /\ \A j \in Jobs : WF_vars(ExpireLease(j) /\ UNCHANGED faults)
  /\ \A s \in Submissions :
       WF_vars(/\ \E j \in Jobs : job[j].status \in Active
               /\ AutoRecord(s) /\ UNCHANGED <<job, item, evaluations, req, faults>>)

FairSpec == Spec /\ Fairness

-----------------------------------------------------------------------------
(* Properties.                                                             *)

\* A submission has one executor: once a job holds results of it or is asking
\* the service about it, its automatic run is over for good (advanceJobItem
\* waits for it, or freezes it before loading its results).
OneExecutor ==
  /\ \A j \in Jobs, s \in Submissions :
       item[j][s].trials > 0 => auto[s].status \notin {"active", "failed", "cancelled"}
  /\ \A r \in Requests :
       req[r].pc \in {"ready", "calling"} =>
         auto[req[r].sub].status \notin {"active", "failed", "cancelled"}

\* What was reused is exactly what the automatic run ended with: no result of
\* it is lost and none arrives behind the job's back.
ReusedAll ==
  \A j \in Jobs, s \in Submissions :
    item[j][s].trials > 0 => item[j][s].reused = Smaller(auto[s].done, TRIALS)

\* A completed job has executed every student's text trials_per_student times,
\* each with its evaluation, except those that cannot be executed; a job with a
\* failed item is shown as failed (the CASE of advanceJevJob).
JobSaysWhatItDid ==
  \A j \in Jobs :
    /\ job[j].status = "completed" =>
         \A s \in Submissions : item[j][s].status =
           IF s \in Unexecutable THEN "skipped" ELSE "completed"
    /\ (\E s \in Submissions : item[j][s].status = "failed") => job[j].status = "failed"
    /\ \A s \in Submissions :
         evaluations[j][s] = IF item[j][s].status = "completed" THEN TRIALS ELSE 0

\* The bar is full exactly when nothing of the job is left to do: a failed
\* student's missing trials keep it open, a skipped one counts as done.
FullBarMeansDone ==
  \A j \in Jobs : job[j].status # "none" =>
    (doneTrials(j) = totalTrials
       <=> \A s \in Submissions : item[j][s].status \in {"completed", "skipped"})

\* Saved trials are never lost or replaced, whatever stale, cancelled or
\* overlapping requests still write (the fencing token of the commit).
SavedTrialsKept ==
  [][\A j \in Jobs, s \in Submissions :
       /\ item'[j][s].trials >= item[j][s].trials
       /\ item[j][s].status \in {"completed", "skipped"} => item'[j][s] = item[j][s]]_vars

\* Every active job completes, fails or is cancelled, although requests die with
\* the lease held and automatic runs come first.
JobSettles ==
  \A j \in Jobs : job[j].status \in Active ~> job[j].status \notin Active

=============================================================================
