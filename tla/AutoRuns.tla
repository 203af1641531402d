------------------------------ MODULE AutoRuns ------------------------------
(***************************************************************************)
(* Automatic grading (lib/jevAuto.ts): saving a maxbox submission          *)
(* registers a run of AUTO_TRIALS trials for its revision, and workers     *)
(* (one per claimed trial, started by any open page) execute the trials    *)
(* under the global slots, while students resubmit and retry and the       *)
(* teacher cancels, resumes and takes runs over.                           *)
(*                                                                         *)
(* One D1 statement or batch is one action; a worker may be overtaken by   *)
(* anybody at every await in between.  Time is abstracted: a lease is live *)
(* or not, a backoff is pending or not, and both end by actions of their   *)
(* own.  That a lease does not end while its holder is in a call is        *)
(* TrialSlots!NoCallOutlivesLease.  The slot lease and the trial lease of  *)
(* a claim carry the same token and end at the same time.                  *)
(***************************************************************************)
EXTENDS Naturals, FiniteSets

CONSTANTS
  Submissions,  \* students' submissions in one round
  MaxRev,       \* bound on the revisions of a submission
  AUTO_TRIALS,  \* trials of a run
  SlotCount,    \* GLOBAL_TRIAL_SLOTS
  Workers,      \* names for the trials in flight at one time
  Tokens,       \* values of crypto.randomUUID()
  NoToken,      \* SQL NULL in lease_token
  MAX_WAVES,    \* AUTO_MAX_FAILED_WAVES
  MaxCalls,     \* bound on the upstream calls of one trial
  MaxEpoch,     \* bound on the epochs of a run
  MaxFaults     \* bound on crashes, database errors and overrun leases

ASSUME SizeAssumption ==
  /\ Submissions # {}
  /\ MaxRev \in Nat \ {0} /\ AUTO_TRIALS \in Nat \ {0}
  /\ SlotCount \in Nat \ {0} /\ MAX_WAVES \in Nat \ {0}
  /\ MaxCalls \in Nat \ {0} /\ MaxEpoch \in Nat /\ MaxFaults \in Nat
ASSUME TokenAssumption == NoToken \notin Tokens

VARIABLES
  open,    \* warmup_rounds.status = 'open'
  rev,     \* warmup_submissions.revision, 0 if there is no row
  run,     \* jev_auto_runs
  trial,   \* jev_auto_trials
  slot,    \* jev_trial_slots
  pc,      \* where each worker is
  claim,   \* the ClaimedTrial object of each worker
  faults   \* faults so far

vars == <<open, rev, run, trial, slot, pc, claim, faults>>
workerVars == <<slot, pc, claim, faults>>

Revisions == 1..MaxRev
Runs == Submissions \X Revisions
Trials == 1..AUTO_TRIALS
Slots == 1..SlotCount

Statuses == {"none", "queued", "running", "completed", "failed", "skipped",
             "cancelled", "superseded", "transferred"}

RunRow == [status : Statuses, epoch : 0..MaxEpoch,
           failures : 0..MAX_WAVES,   \* consecutive_failures
           waiting : BOOLEAN]         \* next_attempt_at is in the future
NewRun(status) == [status |-> status, epoch |-> 0, failures |-> 0, waiting |-> FALSE]
NoRun == NewRun("none")

Lease == [token : Tokens \cup {NoToken}, live : BOOLEAN]
NoLease == [token |-> NoToken, live |-> FALSE]
RunOut(lease) == [token |-> lease.token, live |-> FALSE]

TrialRow == [status : {"none", "pending", "running", "done"},
             lease : Lease, epoch : 0..MaxEpoch]
NoTrial == [status |-> "none", lease |-> NoLease, epoch |-> 0]
\* The epoch of a trial that is not running is never read: it is left at 0.
Pending == [status |-> "pending", lease |-> NoLease, epoch |-> 0]
Done == [status |-> "done", lease |-> NoLease, epoch |-> 0]

\* A worker that has claimed a trial, and the outcomes of settleTrial.
Outcomes == {"done", "retry", "stale"}
Claimed == {"ready", "fenced", "calling"} \cup Outcomes

ClaimRecord == [slot : Slots, token : Tokens \cup {NoToken}, run : Runs,
                index : Trials, epoch : 0..MaxEpoch, calls : 0..MaxCalls]

\* A TrialSlot without a trial.
SlotOnly(s, token) ==
  [slot |-> s, token |-> token, run |-> CHOOSE r \in Runs : TRUE,
   index |-> 1, epoch |-> 0, calls |-> 0]
NoClaim == SlotOnly(1, NoToken)

TypeOK ==
  /\ open \in BOOLEAN
  /\ rev \in [Submissions -> 0..MaxRev]
  /\ run \in [Runs -> RunRow]
  /\ trial \in [Runs -> [Trials -> TrialRow]]
  /\ slot \in [Slots -> Lease]
  /\ pc \in [Workers -> {"idle", "slot", "release"} \cup Claimed]
  /\ claim \in [Workers -> ClaimRecord]
  /\ faults \in 0..MaxFaults

-----------------------------------------------------------------------------
(* Operators of the code.                                                  *)

\* r.submission_version = s.revision
Latest(r) == rev[r[1]] = r[2]

\* The row after status and epoch change together.
Stop(row, status) ==
  [status |-> status, epoch |-> row.epoch + 1, failures |-> row.failures,
   waiting |-> row.waiting]

\* Slip: a run that starts over keeps its epoch.
RequeueSameEpoch(row) ==
  [status |-> "queued", epoch |-> row.epoch, failures |-> 0, waiting |-> FALSE]

\* A new epoch in which the run starts over with a full failure budget.
Requeue(row) ==
  [status |-> "queued", epoch |-> row.epoch + 1, failures |-> 0, waiting |-> FALSE]

\* Bounds the epochs: the step may bump the runs in S.
CanBump(S) == \A r \in S : run[r].epoch < MaxEpoch

MyRun(w) == run[claim[w].run]
MyTrial(w) == trial[claim[w].run][claim[w].index]

\* SLOT_HELD_SQL
SlotHeld(w) == slot[claim[w].slot] = [token |-> claim[w].token, live |-> TRUE]

\* TRIAL_CURRENT_SQL, the fence before every upstream call.
TrialCurrent(w) ==
  /\ MyTrial(w).lease = [token |-> claim[w].token, live |-> TRUE]
  /\ MyTrial(w).epoch = MyRun(w).epoch
  /\ MyRun(w).status \in {"running", "failed"}
  /\ Latest(claim[w].run)
  /\ SlotHeld(w)

\* Slip: a running trial is claimed although its lease is live.
ClaimableWhileLeased(r, i) ==
  /\ run[r].status \in {"queued", "running"}
  /\ ~run[r].waiting /\ Latest(r)
  /\ trial[r][i].status \in {"pending", "running"}

\* Slip: the trial of a dead worker is never claimed again.
ClaimablePending(r, i) ==
  /\ run[r].status \in {"queued", "running"}
  /\ ~run[r].waiting /\ Latest(r)
  /\ trial[r][i].status = "pending"

\* claimAutoTrial's subquery: a trial of r that may be claimed now.
Claimable(r, i) ==
  /\ run[r].status \in {"queued", "running"}
  /\ ~run[r].waiting
  /\ Latest(r)
  /\ \/ trial[r][i].status = "pending"
     \/ /\ trial[r][i].status = "running"
        /\ ~trial[r][i].lease.live \/ trial[r][i].epoch # run[r].epoch

\* Slip: a result is accepted whatever has become of its run.
AcceptsStopped(w) == Latest(claim[w].run)

\* Slip: a result is accepted for an older revision.
AcceptsOldRevision(w) ==
  MyRun(w).status \in {"running", "failed"} /\ MyRun(w).epoch = claim[w].epoch

\* The run, as the update of the trial requires it for a result.
Accepts(w) ==
  /\ MyRun(w).status \in {"running", "failed"} /\ MyRun(w).epoch = claim[w].epoch
  /\ Latest(claim[w].run)

\* The run, as the update that completes it requires it.
Completes(w) ==
  MyRun(w).status \in {"running", "failed"} /\ MyRun(w).epoch = claim[w].epoch

\* Slip: a trial is handed back whoever has it by now.
HandsBackAlways(w) == TRUE

\* A stale trial goes back only if nobody else has taken it.
HandsBack(w) ==
  MyTrial(w).lease.token = claim[w].token /\ MyTrial(w).status = "running"

\* Slip: one wave too many.
GivesUpLate(failures) == failures + 1 > MAX_WAVES

\* The failure after so many is the last one.
GivesUp(failures) == failures + 1 >= MAX_WAVES

UsedTokens ==
  {slot[s].token : s \in Slots}
  \cup {trial[r][i].lease.token : r \in Runs, i \in Trials}
  \cup {claim[w].token : w \in Workers}

\* crypto.randomUUID(): a token that nothing refers to.
FreshToken == CHOOSE tok \in Tokens : tok \notin UsedTokens

SetTrial(r, i, row) == trial' = [trial EXCEPT ![r][i] = row]
GoTo(w, label) == pc' = [pc EXCEPT ![w] = label]

\* The outcome is dealt with; only the slot is left to release.
Settled(w) ==
  /\ GoTo(w, "release")
  /\ claim' = [claim EXCEPT ![w] = SlotOnly(claim[w].slot, claim[w].token)]

Fault == faults < MaxFaults /\ faults' = faults + 1

-----------------------------------------------------------------------------
(* Students and the teacher.                                               *)

\* saveResearchSubmission, which the submit route runs first, stores a changed
\* text as a new revision and knows nothing of runs.
ReviseText(s) ==
  /\ open
  /\ rev[s] < MaxRev
  /\ rev' = [rev EXCEPT ![s] = @ + 1]
  /\ UNCHANGED <<open, run, trial, workerVars>>

\* saveMaxboxSubmission, one batch: changed text is a new revision, the active
\* runs of older revisions are superseded, the latest revision gets a run
\* (skipped if its text cannot be executed) or its failed run is queued again,
\* and a queued run gets its missing trials.
SaveMaxbox(s, changed, executable) ==
  LET latest == IF changed THEN rev[s] + 1 ELSE rev[s]
      older == {r \in Runs : /\ r[1] = s /\ r[2] < latest
                             /\ run[r].status \in {"queued", "running", "failed"}}
      mine == <<s, latest>>
      failed == {r \in {mine} : run[r].status = "failed"}
      registered == IF executable THEN "queued" ELSE "skipped"
  IN  /\ open
      /\ latest \in Revisions
      /\ CanBump(older \cup failed)
      /\ rev' = [rev EXCEPT ![s] = latest]
      /\ run' = [r \in Runs |->
                   IF r \in older THEN Stop(run[r], "superseded")
                   ELSE IF r \in failed THEN Requeue(run[r])
                   ELSE IF r = mine /\ run[r].status = "none"
                     THEN NewRun(registered)
                   ELSE run[r]]
      /\ trial' = [r \in Runs |-> [i \in Trials |->
                     IF /\ r = mine /\ run'[r].status = "queued"
                        /\ trial[r][i].status = "none"
                       THEN Pending ELSE trial[r][i]]]
      /\ UNCHANGED <<open, workerVars>>

\* The teacher closes the round; it never opens again.
CloseRound ==
  /\ open
  /\ open' = FALSE
  /\ UNCHANGED <<rev, run, trial, workerVars>>

\* cancelAutoRuns
CancelRuns ==
  LET S == {r \in Runs : run[r].status \in {"queued", "running", "failed"}}
  IN  /\ S # {} /\ CanBump(S)
      /\ run' = [r \in Runs |-> IF r \in S THEN Stop(run[r], "cancelled") ELSE run[r]]
      /\ UNCHANGED <<open, rev, trial, workerVars>>

\* resumeAutoRuns
ResumeRuns ==
  LET S == {r \in Runs : run[r].status \in {"cancelled", "failed"} /\ Latest(r)}
  IN  /\ S # {} /\ CanBump(S)
      /\ run' = [r \in Runs |-> IF r \in S THEN Requeue(run[r]) ELSE run[r]]
      /\ UNCHANGED <<open, rev, trial, workerVars>>

\* retryOwnAutoRun
RetryOwn(r) ==
  /\ run[r].status = "failed" /\ Latest(r) /\ CanBump({r})
  /\ run' = [run EXCEPT ![r] = Requeue(@)]
  /\ UNCHANGED <<open, rev, trial, workerVars>>

\* transferAutoRun, called by a teacher job; jobs exist for closed rounds only.
TransferRun(r) ==
  /\ ~open
  /\ run[r].status \in {"failed", "cancelled", "superseded"} /\ CanBump({r})
  /\ run' = [run EXCEPT ![r] = Stop(@, "transferred")]
  /\ UNCHANGED <<open, rev, trial, workerVars>>

-----------------------------------------------------------------------------
(* Workers.                                                                *)

\* claimTrialSlot takes the free or expired row with the lowest id.
ClaimSlot(w) ==
  /\ pc[w] = "idle"
  /\ Tokens \ UsedTokens # {}
  /\ \E s \in Slots :
       /\ ~slot[s].live
       /\ \A t \in Slots : ~slot[t].live => s <= t
       /\ slot' = [slot EXCEPT ![s] = [token |-> FreshToken, live |-> TRUE]]
       /\ claim' = [claim EXCEPT ![w] = SlotOnly(s, FreshToken)]
  /\ GoTo(w, "slot")
  /\ UNCHANGED <<open, rev, run, trial, faults>>

\* claimAutoTrial: the first claimable trial of a run that the calling page
\* asks for (a student page for its own run, the teacher page for the round)
\* gets the slot's lease and the run's epoch, and a queued run is running.
ClaimTrial(w, r) ==
  /\ pc[w] = "slot"
  /\ \E i \in Trials :
       /\ Claimable(r, i)
       /\ \A j \in Trials : Claimable(r, j) => i <= j
       /\ SetTrial(r, i, [status |-> "running", epoch |-> run[r].epoch,
                          lease |-> [token |-> claim[w].token, live |-> SlotHeld(w)]])
       /\ claim' = [claim EXCEPT ![w] =
                      [slot |-> claim[w].slot, token |-> claim[w].token,
                       run |-> r, index |-> i, epoch |-> run[r].epoch, calls |-> 0]]
  /\ run' = [run EXCEPT ![r].status = "running"]
  /\ GoTo(w, "ready")
  /\ UNCHANGED <<open, rev, slot, faults>>

\* claimAutoTrial finds nothing the page asks for: the slot goes back.
ClaimNothing(w, r) ==
  /\ pc[w] = "slot"
  /\ \A i \in Trials : ~Claimable(r, i)
  /\ Settled(w)
  /\ UNCHANGED <<open, rev, run, trial, slot, faults>>

\* The guard before a call: past the deadline, which a lease that is over always
\* is, or if the query fails, the trial is to be retried; otherwise the fence
\* says whether it is current.
Fence(w) ==
  /\ pc[w] = "ready"
  /\ \/ GoTo(w, "retry")
     \/ SlotHeld(w) /\ GoTo(w, IF TrialCurrent(w) THEN "fenced" ELSE "stale")
  /\ UNCHANGED <<open, rev, run, trial, slot, claim, faults>>

\* The trial has its result without asking (the mock service never asks).
Conclude(w) ==
  /\ pc[w] = "ready"
  /\ GoTo(w, "done")
  /\ UNCHANGED <<open, rev, run, trial, slot, claim, faults>>

\* The deadline check after the fence, and in the same turn the call.
StartCall(w) ==
  /\ pc[w] = "fenced"
  /\ \/ SlotHeld(w) /\ GoTo(w, "calling")
     \/ GoTo(w, "retry")
  /\ UNCHANGED <<open, rev, run, trial, slot, claim, faults>>

\* The call fails, the trial needs another call, or it has its result.
EndCall(w) ==
  /\ pc[w] = "calling"
  /\ \/ GoTo(w, "retry") /\ UNCHANGED claim
     \/ GoTo(w, "done") /\ UNCHANGED claim
     \/ /\ claim[w].calls < MaxCalls
        /\ claim' = [claim EXCEPT ![w].calls = @ + 1]
        /\ GoTo(w, "ready")
  /\ UNCHANGED <<open, rev, run, trial, slot, faults>>

\* The batch that commits a result and, after the last one, completes the run.
\* "lease_until > now" is read with a time sampled earlier, so a lease that
\* has just run out may still look live (seen).
CommitDone(w) ==
  /\ pc[w] = "done"
  /\ \E seen \in BOOLEAN :
       LET r == claim[w].run
           mine == [token |-> claim[w].token, live |-> TRUE]
           commits == /\ MyTrial(w).lease.token = claim[w].token
                      /\ MyTrial(w).epoch = claim[w].epoch
                      /\ slot[claim[w].slot].token = claim[w].token
                      /\ seen
                      /\ Accepts(w)
       IN  /\ SlotHeld(w) => seen
           /\ IF commits
                THEN SetTrial(r, claim[w].index, Done)
                ELSE UNCHANGED trial
           /\ run' = IF Completes(w) /\ \A i \in Trials : trial'[r][i].status = "done"
                       THEN [run EXCEPT ![r].status = "completed"]
                       ELSE run
  /\ Settled(w)
  /\ UNCHANGED <<open, rev, slot, faults>>

\* The batch after an outage: the first failure of a wave counts and sets the
\* backoff, and the trial is pending again if it is still ours.
CommitRetry(w) ==
  /\ pc[w] = "retry"
  /\ LET r == claim[w].run
         ours == MyTrial(w).lease.token = claim[w].token
         counts == /\ run[r].status = "running" /\ run[r].epoch = claim[w].epoch
                   /\ ours /\ MyTrial(w).epoch = claim[w].epoch
                   /\ ~run[r].waiting
     IN  /\ run' = IF counts
                     THEN [run EXCEPT ![r] =
                             [status |-> IF GivesUp(run[r].failures)
                                           THEN "failed" ELSE "running",
                              epoch |-> run[r].epoch,
                              failures |-> run[r].failures + 1, waiting |-> TRUE]]
                     ELSE run
         /\ IF ours
              THEN SetTrial(r, claim[w].index, Pending)
              ELSE UNCHANGED trial
  /\ Settled(w)
  /\ UNCHANGED <<open, rev, slot, faults>>

\* A trial that did not run is handed back.
HandBack(w) ==
  /\ IF HandsBack(w)
       THEN SetTrial(claim[w].run, claim[w].index, Pending)
       ELSE UNCHANGED trial
  /\ Settled(w)
  /\ UNCHANGED <<open, rev, run, slot>>

ReturnStale(w) == pc[w] = "stale" /\ HandBack(w) /\ UNCHANGED faults

\* releaseUnstarted: claiming for a sibling failed before this trial started.
ReleaseUnstarted(w) ==
  /\ pc[w] = "ready" /\ claim[w].calls = 0
  /\ HandBack(w)
  /\ Fault

\* The commit statement fails: nothing is written, the lease stays.
DbError(w) ==
  /\ pc[w] \in {"slot"} \cup Outcomes
  /\ Settled(w)
  /\ Fault
  /\ UNCHANGED <<open, rev, run, trial, slot>>

\* releaseTrialSlot, in the finally block: only our token clears the row.
Release(w) ==
  /\ pc[w] = "release"
  /\ slot' = IF slot[claim[w].slot].token = claim[w].token
               THEN [slot EXCEPT ![claim[w].slot] = NoLease]
               ELSE slot
  /\ claim' = [claim EXCEPT ![w] = NoClaim]
  /\ GoTo(w, "idle")
  /\ UNCHANGED <<open, rev, run, trial, faults>>

\* The isolate dies at an await; its rows stay leased.
Crash(w) ==
  /\ pc[w] # "idle"
  /\ claim' = [claim EXCEPT ![w] = NoClaim]
  /\ GoTo(w, "idle")
  /\ Fault
  /\ UNCHANGED <<open, rev, run, trial, slot>>

-----------------------------------------------------------------------------
(* Time.                                                                   *)

\* The rows leased under a token, and the worker that holds it, if it lives.
LeasedSlots(tok) == {s \in Slots : slot[s] = [token |-> tok, live |-> TRUE]}
LeasedTrials(tok) ==
  {x \in Runs \X Trials : trial[x[1]][x[2]].lease = [token |-> tok, live |-> TRUE]}
Holders(tok) == {w \in Workers : pc[w] # "idle" /\ claim[w].token = tok}

\* A lease runs out, never during a call of its holder.  That a holder which is
\* still alive overruns it is a fault.
Expire(tok) ==
  /\ LeasedSlots(tok) # {} \/ LeasedTrials(tok) # {}
  /\ \A w \in Holders(tok) : pc[w] # "calling"
  /\ IF Holders(tok) = {} THEN UNCHANGED faults ELSE Fault
  /\ slot' = [s \in Slots |-> IF s \in LeasedSlots(tok)
                                THEN RunOut(slot[s]) ELSE slot[s]]
  /\ trial' = [r \in Runs |-> [i \in Trials |->
                 IF <<r, i>> \in LeasedTrials(tok)
                   THEN [trial[r][i] EXCEPT !.lease = RunOut(@)] ELSE trial[r][i]]]
  /\ UNCHANGED <<open, rev, run, pc, claim>>

\* next_attempt_at is reached (it is read only while the run is active).
BackoffEnds(r) ==
  /\ run[r].waiting /\ run[r].status \in {"queued", "running"}
  /\ run' = [run EXCEPT ![r].waiting = FALSE]
  /\ UNCHANGED <<open, rev, trial, workerVars>>

-----------------------------------------------------------------------------
Init ==
  /\ open = TRUE
  /\ rev = [s \in Submissions |-> 0]
  /\ run = [r \in Runs |-> NoRun]
  /\ trial = [r \in Runs |-> [i \in Trials |-> NoTrial]]
  /\ slot = [s \in Slots |-> NoLease]
  /\ pc = [w \in Workers |-> "idle"]
  /\ claim = [w \in Workers |-> NoClaim]
  /\ faults = 0

Work(w) ==
  \/ ClaimSlot(w)
  \/ \E r \in Runs : ClaimTrial(w, r) \/ ClaimNothing(w, r)
  \/ Fence(w) \/ Conclude(w) \/ StartCall(w) \/ EndCall(w)
  \/ CommitDone(w) \/ CommitRetry(w) \/ ReturnStale(w)
  \/ Release(w)

Fail(w) == ReleaseUnstarted(w) \/ DbError(w) \/ Crash(w)

Operate ==
  \/ \E s \in Submissions : ReviseText(s)
  \/ \E s \in Submissions, changed, executable \in BOOLEAN :
       SaveMaxbox(s, changed, executable)
  \/ CloseRound \/ CancelRuns \/ ResumeRuns
  \/ \E r \in Runs : RetryOwn(r) \/ TransferRun(r)

Time ==
  \/ \E tok \in Tokens : Expire(tok)
  \/ \E r \in Runs : BackoffEnds(r)

Next == Operate \/ Time \/ \E w \in Workers : Work(w) \/ Fail(w)

Spec == Init /\ [][Next]_vars

\* What a run that is asked for gets: somebody keeps calling advanceAutoRuns for
\* it (a teacher's job that waits for the run, or a page), the requests run to
\* their end, abandoned leases run out and backoffs end.  Settles assumes it only
\* while somebody asks.
Fairness ==
  /\ \A w \in Workers : WF_vars(Work(w))
  /\ \A r \in Runs : SF_vars(\E w \in Workers : ClaimTrial(w, r))
  /\ \A tok \in Tokens : WF_vars(Holders(tok) = {} /\ Expire(tok))
  /\ \A r \in Runs : WF_vars(BackoffEnds(r))

FairSpec == Spec /\ Fairness

-----------------------------------------------------------------------------
(* Properties.                                                             *)

Calling == {w \in Workers : pc[w] = "calling"}

\* The same trial is never paid for twice at the same time: two calls for one
\* trial overlap only if the teacher or the student restarted the run between
\* the two claims (claimAutoTrial's lease and epoch conditions).
NoDoublePay ==
  \A v, w \in Calling :
    /\ v # w
    /\ claim[v].run = claim[w].run
    /\ claim[v].index = claim[w].index
    => claim[v].epoch # claim[w].epoch

\* A run is completed exactly when its last result is in: no run waits forever
\* with nothing left to claim, and none is shown complete with a trial missing.
CompletedIffAllDone ==
  \A r \in Runs :
    run[r].status \in {"queued", "running", "failed", "completed"} =>
      (run[r].status = "completed" <=> \A i \in Trials : trial[r][i].status = "done")

\* A claim that was fenced out (run cancelled, restarted, superseded or taken
\* over, trial or slot reclaimed) never becomes current again, whatever the
\* student, the teacher or other workers do next.
StoppedStaysStopped ==
  [][\A w \in Workers :
       /\ pc[w] \in Claimed /\ pc'[w] \in Claimed
       /\ ~TrialCurrent(w)
       => ~TrialCurrent(w)']_vars

\* Every run that grading may work on settles: it completes, fails after
\* MAX_WAVES failed waves, or is stopped, as long as faults are finite.
RunSettles ==
  \A r \in Runs :
    run[r].status \in {"queued", "running"} /\ Latest(r)
      ~> run[r].status \notin {"queued", "running"} \/ ~Latest(r)

\* The statuses of the code as phases of the ledger.
PhaseOf(status) ==
  CASE status = "none" -> "absent"
    [] status \in {"queued", "running", "failed"} -> "open"
    [] status = "cancelled" -> "paused"
    [] status = "superseded" -> "retired"
    [] OTHER -> "closed"

Phase == [r \in Runs |-> PhaseOf(run[r].status)]

Results == [r \in Runs |-> {i \in Trials : trial[r][i].status = "done"}]

Ledger == INSTANCE RunLedger WITH latest <- rev, phase <- Phase, results <- Results

\* Automatic grading implements the ledger: one result per trial, only for the
\* latest revision and while the run is open; superseded, completed and
\* transferred runs are final.
ImplementsLedger == Ledger!Spec

=============================================================================
