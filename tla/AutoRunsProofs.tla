--------------------------- MODULE AutoRunsProofs ---------------------------
(***************************************************************************)
(* Proofs about AutoRuns for any number of submissions, revisions, trials, *)
(* slots and workers, and any budget of faults, epochs and failed waves.   *)
(*                                                                         *)
(* NextCases reduces the steps to eight kinds; for each of them a lemma    *)
(* shows that the invariant IInv survives.  The theorems follow from IInv. *)
(***************************************************************************)
EXTENDS AutoRuns, TLAPS

\* An active run has not used up its failed waves.
Budget ==
  \A r \in Runs : run[r].status \in {"none", "queued", "running"} => run[r].failures < MAX_WAVES

\* Only a running trial is leased.
LeasedIsRunning ==
  \A r \in Runs, i \in Trials :
    trial[r][i].status # "running" => trial[r][i].lease = NoLease

\* A run that may still be worked on has a trial without a result, a completed
\* one has none.
Unfinished ==
  \A r \in Runs :
    /\ run[r].status \in {"none", "queued", "running", "failed", "cancelled"} =>
         \E i \in Trials : trial[r][i].status # "done"
    /\ run[r].status = "completed" => \A i \in Trials : trial[r][i].status = "done"

\* A run that is not registered has no trials.
Unregistered ==
  \A r \in Runs : run[r].status = "none" =>
    run[r] = NoRun /\ \A i \in Trials : trial[r][i] = NoTrial

\* A worker has a token of its own from its slot claim until it is idle again.
OwnTokens ==
  /\ \A w \in Workers : pc[w] = "idle" <=> claim[w].token = NoToken
  /\ \A v, w \in Workers :
       pc[v] # "idle" /\ pc[w] # "idle" /\ claim[v].token = claim[w].token => v = w

\* A worker that has not heard of an outcome yet.
Working == {"ready", "fenced", "calling"}

\* Trials are never ahead of their run, a trial in progress in the current epoch
\* has put its run in progress, and runs are of saved revisions.
TrialEpochs ==
  /\ \A r \in Runs, i \in Trials :
       /\ trial[r][i].epoch <= run[r].epoch
       /\ trial[r][i].status = "running" /\ run[r].status = "queued"
            => trial[r][i].epoch < run[r].epoch
  /\ \A r \in Runs : run[r].status # "none" => r[2] <= rev[r[1]]

\* What the run and trial tables keep.
TableInv == Budget /\ LeasedIsRunning /\ Unregistered /\ Unfinished /\ TrialEpochs

\* A claim is of a registered run and never ahead of it.
ClaimEpochs ==
  \A w \in Workers : pc[w] \in Claimed =>
    claim[w].epoch <= MyRun(w).epoch /\ MyRun(w).status # "none"

\* While a worker's leases are live its trial is its own, unless its run has
\* entered a new epoch.
Kept ==
  \A w \in Workers :
    pc[w] \in Working /\ SlotHeld(w) =>
      \/ claim[w].epoch < MyRun(w).epoch
      \/ MyTrial(w) = [status |-> "running", epoch |-> claim[w].epoch,
                       lease |-> [token |-> claim[w].token, live |-> TRUE]]

\* Two workers whose leases are live have the same trial only in two epochs.
OneClaimPerEpoch ==
  \A v, w \in Workers :
    /\ v # w
    /\ pc[v] \in Working /\ SlotHeld(v) /\ pc[w] \in Working /\ SlotHeld(w)
    /\ claim[v].run = claim[w].run /\ claim[v].index = claim[w].index
    => claim[v].epoch # claim[w].epoch

\* A lease does not run out during a call.
CallsHeld == \A w \in Calling : SlotHeld(w)

\* What the workers keep among themselves.
WorkerInv == OwnTokens /\ ClaimEpochs /\ Kept /\ OneClaimPerEpoch /\ CallsHeld

IInv == TypeOK /\ TableInv /\ WorkerInv

-----------------------------------------------------------------------------

\* The rows that the actions write are rows of their tables.
LEMMA Constants ==
  /\ NoClaim \in ClaimRecord /\ NoLease \in Lease
  /\ Pending \in TrialRow /\ Done \in TrialRow /\ NoTrial \in TrialRow /\ NoRun \in RunRow
  /\ 1 \in Trials
  <1>1. 1 \in Revisions /\ 1 \in Slots /\ 1 \in Trials
    BY SizeAssumption DEF Revisions, Slots, Trials
  <1>2. PICK s \in Submissions : TRUE
    BY SizeAssumption
  <1>3. (CHOOSE r \in Runs : TRUE) \in Runs
    <2>1. <<s, 1>> \in Runs
      BY <1>1, <1>2 DEF Runs
    <2>2. QED
      BY <2>1
  <1>4. QED
    BY <1>1, <1>3, SizeAssumption DEF NoClaim, SlotOnly, ClaimRecord, NoLease, Lease, Pending, Done, NoTrial, NoRun, NewRun,
       TrialRow, RunRow, Statuses

\* A new token is in no row and in no claim.
LEMMA FreshTokenIsFresh ==
  ASSUME Tokens \ UsedTokens # {}
  PROVE  /\ FreshToken \in Tokens
         /\ \A s \in Slots : slot[s].token # FreshToken
         /\ \A r \in Runs, i \in Trials : trial[r][i].lease.token # FreshToken
         /\ \A w \in Workers : claim[w].token # FreshToken
  <1>1. FreshToken \in Tokens /\ FreshToken \notin UsedTokens
    BY DEF FreshToken
  <1>2. QED
    BY <1>1 DEF UsedTokens

\* SetTrial writes one row of the table.
LEMMA SetTrialRow ==
  ASSUME TypeOK, NEW r \in Runs, NEW i \in Trials, NEW row \in TrialRow, SetTrial(r, i, row)
  PROVE  /\ trial' \in [Runs -> [Trials -> TrialRow]]
         /\ \A q \in Runs, j \in Trials :
              trial'[q][j] = IF q = r /\ j = i THEN row ELSE trial[q][j]
  BY DEF SetTrial, TypeOK

-----------------------------------------------------------------------------
(* What the students and the teacher do to the tables.                     *)

\* What becomes of one run in one of their steps.
Moved(r) ==
  \/ run'[r] = run[r]
  \/ /\ run[r].epoch < MaxEpoch
     /\ \/ /\ run[r].status \in {"queued", "running", "failed"}
           /\ run'[r] = Stop(run[r], "cancelled")
        \/ /\ run[r].status \in {"queued", "running", "failed"}
           /\ run'[r] = Stop(run[r], "superseded")
        \/ /\ run[r].status \in {"failed", "cancelled", "superseded"}
           /\ run'[r] = Stop(run[r], "transferred")
        \/ /\ run[r].status \in {"failed", "cancelled"}
           /\ run'[r] = Requeue(run[r])
  \/ /\ run[r].status = "none" /\ r[2] = rev'[r[1]]
     /\ run'[r] \in {NewRun("queued"), NewRun("skipped")}

\* A step of theirs moves runs, raises revisions and adds missing trials.
Operated ==
  /\ rev' \in [Submissions -> 0..MaxRev]
  /\ \A s \in Submissions : rev'[s] \in {rev[s], rev[s] + 1}
  /\ run' \in [Runs -> RunRow]
  /\ \A r \in Runs : Moved(r)
  /\ trial' \in [Runs -> [Trials -> TrialRow]]
  /\ \A r \in Runs, i \in Trials :
       \/ trial'[r][i] = trial[r][i]
       \/ /\ trial[r][i].status = "none" /\ trial'[r][i] = Pending
          /\ run'[r].status = "queued"
  /\ open' \in BOOLEAN
  /\ UNCHANGED workerVars

\* A run that may start another epoch can be stopped or queued again.
LEMMA MovedRows ==
  ASSUME NEW row \in RunRow, row.epoch < MaxEpoch
  PROVE  /\ \A st \in Statuses : Stop(row, st) \in RunRow
         /\ Stop(row, "cancelled") \in RunRow /\ Stop(row, "superseded") \in RunRow
         /\ Stop(row, "transferred") \in RunRow
         /\ Requeue(row) \in RunRow
  BY SizeAssumption DEF Stop, Requeue, RunRow, Statuses

LEMMA SaveMaxboxOperates ==
  ASSUME TypeOK, NEW s \in Submissions, NEW changed \in BOOLEAN, NEW executable \in BOOLEAN,
         SaveMaxbox(s, changed, executable)
  PROVE  Operated
  <1> USE DEF TypeOK
  <1> DEFINE latest == IF changed THEN rev[s] + 1 ELSE rev[s]
             older == {r \in Runs : /\ r[1] = s /\ r[2] < latest
                                    /\ run[r].status \in {"queued", "running", "failed"}}
             mine == <<s, latest>>
             failed == {r \in {mine} : run[r].status = "failed"}
             registered == IF executable THEN "queued" ELSE "skipped"
             row(r) == IF r \in older THEN Stop(run[r], "superseded")
                       ELSE IF r \in failed THEN Requeue(run[r])
                       ELSE IF r = mine /\ run[r].status = "none"
                         THEN NewRun(registered)
                       ELSE run[r]
  <1>1. /\ latest \in Revisions /\ CanBump(older \cup failed)
        /\ rev' = [rev EXCEPT ![s] = latest]
        /\ run' = [r \in Runs |-> row(r)]
        /\ trial' = [r \in Runs |-> [i \in Trials |->
                       IF /\ r = mine /\ run'[r].status = "queued"
                          /\ trial[r][i].status = "none"
                         THEN Pending ELSE trial[r][i]]]
        /\ open /\ UNCHANGED <<open, workerVars>>
    BY DEF SaveMaxbox
  <1>2. /\ rev' \in [Submissions -> 0..MaxRev]
        /\ \A t \in Submissions : rev'[t] \in {rev[t], rev[t] + 1}
        /\ rev'[s] = latest
    BY <1>1, SizeAssumption DEF Revisions
  <1>3. ASSUME NEW r \in Runs
        PROVE  run'[r] \in RunRow /\ Moved(r)
    <2>1. run'[r] = row(r)
      BY <1>1
    <2>a. run[r] \in RunRow
      OBVIOUS
    <2>2. CASE r \in older
      <3>1. /\ run'[r] = Stop(run[r], "superseded") /\ run[r].epoch < MaxEpoch
            /\ run[r].status \in {"queued", "running", "failed"}
        BY <2>1, <2>2, <1>1 DEF CanBump
      <3>2. QED
        BY <3>1, <2>a, MovedRows DEF Moved
    <2>3. CASE r \notin older /\ r \in failed
      <3>1. /\ run'[r] = Requeue(run[r]) /\ run[r].epoch < MaxEpoch
            /\ run[r].status = "failed"
        BY <2>1, <2>3, <1>1 DEF CanBump
      <3>2. QED
        BY <3>1, <2>a, MovedRows DEF Moved
    <2>4. CASE r \notin older /\ r \notin failed /\ r = mine /\ run[r].status = "none"
      <3>1. r[1] = s /\ r[2] = rev'[s]
        BY <2>4, <1>2
      <3>2. run'[r] = NewRun(registered)
        BY <2>1, <2>4
      <3>3. registered \in {"queued", "skipped"}
        OBVIOUS
      <3>4. \A st \in {"queued", "skipped"} : NewRun(st) \in RunRow
        BY SizeAssumption DEF NewRun, RunRow, Statuses
      <3>5. run'[r] \in {NewRun("queued"), NewRun("skipped")} /\ run'[r] \in RunRow
        BY <3>2, <3>3, <3>4
      <3>6. QED
        BY <3>1, <3>5, <2>4 DEF Moved
    <2>5. CASE r \notin older /\ r \notin failed /\ ~(r = mine /\ run[r].status = "none")
      BY <2>1, <2>5 DEF Moved
    <2>6. QED
      BY <2>2, <2>3, <2>4, <2>5
  <1>4. run' \in [Runs -> RunRow]
    BY <1>1, <1>3
  <1>5. ASSUME NEW r \in Runs, NEW i \in Trials
        PROVE  /\ trial'[r][i] \in TrialRow
               /\ \/ trial'[r][i] = trial[r][i]
                  \/ /\ trial[r][i].status = "none" /\ trial'[r][i] = Pending
                     /\ run'[r].status = "queued"
    <2>1. trial'[r][i] = IF /\ r = mine /\ run'[r].status = "queued"
                            /\ trial[r][i].status = "none"
                           THEN Pending ELSE trial[r][i]
      BY <1>1
    <2>2. trial[r][i] \in TrialRow /\ Pending \in TrialRow
      BY Constants
    <2>3. QED
      BY <2>1, <2>2
  <1>6. trial' \in [Runs -> [Trials -> TrialRow]]
    <2>1. trial' = [r \in Runs |-> [i \in Trials |-> trial'[r][i]]]
      BY <1>1
    <2>2. QED
      BY <2>1, <1>5
  <1>7. QED
    BY <1>1, <1>2, <1>3, <1>4, <1>5, <1>6 DEF Operated

\* Every step of the students and the teacher is of that form.
LEMMA OperateOperates ==
  ASSUME TypeOK, Operate
  PROVE  Operated
  <1> USE DEF TypeOK, Operated
  <1>1. \A r \in Runs : run[r] \in RunRow
    OBVIOUS
  <1>2. ASSUME NEW s \in Submissions, ReviseText(s)
        PROVE  Operated
    BY <1>2, SizeAssumption DEF ReviseText, Moved, workerVars
  <1>3. ASSUME NEW s \in Submissions, NEW changed \in BOOLEAN, NEW executable \in BOOLEAN,
               SaveMaxbox(s, changed, executable)
        PROVE  Operated
    BY <1>3, SaveMaxboxOperates
  <1>4. CASE CloseRound
    BY <1>4 DEF CloseRound, Moved, workerVars
  <1>5. CASE CancelRuns
    <2>1. \A r \in Runs : run'[r] \in RunRow /\ Moved(r)
      BY <1>5, <1>1, MovedRows DEF CancelRuns, CanBump, Moved
    <2>2. QED
      BY <1>5, <2>1 DEF CancelRuns, workerVars
  <1>6. CASE ResumeRuns
    <2>1. \A r \in Runs : run'[r] \in RunRow /\ Moved(r)
      BY <1>6, <1>1, MovedRows DEF ResumeRuns, CanBump, Moved
    <2>2. QED
      BY <1>6, <2>1 DEF ResumeRuns, workerVars
  <1>7. ASSUME NEW r \in Runs, RetryOwn(r)
        PROVE  Operated
    <2>1. \A q \in Runs : run'[q] \in RunRow /\ Moved(q)
      BY <1>7, <1>1, MovedRows DEF RetryOwn, CanBump, Moved
    <2>2. QED
      BY <1>7, <2>1 DEF RetryOwn, workerVars
  <1>8. ASSUME NEW r \in Runs, TransferRun(r)
        PROVE  Operated
    <2>1. \A q \in Runs : run'[q] \in RunRow /\ Moved(q)
      BY <1>8, <1>1, MovedRows DEF TransferRun, CanBump, Moved
    <2>2. QED
      BY <1>8, <2>1 DEF TransferRun, workerVars
  <1>9. QED
    BY <1>2, <1>3, <1>4, <1>5, <1>6, <1>7, <1>8 DEF Operate

\* What the tables hold, row by row.
LEMMA Shapes ==
  ASSUME TypeOK
  PROVE  /\ \A r \in Runs : run[r] \in RunRow
         /\ \A r \in Runs, i \in Trials : trial[r][i] \in TrialRow
         /\ \A w \in Workers : /\ claim[w] \in ClaimRecord
                               /\ claim[w].run \in Runs /\ claim[w].index \in Trials
                               /\ claim[w].slot \in Slots
                               /\ MyRun(w) \in RunRow /\ MyTrial(w) \in TrialRow
  BY DEF TypeOK, ClaimRecord, MyRun, MyTrial

\* The invariant survives whatever the students and the teacher do.
LEMMA OperateKeeps ==
  ASSUME IInv, Operated
  PROVE  IInv'
  <1> USE DEF IInv, TableInv, WorkerInv
  <1>1. TypeOK'
    BY DEF TypeOK, Operated, workerVars
  <1>2. /\ \A r \in Runs : run[r] \in RunRow
        /\ \A r \in Runs, i \in Trials : trial[r][i] \in TrialRow
        /\ \A w \in Workers : claim[w].run \in Runs /\ claim[w].index \in Trials
    BY Shapes
  <1>3. ASSUME NEW r \in Runs
        PROVE  /\ run[r].epoch <= run'[r].epoch
               /\ run[r].status # "none" => run'[r].status # "none"
               /\ run'[r].status \in {"none", "running"} => run'[r] = run[r]
    BY <1>2, SizeAssumption DEF Operated, Moved, Stop, Requeue, NewRun, RunRow, Unregistered, NoRun
  <1>4. Budget'
    <2> SUFFICES ASSUME NEW r \in Runs, run'[r].status \in {"none", "queued", "running"}
                 PROVE  run'[r].failures < MAX_WAVES
      BY DEF Budget
    <2>1. run'[r] = run[r] \/ run'[r].failures = 0
      BY DEF Operated, Moved, Stop, Requeue, NewRun
    <2>2. QED
      BY <2>1, SizeAssumption DEF Budget
  <1>5. OwnTokens'
    BY DEF OwnTokens, Operated, workerVars
  <1>6. LeasedIsRunning'
    BY DEF LeasedIsRunning, Operated, Pending
  <1>7. Unregistered'
    <2> SUFFICES ASSUME NEW r \in Runs, run'[r].status = "none"
                 PROVE  run'[r] = NoRun /\ \A i \in Trials : trial'[r][i] = NoTrial
      BY DEF Unregistered, NoRun, NewRun, NoTrial
    <2>1. run'[r] = run[r]
      BY <1>3
    <2>2. \A i \in Trials : trial'[r][i] = trial[r][i]
      BY DEF Operated
    <2>3. QED
      BY <2>1, <2>2 DEF Unregistered
  <1>8. Unfinished'
    <2> SUFFICES ASSUME NEW r \in Runs
                 PROVE  /\ run'[r].status \in {"none", "queued", "running", "failed", "cancelled"} =>
                             \E i \in Trials : trial'[r][i].status # "done"
                        /\ run'[r].status = "completed" =>
                             \A i \in Trials : trial'[r][i].status = "done"
      BY DEF Unfinished
    <2>1. \A i \in Trials : trial[r][i].status # "done" => trial'[r][i].status # "done"
      BY DEF Operated, Pending
    <2>2. run'[r].status \in {"none", "queued", "running", "failed", "cancelled"} =>
            run[r].status \in {"none", "queued", "running", "failed", "cancelled"}
      BY <1>2 DEF Operated, Moved, Stop, Requeue, NewRun, RunRow
    <2>3. run'[r].status = "completed" => run'[r] = run[r]
      BY <1>2 DEF Operated, Moved, Stop, Requeue, NewRun, RunRow
    <2>4. run'[r].status = "completed" => \A i \in Trials : trial'[r][i] = trial[r][i]
      BY <2>3 DEF Operated
    <2>5. QED
      BY <2>1, <2>2, <2>3, <2>4 DEF Unfinished
  <1>9. ClaimEpochs' /\ TrialEpochs'
    <2>1. ASSUME NEW w \in Workers, pc'[w] \in Claimed
          PROVE  claim'[w].epoch <= MyRun(w)'.epoch /\ MyRun(w)'.status # "none"
      <3>1. claim'[w] = claim[w] /\ pc'[w] = pc[w]
        BY DEF Operated, workerVars
      <3>2. claim[w].epoch <= run[claim[w].run].epoch /\ run[claim[w].run].status # "none"
        BY <2>1, <3>1 DEF ClaimEpochs, MyRun
      <3>3. claim[w].epoch \in Nat /\ run[claim[w].run].epoch \in Nat
            /\ run'[claim[w].run].epoch \in Nat
        BY <1>1, <1>2, SizeAssumption DEF TypeOK, RunRow, ClaimRecord
      <3>4. QED
        BY <3>1, <3>2, <3>3, <1>2, <1>3 DEF MyRun
    <2>2. ASSUME NEW r \in Runs, NEW i \in Trials
          PROVE  /\ trial'[r][i].epoch <= run'[r].epoch
                 /\ trial'[r][i].status = "running" /\ run'[r].status = "queued"
                      => trial'[r][i].epoch < run'[r].epoch
      <3>1. /\ trial[r][i].epoch \in Nat /\ run[r].epoch \in Nat /\ run'[r].epoch \in Nat
            /\ 0 <= run'[r].epoch
        BY <1>1, <1>2, SizeAssumption DEF TypeOK, RunRow, TrialRow
      <3>2. CASE trial'[r][i] = Pending
        BY <3>1, <3>2 DEF Pending
      <3>3. CASE trial'[r][i] = trial[r][i]
        <4>1. trial[r][i].epoch <= run[r].epoch
          BY DEF TrialEpochs
        <4>2. trial[r][i].epoch <= run'[r].epoch
          BY <4>1, <3>1, <1>3
        <4>3. trial[r][i].status = "running" /\ run'[r].status = "queued" =>
                \/ run'[r] = run[r]
                \/ run'[r].epoch = run[r].epoch + 1
          BY DEF Operated, Moved, Stop, Requeue, NewRun, Unregistered, NoTrial
        <4>4. QED
          BY <4>1, <4>2, <4>3, <3>1, <3>3 DEF TrialEpochs
      <3>4. QED
        BY <3>2, <3>3 DEF Operated
    <2>3. ASSUME NEW r \in Runs, run'[r].status # "none"
          PROVE  r[2] <= rev'[r[1]]
      <3>1. r[1] \in Submissions /\ r[2] \in Nat
        BY DEF Runs, Revisions
      <3>2. rev[r[1]] \in Nat /\ rev'[r[1]] \in {rev[r[1]], rev[r[1]] + 1}
        BY <3>1, SizeAssumption DEF Operated, TypeOK
      <3>3. run[r].status # "none" \/ r[2] = rev'[r[1]]
        BY <2>3 DEF Operated, Moved, Stop, Requeue
      <3>4. QED
        BY <3>1, <3>2, <3>3 DEF TrialEpochs
    <2>4. QED
      BY <2>1, <2>2, <2>3 DEF ClaimEpochs, TrialEpochs
  <1>10. Kept'
    <2> SUFFICES ASSUME NEW w \in Workers, (pc[w] \in Working)', SlotHeld(w)'
                 PROVE  \/ (claim[w].epoch < MyRun(w).epoch)'
                        \/ (MyTrial(w) = [status |-> "running", epoch |-> claim[w].epoch,
                              lease |-> [token |-> claim[w].token, live |-> TRUE]])'
      BY DEF Kept
    <2>1. /\ claim'[w] = claim[w] /\ pc[w] \in Working /\ SlotHeld(w)
      BY DEF Operated, workerVars, SlotHeld
    <2>2. CASE claim[w].epoch < MyRun(w).epoch
      <3>1. claim[w].epoch \in Nat /\ run[claim[w].run].epoch \in Nat
            /\ run'[claim[w].run].epoch \in Nat
        BY <1>1, <1>2, SizeAssumption DEF TypeOK, RunRow, ClaimRecord
      <3>2. QED
        BY <2>1, <2>2, <3>1, <1>2, <1>3 DEF MyRun
    <2>3. CASE MyTrial(w) = [status |-> "running", epoch |-> claim[w].epoch,
                             lease |-> [token |-> claim[w].token, live |-> TRUE]]
      <3>1. trial'[claim[w].run][claim[w].index] = trial[claim[w].run][claim[w].index]
        BY <2>3, <1>2 DEF MyTrial, Operated
      <3>2. QED
        BY <2>1, <2>3, <3>1 DEF MyTrial
    <2>4. QED
      BY <2>1, <2>2, <2>3 DEF Kept
  <1>11. OneClaimPerEpoch'
    BY DEF OneClaimPerEpoch, Operated, workerVars, SlotHeld
  <1>12. CallsHeld'
    BY DEF CallsHeld, Calling, Operated, workerVars, SlotHeld
  <1>13. QED
    BY <1>1, <1>4, <1>5, <1>6, <1>7, <1>8, <1>9, <1>10, <1>11, <1>12

-----------------------------------------------------------------------------
(* What the workers do.                                                    *)

\* A step that writes no run and no trial keeps what the tables keep.
LEMMA TablesAlone ==
  ASSUME IInv, UNCHANGED <<rev, run, trial>>
  PROVE  TableInv'
  BY DEF IInv, TableInv, Budget, LeasedIsRunning, Unregistered, Unfinished, TrialEpochs,
         NoRun, NewRun, NoTrial, NoLease

\* A worker moves from one await of its trial to the next.
Stepped(w) ==
  /\ UNCHANGED <<open, rev, run, trial, slot, faults>>
  /\ pc[w] \in Working
  /\ \E label \in Working \cup Outcomes :
       GoTo(w, label) /\ (label = "calling" => SlotHeld(w))
  /\ claim' \in [Workers -> ClaimRecord]
  /\ \A v \in Workers :
       /\ claim'[v].slot = claim[v].slot /\ claim'[v].token = claim[v].token
       /\ claim'[v].run = claim[v].run /\ claim'[v].index = claim[v].index
       /\ claim'[v].epoch = claim[v].epoch

\* The steps between a claim and its outcome are of that form.
LEMMA WorkSteps ==
  ASSUME TypeOK, NEW w \in Workers, Fence(w) \/ Conclude(w) \/ StartCall(w) \/ EndCall(w)
  PROVE  Stepped(w)
  <1>1. CASE UNCHANGED claim
    BY <1>1 DEF TypeOK, Fence, Conclude, StartCall, EndCall, Stepped, Working, Outcomes
  <1>2. CASE EndCall(w) /\ claim[w].calls < MaxCalls
             /\ claim' = [claim EXCEPT ![w].calls = @ + 1] /\ GoTo(w, "ready")
    <2>1. claim \in [Workers -> ClaimRecord]
      BY DEF TypeOK
    <2>2. claim[w].calls + 1 \in 0..MaxCalls
      BY <1>2, <2>1, SizeAssumption DEF ClaimRecord
    <2>3. \A v \in Workers : v # w => claim'[v] = claim[v]
      BY <1>2, <2>1
    <2>4. claim'[w] = [claim[w] EXCEPT !.calls = @ + 1]
      BY <1>2, <2>1
    <2>5. claim'[w] \in ClaimRecord
      BY <2>1, <2>2, <2>4 DEF ClaimRecord
    <2>6. /\ claim'[w].slot = claim[w].slot /\ claim'[w].token = claim[w].token
          /\ claim'[w].run = claim[w].run /\ claim'[w].index = claim[w].index
          /\ claim'[w].epoch = claim[w].epoch
      BY <2>1, <2>4 DEF ClaimRecord
    <2>7. claim' \in [Workers -> ClaimRecord]
      BY <1>2, <2>1, <2>3, <2>5
    <2>8. QED
      BY <1>2, <2>3, <2>6, <2>7 DEF EndCall, Stepped, Working
  <1>3. QED
    BY <1>1, <1>2 DEF Fence, Conclude, StartCall, EndCall

\* The invariant survives a call, its fence and its end.
LEMMA StepKeeps ==
  ASSUME IInv, NEW w \in Workers, Stepped(w)
  PROVE  IInv'
  <1> USE DEF IInv
  <1>1. TypeOK'
    BY DEF TypeOK, Stepped, GoTo, Working, Claimed, Outcomes
  <1>2. TableInv'
    BY TablesAlone DEF Stepped
  <1>3. pc \in [Workers -> {"idle", "slot", "release"} \cup Claimed]
    BY DEF TypeOK
  <1>4. ASSUME NEW v \in Workers
        PROVE  /\ pc'[v] \in Working => pc[v] \in Working
               /\ pc'[v] \in Claimed => pc[v] \in Claimed
               /\ pc'[v] = "idle" <=> pc[v] = "idle"
               /\ pc'[v] = "calling" => pc[v] = "calling" \/ SlotHeld(v)
    BY <1>3 DEF Stepped, GoTo, Working, Claimed, Outcomes
  <1>5. ASSUME NEW v \in Workers
        PROVE  /\ SlotHeld(v)' <=> SlotHeld(v)
               /\ MyRun(v)' = MyRun(v) /\ MyTrial(v)' = MyTrial(v)
               /\ claim'[v].token = claim[v].token /\ claim'[v].epoch = claim[v].epoch
               /\ claim'[v].run = claim[v].run /\ claim'[v].index = claim[v].index
    BY DEF Stepped, SlotHeld, MyRun, MyTrial
  <1>6. OwnTokens'
    BY <1>4, <1>5 DEF WorkerInv, OwnTokens
  <1>7. ClaimEpochs'
    BY <1>4, <1>5 DEF WorkerInv, ClaimEpochs
  <1>8. Kept'
    BY <1>4, <1>5 DEF WorkerInv, Kept
  <1>9. OneClaimPerEpoch'
    BY <1>4, <1>5 DEF WorkerInv, OneClaimPerEpoch
  <1>10. CallsHeld'
    BY <1>4, <1>5 DEF WorkerInv, CallsHeld, Calling
  <1>11. QED
    BY <1>1, <1>2, <1>6, <1>7, <1>8, <1>9, <1>10 DEF WorkerInv

\* The invariant survives a slot claim: the row was not held and the token is new.
LEMMA ClaimSlotKeeps ==
  ASSUME IInv, NEW w \in Workers, ClaimSlot(w)
  PROVE  IInv'
  <1> USE DEF IInv
  <1>1. PICK s \in Slots :
          /\ ~slot[s].live
          /\ slot' = [slot EXCEPT ![s] = [token |-> FreshToken, live |-> TRUE]]
          /\ claim' = [claim EXCEPT ![w] = SlotOnly(s, FreshToken)]
    BY DEF ClaimSlot
  <1>2. /\ pc[w] = "idle" /\ pc' = [pc EXCEPT ![w] = "slot"]
        /\ UNCHANGED <<open, rev, run, trial, faults>>
    BY DEF ClaimSlot, GoTo
  <1>3. /\ FreshToken \in Tokens
        /\ \A t \in Slots : slot[t].token # FreshToken
        /\ \A v \in Workers : claim[v].token # FreshToken
    BY FreshTokenIsFresh DEF ClaimSlot
  <1>4. /\ SlotOnly(s, FreshToken) \in ClaimRecord
        /\ SlotOnly(s, FreshToken).token = FreshToken
    BY <1>3, Constants DEF NoClaim, SlotOnly, ClaimRecord
  <1>5. TypeOK'
    BY <1>1, <1>2, <1>3, <1>4 DEF TypeOK, Lease
  <1>6. TableInv'
    BY <1>2, TablesAlone
  <1>7. /\ pc'[w] = "slot" /\ claim'[w].token = FreshToken
        /\ \A v \in Workers : v # w => pc'[v] = pc[v] /\ claim'[v] = claim[v]
    BY <1>1, <1>2, <1>4 DEF TypeOK
  <1>8. "slot" \notin Working /\ "slot" \notin Claimed
    BY DEF Working, Claimed, Outcomes
  <1>9. ASSUME NEW v \in Workers, v # w
        PROVE  SlotHeld(v)' <=> SlotHeld(v)
    <2>1. claim[v].slot \in Slots /\ slot \in [Slots -> Lease]
      BY Shapes DEF TypeOK
    <2>2. CASE claim[v].slot = s
      BY <1>1, <1>3, <1>7, <1>9, <2>1, <2>2 DEF SlotHeld
    <2>3. CASE claim[v].slot # s
      BY <1>1, <1>7, <1>9, <2>1, <2>3 DEF SlotHeld
    <2>4. QED
      BY <2>2, <2>3
  <1>10. ASSUME NEW v \in Workers, v # w
         PROVE  MyRun(v)' = MyRun(v) /\ MyTrial(v)' = MyTrial(v)
    BY <1>2, <1>7, <1>10 DEF MyRun, MyTrial
  <1>11. OwnTokens'
    BY <1>2, <1>3, <1>7, TokenAssumption DEF WorkerInv, OwnTokens
  <1>12. ClaimEpochs'
    BY <1>7, <1>8, <1>10 DEF WorkerInv, ClaimEpochs
  <1>13. Kept'
    BY <1>7, <1>8, <1>9, <1>10 DEF WorkerInv, Kept
  <1>14. OneClaimPerEpoch'
    BY <1>7, <1>8, <1>9 DEF WorkerInv, OneClaimPerEpoch
  <1>15. CallsHeld'
    BY <1>7, <1>9 DEF WorkerInv, CallsHeld, Calling
  <1>16. QED
    BY <1>5, <1>6, <1>11, <1>12, <1>13, <1>14, <1>15 DEF WorkerInv

\* A worker is gone, with or without its slot.
Left(w) ==
  /\ UNCHANGED <<open, rev, run, trial>>
  /\ faults' \in 0..MaxFaults
  /\ claim' = [claim EXCEPT ![w] = NoClaim]
  /\ GoTo(w, "idle")
  /\ pc[w] # "idle"
  /\ \/ UNCHANGED slot
     \/ /\ slot[claim[w].slot].token = claim[w].token
        /\ slot' = [slot EXCEPT ![claim[w].slot] = NoLease]

\* The invariant survives a release or a crash: nobody else loses a slot.
LEMMA LeaveKeeps ==
  ASSUME IInv, NEW w \in Workers, Left(w)
  PROVE  IInv'
  <1> USE DEF IInv
  <1>1. /\ claim' = [claim EXCEPT ![w] = NoClaim] /\ pc' = [pc EXCEPT ![w] = "idle"]
        /\ pc[w] # "idle"
        /\ UNCHANGED <<rev, run, trial>>
    BY DEF Left, GoTo
  <1>2. NoClaim \in ClaimRecord /\ NoClaim.token = NoToken /\ NoLease \in Lease
    BY Constants DEF NoClaim, SlotOnly
  <1>3. TypeOK'
    BY <1>1, <1>2 DEF TypeOK, Left
  <1>4. TableInv'
    BY <1>1, TablesAlone
  <1>5. /\ pc'[w] = "idle" /\ claim'[w].token = NoToken
        /\ \A v \in Workers : v # w => pc'[v] = pc[v] /\ claim'[v] = claim[v]
    BY <1>1, <1>2 DEF TypeOK
  <1>6. "idle" \notin Working /\ "idle" \notin Claimed
    BY DEF Working, Claimed, Outcomes
  <1>7. ASSUME NEW v \in Workers, v # w, pc[v] # "idle"
        PROVE  SlotHeld(v)' <=> SlotHeld(v)
    <2>1. claim[v].slot \in Slots /\ slot \in [Slots -> Lease] /\ claim[w].slot \in Slots
      BY Shapes DEF TypeOK
    <2>2. claim[v].token # claim[w].token /\ claim[v].token # NoToken
      BY <1>1, <1>7 DEF WorkerInv, OwnTokens
    <2>3. NoLease.token = NoToken
      BY DEF NoLease
    <2>4. CASE claim[v].slot = claim[w].slot
      BY <1>5, <1>7, <2>1, <2>2, <2>3, <2>4 DEF SlotHeld, Left
    <2>5. CASE claim[v].slot # claim[w].slot
      BY <1>5, <1>7, <2>1, <2>5 DEF SlotHeld, Left
    <2>6. QED
      BY <2>4, <2>5
  <1>8. ASSUME NEW v \in Workers, v # w
        PROVE  MyRun(v)' = MyRun(v) /\ MyTrial(v)' = MyTrial(v)
    BY <1>1, <1>5, <1>8 DEF MyRun, MyTrial
  <1>9. OwnTokens'
    BY <1>5 DEF WorkerInv, OwnTokens
  <1>10. ClaimEpochs'
    BY <1>5, <1>6, <1>8 DEF WorkerInv, ClaimEpochs
  <1>11. Kept'
    BY <1>5, <1>6, <1>7, <1>8 DEF WorkerInv, Kept
  <1>12. OneClaimPerEpoch'
    BY <1>5, <1>6, <1>7 DEF WorkerInv, OneClaimPerEpoch
  <1>13. CallsHeld'
    BY <1>5, <1>7 DEF WorkerInv, CallsHeld, Calling
  <1>14. QED
    BY <1>3, <1>4, <1>9, <1>10, <1>11, <1>12, <1>13 DEF WorkerInv

\* A worker's outcome is written: it may take its trial's result or hand the
\* trial back, and move its run within its epoch.
Settling(w) ==
  /\ UNCHANGED <<open, rev, slot>>
  /\ faults' \in 0..MaxFaults
  /\ pc[w] # "idle"
  /\ Settled(w)
  /\ \/ UNCHANGED trial
     \/ /\ pc[w] \in Claimed /\ MyTrial(w).lease.token = claim[w].token
        /\ \/ SetTrial(claim[w].run, claim[w].index, Pending)
           \/ SetTrial(claim[w].run, claim[w].index, Done) /\ Accepts(w)
  /\ run' \in [Runs -> RunRow]
  /\ \A r \in Runs :
       \/ run'[r] = run[r]
       \/ /\ run'[r].epoch = run[r].epoch
          /\ r = claim[w].run /\ pc[w] \in Claimed
          /\ run[r].status \in {"running", "failed"}
          /\ run'[r].status \in {"running", "failed", "completed"}
          /\ run'[r].status = "running" => run'[r].failures < MAX_WAVES

\* The invariant survives an outcome: only the worker's own trial is written.
LEMMA SettleKeeps ==
  ASSUME IInv, NEW w \in Workers, Settling(w), Unfinished'
  PROVE  IInv'
  <1> USE DEF IInv
  <1>1. /\ claim' = [claim EXCEPT ![w] = SlotOnly(claim[w].slot, claim[w].token)]
        /\ pc' = [pc EXCEPT ![w] = "release"] /\ pc[w] # "idle"
        /\ UNCHANGED <<open, rev, slot>> /\ run' \in [Runs -> RunRow]
    BY DEF Settling, Settled, GoTo
  <1>2. /\ run \in [Runs -> RunRow] /\ claim[w] \in ClaimRecord
        /\ \A v \in Workers : claim[v].run \in Runs /\ claim[v].index \in Trials
        /\ \A r \in Runs, i \in Trials : trial[r][i] \in TrialRow
    BY Shapes DEF TypeOK
  <1>3. /\ SlotOnly(claim[w].slot, claim[w].token) \in ClaimRecord
        /\ SlotOnly(claim[w].slot, claim[w].token).token = claim[w].token
    BY <1>2, Constants DEF NoClaim, SlotOnly, ClaimRecord
  <1>4. \A r \in Runs :
           /\ run'[r].epoch = run[r].epoch
           /\ run'[r] = run[r] \/ run'[r].status \in {"running", "failed", "completed"}
    BY DEF Settling
  <1>5. /\ trial' \in [Runs -> [Trials -> TrialRow]]
        /\ \A r \in Runs, i \in Trials :
             \/ trial'[r][i] = trial[r][i]
             \/ /\ trial'[r][i] \in {Pending, Done}
                /\ r = claim[w].run /\ pc[w] \in Claimed
                /\ trial[r][i].lease.token = claim[w].token
    <2>1. CASE UNCHANGED trial
      BY <2>1 DEF TypeOK
    <2>2. ASSUME pc[w] \in Claimed, MyTrial(w).lease.token = claim[w].token,
                 NEW row \in {Pending, Done}, SetTrial(claim[w].run, claim[w].index, row)
          PROVE  <1>5!1 /\ <1>5!2
      BY <2>2, <1>2, SetTrialRow, Constants DEF MyTrial
    <2>3. QED
      BY <2>1, <2>2 DEF Settling
  <1>6. TypeOK'
    <2>1. pc' \in [Workers -> {"idle", "slot", "release"} \cup Claimed]
      BY <1>1 DEF TypeOK
    <2>2. claim' \in [Workers -> ClaimRecord]
      BY <1>1, <1>3 DEF TypeOK
    <2>3. QED
      BY <1>1, <1>5, <2>1, <2>2 DEF TypeOK, Settling
  <1>7. TableInv'
    <2>1. Budget'
      BY DEF Settling, TableInv, Budget
    <2>2. LeasedIsRunning'
      <3> SUFFICES ASSUME NEW r \in Runs, NEW i \in Trials, trial'[r][i].status # "running"
                   PROVE  trial'[r][i].lease = NoLease
        BY DEF LeasedIsRunning, NoLease
      <3>1. Pending.lease = NoLease /\ Done.lease = NoLease
        BY DEF Pending, Done
      <3>2. QED
        BY <3>1, <1>5 DEF TableInv, LeasedIsRunning
    <2>3. Unregistered'
      <3> SUFFICES ASSUME NEW r \in Runs, run'[r].status = "none", NEW i \in Trials
                   PROVE  run'[r] = NoRun /\ trial'[r][i] = NoTrial
        BY Constants DEF Unregistered, NoRun, NewRun, NoTrial, NoLease
      <3>1. run'[r] = run[r]
        BY <1>4
      <3>2. trial'[r][i] = trial[r][i]
        BY <1>5, <3>1 DEF WorkerInv, ClaimEpochs, MyRun
      <3>3. QED
        BY <3>1, <3>2 DEF TableInv, Unregistered
    <2>4. TrialEpochs'
      <3>1. ASSUME NEW r \in Runs, NEW i \in Trials
            PROVE  /\ trial'[r][i].epoch <= run'[r].epoch
                   /\ trial'[r][i].status = "running" /\ run'[r].status = "queued"
                        => trial'[r][i].epoch < run'[r].epoch
        <4>1. run'[r].epoch = run[r].epoch /\ 0 <= run[r].epoch
              /\ (run'[r].status = "queued" => run[r].status = "queued")
          BY <1>2, <1>4, SizeAssumption DEF RunRow
        <4>2. CASE trial'[r][i] = trial[r][i]
          BY <4>1, <4>2 DEF TableInv, TrialEpochs
        <4>3. CASE trial'[r][i] \in {Pending, Done}
          BY <4>1, <4>3 DEF Pending, Done
        <4>4. QED
          BY <4>2, <4>3, <1>5
      <3>2. ASSUME NEW r \in Runs, run'[r].status # "none"
            PROVE  r[2] <= rev'[r[1]]
        <4>1. CASE run'[r] = run[r]
          BY <1>1, <3>2, <4>1 DEF TableInv, TrialEpochs
        <4>2. CASE r = claim[w].run /\ pc[w] \in Claimed
          BY <1>1, <4>2 DEF TableInv, TrialEpochs, WorkerInv, ClaimEpochs, MyRun
        <4>3. QED
          BY <4>1, <4>2 DEF Settling
      <3>3. QED
        BY <3>1, <3>2 DEF TrialEpochs
    <2>5. QED
      BY <2>1, <2>2, <2>3, <2>4 DEF TableInv
  <1>8. /\ pc'[w] = "release" /\ claim'[w].token = claim[w].token
        /\ \A v \in Workers : v # w => pc'[v] = pc[v] /\ claim'[v] = claim[v]
    BY <1>1, <1>3 DEF TypeOK
  <1>9. "release" \notin Working /\ "release" \notin Claimed
    BY DEF Working, Claimed, Outcomes
  <1>10. ASSUME NEW v \in Workers, v # w
         PROVE  /\ SlotHeld(v)' <=> SlotHeld(v)
                /\ MyRun(v)'.epoch = MyRun(v).epoch
                /\ MyRun(v)'.status = "none" => MyRun(v).status = "none"
    BY <1>1, <1>2, <1>4, <1>8, <1>10 DEF SlotHeld, MyRun
  <1>11. OwnTokens'
    BY <1>1, <1>8 DEF WorkerInv, OwnTokens
  <1>12. ClaimEpochs'
    BY <1>8, <1>9, <1>10 DEF WorkerInv, ClaimEpochs
  <1>13. Kept'
    <2> SUFFICES ASSUME NEW v \in Workers, (pc[v] \in Working)', SlotHeld(v)'
                 PROVE  \/ (claim[v].epoch < MyRun(v).epoch)'
                        \/ (MyTrial(v) = [status |-> "running", epoch |-> claim[v].epoch,
                              lease |-> [token |-> claim[v].token, live |-> TRUE]])'
      BY DEF Kept
    <2>1. v # w
      BY <1>8, <1>9
    <2>2. pc[v] \in Working /\ SlotHeld(v) /\ claim'[v] = claim[v]
      BY <1>8, <1>10, <2>1
    <2>3. CASE claim[v].epoch < MyRun(v).epoch
      BY <1>10, <2>1, <2>2, <2>3
    <2>4. CASE MyTrial(v) = [status |-> "running", epoch |-> claim[v].epoch,
                             lease |-> [token |-> claim[v].token, live |-> TRUE]]
      <3>1. claim[v].token # claim[w].token
        BY <1>1, <2>1, <2>2 DEF WorkerInv, OwnTokens, Working
      <3>2. trial'[claim[v].run][claim[v].index] = trial[claim[v].run][claim[v].index]
        <4>1. claim[v].run \in Runs /\ claim[v].index \in Trials
          BY <1>2
        <4>2. trial[claim[v].run][claim[v].index].lease.token = claim[v].token
          BY <2>4 DEF MyTrial
        <4>3. QED
          BY <4>1, <4>2, <3>1, <1>5
      <3>3. QED
        BY <2>2, <2>4, <3>2 DEF MyTrial
    <2>5. QED
      BY <2>2, <2>3, <2>4 DEF WorkerInv, Kept
  <1>14. OneClaimPerEpoch'
    BY <1>8, <1>9, <1>10 DEF WorkerInv, OneClaimPerEpoch
  <1>15. CallsHeld'
    BY <1>8, <1>10 DEF WorkerInv, CallsHeld, Calling
  <1>16. QED
    BY <1>6, <1>7, <1>11, <1>12, <1>13, <1>14, <1>15 DEF WorkerInv

\* A trial that is still leased to its worker has no result, so its run is not
\* completed.
LEMMA LeasedUnfinished ==
  ASSUME IInv, NEW w \in Workers, pc[w] # "idle",
         MyTrial(w).lease.token = claim[w].token
  PROVE  MyTrial(w).status = "running" /\ MyRun(w).status # "completed"
  <1>1. claim[w].token # NoToken
    BY DEF IInv, WorkerInv, OwnTokens
  <1>2. claim[w].run \in Runs /\ claim[w].index \in Trials
    BY Shapes DEF IInv
  <1>3. MyTrial(w).status = "running"
    BY <1>1, <1>2 DEF IInv, TableInv, LeasedIsRunning, MyTrial, NoLease
  <1>4. QED
    BY <1>2, <1>3 DEF IInv, TableInv, Unfinished, MyTrial, MyRun

\* A trial is handed back.
LEMMA PendingSettles ==
  ASSUME IInv, NEW w \in Workers, pc[w] \in Claimed, Settled(w),
         UNCHANGED <<open, rev, slot>>, faults' \in 0..MaxFaults,
         \/ UNCHANGED trial
         \/ /\ MyTrial(w).lease.token = claim[w].token
            /\ SetTrial(claim[w].run, claim[w].index, Pending),
         run' \in [Runs -> RunRow],
         \A r \in Runs :
           \/ run'[r] = run[r]
           \/ /\ r = claim[w].run /\ run'[r].epoch = run[r].epoch
              /\ run[r].status = "running" /\ run'[r].status \in {"running", "failed"}
              /\ run'[r].status = "running" => run'[r].failures < MAX_WAVES
  PROVE  Settling(w) /\ Unfinished'
  <1>1. pc[w] # "idle"
    BY DEF Claimed, Outcomes
  <1>2. Settling(w)
    BY <1>1 DEF Settling
  <1>3. Unfinished'
    <2> SUFFICES ASSUME NEW r \in Runs
                 PROVE  /\ run'[r].status \in {"none", "queued", "running", "failed", "cancelled"} =>
                             \E i \in Trials : trial'[r][i].status # "done"
                        /\ run'[r].status = "completed" =>
                             \A i \in Trials : trial'[r][i].status = "done"
      BY DEF Unfinished
    <2>1. /\ run'[r].status \in {"none", "queued", "running", "failed", "cancelled"} =>
               run[r].status \in {"none", "queued", "running", "failed", "cancelled"}
          /\ run'[r].status = "completed" => run[r].status = "completed"
      OBVIOUS
    <2>2. CASE UNCHANGED trial
      BY <2>1, <2>2 DEF IInv, TableInv, Unfinished
    <2>3. CASE /\ MyTrial(w).lease.token = claim[w].token
               /\ SetTrial(claim[w].run, claim[w].index, Pending)
      <3>1. claim[w].run \in Runs /\ claim[w].index \in Trials
        BY Shapes DEF IInv
      <3>2. \A q \in Runs, j \in Trials :
              trial'[q][j] = IF q = claim[w].run /\ j = claim[w].index
                               THEN Pending ELSE trial[q][j]
        BY <2>3, <3>1, SetTrialRow, Constants DEF IInv
      <3>3. MyRun(w).status # "completed"
        BY <1>1, <2>3, LeasedUnfinished
      <3>4. Pending.status # "done"
        BY DEF Pending
      <3>5. CASE r = claim[w].run
        BY <2>1, <3>1, <3>2, <3>3, <3>4, <3>5 DEF MyRun
      <3>6. CASE r # claim[w].run
        BY <2>1, <3>2, <3>6 DEF IInv, TableInv, Unfinished
      <3>7. QED
        BY <3>5, <3>6
    <2>4. QED
      BY <2>2, <2>3
  <1>4. QED
    BY <1>2, <1>3

\* The three branches of runClaimedAutoTrial write an outcome.
LEMMA HandBackSettles ==
  ASSUME IInv, NEW w \in Workers, pc[w] \in Claimed, HandBack(w), faults' \in 0..MaxFaults
  PROVE  Settling(w) /\ Unfinished'
  BY PendingSettles DEF HandBack, HandsBack, IInv, TypeOK

LEMMA CommitRetrySettles ==
  ASSUME IInv, NEW w \in Workers, CommitRetry(w)
  PROVE  Settling(w) /\ Unfinished'
  <1> DEFINE r == claim[w].run
             row == [status |-> IF GivesUp(run[r].failures) THEN "failed" ELSE "running",
                     epoch |-> run[r].epoch,
                     failures |-> run[r].failures + 1, waiting |-> TRUE]
  <1>1. /\ pc[w] \in Claimed /\ Settled(w) /\ UNCHANGED <<open, rev, slot, faults>>
        /\ \/ UNCHANGED trial
           \/ /\ MyTrial(w).lease.token = claim[w].token
              /\ SetTrial(claim[w].run, claim[w].index, Pending)
        /\ \/ run' = run
           \/ run[r].status = "running" /\ run' = [run EXCEPT ![r] = row]
    BY DEF CommitRetry, Claimed, Outcomes
  <1>2. run \in [Runs -> RunRow] /\ r \in Runs /\ faults' \in 0..MaxFaults
    BY <1>1, Shapes DEF IInv, TypeOK
  <1>3. /\ run' \in [Runs -> RunRow]
        /\ \A q \in Runs :
             \/ run'[q] = run[q]
             \/ /\ q = claim[w].run /\ run'[q].epoch = run[q].epoch
                /\ run[q].status = "running" /\ run'[q].status \in {"running", "failed"}
                /\ run'[q].status = "running" => run'[q].failures < MAX_WAVES
    <2>1. CASE run' = run
      BY <1>2, <2>1
    <2>2. CASE run[r].status = "running" /\ run' = [run EXCEPT ![r] = row]
      <3>1. run[r] \in RunRow /\ run[r].failures < MAX_WAVES
        BY <1>2, <2>2 DEF IInv, TableInv, Budget
      <3>2. row \in RunRow /\ (row.status = "running" => row.failures < MAX_WAVES)
            /\ row.status \in {"running", "failed"} /\ row.epoch = run[r].epoch
        BY <3>1, SizeAssumption DEF RunRow, Statuses, GivesUp
      <3>3. QED
        BY <1>2, <2>2, <3>2
    <2>3. QED
      BY <1>1, <2>1, <2>2
  <1>4. QED
    BY <1>1, <1>2, <1>3, PendingSettles

LEMMA CommitDoneSettles ==
  ASSUME IInv, NEW w \in Workers, CommitDone(w)
  PROVE  Settling(w) /\ Unfinished'
  <1> DEFINE r == claim[w].run
             finished == Completes(w) /\ \A i \in Trials : trial'[r][i].status = "done"
  <1>1. /\ pc[w] = "done" /\ Settled(w) /\ UNCHANGED <<open, rev, slot, faults>>
        /\ run' = IF finished THEN [run EXCEPT ![r].status = "completed"] ELSE run
    BY DEF CommitDone
  <1>2. \/ UNCHANGED trial
        \/ /\ MyTrial(w).lease.token = claim[w].token /\ Accepts(w)
           /\ SetTrial(r, claim[w].index, Done)
    BY DEF CommitDone
  <1>3. run \in [Runs -> RunRow] /\ r \in Runs /\ claim[w].index \in Trials
        /\ faults' \in 0..MaxFaults
    BY <1>1, Shapes DEF IInv, TypeOK
  <1>4. pc[w] # "idle" /\ pc[w] \in Claimed
    BY <1>1 DEF Claimed, Outcomes
  <1>5. /\ run' \in [Runs -> RunRow]
        /\ \A q \in Runs : q # r => run'[q] = run[q]
        /\ finished => run'[r].status = "completed" /\ run'[r].epoch = run[r].epoch
        /\ ~finished => run' = run
    BY <1>1, <1>3 DEF RunRow, Statuses
  <1>6. Settling(w)
    <2>1. \/ UNCHANGED trial
          \/ /\ pc[w] \in Claimed /\ MyTrial(w).lease.token = claim[w].token
             /\ \/ SetTrial(claim[w].run, claim[w].index, Pending)
                \/ SetTrial(claim[w].run, claim[w].index, Done) /\ Accepts(w)
      BY <1>2, <1>4
    <2>2. \A q \in Runs :
            \/ run'[q] = run[q]
            \/ /\ run'[q].epoch = run[q].epoch
               /\ q = claim[w].run /\ pc[w] \in Claimed
               /\ run[q].status \in {"running", "failed"}
               /\ run'[q].status \in {"running", "failed", "completed"}
               /\ run'[q].status = "running" => run'[q].failures < MAX_WAVES
      BY <1>4, <1>5 DEF Completes, MyRun
    <2>3. QED
      BY <1>1, <1>3, <1>4, <1>5, <2>1, <2>2 DEF Settling
  <1>7. Unfinished'
    <2> SUFFICES ASSUME NEW q \in Runs
                 PROVE  /\ run'[q].status \in {"none", "queued", "running", "failed", "cancelled"} =>
                             \E i \in Trials : trial'[q][i].status # "done"
                        /\ run'[q].status = "completed" =>
                             \A i \in Trials : trial'[q][i].status = "done"
      BY DEF Unfinished
    <2>1. CASE UNCHANGED trial /\ ~(q = r /\ finished)
      BY <1>5, <2>1 DEF IInv, TableInv, Unfinished
    <2>2. CASE q = r /\ finished
      BY <1>5, <2>2
    <2>3. CASE /\ MyTrial(w).lease.token = claim[w].token /\ Accepts(w)
               /\ SetTrial(r, claim[w].index, Done) /\ ~(q = r /\ finished)
      <3>1. \A p \in Runs, j \in Trials :
              p # r => trial'[p][j] = trial[p][j]
        BY <1>3, <2>3, SetTrialRow, Constants DEF IInv
      <3>2. CASE q = r
        <4>1. Completes(w)
          BY <2>3 DEF Accepts, Completes
        <4>2. run' = run /\ run[r].status \in {"running", "failed"}
          BY <1>5, <2>3, <3>2, <4>1 DEF Completes, MyRun
        <4>3. \E i \in Trials : trial'[r][i].status # "done"
          BY <2>3, <3>2, <4>1
        <4>4. QED
          BY <3>2, <4>2, <4>3
      <3>3. CASE q # r
        BY <1>5, <3>1, <3>3 DEF IInv, TableInv, Unfinished
      <3>4. QED
        BY <3>2, <3>3
    <2>4. QED
      BY <1>2, <2>1, <2>2, <2>3
  <1>8. QED
    BY <1>6, <1>7

\* A worker that gives up without touching a trial.
LEMMA SettledAloneSettles ==
  ASSUME IInv, NEW w \in Workers, pc[w] # "idle", Settled(w),
         UNCHANGED <<open, rev, run, trial, slot>>, faults' \in 0..MaxFaults
  PROVE  Settling(w) /\ Unfinished'
  <1>1. Settling(w)
    BY DEF Settling, IInv, TypeOK
  <1>2. Unfinished'
    BY DEF IInv, TableInv, Unfinished
  <1>3. QED
    BY <1>1, <1>2

\* The claim is where two workers could get the same trial: what makes a trial
\* claimable contradicts what a worker in the current epoch keeps.
LEMMA ClaimTrialKeeps ==
  ASSUME IInv, NEW w \in Workers, NEW r \in Runs, ClaimTrial(w, r)
  PROVE  IInv'
  <1> USE DEF IInv
  <1> DEFINE row == [status |-> "running", epoch |-> run[r].epoch,
                     lease |-> [token |-> claim[w].token, live |-> SlotHeld(w)]]
             mine(i) == [slot |-> claim[w].slot, token |-> claim[w].token,
                         run |-> r, index |-> i, epoch |-> run[r].epoch, calls |-> 0]
  <1>1. PICK i \in Trials :
          /\ Claimable(r, i) /\ SetTrial(r, i, row)
          /\ claim' = [claim EXCEPT ![w] = mine(i)]
    BY DEF ClaimTrial
  <1>2. /\ pc[w] = "slot" /\ pc' = [pc EXCEPT ![w] = "ready"]
        /\ run' = [run EXCEPT ![r].status = "running"]
        /\ UNCHANGED <<open, rev, slot, faults>>
    BY DEF ClaimTrial, GoTo
  <1>3. /\ run \in [Runs -> RunRow] /\ claim[w] \in ClaimRecord
        /\ \A v \in Workers : claim[v].run \in Runs /\ claim[v].index \in Trials
        /\ \A v \in Workers : claim[v] \in ClaimRecord
        /\ \A q \in Runs, j \in Trials : trial[q][j] \in TrialRow
    BY Shapes DEF TypeOK
  <1>4. row \in TrialRow /\ mine(i) \in ClaimRecord
    <2>1. run[r].epoch \in 0..MaxEpoch /\ claim[w].token \in Tokens \cup {NoToken}
          /\ claim[w].slot \in Slots
      BY <1>3 DEF RunRow, ClaimRecord
    <2>2. SlotHeld(w) \in BOOLEAN
      BY DEF SlotHeld
    <2>3. QED
      BY <2>1, <2>2, <1>1, SizeAssumption DEF TrialRow, Lease, ClaimRecord
  <1>5. /\ trial' \in [Runs -> [Trials -> TrialRow]]
        /\ \A q \in Runs, j \in Trials :
             trial'[q][j] = IF q = r /\ j = i THEN row ELSE trial[q][j]
    BY <1>1, <1>4, SetTrialRow
  <1>6. /\ run' \in [Runs -> RunRow]
        /\ run'[r].status = "running" /\ run'[r].failures = run[r].failures
        /\ \A q \in Runs : /\ q # r => run'[q] = run[q]
                           /\ run'[q].epoch = run[q].epoch
        /\ run[r].status \in {"queued", "running"} /\ Latest(r)
    BY <1>1, <1>2, <1>3 DEF RunRow, Statuses, Claimable
  <1> DEFINE c == mine(i)
  <1>a. /\ c.token = claim[w].token /\ c.slot = claim[w].slot /\ c.run = r /\ c.index = i
        /\ c.epoch = run[r].epoch /\ c \in ClaimRecord
        /\ claim' = [claim EXCEPT ![w] = c]
    BY <1>1, <1>4
  <1>b. row.status = "running" /\ row.epoch = run[r].epoch /\ row \in TrialRow
    BY <1>4
  <1>c. SlotHeld(w) => row = [status |-> "running", epoch |-> c.epoch,
                              lease |-> [token |-> c.token, live |-> TRUE]]
    <2>1. SlotHeld(w) => SlotHeld(w) = TRUE
      BY DEF SlotHeld
    <2>2. QED
      BY <2>1, <1>a
  <1>d. /\ \A q \in Runs : run'[q].epoch = run[q].epoch
        /\ \A q \in Runs : run'[q].status = "none" => run[q].status = "none"
        /\ run'[r].status # "queued"
        /\ \A q \in Runs : q # r => run'[q] = run[q]
    <2>1. \A q \in Runs : q # r => run'[q] = run[q]
      BY <1>6
    <2>2. \A q \in Runs : run'[q].epoch = run[q].epoch
      BY <1>6
    <2>3. run'[r].status = "running"
      BY <1>6
    <2>4. \A q \in Runs : run'[q].status = "none" => run[q].status = "none"
      BY <2>1, <2>3
    <2>5. QED
      BY <2>1, <2>2, <2>3, <2>4
  <1>e. \A q \in Runs, j \in Trials : ~(q = r /\ j = i) => trial'[q][j] = trial[q][j]
    BY <1>5
  <1> HIDE DEF row, mine, c
  <1>7. TypeOK'
    <2>1. pc' \in [Workers -> {"idle", "slot", "release"} \cup Claimed]
      BY <1>2 DEF TypeOK, Claimed
    <2>2. claim' \in [Workers -> ClaimRecord]
      BY <1>a DEF TypeOK
    <2>3. QED
      BY <1>2, <1>5, <1>6, <2>1, <2>2 DEF TypeOK
  <1>8. TableInv'
    <2>1. Budget'
      BY <1>6 DEF TableInv, Budget
    <2>2. LeasedIsRunning'
      <3> SUFFICES ASSUME NEW q \in Runs, NEW j \in Trials, trial'[q][j].status # "running"
                   PROVE  trial'[q][j].lease = NoLease
        BY DEF LeasedIsRunning, NoLease
      <3>1. trial'[q][j] = trial[q][j]
        BY <1>5, <1>b
      <3>2. QED
        BY <3>1 DEF TableInv, LeasedIsRunning
    <2>3. Unregistered'
      <3> SUFFICES ASSUME NEW q \in Runs, run'[q].status = "none", NEW j \in Trials
                   PROVE  run'[q] = NoRun /\ trial'[q][j] = NoTrial
        BY Constants DEF Unregistered, NoRun, NewRun, NoTrial, NoLease
      <3>1. q # r
        BY <1>6
      <3>2. run'[q] = run[q] /\ trial'[q][j] = trial[q][j]
        BY <1>5, <1>6, <3>1
      <3>3. QED
        BY <3>2 DEF TableInv, Unregistered
    <2>4. Unfinished'
      <3> SUFFICES ASSUME NEW q \in Runs
                   PROVE  /\ run'[q].status \in {"none", "queued", "running", "failed", "cancelled"} =>
                               \E j \in Trials : trial'[q][j].status # "done"
                          /\ run'[q].status = "completed" =>
                               \A j \in Trials : trial'[q][j].status = "done"
        BY DEF Unfinished
      <3>1. CASE q = r
        BY <1>1, <1>5, <1>6, <1>b, <3>1
      <3>2. CASE q # r
        BY <1>5, <1>6, <3>2 DEF TableInv, Unfinished
      <3>3. QED
        BY <3>1, <3>2
    <2>5. TrialEpochs'
      <3>1. run[r].epoch <= run[r].epoch
        BY <1>3, SizeAssumption DEF RunRow
      <3>2. ASSUME NEW q \in Runs, NEW j \in Trials
            PROVE  /\ trial'[q][j].epoch <= run'[q].epoch
                   /\ trial'[q][j].status = "running" /\ run'[q].status = "queued"
                        => trial'[q][j].epoch < run'[q].epoch
        <4>1. CASE q = r /\ j = i
          <5>1. trial'[q][j] = row /\ run'[q].epoch = run[r].epoch
            BY <1>5, <1>d, <4>1
          <5>2. QED
            BY <1>b, <1>d, <3>1, <4>1, <5>1
        <4>2. CASE q = r /\ j # i
          BY <1>d, <1>e, <4>2 DEF TableInv, TrialEpochs
        <4>3. CASE q # r
          BY <1>d, <1>e, <4>3 DEF TableInv, TrialEpochs
        <4>4. QED
          BY <4>1, <4>2, <4>3
      <3>3. \A q \in Runs : run'[q].status # "none" => q[2] <= rev'[q[1]]
        BY <1>2, <1>6 DEF TableInv, TrialEpochs
      <3>4. QED
        BY <3>2, <3>3 DEF TrialEpochs
    <2>6. QED
      BY <2>1, <2>2, <2>3, <2>4, <2>5 DEF TableInv
  <1>9. /\ pc'[w] = "ready" /\ claim'[w] = c
        /\ \A v \in Workers : v # w => pc'[v] = pc[v] /\ claim'[v] = claim[v]
    BY <1>a, <1>2 DEF TypeOK
  <1>10. ASSUME NEW v \in Workers
         PROVE  SlotHeld(v)' <=> SlotHeld(v)
    BY <1>2, <1>9, <1>a DEF SlotHeld
  <1>11. ASSUME NEW v \in Workers, v # w, pc[v] \in Working, SlotHeld(v),
                claim[v].run = r, claim[v].index = i
         PROVE  claim[v].epoch < run[r].epoch
    <2>1. \/ claim[v].epoch < run[r].epoch
          \/ trial[r][i] = [status |-> "running", epoch |-> claim[v].epoch,
                            lease |-> [token |-> claim[v].token, live |-> TRUE]]
      BY <1>11 DEF WorkerInv, Kept, MyRun, MyTrial
    <2>2. CASE trial[r][i] = [status |-> "running", epoch |-> claim[v].epoch,
                              lease |-> [token |-> claim[v].token, live |-> TRUE]]
      <3>1. claim[v].epoch # run[r].epoch
        BY <1>1, <2>2 DEF Claimable
      <3>2. trial[r][i].epoch <= run[r].epoch
        BY DEF TableInv, TrialEpochs
      <3>3. claim[v].epoch \in Nat /\ run[r].epoch \in Nat
        BY <1>3, SizeAssumption DEF RunRow, ClaimRecord
      <3>4. QED
        BY <2>2, <3>1, <3>2, <3>3
    <2>3. QED
      BY <2>1, <2>2
  <1>12. OwnTokens'
    BY <1>2, <1>9, <1>a DEF WorkerInv, OwnTokens
  <1>13. ClaimEpochs'
    <2> SUFFICES ASSUME NEW v \in Workers, pc'[v] \in Claimed
                 PROVE  claim'[v].epoch <= MyRun(v)'.epoch /\ MyRun(v)'.status # "none"
      BY DEF ClaimEpochs
    <2>1. CASE v = w
      <3>1. run[r].epoch <= run[r].epoch
        BY <1>3, SizeAssumption DEF RunRow
      <3>2. QED
        <4>1. claim'[v].epoch = run[r].epoch /\ claim'[v].run = r
          BY <1>9, <1>a, <2>1
        <4>2. run'[r].epoch = run[r].epoch /\ run'[r].status # "none"
          BY <1>6, <1>d
        <4>3. QED
          BY <3>1, <4>1, <4>2 DEF MyRun
    <2>2. CASE v # w
      <3>1. /\ pc[v] \in Claimed /\ claim'[v] = claim[v] /\ claim[v].run \in Runs
        BY <1>3, <1>9, <2>2
      <3>2. /\ MyRun(v)'.epoch = MyRun(v).epoch
            /\ MyRun(v)'.status = "none" => MyRun(v).status = "none"
        BY <1>d, <3>1 DEF MyRun
      <3>3. QED
        BY <3>1, <3>2 DEF WorkerInv, ClaimEpochs
    <2>3. QED
      BY <2>1, <2>2
  <1>14. Kept'
    <2> SUFFICES ASSUME NEW v \in Workers, (pc[v] \in Working)', SlotHeld(v)'
                 PROVE  \/ (claim[v].epoch < MyRun(v).epoch)'
                        \/ (MyTrial(v) = [status |-> "running", epoch |-> claim[v].epoch,
                              lease |-> [token |-> claim[v].token, live |-> TRUE]])'
      BY DEF Kept
    <2>1. CASE v = w
      <3>1. SlotHeld(w)
        BY <1>10, <2>1
      <3>2. trial'[r][i] = row
        BY <1>1, <1>5
      <3>3. MyTrial(w)' = row
        BY <1>9, <1>a, <3>2 DEF MyTrial
      <3>4. QED
        BY <1>9, <1>c, <2>1, <3>1, <3>3
    <2>2. CASE v # w
      <3>a. pc[v] \in Working /\ claim'[v] = claim[v] /\ claim[v].run \in Runs
        BY <1>3, <1>9, <2>2
      <3>b. MyRun(v)'.epoch = MyRun(v).epoch
        BY <1>d, <3>a DEF MyRun
      <3>1. pc[v] \in Working /\ SlotHeld(v) /\ claim'[v] = claim[v]
            /\ MyRun(v)'.epoch = MyRun(v).epoch
        BY <1>10, <3>a, <3>b
      <3>2. CASE claim[v].run = r /\ claim[v].index = i
        BY <1>6, <1>11, <2>2, <3>1, <3>2 DEF MyRun
      <3>3. CASE ~(claim[v].run = r /\ claim[v].index = i)
        <4>1. MyTrial(v)' = MyTrial(v)
          BY <1>3, <1>5, <3>1, <3>3 DEF MyTrial
        <4>2. QED
          BY <3>1, <4>1 DEF WorkerInv, Kept
      <3>4. QED
        BY <3>2, <3>3
    <2>3. QED
      BY <2>1, <2>2
  <1>15. OneClaimPerEpoch'
    <2>1. ASSUME NEW v \in Workers, v # w, (pc[v] \in Working)', SlotHeld(v)',
                 claim'[v].run = claim'[w].run, claim'[v].index = claim'[w].index
          PROVE  claim'[v].epoch # claim'[w].epoch
      <3>1. claim[v].epoch < run[r].epoch
        BY <1>9, <1>a, <1>10, <1>11, <2>1
      <3>2. claim[v].epoch \in Nat /\ run[r].epoch \in Nat
        BY <1>3, SizeAssumption DEF RunRow, ClaimRecord
      <3>3. QED
        BY <1>9, <1>a, <2>1, <3>1, <3>2
    <2>2. ASSUME NEW u \in Workers, NEW v \in Workers, u # v, u # w, v # w,
                 (pc[u] \in Working)', SlotHeld(u)', (pc[v] \in Working)', SlotHeld(v)',
                 claim'[u].run = claim'[v].run, claim'[u].index = claim'[v].index
          PROVE  claim'[u].epoch # claim'[v].epoch
      BY <1>9, <1>10, <2>2 DEF WorkerInv, OneClaimPerEpoch
    <2>3. QED
      BY <2>1, <2>2 DEF OneClaimPerEpoch
  <1>16. CallsHeld'
    BY <1>9, <1>10 DEF WorkerInv, CallsHeld, Calling
  <1>17. QED
    BY <1>7, <1>8, <1>12, <1>13, <1>14, <1>15, <1>16 DEF WorkerInv

-----------------------------------------------------------------------------
(* Time.                                                                   *)

\* The invariant survives the end of a backoff.
LEMMA BackoffKeeps ==
  ASSUME IInv, NEW r \in Runs, BackoffEnds(r)
  PROVE  IInv'
  <1> USE DEF IInv
  <1>1. /\ UNCHANGED <<open, rev, trial, slot, pc, claim, faults>>
        /\ run' = [run EXCEPT ![r].waiting = FALSE]
        /\ run[r].status \in {"queued", "running"}
    BY DEF BackoffEnds, workerVars
  <1>2. run \in [Runs -> RunRow] /\ run' \in [Runs -> RunRow]
    BY <1>1 DEF TypeOK, RunRow
  <1>3. ASSUME NEW q \in Runs
        PROVE  /\ run'[q].status = run[q].status /\ run'[q].epoch = run[q].epoch
               /\ run'[q].failures = run[q].failures
               /\ run[q].status = "none" => run'[q] = run[q]
    BY <1>1, <1>2 DEF RunRow
  <1>4. TypeOK'
    BY <1>1, <1>2 DEF TypeOK
  <1>5. TableInv'
    <2>1. Budget' /\ LeasedIsRunning' /\ Unfinished' /\ TrialEpochs'
      BY <1>1, <1>3 DEF TableInv, Budget, LeasedIsRunning, Unfinished, TrialEpochs, NoLease
    <2>2. Unregistered'
      BY <1>1, <1>3 DEF TableInv, Unregistered, NoRun, NewRun, NoTrial
    <2>3. QED
      BY <2>1, <2>2 DEF TableInv
  <1>6. ASSUME NEW v \in Workers
        PROVE  /\ MyRun(v)'.epoch = MyRun(v).epoch /\ MyRun(v)'.status = MyRun(v).status
               /\ MyTrial(v)' = MyTrial(v) /\ (SlotHeld(v)' <=> SlotHeld(v))
               /\ pc'[v] = pc[v] /\ claim'[v] = claim[v]
    BY <1>1, <1>3, Shapes DEF MyRun, MyTrial, SlotHeld
  <1>7. WorkerInv'
    BY <1>6 DEF WorkerInv, OwnTokens, ClaimEpochs, Kept, OneClaimPerEpoch, CallsHeld, Calling
  <1>8. QED
    BY <1>4, <1>5, <1>7

\* The invariant survives the end of a lease: slot and trial end together.
LEMMA ExpireKeeps ==
  ASSUME IInv, NEW tok \in Tokens, Expire(tok)
  PROVE  IInv'
  <1> USE DEF IInv
  <1>1. /\ UNCHANGED <<open, rev, run, pc, claim>>
        /\ \A w \in Holders(tok) : pc[w] # "calling"
        /\ slot' = [s \in Slots |-> IF s \in LeasedSlots(tok)
                                     THEN RunOut(slot[s]) ELSE slot[s]]
        /\ trial' = [r \in Runs |-> [i \in Trials |->
                       IF <<r, i>> \in LeasedTrials(tok)
                         THEN [trial[r][i] EXCEPT !.lease = RunOut(@)] ELSE trial[r][i]]]
    BY DEF Expire
  <1>2. slot \in [Slots -> Lease] /\ \A r \in Runs, i \in Trials : trial[r][i] \in TrialRow
    BY Shapes DEF TypeOK
  <1>3. ASSUME NEW r \in Runs, NEW i \in Trials
        PROVE  /\ trial'[r][i] \in TrialRow
               /\ trial'[r][i].status = trial[r][i].status
               /\ trial'[r][i].epoch = trial[r][i].epoch
               /\ trial[r][i].lease # [token |-> tok, live |-> TRUE] =>
                    trial'[r][i] = trial[r][i]
    <2>1. trial'[r][i] = IF <<r, i>> \in LeasedTrials(tok)
                           THEN [trial[r][i] EXCEPT !.lease = RunOut(@)] ELSE trial[r][i]
      BY <1>1
    <2>2. <<r, i>> \in LeasedTrials(tok) => trial[r][i].lease = [token |-> tok, live |-> TRUE]
      BY DEF LeasedTrials
    <2>3. trial[r][i].lease \in Lease /\ RunOut(trial[r][i].lease) \in Lease
      BY <1>2 DEF TrialRow, Lease, RunOut
    <2>4. QED
      BY <1>2, <2>1, <2>2, <2>3 DEF TrialRow
  <1>4. TypeOK'
    <2>1. trial' \in [Runs -> [Trials -> TrialRow]]
      <3>1. trial' = [r \in Runs |-> [i \in Trials |-> trial'[r][i]]]
        BY <1>1
      <3>2. QED
        BY <3>1, <1>3
    <2>2. slot' \in [Slots -> Lease]
      BY <1>1, <1>2 DEF RunOut, Lease
    <2>3. faults' \in 0..MaxFaults
      BY SizeAssumption DEF Expire, Fault, TypeOK
    <2>4. QED
      BY <1>1, <2>1, <2>2, <2>3 DEF TypeOK
  <1>6. TableInv'
    <2>1. Budget' /\ Unfinished' /\ TrialEpochs'
      <3>1. \A r \in Runs, i \in Trials :
               /\ trial'[r][i].status = trial[r][i].status
               /\ trial'[r][i].epoch = trial[r][i].epoch
        BY <1>3
      <3>2. run' = run /\ rev' = rev
        BY <1>1
      <3>3. Budget' /\ TrialEpochs'
        BY <3>1, <3>2 DEF TableInv, Budget, TrialEpochs
      <3>4. Unfinished'
        BY <3>1, <3>2 DEF TableInv, Unfinished
      <3>5. QED
        BY <3>3, <3>4
    <2>2. LeasedIsRunning'
      <3> SUFFICES ASSUME NEW r \in Runs, NEW i \in Trials, trial'[r][i].status # "running"
                   PROVE  trial'[r][i].lease = NoLease
        BY DEF LeasedIsRunning, NoLease
      <3>1. trial[r][i].lease = NoLease
        BY <1>3 DEF TableInv, LeasedIsRunning
      <3>2. trial'[r][i] = trial[r][i]
        BY <1>3, <3>1, TokenAssumption DEF NoLease
      <3>3. QED
        BY <3>1, <3>2
    <2>3. Unregistered'
      <3> SUFFICES ASSUME NEW r \in Runs, run'[r].status = "none", NEW i \in Trials
                   PROVE  run'[r] = NoRun /\ trial'[r][i] = NoTrial
        BY Constants DEF Unregistered, NoRun, NewRun, NoTrial, NoLease
      <3>1. run'[r] = NoRun /\ trial[r][i] = NoTrial
        BY <1>1 DEF TableInv, Unregistered
      <3>2. trial'[r][i] = trial[r][i]
        BY <1>3, <3>1, TokenAssumption DEF NoTrial, NoLease
      <3>3. QED
        BY <3>1, <3>2
    <2>4. QED
      BY <2>1, <2>2, <2>3 DEF TableInv
  <1>7. ASSUME NEW v \in Workers
        PROVE  /\ MyRun(v)' = MyRun(v) /\ pc'[v] = pc[v] /\ claim'[v] = claim[v]
               /\ SlotHeld(v)' => SlotHeld(v) /\ claim[v].token # tok
               /\ SlotHeld(v) /\ claim[v].token # tok => SlotHeld(v)'
    <2>1. claim[v].slot \in Slots
      BY Shapes
    <2>2. slot'[claim[v].slot] = IF slot[claim[v].slot] = [token |-> tok, live |-> TRUE]
                                   THEN RunOut(slot[claim[v].slot]) ELSE slot[claim[v].slot]
      BY <1>1, <2>1 DEF LeasedSlots
    <2>3. MyRun(v)' = MyRun(v) /\ pc'[v] = pc[v] /\ claim'[v] = claim[v]
      BY <1>1 DEF MyRun
    <2>4. RunOut(slot[claim[v].slot]) # [token |-> claim[v].token, live |-> TRUE]
      BY DEF RunOut
    <2>5. SlotHeld(v)' <=> slot'[claim[v].slot] = [token |-> claim[v].token, live |-> TRUE]
      BY <2>3 DEF SlotHeld
    <2>6. SlotHeld(v)' => SlotHeld(v) /\ claim[v].token # tok
      BY <2>2, <2>4, <2>5 DEF SlotHeld
    <2>7. SlotHeld(v) /\ claim[v].token # tok => SlotHeld(v)'
      BY <2>2, <2>5 DEF SlotHeld
    <2>8. QED
      BY <2>3, <2>6, <2>7
  <1>8. OwnTokens' /\ ClaimEpochs' /\ OneClaimPerEpoch'
    BY <1>7 DEF WorkerInv, OwnTokens, ClaimEpochs, OneClaimPerEpoch
  <1>9. Kept'
    <2> SUFFICES ASSUME NEW w \in Workers, (pc[w] \in Working)', SlotHeld(w)'
                 PROVE  \/ (claim[w].epoch < MyRun(w).epoch)'
                        \/ (MyTrial(w) = [status |-> "running", epoch |-> claim[w].epoch,
                              lease |-> [token |-> claim[w].token, live |-> TRUE]])'
      BY DEF Kept
    <2>1. pc[w] \in Working /\ SlotHeld(w) /\ claim[w].token # tok
      BY <1>7
    <2>2. CASE claim[w].epoch < MyRun(w).epoch
      BY <1>7, <2>2
    <2>3. CASE MyTrial(w) = [status |-> "running", epoch |-> claim[w].epoch,
                             lease |-> [token |-> claim[w].token, live |-> TRUE]]
      <3>1. claim[w].run \in Runs /\ claim[w].index \in Trials
        BY Shapes
      <3>2. MyTrial(w)' = MyTrial(w)
        BY <1>1, <1>3, <2>1, <2>3, <3>1 DEF MyTrial
      <3>3. QED
        BY <1>7, <2>3, <3>2
    <2>4. QED
      BY <2>1, <2>2, <2>3 DEF WorkerInv, Kept
  <1>10. CallsHeld'
    BY <1>1, <1>7 DEF WorkerInv, CallsHeld, Calling, Holders
  <1>11. QED
    BY <1>4, <1>6, <1>8, <1>9, <1>10 DEF WorkerInv

-----------------------------------------------------------------------------
(* The invariant.                                                          *)

LEMMA InitHolds == Init => IInv
  <1> SUFFICES ASSUME Init PROVE IInv
    OBVIOUS
  <1> USE DEF Init
  <1>1. TypeOK
    BY Constants, SizeAssumption DEF TypeOK
  <1>2. TableInv
    <2>1. \A r \in Runs, i \in Trials : trial[r][i] = NoTrial
      OBVIOUS
    <2>2. \A r \in Runs : run[r] = NoRun
      OBVIOUS
    <2>3. Budget /\ Unregistered
      BY <2>1, <2>2, SizeAssumption DEF Budget, Unregistered, NoRun, NewRun
    <2>4. LeasedIsRunning
      BY <2>1 DEF LeasedIsRunning, NoTrial
    <2>5. Unfinished
      BY <2>1, <2>2, Constants DEF Unfinished, NoTrial, NoRun, NewRun
    <2>6. TrialEpochs
      BY <2>1, <2>2 DEF TrialEpochs, NoTrial, NoRun, NewRun
    <2>7. QED
      BY <2>3, <2>4, <2>5, <2>6 DEF TableInv
  <1>3. WorkerInv
    BY DEF WorkerInv, OwnTokens, ClaimEpochs, Kept, OneClaimPerEpoch, CallsHeld, Calling,
           Working, Claimed, Outcomes, NoClaim, SlotOnly
  <1>4. QED
    BY <1>1, <1>2, <1>3 DEF IInv

LEMMA FaultCounts ==
  ASSUME TypeOK, Fault
  PROVE  faults' \in 0..MaxFaults
  BY SizeAssumption DEF Fault, TypeOK

\* What a step of a worker may be.
Worked(w) ==
  \/ ClaimSlot(w)
  \/ \E r \in Runs : ClaimTrial(w, r)
  \/ Stepped(w)
  \/ Settling(w) /\ Unfinished'
  \/ Left(w)

LEMMA WorkWorks ==
  ASSUME IInv, NEW w \in Workers, Work(w)
  PROVE  Worked(w)
  <1>1. CASE ClaimSlot(w) \/ \E r \in Runs : ClaimTrial(w, r)
    BY <1>1 DEF Worked
  <1>2. ASSUME NEW r \in Runs, ClaimNothing(w, r)
        PROVE  Worked(w)
    BY <1>2, SettledAloneSettles DEF ClaimNothing, Worked, IInv, TypeOK
  <1>3. CASE Fence(w) \/ Conclude(w) \/ StartCall(w) \/ EndCall(w)
    BY <1>3, WorkSteps DEF Worked, IInv
  <1>4. CASE CommitDone(w)
    BY <1>4, CommitDoneSettles DEF Worked
  <1>5. CASE CommitRetry(w)
    BY <1>5, CommitRetrySettles DEF Worked
  <1>6. CASE ReturnStale(w)
    BY <1>6, HandBackSettles DEF ReturnStale, Claimed, Outcomes, Worked, IInv, TypeOK
  <1>7. CASE Release(w)
    BY <1>7 DEF Release, Left, Worked, IInv, TypeOK
  <1>8. QED
    BY <1>1, <1>2, <1>3, <1>4, <1>5, <1>6, <1>7 DEF Work

LEMMA FailWorks ==
  ASSUME IInv, NEW w \in Workers, Fail(w)
  PROVE  Worked(w)
  <1>1. CASE ReleaseUnstarted(w)
    BY <1>1, FaultCounts, HandBackSettles DEF ReleaseUnstarted, Claimed, Worked, IInv
  <1>2. CASE DbError(w)
    BY <1>2, FaultCounts, SettledAloneSettles DEF DbError, Outcomes, Worked, IInv
  <1>3. CASE Crash(w)
    BY <1>3, FaultCounts DEF Crash, Left, Worked, IInv
  <1>4. QED
    BY <1>1, <1>2, <1>3 DEF Fail

\* The kinds of steps that the proofs tell apart.
LEMMA NextCases ==
  ASSUME IInv, Next
  PROVE  \/ Operated
         \/ \E tok \in Tokens : Expire(tok)
         \/ \E r \in Runs : BackoffEnds(r)
         \/ \E w \in Workers : Worked(w)
  <1>1. CASE Operate
    BY <1>1, OperateOperates DEF IInv
  <1>2. CASE Time
    BY <1>2 DEF Time
  <1>3. ASSUME NEW w \in Workers, Work(w) \/ Fail(w)
        PROVE  Worked(w)
    BY <1>3, WorkWorks, FailWorks
  <1>4. QED
    BY <1>1, <1>2, <1>3 DEF Next

LEMMA NextKeeps == IInv /\ [Next]_vars => IInv'
  <1> SUFFICES ASSUME IInv, [Next]_vars PROVE IInv'
    OBVIOUS
  <1>1. CASE Operated
    BY <1>1, OperateKeeps
  <1>2. CASE (\E tok \in Tokens : Expire(tok)) \/ (\E r \in Runs : BackoffEnds(r))
    BY <1>2, ExpireKeeps, BackoffKeeps
  <1>3. ASSUME NEW w \in Workers, Worked(w)
        PROVE  IInv'
    BY <1>3, ClaimSlotKeeps, ClaimTrialKeeps, StepKeeps, SettleKeeps, LeaveKeeps DEF Worked
  <1>4. CASE UNCHANGED vars
    <2> USE <1>4 DEF vars, IInv
    <2>1. TypeOK'
      BY DEF TypeOK
    <2>2. TableInv'
      BY TablesAlone
    <2>3. WorkerInv'
      BY DEF WorkerInv, OwnTokens, ClaimEpochs, Kept, OneClaimPerEpoch, CallsHeld, Calling,
             MyRun, MyTrial, SlotHeld
    <2>4. QED
      BY <2>1, <2>2, <2>3
  <1>5. QED
    BY <1>1, <1>2, <1>3, <1>4, NextCases

\* What makes the theorems below provable holds in every state: the tables agree
\* with each other and no two workers hold one trial in one epoch (lib/jevAuto.ts,
\* lib/jevRuntime.ts).
THEOREM Inductive == Spec => []IInv
  BY InitHolds, NextKeeps, PTL DEF Spec

\* The rows of the run, trial and slot tables and the claims of the workers stay
\* within the values the schema and the code give them (migrations and
\* lib/jevAuto.ts), whatever the number of workers and the order of their steps.
THEOREM TypeCorrect == Spec => []TypeOK
  <1>1. IInv => TypeOK
    BY DEF IInv
  <1>2. QED
    BY <1>1, Inductive, PTL

\* A run that is queued, running, failed or completed is completed exactly when
\* all its trials have their results: the batch of settleTrial and the guards of
\* resume, retry and handing back agree, for any number of trials and workers.
THEOREM CompletedCorrect == Spec => []CompletedIffAllDone
  <1>1. IInv => CompletedIffAllDone
    BY DEF IInv, TableInv, Unfinished, CompletedIffAllDone
  <1>2. QED
    BY <1>1, Inductive, PTL

\* Two upstream calls for one trial overlap only if the run entered a new epoch
\* between their claims: claimAutoTrial's lease and epoch conditions and the
\* slot lease give each trial one paying worker per epoch.
THEOREM PaidOnce == Spec => []NoDoublePay
  <1>1. IInv => NoDoublePay
    BY DEF IInv, WorkerInv, CallsHeld, OneClaimPerEpoch, NoDoublePay, Calling, Working
  <1>2. QED
    BY <1>1, Inductive, PTL

-----------------------------------------------------------------------------
(* A fenced claim stays fenced.                                            *)

\* A step of another worker leaves a worker's claim alone and cannot give it
\* back a slot it has lost.
LEMMA OthersSlots ==
  ASSUME IInv, NEW w \in Workers, pc[w] \in Claimed, pc'[w] \in Claimed,
         NEW u \in Workers, Worked(u)
  PROVE  /\ SlotHeld(w)' => SlotHeld(w)
         /\ claim'[w].run = claim[w].run /\ claim'[w].index = claim[w].index
         /\ claim'[w].token = claim[w].token
  <1> USE DEF IInv
  <1>1. /\ pc \in [Workers -> {"idle", "slot", "release"} \cup Claimed]
        /\ claim \in [Workers -> ClaimRecord] /\ slot \in [Slots -> Lease]
        /\ claim[w].slot \in Slots /\ claim[u].slot \in Slots
    BY Shapes DEF TypeOK
  <1>2. {"idle", "slot", "release"} \cap Claimed = {}
    BY DEF Claimed, Outcomes
  <1>3. CASE Stepped(u)
    BY <1>3 DEF Stepped, SlotHeld
  <1>4. CASE ClaimSlot(u)
    <2>1. u # w
      BY <1>2, <1>4 DEF ClaimSlot
    <2>2. claim'[w] = claim[w]
      BY <1>1, <1>4, <2>1 DEF ClaimSlot
    <2>3. PICK s \in Slots : slot' = [slot EXCEPT ![s] = [token |-> FreshToken, live |-> TRUE]]
      BY <1>4 DEF ClaimSlot
    <2>4. claim[w].token # FreshToken
      BY <1>4, FreshTokenIsFresh DEF ClaimSlot
    <2>5. QED
      BY <1>1, <2>2, <2>3, <2>4 DEF SlotHeld
  <1>5. ASSUME NEW r \in Runs, ClaimTrial(u, r)
        PROVE  claim'[w] = claim[w] /\ slot' = slot
    <2>1. u # w
      BY <1>2, <1>5 DEF ClaimTrial
    <2>2. QED
      BY <1>1, <1>5, <2>1 DEF ClaimTrial
  <1>6. CASE Settling(u)
    <2>1. u # w
      BY <1>1, <1>2, <1>6 DEF Settling, Settled, GoTo
    <2>2. claim'[w] = claim[w] /\ slot' = slot
      BY <1>1, <1>6, <2>1 DEF Settling, Settled
    <2>3. QED
      BY <2>2 DEF SlotHeld
  <1>7. CASE Left(u)
    <2>1. u # w
      BY <1>1, <1>2, <1>7 DEF Left, GoTo
    <2>2. claim'[w] = claim[w]
      BY <1>1, <1>7, <2>1 DEF Left
    <2>3. slot'[claim[w].slot] = slot[claim[w].slot] \/ slot'[claim[w].slot] = NoLease
      BY <1>1, <1>7 DEF Left
    <2>4. QED
      BY <2>2, <2>3 DEF SlotHeld, NoLease
  <1>8. QED
    BY <1>3, <1>4, <1>5, <1>6, <1>7 DEF Worked, SlotHeld

\* What a step of a worker does to the trial and the run of another one whose
\* claim is current after it.
LEMMA OthersTables ==
  ASSUME IInv, NEW w \in Workers, pc[w] \in Claimed, pc'[w] \in Claimed, TrialCurrent(w)',
         NEW u \in Workers, Worked(u)
  PROVE  /\ rev' = rev
         /\ MyTrial(w)' = MyTrial(w) /\ MyRun(w)'.epoch = MyRun(w).epoch
         /\ MyRun(w).status \in {"running", "failed"}
  <1> USE DEF IInv
  <1>1. /\ claim[w].run \in Runs /\ claim[w].index \in Trials
        /\ claim[u].run \in Runs /\ claim[u].index \in Trials
        /\ claim'[w].run = claim[w].run /\ claim'[w].index = claim[w].index
        /\ claim'[w].token = claim[w].token
    BY Shapes, OthersSlots
  <1>2. /\ trial'[claim[w].run][claim[w].index].lease = [token |-> claim[w].token, live |-> TRUE]
        /\ trial'[claim[w].run][claim[w].index].epoch = run'[claim[w].run].epoch
        /\ run'[claim[w].run].status \in {"running", "failed"}
    BY <1>1 DEF TrialCurrent, MyTrial, MyRun
  <1>3. CASE UNCHANGED <<rev, run, trial>>
    BY <1>1, <1>2, <1>3 DEF MyTrial, MyRun
  <1>4. CASE Settling(u)
    <2>1. Pending.lease.live = FALSE /\ Done.lease.live = FALSE
      BY DEF Pending, Done, NoLease
    <2>2. trial'[claim[w].run][claim[w].index] \in
            {trial[claim[w].run][claim[w].index], Pending, Done}
      <3>1. CASE UNCHANGED trial
        BY <3>1
      <3>2. ASSUME NEW row \in {Pending, Done}, SetTrial(claim[u].run, claim[u].index, row)
            PROVE  <2>2
        BY <1>1, <3>2, SetTrialRow, Constants
      <3>3. QED
        BY <1>4, <3>1, <3>2 DEF Settling
    <2>3. MyTrial(w)' = MyTrial(w)
      BY <1>1, <1>2, <2>1, <2>2 DEF MyTrial
    <2>4. /\ run'[claim[w].run].epoch = run[claim[w].run].epoch
          /\ run[claim[w].run].status \in {"running", "failed"}
      BY <1>1, <1>2, <1>4 DEF Settling
    <2>5. QED
      BY <1>1, <1>4, <2>3, <2>4 DEF Settling, MyRun
  <1>5. ASSUME NEW r \in Runs, ClaimTrial(u, r)
        PROVE  /\ rev' = rev
               /\ MyTrial(w)' = MyTrial(w) /\ MyRun(w)'.epoch = MyRun(w).epoch
               /\ MyRun(w).status \in {"running", "failed"}
    <2>1. u # w /\ pc[u] # "idle" /\ pc[w] # "idle"
      BY <1>5 DEF ClaimTrial, Claimed, Outcomes
    <2>2. claim[u].token # claim[w].token /\ claim[w].token # NoToken
      BY <2>1 DEF WorkerInv, OwnTokens
    <2>3. PICK i \in Trials :
            /\ Claimable(r, i)
            /\ SetTrial(r, i, [status |-> "running", epoch |-> run[r].epoch,
                               lease |-> [token |-> claim[u].token, live |-> SlotHeld(u)]])
      BY <1>5 DEF ClaimTrial
    <2>4. /\ run' = [run EXCEPT ![r].status = "running"] /\ rev' = rev
          /\ run \in [Runs -> RunRow] /\ trial \in [Runs -> [Trials -> TrialRow]]
      BY <1>5 DEF ClaimTrial, TypeOK
    <2>5. trial'[claim[w].run][claim[w].index] =
            IF claim[w].run = r /\ claim[w].index = i
              THEN [status |-> "running", epoch |-> run[r].epoch,
                    lease |-> [token |-> claim[u].token, live |-> SlotHeld(u)]]
              ELSE trial[claim[w].run][claim[w].index]
      BY <1>1, <2>3, <2>4 DEF SetTrial
    <2>6. trial'[claim[w].run][claim[w].index] = trial[claim[w].run][claim[w].index]
      BY <1>2, <2>2, <2>5
    <2>7. run'[claim[w].run].epoch = run[claim[w].run].epoch
      BY <1>1, <2>4 DEF RunRow
    <2>8. run[claim[w].run].status \in {"running", "failed"}
      <3>1. CASE claim[w].run # r
        BY <1>1, <1>2, <2>4, <3>1
      <3>2. CASE claim[w].run = r
        <4>1. trial[claim[w].run][claim[w].index].status = "running"
          BY <1>1, <1>2, <2>2, <2>6 DEF TableInv, LeasedIsRunning, NoLease
        <4>2. run[r].epoch \in Nat
          BY <2>4, SizeAssumption DEF RunRow
        <4>3. run[r].status # "queued"
          BY <1>1, <1>2, <2>6, <2>7, <3>2, <4>1, <4>2 DEF TableInv, TrialEpochs
        <4>4. run[r].status \in {"queued", "running"}
          BY <2>3 DEF Claimable
        <4>5. QED
          BY <3>2, <4>3, <4>4
      <3>3. QED
        BY <3>1, <3>2
    <2>9. QED
      BY <1>1, <2>4, <2>6, <2>7, <2>8 DEF MyTrial, MyRun
  <1>6. QED
    BY <1>3, <1>4, <1>5 DEF Worked, Stepped, ClaimSlot, Left

\* What students and the teacher do makes no claim current that was not.
LEMMA OperatedFences ==
  ASSUME IInv, NEW w \in Workers, pc[w] \in Claimed, TrialCurrent(w)', Operated
  PROVE  TrialCurrent(w)
  <1> USE DEF IInv
  <1>1. /\ slot' = slot /\ claim' = claim
        /\ claim[w].run \in Runs /\ claim[w].index \in Trials
    BY Shapes DEF Operated, workerVars
  <1> DEFINE r == claim[w].run
             i == claim[w].index
  <1>2. /\ trial'[r][i].lease = [token |-> claim[w].token, live |-> TRUE]
        /\ trial'[r][i].epoch = run'[r].epoch
        /\ run'[r].status \in {"running", "failed"}
        /\ rev'[r[1]] = r[2] /\ SlotHeld(w)
    BY <1>1 DEF TrialCurrent, MyTrial, MyRun, SlotHeld, Latest
  <1>3. trial'[r][i] = trial[r][i]
    <2>1. Pending.lease.live = FALSE
      BY DEF Pending, NoLease
    <2>2. QED
      BY <1>1, <1>2, <2>1 DEF Operated
  <1>4. run'[r] = run[r]
    BY <1>1, <1>2 DEF Operated, Moved, Stop, Requeue, NewRun
  <1>5. rev[r[1]] = r[2]
    <2>1. r[1] \in Submissions /\ r[2] \in Nat
      BY <1>1 DEF Runs, Revisions
    <2>2. r[2] <= rev[r[1]]
      BY <1>1, <1>2, <1>4 DEF TableInv, TrialEpochs
    <2>3. rev[r[1]] \in Nat /\ rev'[r[1]] \in {rev[r[1]], rev[r[1]] + 1}
      BY <2>1, SizeAssumption DEF Operated, TypeOK
    <2>4. QED
      BY <1>2, <2>1, <2>2, <2>3
  <1>6. QED
    BY <1>2, <1>3, <1>4, <1>5 DEF TrialCurrent, MyTrial, MyRun, Latest

\* Nor does any other step.
LEMMA NextFences ==
  ASSUME IInv, Next, NEW w \in Workers, pc[w] \in Claimed, pc'[w] \in Claimed,
         TrialCurrent(w)'
  PROVE  TrialCurrent(w)
  <1> USE DEF IInv
  <1>1. /\ claim[w].run \in Runs /\ claim[w].index \in Trials /\ claim[w].slot \in Slots
        /\ run \in [Runs -> RunRow] /\ trial \in [Runs -> [Trials -> TrialRow]]
    BY Shapes DEF TypeOK
  <1>2. CASE Operated
    BY <1>2, OperatedFences
  <1>3. ASSUME NEW tok \in Tokens, Expire(tok)
        PROVE  TrialCurrent(w)
    <2>1. /\ claim' = claim /\ run' = run /\ rev' = rev
          /\ slot'[claim[w].slot] \in {slot[claim[w].slot], RunOut(slot[claim[w].slot])}
          /\ trial'[claim[w].run][claim[w].index] \in
               {trial[claim[w].run][claim[w].index],
                [trial[claim[w].run][claim[w].index] EXCEPT
                   !.lease = RunOut(trial[claim[w].run][claim[w].index].lease)]}
      BY <1>1, <1>3 DEF Expire
    <2>2. slot'[claim[w].slot].live = TRUE
          /\ trial'[claim[w].run][claim[w].index].lease.live = TRUE
      BY <2>1 DEF TrialCurrent, SlotHeld, MyTrial
    <2>3. slot'[claim[w].slot] = slot[claim[w].slot]
      BY <2>1, <2>2 DEF RunOut
    <2>4. trial'[claim[w].run][claim[w].index] = trial[claim[w].run][claim[w].index]
      <3>1. trial[claim[w].run][claim[w].index] \in TrialRow
        BY <1>1
      <3>2. QED
        BY <2>1, <2>2, <3>1 DEF RunOut, TrialRow
    <2>5. QED
      BY <2>1, <2>3, <2>4 DEF TrialCurrent, SlotHeld, MyTrial, MyRun, Latest
  <1>4. ASSUME NEW r \in Runs, BackoffEnds(r)
        PROVE  TrialCurrent(w)
    <2>1. /\ UNCHANGED <<rev, trial, slot, claim>>
          /\ run' = [run EXCEPT ![r].waiting = FALSE]
      BY <1>4 DEF BackoffEnds, workerVars
    <2>2. /\ run'[claim[w].run].status = run[claim[w].run].status
          /\ run'[claim[w].run].epoch = run[claim[w].run].epoch
      BY <1>1, <2>1 DEF RunRow
    <2>3. QED
      BY <2>1, <2>2 DEF TrialCurrent, SlotHeld, MyTrial, MyRun, Latest
  <1>5. ASSUME NEW u \in Workers, Worked(u)
        PROVE  TrialCurrent(w)
    <2>1. /\ SlotHeld(w)' => SlotHeld(w)
          /\ claim'[w].run = claim[w].run /\ claim'[w].token = claim[w].token
      BY <1>5, OthersSlots
    <2>2. /\ rev' = rev
          /\ MyTrial(w)' = MyTrial(w) /\ MyRun(w)'.epoch = MyRun(w).epoch
          /\ MyRun(w).status \in {"running", "failed"}
      BY <1>5, OthersTables
    <2>3. QED
      BY <2>1, <2>2 DEF TrialCurrent, Latest
  <1>6. QED
    BY <1>2, <1>3, <1>4, <1>5, NextCases

\* A claim that TRIAL_CURRENT_SQL has fenced out is never current again, whoever
\* acts next: epochs, revisions and tokens only move on, and reopening a run
\* starts a new epoch.
THEOREM FencedOut == Spec => StoppedStaysStopped
  <1>1. IInv /\ [Next]_vars
          => [\A w \in Workers :
                /\ pc[w] \in Claimed /\ pc'[w] \in Claimed
                /\ ~TrialCurrent(w)
                => ~TrialCurrent(w)']_vars
    BY NextFences
  <1>2. QED
    BY <1>1, Inductive, PTL DEF Spec, StoppedStaysStopped

-----------------------------------------------------------------------------
(* Automatic grading implements the ledger.                                *)

LEMMA Phases ==
  /\ PhaseOf("none") = "absent"
  /\ PhaseOf("queued") = "open" /\ PhaseOf("running") = "open" /\ PhaseOf("failed") = "open"
  /\ PhaseOf("cancelled") = "paused" /\ PhaseOf("superseded") = "retired"
  /\ PhaseOf("completed") = "closed" /\ PhaseOf("skipped") = "closed"
  /\ PhaseOf("transferred") = "closed"
  BY DEF PhaseOf

\* What a step makes of one run in the ledger.
LedgerStep(r) ==
  Ledger!Same(r) \/ Ledger!Register(r) \/ Ledger!Record(r) \/ Ledger!Move(r)

\* A run whose phase and results are the same before and after.
LEMMA LedgerSame ==
  ASSUME NEW r \in Runs, PhaseOf(run'[r].status) = PhaseOf(run[r].status),
         \A i \in Trials : trial'[r][i].status = "done" <=> trial[r][i].status = "done"
  PROVE  LedgerStep(r)
  BY DEF LedgerStep, Ledger!Same, Phase, Results

\* What students and the teacher do is a registration or a move of the ledger.
LEMMA OperatedLedger ==
  ASSUME IInv, Operated, NEW r \in Runs
  PROVE  LedgerStep(r)
  <1>1. \A i \in Trials : trial'[r][i].status = "done" <=> trial[r][i].status = "done"
    BY DEF Operated, Pending
  <1>2. Results'[r] = Results[r]
    BY <1>1 DEF Results
  <1>3. Phase[r] = PhaseOf(run[r].status) /\ Phase'[r] = PhaseOf(run'[r].status)
    BY DEF Phase
  <1>4. CASE run'[r] = run[r]
    BY <1>1, <1>4, LedgerSame
  <1>5. CASE /\ run[r].status = "none" /\ run'[r] \in {NewRun("queued"), NewRun("skipped")}
    <2>1. Phase[r] = "absent" /\ Phase'[r] \in {"open", "closed"}
      BY <1>3, <1>5, Phases DEF NewRun
    <2>2. QED
      BY <1>2, <2>1 DEF LedgerStep, Ledger!Register
  <1>6. CASE /\ run[r].status = "failed" /\ run'[r] = Requeue(run[r])
    <2>1. PhaseOf(run'[r].status) = PhaseOf(run[r].status)
      BY <1>6, Phases DEF Requeue
    <2>2. QED
      BY <1>1, <2>1, LedgerSame
  <1>7. CASE \/ /\ run[r].status \in {"queued", "running", "failed"}
                /\ run'[r].status \in {"cancelled", "superseded"}
             \/ /\ run[r].status \in {"failed", "cancelled", "superseded"}
                /\ run'[r].status = "transferred"
             \/ /\ run[r].status = "cancelled" /\ run'[r].status = "queued"
    <2>1. <<Phase[r], Phase'[r]>> \in
            {<<"open", "paused">>, <<"paused", "open">>, <<"open", "retired">>,
             <<"open", "closed">>, <<"paused", "closed">>, <<"retired", "closed">>}
      BY <1>3, <1>7, Phases
    <2>2. QED
      BY <1>2, <2>1 DEF LedgerStep, Ledger!Move
  <1>8. QED
    BY <1>4, <1>5, <1>6, <1>7 DEF Operated, Moved, Stop, Requeue

\* The commit of a result is the ledger's Record; an outcome without a result
\* changes nothing in the ledger.
LEMMA SettlingLedger ==
  ASSUME IInv, NEW w \in Workers, Settling(w), Unfinished', NEW r \in Runs
  PROVE  LedgerStep(r)
  <1> USE DEF IInv
  <1>1. /\ claim[w].run \in Runs /\ claim[w].index \in Trials
        /\ trial \in [Runs -> [Trials -> TrialRow]]
    BY Shapes DEF TypeOK
  <1>2. /\ run[r].status \in {"running", "failed"} =>
             \E i \in Trials : trial[r][i].status # "done"
        /\ run'[r].status \in {"running", "failed"} =>
             \E i \in Trials : trial'[r][i].status # "done"
        /\ run'[r].status = "completed" => \A i \in Trials : trial'[r][i].status = "done"
    BY DEF TableInv, Unfinished
  <1>3. ASSUME \A i \in Trials : trial'[r][i].status = "done" <=> trial[r][i].status = "done"
        PROVE  LedgerStep(r)
    <2>1. CASE run'[r] = run[r]
      BY <1>3, <2>1, LedgerSame
    <2>2. CASE run'[r] # run[r]
      <3>1. run[r].status \in {"running", "failed"} /\ run'[r].status \in {"running", "failed"}
        BY <1>2, <1>3, <2>2 DEF Settling
      <3>2. PhaseOf(run'[r].status) = PhaseOf(run[r].status)
        BY <3>1, Phases
      <3>3. QED
        BY <1>3, <3>2, LedgerSame
    <2>3. QED
      BY <2>1, <2>2
  <1>4. CASE UNCHANGED trial
    BY <1>3, <1>4
  <1>5. ASSUME NEW row \in {Pending, Done}, SetTrial(claim[w].run, claim[w].index, row)
        PROVE  \A q \in Runs, j \in Trials :
                 trial'[q][j] = IF q = claim[w].run /\ j = claim[w].index
                                  THEN row ELSE trial[q][j]
    BY <1>1, <1>5, SetTrialRow, Constants
  <1>6. ASSUME pc[w] \in Claimed, MyTrial(w).lease.token = claim[w].token
        PROVE  trial[claim[w].run][claim[w].index].status = "running"
    <2>1. pc[w] # "idle"
      BY DEF Settling
    <2>2. QED
      BY <1>6, <2>1, LeasedUnfinished DEF MyTrial
  <1>7. CASE /\ pc[w] \in Claimed /\ MyTrial(w).lease.token = claim[w].token
             /\ SetTrial(claim[w].run, claim[w].index, Pending)
    <2>1. Pending.status # "done"
      BY DEF Pending
    <2>2. QED
      BY <1>3, <1>5, <1>6, <1>7, <2>1
  <1>8. CASE /\ pc[w] \in Claimed /\ MyTrial(w).lease.token = claim[w].token
             /\ SetTrial(claim[w].run, claim[w].index, Done) /\ Accepts(w)
    <2>1. CASE r # claim[w].run
      BY <1>3, <1>5, <1>8, <2>1
    <2>2. CASE r = claim[w].run
      <3>1. Done.status = "done" /\ trial[r][claim[w].index].status # "done"
        BY <1>6, <1>8, <2>2 DEF Done
      <3>2. \A j \in Trials : trial'[r][j] = IF j = claim[w].index THEN Done ELSE trial[r][j]
        BY <1>5, <1>8, <2>2
      <3>3. /\ claim[w].index \in Trials \ Results[r]
            /\ Results'[r] = Results[r] \cup {claim[w].index}
        BY <1>1, <3>1, <3>2 DEF Results
      <3>4. run[r].status \in {"running", "failed"} /\ rev[r[1]] = r[2]
        BY <1>8, <2>2 DEF Accepts, MyRun, Latest
      <3>5. run'[r].status \in {"running", "failed", "completed"}
        BY <3>4 DEF Settling
      <3>6. run'[r].status = "completed" <=> Results'[r] = Trials
        <4>1. Results'[r] = Trials <=> \A i \in Trials : trial'[r][i].status = "done"
          BY DEF Results
        <4>2. QED
          BY <1>2, <3>5, <4>1
      <3>7. Phase[r] = "open" /\ Phase'[r] = IF Results'[r] = Trials THEN "closed" ELSE "open"
        BY <3>4, <3>5, <3>6, Phases DEF Phase
      <3>8. QED
        BY <3>3, <3>4, <3>7 DEF LedgerStep, Ledger!Record
    <2>3. QED
      BY <2>1, <2>2
  <1>9. QED
    BY <1>4, <1>7, <1>8 DEF Settling

\* Every step of automatic grading is a step of the ledger.
LEMMA NextLedger ==
  ASSUME IInv, Next
  PROVE  Ledger!Next
  <1> USE DEF IInv
  <1>1. /\ run \in [Runs -> RunRow] /\ trial \in [Runs -> [Trials -> TrialRow]]
    BY DEF TypeOK
  <1>2. CASE Operated
    <2>1. \A r \in Runs : LedgerStep(r)
      BY <1>2, OperatedLedger
    <2>2. QED
      BY <1>2, <2>1 DEF Operated, LedgerStep, Ledger!Next, Ledger!Runs, Runs
  <1>3. ASSUME rev' = rev, \A r \in Runs : LedgerStep(r)
        PROVE  Ledger!Next
    BY <1>3 DEF LedgerStep, Ledger!Next, Ledger!Runs, Runs
  <1>4. CASE UNCHANGED <<rev, run, trial>>
    BY <1>3, <1>4, LedgerSame
  <1>5. ASSUME NEW tok \in Tokens, Expire(tok)
        PROVE  Ledger!Next
    <2>1. rev' = rev /\ run' = run
      BY <1>5 DEF Expire
    <2>2. ASSUME NEW r \in Runs, NEW i \in Trials
          PROVE  trial'[r][i].status = trial[r][i].status
      <3>1. trial'[r][i] = trial[r][i]
            \/ trial'[r][i] = [trial[r][i] EXCEPT !.lease = RunOut(trial[r][i].lease)]
        BY <1>5 DEF Expire
      <3>2. trial[r][i] \in TrialRow
        BY <1>1
      <3>3. QED
        BY <3>1, <3>2 DEF TrialRow
    <2>3. \A r \in Runs : LedgerStep(r)
      BY <2>1, <2>2, LedgerSame
    <2>4. QED
      BY <1>3, <2>1, <2>3
  <1>6. ASSUME NEW q \in Runs, BackoffEnds(q)
        PROVE  Ledger!Next
    <2>1. rev' = rev /\ trial' = trial /\ run' = [run EXCEPT ![q].waiting = FALSE]
      BY <1>6 DEF BackoffEnds
    <2>2. \A r \in Runs : run'[r].status = run[r].status
      BY <1>1, <2>1 DEF RunRow
    <2>3. \A r \in Runs : LedgerStep(r)
      BY <2>1, <2>2, LedgerSame
    <2>4. QED
      BY <1>3, <2>1, <2>3
  <1>7. ASSUME NEW w \in Workers, Settling(w), Unfinished'
        PROVE  Ledger!Next
    <2>1. rev' = rev
      BY <1>7 DEF Settling
    <2>2. \A r \in Runs : LedgerStep(r)
      BY <1>7, SettlingLedger
    <2>3. QED
      BY <1>3, <2>1, <2>2
  <1>8. ASSUME NEW w \in Workers, NEW q \in Runs, ClaimTrial(w, q)
        PROVE  Ledger!Next
    <2>1. PICK i \in Trials :
            /\ Claimable(q, i)
            /\ SetTrial(q, i, [status |-> "running", epoch |-> run[q].epoch,
                               lease |-> [token |-> claim[w].token, live |-> SlotHeld(w)]])
      BY <1>8 DEF ClaimTrial
    <2>2. rev' = rev /\ run' = [run EXCEPT ![q].status = "running"]
      BY <1>8 DEF ClaimTrial
    <2>3. run[q].status \in {"queued", "running"} /\ trial[q][i].status # "done"
      BY <2>1 DEF Claimable
    <2>4. \A r \in Runs, j \in Trials :
            ~(r = q /\ j = i) => trial'[r][j] = trial[r][j]
      BY <1>1, <2>1 DEF SetTrial
    <2>5. trial'[q][i].status = "running"
      BY <1>1, <2>1 DEF SetTrial
    <2>6. \A r \in Runs, j \in Trials :
            trial'[r][j].status = "done" <=> trial[r][j].status = "done"
      BY <2>3, <2>4, <2>5
    <2>7. \A r \in Runs : PhaseOf(run'[r].status) = PhaseOf(run[r].status)
      <3>1. run'[q].status = "running" /\ \A r \in Runs : r # q => run'[r] = run[r]
        BY <1>1, <2>2 DEF RunRow
      <3>2. QED
        BY <2>3, <3>1, Phases
    <2>8. QED
      BY <1>3, <2>2, <2>6, <2>7, LedgerSame
  <1>9. QED
    BY <1>2, <1>4, <1>5, <1>6, <1>7, <1>8, NextCases DEF Worked, Stepped, ClaimSlot, Left

\* Automatic grading implements the ledger, whatever the number of students,
\* workers and trials: one result per trial, only for the latest revision of a
\* run that is open, the last result closes the run in the same batch, and
\* superseded, completed and transferred runs never reopen (lib/jevAuto.ts).
THEOREM LedgerImplemented == Spec => ImplementsLedger
  <1>1. Init => Ledger!Init
    <2> SUFFICES ASSUME Init PROVE Ledger!Init
      OBVIOUS
    <2>1. Phase = [r \in Runs |-> "absent"]
      BY Phases DEF Init, Phase, NoRun, NewRun
    <2>2. Results = [r \in Runs |-> {}]
      BY DEF Init, Results, NoTrial
    <2>3. QED
      BY <2>1, <2>2 DEF Init, Ledger!Init, Ledger!Runs, Runs
  <1>2. IInv /\ [Next]_vars => [Ledger!Next]_(Ledger!lvars)
    <2>1. UNCHANGED vars => UNCHANGED Ledger!lvars
      BY DEF vars, Ledger!lvars, Phase, Results
    <2>2. QED
      BY <2>1, NextLedger
  <1>3. QED
    BY <1>1, <1>2, Inductive, PTL DEF Spec, ImplementsLedger, Ledger!Spec

=============================================================================
