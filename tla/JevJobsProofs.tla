--------------------------- MODULE JevJobsProofs ---------------------------
(***************************************************************************)
(* Proofs about JevJobs for any number of jobs, submissions, trials, slots *)
(* and requests.                                                           *)
(*                                                                         *)
(* An item is changed by its job's lease holder alone, and a request that  *)
(* holds the lease has seen the item as it still is (HeldBy): so a commit  *)
(* never takes trials back, however many requests overlap, lose their      *)
(* lease, die or are cancelled.  A request that goes beyond the automatic  *)
(* run found it settled, and a settled run never changes (RequestOK).      *)
(***************************************************************************)
EXTENDS JevJobs, FiniteSetTheorems, WellFoundedInduction, TLAPS

\* The automatic run is over for good.
Over(s) == auto[s].status \notin {"active", "failed", "cancelled"}
Reusable(s) == Smaller(auto[s].done, TRIALS)

\* A run that may still get a result lacks one; one that never was has none.
AutoOK(s) ==
  /\ ~Over(s) => auto[s].done < AUTO_TRIALS
  /\ auto[s].status \in {"none", "skipped"} => auto[s].done = 0

\* What is saved of an item: from a run that is over, all of it, and evaluated
\* exactly when it is complete.
ItemOK(j, s) ==
  LET row == item[j][s]
  IN  /\ row.reused <= row.trials
      /\ row.trials > 0 => Over(s) /\ row.reused = Reusable(s)
      /\ row.status = "none" => row.trials = 0
      /\ row.status = "skipped" => s \in Unexecutable
      /\ row.status = "completed" => s \notin Unexecutable
      /\ evaluations[j][s] = IF row.status = "completed" THEN TRIALS ELSE 0

\* The status of a job fits its items.
JobOK(j) ==
  \A s \in Submissions :
    /\ item[j][s].status = "none" <=> job[j].status = "none"
    /\ job[j].status = "completed" => item[j][s].status \in {"completed", "skipped"}
    /\ item[j][s].status = "failed" => job[j].status = "failed"

\* What a request knows at each of its stages, with the lease or without.
RequestOK(r) ==
  LET row == req[r]
  IN  /\ row.reused <= row.trials
      /\ row.pc \in {"auto", "transfer", "load"} => row.trials = 0
      /\ row.pc \in {"load", "claim", "ready", "calling"} => Over(row.sub)
      /\ row.pc \in {"claim", "ready", "calling"} => row.reused = Reusable(row.sub)
      /\ row.pc = "commit" /\ row.trials > 0 =>
           Over(row.sub) /\ row.reused = Reusable(row.sub)
      /\ row.pc \in {"ready", "calling"} => row.trials + row.wave <= TRIALS
      /\ row.pc \in {"auto", "transfer", "load", "claim", "ready", "calling"} =>
           row.status = "pending" /\ row.sub \notin Unexecutable
      /\ row.pc = "commit" =>
           row.status # "completed" /\ (row.status = "skipped" <=> row.sub \in Unexecutable)

JobStatuses == {"queued", "running", "none", "completed", "failed", "cancelled"}
Working == {"auto", "transfer", "load", "claim", "ready", "calling", "commit"}

\* While a request that has read its item holds the lease, the item is pending
\* and has no trial that the request does not know of.
HeldBy(r) ==
  LET row == req[r]
  IN  row.pc \in Working /\ job[row.job].lease = r =>
        /\ item[row.job][row.sub].status = "pending"
        /\ item[row.job][row.sub].trials <= row.trials

IInv ==
  /\ TypeOK
  /\ \A s \in Submissions : AutoOK(s)
  /\ \A j \in Jobs : JobOK(j)
  /\ \A j \in Jobs, s \in Submissions : ItemOK(j, s)
  /\ \A r \in Requests : RequestOK(r) /\ HeldBy(r)

-----------------------------------------------------------------------------
(* Operators.                                                              *)

\* A set of numbers that is not empty has a least one.
LEMMA LeastIn ==
  ASSUME NEW S \in SUBSET Nat, S # {}
  PROVE  Least(S) \in S /\ \A y \in S : Least(S) <= y
  <1> DEFINE Less == {p \in Nat \X Nat : p[1] < p[2]}
  <1>1. IsWellFoundedOn(Less, Nat)
    BY NatLessThanWellFounded DEF OpToRel
  <1> HIDE DEF Less
  <1>2. PICK x \in S : \A y \in S : ~ (<<y, x>> \in Less)
    BY <1>1, WFMin
  <1>3. ASSUME NEW y \in S PROVE x <= y
    <2>1. <<y, x>> \in Nat \X Nat /\ <<y, x>> \notin Less
      BY <1>2
    <2>2. ~ (<<y, x>>[1] < <<y, x>>[2])
      BY <2>1 DEF Less
    <2>3. QED
      BY <2>2
  <1>4. QED
    BY <1>3 DEF Least

LEMMA IdleTyped == IdleRequest \in RequestRow /\ IdleRequest.pc = "idle"
  <1>1. Least(Jobs) \in Jobs /\ Least(Submissions) \in Submissions
    BY LeastIn, JobsAssumption
  <1>2. QED
    BY <1>1, JobsAssumption DEF IdleRequest, RequestRow

\* An item that is read is one of the pending ones.
LEMMA PendingIn ==
  ASSUME NEW j \in Jobs, Pending(j) # {}
  PROVE  Least(Pending(j)) \in Submissions /\ item[j][Least(Pending(j))].status = "pending"
  <1>1. Pending(j) \in SUBSET Nat
    BY JobsAssumption DEF Pending
  <1>2. Least(Pending(j)) \in Pending(j)
    BY <1>1, LeastIn
  <1>3. QED
    BY <1>2 DEF Pending

-----------------------------------------------------------------------------
(* Types.                                                                  *)

\* What a request does to itself keeps the types if its new row has its type.
LEMMA MoveTyped ==
  ASSUME TypeOK, NEW r \in Requests, NEW row \in RequestRow,
         req' = [req EXCEPT ![r] = row]
  PROVE  req' \in [Requests -> RequestRow]
  BY DEF TypeOK

LEMMA GoToTyped ==
  ASSUME TypeOK, NEW r \in Requests,
         NEW pc \in {"locked", "auto", "transfer", "load", "claim", "ready",
                     "calling", "commit", "finish"},
         GoTo(r, pc)
  PROVE  /\ req' \in [Requests -> RequestRow]
         /\ req'[r] = [req[r] EXCEPT !.pc = pc]
         /\ \A q \in Requests : q # r => req'[q] = req[q]
  BY DEF TypeOK, GoTo, RequestRow

\* A lease that is given back leaves a typed job.
LEMMA ReleaseTyped ==
  ASSUME TypeOK, NEW r \in Requests, NEW status \in JobStatuses,
         ReleaseJob(r, status)
  PROVE  job' \in [Jobs -> JobRow]
  BY DEF TypeOK, ReleaseJob, Unleased, JobRow, RequestRow, JobStatuses, Active, NoOne

-----------------------------------------------------------------------------
(* A step that changes no item.                                            *)

\* It keeps the invariant if settled runs stay as they are, every job still
\* fits its items, and a request either knows what it must or has not moved
\* and was given no lease.
LEMMA ItemsAlone ==
  ASSUME IInv, TypeOK', UNCHANGED <<item, evaluations>>,
         \A s \in Submissions : AutoOK(s)' /\ (Over(s) => auto'[s] = auto[s]),
         \A j \in Jobs : JobOK(j)',
         \A r \in Requests :
           \/ RequestOK(r)' /\ HeldBy(r)'
           \/ /\ req'[r] = req[r]
              /\ job'[req[r].job].lease = r => job[req[r].job].lease = r
  PROVE  IInv'
  <1>1. ASSUME NEW s \in Submissions, Over(s)
        PROVE  Over(s)' /\ Reusable(s)' = Reusable(s)
    BY <1>1 DEF Over, Reusable
  <1>2. ASSUME NEW j \in Jobs, NEW s \in Submissions PROVE ItemOK(j, s)'
    BY <1>1 DEF IInv, ItemOK
  <1>3. ASSUME NEW r \in Requests, req'[r] = req[r] PROVE RequestOK(r)'
    <2>1. req[r].sub \in Submissions
      BY DEF IInv, TypeOK, RequestRow
    <2>2. RequestOK(r)
      BY DEF IInv
    <2>3. QED
      BY <1>1, <1>3, <2>1, <2>2 DEF RequestOK
  <1>4. ASSUME NEW r \in Requests, req'[r] = req[r],
               job'[req[r].job].lease = r => job[req[r].job].lease = r
        PROVE  HeldBy(r)'
    BY <1>4 DEF IInv, HeldBy
  <1>5. QED
    BY <1>2, <1>3, <1>4 DEF IInv

\* The jobs stay as they are, too.
LEMMA JobsAlone ==
  ASSUME IInv, TypeOK', UNCHANGED <<job, item, evaluations>>,
         \A s \in Submissions : AutoOK(s)' /\ (Over(s) => auto'[s] = auto[s]),
         NEW r \in Requests, RequestOK(r)' /\ HeldBy(r)',
         \A q \in Requests : q # r => req'[q] = req[q]
  PROVE  IInv'
  <1>1. \A j \in Jobs : JobOK(j)'
    BY DEF IInv, JobOK
  <1>2. QED
    BY <1>1, ItemsAlone

\* And so do the automatic runs: one request goes a step further.
LEMMA RequestAlone ==
  ASSUME IInv, UNCHANGED <<auto, job, item, evaluations, faults>>,
         NEW r \in Requests, req' \in [Requests -> RequestRow],
         RequestOK(r)' /\ HeldBy(r)',
         \A q \in Requests : q # r => req'[q] = req[q]
  PROVE  IInv'
  <1>1. TypeOK'
    BY DEF IInv, TypeOK
  <1>2. \A s \in Submissions : AutoOK(s)' /\ (Over(s) => auto'[s] = auto[s])
    BY DEF IInv, AutoOK, Over
  <1>3. QED
    BY <1>1, <1>2, JobsAlone

\* What the invariant says of one request.
LEMMA RequestFacts ==
  ASSUME IInv, NEW r \in Requests
  PROVE  LET row == req[r]
         IN  /\ row \in RequestRow /\ RequestOK(r) /\ HeldBy(r)
             /\ auto[row.sub] \in AutoRow /\ AutoOK(row.sub)
             /\ item[row.job][row.sub] \in ItemRow /\ ItemOK(row.job, row.sub)
             /\ Reusable(row.sub) \in 0..TRIALS
  <1>1. req[r] \in RequestRow /\ req[r].sub \in Submissions /\ req[r].job \in Jobs
    BY DEF IInv, TypeOK, RequestRow
  <1>2. auto[req[r].sub] \in AutoRow /\ auto[req[r].sub].done \in Nat
    BY <1>1 DEF IInv, TypeOK, AutoRow
  <1>3. Smaller(auto[req[r].sub].done, TRIALS) \in 0..TRIALS
    BY <1>2, JobsAssumption DEF Smaller
  <1>4. item[req[r].job][req[r].sub] \in ItemRow
    BY <1>1 DEF IInv, TypeOK
  <1>5. QED
    BY <1>1, <1>2, <1>3, <1>4 DEF IInv, Reusable

\* A request that is about to end knows nothing.
LEMMA GoToFinish ==
  ASSUME IInv, NEW r \in Requests, GoTo(r, "finish")
  PROVE  RequestOK(r)' /\ HeldBy(r)'
  <1>1. req[r] \in RequestRow /\ RequestOK(r)
    BY RequestFacts
  <1>2. /\ req'[r].pc = "finish"
        /\ req'[r].reused = req[r].reused /\ req'[r].trials = req[r].trials
    BY <1>1 DEF GoTo, IInv, TypeOK, RequestRow
  <1>3. QED
    BY <1>1, <1>2 DEF RequestOK, HeldBy, Working

LEMMA ReadItemInv ==
  ASSUME IInv, NEW r \in Requests, ReadItem(r)
  PROVE  IInv'
  <1> DEFINE j == req[r].job
             s == Least(Pending(j))
  <1>0. j \in Jobs
    BY DEF IInv, TypeOK, RequestRow
  <1>1. CASE Pending(j) = {}
    <2>1. GoTo(r, "finish")
      BY <1>1 DEF ReadItem
    <2>2. RequestOK(r)' /\ HeldBy(r)'
      BY <2>1, GoToFinish
    <2>3. QED
      BY <2>1, <2>2, GoToTyped, RequestAlone DEF ReadItem, IInv
  <1>2. CASE Pending(j) # {}
    <2> DEFINE row == [job |-> j, sub |-> s, trials |-> item[j][s].trials,
                       reused |-> item[j][s].reused, wave |-> 0,
                       status |-> IF s \in Unexecutable THEN "skipped" ELSE "pending",
                       pc |-> IF s \in Unexecutable THEN "commit"
                              ELSE IF item[j][s].trials = 0 THEN "auto" ELSE "claim"]
    <2>1. s \in Submissions /\ item[j][s].status = "pending"
      BY <1>0, <1>2, PendingIn
    <2>2. req' = [req EXCEPT ![r] = row]
      BY <1>2 DEF ReadItem
    <2>3. item[j][s] \in ItemRow /\ ItemOK(j, s)
      BY <1>0, <2>1 DEF IInv, TypeOK
    <2>4. row \in RequestRow
      BY <1>0, <2>1, <2>3, JobsAssumption DEF ItemRow, RequestRow
    <2>5. /\ req' \in [Requests -> RequestRow] /\ req'[r] = row
          /\ \A q \in Requests : q # r => req'[q] = req[q]
      BY <2>2, <2>4 DEF IInv, TypeOK
    <2>6. UNCHANGED <<auto, job, item, evaluations, faults>>
      BY DEF ReadItem
    <2> HIDE DEF s, j
    <2>7. RequestOK(r)'
      BY <2>3, <2>5, <2>6 DEF RequestOK, ItemOK, Over, Reusable, ItemRow
    <2>8. HeldBy(r)'
      BY <2>1, <2>3, <2>5, <2>6 DEF HeldBy, ItemRow
    <2>9. QED
      BY <2>5, <2>6, <2>7, <2>8, RequestAlone
  <1>3. QED
    BY <1>1, <1>2

LEMMA ReadAutoInv ==
  ASSUME IInv, NEW r \in Requests, ReadAuto(r)
  PROVE  IInv'
  <1> DEFINE status == auto[req[r].sub].status
  <1>1. /\ req[r].pc = "auto" /\ UNCHANGED <<auto, job, item, evaluations, faults>>
        /\ GoTo(r, CASE status = "active" -> "finish"
                     [] status \in Loaded -> "load"
                     [] status \in {"failed", "cancelled"} -> "transfer"
                     [] OTHER -> "claim")
    BY DEF ReadAuto, At
  <1>2. /\ req[r] \in RequestRow /\ RequestOK(r) /\ HeldBy(r)
        /\ auto[req[r].sub] \in AutoRow /\ AutoOK(req[r].sub)
    BY RequestFacts
  <1>3. status \in {"none", "active", "completed", "failed", "cancelled", "skipped",
                    "transferred"}
    BY <1>2 DEF AutoRow
  <1>4. CASE status = "active"
    <2>1. GoTo(r, "finish")
      BY <1>1, <1>4 DEF Loaded
    <2>2. QED
      BY <1>1, <2>1, GoToFinish, GoToTyped, RequestAlone DEF IInv
  <1>5. CASE status # "active"
    <2>1. PICK pc \in {"load", "transfer", "claim"} :
            /\ GoTo(r, pc)
            /\ pc = "load" => status \in Loaded
            /\ pc = "claim" => status \in {"none", "skipped"}
      BY <1>1, <1>3, <1>5 DEF Loaded
    <2>2. /\ req' \in [Requests -> RequestRow]
          /\ req'[r] = [req[r] EXCEPT !.pc = pc]
          /\ \A q \in Requests : q # r => req'[q] = req[q]
      BY <2>1, GoToTyped DEF IInv
    <2>3. /\ req'[r].pc = pc /\ req'[r].sub = req[r].sub /\ req'[r].job = req[r].job
          /\ req'[r].trials = req[r].trials /\ req'[r].reused = req[r].reused
          /\ req'[r].status = req[r].status
      BY <1>2, <2>2 DEF RequestRow
    <2>4. /\ pc = "load" => Over(req[r].sub)
          /\ pc = "claim" => Over(req[r].sub) /\ auto[req[r].sub].done = 0
      BY <1>2, <2>1 DEF Over, Loaded, AutoOK
    <2>5. auto[req[r].sub].done = 0 => Reusable(req[r].sub) = 0
      BY JobsAssumption DEF Reusable, Smaller
    <2>6. req[r].trials = 0 /\ req[r].reused = 0
      BY <1>1, <1>2 DEF RequestOK, RequestRow
    <2>7. Over(req[r].sub)' = Over(req[r].sub) /\ Reusable(req[r].sub)' = Reusable(req[r].sub)
      BY <1>1, <2>3 DEF Over, Reusable
    <2>8. RequestOK(r)'
      BY <1>1, <1>2, <2>1, <2>3, <2>4, <2>5, <2>6 DEF RequestOK, Over, Reusable
    <2>9. HeldBy(r)'
      BY <1>1, <1>2, <2>3 DEF HeldBy, Working
    <2>10. QED
      BY <1>1, <2>2, <2>8, <2>9, RequestAlone
  <1>6. QED
    BY <1>4, <1>5

LEMMA TransferInv ==
  ASSUME IInv, NEW r \in Requests, Transfer(r)
  PROVE  IInv'
  <1> DEFINE s == req[r].sub
  <1>1. req[r].pc = "transfer" /\ UNCHANGED <<job, item, evaluations, faults>>
    BY DEF Transfer, At
  <1>2. /\ req[r] \in RequestRow /\ RequestOK(r) /\ HeldBy(r) /\ s \in Submissions
        /\ auto[s] \in AutoRow /\ AutoOK(s)
    BY RequestFacts DEF RequestRow
  <1>3. CASE auto[s].status \in {"failed", "cancelled"}
    <2>1. auto' = [auto EXCEPT ![s].status = "transferred"] /\ GoTo(r, "load")
      BY <1>3 DEF Transfer
    <2>2. /\ req' \in [Requests -> RequestRow]
          /\ req'[r] = [req[r] EXCEPT !.pc = "load"]
          /\ \A q \in Requests : q # r => req'[q] = req[q]
      BY <2>1, GoToTyped DEF IInv
    <2>3. /\ req'[r].pc = "load" /\ req'[r].sub = s /\ req'[r].job = req[r].job
          /\ req'[r].trials = req[r].trials /\ req'[r].reused = req[r].reused
          /\ req'[r].status = req[r].status
      BY <1>2, <2>2 DEF RequestRow
    <2>4. auto' \in [Submissions -> AutoRow] /\ auto'[s].status = "transferred"
      BY <1>2, <2>1 DEF IInv, TypeOK, AutoRow
    <2>5. TypeOK'
      BY <1>1, <2>2, <2>4 DEF IInv, TypeOK
    <2>6. ASSUME NEW x \in Submissions
          PROVE  AutoOK(x)' /\ (Over(x) => auto'[x] = auto[x])
      <3>1. CASE x = s
        BY <1>3, <2>4, <3>1 DEF AutoOK, Over
      <3>2. CASE x # s
        BY <2>1, <3>2 DEF IInv, TypeOK, AutoOK, Over
      <3>3. QED
        BY <3>1, <3>2
    <2>7. RequestOK(r)'
      BY <1>1, <1>2, <2>3, <2>4 DEF RequestOK, Over
    <2>8. HeldBy(r)'
      BY <1>1, <1>2, <2>3 DEF HeldBy, Working
    <2>9. QED
      BY <1>1, <2>2, <2>5, <2>6, <2>7, <2>8, JobsAlone
  <1>4. CASE auto[s].status \notin {"failed", "cancelled"}
    <2>1. GoTo(r, "finish") /\ UNCHANGED auto
      BY <1>4 DEF Transfer
    <2>2. QED
      BY <1>1, <2>1, GoToFinish, GoToTyped, RequestAlone DEF IInv
  <1>5. QED
    BY <1>3, <1>4

LEMMA LoadInv ==
  ASSUME IInv, NEW r \in Requests, Load(r)
  PROVE  IInv'
  <1> DEFINE n == Reusable(req[r].sub)
  <1>1. req[r].pc = "load" /\ UNCHANGED <<auto, job, item, evaluations, faults>>
    BY DEF Load, At
  <1>2. /\ req[r] \in RequestRow /\ RequestOK(r) /\ HeldBy(r) /\ n \in 0..TRIALS
        /\ item[req[r].job][req[r].sub] \in ItemRow
    BY RequestFacts
  <1>3. /\ req'[r].pc = "claim" /\ req'[r].trials = n /\ req'[r].reused = n
        /\ req'[r].sub = req[r].sub /\ req'[r].job = req[r].job
        /\ req'[r].status = req[r].status
        /\ req' \in [Requests -> RequestRow]
        /\ \A q \in Requests : q # r => req'[q] = req[q]
    BY <1>2 DEF IInv, TypeOK, Load, Reusable, RequestRow
  <1> HIDE DEF n
  <1>4. RequestOK(r)'
    BY <1>1, <1>2, <1>3 DEF RequestOK, Over, Reusable, n
  <1>5. HeldBy(r)'
    BY <1>1, <1>2, <1>3 DEF HeldBy, Working, ItemRow, RequestOK, RequestRow
  <1>6. QED
    BY <1>1, <1>3, <1>4, <1>5, RequestAlone

LEMMA ClaimInv ==
  ASSUME IInv, NEW r \in Requests, Claim(r)
  PROVE  IInv'
  <1> DEFINE need == TRIALS - req[r].trials
             before == item[req[r].job][req[r].sub].trials
  <1>1. req[r].pc = "claim" /\ UNCHANGED <<auto, job, item, evaluations, faults>>
    BY DEF Claim, At
  <1>2. /\ req[r] \in RequestRow /\ RequestOK(r) /\ HeldBy(r)
    BY RequestFacts
  <1>3. req[r].trials \in 0..TRIALS /\ TRIALS \in Nat /\ SlotCount \in Nat
    BY <1>2, JobsAssumption DEF RequestRow
  <1>4. CASE need = 0
    <2>1. GoTo(r, "commit")
      BY <1>4 DEF Claim
    <2>2. /\ req'[r].pc = "commit" /\ req'[r].trials = req[r].trials
          /\ req'[r].reused = req[r].reused
          /\ req'[r].sub = req[r].sub /\ req'[r].job = req[r].job
          /\ req'[r].status = req[r].status
      BY <1>2, <2>1 DEF GoTo, IInv, TypeOK, RequestRow
    <2>3. RequestOK(r)'
      BY <1>1, <1>2, <2>2 DEF RequestOK, Over, Reusable
    <2>4. HeldBy(r)'
      BY <1>1, <1>2, <2>2 DEF HeldBy, Working
    <2>5. QED
      BY <1>1, <2>1, <2>3, <2>4, GoToTyped, RequestAlone DEF IInv
  <1>5. CASE need # 0
    <2>1. PICK n \in 0..WaveLimit(need), pc \in {"ready", "finish", "commit"} :
            /\ req' = [req EXCEPT ![r].wave = n, ![r].pc = pc]
            /\ pc = "ready" <=> n > 0
      BY <1>5 DEF Claim
    <2>2. n \in 0..SlotCount /\ req[r].trials + n <= TRIALS
      BY <1>3, <2>1 DEF WaveLimit, Smaller
    <2>3. /\ req'[r].pc = pc /\ req'[r].trials = req[r].trials
          /\ req'[r].reused = req[r].reused /\ req'[r].wave = n
          /\ req'[r].sub = req[r].sub /\ req'[r].job = req[r].job
          /\ req'[r].status = req[r].status
          /\ req' \in [Requests -> RequestRow]
          /\ \A q \in Requests : q # r => req'[q] = req[q]
      BY <1>2, <2>1, <2>2 DEF IInv, TypeOK, RequestRow
    <2>4. RequestOK(r)'
      BY <1>1, <1>2, <2>2, <2>3 DEF RequestOK, Over, Reusable
    <2>5. HeldBy(r)'
      BY <1>1, <1>2, <2>3 DEF HeldBy, Working
    <2>6. QED
      BY <1>1, <2>3, <2>4, <2>5, RequestAlone
  <1>6. QED
    BY <1>4, <1>5

LEMMA CallInv ==
  ASSUME IInv, NEW r \in Requests, StartCall(r) \/ EndCall(r)
  PROVE  IInv'
  <1>1. PICK pc \in {"ready", "calling"} :
          /\ req[r].pc \in {"ready", "calling"} /\ GoTo(r, pc)
          /\ UNCHANGED <<auto, job, item, evaluations, faults>>
    BY DEF StartCall, EndCall, At
  <1>2. req[r] \in RequestRow /\ RequestOK(r) /\ HeldBy(r)
    BY RequestFacts
  <1>3. /\ req'[r].pc = pc /\ req'[r].trials = req[r].trials
        /\ req'[r].reused = req[r].reused /\ req'[r].wave = req[r].wave
        /\ req'[r].sub = req[r].sub /\ req'[r].job = req[r].job
        /\ req'[r].status = req[r].status
    BY <1>1, <1>2 DEF GoTo, IInv, TypeOK, RequestRow
  <1>4. RequestOK(r)'
    BY <1>1, <1>2, <1>3 DEF RequestOK, Over, Reusable
  <1>5. HeldBy(r)'
    BY <1>1, <1>2, <1>3 DEF HeldBy, Working
  <1>6. QED
    BY <1>1, <1>4, <1>5, GoToTyped, RequestAlone DEF IInv

LEMMA EndWaveInv ==
  ASSUME IInv, NEW r \in Requests, EndWave(r)
  PROVE  IInv'
  <1>1. req[r].pc = "ready" /\ UNCHANGED <<auto, job, item, evaluations, faults>>
    BY DEF EndWave, At
  <1>2. /\ req[r] \in RequestRow /\ RequestOK(r) /\ HeldBy(r)
        /\ item[req[r].job][req[r].sub] \in ItemRow
    BY RequestFacts
  <1>3. PICK done \in 0..req[r].wave, status \in {"failed", "pending"} :
          req' = [req EXCEPT ![r].pc = "commit", ![r].trials = @ + done,
                             ![r].status = status]
    BY DEF EndWave
  <1>4. /\ req[r].trials \in Nat /\ req[r].wave \in Nat /\ TRIALS \in Nat
        /\ req[r].reused \in Nat
    BY <1>2, JobsAssumption DEF RequestRow
  <1>5. req[r].trials + done \in 0..TRIALS
    BY <1>1, <1>2, <1>3, <1>4 DEF RequestOK
  <1>6. /\ req'[r].pc = "commit" /\ req'[r].trials = req[r].trials + done
        /\ req'[r].reused = req[r].reused
        /\ req'[r].sub = req[r].sub /\ req'[r].job = req[r].job
        /\ req'[r].status = status
        /\ req' \in [Requests -> RequestRow]
        /\ \A q \in Requests : q # r => req'[q] = req[q]
    BY <1>2, <1>3, <1>5 DEF IInv, TypeOK, RequestRow
  <1>7. RequestOK(r)'
    BY <1>1, <1>2, <1>4, <1>6 DEF RequestOK, Over, Reusable
  <1>8. HeldBy(r)'
    BY <1>1, <1>2, <1>4, <1>6 DEF HeldBy, Working, ItemRow
  <1>9. QED
    BY <1>1, <1>6, <1>7, <1>8, RequestAlone

-----------------------------------------------------------------------------
(* Steps that change a job's row.                                          *)

\* Runs and items stay as they are, no request but r has moved or got a lease.
LEMMA RunsAlone ==
  ASSUME IInv, UNCHANGED <<auto, item, evaluations>>,
         job' \in [Jobs -> JobRow], req' \in [Requests -> RequestRow],
         faults' \in 0..MaxFaults,
         \A j \in Jobs : JobOK(j)',
         \A r \in Requests :
           \/ RequestOK(r)' /\ HeldBy(r)'
           \/ /\ req'[r] = req[r]
              /\ job'[req[r].job].lease = r => job[req[r].job].lease = r
  PROVE  IInv'
  <1>1. TypeOK'
    BY DEF IInv, TypeOK
  <1>2. \A s \in Submissions : AutoOK(s)' /\ (Over(s) => auto'[s] = auto[s])
    BY DEF IInv, AutoOK, Over
  <1>3. QED
    BY <1>1, <1>2, ItemsAlone

LEMMA TakeLeaseInv ==
  ASSUME IInv, NEW r \in Requests, NEW j \in Jobs, TakeLease(r, j)
  PROVE  IInv'
  <1>1. /\ job[j].status \in Active /\ req[r].pc = "idle"
        /\ job' = [job EXCEPT ![j] = [status |-> "running", lease |-> r, live |-> TRUE]]
        /\ req' = [req EXCEPT ![r].pc = "locked", ![r].job = j]
        /\ UNCHANGED <<auto, item, evaluations, faults>>
    BY DEF TakeLease, Free, At
  <1>2. req[r] \in RequestRow /\ RequestOK(r)
    BY RequestFacts
  <1>3. /\ req'[r].pc = "locked" /\ req' \in [Requests -> RequestRow]
        /\ req'[r].trials = req[r].trials /\ req'[r].reused = req[r].reused
        /\ \A q \in Requests : q # r => req'[q] = req[q]
    BY <1>1, <1>2 DEF IInv, TypeOK, RequestRow
  <1>4. job' \in [Jobs -> JobRow] /\ faults' \in 0..MaxFaults
    BY <1>1 DEF IInv, TypeOK, JobRow, Active
  <1>5. ASSUME NEW k \in Jobs PROVE JobOK(k)'
    <2>1. JobOK(k)
      BY DEF IInv
    <2>2. CASE k = j
      <3>1. job'[k].status = "running" /\ job[k].status \in {"queued", "running"}
        BY <1>1, <2>2 DEF IInv, TypeOK, Active
      <3>2. QED
        BY <1>1, <2>1, <3>1 DEF JobOK
    <2>3. CASE k # j
      BY <1>1, <2>1, <2>3 DEF JobOK, IInv, TypeOK
    <2>4. QED
      BY <2>2, <2>3
  <1>6. RequestOK(r)' /\ HeldBy(r)'
    BY <1>2, <1>3 DEF RequestOK, HeldBy, Working
  <1>7. ASSUME NEW q \in Requests, q # r
        PROVE  job'[req[q].job].lease = q => job[req[q].job].lease = q
    BY <1>1, <1>7 DEF IInv, TypeOK, RequestRow
  <1>8. QED
    BY <1>1, <1>3, <1>4, <1>5, <1>6, <1>7, RunsAlone

\* A request that is over knows nothing, whoever has its lease.
LEMMA EndsIdle ==
  ASSUME IInv, NEW r \in Requests, req' = [req EXCEPT ![r] = IdleRequest]
  PROVE  /\ req' \in [Requests -> RequestRow]
         /\ RequestOK(r)' /\ HeldBy(r)'
         /\ \A q \in Requests : q # r => req'[q] = req[q]
  <1>1. /\ req'[r] = IdleRequest /\ req' \in [Requests -> RequestRow]
        /\ \A q \in Requests : q # r => req'[q] = req[q]
    BY IdleTyped DEF IInv, TypeOK
  <1>2. req'[r].pc = "idle" /\ req'[r].trials = 0 /\ req'[r].reused = 0
    BY <1>1 DEF IdleRequest
  <1>3. RequestOK(r)' /\ HeldBy(r)'
    BY <1>2 DEF RequestOK, HeldBy, Working
  <1>4. QED
    BY <1>1, <1>3

\* Giving a lease back gives it to nobody.
LEMMA ReleaseGivesNone ==
  ASSUME IInv, NEW r \in Requests, NEW status, ReleaseJob(r, status)
  PROVE  /\ \A q \in Requests, k \in Jobs : job'[k].lease = q => job[k].lease = q
         /\ \A k \in Jobs : job'[k].status # job[k].status =>
              /\ k = req[r].job /\ job[k].lease = r /\ job'[k].status = status
  <1>1. req[r].job \in Jobs
    BY DEF IInv, TypeOK, RequestRow
  <1>2. QED
    BY <1>1, JobsAssumption DEF ReleaseJob, Unleased, IInv, TypeOK, JobRow, NoOne

LEMMA FinishInv ==
  ASSUME IInv, NEW r \in Requests, Finish(r)
  PROVE  IInv'
  <1> DEFINE j == req[r].job
             status == JobStatus(j, req[r].sub)
  <1>1. /\ ReleaseJob(r, status) /\ req' = [req EXCEPT ![r] = IdleRequest]
        /\ UNCHANGED <<auto, item, evaluations, faults>>
    BY DEF Finish
  <1>2. j \in Jobs /\ job[j] \in JobRow
    BY DEF IInv, TypeOK, RequestRow
  <1>3. status \in JobStatuses
    BY <1>2 DEF JobStatus, JobStatuses, JobRow, Active
  <1>4. ASSUME NEW k \in Jobs PROVE JobOK(k)'
    <2>1. JobOK(k)
      BY DEF IInv
    <2>2. CASE job'[k].status = job[k].status
      BY <1>1, <2>1, <2>2 DEF JobOK
    <2>3. CASE job'[k].status # job[k].status
      <3>1. k = j /\ job'[k].status = status
        BY <1>1, <2>3, ReleaseGivesNone
      <3>2. job[j].status = "running" /\ Pending(j) = {}
        BY <2>3, <3>1 DEF JobStatus
      <3>3. ASSUME NEW s \in Submissions
            PROVE  item[j][s].status \in {"completed", "skipped"}
        <4>1. item[j][s].status \in {"none", "pending", "completed", "failed", "skipped"}
          BY <1>2 DEF IInv, TypeOK, ItemRow
        <4>2. item[j][s].status \notin {"none", "failed", "pending"}
          BY <2>1, <3>1, <3>2 DEF JobOK, Pending
        <4>3. QED
          BY <4>1, <4>2
      <3>4. status = "completed"
        BY <3>2, <3>3 DEF JobStatus
      <3>5. QED
        BY <1>1, <3>1, <3>3, <3>4 DEF JobOK
    <2>4. QED
      BY <2>2, <2>3
  <1> HIDE DEF j, status
  <1>5. job' \in [Jobs -> JobRow] /\ faults' \in 0..MaxFaults
    BY <1>1, <1>3, ReleaseTyped DEF IInv, TypeOK
  <1>6. \A q \in Requests, k \in Jobs : job'[k].lease = q => job[k].lease = q
    BY <1>1, ReleaseGivesNone
  <1>7. \A q \in Requests : req[q].job \in Jobs
    BY DEF IInv, TypeOK, RequestRow
  <1>8. QED
    BY <1>1, <1>4, <1>5, <1>6, <1>7, EndsIdle, RunsAlone

LEMMA DbErrorInv ==
  ASSUME IInv, NEW r \in Requests, DbError(r)
  PROVE  IInv'
  <1>1. /\ ReleaseJob(r, job[req[r].job].status) /\ req' = [req EXCEPT ![r] = IdleRequest]
        /\ UNCHANGED <<auto, item, evaluations>> /\ faults' \in 0..MaxFaults
    BY JobsAssumption DEF DbError, Mine, Fault, IInv, TypeOK
  <1>2. req[r].job \in Jobs /\ job[req[r].job].status \in JobStatuses
    BY DEF IInv, TypeOK, RequestRow, JobRow, JobStatuses, Active
  <1>3. \A k \in Jobs : job'[k].status = job[k].status
    BY <1>1, ReleaseGivesNone
  <1>4. \A k \in Jobs : JobOK(k)'
    BY <1>1, <1>3 DEF IInv, JobOK
  <1>5. job' \in [Jobs -> JobRow]
    BY <1>1, <1>2, ReleaseTyped DEF IInv
  <1>6. \A q \in Requests, k \in Jobs : job'[k].lease = q => job[k].lease = q
    BY <1>1, ReleaseGivesNone
  <1>7. \A q \in Requests : req[q].job \in Jobs
    BY DEF IInv, TypeOK, RequestRow
  <1>8. QED
    BY <1>1, <1>4, <1>5, <1>6, <1>7, EndsIdle, RunsAlone

LEMMA CrashInv ==
  ASSUME IInv, NEW r \in Requests, Crash(r)
  PROVE  IInv'
  <1>1. /\ req' = [req EXCEPT ![r] = IdleRequest]
        /\ UNCHANGED <<auto, job, item, evaluations>>
        /\ faults' \in 0..MaxFaults /\ job' \in [Jobs -> JobRow]
    BY JobsAssumption DEF Crash, Fault, IInv, TypeOK
  <1>2. \A k \in Jobs : JobOK(k)'
    BY <1>1 DEF IInv, JobOK
  <1>3. QED
    BY <1>1, <1>2, EndsIdle, RunsAlone

\* The teacher's cancelling, and time, take a lease or leave it.
LEMMA CancelInv ==
  ASSUME IInv, NEW j \in Jobs, CancelJob(j) \/ ExpireLease(j)
  PROVE  IInv'
  <1>1. UNCHANGED <<auto, item, evaluations, req>> /\ faults' \in 0..MaxFaults
    BY JobsAssumption DEF CancelJob, ExpireLease, Fault, IInv, TypeOK
  <1>2. req' \in [Requests -> RequestRow]
    BY <1>1 DEF IInv, TypeOK
  <1>3. /\ job' \in [Jobs -> JobRow]
        /\ \A k \in Jobs, q \in Requests : job'[k].lease = q => job[k].lease = q
        /\ \A k \in Jobs : \/ job'[k].status = job[k].status
                           \/ job[k].status \in Active /\ job'[k].status = "cancelled"
    <2>1. CASE CancelJob(j)
      BY <2>1, JobsAssumption DEF CancelJob, IInv, TypeOK, JobRow, NoOne, Active
    <2>2. CASE ExpireLease(j)
      BY <2>2 DEF ExpireLease, IInv, TypeOK, JobRow
    <2>3. QED
      BY <2>1, <2>2
  <1>4. ASSUME NEW k \in Jobs PROVE JobOK(k)'
    BY <1>1, <1>3 DEF IInv, JobOK, Active
  <1>5. \A q \in Requests : req[q].job \in Jobs
    BY DEF IInv, TypeOK, RequestRow
  <1>6. QED
    BY <1>1, <1>2, <1>3, <1>4, <1>5, RunsAlone

\* The automatic runs' own steps.
LEMMA AutoInv ==
  ASSUME IInv, NEW s \in Submissions, AutoStep(s) \/ AutoRestart(s),
         UNCHANGED <<job, item, evaluations, req>>, faults' \in 0..MaxFaults
  PROVE  IInv'
  <1>1. auto[s] \in AutoRow /\ AutoOK(s) /\ AUTO_TRIALS \in Nat
    BY JobsAssumption DEF IInv, TypeOK
  <1>2. PICK row \in AutoRow :
          /\ auto' = [auto EXCEPT ![s] = row] /\ ~Over(s)
          /\ row.status \in {"active", "failed", "cancelled"} => row.done < AUTO_TRIALS
          /\ row.status \notin {"none", "skipped"}
    <2>1. CASE AutoRecord(s)
      <3> DEFINE row == [status |-> IF auto[s].done + 1 = AUTO_TRIALS
                                      THEN "completed" ELSE auto[s].status,
                         done |-> auto[s].done + 1]
      <3>1. auto' = [auto EXCEPT ![s] = row] /\ auto[s].status \in {"active", "failed"}
        BY <2>1 DEF AutoRecord
      <3>2. auto[s].done \in Nat /\ auto[s].done < AUTO_TRIALS
        BY <1>1, <3>1 DEF AutoRow, AutoOK, Over
      <3>3. row \in AutoRow /\ row.done = auto[s].done + 1
        BY <1>1, <3>1, <3>2 DEF AutoRow
      <3>4. /\ row.status \in {"active", "failed", "cancelled"} => row.done < AUTO_TRIALS
            /\ row.status \notin {"none", "skipped"}
        BY <1>1, <3>1, <3>2
      <3>5. QED
        BY <3>1, <3>3, <3>4 DEF Over
    <2>2. CASE AutoStop(s) \/ AutoRestart(s)
      <3>1. PICK status \in {"active", "failed", "cancelled"} :
              /\ auto' = [auto EXCEPT ![s].status = status]
              /\ auto[s].status \in {"active", "failed", "cancelled"}
        BY <2>2 DEF AutoStop, AutoRestart
      <3> DEFINE row == [auto[s] EXCEPT !.status = status]
      <3>2. auto' = [auto EXCEPT ![s] = row] /\ row \in AutoRow
        BY <1>1, <3>1 DEF AutoRow
      <3>3. /\ row.status = status /\ row.done = auto[s].done
            /\ auto[s].done < AUTO_TRIALS /\ ~Over(s)
        BY <1>1, <3>1 DEF AutoRow, AutoOK, Over
      <3>4. QED
        BY <3>1, <3>2, <3>3
    <2>3. QED
      BY <2>1, <2>2 DEF AutoStep
  <1>3. ASSUME NEW x \in Submissions
        PROVE  AutoOK(x)' /\ (Over(x) => auto'[x] = auto[x])
    BY <1>2 DEF IInv, TypeOK, AutoOK, Over
  <1>4. TypeOK'
    BY <1>2 DEF IInv, TypeOK
  <1>5. \A j \in Jobs : JobOK(j)'
    BY DEF IInv, JobOK
  <1>6. QED
    BY <1>3, <1>4, <1>5, ItemsAlone

-----------------------------------------------------------------------------
(* Steps that change an item.                                              *)

\* What a request knows depends on the runs alone.
LEMMA KnowledgeStays ==
  ASSUME IInv, UNCHANGED auto, NEW r \in Requests, req'[r] = req[r]
  PROVE  RequestOK(r)'
  BY DEF IInv, RequestOK, Over, Reusable

\* Saved trials of one item stay.
SavedKept(j, s) ==
  /\ item'[j][s].trials >= item[j][s].trials
  /\ item[j][s].status \in {"completed", "skipped"} => item'[j][s] = item[j][s]

LEMMA CreateJobInv ==
  ASSUME IInv, NEW j \in Jobs, CreateJob(j)
  PROVE  IInv' /\ \A k \in Jobs, s \in Submissions : SavedKept(k, s)
  <1> DEFINE row == [status |-> "pending", trials |-> 0, reused |-> 0]
  <1>1. /\ job[j].status = "none" /\ job' = [job EXCEPT ![j].status = "queued"]
        /\ item' = [item EXCEPT ![j] = [s \in Submissions |-> row]]
        /\ UNCHANGED <<auto, evaluations, req, faults>>
    BY DEF CreateJob
  <1>2. row \in ItemRow /\ TRIALS \in Nat
    BY JobsAssumption DEF ItemRow
  <1>3. job' \in [Jobs -> JobRow]
    BY <1>1 DEF IInv, TypeOK, JobRow, Active
  <1>4. item' \in [Jobs -> [Submissions -> ItemRow]]
    BY <1>1, <1>2 DEF IInv, TypeOK
  <1>5. TypeOK'
    BY <1>1, <1>3, <1>4 DEF IInv, TypeOK
  <1>6. /\ \A s \in Submissions : item'[j][s] = row
        /\ \A k \in Jobs : k # j => item'[k] = item[k] /\ job'[k] = job[k]
        /\ job'[j].status = "queued" /\ job'[j].lease = job[j].lease
    BY <1>1 DEF IInv, TypeOK, JobRow
  <1>7. \A s \in Submissions :
          item[j][s].status = "none" /\ item[j][s].trials = 0 /\ evaluations[j][s] = 0
    BY <1>1 DEF IInv, JobOK, ItemOK
  <1>8. ASSUME NEW k \in Jobs, NEW s \in Submissions
        PROVE  ItemOK(k, s)' /\ SavedKept(k, s)
    <2>1. item[k][s] \in ItemRow /\ ItemOK(k, s)
      BY DEF IInv, TypeOK
    <2>2. CASE k = j
      BY <1>1, <1>6, <1>7, <2>2 DEF ItemOK, SavedKept
    <2>3. CASE k # j
      BY <1>1, <1>6, <2>1, <2>3 DEF ItemOK, SavedKept, Over, Reusable, ItemRow
    <2>4. QED
      BY <2>2, <2>3
  <1>9. ASSUME NEW k \in Jobs PROVE JobOK(k)'
    BY <1>6 DEF IInv, JobOK
  <1>10. ASSUME NEW s \in Submissions PROVE AutoOK(s)'
    BY <1>1 DEF IInv, AutoOK, Over
  <1>11. ASSUME NEW r \in Requests PROVE RequestOK(r)' /\ HeldBy(r)'
    <2>1. RequestOK(r)'
      BY <1>1, KnowledgeStays
    <2>2. req[r].job \in Jobs /\ req[r].sub \in Submissions /\ req[r].trials \in Nat
      BY DEF IInv, TypeOK, RequestRow
    <2>3. HeldBy(r)
      BY DEF IInv
    <2>4. CASE req[r].job = j
      <3>1. item'[req[r].job][req[r].sub] = row /\ req'[r] = req[r]
        BY <1>1, <1>6, <2>2, <2>4
      <3>2. row.status = "pending" /\ row.trials <= req[r].trials
        BY <2>2
      <3>3. QED
        BY <2>1, <3>1, <3>2 DEF HeldBy
    <2>5. CASE req[r].job # j
      <3>1. /\ item'[req[r].job] = item[req[r].job] /\ req'[r] = req[r]
            /\ job'[req[r].job] = job[req[r].job]
        BY <1>1, <1>6, <2>2, <2>5
      <3>2. QED
        BY <2>1, <2>3, <3>1 DEF HeldBy
    <2>6. QED
      BY <2>1, <2>4, <2>5
  <1>12. QED
    BY <1>5, <1>8, <1>9, <1>10, <1>11 DEF IInv

LEMMA ResumeJobInv ==
  ASSUME IInv, NEW j \in Jobs, ResumeJob(j)
  PROVE  IInv' /\ \A k \in Jobs, s \in Submissions : SavedKept(k, s)
  <1>1. /\ job[j].status \in {"failed", "cancelled"}
        /\ job' = [job EXCEPT ![j] = [status |-> "queued", lease |-> NoOne, live |-> FALSE]]
        /\ item' = [item EXCEPT ![j] = [s \in Submissions |->
             IF item[j][s].status = "failed" THEN [item[j][s] EXCEPT !.status = "pending"]
                                             ELSE item[j][s]]]
        /\ UNCHANGED <<auto, evaluations, req, faults>>
    BY DEF ResumeJob, IInv, TypeOK
  <1>2. job' \in [Jobs -> JobRow]
    BY <1>1 DEF IInv, TypeOK, JobRow, Active
  <1>3. /\ \A s \in Submissions :
             item'[j][s] = IF item[j][s].status = "failed"
                             THEN [item[j][s] EXCEPT !.status = "pending"] ELSE item[j][s]
        /\ \A k \in Jobs : k # j => item'[k] = item[k] /\ job'[k] = job[k]
        /\ job'[j].status = "queued" /\ job'[j].lease = NoOne
    BY <1>1 DEF IInv, TypeOK
  <1>4. ASSUME NEW s \in Submissions
        PROVE  /\ item'[j][s] \in ItemRow
               /\ item'[j][s].trials = item[j][s].trials
               /\ item'[j][s].reused = item[j][s].reused
               /\ item[j][s].status # "failed" => item'[j][s].status = item[j][s].status
               /\ item[j][s].status = "failed" => item'[j][s].status = "pending"
    <2>1. item[j][s] \in ItemRow
      BY DEF IInv, TypeOK
    <2>2. CASE item[j][s].status = "failed"
      BY <1>3, <2>1, <2>2 DEF ItemRow
    <2>3. CASE item[j][s].status # "failed"
      BY <1>3, <2>1, <2>3
    <2>4. QED
      BY <2>2, <2>3
  <1>5. item' \in [Jobs -> [Submissions -> ItemRow]]
    BY <1>1, <1>4 DEF IInv, TypeOK
  <1>6. TypeOK'
    BY <1>1, <1>2, <1>5 DEF IInv, TypeOK
  <1>7. ASSUME NEW k \in Jobs, NEW s \in Submissions
        PROVE  ItemOK(k, s)' /\ SavedKept(k, s)
    <2>1. item[k][s] \in ItemRow /\ ItemOK(k, s)
      BY DEF IInv, TypeOK
    <2>2. CASE k = j
      BY <1>1, <1>3, <1>4, <2>1, <2>2 DEF ItemOK, SavedKept, Over, Reusable, ItemRow
    <2>3. CASE k # j
      BY <1>1, <1>3, <2>1, <2>3 DEF ItemOK, SavedKept, Over, Reusable, ItemRow
    <2>4. QED
      BY <2>2, <2>3
  <1>8. ASSUME NEW k \in Jobs PROVE JobOK(k)'
    <2>1. JobOK(k)
      BY DEF IInv
    <2>2. CASE k = j
      <3>1. \A s \in Submissions : item'[j][s].status \notin {"none", "failed"}
        BY <1>1, <1>4, <2>1, <2>2 DEF JobOK
      <3>2. QED
        BY <1>3, <2>2, <3>1 DEF JobOK
    <2>3. CASE k # j
      BY <1>3, <2>1, <2>3 DEF JobOK
    <2>4. QED
      BY <2>2, <2>3
  <1>9. ASSUME NEW s \in Submissions PROVE AutoOK(s)'
    BY <1>1 DEF IInv, AutoOK, Over
  <1>10. ASSUME NEW r \in Requests PROVE RequestOK(r)' /\ HeldBy(r)'
    <2>1. RequestOK(r)'
      BY <1>1, KnowledgeStays
    <2>2. req[r].job \in Jobs /\ r # NoOne
      BY JobsAssumption DEF IInv, TypeOK, RequestRow, NoOne
    <2>3. HeldBy(r)
      BY DEF IInv
    <2>4. HeldBy(r)'
      BY <1>1, <1>3, <2>2, <2>3 DEF HeldBy
    <2>5. QED
      BY <2>1, <2>4
  <1>11. QED
    BY <1>6, <1>7, <1>8, <1>9, <1>10 DEF IInv

\* The commit: an item is written by the request that holds the lease, which
\* knows its trials.
LEMMA CommitInv ==
  ASSUME IInv, NEW r \in Requests, Commit(r)
  PROVE  IInv' /\ \A k \in Jobs, s \in Submissions : SavedKept(k, s)
  <1> DEFINE j == req[r].job
             s == req[r].sub
             row == [status |-> Outcome(r), trials |-> req[r].trials,
                     reused |-> req[r].reused]
             held == job[j].lease = r /\ job[j].status = "running"
  <1>1. /\ req[r] \in RequestRow /\ RequestOK(r) /\ HeldBy(r) /\ req[r].pc = "commit"
        /\ j \in Jobs /\ s \in Submissions
    BY RequestFacts DEF RequestRow, Commit, At
  <1>2. PICK live \in BOOLEAN :
          /\ item' = IF held /\ live THEN [item EXCEPT ![j][s] = row] ELSE item
          /\ evaluations' = IF Evaluates(r, item')
                              THEN [evaluations EXCEPT ![j][s] = req[r].trials]
                              ELSE evaluations
          /\ job' = IF Outcome(r) = "failed" /\ held
                      THEN [job EXCEPT ![j].status = "failed"] ELSE job
          /\ GoTo(r, "finish") /\ UNCHANGED <<auto, faults>>
    BY DEF Commit, HoldsJob, Mine
  <1>3. /\ req[r].trials \in 0..TRIALS /\ req[r].reused \in 0..TRIALS /\ TRIALS \in Nat
        /\ TRIALS > 0
    BY <1>1, JobsAssumption DEF RequestRow
  <1>4. /\ Outcome(r) \in {"pending", "completed", "failed", "skipped"}
        /\ Outcome(r) = "completed" => s \notin Unexecutable /\ req[r].trials = TRIALS
        /\ Outcome(r) = "skipped" => s \in Unexecutable
    BY <1>1, <1>3 DEF Outcome, RequestOK, RequestRow
  <1>5. /\ held => item[j][s].status = "pending" /\ item[j][s].trials <= req[r].trials
        /\ job[j].status = "running"
             => \A x \in Submissions : item[j][x].status \notin {"none", "failed"}
    BY <1>1 DEF HeldBy, Working, IInv, JobOK
  <1>6. row \in ItemRow
    BY <1>3, <1>4 DEF ItemRow
  <1>7. /\ item' \in [Jobs -> [Submissions -> ItemRow]]
        /\ \A k \in Jobs, x \in Submissions :
             item'[k][x] = IF held /\ live /\ k = j /\ x = s THEN row ELSE item[k][x]
    BY <1>1, <1>2, <1>6 DEF IInv, TypeOK
  <1>8. Evaluates(r, item') <=>
          Outcome(r) = "completed" /\ held /\ live /\ evaluations[j][s] = 0
    BY <1>1, <1>5, <1>7 DEF Evaluates, HoldsJob, Mine
  <1>9. /\ evaluations' \in [Jobs -> [Submissions -> 0..TRIALS]]
        /\ \A k \in Jobs, x \in Submissions :
             evaluations'[k][x] = IF Evaluates(r, item') /\ k = j /\ x = s
                                    THEN req[r].trials ELSE evaluations[k][x]
    BY <1>1, <1>2, <1>3 DEF IInv, TypeOK
  <1>10. /\ job' \in [Jobs -> JobRow]
         /\ \A k \in Jobs :
              /\ job'[k].lease = job[k].lease
              /\ job'[k].status = IF Outcome(r) = "failed" /\ held /\ k = j
                                    THEN "failed" ELSE job[k].status
    BY <1>1, <1>2 DEF IInv, TypeOK, JobRow
  <1>11. /\ req' \in [Requests -> RequestRow]
         /\ RequestOK(r)' /\ HeldBy(r)'
         /\ \A q \in Requests : q # r => req'[q] = req[q]
    BY <1>2, GoToTyped, GoToFinish DEF IInv
  <1>12. TypeOK'
    BY <1>2, <1>7, <1>9, <1>10, <1>11 DEF IInv, TypeOK
  <1>13. ASSUME NEW x \in Submissions PROVE AutoOK(x)'
    BY <1>2 DEF IInv, AutoOK, Over
  <1>14. ASSUME NEW k \in Jobs, NEW x \in Submissions
         PROVE  ItemOK(k, x)' /\ SavedKept(k, x)
    <2>1. ItemOK(k, x) /\ item[k][x] \in ItemRow
      BY DEF IInv, TypeOK
    <2>2. CASE held /\ live /\ k = j /\ x = s
      <3>1. item'[k][x] = row /\ evaluations[k][x] = 0
        BY <1>5, <1>7, <2>1, <2>2 DEF ItemOK
      <3>2. evaluations'[k][x] = IF Outcome(r) = "completed" THEN TRIALS ELSE 0
        BY <1>4, <1>8, <1>9, <2>2, <3>1
      <3>3. ItemOK(k, x)'
        BY <1>1, <1>2, <1>3, <1>4, <2>2, <3>1, <3>2
           DEF ItemOK, RequestOK, Over, Reusable
      <3>4. SavedKept(k, x)
        BY <1>3, <1>5, <2>1, <2>2, <3>1 DEF SavedKept, ItemRow
      <3>5. QED
        BY <3>3, <3>4
    <2>3. CASE ~ (held /\ live /\ k = j /\ x = s)
      <3>1. item'[k][x] = item[k][x] /\ evaluations'[k][x] = evaluations[k][x]
        BY <1>7, <1>8, <1>9, <2>3
      <3>2. QED
        BY <1>2, <2>1, <3>1 DEF ItemOK, SavedKept, Over, Reusable, ItemRow
    <2>4. QED
      BY <2>2, <2>3
  <1>15. ASSUME NEW k \in Jobs PROVE JobOK(k)'
    <2> SUFFICES ASSUME NEW x \in Submissions
                 PROVE  /\ item'[k][x].status = "none" <=> job'[k].status = "none"
                        /\ job'[k].status = "completed" =>
                             item'[k][x].status \in {"completed", "skipped"}
                        /\ item'[k][x].status = "failed" => job'[k].status = "failed"
      BY DEF JobOK
    <2>1. /\ item[k][x].status = "none" <=> job[k].status = "none"
          /\ job[k].status = "completed" => item[k][x].status \in {"completed", "skipped"}
          /\ item[k][x].status = "failed" => job[k].status = "failed"
      BY DEF IInv, JobOK
    <2>2. CASE held /\ live /\ k = j /\ x = s
      BY <1>4, <1>7, <1>10, <2>1, <2>2
    <2>3. CASE ~ (held /\ live /\ k = j /\ x = s)
      BY <1>4, <1>7, <1>10, <2>1, <2>3
    <2>4. QED
      BY <2>2, <2>3
  <1>16. ASSUME NEW q \in Requests, q # r PROVE RequestOK(q)' /\ HeldBy(q)'
    <2>1. RequestOK(q)'
      BY <1>2, <1>11, <1>16, KnowledgeStays
    <2>2. HeldBy(q) /\ req[q].job \in Jobs /\ req[q].sub \in Submissions
      BY RequestFacts DEF RequestRow
    <2>3. HeldBy(q)'
      BY <1>7, <1>10, <1>11, <1>16, <2>2 DEF HeldBy
    <2>4. QED
      BY <2>1, <2>3
  <1>17. QED
    BY <1>11, <1>12, <1>13, <1>14, <1>15, <1>16 DEF IInv

-----------------------------------------------------------------------------
LEMMA InitInv == Init => IInv
  <1> SUFFICES ASSUME Init PROVE IInv
    OBVIOUS
  <1>1. /\ auto \in [Submissions -> AutoRow]
        /\ \A s \in Submissions : auto[s].done = 0 /\ auto[s].status \in {"skipped", "none", "active"}
    BY DEF Init
  <1>2. /\ \A j \in Jobs : job[j] = NoJob
        /\ \A j \in Jobs, s \in Submissions :
             item[j][s] = [status |-> "none", trials |-> 0, reused |-> 0] /\ evaluations[j][s] = 0
        /\ \A r \in Requests : req[r] = IdleRequest
    BY DEF Init
  <1>3. TypeOK
    <2>1. NoJob \in JobRow
      BY DEF NoJob, JobRow, NoOne
    <2>2. [status |-> "none", trials |-> 0, reused |-> 0] \in ItemRow /\ 0 \in 0..TRIALS
      BY JobsAssumption DEF ItemRow
    <2>3. faults \in 0..MaxFaults
      BY JobsAssumption DEF Init
    <2>4. QED
      BY <1>1, <2>1, <2>2, <2>3, IdleTyped DEF Init, TypeOK
  <1>4. \A s \in Submissions : AutoOK(s)
    BY <1>1, JobsAssumption DEF AutoOK
  <1>5. \A j \in Jobs : JobOK(j)
    BY <1>2 DEF JobOK, NoJob
  <1>6. \A j \in Jobs, s \in Submissions : ItemOK(j, s)
    BY <1>2 DEF ItemOK
  <1>7. ASSUME NEW r \in Requests PROVE RequestOK(r) /\ HeldBy(r)
    <2>1. req[r].pc = "idle" /\ req[r].trials = 0 /\ req[r].reused = 0
      BY <1>2 DEF IdleRequest
    <2>2. QED
      BY <2>1 DEF RequestOK, HeldBy, Working
  <1>8. QED
    BY <1>3, <1>4, <1>5, <1>6, <1>7 DEF IInv

\* Every step keeps the invariant, and what is saved.
LEMMA NextInv ==
  ASSUME IInv, [Next]_vars
  PROVE  IInv' /\ \A k \in Jobs, s \in Submissions : SavedKept(k, s)
  <1> DEFINE Kept == \A k \in Jobs, s \in Submissions : SavedKept(k, s)
  <1> HIDE DEF Kept
  <1>1. ASSUME UNCHANGED item PROVE Kept
    <2>1. \A k \in Jobs, s \in Submissions : item[k][s].trials \in Nat
      BY DEF IInv, TypeOK, ItemRow
    <2>2. QED
      BY <1>1, <2>1 DEF SavedKept, Kept
  <1>2. ASSUME NEW j \in Jobs, CreateJob(j) \/ ResumeJob(j) PROVE IInv' /\ Kept
    BY <1>2, CreateJobInv, ResumeJobInv DEF Kept
  <1>3. ASSUME NEW j \in Jobs, CancelJob(j) \/ ExpireLease(j) PROVE IInv' /\ Kept
    <2>1. IInv'
      BY <1>3, CancelInv
    <2>2. UNCHANGED item
      BY <1>3 DEF CancelJob, ExpireLease
    <2>3. QED
      BY <1>1, <2>1, <2>2
  <1>4. ASSUME NEW r \in Requests, Commit(r) PROVE IInv' /\ Kept
    BY <1>4, CommitInv DEF Kept
  <1>5. ASSUME NEW r \in Requests, NEW j \in Jobs, TakeLease(r, j) PROVE IInv' /\ Kept
    <2>1. IInv'
      BY <1>5, TakeLeaseInv
    <2>2. UNCHANGED item
      BY <1>5 DEF TakeLease
    <2>3. QED
      BY <1>1, <2>1, <2>2
  <1>6. ASSUME NEW r \in Requests,
               \/ ReadItem(r) \/ ReadAuto(r) \/ Transfer(r) \/ Load(r) \/ Claim(r)
               \/ StartCall(r) \/ EndCall(r) \/ EndWave(r) \/ Finish(r)
               \/ DbError(r) \/ Crash(r)
        PROVE  IInv' /\ Kept
    <2>1. IInv'
      BY <1>6, ReadItemInv, ReadAutoInv, TransferInv, LoadInv, ClaimInv, CallInv,
         EndWaveInv, FinishInv, DbErrorInv, CrashInv
    <2>2. UNCHANGED item
      BY <1>6 DEF ReadItem, ReadAuto, Transfer, Load, Claim, StartCall, EndCall,
                  EndWave, Finish, DbError, Crash
    <2>3. QED
      BY <1>1, <2>1, <2>2
  <1>7. ASSUME NEW s \in Submissions, AutoStep(s) \/ AutoRestart(s),
               UNCHANGED <<job, item, evaluations, req>>, faults' \in 0..MaxFaults
        PROVE  IInv' /\ Kept
    BY <1>1, <1>7, AutoInv
  <1>8. ASSUME UNCHANGED vars PROVE IInv' /\ Kept
    <2>1. IInv'
      BY <1>8 DEF vars, IInv, TypeOK, AutoOK, JobOK, ItemOK, RequestOK, HeldBy, Over, Reusable
    <2>2. QED
      BY <1>1, <1>8, <2>1 DEF vars
  <1>9. ASSUME NEW s \in Submissions PROVE AutoRestart(s) => faults' \in 0..MaxFaults
    BY JobsAssumption DEF AutoRestart, Fault, IInv, TypeOK
  <1>10. faults' = faults => faults' \in 0..MaxFaults
    BY DEF IInv, TypeOK
  <1>11. ASSUME NEW r \in Requests, Advance(r) \/ DbError(r) \/ Crash(r)
         PROVE  IInv' /\ Kept
    BY <1>4, <1>5, <1>6, <1>11 DEF Advance
  <1>12. ASSUME NEW s \in Submissions,
                \/ AutoStep(s) /\ UNCHANGED <<job, item, evaluations, req, faults>>
                \/ AutoRestart(s) /\ UNCHANGED <<job, item, evaluations, req>>
         PROVE  IInv' /\ Kept
    BY <1>7, <1>9, <1>10, <1>12
  <1>13. IInv' /\ Kept
    BY <1>2, <1>3, <1>8, <1>11, <1>12 DEF Next
  <1>14. QED
    BY <1>13 DEF Kept

LEMMA InvCorrect == Spec => []IInv
  <1>1. IInv /\ [Next]_vars => IInv'
    BY NextInv
  <1>2. QED
    BY InitInv, <1>1, PTL DEF Spec

-----------------------------------------------------------------------------

\* The tables and requests keep their types.
THEOREM TypeCorrect == Spec => []TypeOK
  <1>1. IInv => TypeOK
    BY DEF IInv
  <1>2. QED
    BY <1>1, InvCorrect, PTL

\* Once a job has results of a submission, or asks the service about it, its
\* automatic run is over for good: nobody else executes it (advanceJobItem).
THEOREM ExecutorIsOne == Spec => []OneExecutor
  <1>1. ASSUME IInv PROVE OneExecutor
    <2>1. ASSUME NEW j \in Jobs, NEW s \in Submissions, item[j][s].trials > 0
          PROVE  auto[s].status \notin {"active", "failed", "cancelled"}
      BY <1>1, <2>1 DEF IInv, ItemOK, Over
    <2>2. ASSUME NEW r \in Requests, req[r].pc \in {"ready", "calling"}
          PROVE  auto[req[r].sub].status \notin {"active", "failed", "cancelled"}
      BY <1>1, <2>2 DEF IInv, RequestOK, Over
    <2>3. QED
      BY <2>1, <2>2 DEF OneExecutor
  <1>2. QED
    BY <1>1, InvCorrect, PTL

\* What a job reuses is what the automatic run ended with (loadAutoTrials).
THEOREM ReuseIsExact == Spec => []ReusedAll
  <1>1. IInv => ReusedAll
    BY DEF IInv, ItemOK, Reusable, ReusedAll
  <1>2. QED
    BY <1>1, InvCorrect, PTL

\* The status of a job and its evaluations say what was done (advanceJevJob).
THEOREM StatusIsTrue == Spec => []JobSaysWhatItDid
  <1>1. ASSUME IInv, NEW j \in Jobs
        PROVE  /\ job[j].status = "completed" =>
                    \A s \in Submissions : item[j][s].status =
                      IF s \in Unexecutable THEN "skipped" ELSE "completed"
               /\ (\E s \in Submissions : item[j][s].status = "failed") => job[j].status = "failed"
               /\ \A s \in Submissions :
                    evaluations[j][s] = IF item[j][s].status = "completed" THEN TRIALS ELSE 0
    <2>1. JobOK(j) /\ \A s \in Submissions : ItemOK(j, s)
      BY <1>1 DEF IInv
    <2>2. QED
      BY <2>1 DEF JobOK, ItemOK
  <1>2. IInv => JobSaysWhatItDid
    BY <1>1 DEF JobSaysWhatItDid
  <1>3. QED
    BY <1>2, InvCorrect, PTL

\* No step takes a saved trial back or touches a finished item, whatever stale,
\* cancelled or overlapping requests write (the fenced commit of advanceJobItem).
THEOREM TrialsAreKept == Spec => SavedTrialsKept
  <1>1. IInv /\ [Next]_vars =>
          [\A j \in Jobs, s \in Submissions :
             /\ item'[j][s].trials >= item[j][s].trials
             /\ item[j][s].status \in {"completed", "skipped"}
                  => item'[j][s] = item[j][s]]_vars
    BY NextInv DEF SavedKept
  <1>2. QED
    BY <1>1, InvCorrect, PTL DEF Spec, SavedTrialsKept

-----------------------------------------------------------------------------
(* The progress bar.                                                       *)

\* An item that has all its trials is completed or skipped, and it is completed
\* only with all of them.
ItemBar(j, s) ==
  LET row == item[j][s]
  IN  /\ row.status = "completed" => row.trials = TRIALS
      /\ row.status \in {"pending", "failed"} => row.trials < TRIALS
      /\ s \in Unexecutable => row.trials = 0

\* What a request is about to write.
RequestBar(r) ==
  LET row == req[r]
  IN  row.pc = "commit" =>
        /\ row.status = "failed" => row.trials < TRIALS
        /\ row.status = "skipped" => row.trials = 0

BarInv ==
  /\ \A j \in Jobs, s \in Submissions : ItemBar(j, s)
  /\ \A r \in Requests : RequestBar(r)

LEMMA BarCommit ==
  ASSUME IInv, BarInv, NEW r \in Requests, Commit(r)
  PROVE  BarInv'
  <1> DEFINE j == req[r].job
             s == req[r].sub
             row == [status |-> Outcome(r), trials |-> req[r].trials,
                     reused |-> req[r].reused]
  <1>1. /\ req[r] \in RequestRow /\ RequestOK(r) /\ RequestBar(r) /\ req[r].pc = "commit"
        /\ j \in Jobs /\ s \in Submissions
    BY RequestFacts DEF RequestRow, Commit, At, BarInv
  <1>2. /\ Outcome(r) = "completed" => req[r].trials = TRIALS
        /\ Outcome(r) \in {"pending", "failed"} => req[r].trials < TRIALS
        /\ s \in Unexecutable => req[r].trials = 0
    BY <1>1, JobsAssumption DEF Outcome, RequestOK, RequestRow, RequestBar
  <1>3. item' = [item EXCEPT ![j][s] = row] \/ item' = item
    BY DEF Commit
  <1>4. ASSUME NEW k \in Jobs, NEW x \in Submissions
        PROVE  item'[k][x] = item[k][x] \/ (x = s /\ item'[k][x] = row)
    BY <1>1, <1>3 DEF IInv, TypeOK
  <1>5. ASSUME NEW k \in Jobs, NEW x \in Submissions
        PROVE  ItemBar(k, x)'
    BY <1>2, <1>4 DEF BarInv, ItemBar
  <1>6. ASSUME NEW q \in Requests
        PROVE  RequestBar(q)'
    <2>1. req' = [req EXCEPT ![r].pc = "finish"]
      BY DEF Commit, GoTo
    <2>2. IF q = r THEN req'[q].pc = "finish" ELSE req'[q] = req[q]
      BY <1>1, <2>1 DEF IInv, TypeOK, RequestRow
    <2>3. QED
      BY <2>2 DEF BarInv, RequestBar
  <1>7. QED
    BY <1>5, <1>6 DEF BarInv

\* A step that changes no item, and of the requests at most one, which is then
\* not about to write or knows what the bar asks.
LEMMA BarAlone ==
  ASSUME BarInv, UNCHANGED item,
         \A q \in Requests : req'[q] = req[q] \/ RequestBar(q)'
  PROVE  BarInv'
  BY DEF BarInv, ItemBar, RequestBar

LEMMA BarMoves ==
  ASSUME IInv, BarInv, NEW r \in Requests,
         \/ \E j \in Jobs : TakeLease(r, j)
         \/ ReadItem(r) \/ ReadAuto(r) \/ Transfer(r) \/ Load(r) \/ Claim(r)
         \/ StartCall(r) \/ EndCall(r) \/ EndWave(r) \/ Finish(r) \/ DbError(r) \/ Crash(r)
  PROVE  BarInv'
  <1>0. /\ req[r] \in RequestRow /\ RequestOK(r)
        /\ \A row : req' = [req EXCEPT ![r] = row] =>
              req'[r] = row /\ \A q \in Requests \ {r} : req'[q] = req[q]
    BY RequestFacts DEF IInv, TypeOK
  <1>1. CASE ReadItem(r)
    <2> DEFINE j == req[r].job
               s == Least(Pending(j))
    <2>1. CASE Pending(j) = {}
      <3>1. req' = [req EXCEPT ![r] = [@ EXCEPT !.pc = "finish"]]
        BY <1>1, <2>1 DEF ReadItem, GoTo
      <3>2. req'[r].pc # "commit"
        BY <3>1 DEF IInv, TypeOK, RequestRow
      <3>3. QED
        BY <1>0, <1>1, <3>1, <3>2, BarAlone DEF ReadItem, RequestBar
    <2>2. CASE Pending(j) # {}
      <3>1. s \in Submissions /\ j \in Jobs
        BY <1>0, <2>2, PendingIn DEF RequestRow
      <3>2. ItemBar(j, s)
        BY <3>1 DEF BarInv
      <3>3. req' = [req EXCEPT ![r] =
           [job |-> j, sub |-> s, trials |-> item[j][s].trials,
            reused |-> item[j][s].reused, wave |-> 0,
            status |-> IF s \in Unexecutable THEN "skipped" ELSE "pending",
            pc |-> IF s \in Unexecutable THEN "commit"
                   ELSE IF item[j][s].trials = 0 THEN "auto" ELSE "claim"]]
        BY <1>1, <2>2 DEF ReadItem
      <3>4. req'[r] =
           [job |-> j, sub |-> s, trials |-> item[j][s].trials,
            reused |-> item[j][s].reused, wave |-> 0,
            status |-> IF s \in Unexecutable THEN "skipped" ELSE "pending",
            pc |-> IF s \in Unexecutable THEN "commit"
                   ELSE IF item[j][s].trials = 0 THEN "auto" ELSE "claim"]
        BY <1>0, <3>3
      <3>5. RequestBar(r)'
        BY <3>2, <3>4 DEF ItemBar, RequestBar
      <3>6. \A q \in Requests \ {r} : req'[q] = req[q]
        BY <1>0, <3>3
      <3>7. QED
        BY <1>1, <3>5, <3>6, BarAlone DEF ReadItem
    <2>3. QED
      BY <2>1, <2>2
  <1>2. CASE Claim(r)
    <2>1. req[r].status = "pending" /\ UNCHANGED item
      BY <1>0, <1>2 DEF Claim, At, RequestOK
    <2>2. /\ req'[r].status = "pending"
          /\ \A q \in Requests \ {r} : req'[q] = req[q]
      <3> DEFINE need == TRIALS - req[r].trials
                 before == item[req[r].job][req[r].sub].trials
      <3>1. CASE need = 0
        BY <1>2, <2>1, <3>1 DEF Claim, GoTo, IInv, TypeOK, RequestRow
      <3>2. CASE need # 0
        <4>1. PICK n \in 0..WaveLimit(need) :
                req' = [req EXCEPT ![r].wave = n,
                          ![r].pc = IF n > 0 THEN "ready"
                                    ELSE IF req[r].reused = 0 \/ before > 0 THEN "finish"
                                    ELSE "commit"]
          BY <1>2, <3>2 DEF Claim
        <4>2. QED
          BY <2>1, <4>1 DEF IInv, TypeOK, RequestRow
      <3>3. QED
        BY <3>1, <3>2
    <2>3. RequestBar(r)'
      BY <2>2 DEF RequestBar
    <2>4. QED
      BY <2>1, <2>2, <2>3, BarAlone
  <1>3. CASE EndWave(r)
    <2>1. PICK done \in 0..req[r].wave, outage \in BOOLEAN :
            /\ outage => done < req[r].wave
            /\ req' = [req EXCEPT ![r].pc = "commit", ![r].trials = @ + done,
                           ![r].status = IF outage THEN "failed" ELSE "pending"]
      BY <1>3 DEF EndWave
    <2>2. req[r].pc = "ready" /\ UNCHANGED item
      BY <1>3 DEF EndWave, At
    <2>3. /\ req'[r].trials = req[r].trials + done
          /\ req'[r].status = IF outage THEN "failed" ELSE "pending"
          /\ \A q \in Requests \ {r} : req'[q] = req[q]
      BY <2>1 DEF IInv, TypeOK, RequestRow
    <2>4. req[r].trials + req[r].wave <= TRIALS
      BY <1>0, <2>2 DEF RequestOK
    <2>5. req[r].trials \in Nat /\ req[r].wave \in Nat
      BY <1>0, JobsAssumption DEF RequestRow
    <2>6. RequestBar(r)'
      BY <2>1, <2>3, <2>4, <2>5, JobsAssumption DEF RequestBar
    <2>7. QED
      BY <2>2, <2>3, <2>6, BarAlone
  <1>4. CASE Finish(r) \/ DbError(r) \/ Crash(r)
    <2>1. req' = [req EXCEPT ![r] = IdleRequest] /\ UNCHANGED item
      BY <1>4 DEF Finish, DbError, Crash
    <2>2. req'[r] = IdleRequest
      BY <1>0, <2>1
    <2>3. RequestBar(r)'
      BY <2>2, IdleTyped DEF RequestBar
    <2>4. QED
      BY <1>0, <2>1, <2>3, BarAlone
  <1>5. CASE \/ \E j \in Jobs : TakeLease(r, j)
             \/ ReadAuto(r) \/ Transfer(r) \/ Load(r) \/ StartCall(r) \/ EndCall(r)
    <2>1. UNCHANGED item
      BY <1>5 DEF TakeLease, ReadAuto, Transfer, Load, StartCall, EndCall
    <2>2. /\ req'[r].pc # "commit"
          /\ \A q \in Requests \ {r} : req'[q] = req[q]
      <3>1. CASE \E j \in Jobs : TakeLease(r, j)
        BY <3>1 DEF TakeLease, IInv, TypeOK, RequestRow
      <3>2. CASE ReadAuto(r)
        BY <3>2 DEF ReadAuto, GoTo, IInv, TypeOK, RequestRow
      <3>3. CASE Transfer(r) \/ Load(r) \/ StartCall(r) \/ EndCall(r)
        BY <3>3 DEF Transfer, Load, StartCall, EndCall, GoTo, IInv, TypeOK, RequestRow
      <3>4. QED
        BY <1>5, <3>1, <3>2, <3>3
    <2>3. RequestBar(r)'
      BY <2>2 DEF RequestBar
    <2>4. QED
      BY <2>1, <2>2, <2>3, BarAlone
  <1>6. QED
    BY <1>1, <1>2, <1>3, <1>4, <1>5

\* A new job has nothing saved, a resumed one what it had.
LEMMA BarOpens ==
  ASSUME IInv, BarInv, NEW j \in Jobs, CreateJob(j) \/ ResumeJob(j)
  PROVE  BarInv'
  <1>1. CASE CreateJob(j)
    <2>1. item' = [item EXCEPT ![j] =
                [s \in Submissions |-> [status |-> "pending", trials |-> 0, reused |-> 0]]]
          /\ UNCHANGED req
      BY <1>1 DEF CreateJob
    <2>2. ASSUME NEW k \in Jobs, NEW s \in Submissions PROVE ItemBar(k, s)'
      BY <2>1, JobsAssumption DEF IInv, TypeOK, BarInv, ItemBar
    <2>3. QED
      BY <2>1, <2>2 DEF BarInv, RequestBar
  <1>2. CASE ResumeJob(j)
    <2>1. item' = [item EXCEPT ![j] = [s \in Submissions |->
                IF @[s].status = "failed" THEN [@[s] EXCEPT !.status = "pending"] ELSE @[s]]]
          /\ UNCHANGED req
      BY <1>2 DEF ResumeJob
    <2>2. ASSUME NEW k \in Jobs, NEW s \in Submissions PROVE ItemBar(k, s)'
      <3>1. item[k][s] \in ItemRow /\ ItemBar(k, s)
        BY DEF IInv, TypeOK, BarInv
      <3>2. \/ item'[k][s] = item[k][s]
            \/ /\ item[k][s].status = "failed"
               /\ item'[k][s] = [item[k][s] EXCEPT !.status = "pending"]
        BY <2>1 DEF IInv, TypeOK
      <3>3. QED
        BY <3>1, <3>2 DEF ItemBar, ItemRow
    <2>3. QED
      BY <2>1, <2>2 DEF BarInv, RequestBar
  <1>3. QED
    BY <1>1, <1>2

LEMMA BarStep ==
  ASSUME IInv, BarInv, [Next]_vars
  PROVE  BarInv'
  <1>1. ASSUME NEW r \in Requests, Advance(r) \/ DbError(r) \/ Crash(r) PROVE BarInv'
    BY <1>1, BarCommit, BarMoves DEF Advance
  <1>2. ASSUME NEW j \in Jobs, CreateJob(j) \/ ResumeJob(j) PROVE BarInv'
    BY <1>2, BarOpens
  <1>3. ASSUME UNCHANGED <<item, req>> PROVE BarInv'
    BY <1>3, BarAlone
  <1>4. QED
    BY <1>1, <1>2, <1>3 DEF Next, CancelJob, ExpireLease, vars

LEMMA BarCorrect == Spec => [](IInv /\ BarInv)
  <1>1. Init => BarInv
    BY IdleTyped, JobsAssumption DEF Init, BarInv, ItemBar, RequestBar
  <1>2. IInv /\ BarInv /\ [Next]_vars => BarInv'
    BY BarStep
  <1>3. QED
    BY <1>1, <1>2, InvCorrect, PTL DEF Spec

\* The trials of the bar are those that are saved and those of skipped items.
Counted(j) == Saved(j) \cup (Skipped(j) \X (1..TRIALS))
All == Submissions \X (1..TRIALS)

LEMMA BarCounts ==
  ASSUME IInv, BarInv, NEW j \in Jobs
  PROVE  /\ IsFiniteSet(All) /\ Counted(j) \subseteq All
         /\ totalTrials = Cardinality(All)
         /\ doneTrials(j) = Cardinality(Counted(j))
  <1>1. IsFiniteSet(Submissions) /\ TRIALS \in Nat
    BY JobsAssumption
  <1>2. IsFiniteSet(1..TRIALS) /\ Cardinality(1..TRIALS) = TRIALS
    BY <1>1, FS_Interval
  <1>3. IsFiniteSet(All) /\ Cardinality(All) = Cardinality(Submissions) * TRIALS
    BY <1>1, <1>2, FS_Product DEF All
  <1>4. Skipped(j) \subseteq Submissions /\ Saved(j) \subseteq All
    BY DEF Skipped, Saved, All
  <1>5. IsFiniteSet(Skipped(j)) /\ IsFiniteSet(Saved(j))
    BY <1>1, <1>3, <1>4, FS_Subset
  <1> DEFINE Rest == Skipped(j) \X (1..TRIALS)
  <1>6. IsFiniteSet(Rest) /\ Cardinality(Rest) = Cardinality(Skipped(j)) * TRIALS
    BY <1>2, <1>5, FS_Product
  <1>7. Saved(j) \cap Rest = {}
    <2>1. ASSUME NEW p \in Saved(j), p \in Rest PROVE FALSE
      <3>1. /\ p[1] \in Submissions /\ item[j][p[1]].status = "skipped"
            /\ p[2] \in 1..TRIALS /\ p[2] <= item[j][p[1]].trials
        BY <2>1 DEF Skipped, Saved
      <3>2. item[j][p[1]].trials = 0
        BY <3>1 DEF IInv, ItemOK, BarInv, ItemBar
      <3>3. QED
        BY <3>1, <3>2
    <2>2. QED
      BY <2>1
  <1>8. Counted(j) \subseteq All
    BY <1>4 DEF Counted, All
  <1>9. /\ Cardinality(Counted(j)) =
             Cardinality(Saved(j)) + Cardinality(Rest) - Cardinality(Saved(j) \cap Rest)
        /\ IsFiniteSet(Counted(j))
    BY <1>5, <1>6, FS_Union DEF Counted
  <1>10. Cardinality({}) = 0
    BY FS_EmptySet
  <1>11. Cardinality(Saved(j)) \in Nat /\ Cardinality(Skipped(j)) \in Nat
    BY <1>5, FS_CardinalityType
  <1>12. Cardinality(Counted(j)) = Cardinality(Saved(j)) + TRIALS * Cardinality(Skipped(j))
    <2>1. Cardinality(Rest) = TRIALS * Cardinality(Skipped(j))
      BY <1>1, <1>6, <1>11
    <2>2. Cardinality(Counted(j)) = Cardinality(Saved(j)) + Cardinality(Rest) - 0
      BY <1>7, <1>9, <1>10
    <2>3. Cardinality(Rest) \in Nat
      BY <1>6, FS_CardinalityType
    <2>4. QED
      BY <1>11, <2>1, <2>2, <2>3
  <1>13. Cardinality(Counted(j)) <= Cardinality(All)
    BY <1>3, <1>8, FS_Subset
  <1>14. Cardinality(All) \in Nat /\ Cardinality(Counted(j)) \in Nat
    BY <1>3, <1>9, FS_CardinalityType
  <1>15. doneTrials(j) = Cardinality(Counted(j))
    BY <1>3, <1>12, <1>13, <1>14 DEF doneTrials, totalTrials, Smaller
  <1>16. QED
    BY <1>3, <1>8, <1>15 DEF totalTrials

\* The bar is full exactly when every item is completed or skipped
\* (jevJobProgress): the sum over the items counts the pairs of an item and one
\* of its trials, and a full one leaves no pair out.
THEOREM FullBarIsDone == Spec => []FullBarMeansDone
  <1>1. ASSUME IInv, BarInv, NEW j \in Jobs, job[j].status # "none"
        PROVE  doneTrials(j) = totalTrials
                 <=> \A s \in Submissions : item[j][s].status \in {"completed", "skipped"}
    <2>1. doneTrials(j) = totalTrials <=> Counted(j) = All
      BY <1>1, BarCounts, FS_Subset
    <2>2. ASSUME Counted(j) = All, NEW s \in Submissions
          PROVE  item[j][s].status \in {"completed", "skipped"}
      <3>1. <<s, TRIALS>> \in Counted(j)
        BY <2>2, JobsAssumption DEF All
      <3>2. item[j][s] \in ItemRow /\ ItemBar(j, s) /\ item[j][s].status # "none"
        BY <1>1 DEF IInv, TypeOK, BarInv, JobOK
      <3>3. CASE <<s, TRIALS>> \in Saved(j)
        <4>1. TRIALS <= item[j][s].trials
          BY <3>3 DEF Saved
        <4>2. QED
          BY <3>2, <4>1, JobsAssumption DEF ItemBar, ItemRow
      <3>4. CASE s \in Skipped(j)
        BY <3>4 DEF Skipped
      <3>5. QED
        BY <3>1, <3>3, <3>4 DEF Counted
    <2>3. ASSUME \A s \in Submissions : item[j][s].status \in {"completed", "skipped"}
          PROVE  Counted(j) = All
      <3>1. ASSUME NEW s \in Submissions, NEW k \in 1..TRIALS
            PROVE  <<s, k>> \in Counted(j)
        <4>1. CASE item[j][s].status = "completed"
          <5>1. item[j][s].trials = TRIALS
            BY <1>1, <4>1 DEF BarInv, ItemBar
          <5>2. QED
            BY <5>1, JobsAssumption DEF Saved, Counted
        <4>2. CASE item[j][s].status = "skipped"
          BY <4>2 DEF Skipped, Counted
        <4>3. QED
          BY <2>3, <4>1, <4>2
      <3>2. All \subseteq Counted(j)
        BY <3>1 DEF All
      <3>3. QED
        BY <1>1, <3>2, BarCounts
    <2>4. QED
      BY <2>1, <2>2, <2>3
  <1>2. IInv /\ BarInv => FullBarMeansDone
    BY <1>1 DEF FullBarMeansDone
  <1>3. QED
    BY <1>2, BarCorrect, PTL
=============================================================================
