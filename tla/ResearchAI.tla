----------------------------- MODULE ResearchAI -----------------------------
(***************************************************************************)
(* The AI feedback on one version of a text (lib/researchAI.ts).  Several  *)
(* requests of its author's pages compete for the row of                   *)
(* algorithm_ai_feedback: one claims it for a lease, makes its calls one   *)
(* after the other, each behind a guard, and stores the result if the row  *)
(* is still its own.  The panel (ResearchPanel.tsx) asks again for a row   *)
(* that is queued or whose lease has run out.                              *)
(*                                                                         *)
(* Time is counted in steps of the clock: the age of each request, the     *)
(* time left of the lease of the row and of its slot (negative once it is  *)
(* over), and the time that an awaited answer has taken.                   *)
(***************************************************************************)
EXTENDS Integers

CONSTANTS
  Requests,
  Lease,      \* of the row, from when a request was asked
  Deadline,   \* no guard is passed after this age
  CallTime,   \* the abort timeout of a call
  SlotLease,  \* of the slot, from when it was claimed
  MaxLost,    \* bound on requests that die
  MaxBusy,    \* bound on requests that find no free slot
  Nobody

\* 120 s, 100 s, 8 s and 130 s; how long a guard's query takes is not bounded.
LeaseAssumption ==
  /\ {Lease, Deadline, CallTime, SlotLease} \subseteq Nat
  /\ Deadline + CallTime <= Lease
  /\ {MaxLost, MaxBusy} \subseteq Nat /\ Nobody \notin Requests

VARIABLES
  open,    \* the round is open
  status,  \* of the row, "none" before it exists
  token,   \* the request that holds it
  left,    \* what is left of its lease
  req,     \* pc, age, what is left of its slot's lease, the time the current
           \* answer has taken, and the time the last guard's query took
  lost, busy

vars == <<open, status, token, left, req, lost, busy>>

Statuses == {"none", "queued", "running", "failed", "completed"}
Stages == {"idle", "asked", "claimed", "work", "fence", "call"}
Idle == [pc |-> "idle", age |-> 0, slot |-> -1, waited |-> 0, fenced |-> 0]
Late == Lease + 1     \* where ages and waits stop being counted
Over == -(Lease + 2)  \* a lease that ended longer ago than any request lasts

TypeOK ==
  /\ open \in BOOLEAN
  /\ status \in Statuses /\ token \in Requests \cup {Nobody}
  /\ (token # Nobody) <=> (status = "running")
  /\ left \in Over..Lease
  /\ req \in [Requests -> [pc : Stages, age : 0..Late, slot : (-1)..SlotLease,
                           waited : 0..Late, fenced : 0..Late]]
  /\ lost \in 0..MaxLost /\ busy \in 0..MaxBusy

Holds(r) == status = "running" /\ token = r

\* Slip: a running row may be claimed, too.
ClaimableRunning(r) == status \in {"queued", "failed", "running"}

\* Slip: a completed row may be claimed again.
ClaimableAgain(r) ==
  \/ status \in {"queued", "failed", "completed"}
  \/ status = "running" /\ left < -req[r].age

\* Slip: only a queued or a failed row may be claimed.
ClaimableIdle(r) == status \in {"queued", "failed"}

\* The WHERE of the claim; its clock is the one read when the request began.
Claimable(r) ==
  \/ status \in {"queued", "failed"}
  \/ status = "running" /\ left < -req[r].age

Become(r, st, who, time) == status' = st /\ token' = who /\ left' = time
KeepRow == UNCHANGED <<status, token, left>>
To(r, stage) == req' = [req EXCEPT ![r].pc = stage, ![r].waited = 0]
End(r) == req' = [req EXCEPT ![r] = Idle]

\* Slip: the row keeps its token and its lease.
SettleKeepsToken(r, st) ==
  IF Holds(r) THEN Become(r, st, r, left) ELSE KeepRow

\* UPDATE ... WHERE token = ?
SettleIfHeld(r, st) ==
  IF Holds(r) THEN Become(r, st, Nobody, Over) ELSE KeepRow

-----------------------------------------------------------------------------
\* The version is the student's and its round open; the clock is read.
Ask(r) ==
  /\ req[r].pc = "idle" /\ open
  /\ To(r, "asked")
  /\ UNCHANGED <<open, status, token, left, lost, busy>>

\* INSERT OR IGNORE of the row and its conditional UPDATE.
Claim(r) ==
  /\ req[r].pc = "asked"
  /\ IF status = "none" \/ Claimable(r)
       THEN Become(r, "running", r, Lease - req[r].age) /\ To(r, "claimed")
       ELSE KeepRow /\ End(r)
  /\ UNCHANGED <<open, lost, busy>>

\* Between the two statements another request may find the row.
Insert(r) ==
  /\ req[r].pc = "asked" /\ status = "none"
  /\ Become(r, "queued", Nobody, Over)
  /\ UNCHANGED <<open, req, lost, busy>>

GetSlot(r) ==
  /\ req[r].pc = "claimed" /\ KeepRow
  /\ req' = [req EXCEPT ![r].pc = "work", ![r].slot = SlotLease]
  /\ UNCHANGED <<open, lost, busy>>

NoSlot(r) ==
  /\ req[r].pc = "claimed" /\ busy < MaxBusy
  /\ SettleIfHeld(r, "queued") /\ End(r)
  /\ busy' = busy + 1
  /\ UNCHANGED <<open, lost>>

\* Slip: the deadline is the end of the lease.
InTimeOfLease(r) == req[r].age <= Lease

InTime(r) == req[r].age <= Deadline

\* guardedFetch: deadline, then the query that finds the row still its own,
Fence(r) ==
  /\ req[r].pc = "work"
  /\ InTime(r) /\ Holds(r) /\ left > 0
  /\ To(r, "fence") /\ KeepRow
  /\ UNCHANGED <<open, lost, busy>>

\* and when it answers, after whatever time, only a look at the slot's lease.
Call(r) ==
  /\ req[r].pc = "fence"
  /\ IF req[r].slot < 0 THEN SettleIfHeld(r, "failed") /\ End(r)
     ELSE /\ req' = [req EXCEPT ![r].pc = "call", ![r].waited = 0, ![r].fenced = req[r].waited]
          /\ KeepRow
  /\ UNCHANGED <<open, lost, busy>>

CallEnds(r) ==
  /\ req[r].pc = "call" /\ To(r, "work") /\ KeepRow
  /\ UNCHANGED <<open, lost, busy>>

Complete(r) ==
  /\ req[r].pc = "work"
  /\ SettleIfHeld(r, "completed") /\ End(r)
  /\ UNCHANGED <<open, lost, busy>>

\* Any error: the guard's, an upstream one, a missing key.
Fail(r) ==
  /\ req[r].pc \in {"claimed", "work", "fence", "call"}
  /\ SettleIfHeld(r, "failed") /\ End(r)
  /\ UNCHANGED <<open, lost, busy>>

\* The isolate dies with the row held.
Die(r) ==
  /\ req[r].pc # "idle" /\ lost < MaxLost
  /\ lost' = lost + 1 /\ End(r) /\ KeepRow
  /\ UNCHANGED <<open, busy>>

CloseRound ==
  /\ open /\ open' = FALSE
  /\ UNCHANGED <<status, token, left, req, lost, busy>>

\* A request one step later.
OneMore(n) == IF n < Late THEN n + 1 ELSE n
Older(q) ==
  [q EXCEPT !.age = OneMore(@), !.slot = IF @ < 0 THEN @ ELSE @ - 1,
            !.waited = IF q.pc \in {"fence", "call"} THEN OneMore(@) ELSE @]

\* A call that takes its full time ends before the clock moves on.
Tick ==
  /\ \A r \in Requests : req[r].pc = "call" => req[r].waited < CallTime
  /\ left' = IF left > Over THEN left - 1 ELSE Over
  /\ req' = [r \in Requests |->
       IF req[r].pc = "idle" THEN Idle ELSE Older(req[r])]
  /\ UNCHANGED <<open, status, token, lost, busy>>

-----------------------------------------------------------------------------
Init ==
  /\ open = TRUE /\ status = "none" /\ token = Nobody /\ left = Over
  /\ req = [r \in Requests |-> Idle]
  /\ lost = 0 /\ busy = 0

Step(r) ==
  \/ Ask(r) \/ Insert(r) \/ Claim(r) \/ GetSlot(r) \/ NoSlot(r)
  \/ Fence(r) \/ Call(r) \/ CallEnds(r) \/ Complete(r) \/ Fail(r) \/ Die(r)

Next == (\E r \in Requests : Step(r)) \/ CloseRound \/ Tick

Spec == Init /\ [][Next]_vars

\* The panel polls and asks when it sees one of these.
NeedsRun == status \in {"none", "queued"} \/ (status = "running" /\ left < 0)

\* A request that was not killed proceeds, often enough within its lease; its
\* calls are finitely many, the clock runs, and a page shows the panel.
Fairness ==
  /\ WF_vars(Tick)
  /\ \A r \in Requests :
       /\ WF_vars(NeedsRun /\ Ask(r))
       /\ WF_vars(Claim(r)) /\ WF_vars(Call(r)) /\ WF_vars(CallEnds(r))
       /\ WF_vars(GetSlot(r) \/ NoSlot(r))
       /\ SF_vars(Holds(r) /\ (GetSlot(r) \/ NoSlot(r)))
       /\ WF_vars(Complete(r) \/ (req[r].pc = "work" /\ Fail(r)))
       /\ SF_vars(Holds(r) /\ (Complete(r) \/ (req[r].pc = "work" /\ Fail(r))))

FairSpec == Spec /\ Fairness

-----------------------------------------------------------------------------
(* Properties.                                                             *)

\* The guard's query took so long that the row's lease may end during the call.
Slow(r) == req[r].fenced > Lease - Deadline - CallTime

\* No version is read by two calls at once, although a stale request goes on
\* until its next guard: a request that is still calling has not been replaced,
\* unless the query of its guard outlasted what deadline and call leave of the
\* row's lease (the guard looks at the slot's lease only, once it has answered).
OneCallPerVersion ==
  \A r, s \in Requests :
    req[r].pc = "call" /\ req[s].pc = "call" /\ ~Slow(r) /\ ~Slow(s) => r = s

\* A stored result is never replaced, by a late answer, a late failure or a
\* request that finds no slot.
CompletedIsFinal == status = "completed" => status' = "completed"

\* Nobody else settles or takes over a row while its lease lasts.
LeaseIsKept ==
  \A r \in Requests : Holds(r) /\ left >= 0 /\ ~(Holds(r))' => req'[r] # req[r]

\* While the round stays open and the panel is shown, every version gets a
\* result or an error that offers another try, through dead requests and full
\* slots.
FeedbackSettles == <>(status \in {"completed", "failed"} \/ ~open)

=============================================================================
