----------------------------- MODULE TrialSlots -----------------------------
(***************************************************************************)
(* The global trial slots of lib/jevRunner.ts and the guard that           *)
(* lib/jev/trialGuard.ts runs before every upstream AI call.               *)
(*                                                                         *)
(* A worker is one promise that holds (or tries to hold) a slot: a trial   *)
(* of an automatic run, a trial of a teacher job, or a research-feedback   *)
(* request (Research).  Every database statement is one action, and every  *)
(* await between two statements lets the other workers and the clock move. *)
(* Date.now() is sampled when a statement is issued (asked[w]) and used    *)
(* when the database runs it, which may be later.                          *)
(***************************************************************************)
EXTENDS Integers, FiniteSets

CONSTANTS
  SlotCount,        \* GLOBAL_TRIAL_SLOTS
  Workers,          \* names for the promises alive at one time
  Research,         \* the workers that run runResearchAI
  Tokens,           \* values of crypto.randomUUID()
  NoToken,          \* SQL NULL in lease_token
  Nobody,           \* a line of the call limiter on which nobody talks
  LEASE,            \* TRIAL_LEASE_MS
  MARGIN,           \* CALL_MARGIN_MS
  CALL_TIMEOUT,     \* DEFAULT_JEV_TIMEOUT_MS, the abort timer of a call
  RESEARCH_LIMIT,   \* the 100 s after which a research request stops asking
  MaxTime           \* bound on the clock

ASSUME SlotAssumption == SlotCount \in Nat \ {0}
ASSUME WorkerAssumption == Research \subseteq Workers /\ Nobody \notin Workers
ASSUME TokenAssumption == NoToken \notin Tokens
ASSUME TimeAssumption ==
  /\ LEASE \in Nat /\ MARGIN \in Nat /\ CALL_TIMEOUT \in Nat
  /\ RESEARCH_LIMIT \in Nat /\ MaxTime \in Nat
  /\ CALL_TIMEOUT <= MARGIN

VARIABLES
  now,      \* the wall clock
  slots,    \* the rows of jev_trial_slots
  pc,       \* where each worker is
  asked,    \* Date.now() as sampled for the statement a worker has in flight
  began,    \* Date.now() when a research request began
  lease,    \* the TrialSlot object a worker holds
  callStart \* when a worker's current upstream call began

vars == <<now, slots, pc, asked, began, lease, callStart>>

Slots == 1..SlotCount
Row == [token : Tokens \cup {NoToken}, until : Nat]
FreeRow == [token |-> NoToken, until |-> 0]
TrialSlot == [slot : Slots, token : Tokens \cup {NoToken}, until : Nat]
NoLease == [slot |-> 1, token |-> NoToken, until |-> 0]

\* A worker holds a TrialSlot object from its claim until it has released it.
Holding == {"ready", "fencing", "fenced", "calling", "settling"}
Holds(w) == pc[w] \in Holding

TypeOK ==
  /\ now \in Nat
  /\ slots \in [Slots -> Row]
  /\ pc \in [Workers -> {"idle", "claiming"} \cup Holding]
  /\ asked \in [Workers -> Nat]
  /\ began \in [Workers -> Nat]
  /\ lease \in [Workers -> TrialSlot]
  /\ callStart \in [Workers -> Nat]

-----------------------------------------------------------------------------
(* Operators of the code.                                                  *)

\* Slip: when all rows are busy one more is used.
FreeBeyondLimit(t) ==
  LET free == {s \in Slots : slots[s].token = NoToken \/ slots[s].until < t}
  IN  IF free = {} THEN {SlotCount + 1} ELSE free

\* Slip: a row is free as soon as its holder may start no call.
FreeAtDeadline(t) ==
  {s \in Slots : slots[s].token = NoToken \/ slots[s].until - MARGIN < t}

\* lease_token IS NULL OR lease_until < ?
Free(t) == {s \in Slots : slots[s].token = NoToken \/ slots[s].until < t}

\* The row still carries w's token.
OwnsRow(w) == slots[lease[w].slot].token = lease[w].token

\* SLOT_HELD_SQL: the slot lease is still ours and unexpired.
SlotHeld(w, t) == OwnsRow(w) /\ slots[lease[w].slot].until > t

\* Slip: no margin for the call in flight.
TrialDeadlineAtExpiry(l) == l.until

\* trialDeadline(leaseUntil)
TrialDeadline(l) == l.until - MARGIN

\* The check before the fence query is sent.
MayAsk(w) ==
  IF w \in Research THEN now <= began[w] + RESEARCH_LIMIT
                    ELSE now <= TrialDeadline(lease[w])

\* Slip: the deadline is not looked at again after the fence.
MayCallUnchecked(w) == TRUE

\* The check after the fence query answered "current".
MayCall(w) ==
  IF w \in Research THEN lease[w].until >= now
                    ELSE now <= TrialDeadline(lease[w])

UsedTokens ==
  {slots[s].token : s \in Slots} \cup {lease[w].token : w \in Workers}

\* crypto.randomUUID(): a token that nothing refers to.
FreshToken == CHOOSE tok \in Tokens : tok \notin UsedTokens

GoTo(w, label) == pc' = [pc EXCEPT ![w] = label]

\* The promise is over and its local variables are gone.
Finish(w) ==
  /\ GoTo(w, "idle")
  /\ asked' = [asked EXCEPT ![w] = 0]
  /\ began' = [began EXCEPT ![w] = 0]
  /\ lease' = [lease EXCEPT ![w] = NoLease]
  /\ callStart' = [callStart EXCEPT ![w] = 0]

-----------------------------------------------------------------------------
(* Actions.                                                                *)

\* A request issues claimTrialSlot with the time it sampled.  A research request
\* has sampled the time from which its limit runs before that (now in
\* runResearchAI); nothing else uses began.
Begin(w) ==
  /\ pc[w] = "idle"
  /\ GoTo(w, "claiming")
  /\ asked' = [asked EXCEPT ![w] = now]
  /\ \E t \in 0..now : /\ w \in Research \/ t = 0
                       /\ began' = [began EXCEPT ![w] = t]
  /\ UNCHANGED <<now, slots, lease, callStart>>

\* claimTrialSlot's UPDATE takes the free row with the lowest id.
ClaimSlot(w) ==
  /\ pc[w] = "claiming"
  /\ Tokens \ UsedTokens # {}
  /\ \E s \in Free(asked[w]) :
       /\ \A other \in Free(asked[w]) : s <= other
       /\ LET until == asked[w] + LEASE
          IN  /\ slots' = [slots EXCEPT ![s] = [token |-> FreshToken, until |-> until]]
              /\ lease' = [lease EXCEPT ![w] =
                             [slot |-> s, token |-> FreshToken, until |-> until]]
  /\ GoTo(w, "ready")
  /\ asked' = [asked EXCEPT ![w] = 0]
  /\ UNCHANGED <<now, began, callStart>>

\* claimTrialSlot's UPDATE finds no row: null, the worker gives up.
ClaimNothing(w) ==
  /\ pc[w] = "claiming"
  /\ Free(asked[w]) = {}
  /\ Finish(w)
  /\ UNCHANGED <<now, slots>>

\* The guard checks the deadline and sends the fence.
SendFence(w) ==
  /\ pc[w] = "ready"
  /\ MayAsk(w)
  /\ GoTo(w, "fencing")
  /\ asked' = [asked EXCEPT ![w] = now]
  /\ UNCHANGED <<now, slots, began, lease, callStart>>

\* The deadline has passed, or the worker needs no call or no further one.
Conclude(w) ==
  /\ pc[w] = "ready"
  /\ GoTo(w, "settling")
  /\ UNCHANGED <<now, slots, asked, began, lease, callStart>>

\* The database answers the fence.  The caller's own condition (run epoch, job
\* lease, feedback token) may fail at any time; a trial's fence also requires
\* the slot to be held, a research request's does not.
FenceAnswers(w) ==
  /\ pc[w] = "fencing"
  /\ \/ /\ w \in Research \/ SlotHeld(w, asked[w])
        /\ GoTo(w, "fenced")
     \/ GoTo(w, "settling")
  /\ asked' = [asked EXCEPT ![w] = 0]
  /\ UNCHANGED <<now, slots, began, lease, callStart>>

\* The check after the fence, and in the same turn the upstream fetch.
StartCall(w) ==
  /\ pc[w] = "fenced"
  /\ MayCall(w)
  /\ GoTo(w, "calling")
  /\ callStart' = [callStart EXCEPT ![w] = now]
  /\ UNCHANGED <<now, slots, asked, began, lease>>

\* The check after the fence fails: deadline (a trial) or stale (research).
AbortCall(w) ==
  /\ pc[w] = "fenced"
  /\ ~MayCall(w)
  /\ GoTo(w, "settling")
  /\ UNCHANGED <<now, slots, asked, began, lease, callStart>>

\* The call answers, fails or is aborted by its timer; the trial needs another
\* call or is over.
EndCall(w) ==
  /\ pc[w] = "calling"
  /\ \/ GoTo(w, "ready")
     \/ GoTo(w, "settling")
  /\ callStart' = [callStart EXCEPT ![w] = 0]
  /\ UNCHANGED <<now, slots, asked, began, lease>>

\* Slip: a release clears the row whoever holds it.
ReleaseAnyHolder(w) ==
  /\ pc[w] = "settling"
  /\ slots' = [slots EXCEPT ![lease[w].slot] = FreeRow]
  /\ Finish(w)
  /\ UNCHANGED now

\* releaseTrialSlot: only the holder's token clears the row.
Release(w) ==
  /\ pc[w] = "settling"
  /\ slots' = IF OwnsRow(w)
                THEN [slots EXCEPT ![lease[w].slot] = FreeRow]
                ELSE slots
  /\ Finish(w)
  /\ UNCHANGED now

\* The isolate dies at an await: the row keeps its lease until it expires.
Crash(w) ==
  /\ pc[w] # "idle"
  /\ Finish(w)
  /\ UNCHANGED <<now, slots>>

\* Time passes, but no call is in flight longer than its abort timer allows.
Tick ==
  /\ now < MaxTime
  /\ \A w \in Workers : pc[w] = "calling" => now < callStart[w] + CALL_TIMEOUT
  /\ now' = now + 1
  /\ UNCHANGED <<slots, pc, asked, began, lease, callStart>>

Step(w) ==
  \/ Begin(w) \/ ClaimSlot(w) \/ ClaimNothing(w)
  \/ SendFence(w) \/ Conclude(w) \/ FenceAnswers(w)
  \/ StartCall(w) \/ AbortCall(w) \/ EndCall(w)
  \/ Release(w) \/ Crash(w)

Init ==
  /\ now = 0
  /\ slots = [s \in Slots |-> FreeRow]
  /\ pc = [w \in Workers |-> "idle"]
  /\ asked = [w \in Workers |-> 0]
  /\ began = [w \in Workers |-> 0]
  /\ lease = [w \in Workers |-> NoLease]
  /\ callStart = [w \in Workers |-> 0]

Next == Tick \/ \E w \in Workers : Step(w)

Spec == Init /\ [][Next]_vars

-----------------------------------------------------------------------------
(* Properties.                                                             *)

Calling == {w \in Workers : pc[w] = "calling"}

\* A trial that is talking to the API still owns its slot row, and its lease
\* has not run out: the margin of CALL_MARGIN_MS covers the call, however late
\* the fence answered.  (jevRunner.ts: "once a lease has expired its old holder
\* can no longer be talking to the API".)
NoCallOutlivesLease ==
  \A w \in Calling \ Research : OwnsRow(w) /\ now <= lease[w].until

\* No two calls are in flight under the same slot row, so never more calls than
\* rows: the five rows are the server-wide limit.  The exception is a research
\* request, which checks its lease after the fence but keeps no margin: its call
\* may go on beside the row's next one, for no longer than one call takes
\* (researchAI.ts guardedFetch).
OneCallPerSlot ==
  \A v, w \in Calling :
    v # w /\ lease[v].slot = lease[w].slot
      => \E u \in {v, w} \cap Research : now - lease[u].until \in 1..CALL_TIMEOUT

\* A lease that has not expired is ended by nobody but its holder: a late
\* release or a claim of another worker never takes the row from under it.
OnlyHolderEndsLease ==
  [][\A w \in Workers :
       Holds(w) /\ OwnsRow(w) /\ now <= lease[w].until /\ Holds(w)'
         => slots'[lease[w].slot] = slots[lease[w].slot]]_vars

\* "Its old holder can no longer be talking to the API": so says jevRunner.ts,
\* and it does not hold of a research request.
NoCallAfterLease == \A w \in Calling : now <= lease[w].until

\* The calls of trials and those of research requests within their lease, and the
\* one under slot s (at most one, by OneCallPerSlot).
Counted == {w \in Calling : w \in Research => now <= lease[w].until}
Line == [s \in Slots |->
           IF \E w \in Counted : lease[w].slot = s
             THEN CHOOSE w \in Counted : lease[w].slot = s
             ELSE Nobody]

Limiter == INSTANCE CallLimiter
             WITH Lines <- Slots, Callers <- Workers, line <- Line

\* The slot protocol implements the call limiter: every step starts one call on
\* a free line, ends calls (time ends a research call's claim to its line), or
\* leaves the lines alone.
ImplementsLimiter == Limiter!Spec

=============================================================================
