-------------------------- MODULE TrialSlotsProofs --------------------------
(***************************************************************************)
(* Proofs about TrialSlots for every number of slots and workers, every    *)
(* lease, margin and call timeout with CALL_TIMEOUT <= MARGIN, and a fence *)
(* that may take any time to answer.                                       *)
(*                                                                         *)
(* The argument: tokens are never shared, so an unexpired lease is ended   *)
(* only by its holder (Owned); a trial's call starts MARGIN before the     *)
(* lease ends and its timer aborts it within MARGIN (InTime); hence the    *)
(* holder of a call in flight still owns its row, and two such holders     *)
(* would share a token.                                                    *)
(***************************************************************************)
EXTENDS TrialSlots, TLAPS

\* A worker without a slot has no TrialSlot object, one with a slot has a real
\* token, and no two workers have the same one.
TokensDistinct ==
  /\ \A w \in Workers : ~Holds(w) => lease[w] = NoLease
  /\ \A w \in Workers : Holds(w) => lease[w].token \in Tokens
  /\ \A v, w \in Workers :
       Holds(v) /\ Holds(w) /\ lease[v].token = lease[w].token => v = w

\* A row that carries a worker's token is the row it claimed, unchanged since.
RowsMatch ==
  \A w \in Workers, s \in Slots :
    Holds(w) /\ slots[s].token = lease[w].token
      => s = lease[w].slot /\ slots[s].until = lease[w].until

\* A sampled time is never ahead of the clock.
Sampled == \A w \in Workers : asked[w] <= now

\* Until a worker's lease runs out its row is its own.
Owned == \A w \in Workers : Holds(w) /\ now <= lease[w].until => OwnsRow(w)

\* A call in flight is younger than its timer, and one of a trial started at
\* least MARGIN before its lease ends.
InTime ==
  \A w \in Calling :
    /\ now <= callStart[w] + CALL_TIMEOUT
    /\ w \notin Research => callStart[w] <= lease[w].until - MARGIN
    /\ w \in Research => callStart[w] <= lease[w].until

IInv == TypeOK /\ TokensDistinct /\ RowsMatch /\ Sampled /\ Owned /\ InTime

-----------------------------------------------------------------------------

\* A token chosen by FreshToken is carried by no row and no worker.
LEMMA FreshTokenIsFresh ==
  ASSUME Tokens \ UsedTokens # {}
  PROVE  /\ FreshToken \in Tokens
         /\ \A s \in Slots : slots[s].token # FreshToken
         /\ \A w \in Workers : lease[w].token # FreshToken
  <1>1. \E tok \in Tokens : tok \notin UsedTokens
    OBVIOUS
  <1>2. FreshToken \in Tokens /\ FreshToken \notin UsedTokens
    BY <1>1 DEF FreshToken
  <1>3. QED
    BY <1>2 DEF UsedTokens

\* Every variable keeps its type in every behaviour.
THEOREM TypeCorrect == Spec => []TypeOK
  <1>1. Init => TypeOK
    BY SlotAssumption DEF Init, TypeOK, Slots, Row, FreeRow, TrialSlot, NoLease
  <1>2. TypeOK /\ [Next]_vars => TypeOK'
    <2> SUFFICES ASSUME TypeOK, [Next]_vars
                 PROVE  TypeOK'
      OBVIOUS
    <2> USE TimeAssumption, SlotAssumption
        DEF TypeOK, Holding, GoTo, Row, TrialSlot
    <2>1. ASSUME NEW w \in Workers, Begin(w)
          PROVE  TypeOK'
      BY <2>1 DEF Begin
    <2>2. ASSUME NEW w \in Workers, ClaimSlot(w)
          PROVE  TypeOK'
      <3>1. FreshToken \in Tokens
        BY <2>2, FreshTokenIsFresh DEF ClaimSlot
      <3>2. Free(asked[w]) \subseteq Slots
        BY DEF Free
      <3>3. asked[w] + LEASE \in Nat
        OBVIOUS
      <3>4. QED
        BY <2>2, <3>1, <3>2, <3>3 DEF ClaimSlot
    <2>3. ASSUME NEW w \in Workers, ClaimNothing(w)
          PROVE  TypeOK'
      BY <2>3 DEF ClaimNothing, Finish, NoLease, Slots
    <2>4. ASSUME NEW w \in Workers, SendFence(w)
          PROVE  TypeOK'
      BY <2>4 DEF SendFence
    <2>4a. ASSUME NEW w \in Workers, Conclude(w)
           PROVE  TypeOK'
      BY <2>4a DEF Conclude
    <2>5. ASSUME NEW w \in Workers, FenceAnswers(w)
          PROVE  TypeOK'
      BY <2>5 DEF FenceAnswers
    <2>6. ASSUME NEW w \in Workers, StartCall(w)
          PROVE  TypeOK'
      BY <2>6 DEF StartCall
    <2>7. ASSUME NEW w \in Workers, AbortCall(w)
          PROVE  TypeOK'
      BY <2>7 DEF AbortCall
    <2>8. ASSUME NEW w \in Workers, EndCall(w)
          PROVE  TypeOK'
      BY <2>8 DEF EndCall
    <2>9. ASSUME NEW w \in Workers, Release(w)
          PROVE  TypeOK'
      BY <2>9 DEF Release, Finish, NoLease, Slots, FreeRow
    <2>10. ASSUME NEW w \in Workers, Crash(w)
           PROVE  TypeOK'
      BY <2>10 DEF Crash, Finish, NoLease, Slots
    <2>11. CASE Tick
      BY <2>11 DEF Tick
    <2>12. CASE UNCHANGED vars
      BY <2>12 DEF vars
    <2>13. QED
      BY <2>1, <2>2, <2>3, <2>4, <2>4a, <2>5, <2>6, <2>7, <2>8, <2>9, <2>10, <2>11,
         <2>12 DEF Next, Step
  <1>3. QED
    BY <1>1, <1>2, PTL DEF Spec

\* Init establishes the inductive invariant.
LEMMA InitInv == Init => IInv
  <1>1. Init => TypeOK
    BY SlotAssumption DEF Init, TypeOK, Slots, Row, FreeRow, TrialSlot, NoLease
  <1>2. QED
    BY <1>1 DEF Init, IInv, TokensDistinct, RowsMatch, Sampled, Owned, InTime,
                Holds, Holding, Calling

\* A worker that ends (normally or by a crash) without touching the rows of the
\* others preserves the invariant.
LEMMA FinishInv ==
  ASSUME IInv, TypeOK', NEW w \in Workers, Finish(w), now' = now,
         \/ slots' = slots
         \/ /\ Holds(w) /\ OwnsRow(w)
            /\ slots' = [slots EXCEPT ![lease[w].slot] = FreeRow]
  PROVE  IInv'
  <1> USE DEF IInv, Finish, GoTo, Holds, Holding
  <1>1. \A v \in Workers \ {w} : /\ pc'[v] = pc[v] /\ lease'[v] = lease[v]
                                  /\ asked'[v] = asked[v]
                                  /\ callStart'[v] = callStart[v]
    BY DEF TypeOK
  <1>2. pc'[w] = "idle" /\ lease'[w] = NoLease /\ asked'[w] = 0
    BY DEF TypeOK
  <1>3. TokensDistinct'
    BY <1>1, <1>2 DEF TokensDistinct
  <1>4. RowsMatch'
    BY <1>1, <1>2, TokenAssumption DEF RowsMatch, TokensDistinct, FreeRow, TypeOK, TrialSlot
  <1>5. Sampled'
    BY <1>1, <1>2 DEF Sampled, TypeOK
  <1>6. Owned'
    <2> SUFFICES ASSUME NEW v \in Workers, Holds(v)', now <= lease'[v].until
                 PROVE  OwnsRow(v)'
      BY DEF Owned
    <2>1. v # w /\ Holds(v)
      BY <1>1, <1>2
    <2>2. OwnsRow(v)
      BY <1>1, <2>1 DEF Owned
    <2>3. CASE slots' = slots
      BY <1>1, <2>1, <2>2, <2>3 DEF OwnsRow
    <2>4. CASE Holds(w) /\ OwnsRow(w) /\ slots' = [slots EXCEPT ![lease[w].slot] = FreeRow]
      <3>1. lease[v].slot # lease[w].slot
        BY <2>1, <2>2, <2>4 DEF OwnsRow, TokensDistinct
      <3>2. QED
        BY <1>1, <2>1, <2>2, <2>4, <3>1 DEF OwnsRow, TypeOK, TrialSlot
    <2>5. QED
      BY <2>3, <2>4
  <1>7. InTime'
    BY <1>1, <1>2 DEF InTime, Calling
  <1>8. QED
    BY <1>3, <1>4, <1>5, <1>6, <1>7

\* A step that moves one worker's control and local times, and no row or lease,
\* preserves all of the invariant but InTime and Sampled.
LEMMA LocalInv ==
  ASSUME IInv, NEW w \in Workers, slots' = slots, lease' = lease, now' = now,
         \A v \in Workers : Holds(v)' = Holds(v)
  PROVE  TokensDistinct' /\ RowsMatch' /\ Owned'
  BY DEF IInv, TokensDistinct, RowsMatch, Owned, OwnsRow

LEMMA ClaimSlotInv ==
  ASSUME IInv, TypeOK', NEW w \in Workers, ClaimSlot(w)
  PROVE  IInv'
  <1> USE DEF IInv, GoTo, Holds, Holding
  <1>0. PICK s \in Free(asked[w]) :
          LET until == asked[w] + LEASE
          IN  /\ slots' = [slots EXCEPT ![s] = [token |-> FreshToken, until |-> until]]
              /\ lease' = [lease EXCEPT ![w] =
                             [slot |-> s, token |-> FreshToken, until |-> until]]
    BY DEF ClaimSlot
  <1>1. /\ FreshToken \in Tokens
        /\ \A q \in Slots : slots[q].token # FreshToken
        /\ \A v \in Workers : lease[v].token # FreshToken
    BY FreshTokenIsFresh DEF ClaimSlot
  <1>2. s \in Slots /\ (slots[s].token = NoToken \/ slots[s].until < asked[w])
    BY DEF Free
  <1>3. pc[w] = "claiming" /\ pc'[w] = "ready" /\ now' = now
    BY DEF ClaimSlot, TypeOK
  <1>4. \A v \in Workers \ {w} : /\ pc'[v] = pc[v] /\ lease'[v] = lease[v]
                                  /\ asked'[v] = asked[v]
                                  /\ callStart'[v] = callStart[v]
    BY <1>0 DEF ClaimSlot, TypeOK
  <1>5. lease'[w] = [slot |-> s, token |-> FreshToken, until |-> asked[w] + LEASE]
    BY <1>0 DEF TypeOK
  <1>6. /\ slots'[s] = [token |-> FreshToken, until |-> asked[w] + LEASE]
        /\ \A q \in Slots \ {s} : slots'[q] = slots[q]
    BY <1>0, <1>2 DEF TypeOK
  <1>7. TokensDistinct'
    BY <1>1, <1>3, <1>4, <1>5 DEF TokensDistinct
  <1>8. RowsMatch'
    <2> SUFFICES ASSUME NEW v \in Workers, NEW q \in Slots, Holds(v)',
                        slots'[q].token = lease'[v].token
                 PROVE  q = lease'[v].slot /\ slots'[q].until = lease'[v].until
      BY DEF RowsMatch
    <2>1. CASE v = w
      BY <1>1, <1>5, <1>6, <2>1
    <2>2. CASE v # w
      BY <1>1, <1>4, <1>6, <2>2 DEF RowsMatch
    <2>3. QED
      BY <2>1, <2>2
  <1>9. Sampled'
    BY <1>3, <1>4 DEF Sampled, ClaimSlot, TypeOK
  <1>10. Owned'
    <2> SUFFICES ASSUME NEW v \in Workers, Holds(v)', now <= lease'[v].until
                 PROVE  OwnsRow(v)'
      BY <1>3 DEF Owned
    <2>1. CASE v = w
      BY <1>5, <1>6, <2>1 DEF OwnsRow
    <2>2. CASE v # w
      <3>1. Holds(v) /\ lease'[v] = lease[v] /\ OwnsRow(v)
        BY <1>4, <2>2 DEF Owned
      <3>2. lease[v].slot # s
        <4> SUFFICES ASSUME lease[v].slot = s PROVE FALSE
          OBVIOUS
        <4>1. slots[s].token = lease[v].token /\ lease[v].token \in Tokens
          BY <3>1 DEF OwnsRow, TokensDistinct
        <4>2. slots[s].until < asked[w] /\ slots[s].until = lease[v].until
          BY <1>2, <3>1, <4>1, TokenAssumption DEF RowsMatch
        <4>3. asked[w] <= now /\ asked[w] \in Nat /\ now \in Nat /\ lease[v].until \in Nat
          BY DEF Sampled, TypeOK, TrialSlot
        <4>4. QED
          BY <3>1, <4>2, <4>3
      <3>3. QED
        BY <1>6, <3>1, <3>2 DEF OwnsRow, TypeOK, TrialSlot
    <2>3. QED
      BY <2>1, <2>2
  <1>11. InTime'
    BY <1>3, <1>4 DEF InTime, Calling
  <1>12. QED
    BY <1>7, <1>8, <1>9, <1>10, <1>11

\* Every step of the system preserves the inductive invariant.
LEMMA NextInv == IInv /\ TypeOK' /\ [Next]_vars => IInv'
  <1> SUFFICES ASSUME IInv, TypeOK', [Next]_vars
               PROVE  IInv'
    OBVIOUS
  <1> USE TimeAssumption
  <1>1. ASSUME NEW w \in Workers, Begin(w)
        PROVE  IInv'
    <2>1. \A v \in Workers : Holds(v)' = Holds(v)
      BY <1>1 DEF Begin, GoTo, Holds, Holding, IInv, TypeOK
    <2>2. TokensDistinct' /\ RowsMatch' /\ Owned'
      BY <1>1, <2>1, LocalInv DEF Begin
    <2>3. Sampled' /\ InTime'
      BY <1>1 DEF Begin, GoTo, IInv, Sampled, InTime, Calling, TypeOK
    <2>4. QED
      BY <2>2, <2>3 DEF IInv
  <1>2. ASSUME NEW w \in Workers, ClaimSlot(w)
        PROVE  IInv'
    BY <1>2, ClaimSlotInv
  <1>3. ASSUME NEW w \in Workers, ClaimNothing(w)
        PROVE  IInv'
    BY <1>3, FinishInv DEF ClaimNothing
  <1>4. ASSUME NEW w \in Workers, SendFence(w)
        PROVE  IInv'
    <2>1. \A v \in Workers : Holds(v)' = Holds(v)
      BY <1>4 DEF SendFence, GoTo, Holds, Holding, IInv, TypeOK
    <2>2. TokensDistinct' /\ RowsMatch' /\ Owned'
      BY <1>4, <2>1, LocalInv DEF SendFence
    <2>3. Sampled' /\ InTime'
      BY <1>4 DEF SendFence, GoTo, IInv, Sampled, InTime, Calling, TypeOK
    <2>4. QED
      BY <2>2, <2>3 DEF IInv
  <1>4a. ASSUME NEW w \in Workers, Conclude(w)
         PROVE  IInv'
    <2>1. \A v \in Workers : Holds(v)' = Holds(v)
      BY <1>4a DEF Conclude, GoTo, Holds, Holding, IInv, TypeOK
    <2>2. TokensDistinct' /\ RowsMatch' /\ Owned'
      BY <1>4a, <2>1, LocalInv DEF Conclude
    <2>3. Sampled' /\ InTime'
      BY <1>4a DEF Conclude, GoTo, IInv, Sampled, InTime, Calling, TypeOK
    <2>4. QED
      BY <2>2, <2>3 DEF IInv
  <1>5. ASSUME NEW w \in Workers, FenceAnswers(w)
        PROVE  IInv'
    <2>1. \A v \in Workers : Holds(v)' = Holds(v)
      BY <1>5 DEF FenceAnswers, GoTo, Holds, Holding, IInv, TypeOK
    <2>2. TokensDistinct' /\ RowsMatch' /\ Owned'
      BY <1>5, <2>1, LocalInv DEF FenceAnswers
    <2>3. Sampled' /\ InTime'
      BY <1>5 DEF FenceAnswers, GoTo, IInv, Sampled, InTime, Calling, TypeOK
    <2>4. QED
      BY <2>2, <2>3 DEF IInv
  <1>6. ASSUME NEW w \in Workers, StartCall(w)
        PROVE  IInv'
    <2>1. \A v \in Workers : Holds(v)' = Holds(v)
      BY <1>6 DEF StartCall, GoTo, Holds, Holding, IInv, TypeOK
    <2>2. TokensDistinct' /\ RowsMatch' /\ Owned'
      BY <1>6, <2>1, LocalInv DEF StartCall
    <2>3. Sampled'
      BY <1>6 DEF StartCall, IInv, Sampled
    <2>4. InTime'
      <3> SUFFICES ASSUME NEW v \in Calling'
                   PROVE  /\ now <= callStart'[v] + CALL_TIMEOUT
                          /\ v \notin Research => callStart'[v] <= lease[v].until - MARGIN
                          /\ v \in Research => callStart'[v] <= lease[v].until
        BY <1>6 DEF InTime, StartCall
      <3>1. CASE v = w
        BY <1>6, <3>1 DEF StartCall, MayCall, TrialDeadline, IInv, TypeOK, TrialSlot, Calling
      <3>2. CASE v # w
        BY <1>6, <3>2 DEF StartCall, GoTo, InTime, IInv, TypeOK, Calling
      <3>3. QED
        BY <3>1, <3>2
    <2>5. QED
      BY <2>2, <2>3, <2>4 DEF IInv
  <1>7. ASSUME NEW w \in Workers, AbortCall(w)
        PROVE  IInv'
    <2>1. \A v \in Workers : Holds(v)' = Holds(v)
      BY <1>7 DEF AbortCall, GoTo, Holds, Holding, IInv, TypeOK
    <2>2. TokensDistinct' /\ RowsMatch' /\ Owned'
      BY <1>7, <2>1, LocalInv DEF AbortCall
    <2>3. Sampled' /\ InTime'
      BY <1>7 DEF AbortCall, GoTo, IInv, Sampled, InTime, Calling, TypeOK
    <2>4. QED
      BY <2>2, <2>3 DEF IInv
  <1>8. ASSUME NEW w \in Workers, EndCall(w)
        PROVE  IInv'
    <2>1. \A v \in Workers : Holds(v)' = Holds(v)
      BY <1>8 DEF EndCall, GoTo, Holds, Holding, IInv, TypeOK
    <2>2. TokensDistinct' /\ RowsMatch' /\ Owned'
      BY <1>8, <2>1, LocalInv DEF EndCall
    <2>3. Sampled' /\ InTime'
      BY <1>8 DEF EndCall, GoTo, IInv, Sampled, InTime, Calling, TypeOK
    <2>4. QED
      BY <2>2, <2>3 DEF IInv
  <1>9. ASSUME NEW w \in Workers, Release(w)
        PROVE  IInv'
    BY <1>9, FinishInv DEF Release, Holds, Holding
  <1>10. ASSUME NEW w \in Workers, Crash(w)
         PROVE  IInv'
    BY <1>10, FinishInv DEF Crash
  <1>11. CASE Tick
    <2>1. TokensDistinct' /\ RowsMatch'
      BY <1>11 DEF Tick, IInv, TokensDistinct, RowsMatch, Holds
    <2>2. Sampled' /\ Owned' /\ InTime'
      BY <1>11 DEF Tick, IInv, Sampled, Owned, InTime, Calling, Holds, OwnsRow, TypeOK, TrialSlot
    <2>3. QED
      BY <2>1, <2>2 DEF IInv
  <1>12. CASE UNCHANGED vars
    BY <1>12 DEF vars, IInv, TypeOK, TokensDistinct, RowsMatch, Sampled, Owned,
                 InTime, Holds, OwnsRow, Calling
  <1>13. QED
    BY <1>1, <1>2, <1>3, <1>4, <1>4a, <1>5, <1>6, <1>7, <1>8, <1>9, <1>10, <1>11,
       <1>12 DEF Next, Step

LEMMA InvCorrect == Spec => []IInv
  <1>1. QED
    BY InitInv, NextInv, TypeCorrect, PTL DEF Spec

\* A trial that talks to the API still owns its slot, for every margin that
\* covers a call and however late its fence answered.
THEOREM CallsStayInLease == Spec => []NoCallOutlivesLease
  <1>1. IInv => NoCallOutlivesLease
    <2> SUFFICES ASSUME IInv, NEW w \in Calling \ Research
                 PROVE  OwnsRow(w) /\ now <= lease[w].until
      BY DEF NoCallOutlivesLease
    <2>1. now <= lease[w].until
      BY TimeAssumption DEF IInv, InTime, Calling, TypeOK, TrialSlot
    <2>2. QED
      BY <2>1 DEF IInv, Owned, Calling, Holds, Holding
  <1>2. QED
    BY <1>1, InvCorrect, PTL

\* A call that counts is within its lease and owns its row, so two of them have
\* different rows.
OneCounted ==
  \A v, w \in Counted : lease[v].slot = lease[w].slot => v = w

LEMMA LeasesAreApart == IInv => OneCounted
  <1> SUFFICES ASSUME IInv, NEW v \in Counted, NEW w \in Counted,
                      lease[v].slot = lease[w].slot
               PROVE  v = w
    BY DEF OneCounted
  <1>1. ASSUME NEW u \in Counted
        PROVE  OwnsRow(u) /\ Holds(u) /\ u \in Workers
    <2>1. u \in Workers /\ pc[u] = "calling" /\ (u \in Research => now <= lease[u].until)
      BY DEF Counted, Calling
    <2>2. now <= lease[u].until
      BY <2>1, TimeAssumption DEF IInv, InTime, Calling, TypeOK, TrialSlot
    <2>3. QED
      BY <2>1, <2>2 DEF IInv, Owned, Holds, Holding
  <1>2. lease[v].token = lease[w].token
    BY <1>1 DEF OwnsRow
  <1>3. QED
    BY <1>1, <1>2 DEF IInv, TokensDistinct

\* However trials and research requests share the slots, two calls run under one
\* row only while a research request's call outlives its lease, and then for no
\* longer than a call takes.
THEOREM OneCallPerSlotHolds == Spec => []OneCallPerSlot
  <1>1. IInv => OneCallPerSlot
    <2> SUFFICES ASSUME IInv, NEW v \in Calling, NEW w \in Calling,
                        v # w, lease[v].slot = lease[w].slot
                 PROVE  \E u \in {v, w} \cap Research : now - lease[u].until \in 1..CALL_TIMEOUT
      BY DEF OneCallPerSlot
    <2>1. PICK u \in {v, w} : u \notin Counted
      BY LeasesAreApart DEF OneCounted
    <2>2. u \in Research /\ u \in Calling /\ ~(now <= lease[u].until)
      BY <2>1 DEF Counted, Calling
    <2>3. now \in Nat /\ lease[u].until \in Nat /\ callStart[u] \in Nat
      BY <2>2 DEF IInv, TypeOK, TrialSlot, Calling
    <2>4. now <= lease[u].until + CALL_TIMEOUT
      BY <2>2, <2>3, TimeAssumption DEF IInv, InTime
    <2>5. QED
      BY <2>2, <2>3, <2>4, TimeAssumption
  <1>2. QED
    BY <1>1, InvCorrect, PTL

\* An unexpired lease is ended by nobody but its holder: a claim takes a row
\* whose lease is over, a release takes the row of its own token.
THEOREM LeasesAreKept == Spec => OnlyHolderEndsLease
  <1>1. ASSUME IInv, Next, NEW w \in Workers,
               Holds(w), OwnsRow(w), now <= lease[w].until, Holds(w)'
        PROVE  slots'[lease[w].slot] = slots[lease[w].slot]
    <2> USE DEF IInv, Holds, Holding
    <2>1. ASSUME NEW v \in Workers, ClaimSlot(v)
          PROVE  slots'[lease[w].slot] = slots[lease[w].slot]
      <3>1. PICK s \in Free(asked[v]) :
              slots' = [slots EXCEPT ![s] = [token |-> FreshToken, until |-> asked[v] + LEASE]]
        BY <2>1 DEF ClaimSlot
      <3>2. lease[w].slot \in Slots /\ slots[lease[w].slot].token \in Tokens
        BY <1>1 DEF OwnsRow, TypeOK, TrialSlot, TokensDistinct
      <3>3. slots[lease[w].slot].until = lease[w].until
        BY <1>1, <3>2 DEF RowsMatch, OwnsRow
      <3>4. lease[w].slot \notin Free(asked[v])
        BY <1>1, <3>2, <3>3, TokenAssumption DEF Free, Sampled, TypeOK, TrialSlot
      <3>5. QED
        BY <3>1, <3>2, <3>4 DEF TypeOK, Free
    <2>2. ASSUME NEW v \in Workers, Release(v)
          PROVE  slots'[lease[w].slot] = slots[lease[w].slot]
      <3>1. v # w
        BY <1>1, <2>2 DEF Release, Finish, GoTo, TypeOK
      <3>2. OwnsRow(v) => lease[v].slot # lease[w].slot
        BY <1>1, <2>2, <3>1 DEF Release, OwnsRow, TokensDistinct
      <3>3. QED
        BY <1>1, <2>2, <3>2 DEF Release, TypeOK, TrialSlot
    <2>3. CASE slots' = slots
      BY <2>3
    <2>4. QED
      BY <1>1, <2>1, <2>2, <2>3
         DEF Next, Step, Tick, Begin, ClaimNothing, SendFence, Conclude, FenceAnswers,
             StartCall, AbortCall, EndCall, Crash
  <1>2. IInv /\ [Next]_vars
          => [\A w \in Workers :
                Holds(w) /\ OwnsRow(w) /\ now <= lease[w].until /\ Holds(w)'
                  => slots'[lease[w].slot] = slots[lease[w].slot]]_vars
    BY <1>1
  <1>3. QED
    BY <1>2, InvCorrect, PTL DEF Spec, OnlyHolderEndsLease

-----------------------------------------------------------------------------
(* The slot protocol implements the call limiter.                          *)

\* With one call that counts per slot, Line names exactly that call's worker.
LEMMA LineIsCaller ==
  ASSUME OneCounted, NEW w \in Workers, NEW s \in Slots
  PROVE  /\ Line[s] = w <=> w \in Counted /\ lease[w].slot = s
         /\ Line[s] = Nobody <=> ~\E v \in Counted : lease[v].slot = s
  BY WorkerAssumption DEF Line, OneCounted, Counted, Calling

\* A worker that starts a call is connected on its slot's line, which was free.
LEMMA StartConnects ==
  ASSUME OneCounted, OneCounted', TypeOK,
         NEW w \in Workers, w \notin Counted, Counted' = Counted \cup {w}, lease' = lease
  PROVE  Limiter!Start(lease[w].slot, w)
  <1> DEFINE l == lease[w].slot
  <1>1. l \in Slots
    BY DEF TypeOK, TrialSlot
  <1>2. \A v \in Counted : lease[v].slot # l
    BY DEF OneCounted
  <1>3. Line[l] = Nobody
    BY <1>1, <1>2, LineIsCaller
  <1>4. \A k \in Slots : Line[k] # w
    BY LineIsCaller
  <1>5. Line'[l] = w
    BY <1>1 DEF Line, OneCounted, Counted, Calling
  <1>6. ASSUME NEW k \in Slots, k # l
        PROVE  Line'[k] = Line[k]
    <2>1. \A v \in Workers : v \in Counted' /\ lease'[v].slot = k
                             <=> v \in Counted /\ lease[v].slot = k
      BY <1>6
    <2>2. QED
      BY <2>1, WorkerAssumption DEF Line, OneCounted, Counted, Calling
  <1>7. Line' = [Line EXCEPT ![l] = w]
    <2>1. Line = [s \in Slots |-> Line[s]] /\ Line' = [s \in Slots |-> Line'[s]]
      BY DEF Line
    <2>2. QED
      BY <1>1, <1>5, <1>6, <2>1
  <1>8. QED
    BY <1>1, <1>3, <1>4, <1>7 DEF Limiter!Start

\* Where no call starts, calls end or lose their lines, any number at once, and
\* the other lines stay.
LEMMA OthersHangUp ==
  ASSUME OneCounted, OneCounted', Counted' \subseteq Counted,
         \A v \in Counted' : lease'[v].slot = lease[v].slot
  PROVE  [Limiter!Next]_Line
  <1> DEFINE L == {s \in Slots : Line[s] # Nobody /\ Line'[s] = Nobody}
  <1>1. ASSUME NEW s \in Slots, Line'[s] # Nobody
        PROVE  Line'[s] = Line[s]
    <2>1. PICK w \in Counted' : lease'[w].slot = s
      BY <1>1 DEF Line
    <2>2. \A v \in Counted' : lease'[v].slot = s => v = w
      BY <2>1 DEF OneCounted
    <2>3. Line'[s] = w
      BY <2>1, <2>2 DEF Line
    <2>4. w \in Counted /\ lease[w].slot = s
      BY <2>1
    <2>5. \A v \in Counted : lease[v].slot = s => v = w
      BY <2>4 DEF OneCounted
    <2>6. Line[s] = w
      BY <2>4, <2>5 DEF Line
    <2>7. QED
      BY <2>3, <2>6
  <1>2. Line = [s \in Slots |-> Line[s]] /\ Line' = [s \in Slots |-> Line'[s]]
    BY DEF Line
  <1>3. Line' = [s \in Slots |-> IF s \in L THEN Nobody ELSE Line[s]]
    BY <1>1, <1>2
  <1>4. Limiter!Hangup(L) /\ L \in SUBSET Slots
    BY <1>3 DEF Limiter!Hangup
  <1>5. QED
    BY <1>4 DEF Limiter!Next

\* Every behaviour of the slots is one of the call limiter: a call, of a trial or
\* of a research request within its lease, begins on a line only after the last
\* one has ended.
THEOREM SlotsImplementLimiter == Spec => ImplementsLimiter
  <1>1. Init => Limiter!Init
    BY DEF Init, Limiter!Init, Line, Counted, Calling
  <1>2. ASSUME TypeOK, OneCounted, OneCounted', [Next]_vars
        PROVE  [Limiter!Next]_Line
    <2>1. ASSUME NEW w \in Workers, StartCall(w)
          PROVE  [Limiter!Next]_Line
      <3>1. pc[w] = "fenced" /\ now' = now /\ lease' = lease /\ Calling' = Calling \cup {w}
        BY <1>2, <2>1 DEF StartCall, GoTo, Calling, TypeOK
      <3>2. now <= lease[w].until
        BY <1>2, <2>1, TimeAssumption DEF StartCall, MayCall, TrialDeadline, TypeOK, TrialSlot
      <3>3. w \notin Counted /\ Counted' = Counted \cup {w}
        BY <3>1, <3>2 DEF Counted, Calling
      <3>4. Limiter!Start(lease[w].slot, w)
        BY <1>2, <3>1, <3>3, StartConnects
      <3>5. lease[w].slot \in Slots
        BY <1>2 DEF TypeOK, TrialSlot
      <3>6. QED
        BY <3>4, <3>5 DEF Limiter!Next
    <2>2. ASSUME NEW w \in Workers,
                 \/ Begin(w) \/ ClaimSlot(w) \/ ClaimNothing(w) \/ SendFence(w)
                 \/ Conclude(w) \/ FenceAnswers(w) \/ AbortCall(w) \/ EndCall(w)
                 \/ Release(w) \/ Crash(w)
          PROVE  [Limiter!Next]_Line
      <3>1. now' = now /\ Calling' \subseteq Calling
        BY <1>2, <2>2
           DEF Begin, ClaimSlot, ClaimNothing, SendFence, Conclude, FenceAnswers, AbortCall,
               EndCall, Release, Crash, Finish, GoTo, Calling, TypeOK
      <3>2. \A v \in Calling' : lease'[v] = lease[v]
        BY <1>2, <2>2
           DEF Begin, ClaimSlot, ClaimNothing, SendFence, Conclude, FenceAnswers, AbortCall,
               EndCall, Release, Crash, Finish, GoTo, Calling, TypeOK
      <3>3. Counted' \subseteq Counted /\ \A v \in Counted' : lease'[v].slot = lease[v].slot
        BY <3>1, <3>2 DEF Counted
      <3>4. QED
        BY <1>2, <3>3, OthersHangUp
    <2>3. CASE Tick \/ UNCHANGED vars
      <3>1. Calling' = Calling /\ lease' = lease /\ now' \in {now, now + 1}
        BY <2>3 DEF Tick, vars, Calling
      <3>2. Counted' \subseteq Counted
        <4>1. \A w \in Calling : lease[w].until \in Nat
          BY <1>2 DEF Calling, TypeOK, TrialSlot
        <4>2. now \in Nat
          BY <1>2 DEF TypeOK
        <4>3. QED
          BY <3>1, <4>1, <4>2 DEF Counted
      <3>3. QED
        BY <1>2, <3>1, <3>2, OthersHangUp
    <2>4. QED
      BY <1>2, <2>1, <2>2, <2>3 DEF Next, Step
  <1>3. IInv => TypeOK /\ OneCounted
    BY LeasesAreApart DEF IInv
  <1>4. QED
    BY <1>1, <1>2, <1>3, InvCorrect, PTL DEF Spec, ImplementsLimiter, Limiter!Spec
=============================================================================
