------------------------ MODULE ResearchReviewProofs ------------------------
(***************************************************************************)
(* Theorems about the ring of reviews, for any number of students,         *)
(* submissions and requests that freeze it.                                *)
(***************************************************************************)
EXTENDS ResearchReview, FiniteSetTheorems, TLAPS

\* The place of the j-th author after the i-th of n.
LEMMA NextPlace ==
  ASSUME NEW n \in Nat, n >= 2, NEW i \in 1..n, NEW j \in 1..2, j < n
  PROVE  ((i - 1 + j) % n) + 1 = IF i + j <= n THEN i + j ELSE i + j - n
<1>1. CASE i + j <= n
  <2>1. (i - 1 + j) % n = i - 1 + j
    BY <1>1
  <2>. QED
    BY <1>1, <2>1
<1>2. CASE i + j > n
  <2>1. (i - 1 + j) % n = i - 1 + j - n
    BY <1>2
  <2>. QED
    BY <1>2, <2>1
<1>. QED
  BY <1>1, <1>2

Row == [id : Ids, student : Students]
Rows == Seq(Row)
Count(n) == IF n - 1 < 2 THEN n - 1 ELSE 2
Place(n, i, j) == ((i - 1 + j) % n) + 1

LEMMA PlaceOf ==
  ASSUME NEW n \in Nat, n >= 2, NEW i \in 1..n, NEW j \in 1..Count(n)
  PROVE  /\ Place(n, i, j) \in 1..n
         /\ Place(n, i, j) = IF i + j <= n THEN i + j ELSE i + j - n
<1>1. j \in 1..2 /\ j < n
  BY DEF Count
<1>2. Place(n, i, j) = IF i + j <= n THEN i + j ELSE i + j - n
  BY <1>1, NextPlace DEF Place
<1>. QED
  BY <1>1, <1>2

LEMMA RowAt ==
  ASSUME NEW R \in Rows, NEW k \in 1..Len(R)
  PROVE  R[k] \in Row /\ R[k].id \in Ids /\ R[k].student \in Students
<1>1. R[k] \in Row
  BY DEF Rows
<1>. QED
  BY <1>1 DEF Row

\* First versions, as a request has read them: two or more, of different
\* students, each stored for its student unless it was deleted since.
FirstVersions(R) ==
  /\ R \in Rows /\ Len(R) >= 2
  /\ \A i, k \in 1..Len(R) : R[i].id = R[k].id \/ R[i].student = R[k].student => i = k
  /\ \A k \in 1..Len(R) : R[k].id <= lastId /\ owner[R[k].id] \in {R[k].student, Nobody}

\* Each student has one submission, and numbers are given in order.
OneEach ==
  /\ \A i, k \in Ids : owner[i] # Nobody /\ owner[i] = owner[k] => i = k
  /\ \A i \in Ids : owner[i] # Nobody => i <= lastId

\* The ring is that of some first versions, but for those that were deleted.
RingOf(R, D) ==
  /\ FirstVersions(R)
  /\ ring = {p \in ReviewPairs(R) : p.version \notin D}
  /\ deleted = {} => D = {}

\* Each request has a step and the rows that it read.
AssignersAreRecords ==
  assigner = [a \in Assigners |-> [pc |-> assigner[a].pc, rows |-> assigner[a].rows]]

ReviewInv ==
  /\ TypeOK /\ OneEach /\ AssignersAreRecords
  /\ \A a \in Assigners : assigner[a].pc = "freeze" => FirstVersions(assigner[a].rows)
  /\ cohort = Nobody => ring = {}
  /\ \A a \in Assigners : cohort = a => assigner[a].pc = "over"
  /\ cohort # Nobody => \E R \in Rows, D \in SUBSET Ids : RingOf(R, D)

LEMMA ReviewPairsOf ==
  ASSUME NEW R \in Rows
  PROVE  ReviewPairs(R) =
           {[version |-> R[i].id, reviewer |-> R[Place(Len(R), i, j)].student] :
              i \in 1..Len(R), j \in 1..Count(Len(R))}
BY DEF ReviewPairs, Count, Place

LEMMA ReviewPairsType ==
  ASSUME NEW R, FirstVersions(R)
  PROVE  ReviewPairs(R) \subseteq Pairs
<1> DEFINE n == Len(R)
<1>1. R \in Rows /\ n \in Nat /\ n >= 2
  BY DEF FirstVersions, Rows
<1>2. ASSUME NEW i \in 1..n, NEW j \in 1..Count(n)
      PROVE  [version |-> R[i].id, reviewer |-> R[Place(n, i, j)].student] \in Pairs
  <2>1. Place(n, i, j) \in 1..n
    BY <1>1, PlaceOf
  <2>2. R[i].id \in Ids /\ R[Place(n, i, j)].student \in Students
    BY <1>1, <2>1, RowAt
  <2>. QED
    BY <2>2 DEF Pairs
<1>. QED
  BY <1>1, <1>2, ReviewPairsOf

LEMMA ReviewInit == ReviewAssumption /\ Init => ReviewInv
<1>. SUFFICES ASSUME ReviewAssumption, Init PROVE ReviewInv
  OBVIOUS
<1>. USE DEF Init
<1>1. TypeOK
  <2>1. DOMAIN done = {}
    OBVIOUS
  <2>2. 1 \in 1..MaxSteps /\ 1 \in 1..MaxRev /\ 0 \in 0..MaxId
    BY DEF ReviewAssumption
  <2>3. /\ steps \in [Ids -> 1..MaxSteps] /\ first \in [Ids -> 1..MaxSteps]
        /\ rev \in [Ids -> 1..MaxRev] /\ owner \in [Ids -> Students \cup {Nobody}]
    BY <2>2
  <2>. QED
    BY <2>1, <2>2, <2>3 DEF TypeOK
<1>2. OneEach
  BY DEF OneEach
<1>3. /\ AssignersAreRecords
      /\ \A a \in Assigners : assigner[a].pc # "freeze"
  BY DEF AssignersAreRecords
<1>4. \A a \in Assigners : cohort # a
  BY DEF ReviewAssumption
<1>. QED
  BY <1>1, <1>2, <1>3, <1>4 DEF ReviewInv

-----------------------------------------------------------------------------
(* What each step keeps.                                                   *)

\* Rows and requests that stay as they were.
LEMMA ReviewStays ==
  ASSUME ReviewInv, UNCHANGED <<owner, lastId, cohort, ring, assigner, deleted>>, TypeOK'
  PROVE  ReviewInv'
<1>1. \A R : FirstVersions(R) => FirstVersions(R)'
  BY DEF FirstVersions
<1>2. \A R \in Rows, D \in SUBSET Ids : RingOf(R, D) => RingOf(R, D)'
  BY <1>1 DEF RingOf
<1>3. (\A a \in Assigners : assigner[a].pc = "freeze" => FirstVersions(assigner[a].rows))'
  BY DEF ReviewInv, FirstVersions
<1>. QED
  BY <1>2, <1>3 DEF ReviewInv, OneEach, AssignersAreRecords

LEMMA ReviewSubmits ==
  ASSUME ReviewAssumption, ReviewInv, NEW s \in Students, NEW n \in 1..MaxSteps, Submit(s, n)
  PROVE  ReviewInv'
<1>. USE DEF ReviewInv
<1>1. /\ ~ HasSubmission(s) /\ lastId < MaxId /\ lastId' = lastId + 1
      /\ owner' = [owner EXCEPT ![lastId'] = s]
      /\ steps' = [steps EXCEPT ![lastId'] = n] /\ first' = [first EXCEPT ![lastId'] = n]
      /\ rev' = [rev EXCEPT ![lastId'] = 1]
      /\ UNCHANGED <<review, cohort, ring, done, override, assigner, deleted>>
  BY DEF Submit
<1>2. lastId' \in Ids
  BY <1>1 DEF ReviewAssumption, TypeOK, Ids
<1>3. TypeOK'
  BY <1>1, <1>2 DEF TypeOK, ReviewAssumption, Ids
<1>4. OneEach'
  <2>1. \A i \in Ids : owner[i] # s
    BY <1>1 DEF HasSubmission
  <2>2. \A i \in Ids : owner'[i] = IF i = lastId' THEN s ELSE owner[i]
    BY <1>1, <1>2 DEF TypeOK
  <2>3. \A i \in Ids : i <= lastId => i <= lastId'
    BY <1>1 DEF Ids, TypeOK
  <2>. QED
    BY <1>1, <2>1, <2>2, <2>3 DEF OneEach, TypeOK, Ids
<1>5. ASSUME NEW R, FirstVersions(R) PROVE FirstVersions(R)'
  <2>1. \A k \in 1..Len(R) : R[k].id \in Ids
    BY <1>5, RowAt DEF FirstVersions
  <2>2. \A k \in 1..Len(R) : R[k].id # lastId' /\ R[k].id <= lastId'
    BY <1>1, <1>5, <2>1 DEF FirstVersions, TypeOK, Ids
  <2>3. \A k \in 1..Len(R) : owner'[R[k].id] = owner[R[k].id]
    BY <1>1, <2>1, <2>2 DEF TypeOK
  <2>. QED
    BY <1>5, <2>2, <2>3 DEF FirstVersions
<1>6. ASSUME NEW R \in Rows, NEW D \in SUBSET Ids, RingOf(R, D) PROVE RingOf(R, D)'
  BY <1>1, <1>5, <1>6 DEF RingOf
<1>7. cohort' # Nobody => \E R \in Rows, D \in SUBSET Ids : RingOf(R, D)'
  BY <1>1, <1>6
<1>8. ASSUME NEW a \in Assigners, assigner'[a].pc = "freeze" PROVE FirstVersions(assigner[a].rows)'
  <2>1. \A R : R = assigner[a].rows => FirstVersions(R)'
    BY <1>1, <1>5, <1>8
  <2>. QED
    BY <1>1, <2>1 DEF FirstVersions
<1>. QED
  BY <1>1, <1>3, <1>4, <1>7, <1>8 DEF AssignersAreRecords

LEMMA ReviewDeletes ==
  ASSUME ReviewAssumption, ReviewInv, NEW i \in Ids, Delete(i)
  PROVE  ReviewInv'
<1>. USE DEF ReviewInv
<1>1. /\ owner[i] # Nobody /\ owner' = [owner EXCEPT ![i] = Nobody]
      /\ ring' = {p \in ring : p.version # i}
      /\ deleted' = deleted \cup {owner[i]}
      /\ UNCHANGED <<review, steps, rev, first, lastId, cohort, assigner>>
  BY DEF Delete, HangsOff
<1>2. TypeOK'
  <2>1. /\ done' = [p \in DOMAIN done \ HangsOff(i) |-> done[p]] /\ override' \subseteq override
    BY DEF Delete
  <2>. QED
    BY <1>1, <2>1 DEF TypeOK
<1>3. \A k \in Ids : owner'[k] = IF k = i THEN Nobody ELSE owner[k]
  BY <1>1 DEF TypeOK
<1>4. OneEach'
  BY <1>1, <1>3 DEF OneEach
<1>5. ASSUME NEW R, FirstVersions(R) PROVE FirstVersions(R)'
  <2>1. \A k \in 1..Len(R) : R[k].id \in Ids
    BY <1>5, RowAt DEF FirstVersions
  <2>. QED
    BY <1>1, <1>3, <1>5, <2>1 DEF FirstVersions
<1>6. ASSUME NEW R \in Rows, NEW D \in SUBSET Ids, RingOf(R, D) PROVE RingOf(R, D \cup {i})'
  <2>1. ring' = {p \in ReviewPairs(R) : p.version \notin D \cup {i}}
    BY <1>1, <1>6 DEF RingOf
  <2>. QED
    BY <1>1, <1>5, <1>6, <2>1 DEF RingOf
<1>7. \A D \in SUBSET Ids : D \cup {i} \in SUBSET Ids
  OBVIOUS
<1>8. cohort' # Nobody => \E R \in Rows, D \in SUBSET Ids : RingOf(R, D)'
  BY <1>1, <1>6, <1>7
<1>9. ASSUME NEW a \in Assigners, assigner'[a].pc = "freeze" PROVE FirstVersions(assigner[a].rows)'
  <2>1. \A R : R = assigner[a].rows => FirstVersions(R)'
    BY <1>1, <1>5, <1>9
  <2>. QED
    BY <1>1, <2>1 DEF FirstVersions
<1>. QED
  BY <1>1, <1>2, <1>4, <1>8, <1>9 DEF AssignersAreRecords

\* The first versions that a request reads.
LEMMA ReviewReads ==
  ASSUME ReviewAssumption, ReviewInv, NEW ids \in InOrder(Stored), ~ (Len(ids) < 2)
  PROVE  FirstVersions([k \in DOMAIN ids |-> [id |-> ids[k], student |-> owner[ids[k]]]])
<1> DEFINE R == [k \in DOMAIN ids |-> [id |-> ids[k], student |-> owner[ids[k]]]]
           n == Cardinality(Stored)
<1>1. IsFiniteSet(Stored)
  <2>1. IsFiniteSet(Ids)
    BY FS_Interval DEF Ids, ReviewAssumption
  <2>. QED
    BY <2>1, FS_Subset DEF Stored
<1>2. n \in Nat
  BY <1>1, FS_CardinalityType
<1>3. ids \in [1..n -> Stored] /\ \A i, k \in 1..n : i < k => ids[i] < ids[k]
  BY DEF InOrder
<1>. HIDE DEF n
<1>4. ids \in Seq(Stored) /\ Len(ids) = n /\ DOMAIN ids = 1..n
  BY <1>2, <1>3
<1>5. ASSUME NEW k \in 1..n PROVE ids[k] \in Ids /\ owner[ids[k]] \in Students
  BY <1>3 DEF Stored, ReviewInv, TypeOK
<1>6. R \in Rows /\ Len(R) = n
  BY <1>2, <1>4, <1>5 DEF Rows, Row
<1>7. \A k \in 1..n : R[k].id = ids[k] /\ R[k].student = owner[ids[k]]
  BY <1>4
<1>8. ASSUME NEW i \in 1..n, NEW k \in 1..n, ids[i] = ids[k] PROVE i = k
  <2>1. ids[i] \in Int /\ ids[k] \in Int
    BY <1>5 DEF Ids
  <2>. QED
    BY <1>2, <1>3, <1>8, <2>1
<1>9. \A k \in 1..n : ids[k] <= lastId /\ owner[ids[k]] # Nobody
  BY <1>3, <1>5 DEF Stored, ReviewInv, OneEach
<1>10. \A i, k \in 1..n : owner[ids[i]] = owner[ids[k]] => i = k
  BY <1>5, <1>8, <1>9 DEF ReviewInv, OneEach
<1>. HIDE DEF R
<1>11. FirstVersions(R)
  BY <1>2, <1>4, <1>6, <1>7, <1>8, <1>9, <1>10 DEF FirstVersions
<1>. QED
  BY <1>11 DEF R

\* A request takes a step before it freezes the ring.
LEMMA ReviewAssigns ==
  ASSUME ReviewAssumption, ReviewInv, NEW a \in Assigners, assigner[a].pc # "over",
         AssignersAreRecords',
         \A b \in Assigners : b # a => assigner'[b] = assigner[b],
         assigner'[a].pc \in {"idle", "read", "freeze", "over"},
         assigner'[a].pc = "freeze" => FirstVersions(assigner[a].rows)',
         UNCHANGED <<review, rows, cohort, ring, done, override, deleted>>
  PROVE  ReviewInv'
<1>. USE DEF ReviewInv, rows
<1>1. TypeOK'
  BY DEF TypeOK
<1>2. OneEach' /\ (cohort' = Nobody => ring' = {})
  BY DEF OneEach
<1>3. \A R : FirstVersions(R) => FirstVersions(R)'
  BY DEF FirstVersions
<1>4. ASSUME NEW b \in Assigners, assigner'[b].pc = "freeze" PROVE FirstVersions(assigner[b].rows)'
  <2>1. CASE b # a
    <3>1. FirstVersions(assigner[b].rows) /\ assigner'[b] = assigner[b]
      BY <1>4, <2>1
    <3>. QED
      BY <3>1 DEF FirstVersions
  <2>. QED
    BY <1>4, <2>1
<1>5. \A b \in Assigners : cohort' = b => assigner'[b].pc = "over"
  OBVIOUS
<1>6. \A R \in Rows, D \in SUBSET Ids : RingOf(R, D) => RingOf(R, D)'
  BY <1>3 DEF RingOf
<1>7. cohort' # Nobody => \E R \in Rows, D \in SUBSET Ids : RingOf(R, D)'
  BY <1>6
<1>. QED
  BY <1>1, <1>2, <1>4, <1>5, <1>7

LEMMA ReviewLooks ==
  ASSUME ReviewAssumption, ReviewInv, NEW a \in Assigners, LookForCohort(a) \/ ReadFirstVersions(a)
  PROVE  ReviewInv'
<1>1. CASE LookForCohort(a)
  <2>1. /\ assigner[a].pc = "idle" /\ UNCHANGED <<review, rows, cohort, ring, done, override, deleted>>
        /\ assigner' = [assigner EXCEPT ![a] =
             [assigner[a] EXCEPT !.pc = IF cohort # Nobody THEN "over" ELSE "read"]]
    BY <1>1 DEF LookForCohort, ReviewInv
  <2>2. \A b \in Assigners : assigner[b] = [pc |-> assigner[b].pc, rows |-> assigner[b].rows]
    BY DEF ReviewInv, AssignersAreRecords
  <2>3. /\ \A b \in Assigners : b # a => assigner'[b] = assigner[b]
        /\ assigner'[a] = [pc |-> IF cohort # Nobody THEN "over" ELSE "read", rows |-> assigner[a].rows]
    BY <2>1, <2>2 DEF ReviewInv, AssignersAreRecords
  <2>4. AssignersAreRecords'
    BY <2>1, <2>2, <2>3 DEF ReviewInv, AssignersAreRecords
  <2>. QED
    BY <2>1, <2>3, <2>4, ReviewAssigns
<1>2. CASE ReadFirstVersions(a)
  <2>1. PICK ids \in InOrder(Stored) :
          assigner' = [assigner EXCEPT ![a] =
            IF Len(ids) < 2 THEN [pc |-> "idle", rows |-> <<>>]
            ELSE [pc |-> "freeze",
                  rows |-> [k \in DOMAIN ids |-> [id |-> ids[k], student |-> owner[ids[k]]]]]]
    BY <1>2 DEF ReadFirstVersions
  <2>2. assigner[a].pc = "read" /\ UNCHANGED <<review, rows, cohort, ring, done, override, deleted>>
    BY <1>2 DEF ReadFirstVersions
  <2>3. /\ AssignersAreRecords'
        /\ \A b \in Assigners : b # a => assigner'[b] = assigner[b]
        /\ assigner'[a].pc \in {"idle", "freeze"}
    BY <2>1 DEF ReviewInv, AssignersAreRecords
  <2>4. ASSUME assigner'[a].pc = "freeze" PROVE FirstVersions(assigner[a].rows)'
    <3> DEFINE R == [k \in DOMAIN ids |-> [id |-> ids[k], student |-> owner[ids[k]]]]
    <3>1. ~ (Len(ids) < 2) /\ assigner'[a].rows = R
      BY <2>1, <2>4 DEF ReviewInv, AssignersAreRecords
    <3>2. FirstVersions(R)
      BY <3>1, ReviewReads
    <3>. HIDE DEF R
    <3>3. FirstVersions(R) <=> FirstVersions(assigner[a].rows)'
      BY <2>2, <3>1 DEF FirstVersions, rows
    <3>. QED
      BY <3>2, <3>3
  <2>. QED
    BY <2>2, <2>3, <2>4, ReviewAssigns
<1>. QED
  BY <1>1, <1>2

LEMMA ReviewFreezes ==
  ASSUME ReviewAssumption, ReviewInv, NEW a \in Assigners, FreezeRing(a)
  PROVE  ReviewInv' /\ (cohort # Nobody => ring' = ring)
<1>. USE DEF ReviewInv
<1>1. /\ assigner[a].pc = "freeze" /\ cohort' = IF cohort = Nobody THEN a ELSE cohort
      /\ ring' = IF cohort' = a THEN ring \cup ReviewPairs(assigner[a].rows) ELSE ring
      /\ assigner' = [assigner EXCEPT ![a] = [pc |-> "over", rows |-> <<>>]]
      /\ UNCHANGED <<review, rows, done, override, deleted>>
  BY DEF FreezeRing, StoresRing
<1>2. cohort # Nobody => cohort # a /\ ring' = ring
  BY <1>1
<1>3. /\ assigner'[a] = [pc |-> "over", rows |-> <<>>]
      /\ \A b \in Assigners : b # a => assigner'[b] = assigner[b]
      /\ AssignersAreRecords'
  BY <1>1 DEF AssignersAreRecords
<1>4. \A R : FirstVersions(R) => FirstVersions(R)'
  BY <1>1 DEF FirstVersions, rows
<1>5. FirstVersions(assigner[a].rows)
  BY <1>1
<1>6. ring' \subseteq Pairs
  BY <1>1, <1>5, ReviewPairsType DEF TypeOK
<1>7. TypeOK' /\ OneEach'
  BY <1>1, <1>3, <1>6 DEF TypeOK, OneEach, rows
<1>8. ASSUME NEW b \in Assigners, assigner'[b].pc = "freeze" PROVE FirstVersions(assigner[b].rows)'
  <2>1. b # a /\ assigner'[b] = assigner[b]
    BY <1>3, <1>8
  <2>. QED
    BY <1>1, <1>8, <2>1 DEF FirstVersions, rows
<1>9. CASE cohort = Nobody
  <2>1. cohort' = a /\ ring' = ReviewPairs(assigner[a].rows) /\ cohort' # Nobody
    BY <1>1, <1>9 DEF ReviewAssumption
  <2>2. assigner[a].rows \in Rows
    BY <1>5 DEF FirstVersions
  <2>3. \A R : R = assigner[a].rows => RingOf(R, {})'
    BY <1>4, <1>5, <2>1 DEF RingOf
  <2>4. \E R \in Rows, D \in SUBSET Ids : RingOf(R, D)'
    BY <2>2, <2>3
  <2>. QED
    BY <1>2, <1>3, <1>7, <1>8, <2>1, <2>4
<1>10. CASE cohort # Nobody
  <2>1. cohort' = cohort /\ ring' = ring
    BY <1>1, <1>2, <1>10
  <2>2. \A R \in Rows, D \in SUBSET Ids : RingOf(R, D) => RingOf(R, D)'
    BY <1>1, <1>4, <2>1 DEF RingOf
  <2>3. \E R \in Rows, D \in SUBSET Ids : RingOf(R, D)'
    BY <1>10, <2>2
  <2>4. \A b \in Assigners : cohort' = b => assigner'[b].pc = "over"
    BY <1>2, <1>3, <1>10, <2>1
  <2>. QED
    BY <1>3, <1>7, <1>8, <1>10, <2>1, <2>3, <2>4
<1>. QED
  BY <1>9, <1>10

\* What completes, revises or excepts leaves the rows of the ring alone.
LEMMA ReviewWork ==
  ASSUME ReviewAssumption, ReviewInv,
         \/ \E i \in Ids : (\E n \in 1..MaxSteps : Revise(i, n)) \/ OpenRevision(i)
         \/ OpenReview \/ \E p \in ring : CompleteReview(p, 1..MaxSteps)
         \/ UNCHANGED vars
  PROVE  ReviewInv' /\ ring' = ring
<1>. USE DEF ReviewInv, rows
<1>1. ASSUME NEW i \in Ids, NEW n \in 1..MaxSteps, Revise(i, n) PROVE ReviewInv' /\ ring' = ring
  <2>1. TypeOK'
    BY <1>1 DEF Revise, TypeOK, ReviewAssumption
  <2>. QED
    BY <1>1, <2>1, ReviewStays DEF Revise
<1>2. ASSUME NEW i \in Ids, OpenRevision(i) PROVE ReviewInv' /\ ring' = ring
  <2>1. TypeOK'
    BY <1>2 DEF OpenRevision, TypeOK
  <2>. QED
    BY <1>2, <2>1, ReviewStays DEF OpenRevision
<1>3. CASE OpenReview
  <2>1. TypeOK'
    BY <1>3 DEF OpenReview, TypeOK
  <2>. QED
    BY <1>3, <2>1, ReviewStays DEF OpenReview
<1>4. ASSUME NEW p \in ring, CompleteReview(p, 1..MaxSteps) PROVE ReviewInv' /\ ring' = ring
  <2>1. /\ done' = [q \in DOMAIN done \cup {p} |->
              IF q = p THEN (1..MaxSteps) \cap 1..first[p.version] ELSE done[q]]
        /\ UNCHANGED <<review, owner, steps, rev, first, lastId, cohort, ring, override, assigner, deleted>>
    BY <1>4 DEF CompleteReview
  <2>2. DOMAIN done' \subseteq Pairs /\ \A q \in DOMAIN done' : done'[q] \subseteq 1..MaxSteps
    BY <2>1 DEF TypeOK
  <2>3. TypeOK'
    BY <2>1, <2>2 DEF TypeOK
  <2>. QED
    BY <2>1, <2>3, ReviewStays
<1>5. CASE UNCHANGED vars
  <2>1. TypeOK'
    BY <1>5 DEF vars, TypeOK
  <2>. QED
    BY <1>5, <2>1, ReviewStays DEF vars
<1>. QED
  BY <1>1, <1>2, <1>3, <1>4, <1>5

\* Assignments are frozen: nothing but a deletion changes a ring.
LEMMA ReviewStep ==
  ASSUME ReviewAssumption, ReviewInv, [Next]_vars
  PROVE  ReviewInv' /\ RingIsFrozen
<1>1. ASSUME NEW s \in Students, NEW n \in 1..MaxSteps, Submit(s, n) PROVE ReviewInv' /\ RingIsFrozen
  BY <1>1, ReviewSubmits DEF Submit, RingIsFrozen
<1>2. ASSUME NEW i \in Ids, Delete(i) PROVE ReviewInv' /\ RingIsFrozen
  BY <1>2, ReviewDeletes DEF Delete, RingIsFrozen
<1>3. ASSUME NEW a \in Assigners, LookForCohort(a) \/ ReadFirstVersions(a)
      PROVE  ReviewInv' /\ RingIsFrozen
  BY <1>3, ReviewLooks DEF LookForCohort, ReadFirstVersions, RingIsFrozen
<1>4. ASSUME NEW a \in Assigners, FreezeRing(a) PROVE ReviewInv' /\ RingIsFrozen
  BY <1>4, ReviewFreezes DEF RingIsFrozen
<1>. QED
  BY <1>1, <1>2, <1>3, <1>4, ReviewWork DEF Next, RingIsFrozen

\* The right to revise goes with the submission only.
LEMMA RevisionStays ==
  ASSUME ReviewAssumption, ReviewInv, [Next]_vars
  PROVE  RightToRevise
<1>. SUFFICES ASSUME NEW i \in Ids, Allowed(i), owner'[i] # Nobody PROVE Allowed(i)'
  BY DEF RightToRevise
<1>. USE DEF Allowed, Reviewers
<1>1. ASSUME ring' = ring, override \subseteq override', DOMAIN done \subseteq DOMAIN done'
      PROVE  Allowed(i)'
  BY <1>1
<1>2. ASSUME NEW k \in Ids, Delete(k) PROVE Allowed(i)'
  <2>1. k # i
    BY <1>2 DEF Delete, ReviewInv, TypeOK
  <2>2. /\ ring' = {p \in ring : p.version # k} /\ override' = override \ {k}
        /\ \A p \in DOMAIN done : p \in ring /\ p.version = i => p \in DOMAIN done'
    BY <1>2, <2>1 DEF Delete, HangsOff
  <2>. QED
    BY <2>1, <2>2
<1>3. ASSUME NEW a \in Assigners, FreezeRing(a) PROVE Allowed(i)'
  <2>1. UNCHANGED <<done, override>>
    BY <1>3 DEF FreezeRing
  <2>2. CASE cohort # Nobody
    BY <1>1, <1>3, <2>1, <2>2, ReviewFreezes
  <2>3. CASE cohort = Nobody
    <3>1. i \in override
      BY <2>3 DEF ReviewInv
    <3>. QED
      BY <2>1, <3>1
  <2>. QED
    BY <2>2, <2>3
<1>4. ASSUME NEW p \in ring, CompleteReview(p, 1..MaxSteps) PROVE Allowed(i)'
  BY <1>1, <1>4 DEF CompleteReview
<1>5. ASSUME NEW k \in Ids, (\E n \in 1..MaxSteps : Revise(k, n)) \/ OpenRevision(k) PROVE Allowed(i)'
  BY <1>1, <1>5 DEF Revise, OpenRevision
<1>6. ASSUME NEW s \in Students, NEW n \in 1..MaxSteps, Submit(s, n) PROVE Allowed(i)'
  BY <1>1, <1>6 DEF Submit
<1>7. ASSUME NEW a \in Assigners, LookForCohort(a) \/ ReadFirstVersions(a) PROVE Allowed(i)'
  BY <1>1, <1>7 DEF LookForCohort, ReadFirstVersions
<1>8. CASE OpenReview \/ UNCHANGED vars
  BY <1>1, <1>8 DEF OpenReview, vars
<1>. QED
  BY <1>2, <1>3, <1>4, <1>5, <1>6, <1>7, <1>8 DEF Next

-----------------------------------------------------------------------------
(* What a frozen ring is like.                                             *)

\* The reviewers of the i-th version.
LEMMA ReviewersOf ==
  ASSUME NEW R \in Rows, NEW D \in SUBSET Ids, RingOf(R, D),
         NEW i \in 1..Len(R), R[i].id \notin D
  PROVE  Reviewers(R[i].id) = {R[Place(Len(R), i, j)].student : j \in 1..Count(Len(R))}
<1> DEFINE n == Len(R)
<1>1. n \in Nat /\ n >= 2 /\ \A k \in 1..n : R[k].id = R[i].id => k = i
  BY DEF RingOf, FirstVersions, Rows
<1>2. ring = {p \in {[version |-> R[k].id, reviewer |-> R[Place(n, k, j)].student] :
                       k \in 1..n, j \in 1..Count(n)} : p.version \notin D}
  BY ReviewPairsOf DEF RingOf
<1>. HIDE DEF n
<1>3. ASSUME NEW p \in ring, p.version = R[i].id
      PROVE  \E j \in 1..Count(n) : p.reviewer = R[Place(n, i, j)].student
  BY <1>1, <1>2, <1>3
<1>4. ASSUME NEW j \in 1..Count(n)
      PROVE  \E p \in ring : p.version = R[i].id /\ p.reviewer = R[Place(n, i, j)].student
  <2> DEFINE p == [version |-> R[i].id, reviewer |-> R[Place(n, i, j)].student]
  <2>1. p \in ring
    BY <1>2 DEF n
  <2>. QED
    BY <2>1
<1>5. Reviewers(R[i].id) = {R[Place(n, i, j)].student : j \in 1..Count(n)}
  BY <1>3, <1>4 DEF Reviewers
<1>. QED
  BY <1>5 DEF n

LEMMA PairOf ==
  ASSUME NEW x, NEW y
  PROVE  /\ IsFiniteSet({x, y}) /\ Cardinality({x, y}) = IF x = y THEN 1 ELSE 2
<1>1. IsFiniteSet({x}) /\ Cardinality({x}) = 1
  BY FS_Singleton
<1>2. {x, y} = {x} \cup {y}
  OBVIOUS
<1>3. /\ IsFiniteSet({x} \cup {y})
      /\ Cardinality({x} \cup {y}) = IF y \in {x} THEN Cardinality({x}) ELSE Cardinality({x}) + 1
  BY <1>1, FS_AddElement
<1>. QED
  BY <1>1, <1>2, <1>3

LEMMA Counts ==
  ASSUME NEW n \in Nat, n >= 2
  PROVE  /\ n = 2 => Count(n) = 1 /\ 1..Count(n) = {1}
         /\ n # 2 => Count(n) = 2 /\ 1..Count(n) = {1, 2}
<1>1. n = 2 => Count(n) = 1
  BY DEF Count
<1>2. n # 2 => Count(n) = 2
  BY DEF Count
<1>3. 1..1 = {1} /\ 1..2 = {1, 2}
  OBVIOUS
<1>. QED
  BY <1>1, <1>2, <1>3

\* Two reviewers of each version, or one if there are two versions; none is the
\* author.
LEMMA ReviewersCounted ==
  ASSUME ReviewAssumption, NEW R \in Rows, NEW D \in SUBSET Ids, RingOf(R, D), NEW p \in ring
  PROVE  /\ Cardinality(Reviewers(p.version)) = Count(Len(R))
         /\ owner[p.version] # p.reviewer
<1> DEFINE n == Len(R)
<1>1. n \in Nat /\ n >= 2 /\ FirstVersions(R)
  BY DEF RingOf, FirstVersions, Rows
<1>2. PICK i \in 1..n, k \in 1..Count(n) :
        p = [version |-> R[i].id, reviewer |-> R[Place(n, i, k)].student]
  BY ReviewPairsOf DEF RingOf
<1>3. R[i].id \notin D /\ p.version = R[i].id
  BY <1>2 DEF RingOf
<1>4. Reviewers(p.version) = {R[Place(n, i, j)].student : j \in 1..Count(n)}
  BY <1>2, <1>3, ReviewersOf
<1>. HIDE DEF n
<1>5. ASSUME n = 2 PROVE Cardinality(Reviewers(p.version)) = 1 /\ Count(n) = 1
  <2>1. Count(n) = 1 /\ 1..Count(n) = {1}
    BY <1>1, <1>5, Counts
  <2>2. Reviewers(p.version) = {R[Place(n, i, 1)].student}
    BY <1>4, <2>1
  <2>. QED
    BY <2>1, <2>2, FS_Singleton
<1>6. ASSUME n # 2 PROVE Cardinality(Reviewers(p.version)) = 2 /\ Count(n) = 2
  <2>1. Count(n) = 2 /\ 1..Count(n) = {1, 2}
    BY <1>1, <1>6, Counts
  <2>2. Reviewers(p.version) = {R[Place(n, i, 1)].student, R[Place(n, i, 2)].student}
    BY <1>4, <2>1
  <2>3. /\ Place(n, i, 1) \in 1..n /\ Place(n, i, 1) = IF i + 1 <= n THEN i + 1 ELSE i + 1 - n
        /\ Place(n, i, 2) \in 1..n /\ Place(n, i, 2) = IF i + 2 <= n THEN i + 2 ELSE i + 2 - n
    BY <1>1, <2>1, PlaceOf
  <2>4. Place(n, i, 1) # Place(n, i, 2)
    BY <1>1, <1>6, <2>3
  <2>5. R[Place(n, i, 1)].student # R[Place(n, i, 2)].student
    BY <1>1, <2>3, <2>4 DEF FirstVersions, n
  <2>. DEFINE x == R[Place(n, i, 1)].student
              y == R[Place(n, i, 2)].student
  <2>6. x # y /\ Reviewers(p.version) = {x, y}
    BY <2>2, <2>5
  <2>. HIDE DEF x, y
  <2>7. Cardinality({x, y}) = 2
    BY <2>6, PairOf
  <2>. QED
    BY <2>1, <2>6, <2>7
<1>7. owner[p.version] # p.reviewer
  <2>1. /\ Place(n, i, k) \in 1..n /\ Place(n, i, k) = IF i + k <= n THEN i + k ELSE i + k - n
    BY <1>1, PlaceOf
  <2>2. k \in 1..2 /\ k < n
    BY <1>1 DEF Count
  <2>3. Place(n, i, k) # i
    BY <1>1, <2>1, <2>2
  <2>4. R[Place(n, i, k)].student # R[i].student
    BY <1>1, <2>1, <2>3 DEF FirstVersions, n
  <2>5. R[Place(n, i, k)].student \in Students
    BY <2>1, RowAt DEF n
  <2>6. owner[R[i].id] \in {R[i].student, Nobody}
    BY <1>1 DEF FirstVersions, n
  <2>. QED
    BY <1>2, <2>4, <2>5, <2>6 DEF ReviewAssumption
<1>. QED
  BY <1>5, <1>6, <1>7 DEF n

\* Nobody has more than two reviews.
LEMMA DutiesCounted ==
  ASSUME NEW R \in Rows, NEW D \in SUBSET Ids, RingOf(R, D), NEW s \in Students
  PROVE  Cardinality({p \in ring : p.reviewer = s}) <= 2
<1> DEFINE n == Len(R)
           Mine == {p \in ring : p.reviewer = s}
           Before(j) == CHOOSE i \in 1..n : R[Place(n, i, j)].student = s
           At(j) == [version |-> R[Before(j)].id, reviewer |-> s]
<1>1. n \in Nat /\ n >= 2 /\ FirstVersions(R)
  BY DEF RingOf, FirstVersions, Rows
<1>2. ASSUME NEW j \in 1..Count(n), NEW i \in 1..n, NEW k \in 1..n,
             R[Place(n, i, j)].student = R[Place(n, k, j)].student
      PROVE  i = k
  <2>1. /\ Place(n, i, j) \in 1..n /\ Place(n, i, j) = IF i + j <= n THEN i + j ELSE i + j - n
        /\ Place(n, k, j) \in 1..n /\ Place(n, k, j) = IF k + j <= n THEN k + j ELSE k + j - n
    BY <1>1, PlaceOf
  <2>2. Place(n, i, j) = Place(n, k, j)
    BY <1>1, <1>2, <2>1 DEF FirstVersions
  <2>3. j \in Nat
    BY <1>1 DEF Count
  <2>. HIDE DEF n
  <2>. QED
    BY <1>1, <2>1, <2>2, <2>3
<1>3. 1..Count(n) \subseteq {1, 2}
  BY <1>1, Counts
<1>4. ASSUME NEW p \in Mine PROVE p \in {At(1), At(2)}
  <2>1. PICK i \in 1..n, j \in 1..Count(n) :
          p = [version |-> R[i].id, reviewer |-> R[Place(n, i, j)].student]
    BY ReviewPairsOf DEF RingOf
  <2>2. R[Place(n, i, j)].student = s
    BY <2>1
  <2>3. Before(j) = i
    BY <1>2, <2>2
  <2>. QED
    BY <1>3, <2>1, <2>2, <2>3
<1>. HIDE DEF At
<1>5. Mine \subseteq {At(1), At(2)}
  BY <1>4
<1>6. IsFiniteSet({At(1), At(2)}) /\ Cardinality({At(1), At(2)}) <= 2
  <2>1. /\ IsFiniteSet({At(1), At(2)})
        /\ Cardinality({At(1), At(2)}) = IF At(1) = At(2) THEN 1 ELSE 2
    BY PairOf
  <2>. QED
    BY <2>1
<1>. HIDE DEF Mine
<1>7. Cardinality(Mine) <= Cardinality({At(1), At(2)}) /\ IsFiniteSet(Mine)
  BY <1>5, <1>6, FS_Subset
<1>8. Cardinality(Mine) \in Nat /\ Cardinality({At(1), At(2)}) \in Nat
  BY <1>6, <1>7, FS_CardinalityType
<1>9. Cardinality(Mine) <= 2
  BY <1>6, <1>7, <1>8
<1>. QED
  BY <1>9 DEF Mine

\* As long as nothing was deleted, the versions tell how many were frozen.
LEMMA VersionsCounted ==
  ASSUME ReviewAssumption, NEW R \in Rows, RingOf(R, {})
  PROVE  Cardinality({p.version : p \in ring}) = 2 <=> Len(R) = 2
<1> DEFINE n == Len(R)
           Versions == {p.version : p \in ring}
<1>1. n \in Nat /\ n >= 2 /\ FirstVersions(R)
  BY DEF RingOf, FirstVersions, Rows
<1>2. ring = {[version |-> R[i].id, reviewer |-> R[Place(n, i, j)].student] :
                i \in 1..n, j \in 1..Count(n)}
  BY ReviewPairsOf DEF RingOf
<1>3. 1 \in 1..Count(n)
  BY <1>1, Counts
<1>4. \A i \in 1..n : R[i].id \in Versions
  <2>1. SUFFICES ASSUME NEW i \in 1..n PROVE \E p \in ring : p.version = R[i].id
    OBVIOUS
  <2>. DEFINE p == [version |-> R[i].id, reviewer |-> R[Place(n, i, 1)].student]
  <2>2. p \in ring
    BY <1>2, <1>3
  <2>3. p.version = R[i].id
    OBVIOUS
  <2>. HIDE DEF p
  <2>. QED
    BY <2>2, <2>3
<1>5. \A v \in Versions : \E i \in 1..n : v = R[i].id
  BY <1>2
<1>6. \A i, k \in 1..n : R[i].id = R[k].id => i = k
  BY <1>1 DEF FirstVersions
<1>. HIDE DEF n, Versions
<1>7. ASSUME n = 2 PROVE Cardinality(Versions) = 2
  <2>1. 1..n = {1, 2}
    BY <1>7
  <2>2. Versions = {R[1].id, R[2].id} /\ R[1].id # R[2].id
    BY <1>4, <1>5, <1>6, <2>1
  <2>. QED
    BY <2>2, PairOf
<1>8. ASSUME n # 2 PROVE Cardinality(Versions) # 2
  <2> DEFINE Two == {R[1].id, R[2].id}
             Three == Two \cup {R[3].id}
  <2>1. 1 \in 1..n /\ 2 \in 1..n /\ 3 \in 1..n
    BY <1>1, <1>8
  <2>2. Three \subseteq Versions /\ R[1].id # R[2].id /\ R[3].id \notin Two
    BY <1>4, <1>6, <2>1
  <2>3. IsFiniteSet(Two) /\ Cardinality(Two) = 2
    BY <2>2, PairOf
  <2>. HIDE DEF Two
  <2>4. Cardinality(Three) = 3
    <3>1. Cardinality(Three) =
            IF R[3].id \in Two THEN Cardinality(Two) ELSE Cardinality(Two) + 1
      BY <2>3, FS_AddElement
    <3>. QED
      BY <2>2, <2>3, <3>1
  <2>5. IsFiniteSet(Versions)
    <3>1. IsFiniteSet(Ids)
      BY FS_Interval DEF Ids, ReviewAssumption
    <3>2. Versions \subseteq Ids
      BY <1>5, RowAt DEF n
    <3>. QED
      BY <3>1, <3>2, FS_Subset
  <2>6. Cardinality(Three) <= Cardinality(Versions)
    BY <2>2, <2>5, FS_Subset
  <2>. QED
    BY <2>4, <2>6
<1>. QED
  BY <1>7, <1>8 DEF n, Versions

LEMMA FairRing ==
  ASSUME ReviewAssumption, ReviewInv
  PROVE  RingIsFair
<1>1. CASE ring = {}
  <2>1. \A s \in Students : {p \in ring : p.reviewer = s} = {}
    BY <1>1
  <2>2. Cardinality({}) <= 2
    BY FS_EmptySet
  <2>. QED
    BY <1>1, <2>1, <2>2 DEF RingIsFair
<1>2. CASE ring # {}
  <2>1. PICK R \in Rows, D \in SUBSET Ids : RingOf(R, D)
    BY <1>2 DEF ReviewInv
  <2>2. \A p \in ring : /\ Cardinality(Reviewers(p.version)) = Count(Len(R))
                        /\ owner[p.version] # p.reviewer
    BY <2>1, ReviewersCounted
  <2>3. \A s \in Students : Cardinality({p \in ring : p.reviewer = s}) <= 2
    BY <2>1, DutiesCounted
  <2>4. ASSUME deleted = {}
        PROVE  Count(Len(R)) = IF Cardinality({q.version : q \in ring}) = 2 THEN 1 ELSE 2
    <3>1. RingOf(R, {})
      BY <2>1, <2>4 DEF RingOf
    <3>2. Len(R) \in Nat /\ Len(R) >= 2
      BY <2>1 DEF RingOf, FirstVersions, Rows
    <3>. QED
      BY <3>1, <3>2, Counts, VersionsCounted
  <2>. QED
    BY <2>2, <2>3, <2>4 DEF RingIsFair
<1>. QED
  BY <1>1, <1>2

LEMMA ReviewInductive ==
  ASSUME ReviewAssumption
  PROVE  Spec => []ReviewInv
<1>1. Init => ReviewInv
  BY ReviewInit
<1>2. ReviewInv /\ [Next]_vars => ReviewInv'
  BY ReviewStep
<1>. QED
  BY <1>1, <1>2, PTL DEF Spec

-----------------------------------------------------------------------------
\* Whichever request freezes the ring, and whatever is submitted, deleted and
\* read meanwhile, versions have as many reviewers as each other, nobody reviews
\* himself and nobody has more than two reviews (reviewPairs and the batch of
\* assignResearchReviews).
THEOREM RingsAreFair ==
  ASSUME ReviewAssumption
  PROVE  Spec => [](TypeOK /\ RingIsFair)
<1>1. ReviewInv => TypeOK /\ RingIsFair
  BY FairRing DEF ReviewInv
<1>. QED
  BY ReviewInductive, <1>1, PTL

\* The ring of the first cohort is the only one: no request adds to it
\* (INSERT OR IGNORE, and EXISTS ... created_at = token).
THEOREM RingsAreFrozen ==
  ASSUME ReviewAssumption
  PROVE  Spec => [][RingIsFrozen]_vars
<1>1. ReviewInv /\ [Next]_vars => [RingIsFrozen]_vars
  BY ReviewStep
<1>. QED
  BY ReviewInductive, <1>1, PTL DEF Spec

\* Who may revise may do so as long as the submission is there (canRevise).
THEOREM RightsAreKept ==
  ASSUME ReviewAssumption
  PROVE  Spec => [][RightToRevise]_vars
<1>1. ReviewInv /\ [Next]_vars => [RightToRevise]_vars
  BY RevisionStays
<1>. QED
  BY ReviewInductive, <1>1, PTL DEF Spec
=============================================================================
