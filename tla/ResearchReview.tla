--------------------------- MODULE ResearchReview ---------------------------
(***************************************************************************)
(* Peer review in one open round (lib/researchStore.ts): when the teacher  *)
(* opens the review, the first versions of all submissions become a cohort *)
(* in which everybody reviews the next two; an author may revise once all  *)
(* assigned reviews have arrived, or when the teacher makes an exception.  *)
(* Any request that shows the review may assign it: it looks for the       *)
(* cohort, reads the first versions and freezes the ring, one action each. *)
(* The teacher may delete a submission at any time.                        *)
(*                                                                         *)
(* A text is the number of its steps, all that the reviews depend on.      *)
(***************************************************************************)
EXTENDS Integers, FiniteSets, Sequences

CONSTANTS
  Students,
  MaxId,      \* bound on the submissions ever stored
  MaxSteps,   \* bound on the steps of a text
  MaxRev,     \* bound on the revisions of a submission
  Assigners,  \* requests that assign reviews at one time
  Nobody

VARIABLES
  review,      \* warmup_rounds.review_opened_at is set
  owner,       \* of each row of warmup_submissions, Nobody if there is none
  steps, rev,  \* its current text and revision
  first,       \* the text of its first version
  lastId,
  cohort,      \* algorithm_round_cohorts.created_at: who froze it
  ring,        \* algorithm_review_assignments: version and reviewer
  done,        \* those completed, with the steps that were checked
  override,    \* algorithm_revision_overrides
  assigner,    \* what each assigning request has read
  deleted      \* students whose submission was deleted

\* Taken as an operator: Stores and Settles instantiate this module.
ReviewAssumption ==
  /\ MaxId \in Nat /\ {MaxSteps, MaxRev} \subseteq Nat \ {0}
  /\ Nobody \notin Students /\ Nobody \notin Assigners

vars == <<review, owner, steps, rev, first, lastId, cohort, ring, done, override,
          assigner, deleted>>
rows == <<owner, steps, rev, first, lastId>>

Ids == 1..MaxId
Pairs == [version : Ids, reviewer : Students]

TypeOK ==
  /\ review \in BOOLEAN
  /\ owner \in [Ids -> Students \cup {Nobody}]
  /\ steps \in [Ids -> 1..MaxSteps] /\ first \in [Ids -> 1..MaxSteps]
  /\ rev \in [Ids -> 1..MaxRev]
  /\ lastId \in 0..MaxId
  /\ cohort \in Assigners \cup {Nobody}
  /\ ring \subseteq Pairs
  /\ DOMAIN done \subseteq Pairs /\ \A p \in DOMAIN done : done[p] \subseteq 1..MaxSteps
  /\ override \subseteq Ids
  /\ \A a \in Assigners : assigner[a].pc \in {"idle", "read", "freeze", "over"}
  /\ deleted \subseteq Students

\* Slip: deleted submissions are still read.
EverStored == 1..lastId

Stored == {i \in Ids : owner[i] # Nobody}
HasSubmission(s) == \E i \in Ids : owner[i] = s
Reviewers(i) == {p.reviewer : p \in {q \in ring : q.version = i}}

\* reviewPairs: each version goes to the next min(2, n - 1) authors.
ReviewPairs(cohortRows) ==
  LET n == Len(cohortRows)
      count == IF n - 1 < 2 THEN n - 1 ELSE 2
  IN  {[version |-> cohortRows[i].id,
        reviewer |-> cohortRows[((i - 1 + j) % n) + 1].student] :
          i \in 1..n, j \in 1..count}

\* ALLOWED, canRevise
Allowed(i) ==
  \/ i \in override
  \/ /\ Reviewers(i) # {}
     /\ \A p \in ring : p.version = i => p \in DOMAIN done

-----------------------------------------------------------------------------
\* saveResearchSubmission, the first time: row and first version in one batch.
Submit(s, n) ==
  /\ ~HasSubmission(s) /\ lastId < MaxId
  /\ lastId' = lastId + 1
  /\ owner' = [owner EXCEPT ![lastId'] = s]
  /\ steps' = [steps EXCEPT ![lastId'] = n]
  /\ first' = [first EXCEPT ![lastId'] = n]
  /\ rev' = [rev EXCEPT ![lastId'] = 1]
  /\ UNCHANGED <<review, cohort, ring, done, override, assigner, deleted>>

\* saveResearchSubmission, with another text, once it is allowed.
Revise(i, n) ==
  /\ owner[i] # Nobody /\ Allowed(i) /\ rev[i] < MaxRev /\ n # steps[i]
  /\ steps' = [steps EXCEPT ![i] = n]
  /\ rev' = [rev EXCEPT ![i] = @ + 1]
  /\ UNCHANGED <<review, owner, first, lastId, cohort, ring, done, override, assigner, deleted>>

\* openWarmupReview
OpenReview ==
  /\ ~review /\ review' = TRUE
  /\ UNCHANGED <<rows, cohort, ring, done, override, assigner, deleted>>

\* POST revision-open
OpenRevision(i) ==
  /\ owner[i] # Nobody /\ i \notin override
  /\ override' = override \cup {i}
  /\ UNCHANGED <<review, rows, cohort, ring, done, assigner, deleted>>

\* Slip: the reviews that the student wrote go, too.
HangsOffStudent(i) == {p \in ring : p.version = i \/ p.reviewer = owner[i]}

\* The reviews of the versions of a submission.
HangsOff(i) == {p \in ring : p.version = i}

\* deleteWarmupSubmission: the row, its versions, their reviews, its exception.
Delete(i) ==
  /\ owner[i] # Nobody
  /\ owner' = [owner EXCEPT ![i] = Nobody]
  /\ ring' = ring \ HangsOff(i)
  /\ done' = [p \in DOMAIN done \ HangsOff(i) |-> done[p]]
  /\ override' = override \ {i}
  /\ deleted' = deleted \cup {owner[i]}
  /\ UNCHANGED <<review, steps, rev, first, lastId, cohort, assigner>>

\* assignResearchReviews, by a request that finds the review open
LookForCohort(a) ==
  /\ assigner[a].pc = "idle" /\ review
  /\ assigner' = [assigner EXCEPT ![a].pc = IF cohort # Nobody THEN "over" ELSE "read"]
  /\ UNCHANGED <<review, rows, cohort, ring, done, override, deleted>>

\* ORDER BY id: the sequence of a set of ids.
InOrder(S) ==
  {ids \in [1..Cardinality(S) -> S] : \A i, j \in DOMAIN ids : i < j => ids[i] < ids[j]}

\* The first versions in the order of their submissions.  Fewer than two: the
\* request ends and a later one looks again.
ReadFirstVersions(a) ==
  /\ assigner[a].pc = "read"
  /\ \E ids \in InOrder(Stored) :
       assigner' = [assigner EXCEPT ![a] =
         IF Len(ids) < 2 THEN [pc |-> "idle", rows |-> <<>>]
         ELSE [pc |-> "freeze",
               rows |-> [k \in DOMAIN ids |-> [id |-> ids[k], student |-> owner[ids[k]]]]]]
  /\ UNCHANGED <<review, rows, cohort, ring, done, override, deleted>>

\* Slip: the ring is stored for any frozen cohort, not only for one's own.
StoresRingAlways(a) == TRUE

\* EXISTS(cohort of this round WHERE created_at = token)
StoresRing(a) == cohort' = a

\* One batch: INSERT OR IGNORE of the cohort, and the pairs if it is ours.
FreezeRing(a) ==
  /\ assigner[a].pc = "freeze"
  /\ cohort' = IF cohort = Nobody THEN a ELSE cohort
  /\ ring' = IF StoresRing(a) THEN ring \cup ReviewPairs(assigner[a].rows) ELSE ring
  /\ assigner' = [assigner EXCEPT ![a] = [pc |-> "over", rows |-> <<>>]]
  /\ UNCHANGED <<review, rows, done, override, deleted>>

\* completeResearchReview, through a route that asks for a submission of the
\* reviewer; checkedSteps are cut to the steps of the assigned version.
CompleteReview(p, checked) ==
  /\ p \in ring \ DOMAIN done
  /\ owner[p.version] # Nobody /\ HasSubmission(p.reviewer)
  /\ done' = [q \in DOMAIN done \cup {p} |->
                IF q = p THEN checked \cap 1..first[p.version] ELSE done[q]]
  /\ UNCHANGED <<review, rows, cohort, ring, override, assigner, deleted>>

-----------------------------------------------------------------------------
Init ==
  /\ review = FALSE
  /\ owner = [i \in Ids |-> Nobody]
  /\ steps = [i \in Ids |-> 1] /\ first = [i \in Ids |-> 1] /\ rev = [i \in Ids |-> 1]
  /\ lastId = 0 /\ cohort = Nobody /\ ring = {} /\ done = << >>
  /\ override = {} /\ deleted = {}
  /\ assigner = [a \in Assigners |-> [pc |-> "idle", rows |-> <<>>]]

Next ==
  \/ \E s \in Students, n \in 1..MaxSteps : Submit(s, n)
  \/ \E i \in Ids :
       \/ \E n \in 1..MaxSteps : Revise(i, n)
       \/ OpenRevision(i)
       \/ Delete(i)
  \/ OpenReview
  \/ \E a \in Assigners : LookForCohort(a) \/ ReadFirstVersions(a) \/ FreezeRing(a)
  \/ \E p \in ring : CompleteReview(p, 1..MaxSteps)

Spec == Init /\ [][Next]_vars

-----------------------------------------------------------------------------
(* Properties.                                                             *)

\* Whichever request freezes the ring, and however many raced with it, every
\* reviewed version has the same number of reviewers, two unless the cohort had
\* two members, nobody reviews himself, and nobody has more than two reviews
\* (the test "two peers per writer and reviewer, no self-review").
RingIsFair ==
  /\ \A p \in ring : owner[p.version] # p.reviewer
  /\ \A p, q \in ring : Cardinality(Reviewers(p.version)) = Cardinality(Reviewers(q.version))
  /\ \A s \in Students : Cardinality({p \in ring : p.reviewer = s}) <= 2
  /\ deleted = {} => \A p \in ring :
       Cardinality(Reviewers(p.version)) =
         IF Cardinality({q.version : q \in ring}) = 2 THEN 1 ELSE 2

\* Assignments are frozen with the cohort: no request adds one later, whatever
\* was submitted, deleted or read meanwhile.
RingIsFrozen == cohort # Nobody => ring' \subseteq ring

\* The right to revise is never lost while the submission exists, although the
\* ring may be frozen by a request that started before.
RightToRevise ==
  \A i \in Ids : Allowed(i) /\ owner'[i] # Nobody => Allowed(i)'

\* What a review of a submission says it checked are steps of the text that the
\* teacher sees it next to (sanitizeCheckedSteps and teacherWarmupRoundDetail).
CheckedStepsExist ==
  \A p \in DOMAIN done : owner[p.version] # Nobody => done[p] \subseteq 1..steps[p.version]

=============================================================================
