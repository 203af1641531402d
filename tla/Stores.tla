------------------------------- MODULE Stores -------------------------------
(***************************************************************************)
(* The stores of lib/: their tables share no row that both change, so the  *)
(* site's stores satisfy what each satisfies by itself.  A behaviour works *)
(* in one of them, chosen at the start; the variables of the others stay   *)
(* unused.  Names that two stores have in common are one variable here.    *)
(***************************************************************************)
EXTENDS Integers, FiniteSets, Sequences

CONSTANTS
  Areas,            \* the stores that are explored
  Unused,           \* the value of the others' variables
  None, Nobody,
  Writers, Tabs, MaxVersions, MaxOps,                  \* Attempts
  Schools, Numbers, Names, Editors, MaxRows, MaxEdits, \* Roster
  Default, FirstRequests, FixedCode, MayDie,           \* CourseSeed
  Rounds, Boards, Voters, VoteTypes, TeacherRequests, Clicks,  \* WarmupRounds
  Authors, MaxId, MaxSteps, MaxRev, Assigners,         \* ResearchReview, for the ring
  LastId, LastStep, LastRev, RightsAssigners,          \* and for the right to revise
  Askers, Lease, Deadline, CallTime, SlotLease, MaxLost, MaxBusy  \* ResearchAI

VARIABLES
  area,
  stage2, subs, att, req, ops, acked, marked,
  roster, data, nextId, given, crossed,
  courses, removed,
  status, gone, ended, review, label, votes, request, click, cut, raced,
  owner, steps, rev, first, lastId, cohort, ring, done, override, assigner, deleted,
  open, token, left, lost, busy

\* The variables that only one store has, and those of each.
attemptV == <<stage2, att, acked, marked>>
rosterV  == <<roster, data, nextId, given, crossed>>
courseV  == <<courses, removed>>
roundV   == <<gone, ended, label, votes, request, click, cut, raced>>
reviewV  == <<owner, steps, rev, first, lastId, cohort, ring, done, override, assigner, deleted>>
aiV      == <<open, token, left, lost, busy>>
shared   == <<subs, req, ops, status, review>>
vars == <<area, attemptV, rosterV, courseV, roundV, reviewV, aiV, shared>>

NoAttempt == stage2 = Unused /\ att = Unused /\ acked = Unused /\ marked = Unused
NoClass ==
  /\ roster = Unused /\ data = Unused /\ nextId = Unused /\ given = Unused
  /\ crossed = Unused
NoCourse == courses = Unused /\ removed = Unused
NoRound ==
  /\ gone = Unused /\ ended = Unused /\ label = Unused /\ votes = Unused
  /\ request = Unused /\ click = Unused /\ cut = Unused
  /\ raced = Unused
NoReview ==
  /\ owner = Unused /\ steps = Unused /\ rev = Unused /\ first = Unused
  /\ lastId = Unused /\ cohort = Unused /\ ring = Unused /\ done = Unused
  /\ override = Unused /\ assigner = Unused /\ deleted = Unused
NoFeedback ==
  /\ open = Unused /\ token = Unused /\ left = Unused /\ lost = Unused
  /\ busy = Unused

Attempt == INSTANCE Attempts WITH Students <- Writers

Class == INSTANCE Roster WITH Ids <- Numbers, Requests <- Editors, MaxOps <- MaxEdits

Course == INSTANCE CourseSeed WITH Requests <- FirstRequests

Round == INSTANCE WarmupRounds WITH
  Students <- Voters, Types <- VoteTypes, Requests <- TeacherRequests

\* Submissions that are made again after a deletion, and requests that race to
\* freeze the ring; its theorems come with it.
Review == INSTANCE ResearchReviewProofs WITH Students <- Authors

\* The same with texts that change.
Rights == INSTANCE ResearchReviewProofs WITH
  Students <- Authors, MaxId <- LastId, MaxSteps <- LastStep, MaxRev <- LastRev,
  Assigners <- RightsAssigners

\* The lease of 120 s in steps.
Feedback == INSTANCE ResearchAI WITH Requests <- Askers

\* The students of a course and the rounds are finitely many, the default
\* roster has students, and the values that stand for nothing are none.
ASSUME StoresAssumption ==
  /\ {MaxVersions, MaxOps, MaxRows, MaxEdits} \subseteq Nat /\ None \notin Nat
  /\ Default # {}
  /\ IsFiniteSet(Rounds) /\ IsFiniteSet(Voters) /\ Boards \subseteq Rounds

ASSUME ReviewBounds == Review!ReviewAssumption /\ Rights!ReviewAssumption
ASSUME FeedbackTimes == Feedback!LeaseAssumption

-----------------------------------------------------------------------------
Init ==
  /\ area \in Areas
  /\ IF area = "attempts" THEN Attempt!Init ELSE NoAttempt
  /\ IF area = "roster" THEN Class!Init ELSE NoClass
  /\ IF area = "course" THEN Course!Init ELSE NoCourse
  /\ IF area = "rounds" THEN Round!Init ELSE NoRound
  /\ IF area = "review" THEN Review!Init
     ELSE IF area = "rights" THEN Rights!Init ELSE NoReview
  /\ IF area = "feedback" THEN Feedback!Init ELSE NoFeedback
  /\ area \notin {"attempts", "rounds"} => subs = Unused
  /\ area \notin {"attempts", "roster", "course", "feedback"} => req = Unused
  /\ area \notin {"attempts", "roster"} => ops = Unused
  /\ area \notin {"rounds", "feedback"} => status = Unused
  /\ area \notin {"rounds", "review", "rights"} => review = Unused

Next ==
  /\ UNCHANGED area
  /\ \/ /\ area = "attempts" /\ Attempt!Next
        /\ UNCHANGED <<rosterV, courseV, roundV, reviewV, aiV, status, review>>
     \/ /\ area = "roster" /\ Class!Next
        /\ UNCHANGED <<attemptV, courseV, roundV, reviewV, aiV, subs, status, review>>
     \/ /\ area = "course" /\ Course!Next
        /\ UNCHANGED <<attemptV, rosterV, roundV, reviewV, aiV, subs, ops, status, review>>
     \/ /\ area = "rounds" /\ Round!Next
        /\ UNCHANGED <<attemptV, rosterV, courseV, reviewV, aiV, req, ops>>
     \/ /\ area = "review" /\ Review!Next
        /\ UNCHANGED <<attemptV, rosterV, courseV, roundV, aiV, subs, req, ops, status>>
     \/ /\ area = "rights" /\ Rights!Next
        /\ UNCHANGED <<attemptV, rosterV, courseV, roundV, aiV, subs, req, ops, status>>
     \/ /\ area = "feedback" /\ Feedback!Next
        /\ UNCHANGED <<attemptV, rosterV, courseV, roundV, reviewV, subs, ops, review>>

Spec == Init /\ [][Next]_vars

-----------------------------------------------------------------------------
(* Properties: each is stated, with what it says of the code, in the module *)
(* it is taken from.                                                        *)

\* The type invariant of each store.
TypeOK ==
  /\ area = "attempts" => Attempt!TypeOK
  /\ area = "roster" => Class!TypeOK
  /\ area = "course" => Course!TypeOK
  /\ area = "rounds" => Round!TypeOK
  /\ area = "review" => Review!TypeOK
  /\ area = "rights" => Rights!TypeOK
  /\ area = "feedback" => Feedback!TypeOK

\* A student with any number of tabs has one attempt in progress and one a type,
\* none at their own text; what was answered with success stays, and so does the
\* answer that was graded: what is lost is lost to a request that was already
\* under way (assignExecuteAttempt, applyActionAndPersist, submitFinalAnswer).
AttemptsAreKept ==
  area = "attempts" =>
    Attempt!OneAtATime /\ Attempt!OthersOnly /\ Attempt!ActionsKept /\ Attempt!AnswerIsFinal

\* A student's rows carry the key of the roster row through every edit, no row
\* with history is deleted, and no key passes to another student, except where
\* a request wrote after its row had changed under it (lib/roster.ts).
HistoryHasItsOwner ==
  area = "roster" => Class!HistoryFollows /\ Class!HistoryHasOwner /\ Class!OneOwner

\* First requests, which overlap and may die, give one course, unless one of
\* them was overtaken, and always a whole roster; none that was not overtaken
\* brings back who was removed (getOrCreateDefaultCourse, seedRosterForCourse).
CourseIsWhole ==
  area = "course" => Course!OneCourse /\ Course!RemovedStaysRemoved /\ Course!SeededInFull

\* However the teachers' requests overlap, one round is open, what was closed
\* stays closed and no open round is deleted, except for a round that an
\* overtaken request wrote (lib/warmupStore.ts).
OneOpenRound ==
  area = "rounds" => Round!OneOpenRound /\ Round!ClosedStaysClosed /\ Round!NoOpenRoundDeleted

\* However requests race to freeze the ring, it is the same for all, and no
\* version is read by two AI calls at once, unless a guard's query outlasted the
\* margin of the lease (assignResearchReviews, guardedFetch).
ReviewsAreFair ==
  /\ area = "review" => Review!RingIsFair
  /\ area = "feedback" => Feedback!OneCallPerVersion

\* What is settled is not taken back: an answered attempt (but by a request that
\* had begun when its answer was graded), a frozen ring, a stored feedback, a
\* lease that has not run out.
SettledStays ==
  [][/\ area = "attempts" => Attempt!NothingAfterAnswer
     /\ area = "review" => Review!RingIsFrozen
     /\ area = "feedback" => Feedback!CompletedIsFinal /\ Feedback!LeaseIsKept]_vars

\* The right to revise a submission lasts as long as the submission, though
\* others are deleted and revised (canRevise, deleteWarmupSubmission).
RightToRevise == [][area = "rights" => Rights!RightToRevise]_vars
=============================================================================
