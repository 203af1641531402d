# Formal model of the algorithm course

The repository is a classroom application on Cloudflare Workers and D1 (SQLite):
students write algorithms in natural language, an external AI service (JEV)
reads and executes them, classmates review them, and the teacher opens and
closes the rounds. There is no queue, no cron and no background worker:
everything happens inside HTTP requests that may run in parallel in different
isolates, may die at any `await`, and share nothing but the database. A D1
statement, or a `db.batch`, is a transaction; two of them are not. The pages
poll, and their answers arrive in any order.

This directory models the parts in which that matters, checks the models with
TLC and proves the most important facts with TLAPS.

## 1. Inventory

| Component (source) | State | Operations | Hard behaviour |
|---|---|---|---|
| Trial slots and call guard (`lib/jevRunner.ts`, `lib/jev/trialGuard.ts`, `lib/jev/jevService.ts` `post`) | `jev_trial_slots`: five rows with token and expiry | claim, release, deadline, fence, deadline again, call with an 8 s timer | a slow fence, an expired row that is claimed again, a late release, a death with the row held |
| Automatic grading (`lib/jevAuto.ts`) | `jev_auto_runs`, `jev_auto_trials` | register, claim, fence, commit, failed wave, hand back, cancel, resume, retry, transfer | parallel trials, late results, reclaimed trials, retries with backoff, deaths |
| Submission (`app/api/warmup/submit`, `lib/researchStore.ts`) | `warmup_submissions`, `algorithm_versions`, overrides | save with research history, save with a run, snapshot | two transactions per request, several tabs, a round that closes or a submission that is deleted in between |
| Review assignments (`lib/researchStore.ts`, `lib/researchPolicy.ts`) | `algorithm_round_cohorts`, `algorithm_review_assignments` | freeze the cohort and its two-peer ring, complete a review, delete a submission | two requests that freeze at once, deletions, the right to revise |
| Research feedback (`lib/researchAI.ts`) | `algorithm_ai_feedback` with a 120 s lease | claim, guarded calls, complete, fail | lease takeover, the shared slots |
| Teacher jobs (`lib/jevJobs.ts`) | `jev_jobs` (lease and token), `jev_job_items` | create, advance, cancel, resume | overlapping tabs, reuse or transfer of an automatic run |
| Rounds, board, votes (`lib/warmupStore.ts`) | `warmup_rounds`, votes | publish, close, open review, delete, vote | read-then-write in two statements |
| Stage-2 attempts and their evaluation (`lib/store.ts`, `lib/assignments.ts`) | `attempts`, `evaluations` | write, assign, act, answer, report, evaluate | statements of one request interleaved with the next |
| Roster and seeding (`lib/roster.ts`, `lib/store.ts`) | `roster` and every table with a student key, `courses` | add, rename, delete or deactivate, seed | a rename cascade over many tables, first requests that die |
| Execution engine (`lib/jev/executionEngine.ts` and helpers) | state of one execution, evaluation budget, trace | run steps, forward-scan loops, split compound steps | termination, budget, failures in the middle |
| Practice problems and their sandboxes (`lib/problems`, `components/write/sandbox`) | one instance per game, a record of actions | generate, act, answer, reset, new game | two copies of one game, stale verdicts, boundaries |
| Activities (`lib/evenActivity.ts`, `lib/truckActivity.ts`, ...) | none (pure) | compile and run a student's program on fixed cases | endless programs, cases that a wrong program passes |
| Pages and panels (`app/write`, `app/execute`, `app/teacher`, `components`) | React state, drafts, timers, requests under way | log in and out, write, submit, review, vote, drive a job | answers out of order, shared devices, lost answers, double clicks |
| Sessions, teacher authorization, preview, hosting | session rows | log in, log out | expiry while a page is open |

How they interact. The submit route saves the text (research history), then
saves it again with a grading run. Whoever asks for a run, a teacher's job that
reaches its submission or a page (section 6 on what is mounted), calls
`advanceAutoRuns`, which pairs global slots with trials and runs them in parallel. Teacher jobs and research feedback take slots
from the same five rows. A teacher job takes a stopped automatic run over
(`transferAutoRun`) and copies its results. Closing the round ends submission,
not grading. Reviews and their completion decide who may revise; deleting a
submission takes what hangs off it along. The pages read all of this by polling.

What makes it correct, component by component:

- slots: never more calls within their lease than rows; a reclaimed row has two
  callers only while a research call overruns, by at most a call; a lease ends
  only by its holder or by time;
- grading: a trial is not paid for twice at once; a result counts only for the
  latest revision and in the epoch in which the trial was claimed; a run is
  completed exactly when its last result is in; stopped claims stay stopped;
- submission: the first text is frozen until revision is allowed (but for a
  deletion between the two transactions); the history has no gap; what was answered with success is graded;
- jobs: a submission's trials have one executor; saved trials are kept; the
  status and the bar say what was done;
- review: the ring is frozen once, balanced, and the same for everyone; the
  right to revise lasts; no version is read by two AI calls at once;
- rounds: one open round per course, closed rounds stay closed;
- attempts: one in progress per student, acknowledged actions and the graded
  answer stay, except against a request that overlaps in another tab; nobody
  executes their own text;
- roster: history follows its student through edits and never loses its owner;
- engine: the compiled run ends like the plain execution of the algorithm, within
  its budget; the trace explains the final state; a failed run has no verdict;
- practice and activities: verdicts are about the game on the screen; records
  explain it; the reference number of actions suffices; the fixed cases do not
  pass a wrong program;
- pages: work is kept, what is shown belongs to whom it is shown for, no late
  answer takes a page back, and no page waits for ever.

`PROJECT.json` lists every component with its status, and every hazard at its
line.

## 2. Modules

| Module | Role |
|---|---|
| `TrialSlots`, `CallLimiter` | the slot rows, the guard and the calls, with a clock; what they promise: a fixed number of lines, one call on each |
| `AutoRuns`, `RunLedger` | runs, trials, workers, students and the teacher; what grading promises: results of runs in their phases |
| `SubmitRoute` | the submit request through its two transactions |
| `JevJobs` | a teacher's job: its lease, items, waves and commits, with the automatic runs it reuses |
| `ResearchReview` | cohort, ring, completion, exceptions, revision, deletion |
| `ResearchAI` | the lease of an AI feedback, its guard, busy slots and dead requests |
| `WarmupRounds` | rounds, submissions and votes, statement by statement |
| `Attempts` | the complementary assignment, stage-2 attempts and their evaluation |
| `Roster`, `CourseSeed` | edits of the roster with work in flight; the first requests of a deployment |
| `StudentTab` | the browser tab of the write page: session hook, editor, draft, result, navigation bar |
| `ExecutePage`, `ExplorePage`, `ResearchPanel` | reviewing a peer; the board with votes and practice; the research panel |
| `TeacherPage`, `JobPage`, `JobResults`, `AutoPages` | the rounds tab; the panel that drives a job; its results; the two panels of automatic runs |
| `Constellation`, `Woodcut`, `Coins`, `Josephus`, `Cards`, `Pancake`, `CardFlip`, `MaxBox` | a practice problem each, with its sandbox |
| `MaxFinding`, `JevEngine`, `CompoundStep` | the actions of the max-finding problem, the engine with its three services, the splitting of a sentence |
| `PlanRuns`, `EvenCount`, `TruckLoad` | programs of clauses on fixed cases: what is common, and two activities |
| `Stores`, `Pages`, `Practice`, `Settles` | the instances that are checked, of many components in one state space (below) |
| `TrialSlotsProofs`, `AutoRunsProofs`, `SubmitRouteProofs`, `JevJobsProofs`, `ResearchReviewProofs`, `StoresProofs`, `PagesProofs`, `PracticeProofs` | theorems |

### The composed instances

`Stores`, `Pages`, `Practice` and `Settles` instantiate many components side by
side, with the constants each needs, and a variable `area` that says in which of
them the behaviour takes place; it is chosen at the start. This loses nothing:
the stores of one composition share no row that both change, a browser shows one
page and a page one sandbox at a time. Where two components do change the same
rows, one module models both: `JevJobs` has the automatic run it takes over,
`Attempts` the submissions and the attempts, `WarmupRounds` deletions and votes,
`Roster` the sessions and the work of the student, and every page its part of
the server. The variables of an area that is not chosen have the value `Unused`.
A variable's name that two components share is one variable, typed by the area.
`Stores`, `Pages` and the freely played areas of `Practice` have their bounds as
constants, so that their theorems are about all of them, and the cfg files of the
runs give them values. `Stores` instantiates `ResearchReviewProofs` in place of
the module it extends, for its lemmas.
The properties of a composition are the conjunctions, by area, of those the
components define; each is stated where it is defined, with the code it is about.

### TrialSlots

One worker is one promise: a trial of a run, a trial of a teacher job, or a
research request (the set `Research`). Its steps are those of the code:

| Action | Code |
|---|---|
| `Begin` | samples `Date.now()` and issues `claimTrialSlot` |
| `ClaimSlot`, `ClaimNothing` | the `UPDATE ... WHERE id = (SELECT ... LIMIT 1)` |
| `SendFence` | the first check of `createTrialGuard` / `guardedFetch`, and the query |
| `FenceAnswers` | the database's answer, with the time sampled when it was asked |
| `StartCall`, `AbortCall` | the second check, and in the same turn the `fetch` |
| `EndCall` | the answer, an error, or the abort timer |
| `Conclude` | the trial needs no further call, or its deadline has passed |
| `Release` | `releaseTrialSlot`, by token |
| `Crash` | the isolate dies; the row keeps its lease |
| `Tick` | time; blocked only by a call at its abort timer |

The caller's own condition in the fence (run epoch, job lease, feedback token)
may fail at any time here; it is modelled where it belongs. One clock stands for
the clocks of all isolates; clock skew between them is outside the model, as it
is outside the code's own argument. The abort timer is assumed to end a call
(`fetch` honours its signal), and a death ends the call with the isolate. A
teacher job's trial has the earlier of two leases as its deadline; taking the
slot's alone lets it start later, so what holds here holds for it.

### AutoRuns

`run`, `trial` and `slot` are the three tables, `rev` the revision of each
submission, `claim[w]` the `ClaimedTrial` object of one trial in flight. One
action is one statement or batch:

| Action | Code |
|---|---|
| `ReviseText` | `saveResearchSubmission`, as far as grading sees it |
| `SaveMaxbox` | the five statements of `saveMaxboxSubmission` |
| `CancelRuns`, `ResumeRuns`, `RetryOwn`, `TransferRun` | the functions of those names |
| `ClaimSlot`, `ClaimTrial`, `ClaimNothing` | one turn of the loop in `advanceAutoRuns` |
| `Fence`, `StartCall`, `EndCall`, `Conclude` | the guard, the calls and `settleTrial` |
| `CommitDone`, `CommitRetry`, `ReturnStale` | the three branches of `runClaimedAutoTrial` |
| `ReleaseUnstarted`, `DbError`, `Crash` | setup that fails part way, a failing statement, a death |
| `Release` | the `finally` block |
| `Expire`, `BackoffEnds` | time |

Time is not counted: a lease is live or not, a backoff pending or not. `Expire`
never ends a lease during a call of its holder, which is `NoCallOutlivesLease`
of `TrialSlots`, proved there. A commit may read an expired lease as live
because its time was sampled earlier (`seen`). The order in which a page's runs
are served is abstracted to any run a page may ask for; inside a run the lowest
trial index goes first, as in the code. Workers of one wave are independent: the
code awaits them together, which only orders the next wave.

### SubmitRoute

A request is received, copies the runs' and the current texts into the history
(`snapshotRound`, a batch of two inserts, from runs and from the items of
teachers' jobs, and a statement: two transactions), reads the old text
to decide whether a reason is needed, runs the research batch and, in a maxbox
round, the maxbox batch, and is answered. Other requests, the teacher, views of
the history and crashes come in between. `Allow` stands for both ways to open
revision: the teacher's override and the last assigned review (`ResearchReview`
has them). `Delete` is the teacher's deletion of the submission with its
versions, runs and items, `CreateJob` gives each submission an item. A request
whose submission is deleted between its two batches is `overtaken`, and so is
one that had succeeded; what `FirstTextFrozen` and `AcknowledgedIsGraded` say is
about the others (section 6).

### The other stores

- `JevJobs`: a request takes the job's lease, reads the next item and the
  automatic run of its submission, transfers, loads, claims slots, runs a wave,
  and commits under the lease's token (`HoldsJob`). Cancel, resume, deaths,
  failing statements and expiry come in between. Reused trials are those the
  automatic run had done when it was read.
- `ResearchReview`: a submission is an id with an owner; two assigners read the
  cohort and one of their batches wins. `RingIsFair` says that every assigned
  version has its reviewers and everyone reviews as many as are reviewed of
  theirs. One reviewer's ring needs two students, the full one three.
- `ResearchAI`: the lease is counted in steps; `Deadline` and `CallTime` keep the
  order of the real times (`LeaseAssumption`: 100 s and 8 s are within 120 s), and
  a call ends by its timer. The query of the guard takes any time; once it has
  answered, only the slot's lease is looked at (`SlotLease`). `fenced` keeps how
  long it took, and ages are counted until one is older than the row's lease
  (`Late`). A slot may be busy, which ends the request with the row claimed.
- `WarmupRounds`: publishing, closing and deleting read in one statement and
  write in another, as do votes, and any number of requests overlap. A request is
  `crossed` when what it has read changes before it writes; `raced` has the rounds
  whose status a crossed request wrote.
- `Attempts`: every function of `lib/store.ts` that writes is split at its
  statements, for any number of tabs; what an action does to a problem's state is
  that problem's module. Requests have numbers (`tag`), by which the properties
  say which were under way when another wrote.
- `Roster`: `Renamed` names the tables the cascade renames; a key is a school
  and a name or number. Requests are in flight between reading and writing;
  `crossed` has the rows for which one wrote after what it had read had changed.
- `CourseSeed`: creating the course, seeding its roster and marking it seeded
  are three steps of a request that may die between any two, while others take
  them, too. `extra` and `again` mark a course that was made, or seeded, by a
  request that had read before another wrote.

### The pages

Every page module has the page's state (its `useState` and refs), the part of
the server it reads and the set `wire` of requests under way. A request is sent
by an action of the page, served by the server (`Serve`), delivered (`Got...`)
or lost (`Lose`), in any order. Effects and timers are actions. A seat at the
page is whoever logged in last.

- `StudentTab`: mount, polls, logins, both logout buttons, typing, erasing, copying
  the sandbox's log, submitting, the result and its cache; sessions expire; the
  student logs in elsewhere. `work` has the text last written in each round and not
  stored yet, but for what is written while a submit of the round is under way.
- `ExecutePage`: two students share the page; `thanked` is the student for whom
  the review was sent that the page thanks for.
- `ExplorePage` takes the session hook as the atomic answers that `StudentTab`
  has in detail. `ResearchPanel` leaves its messages out and has one round per
  mount; the page's clock may differ from the server's.
- `TeacherPage`: the loads of the interval and the rows (slots 1 and 2) and
  those of the actions (3 and 4) are distinct requests; the guard is a ref set
  in the click, unlike the rendered `busy`. The interval runs only while
  `autoRefresh` is on, which it is not at first; `Refresh` and `Switch` are the two
  buttons.
- `JobPage` has any number of pages' actions through `acts`; `AutoPages` has the
  two panels, mounted or not, one round and revision per panel, and leaves timed
  waits out.

Pagination, layout and texts are left out everywhere.

### The engine, problems and activities

- `JevEngine`: a program is steps of clauses with what the sentence says of a
  loop; the services are the compiled table, JEV and its mock, any answer of the
  latter two being possible. The schema's expressions are given by what they
  evaluate to (`MaxFinding`), not parsed. `MAX_REPEAT_ITERATIONS` cannot be
  reached behind the budget of 60 evaluations; a repeated state ends a loop
  first or the budget does. Category-only resolution is not modelled.
- `CompoundStep`: words are classes ("go", a connective, an ending, ...); the
  cut must lose no word and leave clauses that stand for themselves.
- `EvenCount`, `TruckLoad`: a program grows by any clause and runs on the cases
  of the page and on others.
- The sandboxes: `MaxBox` keeps the boxes twice, as the page does; `Josephus`'
  reset sets the next person to 1 where a new game has null, as the page does.

## 3. Properties and runs

Each property is stated, with the code it is about, where it is defined; those
of the compositions name what they consist of.

| Run | Instance | What it shows |
|---|---|---|
| `TrialSlots` | 2 slots, 2 trials and a research request, clock to 6 | `NoCallOutlivesLease`, `OneCallPerSlot`, `OnlyHolderEndsLease`, refinement of `CallLimiter`, types |
| `AutoRuns` | 1 run, 2 trials, 2 workers, 2 slots, 2 waves, epochs to 2, 1 fault | `NoDoublePay`, `CompletedIffAllDone`, `StoppedStaysStopped`, types |
| `AutoRevisions` | 2 revisions, 1 trial each, 2 workers | refinement of `RunLedger`, across revisions |
| `SubmitRoute` | 1 student, 2 texts, 3 requests, deletions, a job's items | `FirstTextFrozen`, `HistoryComplete`, `AcknowledgedIsGraded`, types |
| `JevJobs` | 2 jobs over 2 submissions, one of which cannot be executed, 2 trials, 2 requests, 1 fault | `OneExecutor`, `ReusedAll`, `JobSaysWhatItDid`, `FullBarMeansDone`, `SavedTrialsKept`, types |
| `Stores` | 7 areas: attempts, roster, course, rounds, review, rights, feedback | `AttemptsAreKept`, `HistoryHasItsOwner`, `CourseIsWhole`, `OneOpenRound`, `ReviewsAreFair`, `SettledStays`, `RightToRevise`, types |
| `Settles` | automatic runs, jobs and feedback, with fairness | `EverythingSettles` |
| `Pages` | 9 areas, two students, entries, rounds or items each | `WorkIsKept`, `ShownIsOwn`, `OneAtATime`, `NothingGoesBack`, types |
| `PagesSettle` | 8 of them (the chooser is `ExecutePage` again), smaller bounds, with fairness | `WaitsEnd`, `PagesConverge` |
| `Practice` | 20 areas: each problem played freely and by its rule, 2 activities, words, 3 engines | `VerdictsAreRight`, `LogsExplain`, `ComputationsAgree`, types |
| `SubmitUnregistered` | 1 request | finding 1 |
| `ReviewCrosses` | 2 students at one tab | finding 2 |

Bounds, and why they are enough.

- Slots: the times keep the order of the real ones: `CALL_TIMEOUT` (8 s, here
  2) is at most `MARGIN` (20 s, here 2, the tightest case), which is less than
  `LEASE` (130 s, here 4). The clock outlasts the first leases, so that a row
  expires, is claimed again and is released late, and a research call is still
  running when the row is claimed again. Two slots and three workers contend. Five tokens: a worker and a row carry at most one each. The proofs
  remove every one of these bounds.
- Grading: two trials make "the last one" and "a sibling" distinct, two waves
  make the first and the last failure distinct, two workers may hold the same
  trial in different epochs. `MaxEpoch` allows a cancel and a resume around a
  claim. Eight tokens cover every row and worker. `MaxCalls` is the number of
  follow-up calls after the first one.
- Submission: three requests are enough for one that stores, one that replaces
  and one that stores the first text again, or for two that meet in the gap a
  deletion leaves; `MaxRev` stops nobody, because each request makes at most two
  revisions.
- Jobs: two requests overlap on one job, two jobs follow each other on one
  submission, one fault is a death with the lease held.
- Stores: `Attempts` has students of both types with two tabs each and four
  requests in all: two of one student overlap, at any of their statements, after
  the two that set the stage. `Roster` has two requests at once, six in all, and three rows for
  two identities, so that a row is deleted and made again; `CourseSeed` three first
  requests at once, of which any may die; `WarmupRounds` two rounds, two requests of
  teachers and a click at once, with a board on one of the rounds; `ResearchReview`
  a ring of three and a fourth submission after a deletion. In `ResearchAI` the
  times keep the order of the real ones (`SlotLease` 7 of 130 s, `Lease` 6 of 120 s,
  `Deadline` 4 of 100 s, `CallTime` 1 of 8 s), and two requests ask, one of which may
  find the row's lease over while the other's guard still waits.
  Where overlapping requests break a promise, the run has the overlap, and the
  property excuses exactly what such a request did, by a history variable;
  section 6 says what the code then does.
- Pages: two requests under way are enough for one to overtake another; two
  logins for one student to follow another on the tab; two entries, rounds,
  versions or items for an answer to be about the other one. The faults a page
  is to recover from are bounded (`JobFaults` and its like). For safety the proofs
  remove these bounds.
- `PagesSettle` has one student, one entry or one item each where the liveness
  does not depend on a second, and one fault. Three clicks in the rounds tab: one
  switches the refresh on, two are actions.
- Practice: the small instances are played through completely, up to their
  bounds on games and actions; the rules are checked at the program's sizes
  (12 coins, 8 to 12 people, 7 and 8 cards, 4 to 6 pancakes, 6 cards to turn,
  12 boxes for the engine's scan). `EvenCount` cuts a run off after 16 steps where
  the code does after 100: with four clauses and five boxes a program may need 20,
  as one of 21 clauses may need 105, so the cut-off also meets programs that end.

Deadlock checking is off: every instance stops when its clock, its requests or
its budget is used up, and an idle server is a legal state.

`StillWritten` in `Practice` stops the growth of programs that the page would
not accept, or that already failed; their states are still checked.

Operators marked "Slip" next to the definition they vary are single mistakes
(a dropped condition, an off-by-one, a missing reset) with which a property no
longer holds; `PROJECT.json` lists one for each property of each run. They are
not part of any specification.

## 4. Fairness

`Settles` assumes what the code's callers provide.

- Grading proceeds "only while some page keeps calling this" (`advanceAutoRuns`).
  Who calls is a variable, `asked`, which turns on and off at any time (`Asks`): a
  teacher's job that has reached the submission asks (`advanceJobItem`), and the
  pages `AutoPages` models would. While it is on: weak fairness of each worker's
  work, and strong fairness of claiming a trial (workers claim slots for all runs;
  the one that asks for this run gets a slot infinitely often). While it is off a
  worker that has begun goes on to its end, and nobody begins. Always: weak
  fairness of the expiry of a lease whose holder is gone, and of the end of a
  backoff. So a run that nobody asks for need not end, and `EverythingSettles` says of it only
  that it comes to where the next request can claim a trial (`MayGoOn`).
- A job proceeds while its page asks (`JobPage`): weak fairness of taking the
  lease, of the request's steps and of the lease's expiry.
- A feedback proceeds while a panel shows it (`ResearchPanel`): weak fairness
  of asking again, of each stage and of the lease's time; a slot that is free
  infinitely often is got.
- Nothing is assumed of students, the teacher, deaths or failing statements; the
  latter are bounded, since with a death in every wave nothing ends.

`PagesSettle` assumes that every request is answered or lost, each kind of
request (with what it is about) by itself (a `fetch` has no timeout of its own
here; that the browser gives up a dead connection is taken for granted), that
effects run and that intervals that are on keep firing. The one of the rounds tab
is on only while `autoRefresh` is (`teacher/page.tsx:170`, `:506-507`), and
`PagesConverge` says nothing of that tab while it is off. Nothing is assumed of the
user.

## 5. Findings that are runs

1. A saved revision may lack its run (`submit/route.ts:39-40`): the text is
   committed by the first of two transactions, the run by the second.
   `jevAuto.ts:26` and the README say it is one. Resubmitting the same text
   registers the run, and a submission answered with success always has one
   (`AcknowledgedIsGraded`).
2. A review crosses to the next student of a shared tab (`execute/page.tsx:177`):
   logging out forgets the login and the submission; the checked steps, the
   verdict and the feedback stay, and the next student may send them as their
   own. `useWarmupSession.ts:118` names the case for the write page.

## 6. Further divergences

Where the code does otherwise than a comment or document says. Each can be shown
with TLC by checking the named invariant of the module itself with the constants
given (`None`, `Nobody` and the like are model values; `SPECIFICATION Spec`). The
properties of the runs excuse some of these cases, and nothing else; a row marked
"strict" is about the named property without its exception: the conclusion
`att[b].asked <= att[a].made`, the alternative `Overwritten`, the variables `raced`,
`crossed`, `extra`, `again` and `overtaken`, `Slow`, or `Submitting` left out.

| What the code does | What is said | Module: invariant, constants |
|---|---|---|
| A research call may overrun its slot lease by less than a call: the check after the fence has no `CALL_MARGIN_MS` (`researchAI.ts:30`) | `jevRunner.ts:11`: an expired holder "can no longer be talking to the API" | `TrialSlots`: `NoCallAfterLease`, the constants of the run |
| A failed submission may have been stored: the round closes between the two transactions (`submit/route.ts:40`) | `README.md:260`: nothing changes and the answer is failure | `SubmitRoute`: `FailureChangesNothing`, as `SubmitUnregistered` |
| A first text is replaced although revision is not allowed: the submission is deleted between the two transactions of a request, another tab stores a first text in the gap, and the second transaction replaces it (`jevAuto.ts:56`) | `researchStore.ts:49`: the first submission is fixed | `SubmitRoute`, strict: `FirstTextFrozen`, `Texts = {a, b}`, 2 requests, `Maxbox = TRUE`, `MaxRev = 4` |
| Two calls read one version: the guard's query has no limit, and after it only the slot's lease is looked at, not the row's 120 s nor the deadline of 100 s (`researchAI.ts:29-31`) | `researchAI.ts:28-29`: deadline and lease are what the guard asks for | `ResearchAI`, strict: `OneCallPerVersion`, the constants of `Stores` |
| A revision may lack a reason: it is checked against a text read before the batch (`researchStore.ts:36`) | `docs/coin-change.md:6`: students give a reason | `SubmitRoute`: `RevisionHasReason`, `Texts = {a, b}`, 2 requests, `Maxbox = FALSE`, `MaxRev = 4` |
| The detail shows checked steps that the current text lacks (`warmupStore.ts:280`) | `warmupSteps.ts:14`: defended against stale indices | `ResearchReview`: `CheckedStepsExist`, 2 students, `MaxId = MaxSteps = MaxRev = 2`, 1 assigner |
| After a deletion a label is given again (`researchStore.ts:41`) | `schema.ts:260`: "the only identity shown to peers" | `WarmupRounds`: `LabelsDiffer`, 1 round, 2 students, 1 request, no clicks |
| Two requests publish two rounds (`warmupStore.ts:143`); a closed round is opened again (149); an open one is deleted (200) | `warmupStore.ts:145`, `:140`; `warmupRoundGuards.ts:28` | `WarmupRounds`, strict: `OneOpenRound`, `ClosedStaysClosed`, `NoOpenRoundDeleted`, 2 rounds, 2 requests, no clicks |
| A vote outlives its submission (`warmupStore.ts:467`) | `:224`: deletes "everything that hangs off it" | `WarmupRounds`: `VotesHang`, 1 round, 1 request, 1 click |
| Two tabs begin two attempts (`store.ts:346`); one of two parallel actions is lost (428); a second answer replaces the first after the right one was shown (485) | `README.md:84`; `schema.ts:161`; `store.ts:481` | `Attempts`, strict: `OneAtATime`, `ActionsKept`, `NothingAfterAnswer`, `Students = {0, 10}`, `Tabs = {1, 2}`, `MaxVersions = 1`, `MaxOps = 4` |
| A text is revised while it is executed (`store.ts:238`) | `schema.ts:138`: before it is picked up | `Attempts`: `TextStays`, `Tabs = {1}`, `MaxVersions = 2`, `MaxOps = 3` |
| A row is stored under the old key after a rename (`roster.ts:261`); a student who logs in is deleted (353) | `roster.ts:221`, `:340` | `Roster`, strict: `HistoryFollows`, `HistoryHasOwner`, `Schools = {A, B}`, `Ids = {1}`, `Names = {N, M}`, 2 requests, `MaxRows = 2`, `MaxOps = 5` |
| Reviewers, notes, evaluations, job items and runs are not renamed (`roster.ts:252`); the order of a deleted last row is given again (191) | `roster.ts:218`: "every other table"; `schema.ts:39`: "never reused" | `Roster`: `ResearchFollows`, `OrdersNotReused`, the same with 1 request |
| Two first requests create two courses (`store.ts:41`); a removed student is seeded again (`roster.ts:57`) | `store.ts:33`; `:34` "exactly once ever" | `CourseSeed`, strict: `OneCourse` (`FixedCode = FALSE`, 2 requests), `RemovedStaysRemoved` (`FixedCode = TRUE`, 3 requests), `MayDie = TRUE` |
| A draft passes to the next student of the tab (`write/algorithm/page.tsx:63`) | `StudentLoginCard.tsx:179`: each gets back his own work | `StudentTab`: `SavedIsOwn`, 2 students, `Rounds = Versions = {1}`, `MaxLogins = MaxWire = 2` |
| What is written while a submit is under way, by the same student or by the next one at the tab, is lost with the draft that the answer removes (`write/algorithm/page.tsx:151`) | `StudentLoginCard.tsx:179` | `StudentTab`, strict: `WorkKept`, 1 student, `Rounds = {1}`, `Versions = {1, 2}`, `MaxLogins = 1`, `MaxWire = 2` |
| The editor is restored from the submission of the student before (`useWarmupSession.ts:22`) | `algorithm/page.tsx:53` | `StudentTab`: `EditorIsOwn`, the same |
| A result is cached under another student's label (`useWarmupSession.ts:31`) | `write/page.tsx:62`: "never show another student's cached result" | `StudentTab`: `ResultIsOwn`, the same with `MaxWire = 3` |
| A text written for a closed round is stored in the next (`submit/route.ts:23`) | `README.md:260` | `StudentTab`: `SavedInItsRound`, 1 student, `Rounds = {1, 2}`, `MaxLogins = 1`, `MaxWire = 2` |
| The thanks for a review are shown to the next student when the answer comes late (`execute/page.tsx:217`) | `useWarmupSession.ts:118` names the case | `ExecutePage`: `submitted => thanked = Who(session)`, as `ReviewCrosses` |
| After the round closed a student's own feedback is refused (`submission/route.ts:20`) | `execute/page.tsx:420`: it can still be seen | `ExecutePage`: `ClosedShowsFeedback`, 1 student, as `ReviewCrosses` |
| The board of the student before opens the practice (`write/explore/page.tsx:39`) | `:509`: locked until all are evaluated | `ExplorePage`: `PracticeEarned`, 2 students, 1 entry, `MaxWire = 2`, `MaxFaults = 0` |
| A closed round shows "no activity", not the practice (`explore/page.tsx:169`) | `:166`: "must never leave a student stuck" | `ExplorePage`: `ClosedUnlocks`, 1 student, the same |
| Pages count completed reviews, the teacher's view votes (`explore/page.tsx:164`) | `:159`: "the same definition" | `ExplorePage`: `SameAsTeacher`, the same |
| A typed height of 1.5 stays as the saw's and the click does nothing (`WoodcutSandbox.tsx:89`) | `:94`: "already clamped to a valid range" | `Woodcut`: `SawIsValid`, `MAX_HEIGHT = 5`, 3 trees, `Fraction` a model value |
| Pans of unequal numbers of coins balance (`problems/coins.ts:74`) | `CoinsViewer.tsx:192`: "the same weight" | `Coins`: `BalanceIsTrue`, 3 coins, `MaxWeighs = MaxGames = 2`, `Plan` empty |
| A loop ends at the last box, opened or not (`jev/problems/max-finding.json:84`) | `executionEngine.ts:23`: "while unchecked boxes remain" | `JevEngine`: `LoopChecksAll`, the program (open, note); open; keep; right; repeat from 2; say, over the orders of three boxes |
| Nothing renders `JevAutoGradeStatus` or `JevAutoRoundStatus`, the only callers that advance an automatic run | `README.md:253`: open pages run their own | `Settles`: without a teacher's job the run stays where `MayGoOn` holds; `AutoPages` and what the runs say of it are about these components when they are shown |
| A program of more than 20 clauses that ends is refused as endless: it may need more than 100 steps (`evenActivity.ts:78`) | `:98`: "the repetition does not end" | `EvenCount`: `cut = Verdict(...)` for the implication in `CutOffOnlyRefuses`, the constants of `Practice` |
| Cards of 6 to 30 (`cards.ts:26`) | `README.md:169`: 12 to 18 | no property |

That `PracticeEarned` is checked with one student has the same reason as finding 2.
What the properties do not say: `OfferedIsAllowed` leaves open whether the round
is still open, `TypeOK` of `AutoRuns` bounds the failed waves from above (two
parallel failures of one wave that counted as two would give up sooner, which no
property forbids), and `SubmittedIsStored` is about the student the review was
sent for, who need not be the one at the page.

## 7. Proofs

All theorems hold for every value of the constants; the assumptions are the
named ones of the modules (`CALL_TIMEOUT <= MARGIN`, tokens are not NULL, sets of
texts and students are not empty, and types). `ResearchAI` and `ResearchReview`
state their own as operators, because other modules instantiate them; `Stores`
assumes them for its instances (`FeedbackTimes`, `ReviewBounds`).

`TrialSlotsProofs` proves types, `NoCallOutlivesLease`, `OneCallPerSlot`,
`OnlyHolderEndsLease` and the refinement of `CallLimiter` for any number of slots and workers and any times. None of these is
inductive alone. The invariant `IInv` adds:

- `TokensDistinct`: two workers never hold the same token, so a row that carries
  a worker's token is that worker's;
- `RowsMatch`: such a row has the expiry the worker believes it has;
- `Sampled`: a claim or fence uses a time that is not ahead of the clock, so
  a row it finds expired is expired;
- `Owned`: until its lease runs out a worker owns its row (from the three);
- `InTime`: a call is younger than its timer, and a trial's call began `MARGIN`
  before the lease ends. With `CALL_TIMEOUT <= MARGIN` a calling trial is within
  its lease, owns its row, and two callers of one row would share a token.

Research requests share the slots and keep no margin (section 6), so their calls
may outlive their leases, by at most a call's time (`InTime`). `OneCallPerSlot`
says that only then may two calls run under one row. `CallLimiter` is implemented
by the calls that count (`Counted`: a trial's always, a research request's within
its lease): such a call owns its row, so two of them have different rows
(`OneCounted`), and time may end the count of several at once.

`SubmitRouteProofs` proves types, `HistoryComplete`, `FirstTextFrozen` and
`AcknowledgedIsGraded` for any
number of students, requests and revisions, through deletions and teachers' jobs.
The invariant adds `Rows` (a text exists from the first revision on), `Beyond`
(nothing is on record for a revision yet to come), `Passed` (a request between its
transactions that no deletion has overtaken finds its text stored, or revision
allowed), and `Recorded` (every revision has one text on record). With `Passed`
the second transaction changes a first text only for an overtaken request.
`AcknowledgedIsGraded` follows from `Beyond` and `Recorded`: the run
of the revision that the second batch leaves behind is new, or was there with the
text that is stored.

`AutoRunsProofs` proves every safety property of `AutoRuns` (types,
`CompletedIffAllDone`, `NoDoublePay`, `StoppedStaysStopped`, and the refinement
of `RunLedger`) for any number of submissions, revisions, trials, slots and
workers, and any bounds on faults, epochs, calls and failed waves. The
invariant has two halves:

- `TableInv`, about the tables: `Budget` (an active run has failed waves left),
  `LeasedIsRunning`, `Unregistered`, `Unfinished` (an active run lacks a result,
  a completed one lacks none) and `TrialEpochs` (no trial is ahead of its run; a
  trial running in the current epoch has made its run leave "queued").
- `WorkerInv`, about who holds what: `OwnTokens` (workers have different
  tokens), `ClaimEpochs`, `CallsHeld` (no lease runs out during a call),
  `Kept` (while a worker's slot is live, its trial is still leased to it, unless
  the run is in a later epoch) and `OneClaimPerEpoch`.

`NoDoublePay` is `OneClaimPerEpoch` for workers in a call. It needs `Kept`:
what makes a trial claimable (no live lease, or a lease of another epoch)
contradicts what a worker of the current epoch keeps. `StoppedStaysStopped` and
the refinement follow from the same invariant, step by step: a run is reopened
only with a new epoch, a token is never used again, and the batch that commits
a result asks for exactly what the ledger's `Record` asks for.

That a lease does not run out during a call is a guard of `Expire`; it is what
`TrialSlots` proves of the clock (`NoCallOutlivesLease`).

The feedback requests (`ResearchAI`, in `StoresProofs`) have types,
`OneCallPerVersion`, `CompletedIsFinal` and `LeaseIsKept` proved for any number of
requests, deaths and busy slots and any times with `Deadline + CallTime <= Lease`,
however long the query of a guard takes. That a row has one caller is
not inductive: a request behind its guard must know that nobody can claim the
row before it is done. The invariant adds `FeedbackLeased` (a request that still
holds the row has what is left of the lease when its own age is taken off) and
`FeedbackGuarded` (behind a guard the request holds the row as long as its lease
would last, and its age is at most the deadline, what the query took and what it
has waited for since). A call whose query took no longer than `Lease - Deadline -
CallTime` is over before the lease is, so its row is not claimable; one whose
query took longer is `Slow`, and the property excuses it.

`JevJobsProofs` proves types, `OneExecutor`, `ReusedAll`, `JobSaysWhatItDid`,
`FullBarMeansDone` and `SavedTrialsKept` for any number of jobs, submissions, trials, slots and requests.
The invariant says of every request what it knows at each of its stages, whether
it still has the lease or not (`RequestOK`: from loading on, the automatic run is
over, and what was reused is all of it), and what it knows more while it has the
lease (`HeldBy`: its item is pending and has no trial it does not know of), of
every item that it fits the run and its evaluation (`ItemOK`), of every job that
its status fits its items (`JobOK`), and of every run that it lacks a result
while it may still get one (`AutoOK`). `HeldBy` makes the commit safe: an item is
written under the lease's token alone, so nobody wrote it since it was read.
That the least pending item exists uses that numbers are well-founded
(`LeastIn`). The assumption is that a job has an item and the ids are numbers.

`FullBarMeansDone` is arithmetic over sets: what was saved of a job is the set of
pairs of an item and a trial up to the item's count, what was skipped are all
pairs of the skipped items; the two are disjoint subsets of all pairs, so the sum
of their sizes is the total only if no pair is left out.

`ResearchReviewProofs` proves types, `RingIsFair`, `RingIsFrozen` and
`RightToRevise` for any number of students, submissions, revisions and requests
that assign reviews. The ring is made from what a request read some time before,
while submissions are deleted and made again. Its invariant `ReviewInv` says that
a student has one submission at a time (`OneEach`), that the rows a request has
read are of different students, and each row still its student's or deleted since
(`FirstVersions`: numbers are not given twice), that nothing is assigned before
the cohort is stored, that the request that stored it has ended, and that the
ring is the one of some first versions without those that were deleted
(`RingOf`). From this the counts are arithmetic: the j-th place after the i-th
of n is at another place for each i, and not at i while j < n (`PlaceOf`), so a
version has two reviewers (one if n = 2), a student at most two reviews.

`StoresProofs` proves every property of the run `Stores`, for any number of
students, attempts, rows, rounds, submissions, versions and operations. Each store
has an invariant of its own, and a step works in one store.

- `AttemptInv`: requests have different numbers (`TagsApart`), and what one has
  read was so when it began (`AttemptKnows`: one that is about to begin an attempt
  found none in progress and none of its type among those made before it; an
  action's log has every acknowledged action that had ended by then, or one that
  was written over it; an answer came while none was graded). Every attempt has
  an answer exactly when it is over, nothing on record that began after the
  answer was graded, and every acknowledged action but those another was written
  over (`AttemptKept`).
- `ClassInv`: two rows of the roster differ in number and in key (`RowsDiffer`),
  the next order and the next number are above all there are (`OrdersLag`,
  `OwnersLag`), a row for which nobody wrote too late has what it needs
  (`Anchored`: what is elsewhere of its student has this row, a login and, but for
  research, its key), and requests have read what the types say (`ClassKnows`).
- `CourseInv`: what a request that was not crossed has read is still so
  (`CourseKnows`), only the first course was not made by a crossed request, and
  every course's roster is empty or whole until it is marked, and then lacks those
  who were removed and nobody else (`RowsAreWhole`).
- `RoundInv`: what a request that was not crossed has read is still so
  (`RoundKnows`), so it leaves at most one round open that is not in `raced`; a
  round that has ended is no draft, and votes are for the submissions of others.
- `FeedbackInv` is the invariant of `ResearchAI` described above, and
  `Review!ReviewInv` (twice) the one of `ResearchReviewProofs`.

None of them assumes that a student has one tab or that one request works at a
time. The history variables (`tag`, `crossed`, `raced`, `extra`, `again`, `fenced`)
record which request wrote from what it had read before another wrote, and only
of such a request do the properties allow what section 6 shows it to do.

`PagesProofs` proves every property of the run `Pages` (types, `WorkIsKept`,
`ShownIsOwn`, `OneAtATime`, `NothingGoesBack`), for any number of students,
logins, rounds, entries, versions, items, jobs, actions, requests under way and
lost answers. None of them is inductive, because what a page shows next is in an
answer that is still on its way. Each page has an invariant of its own, which
says of every request that may still be applied what it may carry; a step works
in one page.

- `TabInv`: what is to be kept of a round (`work`) is its draft, and in the editor
  when that shows the round (`TabEditor`). A submit under way carries that text or
  what was written since is not promised, and by its success nothing is left to
  keep (`TabAsk`). That a typed text has an author needs that every request with a
  cookie was sent after a login.
- `ExecuteInv`: a request brings back a review only if one is stored for the
  student it was read for, a "post" has one to send, and the one answered with
  success has stored it for the student who sent it, so whoever the page thanks
  has a review stored (`ExecuteAsk`).
- `ChooserInv`: a list request whose effect still runs carries the session of the
  student who is logged in, or one that has ended, and its answer is that
  student's (`ChooserAsk`). It holds because the cleanup of the effect marks all
  others stale.
- `ExploreInv`: every board under way shows as reviewed only what has been
  (`ShownBoard`), so practice opens after the reviews. The area has one student:
  with two, section 6 applies.
- `PanelInv`: in the form, in each request and in each view a note goes with its
  version, and a view under way offers a revision only when it is allowed, which
  stays (`PanelView`).
- `RoundsTabInv`: the types of the requests and `OneActionAtOnce`, which is
  inductive with them: the guard is set as long as a click is not idle.
- `JobInv`: one job is active; what a page or a request knows of a job is a state
  it had (`WasSo`); one request at most is current, and it has no answer older
  than what is shown (`JobAsk`).
- `ResultsInv`: one read of each kind is live, and its answer is between what is
  shown and what is saved (`ListRead`, `DetailRead`).
- `AutoInv`: the same for the runs of each panel (`StudentAsk`, `TeacherAsk`).

`PagesAssumption` says that bounds are numbers, that there is a wave and the
initial round exists, that items are finitely many, and that `None`, which stands
for null, is no student, entry or review. A page has at most one job active and a
result total that grows; these use lemmas about finite sets (`Imaged`,
`Replaced`, `TotalIsBounded`). The area `explore` has one student (`student`) and
`ShownIsOwn` says nothing of `StudentTab`: what two students at one tab see of
each other is finding 2 and section 6.

`PracticeProofs` proves types, `VerdictsAreRight` and `LogsExplain` of the run
`Practice` for the freely played problems, the activities' programs and the
engine's runs: any sizes, pools of numbers, maps of stars, programs, box contents
and budget, and any bounds on games and actions. Each problem has an invariant
of its own, and a step is one of one problem.

- `CoinsInv`: the result of each weighing is what the balance shows for the coins
  put on it, so the fake coin is among those the record leaves possible.
- `CircleInv`: those in the circle sit in order, and with the removed they are
  everyone. `CircleRuled`: so far as the rule was followed, the circle and the
  person named next are those of the round of `simulateJosephus` with so many
  left. That its last round leaves the survivor of the recurrence is an
  induction over the rounds: the survivor's place, counted from the next person,
  moves as the recurrence says when one more is in the circle (`PlaceMoves`).
- `CardsInv`: the cards ascend (the i-th is the one with i - 1 smaller ones in
  the pool, `Rank`), so no card turned over excludes the answer's. `PancakesInv`: the flips on record make the stack from
  the first one, and a stack stays a permutation.
- `TurnInv`, `BoxesInv`: where the next action stands if all before followed the
  rule (`ByRule`, `ByScan`): the cards right of the marker were turned down; the
  memory is the largest of the boxes passed, the output one that none exceeds.
- `ForestInv`: each cut on record has what that height gives. The wood that a
  height gives falls with the height, so binary search ends at the highest one
  that suffices (`AnswerIsHighest`).
- `StarsInv`, `StarsJoined`, `StarsJudged`: every accepted line joined two groups.
  Union-find is proved correct for any map: after the accepted lines, two stars
  have the same root exactly if the lines link them (`Grouped`), and a map of n
  stars with m accepted lines has n - m groups. So a line is refused exactly if
  it closes a ring (`JudgedRightly`), no accepted line is on one, and n - 1 lines
  join all (`Tree`), after which no line can be accepted. `Reach` of
  `Constellation`, the reference, is shown to be the least set that the lines
  close (`ReachIsLeast`).
- `EvenInv`, `TruckInv`: the clauses of an activity's program refer to steps there
  are; a clause that was not understood gets no verdict.
- `EngineInv`: where the run stands in the program and its loops (`EngineAt`),
  that each entry of the trace begins where the one before it ended (`EngineLog`),
  that memory and output were read from opened boxes (`EngineKnows`), that the
  evaluations stay within the budget and JEV is asked at most once more
  (`EngineCosts`), and that the verdict is that of the end (`EngineEnds`).

`PracticeAssumption` says that sizes are positive numbers, `None` (null) is no
value of the program, a map has its stars at points of the drawing area
(`COORD_MAX = 100` in `lib/problems/constellation.ts`), a program has a step and
each step a clause, and there is a box. The recursions of the code are recursive
functions in these modules, and what a proof says of one is said by induction
on a set of numbers, from the well-foundedness of `<` (`Induct`, `InductTo`).

Only model-checked:

- `ComputationsAgree`: that the rules are enough at the program's sizes (three
  weighings, halving, largest first, a number plus one in `TurnAddsOne`, whose
  powers of two the provers do not know), that no map is shorter than the least
  spanning tree (an exchange argument over all trees), that a program which
  passes the fixed cases is right on the others (a fact of those cases, by
  enumeration), and what the splitting of a sentence and the compiled run compute.
- Liveness (`EverythingSettles`, `WaitsEnd`, `PagesConverge`): fairness and
  ENABLED are out of the prover's reach.

## 8. Not modelled

- The coin-change and candy activities (`lib/coinChangeActivity.ts`,
  `lib/candyActivity.ts`): planned in the form of `EvenCount` and `TruckLoad`.
- Of the teacher's page the roster tab (its server side is `Roster`), the filters
  and the automatic login; the student's login card beyond what `StudentTab`
  has of it; the preview and history pages; the spreadsheet export: forms and
  lists over what the modelled components store.
- Of the engine: category-only resolution, the expressions of the problem schema
  as text, and the regular expressions of the mock (any of its answers is taken).
- Sessions and teacher authorization: one row per request, nothing to interleave
  with but expiry, which the pages have. `lib/validation.ts`: pure checks of form.
- Reads that only shape a result, and two exports that nothing calls
  (`upsertWarmupSubmission` and `upsertWarmupExperience`).
- The meaning of a sentence: the external service's answers are any.
- Hosting glue (`worker/`, `build/`), migrations and generated code, tests.

What a later version should add, in this order: the two activities; the least
spanning tree as a theorem.
