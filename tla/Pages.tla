------------------------------- MODULE Pages -------------------------------
(***************************************************************************)
(* The pages of the site, one at a time: a browser shows one of them, so   *)
(* what holds of each by itself holds of the site's pages.  A behaviour is *)
(* of the page chosen at the start; the variables of the others stay       *)
(* unused.                                                                 *)
(***************************************************************************)
EXTENDS Integers, FiniteSets, Sequences

CONSTANTS
  Areas,   \* the pages that are explored
  Unused,  \* the value of the others' variables
  None,
  \* Students who share a tab, and the rounds of it.
  Sharers, TabRounds, Drafts, TabLogins, TabWire,
  \* A student on the page of a peer's algorithm and on the board, and students
  \* who share the list to choose one from.
  student, ExecuteLogins, ExecuteWire,
  Choosers, ChooserLogins, ChooserWire,
  Ideas, idea, BoardWire, BoardFaults,
  \* The research panel: polls, asks and notes under way.
  PanelRev, Reviewers, Polls, Asks, Remarks, PanelWire, PanelFaults,
  \* The rounds tab: loads of the interval and the rows, and those of the actions.
  TabledRounds, Slots, Clicks, MaxActions, MaxFailed,
  \* A round's jobs, the results of one, the automatic runs.
  JobWaves, MaxJobs, JobActs, JobFaults,
  Items, Trials, MaxRefresh, ResultFaults,
  Graded, RunWaves, AutoActs, AutoFaults

VARIABLES
  area,
  last, revise, live, cookie, page, nav, ctx, text, result, submitting, mine,
  canRevise, seat, work,
  session, owner, begun, submission, loadError, form, submitted, thanked, listing,
  listError,
  review, votes, done, who, board, boardLoading, boardError, pending,
  rev, reviews, override, ai, hot,
  srv, detailId, autoRefresh, busyRef, act, load, actions, failed,
  jobs, job,
  seen, selected, detailError, refreshed,
  runs, next, tries, auto, ask,
  \* of several pages:
  open, saved, logins, checking, loggedIn, label, loading, round, draft, stored, list,
  due, view, busy, wire, faults, detail, acts, error, gen

\* The variables of each page alone, and those that several pages have.
tabV == <<last, revise, live, cookie, page, nav, ctx, text, result, submitting, mine,
          canRevise, seat, work>>
executeV == <<session, owner, begun, submission, loadError, form, submitted, thanked,
              listing, listError>>
exploreV == <<review, votes, done, who, board, boardLoading, boardError, pending>>
panelV == <<rev, reviews, override, ai, hot>>
roundsV == <<srv, detailId, autoRefresh, busyRef, act, load, actions, failed>>
jobV == <<jobs, job>>
resultsV == <<seen, selected, detailError, refreshed>>
autoV == <<runs, next, tries, auto, ask>>
shared == <<open, saved, logins, checking, loggedIn, label, loading, round, draft,
            stored, list, due, view, busy, wire, faults, detail, acts, error, gen>>
vars == <<area, tabV, executeV, exploreV, panelV, roundsV, jobV, resultsV, autoV, shared>>

NotTab == last = Unused /\ revise = Unused /\ live = Unused /\ cookie = Unused /\
          page = Unused /\ nav = Unused /\ ctx = Unused /\ text = Unused /\
          result = Unused /\ submitting = Unused /\ mine = Unused /\
          canRevise = Unused /\ seat = Unused /\ work = Unused
NotExecute == session = Unused /\ owner = Unused /\ begun = Unused /\
              submission = Unused /\ loadError = Unused /\ form = Unused /\
              submitted = Unused /\ thanked = Unused /\ listing = Unused /\ listError = Unused
NotExplore == review = Unused /\ votes = Unused /\ done = Unused /\ who = Unused /\
              board = Unused /\ boardLoading = Unused /\ boardError = Unused /\
              pending = Unused
NotPanel == rev = Unused /\ reviews = Unused /\ override = Unused /\ ai = Unused /\
            hot = Unused
NotRounds == srv = Unused /\ detailId = Unused /\ autoRefresh = Unused /\
             busyRef = Unused /\ act = Unused /\ load = Unused /\ actions = Unused /\ failed = Unused
NotJob == jobs = Unused /\ job = Unused
NotResults == seen = Unused /\ selected = Unused /\ detailError = Unused /\
              refreshed = Unused
NotAuto == runs = Unused /\ next = Unused /\ tries = Unused /\ auto = Unused /\
           ask = Unused

Tab == INSTANCE StudentTab WITH
  Students <- Sharers, Rounds <- TabRounds, Versions <- Drafts, MaxLogins <- TabLogins,
  MaxWire <- TabWire

Execute == INSTANCE ExecutePage WITH
  Students <- Sharers, Chosen <- TRUE, MaxLogins <- ExecuteLogins, MaxWire <- ExecuteWire
Chooser == INSTANCE ExecutePage WITH
  Students <- Choosers, Chosen <- FALSE, MaxLogins <- ChooserLogins, MaxWire <- ChooserWire

Explore == INSTANCE ExplorePage WITH
  Students <- {student}, Entries <- Ideas, MaxWire <- BoardWire, MaxFaults <- BoardFaults

Panel == INSTANCE ResearchPanel WITH
  MaxRev <- PanelRev, MaxOf <- [poll |-> Polls, ask |-> Asks, note |-> Remarks],
  MaxWire <- PanelWire, MaxFaults <- PanelFaults

RoundsTab == INSTANCE TeacherPage WITH Rounds <- TabledRounds

Job == INSTANCE JobPage WITH Waves <- JobWaves, MaxActs <- JobActs, MaxFaults <- JobFaults
Results == INSTANCE JobResults WITH MaxFaults <- ResultFaults
Grading == INSTANCE AutoPages WITH
  Students <- Graded, Waves <- RunWaves, MaxActs <- AutoActs, MaxFaults <- AutoFaults

\* "None" is none of the values it stands beside.
ASSUME PagesAssumption ==
  /\ PanelRev \in Nat \ {0} /\ Reviewers \in Nat /\ None \notin Panel!Views
  /\ TabRounds \subseteq Nat \ {0} /\ 1 \in TabRounds
  /\ TabLogins \in Nat /\ TabWire \in Nat \ {0} /\ None \notin Sharers
  /\ ExecuteLogins \in Nat /\ ExecuteWire \in Nat \ {0}
  /\ ChooserLogins \in Nat /\ ChooserWire \in Nat \ {0}
  /\ None \notin Choosers /\ None \notin Execute!Reviews
  /\ BoardWire \in Nat /\ None \notin Ideas \cup {student}
  /\ IsFiniteSet(Items) /\ Trials \in Nat
  /\ JobWaves \in Nat \ {0} /\ MaxJobs \in Nat
  /\ RunWaves \in Nat \ {0} /\ "teacher" \notin Graded

-----------------------------------------------------------------------------
Init ==
  /\ area \in Areas
  /\ IF area = "tab" THEN Tab!Init ELSE NotTab
  /\ IF area = "execute" THEN Execute!Init
     ELSE IF area = "chooser" THEN Chooser!Init ELSE NotExecute
  /\ IF area = "explore" THEN Explore!Init ELSE NotExplore
  /\ IF area = "panel" THEN Panel!Init ELSE NotPanel
  /\ IF area = "rounds" THEN RoundsTab!Init ELSE NotRounds
  /\ IF area = "job" THEN Job!Init ELSE NotJob
  /\ IF area = "results" THEN Results!Init ELSE NotResults
  /\ IF area = "auto" THEN Grading!Init ELSE NotAuto
  /\ area \notin {"tab", "execute", "chooser", "explore", "panel"} => open = Unused
  /\ area \notin {"tab", "results"} => saved = Unused
  /\ area \notin {"tab", "execute", "chooser"} =>
       /\ logins = Unused /\ checking = Unused /\ loggedIn = Unused
       /\ label = Unused /\ loading = Unused
  /\ area \notin {"tab", "explore"} => round = Unused
  /\ area \notin {"tab", "panel"} => draft = Unused
  /\ area \notin {"execute", "chooser", "panel"} => stored = Unused
  /\ area \notin {"execute", "chooser", "rounds", "results"} => list = Unused
  /\ area \notin {"explore", "panel"} => due = Unused
  /\ area \notin {"panel", "auto"} => view = Unused
  /\ area \notin {"panel", "rounds", "job", "auto"} => busy = Unused
  /\ area \notin {"tab", "execute", "chooser", "explore", "panel", "job", "results", "auto"} =>
       /\ wire = Unused
  /\ area \notin {"explore", "panel", "job", "results", "auto"} => faults = Unused
  /\ area \notin {"rounds", "results"} => detail = Unused
  /\ area \notin {"job", "auto"} =>
       /\ acts = Unused /\ gen = Unused
  /\ area \notin {"job", "results"} => error = Unused

\* A step of one page.
InTab(step) ==
  /\ area = "tab" /\ step
  /\ UNCHANGED <<area, executeV, exploreV, panelV, roundsV, jobV, resultsV, autoV,
                 stored, list, due, view, busy, faults, detail, acts, error, gen>>
InExecute(step) ==
  /\ area \in {"execute", "chooser"} /\ step
  /\ UNCHANGED <<area, tabV, exploreV, panelV, roundsV, jobV, resultsV, autoV,
                 saved, round, draft, due, view, busy, faults, detail, acts, error,
                 gen>>
InExplore(step) ==
  /\ area = "explore" /\ step
  /\ UNCHANGED <<area, tabV, executeV, panelV, roundsV, jobV, resultsV, autoV,
                 saved, logins, checking, loggedIn, label, loading, draft, stored,
                 list, view, busy, detail, acts, error, gen>>
InPanel(step) ==
  /\ area = "panel" /\ step
  /\ UNCHANGED <<area, tabV, executeV, exploreV, roundsV, jobV, resultsV, autoV,
                 saved, logins, checking, loggedIn, label, loading, round, list,
                 detail, acts, error, gen>>
InRounds(step) ==
  /\ area = "rounds" /\ step
  /\ UNCHANGED <<area, tabV, executeV, exploreV, panelV, jobV, resultsV, autoV,
                 open, saved, logins, checking, loggedIn, label, loading, round,
                 draft, stored, due, view, wire, faults, acts, error, gen>>
InJob(step) ==
  /\ area = "job" /\ step
  /\ UNCHANGED <<area, tabV, executeV, exploreV, panelV, roundsV, resultsV, autoV,
                 open, saved, logins, checking, loggedIn, label, loading, round,
                 draft, stored, list, due, view, detail>>
InResults(step) ==
  /\ area = "results" /\ step
  /\ UNCHANGED <<area, tabV, executeV, exploreV, panelV, roundsV, jobV, autoV, open,
                 logins, checking, loggedIn, label, loading, round, draft, stored,
                 due, view, busy, acts, gen>>
InAuto(step) ==
  /\ area = "auto" /\ step
  /\ UNCHANGED <<area, tabV, executeV, exploreV, panelV, roundsV, jobV, resultsV,
                 open, saved, logins, checking, loggedIn, label, loading, round,
                 draft, stored, list, due, detail, error>>

Next ==
  \/ InTab(Tab!Next)
  \/ InExecute(area = "execute" /\ Execute!Next)
  \/ InExecute(area = "chooser" /\ Chooser!Next)
  \/ InExplore(Explore!Next)
  \/ InPanel(Panel!Next)
  \/ InRounds(RoundsTab!Next)
  \/ InJob(Job!Next)
  \/ InResults(Results!Next)
  \/ InAuto(Grading!Next)

Spec == Init /\ [][Next]_vars

-----------------------------------------------------------------------------
(* Fairness: the server answers every request and the browser delivers the  *)
(* answers, each kind of request for itself.                                *)

\* A request's kind, with what it is about.
About(q) ==
  CASE area = "explore" -> <<q.kind, q.entry>>
    [] area = "panel"   -> <<q.kind, q.of>>
    [] area = "results" -> <<q.kind, q.item>>
    [] area = "auto"    -> <<"auto", q.who>>
    [] OTHER            -> <<q.kind>>
Abouts ==
  CASE area = "tab"     -> <<<<"mount">>, <<"poll">>, <<"loginRound">>, <<"login">>,
                             <<"navLogout">>, <<"logout">>, <<"submit">>, <<"result">>>>
    [] area \in {"execute", "chooser"} ->
         <<<<"me">>, <<"data">>, <<"list">>, <<"login">>, <<"logout">>, <<"post">>>>
    [] area = "explore" -> <<<<"board", None>>, <<"board", idea>>, <<"vote", idea>>>>
    [] area = "panel"   -> <<<<"load", "poll">>, <<"load", "ask">>, <<"ask", "ask">>>>
    [] area = "job"     -> <<<<"start">>, <<"resume">>, <<"cancel">>, <<"read">>, <<"advance">>>>
    [] area = "results" -> <<<<"list", None>>, <<"detail", 1>>, <<"detail", 2>>>>
    [] area = "auto"    -> <<<<"auto", student>>, <<"auto", "teacher">>>>
    [] OTHER            -> <<>>
OfKind(i) == IF i > Len(Abouts) THEN {} ELSE {q \in wire : About(q) = Abouts[i]}

Served(q) ==
  \/ InTab(Tab!Serve(q))
  \/ InExecute(Execute!Serve(q))
  \/ InExplore(Explore!Serve(q))
  \/ InPanel(Panel!Serve(q))
  \/ InJob(Job!Serve(q))
  \/ InResults(Results!Serve(q))
  \/ InAuto(Grading!Serve(q))
Delivered(q) ==
  \/ InTab(Tab!Got(q))
  \/ InExecute(Execute!Got(q))
  \/ InExplore(Explore!Got(q))
  \/ InPanel(Panel!Got(q))
  \/ InJob(Job!Got(q))
  \/ InResults(Results!Got(q))
  \/ InAuto(Grading!StudentGot(q) \/ Grading!TeacherGot(q))

\* The pages' effects and timers.  The interval of the rounds tab runs while it is
\* switched on, which it is not at first.
Effects ==
  \/ InExecute(Execute!Begin)
  \/ InExplore(Explore!LoadBoard)
  \/ InPanel(Panel!Effect)
  \/ InRounds(RoundsTab!Render)
  \/ InJob(Job!Tick)
  \/ InResults(Results!JobMoved)
  \/ InAuto(\E s \in Graded : Grading!run(s))
Timers ==
  \/ InExplore(Explore!Poll)
  \/ InPanel(Panel!Poll)
  \/ InRounds(\E l \in Slots : \E x \in RoundsTab!Refreshes : x.what = "list" /\ RoundsTab!Tick(l, x))
  \/ InAuto(Grading!tick)
SecondTimers ==
  \/ InPanel(Panel!Cool)
  \/ InRounds(\E l \in Slots : \E x \in RoundsTab!Refreshes : x.what = "detail" /\ RoundsTab!Tick(l, x))

Fairness ==
  /\ WF_vars(Effects) /\ WF_vars(Timers) /\ WF_vars(SecondTimers)
  /\ \A i \in 1..8 : /\ WF_vars(\E q \in OfKind(i) : Served(q))
                     /\ WF_vars(\E q \in OfKind(i) : Delivered(q))
  /\ \A v \in 1..PanelRev : WF_vars(InPanel(Panel!Expire(v)))
  /\ \A c \in Clicks : WF_vars(InRounds(RoundsTab!Works(c)))
  /\ \A l \in Slots \cup Clicks : WF_vars(InRounds(RoundsTab!ServeLoad(l) \/ RoundsTab!Arrive(l)))

FairSpec == Spec /\ Fairness

-----------------------------------------------------------------------------
(* Properties: each is stated, with what it says of the code, in the module *)
(* it is taken from.                                                        *)

\* The type invariant of each page.
TypeOK ==
  /\ area = "tab" => Tab!TypeOK
  /\ area = "execute" => Execute!TypeOK
  /\ area = "chooser" => Chooser!TypeOK
  /\ area = "explore" => Explore!TypeOK
  /\ area = "panel" => Panel!TypeOK
  /\ area = "rounds" => RoundsTab!TypeOK
  /\ area = "job" => Job!TypeOK
  /\ area = "results" => Results!TypeOK
  /\ area = "auto" => Grading!TypeOK

\* What a student writes is kept, whatever is lost, expires or arrives late and
\* whoever logs in meanwhile: the text last written in the tab until it is stored
\* (but not what is written while a submit is under way), the review that was
\* acknowledged, the note with the version it was written about.
WorkIsKept ==
  /\ area = "tab" => Tab!WorkKept
  /\ area = "execute" => Execute!SubmittedIsStored
  /\ area = "panel" => Panel!NotesStay

\* What the page shows is about whom and what it is shown for: the chooser's
\* list, the detail of the selected student, the practice after all reviews,
\* the offer to revise.
ShownIsOwn ==
  /\ area = "chooser" => Chooser!ListIsOwn
  /\ area = "results" => Results!DetailOfSelected
  /\ area = "explore" => Explore!PracticeEarned
  /\ area = "panel" => Panel!OfferedIsAllowed

\* A double click sends one action, and two pages start one job.
OneAtATime ==
  /\ area = "rounds" => RoundsTab!OneActionAtOnce
  /\ area = "job" => Job!OneActive

\* No late answer takes a page back: the editor's text, a job's and a run's
\* state, the results; and nothing drives a job from a page that shows an error.
NothingGoesBack ==
  [][/\ area = "tab" => Tab!OnlyTypingChanges
     /\ area = "job" => Job!NeverBack /\ Job!DispatchStops
     /\ area = "results" => Results!ResultsGrow
     /\ area = "auto" => Grading!NeverBack]_vars

\* What a page waits for: an answer that releases a button or ends a "loading",
\* the board as it is stored, the end of a job that it shows as active, or of a
\* run.
Waits(i) ==
  CASE area = "tab"     -> <<submitting, loading \/ nav = "busy">>[i]
    [] area = "execute" -> <<loading, loggedIn /\ ~ submission /\ loadError = "none">>[i]
    [] area = "explore" -> <<idea \in pending, Explore!Stale>>[i]
    [] area = "panel"   -> busy
    [] area = "rounds"  -> busy \/ busyRef
    [] area = "job"     -> <<busy, Job!activeId /\ error = "none">>[i]
    [] area = "results" -> detail = None /\ selected # None /\ ~ detailError
    [] area = "auto"    -> <<busy, Grading!Active>>[i]

\* No button stays disabled, no "loading" stays on a page and no board stays
\* old, whatever answers get lost; a job shown as active ends, or the page says
\* why it does not go on, and a run that a page shows ends.
WaitsEnd == \A i \in 1..2 : Waits(i) ~> ~ Waits(i)

\* However late and in whatever order the answers came, the pages that read
\* again come to show what the server has.
PagesConverge ==
  <>[](/\ area = "panel" => Panel!FeedbackShown /\ Panel!Quiet
       /\ area = "rounds" => RoundsTab!Settled
       /\ area = "results" => Results!UpToDate
       /\ area = "auto" => Grading!Agrees)
=============================================================================
