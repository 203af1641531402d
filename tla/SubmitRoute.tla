---------------------------- MODULE SubmitRoute ----------------------------
(***************************************************************************)
(* POST /api/warmup/submit (app/api/warmup/submit/route.ts): a request     *)
(* reads the open round, stores the text through saveResearchSubmission    *)
(* (lib/researchStore.ts) and, in a maxbox round, stores it again and      *)
(* registers its grading run through saveMaxboxSubmission                  *)
(* (lib/jevAuto.ts).  The two calls are two transactions: other requests   *)
(* of the same student, the teacher and the peers act in between - the     *)
(* teacher may even delete the row - and the request may die at any await. *)
(*                                                                         *)
(* One D1 statement or batch is one action.  What happens to a run once it *)
(* is registered is the business of AutoRuns.  A row that was deleted and  *)
(* stored again has a new id, so that nothing of the old one is its own.   *)
(***************************************************************************)
EXTENDS Naturals

CONSTANTS
  Students,
  Texts,      \* algorithm texts
  NoText,     \* no row
  Requests,   \* the submit requests
  Maxbox,     \* resolveWarmupSandboxProblemType(round) = "maxbox"
  MaxRev      \* bound on the revisions of a submission

ASSUME SetAssumption == Students # {} /\ Texts # {} /\ NoText \notin Texts
ASSUME RoundAssumption == Maxbox \in BOOLEAN /\ MaxRev \in Nat \ {0}

VARIABLES
  open,      \* warmup_rounds.status = 'open'
  allowed,   \* ALLOWED, of each submission
  text,      \* warmup_submissions.algorithm_text, NoText if there is no row
  rev,       \* warmup_submissions.revision
  versions,  \* algorithm_versions
  runs,      \* jev_auto_runs: the text of the run of each revision
  items,     \* jev_job_items: the text of each revision in a teacher's job
  req        \* the requests

vars == <<open, allowed, text, rev, versions, runs, items, req>>
store == <<text, rev, versions, runs, items>>

Revisions == 1..MaxRev
MaybeText == Texts \cup {NoText}

NoVersion == [text |-> NoText, reason |-> FALSE, origin |-> "none"]
Version == [text : Texts, reason : BOOLEAN, origin : {"submitted", "legacy"}]

Steps == {"snapshot", "copy", "check", "research", "maxbox"}
Answers == {"ok", "failed", "dead"}

\* reason: a reason of five letters or more came with the request.
\* wrote: a batch of this request changed the submission.
\* overtaken: since the last batch of this request the row was deleted, or
\* changed by a request that was overtaken so.
Request == [pc : {"new"} \cup Steps \cup Answers, student : Students,
            text : Texts, reason : BOOLEAN, wrote : BOOLEAN, overtaken : BOOLEAN]
NewRequest == [pc |-> "new", student |-> CHOOSE s \in Students : TRUE,
               text |-> CHOOSE t \in Texts : TRUE, reason |-> FALSE, wrote |-> FALSE,
               overtaken |-> FALSE]

TypeOK ==
  /\ open \in BOOLEAN
  /\ allowed \in [Students -> BOOLEAN]
  /\ text \in [Students -> MaybeText]
  /\ rev \in [Students -> 0..MaxRev]
  /\ versions \in [Students -> [Revisions -> Version \cup {NoVersion}]]
  /\ runs \in [Students -> [Revisions -> MaybeText]]
  /\ items \in [Students -> [Revisions -> MaybeText]]
  /\ req \in [Requests -> Request]

-----------------------------------------------------------------------------
(* Operators of the code.                                                  *)

\* INSERT OR IGNORE INTO algorithm_versions, unique by submission and revision.
Insert(table, s, v, row) ==
  IF table[s][v] = NoVersion THEN [table EXCEPT ![s][v] = row] ELSE table

Legacy(t) == [text |-> t, reason |-> FALSE, origin |-> "legacy"]

\* Slip: the snapshot of the runs does not ask whether there is a run.
SnapshotRunsUnchecked ==
  [s \in Students |-> [v \in Revisions |->
     IF versions[s][v] = NoVersion THEN Legacy(runs[s][v]) ELSE versions[s][v]]]

\* snapshotRound's batch: every run, and then every item of a job, whose
\* revision has no version gives it one.
SnapshotRuns ==
  [s \in Students |-> [v \in Revisions |->
     IF versions[s][v] = NoVersion /\ runs[s][v] # NoText THEN Legacy(runs[s][v])
     ELSE IF versions[s][v] = NoVersion /\ items[s][v] # NoText
       THEN Legacy(items[s][v]) ELSE versions[s][v]]]

\* Slip: the snapshot gives the current text to any older revision without one.
SnapshotTextsAnyRevision ==
  [s \in Students |-> [v \in Revisions |->
     IF versions[s][v] = NoVersion /\ v <= rev[s]
       THEN Legacy(text[s]) ELSE versions[s][v]]]

\* snapshotRound's second statement: every current text gets a version.
SnapshotTexts ==
  [s \in Students |-> [v \in Revisions |->
     IF versions[s][v] = NoVersion /\ v = rev[s]
       THEN Legacy(text[s]) ELSE versions[s][v]]]

\* Slip: saveResearchSubmission lets any changed text through.
ResearchWritesUnasked(s, t) == open /\ text[s] # t

\* saveResearchSubmission changes the row: the first text, or a text that
\* differs once revision is allowed.
ResearchWrites(s, t) ==
  open /\ (text[s] = NoText \/ (text[s] # t /\ allowed[s]))

\* saveMaxboxSubmission changes the row: the first text, or one that differs.
MaxboxWrites(s, t) == open /\ text[s] # t

\* Both batches accept, and so answer with success, if the text is now stored.
Accepts(s, t) == open /\ text'[s] = t

\* Slip: only the batch that changes the text registers a run.
RegisterRunIfChanged(s, v, t) ==
  IF runs[s][v] = NoText /\ text[s] # t THEN [runs EXCEPT ![s][v] = t] ELSE runs

\* INSERT INTO jev_auto_runs for the latest revision, whichever batch stored it.
RegisterRun(s, v, t) ==
  IF runs[s][v] = NoText THEN [runs EXCEPT ![s][v] = t] ELSE runs

\* Request r after a change of the row of s it cannot know of.
Overtake(r, s, labels) ==
  [req[r] EXCEPT !.overtaken = @ \/ (req[r].student = s /\ req[r].pc \in labels)]

GoTo(q, label) == req' = [req EXCEPT ![q].pc = label]

-----------------------------------------------------------------------------
(* The request.                                                            *)

\* The route reads the open round.
Receive(q, s, t, reason) ==
  /\ req[q].pc = "new"
  /\ req' = [req EXCEPT ![q] =
               [pc |-> IF open THEN "snapshot" ELSE "failed", student |-> s,
                text |-> t, reason |-> reason, wrote |-> FALSE,
                overtaken |-> FALSE]]
  /\ UNCHANGED <<open, allowed, store>>

\* saveResearchSubmission calls snapshotRound, whose batch and statement are
\* two transactions.
CopyRuns(q) ==
  /\ req[q].pc = "snapshot"
  /\ versions' = SnapshotRuns
  /\ GoTo(q, "copy")
  /\ UNCHANGED <<open, allowed, text, rev, runs, items>>

CopyTexts(q) ==
  /\ req[q].pc = "copy"
  /\ versions' = SnapshotTexts
  /\ GoTo(q, "check")
  /\ UNCHANGED <<open, allowed, text, rev, runs, items>>

\* The old text is read: to change it the request must give a reason.
CheckReason(q) ==
  LET old == text[req[q].student]
  IN  /\ req[q].pc = "check"
      /\ GoTo(q, IF old \notin {NoText, req[q].text} /\ ~req[q].reason
                   THEN "failed" ELSE "research")
      /\ UNCHANGED <<open, allowed, store>>

\* saveResearchSubmission's batch; it fails unless the text is now stored.
SaveResearch(q) ==
  LET s == req[q].student
      t == req[q].text
      writes == ResearchWrites(s, t)
      row == [text |-> t, reason |-> req[q].reason, origin |-> "submitted"]
  IN  /\ req[q].pc = "research"
      /\ rev[s] < MaxRev
      /\ text' = IF writes THEN [text EXCEPT ![s] = t] ELSE text
      /\ rev' = IF writes THEN [rev EXCEPT ![s] = @ + 1] ELSE rev
      /\ versions' = IF Accepts(s, t) THEN Insert(versions, s, rev'[s], row) ELSE versions
      /\ req' = [req EXCEPT ![q].wrote = writes,
                            ![q].pc = IF ~Accepts(s, t) THEN "failed"
                                      ELSE IF Maxbox THEN "maxbox" ELSE "ok"]
      /\ UNCHANGED <<open, allowed, runs, items>>

\* saveMaxboxSubmission's batch: stores the text again if another request has
\* changed it or the teacher deleted it, and registers the run of the latest revision.
SaveMaxbox(q) ==
  LET s == req[q].student
      t == req[q].text
      writes == MaxboxWrites(s, t)
  IN  /\ req[q].pc = "maxbox"
      /\ rev[s] < MaxRev
      /\ text' = IF writes THEN [text EXCEPT ![s] = t] ELSE text
      /\ rev' = IF writes THEN [rev EXCEPT ![s] = @ + 1] ELSE rev
      /\ runs' = IF Accepts(s, t) THEN RegisterRun(s, rev'[s], t) ELSE runs
      /\ req' = [r \in Requests |->
                   IF r = q
                     THEN [req[q] EXCEPT !.wrote = @ \/ writes, !.overtaken = FALSE,
                                         !.pc = IF Accepts(s, t) THEN "ok" ELSE "failed"]
                     ELSE IF writes /\ req[q].overtaken
                       THEN Overtake(r, s, {"maxbox"}) ELSE req[r]]
      /\ UNCHANGED <<open, allowed, versions, items>>

\* The isolate dies at an await: no answer.
Crash(q) ==
  /\ req[q].pc \in Steps
  /\ GoTo(q, "dead")
  /\ UNCHANGED <<open, allowed, store>>

-----------------------------------------------------------------------------
(* The others.                                                             *)

\* The teacher opens the submission for revision, or the last assigned peer
\* review of it is completed; both need an open round, and neither is undone.
Allow(s) ==
  /\ open /\ text[s] # NoText /\ ~allowed[s]
  /\ allowed' = [allowed EXCEPT ![s] = TRUE]
  /\ UNCHANGED <<open, store, req>>

\* The teacher closes the round.
CloseRound ==
  /\ open
  /\ open' = FALSE
  /\ UNCHANGED <<allowed, store, req>>

\* deleteWarmupSubmission, whatever the status of the round: the row goes with
\* its versions, its runs, its job items and the rows ALLOWED reads.
Delete(s) ==
  LET nothing == [v \in Revisions |-> NoText]
  IN  /\ text[s] # NoText
      /\ text' = [text EXCEPT ![s] = NoText]
      /\ rev' = [rev EXCEPT ![s] = 0]
      /\ versions' = [versions EXCEPT ![s] = [v \in Revisions |-> NoVersion]]
      /\ runs' = [runs EXCEPT ![s] = nothing]
      /\ items' = [items EXCEPT ![s] = nothing]
      /\ allowed' = [allowed EXCEPT ![s] = FALSE]
      /\ req' = [q \in Requests |-> Overtake(q, s, {"maxbox", "ok"})]
      /\ UNCHANGED open

\* The teacher starts a job of a closed round: an item of each submission.
CreateJob ==
  /\ ~open
  /\ items' = [s \in Students |-> [v \in Revisions |->
                 IF v = rev[s] THEN text[s] ELSE items[s][v]]]
  /\ UNCHANGED <<open, allowed, text, rev, versions, runs, req>>

\* snapshotRound, called by a page that shows the research view.
ViewRuns ==
  /\ versions' = SnapshotRuns
  /\ UNCHANGED <<open, allowed, text, rev, runs, items, req>>

ViewTexts ==
  /\ versions' = SnapshotTexts
  /\ UNCHANGED <<open, allowed, text, rev, runs, items, req>>

-----------------------------------------------------------------------------
Init ==
  /\ open = TRUE
  /\ allowed = [s \in Students |-> FALSE]
  /\ text = [s \in Students |-> NoText]
  /\ rev = [s \in Students |-> 0]
  /\ versions = [s \in Students |-> [v \in Revisions |-> NoVersion]]
  /\ runs = [s \in Students |-> [v \in Revisions |-> NoText]]
  /\ items = [s \in Students |-> [v \in Revisions |-> NoText]]
  /\ req = [q \in Requests |-> NewRequest]

Serve(q) ==
  \/ \E s \in Students, t \in Texts, reason \in BOOLEAN : Receive(q, s, t, reason)
  \/ CopyRuns(q) \/ CopyTexts(q) \/ CheckReason(q)
  \/ SaveResearch(q) \/ SaveMaxbox(q) \/ Crash(q)

Next ==
  \/ \E q \in Requests : Serve(q)
  \/ \E s \in Students : Allow(s) \/ Delete(s)
  \/ CloseRound \/ CreateJob \/ ViewRuns \/ ViewTexts

Spec == Init /\ [][Next]_vars

-----------------------------------------------------------------------------
(* Properties.                                                             *)

\* A first submission stays as it is until its reviews are in, the teacher opens
\* it or deletes it, although saveMaxboxSubmission does not ask whether revision
\* is allowed: its text got past saveResearchSubmission and is the stored one,
\* unless the row was deleted in between.  Only a request overtaken so can
\* replace a first text that was stored since, and the request it replaces can
\* put its own back, each with the text it came with.
FirstTextFrozen ==
  [][\A s \in Students :
       text'[s] \notin {text[s], NoText} =>
         \/ text[s] = NoText
         \/ allowed[s]
         \/ \E q \in Requests :
              /\ req[q].pc = "maxbox" /\ req[q].overtaken /\ req[q].student = s
              /\ req'[q].pc = "ok" /\ text'[s] = req[q].text]_vars

\* The history of a submission has no gap and does not contradict itself: each
\* revision has a version, a run or an item to restore it from, these never hold
\* different texts, and the latest is the stored text, however the requests of
\* the student's tabs and the teacher's deletions interleave.
HistoryComplete ==
  \A s \in Students : \A v \in 1..rev[s] :
    LET recorded == {versions[s][v].text, runs[s][v], items[s][v]} \ {NoText}
    IN  \E t \in Texts : recorded = {t} /\ (v = rev[s] => t = text[s])

\* A text whose submission was answered with success in a maxbox round has a
\* run, also when the first of the two transactions had stored it already,
\* unless the teacher deleted the submission since.
AcknowledgedIsGraded ==
  \A q \in Requests :
    Maxbox /\ req[q].pc = "ok" /\ ~req[q].overtaken =>
      \E v \in Revisions : runs[req[q].student][v] = req[q].text

\* "There is never a saved revision without its run" (jevAuto.ts, and README:
\* the run is registered in the transaction that stores the submission).  Asked
\* only when no request is under way.
SavedRevisionHasRun ==
  (\A q \in Requests : req[q].pc \notin Steps) =>
    \A s \in Students : rev[s] > 0 => runs[s][rev[s]] # NoText

\* "If the round closes just before the save, nothing changes and the request
\* is answered with failure" (README).
FailureChangesNothing ==
  \A q \in Requests : req[q].pc = "failed" => ~req[q].wrote

\* A submitted revision after the first comes with a reason (docs: the student
\* revises with a reason).
RevisionHasReason ==
  \A s \in Students : \A v \in Revisions \ {1} :
    versions[s][v].origin = "submitted" => versions[s][v].reason
=============================================================================
