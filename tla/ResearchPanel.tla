---------------------------- MODULE ResearchPanel ----------------------------
(* The research panel of one round (components/write/ResearchPanel.tsx): it   *)
(* polls the student's record, asks for the AI feedback of the last version   *)
(* when that is due, and saves what the student thinks of it. Loads started   *)
(* by the timer, by an ask and by a note overlap and answer in any order; a   *)
(* load is made of several queries. A row's claim is ResearchAI's; here a     *)
(* running row whose request died becomes "expired". Messages are left out.   *)
EXTENDS Integers, FiniteSets

CONSTANTS
  MaxRev,      \* versions of the text
  Reviewers,   \* how many reviews the ring assigns
  None,
  MaxOf,       \* bound on what the timer, the asks, the notes have under way
  MaxWire,     \* bound on all of it
  MaxFaults    \* bound on lost requests, failed calls and full slots

VARIABLES
  open, rev, reviews, override, \* the round; versions; reviews not yet done
  ai, stored,                   \* per version: AI row, the saved note
  view, draft, busy,
  due, hot,                     \* the effect is to run; 4.5 s have not passed
  wire, faults

round == <<open, rev, reviews, override>>
server == <<round, ai, stored>>
effect == <<due, hot>>
vars == <<server, view, draft, busy, effect, wire, faults>>

Versions == 1..MaxRev
NotAssigned == -1
Status == {"none", "queued", "running", "expired", "failed", "completed"}
\* A note is named by the version it was written about; 0 is an empty one.
Notes == 0..MaxRev
Views == [open : BOOLEAN, rev : Versions, ai : Status, note : Notes, can : BOOLEAN]
Allowed == override \/ reviews = 0
Of(k, o) == {q \in wire : q.kind = k /\ q.of = o}
Room(o) == Cardinality({q \in wire : q.of = o}) < MaxOf[o] /\ Cardinality(wire) < MaxWire
\* "of": what waits for the answer.
Request(kind, of, v, note) ==
  [kind |-> kind, of |-> of, ver |-> v, note |-> note, stage |-> "sent", ok |-> FALSE, view |-> None]
Load(of) == Request("load", of, 0, 0)
Answered(q, ok, w) == (wire \ {q}) \cup {[q EXCEPT !.stage = "done", !.ok = ok, !.view = w]}
-----------------------------------------------------------------------------
Init ==
  /\ open = TRUE /\ rev = 1 /\ reviews = NotAssigned /\ override = FALSE
  /\ ai = [v \in Versions |-> "none"] /\ stored = [v \in Versions |-> 0]
  /\ view = None /\ draft = None /\ busy = FALSE
  /\ due = FALSE /\ hot = FALSE
  /\ wire = {Load("poll")} /\ faults = 0

\* Others: the ring is made, peers review, the teacher, the student's revision.
World ==
  /\ \/ open /\ reviews = NotAssigned /\ reviews' = Reviewers /\ UNCHANGED <<open, rev, override>>
     \/ open /\ reviews > 0 /\ reviews' = reviews - 1 /\ UNCHANGED <<open, rev, override>>
     \/ ~ override /\ override' = TRUE /\ UNCHANGED <<open, rev, reviews>>
     \/ open /\ Allowed /\ rev < MaxRev /\ rev' = rev + 1 /\ UNCHANGED <<open, reviews, override>>
     \/ open /\ open' = FALSE /\ UNCHANGED <<rev, reviews, override>>
  /\ UNCHANGED <<ai, stored, view, draft, busy, effect, wire, faults>>
\* The lease of a request that died runs out.
Expire(v) ==
  /\ ai[v] = "running" /\ \A q \in wire : ~(q.stage = "work" /\ q.ver = v)
  /\ ai' = [ai EXCEPT ![v] = "expired"]
  /\ UNCHANGED <<round, stored, view, draft, busy, effect, wire, faults>>

Poll == /\ Room("poll") /\ wire' = wire \cup {Load("poll")}
        /\ UNCHANGED <<server, view, draft, busy, effect, faults>>

\* Slip: a row that is completed is asked for again.
NeedsRunAlways == view.open /\ view.ai # "failed"
\* By the page's clock a running row's lease may seem over, or be over by now.
NeedsRun == view.open /\ view.ai \in {"none", "queued", "expired"}
SeemsOver == view.open /\ view.ai = "running"

execute(v) == /\ busy' = TRUE
              /\ wire' = wire \cup {Request("ask", "ask", v, 0)}
\* The received reviews, with the link to a revision.
Offered == view # None /\ view.can

\* The effect after each view.
Effect ==
  /\ due /\ due' = FALSE
  /\ \/ (NeedsRun \/ SeemsOver) /\ ~ hot /\ Room("ask") /\ hot' = TRUE /\ execute(view.rev)
     \/ ~(NeedsRun /\ ~ hot) /\ UNCHANGED <<hot, busy, wire>>
  /\ UNCHANGED <<server, view, draft, faults>>
Cool == /\ hot /\ hot' = FALSE
        /\ UNCHANGED <<server, view, draft, busy, due, wire, faults>>
\* "Read again".
Retry ==
  /\ view # None /\ view.ai = "failed" /\ ~ busy /\ view.open /\ Room("ask")
  /\ execute(view.rev)
  /\ UNCHANGED <<server, view, draft, effect, faults>>

\* Slip: the draft is shown whatever version it was typed for.
AnyDraft == IF draft # None THEN draft.note ELSE view.note
note == IF draft # None /\ draft.ver = view.rev THEN draft.note ELSE view.note
\* The form: the text box, and the check box that keeps the text.
Form == view # None /\ view.open /\ view.ai = "completed"
Type(n) ==
  /\ Form /\ n \in {view.rev, note} /\ MaxOf["note"] > 0 \* bound
  /\ draft' = [ver |-> view.rev, note |-> n]
  /\ UNCHANGED <<server, view, busy, effect, wire, faults>>
saveNote ==
  /\ Form /\ Room("note")
  /\ wire' = wire \cup {Request("note", "note", view.rev, note)}
  /\ UNCHANGED <<server, view, draft, busy, effect, faults>>
-----------------------------------------------------------------------------
\* researchView reads the round and the versions first ...
ReadVersions(q) ==
  /\ q.kind = "load" /\ q.stage = "sent"
  /\ wire' = (wire \ {q}) \cup {[q EXCEPT !.stage = "half",
       !.view = [open |-> open, rev |-> rev, ai |-> ai[rev], note |-> stored[rev], can |-> FALSE]]}
  /\ UNCHANGED <<ai, stored>>
\* Slip: a round with no reviews assigned has none that is not completed.
CanReviseEarly(o) == o /\ (override \/ reviews <= 0)
canRevise(o) == o /\ (override \/ reviews = 0)
\* ... and then the reviews and the teacher's override.
ReadReviews(q) ==
  /\ q.kind = "load" /\ q.stage = "half"
  /\ wire' = Answered(q, TRUE, [q.view EXCEPT !.can = canRevise(q.view.open)])
  /\ UNCHANGED <<ai, stored>>
SaveNote(q) ==
  /\ q.kind = "note" /\ q.stage = "sent" /\ wire' = Answered(q, open, None)
  /\ stored' = IF open THEN [stored EXCEPT ![q.ver] = q.note] ELSE stored
  /\ UNCHANGED ai
Claim(q) ==
  /\ q.kind = "ask" /\ q.stage = "sent" /\ UNCHANGED stored
  /\ IF open /\ ai[q.ver] \in {"none", "queued", "failed", "expired"}
       THEN /\ ai' = [ai EXCEPT ![q.ver] = "running"]
            /\ wire' = (wire \ {q}) \cup {[q EXCEPT !.stage = "work"]}
       ELSE wire' = Answered(q, open, None) /\ UNCHANGED ai
Complete(q) ==
  /\ q.stage = "work" /\ ai' = [ai EXCEPT ![q.ver] = "completed"]
  /\ wire' = Answered(q, TRUE, None) /\ UNCHANGED stored
Serve(q) ==
  /\ q \in wire
  /\ ReadVersions(q) \/ ReadReviews(q) \/ SaveNote(q) \/ Claim(q) \/ Complete(q)
  /\ UNCHANGED <<round, view, draft, busy, effect, faults>>
\* The call failed, or no slot was free.
Fail(q, st) ==
  /\ q \in wire /\ q.stage = "work" /\ faults < MaxFaults /\ faults' = faults + 1
  /\ ai' = [ai EXCEPT ![q.ver] = st] /\ wire' = Answered(q, TRUE, None)
  /\ UNCHANGED <<round, stored, view, draft, busy, effect>>
-----------------------------------------------------------------------------
\* Slip: only a successful answer ends the wait.
ReleaseIfOk(q, ok) == busy' = IF q.of = "ask" /\ ok THEN FALSE ELSE busy
\* The finally of execute; other loads leave the flag alone.
Release(q, ok) == busy' = IF q.of = "ask" THEN FALSE ELSE busy

\* Slip: only a view with a later version replaces the one that is shown.
SetOnce(v) == view' = IF view = None \/ v.rev > view.rev THEN v ELSE view
setView(v) == view' = v
GotLoad(q) ==
  /\ q.kind = "load" /\ wire' = wire \ {q}
  /\ setView(q.view) /\ due' = TRUE /\ Release(q, TRUE)
\* An ask or a note that was taken loads the record.
GotOk(q) ==
  /\ q.kind # "load" /\ q.ok /\ wire' = (wire \ {q}) \cup {Load(q.of)}
  /\ UNCHANGED <<view, due, busy>>
GotRefusal(q) ==
  /\ q.kind # "load" /\ ~ q.ok /\ wire' = wire \ {q}
  /\ Release(q, FALSE) /\ UNCHANGED <<view, due>>
Got(q) == /\ q \in wire /\ q.stage = "done"
          /\ GotLoad(q) \/ GotOk(q) \/ GotRefusal(q)
          /\ UNCHANGED <<server, draft, hot, faults>>
Lose(q) ==
  /\ q \in wire /\ faults < MaxFaults /\ faults' = faults + 1 /\ wire' = wire \ {q}
  /\ Release(q, FALSE)
  /\ UNCHANGED <<server, view, draft, effect>>

Next ==
  \/ World \/ Poll \/ Effect \/ Cool \/ Retry \/ saveNote
  \/ \E v \in Versions : Expire(v)
  \/ \E n \in Notes : Type(n)
  \/ \E q \in wire : Serve(q) \/ Got(q) \/ Lose(q) \/ \E st \in {"failed", "queued"} : Fail(q, st)
Spec == Init /\ [][Next]_vars

-----------------------------------------------------------------------------
TypeOK ==
  /\ rev \in Versions /\ reviews \in NotAssigned..Reviewers
  /\ ai \in [Versions -> Status]
  /\ view \in Views \cup {None} /\ (draft # None => draft.note \in Notes)
  /\ due => view # None
  \* "Reading" stays on the page only while a request may still end it.
  /\ busy => \E q \in wire : q.of = "ask"

\* A note is stored with the version it was written about, although the text
\* may be revised between two polls and an older view may return meanwhile.
NotesStay == \A v \in Versions : stored[v] \in {0, v}

\* The panel offers a revision only when the server would take it, from queries
\* made one after the other and shown at any later time.
OfferedIsAllowed == Offered => Allowed

\* While the round is open, the last version's feedback is shown, or a failure
\* to retry.
FeedbackShown ==
  open => (view # None /\ view.rev = rev /\ view.ai \in {"completed", "failed"})
\* Once it is completed the page does not ask.
Quiet == ai[rev] = "completed" => Of("ask", "ask") = {}
=============================================================================
