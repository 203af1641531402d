-------------------------- MODULE SubmitRouteProofs -------------------------
(***************************************************************************)
(* Proofs about SubmitRoute for any number of students, texts, requests    *)
(* and revisions.                                                          *)
(*                                                                         *)
(* saveMaxboxSubmission changes a text without asking whether revision is  *)
(* allowed.  The first text is frozen nevertheless, because a request gets *)
(* to that batch only after saveResearchSubmission has accepted its text,  *)
(* and from then on (Passed) that text is the stored one unless revision   *)
(* was allowed and another request has replaced it, or the request was     *)
(* overtaken by a deletion of the row.  The history has no                 *)
(* gap because nothing is on record for a revision yet to come (Beyond),   *)
(* so that whichever batch makes a revision puts its own text on record.   *)
(***************************************************************************)
EXTENDS SubmitRoute, TLAPS

\* A submission has a text as soon as it has a revision.
Rows == \A s \in Students : rev[s] = 0 <=> text[s] = NoText

\* Nothing is on record for a revision that is not there yet.
Beyond ==
  \A s \in Students, v \in Revisions :
    v > rev[s] => versions[s][v] = NoVersion /\ runs[s][v] = NoText /\ items[s][v] = NoText

\* A request between its two batches that was not overtaken: its submission
\* exists, and holds its text or may be revised.
Passed ==
  \A q \in Requests :
    req[q].pc = "maxbox" /\ ~req[q].overtaken =>
      LET s == req[q].student
      IN  text[s] # NoText /\ (text[s] = req[q].text \/ allowed[s])

\* HistoryComplete, one revision at a time: t is the text of revision v.
TextOf(s, v, t) ==
  /\ versions[s][v] = NoVersion \/ versions[s][v].text = t
  /\ runs[s][v] = NoText \/ runs[s][v] = t
  /\ items[s][v] = NoText \/ items[s][v] = t
  /\ ~(versions[s][v] = NoVersion /\ runs[s][v] = NoText /\ items[s][v] = NoText)
  /\ v = rev[s] => t = text[s]

Recorded ==
  \A s \in Students, v \in Revisions :
    v <= rev[s] => \E t \in Texts : TextOf(s, v, t)

IInv == TypeOK /\ Rows /\ Beyond /\ Passed /\ Recorded

-----------------------------------------------------------------------------

LEMMA InitInv == Init => IInv
  <1> SUFFICES ASSUME Init PROVE IInv
    OBVIOUS
  <1>1. NewRequest \in Request
    BY SetAssumption DEF NewRequest, Request
  <1>2. TypeOK
    BY <1>1, RoundAssumption DEF Init, TypeOK, MaybeText
  <1>3. Rows /\ Beyond
    BY DEF Init, Rows, Beyond
  <1>4. Passed
    BY DEF Init, Passed, NewRequest
  <1>5. Recorded
    BY DEF Init, Recorded, Revisions
  <1>6. QED
    BY <1>2, <1>3, <1>4, <1>5 DEF IInv

\* snapshotRound's batch keeps the invariant.
LEMMA SnapshotRunsInv ==
  ASSUME IInv, versions' = SnapshotRuns, req' \in [Requests -> Request],
         UNCHANGED <<open, allowed, text, rev, runs, items>>
  PROVE  TypeOK' /\ Rows' /\ Beyond' /\ Recorded'
  <1> USE DEF IInv
  <1>1. ASSUME NEW s \in Students, NEW v \in Revisions
        PROVE  /\ versions'[s][v] \in Version \cup {NoVersion}
               /\ versions[s][v] # NoVersion => versions'[s][v] = versions[s][v]
               /\ versions[s][v] = NoVersion /\ runs[s][v] = NoText /\ items[s][v] = NoText
                    => versions'[s][v] = NoVersion
               /\ versions[s][v] = NoVersion /\ runs[s][v] # NoText
                    => versions'[s][v] = Legacy(runs[s][v])
               /\ versions[s][v] = NoVersion /\ runs[s][v] = NoText /\ items[s][v] # NoText
                    => versions'[s][v] = Legacy(items[s][v])
    BY DEF SnapshotRuns, TypeOK, Legacy, Version, MaybeText
  <1>2. TypeOK'
    BY <1>1 DEF TypeOK, SnapshotRuns
  <1>3. Rows' /\ Beyond'
    BY <1>1 DEF Rows, Beyond
  <1>4. Recorded'
    <2> SUFFICES ASSUME NEW s \in Students, NEW v \in Revisions, v <= rev[s]
                 PROVE  \E t \in Texts : TextOf(s, v, t)'
      BY DEF Recorded
    <2>1. PICK t \in Texts : TextOf(s, v, t)
      BY DEF Recorded
    <2>2. \A x : Legacy(x).text = x /\ Legacy(x) # NoVersion
      BY DEF Legacy, NoVersion
    <2>3. TextOf(s, v, t)'
      BY ONLY <1>1, <2>1, <2>2, UNCHANGED <<text, rev, runs, items>>, s \in Students,
         v \in Revisions DEF TextOf
    <2>4. QED
      BY <2>3
  <1>5. QED
    BY <1>2, <1>3, <1>4

\* snapshotRound's second statement keeps the invariant.
LEMMA SnapshotTextsInv ==
  ASSUME IInv, versions' = SnapshotTexts, req' \in [Requests -> Request],
         UNCHANGED <<open, allowed, text, rev, runs, items>>
  PROVE  TypeOK' /\ Rows' /\ Beyond' /\ Recorded'
  <1> USE DEF IInv
  <1>1. ASSUME NEW s \in Students, NEW v \in Revisions
        PROVE  /\ versions'[s][v] \in Version \cup {NoVersion}
               /\ versions[s][v] # NoVersion \/ v # rev[s]
                    => versions'[s][v] = versions[s][v]
               /\ versions[s][v] = NoVersion /\ v = rev[s]
                    => versions'[s][v] = Legacy(text[s])
    <2>1. v = rev[s] => text[s] \in Texts
      BY DEF Rows, TypeOK, MaybeText, Revisions
    <2>2. versions'[s][v] = IF versions[s][v] = NoVersion /\ v = rev[s]
                              THEN Legacy(text[s]) ELSE versions[s][v]
      BY DEF SnapshotTexts
    <2>3. v = rev[s] => Legacy(text[s]) \in Version
      BY <2>1 DEF Legacy, Version
    <2>4. versions[s][v] \in Version \cup {NoVersion}
      BY DEF TypeOK
    <2>5. QED
      BY <2>2, <2>3, <2>4
  <1>2. TypeOK'
    BY <1>1 DEF TypeOK, SnapshotTexts
  <1>3. Rows' /\ Beyond'
    <2>1. Rows'
      BY DEF Rows
    <2>2. ASSUME NEW s \in Students, NEW v \in Revisions, v > rev[s]
          PROVE  versions'[s][v] = NoVersion /\ runs[s][v] = NoText /\ items[s][v] = NoText
      <3>1. v # rev[s]
        BY <2>2 DEF TypeOK, Revisions
      <3>2. QED
        BY <1>1, <2>2, <3>1 DEF Beyond
    <2>3. QED
      BY <2>1, <2>2 DEF Beyond
  <1>4. Recorded'
    <2> SUFFICES ASSUME NEW s \in Students, NEW v \in Revisions, v <= rev[s]
                 PROVE  \E t \in Texts : TextOf(s, v, t)'
      BY DEF Recorded
    <2>1. PICK t \in Texts : TextOf(s, v, t)
      BY DEF Recorded
    <2>2. \A x : Legacy(x).text = x /\ Legacy(x) # NoVersion
      BY DEF Legacy, NoVersion
    <2>3. TextOf(s, v, t)'
      BY ONLY <1>1, <2>1, <2>2, UNCHANGED <<text, rev, runs, items>>, s \in Students,
         v \in Revisions DEF TextOf
    <2>4. QED
      BY <2>3
  <1>5. QED
    BY <1>2, <1>3, <1>4

\* saveResearchSubmission's batch keeps the invariant.
LEMMA SaveResearchInv ==
  ASSUME IInv, NEW q \in Requests, SaveResearch(q)
  PROVE  IInv'
  <1>0. PICK s \in Students, t \in Texts, why \in BOOLEAN :
               s = req[q].student /\ t = req[q].text /\ why = req[q].reason
    BY DEF IInv, TypeOK, Request
  <1> DEFINE w == ResearchWrites(s, t)
             row == [text |-> t, reason |-> why, origin |-> "submitted"]
  <1>1. /\ t # NoText /\ rev[s] \in 0..MaxRev /\ rev[s] < MaxRev
        /\ row \in Version /\ row.text = t /\ row # NoVersion
    BY <1>0, SetAssumption DEF IInv, TypeOK, SaveResearch, Version, NoVersion
  <1>2. /\ text' = IF w THEN [text EXCEPT ![s] = t] ELSE text
        /\ rev' = IF w THEN [rev EXCEPT ![s] = @ + 1] ELSE rev
        /\ versions' = IF Accepts(s, t) THEN Insert(versions, s, rev'[s], row)
                                        ELSE versions
        /\ UNCHANGED <<open, allowed, runs, items>>
    BY <1>0 DEF SaveResearch
  <1>3. /\ w => text'[s] = t /\ rev'[s] = rev[s] + 1 /\ open
        /\ ~w => text'[s] = text[s] /\ rev'[s] = rev[s]
        /\ \A x \in Students \ {s} : text'[x] = text[x] /\ rev'[x] = rev[x]
    BY <1>1, <1>2 DEF IInv, TypeOK, ResearchWrites
  <1>4. Accepts(s, t) => rev'[s] \in Revisions
    BY <1>1, <1>3, RoundAssumption DEF Accepts, IInv, Rows, TypeOK, Revisions
  <1>5. ASSUME NEW x \in Students, NEW v \in Revisions
        PROVE  versions'[x][v] = IF /\ Accepts(s, t) /\ x = s /\ v = rev'[s]
                                    /\ versions[x][v] = NoVersion
                                   THEN row ELSE versions[x][v]
    BY <1>1, <1>2, <1>4 DEF Insert, IInv, TypeOK
  <1>6. TypeOK'
    <2>1. text' \in [Students -> MaybeText] /\ rev' \in [Students -> 0..MaxRev]
      BY <1>1, <1>2, RoundAssumption DEF IInv, TypeOK, MaybeText
    <2>2. versions' \in [Students -> [Revisions -> Version \cup {NoVersion}]]
      BY <1>1, <1>2, <1>4 DEF IInv, TypeOK, Insert
    <2>3. req' \in [Requests -> Request]
      <3>1. w \in BOOLEAN
        BY DEF ResearchWrites, IInv, TypeOK
      <3>2. PICK label \in {"failed", "maxbox", "ok"} :
              req' = [req EXCEPT ![q].wrote = w, ![q].pc = label]
        BY <1>0 DEF SaveResearch
      <3>3. QED
        BY <3>1, <3>2 DEF IInv, TypeOK, Request, Steps, Answers
    <2>4. QED
      BY <1>2, <2>1, <2>2, <2>3 DEF IInv, TypeOK
  <1>7. Rows'
    BY <1>1, <1>3 DEF IInv, Rows, TypeOK
  <1>8. Beyond'
    <2> SUFFICES ASSUME NEW x \in Students, NEW v \in Revisions, v > rev'[x]
                 PROVE  versions'[x][v] = NoVersion /\ runs[x][v] = NoText /\ items[x][v] = NoText
      BY <1>2 DEF Beyond
    <2>1. v > rev[x] /\ (x = s => v # rev'[s])
      BY <1>1, <1>3 DEF IInv, TypeOK, Revisions
    <2>2. QED
      BY <1>5, <2>1 DEF IInv, Beyond
  <1>9. Passed'
    <2> SUFFICES ASSUME NEW r \in Requests, req'[r].pc = "maxbox", ~req'[r].overtaken
                 PROVE  LET x == req'[r].student
                        IN  /\ text'[x] # NoText
                            /\ text'[x] = req'[r].text \/ allowed[x]
      BY <1>2 DEF Passed
    <2>1. CASE r = q
      BY <1>0, <1>1, <2>1 DEF SaveResearch, Accepts, IInv, TypeOK, Request
    <2>2. CASE r # q
      <3>1. req'[r] = req[r] /\ req[r].student \in Students
        BY <2>2 DEF SaveResearch, IInv, TypeOK, Request
      <3>2. LET x == req[r].student
            IN  text[x] # NoText /\ (text[x] = req[r].text \/ allowed[x])
        BY <3>1 DEF IInv, Passed
      <3>3. QED
        BY <1>1, <1>3, <3>1, <3>2 DEF ResearchWrites
    <2>3. QED
      BY <2>1, <2>2
  <1>10. Recorded'
    <2> SUFFICES ASSUME NEW x \in Students, NEW v \in Revisions, v <= rev'[x]
                 PROVE  \E u \in Texts : TextOf(x, v, u)'
      BY DEF Recorded
    <2>0. rev[x] \in Nat /\ v \in Nat
      BY DEF IInv, TypeOK, Revisions
    <2>1. CASE v <= rev[x]
      <3>1. PICK u \in Texts : TextOf(x, v, u)
        BY <2>1 DEF IInv, Recorded
      <3>2. TextOf(x, v, u)'
        BY <1>1, <1>2, <1>3, <1>5, <2>0, <2>1, <3>1 DEF TextOf, Accepts
      <3>3. QED
        BY <3>2
    <2>2. CASE v > rev[x]
      <3>1. x = s /\ w /\ v = rev'[s]
        BY <1>1, <1>3, <2>0, <2>2
      <3>2. versions[s][v] = NoVersion /\ runs[s][v] = NoText /\ items[s][v] = NoText /\ Accepts(s, t)
        BY <1>1, <1>3, <2>2, <3>1 DEF IInv, Beyond, Accepts
      <3>3. TextOf(x, v, t)'
        BY <1>1, <1>2, <1>3, <1>5, <3>1, <3>2 DEF TextOf
      <3>4. QED
        BY <1>1, <3>3
    <2>3. QED
      BY <2>0, <2>1, <2>2 DEF IInv, TypeOK
  <1>11. QED
    BY <1>6, <1>7, <1>8, <1>9, <1>10 DEF IInv

\* A request that is overtaken stays a request at its step.
LEMMA OvertakeType ==
  ASSUME NEW r, NEW s, NEW labels, req[r] \in Request
  PROVE  /\ Overtake(r, s, labels) \in Request
         /\ Overtake(r, s, labels).pc = req[r].pc
         /\ Overtake(r, s, labels).student = req[r].student
         /\ Overtake(r, s, labels).text = req[r].text
         /\ Overtake(r, s, labels).overtaken =
              (req[r].overtaken \/ (req[r].student = s /\ req[r].pc \in labels))
  <1> DEFINE b == req[r].overtaken \/ (req[r].student = s /\ req[r].pc \in labels)
  <1>1. b \in BOOLEAN
    BY DEF Request
  <1>2. Overtake(r, s, labels) = [req[r] EXCEPT !.overtaken = b]
    BY DEF Overtake
  <1> HIDE DEF b
  <1>3. /\ [req[r] EXCEPT !.overtaken = b] \in Request
        /\ [req[r] EXCEPT !.overtaken = b].pc = req[r].pc
        /\ [req[r] EXCEPT !.overtaken = b].student = req[r].student
        /\ [req[r] EXCEPT !.overtaken = b].text = req[r].text
        /\ [req[r] EXCEPT !.overtaken = b].overtaken = b
    BY <1>1 DEF Request
  <1>4. QED
    BY <1>2, <1>3 DEF b

\* saveMaxboxSubmission's batch keeps the invariant.
LEMMA SaveMaxboxInv ==
  ASSUME IInv, NEW q \in Requests, SaveMaxbox(q)
  PROVE  IInv'
  <1>0. PICK s \in Students, t \in Texts : s = req[q].student /\ t = req[q].text
    BY DEF IInv, TypeOK, Request
  <1> DEFINE w == MaxboxWrites(s, t)
  <1>1. /\ t # NoText /\ rev[s] \in 0..MaxRev /\ rev[s] < MaxRev
    BY <1>0, SetAssumption DEF IInv, TypeOK, SaveMaxbox
  <1>2. /\ text' = IF w THEN [text EXCEPT ![s] = t] ELSE text
        /\ rev' = IF w THEN [rev EXCEPT ![s] = @ + 1] ELSE rev
        /\ runs' = IF Accepts(s, t) THEN RegisterRun(s, rev'[s], t) ELSE runs
        /\ UNCHANGED <<open, allowed, versions, items>>
    BY <1>0 DEF SaveMaxbox
  <1>3. /\ w => text'[s] = t /\ rev'[s] = rev[s] + 1 /\ open
        /\ ~w => text'[s] = text[s] /\ rev'[s] = rev[s]
        /\ \A x \in Students \ {s} : text'[x] = text[x] /\ rev'[x] = rev[x]
    BY <1>1, <1>2 DEF IInv, TypeOK, MaxboxWrites
  <1>4. Accepts(s, t) => rev'[s] \in Revisions
    BY <1>1, <1>3, RoundAssumption DEF Accepts, IInv, Rows, TypeOK, Revisions
  <1>5. ASSUME NEW x \in Students, NEW v \in Revisions
        PROVE  runs'[x][v] = IF /\ Accepts(s, t) /\ x = s /\ v = rev'[s]
                                /\ runs[x][v] = NoText
                               THEN t ELSE runs[x][v]
    BY <1>1, <1>2, <1>4 DEF RegisterRun, IInv, TypeOK
  <1>6. TypeOK'
    <2>1. text' \in [Students -> MaybeText] /\ rev' \in [Students -> 0..MaxRev]
      BY <1>1, <1>2, RoundAssumption DEF IInv, TypeOK, MaybeText
    <2>2. runs' \in [Students -> [Revisions -> MaybeText]]
      BY <1>1, <1>2, <1>4 DEF IInv, TypeOK, RegisterRun, MaybeText
    <2>3. req' \in [Requests -> Request]
      <3>1. w \in BOOLEAN
        BY DEF MaxboxWrites, IInv, TypeOK
      <3>2. ASSUME NEW r \in Requests PROVE req'[r] \in Request
        <4>1. CASE r = q
          <5>1. req[q] \in Request /\ (req[q].wrote \/ w) \in BOOLEAN
            BY <3>1 DEF IInv, TypeOK, Request
          <5>2. \E label \in {"failed", "ok"} :
                  req'[q] = [req[q] EXCEPT !.wrote = req[q].wrote \/ w,
                                           !.overtaken = FALSE, !.pc = label]
            BY <1>0 DEF SaveMaxbox
          <5>3. QED
            BY <4>1, <5>1, <5>2 DEF Request, Answers
        <4>2. CASE r # q
          <5>1. req[r] \in Request
            BY DEF IInv, TypeOK
          <5>2. req'[r] = req[r] \/ req'[r] = Overtake(r, s, {"maxbox"})
            BY <1>0, <4>2 DEF SaveMaxbox
          <5>3. QED
            BY <5>1, <5>2, OvertakeType
        <4>3. QED
          BY <4>1, <4>2
      <3>3. req' = [r \in Requests |-> req'[r]]
        BY DEF SaveMaxbox
      <3>4. QED
        BY <3>2, <3>3
    <2>4. QED
      BY <1>2, <2>1, <2>2, <2>3 DEF IInv, TypeOK
  <1>7. Rows'
    BY <1>1, <1>3 DEF IInv, Rows, TypeOK
  <1>8. Beyond'
    <2> SUFFICES ASSUME NEW x \in Students, NEW v \in Revisions, v > rev'[x]
                 PROVE  versions[x][v] = NoVersion /\ runs'[x][v] = NoText /\ items[x][v] = NoText
      BY <1>2 DEF Beyond
    <2>1. v > rev[x] /\ (x = s => v # rev'[s])
      BY <1>1, <1>3 DEF IInv, TypeOK, Revisions
    <2>2. QED
      BY <1>5, <2>1 DEF IInv, Beyond
  <1>9. Passed'
    <2> SUFFICES ASSUME NEW r \in Requests, req'[r].pc = "maxbox", ~req'[r].overtaken
                 PROVE  LET x == req'[r].student
                        IN  /\ text'[x] # NoText
                            /\ text'[x] = req'[r].text \/ allowed[x]
      BY <1>2 DEF Passed
    <2>1. r # q
      BY DEF SaveMaxbox, IInv, TypeOK, Request
    <2>2. req[r] \in Request /\ req[r].student \in Students
      BY DEF IInv, TypeOK, Request
    <2>3. /\ req'[r].student = req[r].student /\ req'[r].text = req[r].text
          /\ req[r].pc = "maxbox" /\ ~req[r].overtaken
          /\ w /\ req[q].overtaken => req[r].student # s
      BY <1>0, <2>1, <2>2 DEF SaveMaxbox, Overtake, Request
    <2>4. LET x == req[r].student
          IN  text[x] # NoText /\ (text[x] = req[r].text \/ allowed[x])
      BY <2>3 DEF IInv, Passed
    <2>5. CASE w /\ ~req[q].overtaken
      <3>1. allowed[s]
        BY <1>0, <2>5 DEF IInv, Passed, SaveMaxbox, MaxboxWrites
      <3>2. QED
        BY <1>1, <1>2, <1>3, <2>2, <2>3, <2>4, <3>1
    <2>6. CASE w /\ req[q].overtaken
      BY <1>2, <1>3, <2>2, <2>3, <2>4, <2>6
    <2>7. CASE ~w
      BY <1>2, <1>3, <2>2, <2>3, <2>4, <2>7
    <2>8. QED
      BY <2>5, <2>6, <2>7
  <1>10. Recorded'
    <2> SUFFICES ASSUME NEW x \in Students, NEW v \in Revisions, v <= rev'[x]
                 PROVE  \E u \in Texts : TextOf(x, v, u)'
      BY DEF Recorded
    <2>0. rev[x] \in Nat /\ v \in Nat
      BY DEF IInv, TypeOK, Revisions
    <2>1. CASE v <= rev[x]
      <3>1. PICK u \in Texts : TextOf(x, v, u)
        BY <2>1 DEF IInv, Recorded
      <3>2. TextOf(x, v, u)'
        BY <1>1, <1>2, <1>3, <1>5, <2>0, <2>1, <3>1 DEF TextOf, Accepts
      <3>3. QED
        BY <3>2
    <2>2. CASE v > rev[x]
      <3>1. x = s /\ w /\ v = rev'[s]
        BY <1>1, <1>3, <2>0, <2>2
      <3>2. versions[s][v] = NoVersion /\ runs[s][v] = NoText /\ items[s][v] = NoText /\ Accepts(s, t)
        BY <1>1, <1>3, <2>2, <3>1 DEF IInv, Beyond, Accepts
      <3>3. TextOf(x, v, t)'
        BY <1>1, <1>2, <1>3, <1>5, <3>1, <3>2 DEF TextOf
      <3>4. QED
        BY <3>3
    <2>3. QED
      BY <2>0, <2>1, <2>2 DEF IInv, TypeOK
  <1>11. QED
    BY <1>6, <1>7, <1>8, <1>9, <1>10 DEF IInv

\* The teacher's deletion keeps the invariant: it overtakes the requests that
\* are between their batches.
LEMMA DeleteInv ==
  ASSUME IInv, NEW s \in Students, Delete(s)
  PROVE  IInv'
  <1>1. /\ text'[s] = NoText /\ rev'[s] = 0
        /\ \A v \in Revisions : /\ versions'[s][v] = NoVersion
                                /\ runs'[s][v] = NoText /\ items'[s][v] = NoText
        /\ \A x \in Students \ {s} :
             /\ text'[x] = text[x] /\ rev'[x] = rev[x] /\ versions'[x] = versions[x]
             /\ runs'[x] = runs[x] /\ items'[x] = items[x] /\ allowed'[x] = allowed[x]
    BY DEF Delete, IInv, TypeOK
  <1>2. ASSUME NEW r \in Requests
        PROVE  /\ req'[r] \in Request
               /\ req'[r].pc = req[r].pc /\ req'[r].student = req[r].student
               /\ req'[r].text = req[r].text
               /\ ~req'[r].overtaken => ~req[r].overtaken
               /\ req[r].pc = "maxbox" /\ req[r].student = s => req'[r].overtaken
    <2>1. req[r] \in Request /\ req'[r] = Overtake(r, s, {"maxbox", "ok"})
      BY DEF Delete, IInv, TypeOK
    <2> DEFINE o == Overtake(r, s, {"maxbox", "ok"})
    <2>2. /\ o \in Request /\ o.pc = req[r].pc /\ o.student = req[r].student
          /\ o.text = req[r].text
          /\ o.overtaken = (req[r].overtaken
                            \/ (req[r].student = s /\ req[r].pc \in {"maxbox", "ok"}))
      BY <2>1, OvertakeType
    <2> HIDE DEF o
    <2>3. req'[r] = o
      BY <2>1 DEF o
    <2>4. QED
      BY <2>2, <2>3
  <1>3. TypeOK'
    <2>1. req' \in [Requests -> Request]
      BY <1>2 DEF Delete
    <2>2. /\ text' \in [Students -> MaybeText] /\ rev' \in [Students -> 0..MaxRev]
          /\ allowed' \in [Students -> BOOLEAN] /\ open' \in BOOLEAN
      BY RoundAssumption DEF Delete, IInv, TypeOK, MaybeText
    <2>3. /\ versions' \in [Students -> [Revisions -> Version \cup {NoVersion}]]
          /\ runs' \in [Students -> [Revisions -> MaybeText]]
          /\ items' \in [Students -> [Revisions -> MaybeText]]
      BY DEF Delete, IInv, TypeOK, MaybeText
    <2>4. QED
      BY <2>1, <2>2, <2>3 DEF TypeOK
  <1>4. Rows'
    BY <1>1 DEF IInv, Rows
  <1>5. Beyond'
    BY <1>1 DEF IInv, Beyond
  <1>6. Passed'
    <2> SUFFICES ASSUME NEW r \in Requests, req'[r].pc = "maxbox", ~req'[r].overtaken
                 PROVE  LET x == req'[r].student
                        IN  /\ text'[x] # NoText
                            /\ text'[x] = req'[r].text \/ allowed'[x]
      BY DEF Passed
    <2>1. /\ req[r].pc = "maxbox" /\ ~req[r].overtaken
          /\ req[r].student \in Students \ {s}
      BY <1>2 DEF IInv, TypeOK, Request
    <2>2. LET x == req[r].student
          IN  text[x] # NoText /\ (text[x] = req[r].text \/ allowed[x])
      BY <2>1 DEF IInv, Passed
    <2>3. QED
      BY <1>1, <1>2, <2>1, <2>2
  <1>7. Recorded'
    <2> SUFFICES ASSUME NEW x \in Students, NEW v \in Revisions, v <= rev'[x]
                 PROVE  \E u \in Texts : TextOf(x, v, u)'
      BY DEF Recorded
    <2>1. x # s
      BY <1>1 DEF Revisions
    <2>2. PICK u \in Texts : TextOf(x, v, u)
      BY <1>1, <2>1 DEF IInv, Recorded
    <2>3. TextOf(x, v, u)'
      BY <1>1, <2>1, <2>2 DEF TextOf
    <2>4. QED
      BY <2>3
  <1>8. QED
    BY <1>3, <1>4, <1>5, <1>6, <1>7 DEF IInv

\* A teacher's job keeps the invariant: its items hold the current texts.
LEMMA CreateJobInv ==
  ASSUME IInv, CreateJob
  PROVE  IInv'
  <1> USE DEF IInv, CreateJob
  <1>1. ASSUME NEW s \in Students, NEW v \in Revisions
        PROVE  items'[s][v] = IF v = rev[s] THEN text[s] ELSE items[s][v]
    OBVIOUS
  <1>2. TypeOK'
    BY DEF TypeOK
  <1>3. Rows' /\ Passed'
    BY DEF Rows, Passed
  <1>4. Beyond'
    BY <1>1 DEF Beyond, TypeOK, Revisions
  <1>5. Recorded'
    <2> SUFFICES ASSUME NEW s \in Students, NEW v \in Revisions, v <= rev[s]
                 PROVE  \E t \in Texts : TextOf(s, v, t)'
      BY DEF Recorded
    <2>1. PICK t \in Texts : TextOf(s, v, t)
      BY DEF Recorded
    <2>2. t # NoText
      BY SetAssumption
    <2>3. TextOf(s, v, t)'
      BY <1>1, <2>1, <2>2 DEF TextOf
    <2>4. QED
      BY <2>3
  <1>6. QED
    BY <1>2, <1>3, <1>4, <1>5

\* A step that leaves the store alone and sends no request to its second batch
\* keeps the invariant.
LEMMA StoreAloneInv ==
  ASSUME IInv, UNCHANGED store, TypeOK',
         \A s \in Students : allowed[s] => allowed'[s],
         \A r \in Requests : req'[r].pc = "maxbox" => req'[r] = req[r]
  PROVE  IInv'
  <1> USE DEF IInv, store
  <1>1. Rows' /\ Beyond'
    BY DEF Rows, Beyond
  <1>2. Passed'
    BY DEF Passed, TypeOK, Request
  <1>3. Recorded'
    BY DEF Recorded, TextOf
  <1>4. QED
    BY <1>1, <1>2, <1>3

\* Every step keeps the inductive invariant.
LEMMA NextInv == IInv /\ [Next]_vars => IInv'
  <1> SUFFICES ASSUME IInv, [Next]_vars PROVE IInv'
    OBVIOUS
  <1>1. ASSUME NEW q \in Requests, SaveResearch(q) PROVE IInv'
    BY <1>1, SaveResearchInv
  <1>2. ASSUME NEW q \in Requests, SaveMaxbox(q) PROVE IInv'
    BY <1>2, SaveMaxboxInv
  <1>3. ASSUME NEW q \in Requests, CopyRuns(q) PROVE IInv'
    <2>1. req' \in [Requests -> Request]
      BY <1>3 DEF CopyRuns, GoTo, IInv, TypeOK, Request, Steps
    <2>2. Passed'
      BY <1>3 DEF CopyRuns, GoTo, IInv, TypeOK, Request, Passed
    <2>3. QED
      BY <1>3, <2>1, <2>2, SnapshotRunsInv DEF CopyRuns, IInv
  <1>4. ASSUME NEW q \in Requests, CopyTexts(q) PROVE IInv'
    <2>1. req' \in [Requests -> Request]
      BY <1>4 DEF CopyTexts, GoTo, IInv, TypeOK, Request, Steps
    <2>2. Passed'
      BY <1>4 DEF CopyTexts, GoTo, IInv, TypeOK, Request, Passed
    <2>3. QED
      BY <1>4, <2>1, <2>2, SnapshotTextsInv DEF CopyTexts, IInv
  <1>5. CASE ViewRuns
    <2>1. Passed' /\ req' \in [Requests -> Request]
      BY <1>5 DEF ViewRuns, IInv, TypeOK, Passed
    <2>2. QED
      BY <1>5, <2>1, SnapshotRunsInv DEF ViewRuns, IInv
  <1>6. CASE ViewTexts
    <2>1. Passed' /\ req' \in [Requests -> Request]
      BY <1>6 DEF ViewTexts, IInv, TypeOK, Passed
    <2>2. QED
      BY <1>6, <2>1, SnapshotTextsInv DEF ViewTexts, IInv
  <1>7. ASSUME NEW q \in Requests, NEW s \in Students, NEW t \in Texts,
               NEW reason \in BOOLEAN, Receive(q, s, t, reason)
        PROVE  IInv'
    <2>1. TypeOK'
      BY <1>7 DEF Receive, IInv, TypeOK, Request, Steps, Answers, store
    <2>2. QED
      BY <1>7, <2>1, StoreAloneInv DEF Receive, IInv, TypeOK
  <1>8. ASSUME NEW q \in Requests, CheckReason(q) \/ Crash(q) PROVE IInv'
    <2>1. PICK label \in {"failed", "research", "dead"} : GoTo(q, label)
      BY <1>8 DEF CheckReason, Crash
    <2>2. UNCHANGED <<open, allowed, store>>
      BY <1>8 DEF CheckReason, Crash
    <2>3. TypeOK'
      BY <2>1, <2>2 DEF GoTo, IInv, TypeOK, Request, Steps, Answers, store
    <2>4. QED
      BY <2>1, <2>2, <2>3, StoreAloneInv DEF GoTo, IInv, TypeOK, Request
  <1>9. ASSUME NEW s \in Students, Allow(s) PROVE IInv'
    <2>1. TypeOK'
      BY <1>9 DEF Allow, IInv, TypeOK, store
    <2>2. QED
      BY <1>9, <2>1, StoreAloneInv DEF Allow, IInv, TypeOK
  <1>10. CASE CloseRound
    <2>1. TypeOK'
      BY <1>10 DEF CloseRound, IInv, TypeOK, store
    <2>2. QED
      BY <1>10, <2>1, StoreAloneInv DEF CloseRound
  <1>11. CASE UNCHANGED vars
    <2>1. TypeOK'
      BY <1>11 DEF vars, store, IInv, TypeOK
    <2>2. QED
      BY <1>11, <2>1, StoreAloneInv DEF vars, store
  <1>12. ASSUME NEW s \in Students, Delete(s) PROVE IInv'
    BY <1>12, DeleteInv
  <1>13. CASE CreateJob
    BY <1>13, CreateJobInv
  <1>14. QED
    BY <1>1, <1>2, <1>3, <1>4, <1>5, <1>6, <1>7, <1>8, <1>9, <1>10, <1>11, <1>12,
       <1>13 DEF Next, Serve

LEMMA InvCorrect == Spec => []IInv
  BY InitInv, NextInv, PTL DEF Spec

-----------------------------------------------------------------------------

\* Every variable keeps its type in every behaviour.
THEOREM TypeCorrect == Spec => []TypeOK
  <1>1. IInv => TypeOK
    BY DEF IInv
  <1>2. QED
    BY <1>1, InvCorrect, PTL

\* The history of every submission is complete and free of contradictions:
\* whichever of the two batches made a revision put its text on record.
THEOREM HistoryIsComplete == Spec => []HistoryComplete
  <1>1. IInv => HistoryComplete
    <2> SUFFICES ASSUME IInv, NEW s \in Students, NEW v \in 1..rev[s]
                 PROVE  LET recorded == {versions[s][v].text, runs[s][v], items[s][v]} \ {NoText}
                        IN  \E t \in Texts : recorded = {t} /\ (v = rev[s] => t = text[s])
      BY DEF HistoryComplete
    <2>1. v \in Revisions /\ v <= rev[s]
      BY RoundAssumption DEF IInv, TypeOK, Revisions
    <2>2. PICK t \in Texts : TextOf(s, v, t)
      BY <2>1 DEF IInv, Recorded
    <2>3. NoVersion.text = NoText /\ t # NoText
      BY SetAssumption DEF NoVersion
    <2>4. {versions[s][v].text, runs[s][v], items[s][v]} \ {NoText} = {t}
      BY <2>2, <2>3 DEF TextOf
    <2>5. QED
      BY <2>2, <2>4 DEF TextOf
  <1>2. QED
    BY <1>1, InvCorrect, PTL

\* The first text is frozen until revision is allowed, although the second
\* batch does not ask: only a request that a deletion has overtaken between its
\* two batches, or one whose text such a request replaced, changes it.
THEOREM FirstTextIsFrozen == Spec => FirstTextFrozen
  <1> DEFINE Excused(s) ==
        \/ text[s] = NoText
        \/ allowed[s]
        \/ \E q \in Requests :
             /\ req[q].pc = "maxbox" /\ req[q].overtaken /\ req[q].student = s
             /\ req'[q].pc = "ok" /\ text'[s] = req[q].text
  <1>1. ASSUME IInv, Next, NEW s \in Students, text'[s] \notin {text[s], NoText}
        PROVE  Excused(s)
    <2>1. ASSUME NEW q \in Requests, SaveResearch(q)
          PROVE  text[s] = NoText \/ allowed[s]
      BY <1>1, <2>1 DEF SaveResearch, ResearchWrites, IInv, TypeOK, Request
    <2>2. ASSUME NEW q \in Requests, SaveMaxbox(q)
          PROVE  Excused(s)
      <3>1. /\ req[q].pc = "maxbox" /\ req[q].student = s /\ text'[s] = req[q].text
            /\ open
        BY <1>1, <2>2 DEF SaveMaxbox, MaxboxWrites, IInv, TypeOK, Request
      <3>2. CASE ~req[q].overtaken
        BY <1>1, <3>1, <3>2 DEF IInv, Passed
      <3>3. CASE req[q].overtaken
        <4>1. Accepts(s, req[q].text)
          BY <3>1 DEF Accepts
        <4>2. req'[q].pc = "ok"
          BY <1>1, <2>2, <3>1, <4>1 DEF SaveMaxbox, IInv, TypeOK, Request
        <4>3. QED
          BY <3>1, <3>3, <4>2
      <3>4. QED
        BY <3>2, <3>3
    <2>3. ASSUME NEW x \in Students, Delete(x) PROVE FALSE
      BY <1>1, <2>3 DEF Delete, IInv, TypeOK
    <2>4. QED
      BY <1>1, <2>1, <2>2, <2>3
         DEF Next, Serve, Receive, CopyRuns, CopyTexts, CheckReason, Crash, Allow,
             CloseRound, CreateJob, ViewRuns, ViewTexts, store
  <1>2. IInv /\ [Next]_vars
          => [\A s \in Students :
                text'[s] \notin {text[s], NoText} => Excused(s)]_vars
    BY <1>1
  <1>3. QED
    BY <1>2, InvCorrect, PTL DEF Spec, FirstTextFrozen

\* A request as it was, but for being overtaken.
Same(q) ==
  /\ req'[q].pc = req[q].pc /\ req'[q].student = req[q].student
  /\ req'[q].text = req[q].text /\ (req[q].overtaken => req'[q].overtaken)

\* A request that is done stays so, and as long as it is not overtaken the runs
\* of its student are not taken away.
LEMMA GradedStays ==
  ASSUME IInv, AcknowledgedIsGraded, NEW q \in Requests,
         Maxbox, req'[q].pc = "ok", ~req'[q].overtaken, Same(q),
         \A v \in Revisions : LET s == req[q].student
                             IN  runs[s][v] # NoText => runs'[s][v] = runs[s][v]
  PROVE  \E v \in Revisions : runs'[req'[q].student][v] = req'[q].text
  <1>1. PICK v \in Revisions : runs[req[q].student][v] = req[q].text
    BY DEF AcknowledgedIsGraded, Same
  <1>2. req[q].student \in Students /\ req[q].text # NoText
    BY SetAssumption DEF IInv, TypeOK, Request
  <1>3. QED
    BY <1>1, <1>2 DEF Same

\* The second batch registers the text it acknowledges: a run of the revision
\* it leaves behind, if there was one already, has that same text (Recorded).
LEMMA MaxboxGrades ==
  ASSUME IInv, NEW q \in Requests, SaveMaxbox(q)
  PROVE  /\ \A s \in Students, v \in Revisions :
              runs[s][v] # NoText => runs'[s][v] = runs[s][v]
         /\ req'[q].pc = "ok" =>
              \E v \in Revisions : runs'[req'[q].student][v] = req'[q].text
  <1>0. PICK s \in Students, t \in Texts : s = req[q].student /\ t = req[q].text
    BY DEF IInv, TypeOK, Request
  <1> DEFINE w == MaxboxWrites(s, t)
  <1>1. /\ t # NoText /\ rev[s] \in 0..MaxRev /\ rev[s] < MaxRev
    BY <1>0, SetAssumption DEF IInv, TypeOK, SaveMaxbox
  <1>2. /\ text' = IF w THEN [text EXCEPT ![s] = t] ELSE text
        /\ rev' = IF w THEN [rev EXCEPT ![s] = @ + 1] ELSE rev
        /\ runs' = IF Accepts(s, t) THEN RegisterRun(s, rev'[s], t) ELSE runs
    BY <1>0 DEF SaveMaxbox
  <1>3. /\ w => text'[s] = t /\ rev'[s] = rev[s] + 1
        /\ ~w => text'[s] = text[s] /\ rev'[s] = rev[s]
    BY <1>1, <1>2 DEF IInv, TypeOK
  <1>4. Accepts(s, t) => rev'[s] \in Revisions
    BY <1>1, <1>3, RoundAssumption DEF Accepts, IInv, Rows, TypeOK, Revisions
  <1>5. \A x \in Students, v \in Revisions :
          runs'[x][v] = IF /\ Accepts(s, t) /\ x = s /\ v = rev'[s]
                           /\ runs[x][v] = NoText
                          THEN t ELSE runs[x][v]
    BY <1>1, <1>2, <1>4 DEF RegisterRun, IInv, TypeOK
  <1>6. req'[q].pc = "ok" => Accepts(s, t)
    BY <1>0 DEF SaveMaxbox, IInv, TypeOK, Request
  <1>7. req'[q].student = s /\ req'[q].text = t
    BY <1>0 DEF SaveMaxbox, IInv, TypeOK, Request
  <1>8. ASSUME Accepts(s, t), runs[s][rev'[s]] # NoText
        PROVE  runs[s][rev'[s]] = t
    <2>1. ~w
      BY <1>1, <1>3, <1>4, <1>8 DEF IInv, Beyond, TypeOK, Revisions
    <2>2. rev[s] \in Revisions /\ text[s] = t /\ rev'[s] = rev[s]
      BY <1>3, <1>4, <1>8, <2>1 DEF Accepts
    <2>3. \E u \in Texts : TextOf(s, rev[s], u)
      BY <1>1, <2>2 DEF IInv, Recorded
    <2>4. QED
      BY <1>8, <2>2, <2>3 DEF TextOf
  <1>9. req'[q].pc = "ok" => runs'[s][rev'[s]] = t /\ rev'[s] \in Revisions
    BY <1>4, <1>5, <1>6, <1>8
  <1>10. QED
    BY <1>5, <1>7, <1>9

\* What was answered with success in a maxbox round has its run: the second
\* transaction registers it, whichever of the two stored the text.
THEOREM SuccessIsGraded == Spec => []AcknowledgedIsGraded
  <1>0. NewRequest.pc = "new"
    BY DEF NewRequest
  <1>1. Init => AcknowledgedIsGraded
    BY <1>0 DEF Init, AcknowledgedIsGraded
  <1>2. ASSUME IInv, AcknowledgedIsGraded, [Next]_vars PROVE AcknowledgedIsGraded'
    <2> SUFFICES ASSUME NEW q \in Requests, Maxbox, req'[q].pc = "ok", ~req'[q].overtaken
                 PROVE  \E v \in Revisions : runs'[req'[q].student][v] = req'[q].text
      BY DEF AcknowledgedIsGraded
    <2>0. req[q] \in Request /\ req[q].student \in Students
      BY <1>2 DEF IInv, TypeOK, Request
    <2>1. ASSUME NEW r \in Requests, SaveMaxbox(r)
          PROVE  \E v \in Revisions : runs'[req'[q].student][v] = req'[q].text
      <3>1. CASE r = q
        BY <1>2, <2>1, <3>1, MaxboxGrades
      <3>2. CASE r # q
        <4>1. req'[q] = req[q] \/ \E s : req'[q] = Overtake(q, s, {"maxbox"})
          BY <1>2, <2>1, <3>2 DEF SaveMaxbox, IInv, TypeOK
        <4>2. Same(q)
          BY <2>0, <4>1, OvertakeType DEF Same, Request
        <4>3. \A s \in Students, v \in Revisions :
                runs[s][v] # NoText => runs'[s][v] = runs[s][v]
          BY <1>2, <2>1, MaxboxGrades
        <4>4. QED
          BY <1>2, <2>0, <4>2, <4>3, GradedStays
      <3>3. QED
        BY <3>1, <3>2
    <2>2. ASSUME req'[q] = req[q], runs' = runs
          PROVE  \E v \in Revisions : runs'[req'[q].student][v] = req'[q].text
      BY <1>2, <2>2, GradedStays DEF Same
    <2>3. ASSUME NEW r \in Requests, SaveResearch(r)
          PROVE  req'[q] = req[q] /\ runs' = runs
      BY <1>2, <2>3 DEF SaveResearch, IInv, TypeOK, Request
    <2>4. ASSUME NEW r \in Requests, NEW s \in Students, NEW t \in Texts,
                 NEW reason \in BOOLEAN, Receive(r, s, t, reason)
          PROVE  req'[q] = req[q] /\ runs' = runs
      BY <1>2, <2>4 DEF Receive, store, IInv, TypeOK, Request
    <2>5. ASSUME NEW r \in Requests,
                 CopyRuns(r) \/ CopyTexts(r) \/ CheckReason(r) \/ Crash(r)
          PROVE  req'[q] = req[q] /\ runs' = runs
      BY <1>2, <2>5 DEF CopyRuns, CopyTexts, CheckReason, Crash, GoTo, store, IInv,
                  TypeOK, Request
    <2>6. ASSUME \/ \E s \in Students : Allow(s)
                 \/ CloseRound \/ CreateJob \/ ViewRuns \/ ViewTexts \/ UNCHANGED vars
          PROVE  req'[q] = req[q] /\ runs' = runs
      BY <2>6 DEF Allow, CloseRound, CreateJob, ViewRuns, ViewTexts, vars, store
    <2>7. ASSUME NEW s \in Students, Delete(s)
          PROVE  \E v \in Revisions : runs'[req'[q].student][v] = req'[q].text
      <3>1. req'[q] = Overtake(q, s, {"maxbox", "ok"})
        BY <2>7 DEF Delete
      <3>2. Same(q) /\ req[q].student # s
        BY <2>0, <3>1, OvertakeType DEF Same, Request
      <3>3. runs'[req[q].student] = runs[req[q].student]
        BY <1>2, <2>0, <2>7, <3>2 DEF Delete, IInv, TypeOK
      <3>4. QED
        BY <1>2, <3>2, <3>3, GradedStays
    <2>8. QED
      BY <1>2, <2>1, <2>2, <2>3, <2>4, <2>5, <2>6, <2>7 DEF Next, Serve
  <1>3. QED
    BY <1>1, <1>2, InvCorrect, PTL DEF Spec
=============================================================================
