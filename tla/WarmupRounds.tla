---------------------------- MODULE WarmupRounds ----------------------------
(***************************************************************************)
(* The rounds of a course and the votes on their boards                    *)
(* (lib/warmupStore.ts).  Every request reads what it depends on and then  *)
(* writes in another statement: teachers' requests publish, close, delete  *)
(* and open reviews, students' clicks toggle votes.  The rows of a round   *)
(* hang off it by its number only.                                         *)
(***************************************************************************)
EXTENDS FiniteSets, Naturals

CONSTANTS
  Rounds,
  Boards,    \* bound: the rounds on whose boards votes are cast
  Students,
  Types,     \* of votes
  Requests,  \* of teachers, in flight at one time
  Clicks     \* of students on votes, in flight at one time

VARIABLES
  status,   \* of each round; "none" before it is created and once it is deleted
  gone,     \* rounds that were deleted
  ended,    \* rounds whose closed_at is set
  review,   \* rounds whose review_opened_at is set
  subs,     \* submissions: round and author
  label,    \* of each submission, the only name its peers see
  votes,    \* round, author, voter and type
  request,  \* what each teacher's request has read
  click,    \* what each click has read
  cut,      \* rounds that were deleted while they were open
  raced     \* history: rounds whose status a request wrote that had been crossed

vars == <<status, gone, ended, review, subs, label, votes, request, click, cut, raced>>
roundRows == <<status, gone, ended, review, cut, raced>>

Subs == [round : Rounds, author : Students]
Votes == [round : Boards, author : Students, voter : Students, type : Types]
Free == [pc |-> "free"]

TypeOK ==
  /\ status \in [Rounds -> {"none", "draft", "open", "closed"}]
  /\ {gone, ended, review, cut, raced} \subseteq SUBSET Rounds
  /\ subs \subseteq Subs /\ label \in [subs -> 1..Cardinality(Students)] /\ votes \subseteq Votes
  /\ \A r \in gone : status[r] = "none"
  /\ \A v \in votes : v.voter # v.author
  /\ \A c \in Clicks : click[c].pc # "free" => click[c].vote \in Votes

IsOpen(r) == status[r] = "open"
SubOf(v) == [round |-> v.round, author |-> v.author]

\* Slip: every open round is taken for the one that is being published.
OtherOpenNone(r) == FALSE

\* getOpenWarmupRound finds a round other than this one.
OtherOpen(r) == \E q \in Rounds \ {r} : IsOpen(q)

-----------------------------------------------------------------------------
\* createWarmupRound; numbers are not reused.
Create(r) ==
  /\ status[r] = "none" /\ r \notin gone
  /\ status' = [status EXCEPT ![r] = "draft"]
  /\ UNCHANGED <<gone, ended, review, subs, label, votes, request, click, cut, raced>>

\* Slip: a closed round may be published.
AllowsClosed(op, r) ==
  CASE op = "publish" -> status[r] \in {"draft", "closed"}
    [] op = "close"   -> IsOpen(r)
    [] op = "review"  -> IsOpen(r) /\ r \notin review
    [] op = "delete"  -> status[r] \in {"draft", "closed"}

\* Slip: open rounds may be deleted, too.
AllowsOpen(op, r) ==
  CASE op = "publish" -> status[r] = "draft"
    [] op = "close"   -> IsOpen(r)
    [] op = "review"  -> IsOpen(r) /\ r \notin review
    [] op = "delete"  -> status[r] # "none"

\* What each operation asks of the round it has read; otherwise it changes nothing.
Allows(op, r) ==
  CASE op = "publish" -> status[r] = "draft"
    [] op = "close"   -> IsOpen(r)
    [] op = "review"  -> IsOpen(r) /\ r \notin review
    [] op = "delete"  -> status[r] \in {"draft", "closed"}

ReadRound(q, op, r) ==
  /\ request[q].pc = "free" /\ Allows(op, r)
  /\ request' = [request EXCEPT ![q] =
       [pc |-> IF op = "publish" THEN "look" ELSE "write", op |-> op, round |-> r,
        crossed |-> FALSE]]
  /\ UNCHANGED <<roundRows, subs, label, votes, click>>

\* publishWarmupRound: is another round open?
LookForOpen(q) ==
  /\ request[q].pc = "look"
  /\ request' = [request EXCEPT ![q] =
       IF OtherOpen(request[q].round) THEN Free ELSE [@ EXCEPT !.pc = "write"]]
  /\ UNCHANGED <<roundRows, subs, label, votes, click>>

\* A request is crossed when what it has read changes before it writes: the
\* status of its round, or, for one that has looked for an open round, that
\* there is none.
Crossed(p, r, st) ==
  /\ request[p].pc # "free" /\ status[r] # "none"
  /\ \/ request[p].round = r
     \/ st = "open" /\ request[p].op = "publish" /\ request[p].pc = "write"

\* The request ends, and crosses others as the round gets its status.
WriteStatus(q, r, st) ==
  /\ request' = [p \in Requests |->
       IF p = q THEN Free
       ELSE IF Crossed(p, r, st) THEN [request[p] EXCEPT !.crossed = TRUE] ELSE request[p]]
  /\ status' = IF status[r] = "none" THEN status ELSE [status EXCEPT ![r] = st]
  /\ raced' = IF status[r] = "none" THEN raced
              ELSE IF request[q].crossed THEN raced \cup {r} ELSE raced \ {r}

\* UPDATE ... WHERE id = ?, which changes nothing if the row has gone.
SetStatus(q, op, st) ==
  /\ request[q].pc = "write" /\ request[q].op = op
  /\ WriteStatus(q, request[q].round, st)
  /\ UNCHANGED <<gone, review, subs, label, votes, click, cut>>

Publish(q) == SetStatus(q, "publish", "open") /\ UNCHANGED ended

Close(q) ==
  /\ SetStatus(q, "close", "closed")
  /\ ended' = ended \cup ({request[q].round} \ gone)

\* openWarmupReview
OpenReview(q) ==
  /\ request[q].pc = "write" /\ request[q].op = "review"
  /\ request' = [request EXCEPT ![q] = Free]
  /\ review' = review \cup ({request[q].round} \ gone)
  /\ UNCHANGED <<status, gone, ended, subs, label, votes, click, cut, raced>>

\* deleteWarmupRound: one batch.
DeleteRound(q) ==
  LET r == request[q].round IN
  /\ request[q].pc = "write" /\ request[q].op = "delete"
  /\ WriteStatus(q, r, "none")
  /\ gone' = gone \cup {r}
  /\ ended' = ended \ {r} /\ review' = review \ {r}
  /\ subs' = {s \in subs : s.round # r}
  /\ label' = [s \in subs' |-> label[s]]
  /\ votes' = {v \in votes : v.round # r}
  /\ cut' = IF IsOpen(r) THEN cut \cup {r} ELSE cut
  /\ UNCHANGED click

\* A student submits to the open round (one statement, see SubmitRoute); the
\* label is one more than the count of the submissions there.
Submit(r, s) ==
  LET new == [round |-> r, author |-> s] IN
  /\ IsOpen(r) /\ new \notin subs
  /\ subs' = subs \cup {new}
  /\ label' = [x \in subs' |->
       IF x = new THEN Cardinality({y \in subs : y.round = r}) + 1 ELSE label[x]]
  /\ UNCHANGED <<roundRows, votes, request, click>>

\* deleteWarmupSubmission: one batch, whatever the status of the round.
DeleteSubmission(s) ==
  /\ s \in subs
  /\ subs' = subs \ {s}
  /\ label' = [x \in subs' |-> label[x]]
  /\ votes' = {v \in votes : SubOf(v) # s}
  /\ UNCHANGED <<roundRows, request, click>>

\* Slip: one's own text may be voted for.
MayVoteOwn(v) ==
  /\ SubOf(v) \in subs /\ IsOpen(v.round) /\ v.round \in review

MayVote(v) ==
  /\ SubOf(v) \in subs /\ IsOpen(v.round) /\ v.round \in review
  /\ v.voter # v.author

\* toggleWarmupVote by a student who has submitted: all reads up to the vote.
ReadVote(c, v) ==
  /\ click[c].pc = "free" /\ MayVote(v)
  /\ [round |-> v.round, author |-> v.voter] \in subs
  /\ click' = [click EXCEPT ![c] =
       [pc |-> IF v \in votes THEN "remove" ELSE "insert", vote |-> v]]
  /\ UNCHANGED <<roundRows, subs, label, votes, request>>

\* The unique index refuses a second row of the same vote.
Toggle(c) ==
  /\ click[c].pc # "free"
  /\ click' = [click EXCEPT ![c] = Free]
  /\ votes' = IF click[c].pc = "remove" THEN votes \ {click[c].vote}
              ELSE votes \cup {click[c].vote}
  /\ UNCHANGED <<roundRows, subs, label, request>>

-----------------------------------------------------------------------------
Init ==
  /\ status = [r \in Rounds |-> "none"]
  /\ gone = {} /\ ended = {} /\ review = {} /\ subs = {} /\ label = << >> /\ votes = {} /\ cut = {} /\ raced = {}
  /\ request = [q \in Requests |-> Free]
  /\ click = [c \in Clicks |-> Free]

Next ==
  \/ \E r \in Rounds : Create(r) \/ \E s \in Students : Submit(r, s)
  \/ \E s \in subs : DeleteSubmission(s)
  \/ \E q \in Requests :
       \/ \E op \in {"publish", "close", "review", "delete"}, r \in Rounds : ReadRound(q, op, r)
       \/ LookForOpen(q) \/ Publish(q) \/ Close(q) \/ OpenReview(q) \/ DeleteRound(q)
  \/ \E c \in Clicks : (\E v \in Votes : ReadVote(c, v)) \/ Toggle(c)

Spec == Init /\ [][Next]_vars

-----------------------------------------------------------------------------
(* Properties.                                                             *)

\* One round is open at a time (src/README.md:14, and what publishWarmupRound
\* refuses), however requests overlap; only one whose reads another request
\* has overtaken opens a second.
OneOpenRound ==
  \A r, s \in Rounds : IsOpen(r) /\ IsOpen(s) /\ r # s => r \in raced \/ s \in raced

\* A round that was closed is not open again, unless by a request that read it
\* before somebody else published and closed it.
ClosedStaysClosed == \A r \in ended : status[r] = "closed" \/ r \in raced

\* No round is deleted while students work in it, unless it was published since
\* the deletion read it.
NoOpenRoundDeleted == cut \subseteq raced

\* Every vote is about a submission that exists.
VotesHang == \A v \in votes : SubOf(v) \in subs

\* Peers tell the cards of a board apart by their labels.
LabelsDiffer ==
  \A s, x \in subs : s.round = x.round /\ label[s] = label[x] => s = x

=============================================================================
