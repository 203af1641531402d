---------------------------- MODULE StoresProofs ----------------------------
(***************************************************************************)
(* Theorems about the stores, for any instance of them.  Each store has an *)
(* inductive invariant of its own.                                         *)
(***************************************************************************)
EXTENDS Stores, FiniteSetTheorems, FunctionTheorems, WellFoundedInduction, TLAPS

\* An instance's numbers of elements are those of FiniteSets.
LEMMA SameCardinality ==
  \A S : /\ Round!Cardinality(S) = Cardinality(S)
         /\ Attempt!Cardinality(S) = Cardinality(S) /\ Class!Cardinality(S) = Cardinality(S)
BY DEF Cardinality, Round!Cardinality, Attempt!Cardinality, Class!Cardinality

-----------------------------------------------------------------------------
(* Rounds and votes.                                                       *)

Operations == {"publish", "close", "review", "delete"}
RoundRequest == [pc : {"free"}] \cup 
                [pc : {"look", "write"}, op : Operations, round : Rounds, crossed : BOOLEAN]
RoundClick == [pc : {"free"}] \cup [pc : {"insert", "remove"}, vote : Round!Votes]

\* What a request that was not crossed has read is still so.
RoundKnows(q) ==
  LET row == request[q]
  IN  row.pc # "free" =>
        /\ row.pc = "look" => row.op = "publish"
        /\ status[row.round] = "none" => row.round \in gone
        /\ row.op = "close" => status[row.round] # "draft"
        /\ ~ row.crossed =>
             /\ row.op = "publish" => status[row.round] = "draft"
             /\ row.op = "close" => Round!IsOpen(row.round)
             /\ row.op = "delete" => status[row.round] \in {"draft", "closed"}
             /\ row.op = "publish" /\ row.pc = "write" => ~ Round!OtherOpen(row.round)

\* A vote that is about to be inserted is about another's text.
VoteOfAnother(c) == click[c].pc # "free" => click[c].vote.voter # click[c].vote.author

RoundInv ==
  /\ Round!TypeOK
  /\ request \in [TeacherRequests -> RoundRequest]
  /\ click \in [Clicks -> RoundClick]
  /\ \A q \in TeacherRequests : RoundKnows(q)
  /\ \A c \in Clicks : VoteOfAnother(c)
  /\ \A r \in ended : status[r] \notin {"none", "draft"}
  /\ cut \subseteq gone
  /\ Round!OneOpenRound /\ Round!ClosedStaysClosed /\ Round!NoOpenRoundDeleted

LEMMA LabelsOfLess ==
  ASSUME NEW S, NEW T \in SUBSET S, NEW V, NEW f \in [S -> V]
  PROVE  [x \in T |-> f[x]] \in [T -> V]
OBVIOUS

LEMMA LabelsOfMore ==
  ASSUME NEW S, NEW new, NEW V, NEW f \in [S -> V], NEW v \in V
  PROVE  [x \in S \cup {new} |-> IF x = new THEN v ELSE f[x]] \in [S \cup {new} -> V]
OBVIOUS

LEMMA LabelsHaveType ==
  RoundInv => label \in [subs -> 1..Cardinality(Voters)]
BY SameCardinality DEF RoundInv, Round!TypeOK

LEMMA RoundInit == Round!Init => RoundInv
<1>. SUFFICES ASSUME Round!Init PROVE RoundInv
  OBVIOUS
<1>. USE DEF Round!Init, Round!Free
<1>1. label \in [subs -> 1..Cardinality(Voters)]
  OBVIOUS
<1>2. Round!TypeOK
  BY <1>1, SameCardinality DEF Round!TypeOK
<1>3. request \in [TeacherRequests -> RoundRequest] /\ click \in [Clicks -> RoundClick]
  BY DEF RoundRequest, RoundClick
<1>. QED
  BY <1>2, <1>3 DEF RoundInv, RoundKnows, VoteOfAnother, Round!IsOpen, Round!OneOpenRound,
     Round!ClosedStaysClosed, Round!NoOpenRoundDeleted

\* A round gets a status: whatever others have read of it is then crossed.
LEMMA StatusWritten ==
  ASSUME RoundInv, NEW q \in TeacherRequests, NEW st \in {"open", "closed", "none"},
         request[q].pc = "write",
         Round!WriteStatus(q, request[q].round, st),
         gone' = IF st = "none" THEN gone \cup {request[q].round} ELSE gone
  PROVE  /\ request[q].round \in Rounds
         /\ request' \in [TeacherRequests -> RoundRequest]
         /\ status' \in [Rounds -> {"none", "draft", "open", "closed"}]
         /\ raced' \subseteq Rounds
         /\ \A p \in TeacherRequests : RoundKnows(p)'
<1>. DEFINE r == request[q].round
<1>. USE DEF RoundInv, Round!TypeOK, RoundRequest, Round!Free
<1>1. /\ r \in Rounds
      /\ request' = [p \in TeacherRequests |->
             IF p = q THEN [pc |-> "free"]
             ELSE IF Round!Crossed(p, r, st) THEN [request[p] EXCEPT !.crossed = TRUE] ELSE request[p]]
      /\ status' = IF status[r] = "none" THEN status ELSE [status EXCEPT ![r] = st]
      /\ raced' = IF status[r] = "none" THEN raced
                  ELSE IF request[q].crossed THEN raced \cup {r} ELSE raced \ {r}
  BY DEF Round!WriteStatus
<1>2. status' \in [Rounds -> {"none", "draft", "open", "closed"}] /\ raced' \subseteq Rounds
  BY <1>1
<1>3. ASSUME NEW p \in TeacherRequests, p # q, request[p].pc # "free"
      PROVE  /\ request'[p] \in RoundRequest /\ request'[p].pc = request[p].pc
             /\ request'[p].op = request[p].op /\ request'[p].round = request[p].round
             /\ (~ request'[p].crossed => ~ request[p].crossed /\ ~ Round!Crossed(p, r, st))
  <2>1. CASE Round!Crossed(p, r, st)
    <3> DEFINE n == [request[p] EXCEPT !.crossed = TRUE]
    <3>1. request'[p] = n
      BY <1>1, <1>3, <2>1
    <3>2. /\ n \in RoundRequest /\ n.pc = request[p].pc /\ n.op = request[p].op
          /\ n.round = request[p].round /\ n.crossed = TRUE
      BY <1>3
    <3>. QED
      BY <2>1, <3>1, <3>2
  <2>2. CASE ~ Round!Crossed(p, r, st)
    <3>1. request'[p] = request[p]
      BY <1>1, <1>3, <2>2
    <3>. QED
      BY <2>2, <3>1
  <2>. QED
    BY <2>1, <2>2
<1>4. \A p \in TeacherRequests : request[p].pc = "free" => request'[p] = [pc |-> "free"]
  BY <1>1 DEF Round!Crossed
<1>5. request' \in [TeacherRequests -> RoundRequest]
  <2>1. \A p \in TeacherRequests : request'[p] \in RoundRequest
    BY <1>1, <1>3, <1>4
  <2>. QED
    BY <1>1, <2>1
<1>6. ASSUME NEW p \in TeacherRequests PROVE RoundKnows(p)'
  <2>1. CASE p = q \/ request[p].pc = "free"
    BY <1>1, <1>4, <2>1 DEF RoundKnows
  <2>2. CASE p # q /\ request[p].pc # "free"
    <3>1. RoundKnows(p)
      OBVIOUS
    <3>2. request[p].round \in Rounds /\ request[p].op \in Operations
      BY <2>2
    <3>3. /\ request'[p].pc = request[p].pc /\ request'[p].op = request[p].op
          /\ request'[p].round = request[p].round
          /\ (~ request'[p].crossed => ~ request[p].crossed /\ ~ Round!Crossed(p, r, st))
      BY <1>3, <2>2
    <3>4. CASE status[r] = "none"
      BY <1>1, <2>2, <3>1, <3>2, <3>3, <3>4 DEF RoundKnows, Round!IsOpen, Round!OtherOpen, Round!Crossed
    <3>5. CASE status[r] # "none"
      <4>1. \A s \in Rounds : status'[s] = IF s = r THEN st ELSE status[s]
        BY <1>1, <3>5
      <4>2. request'[p].pc = "look" => request'[p].op = "publish"
        BY <2>2, <3>1, <3>3 DEF RoundKnows
      <4>3. status'[request[p].round] = "none" => request[p].round \in gone'
        BY <2>2, <3>1, <3>2, <4>1 DEF RoundKnows
      <4>4. request[p].op = "close" => status'[request[p].round] # "draft"
        BY <2>2, <3>1, <3>2, <4>1 DEF RoundKnows
      <4>5. ASSUME ~ request'[p].crossed
            PROVE  /\ request[p].op = "publish" => status'[request[p].round] = "draft"
                   /\ request[p].op = "close" => status'[request[p].round] = "open"
                   /\ request[p].op = "delete" => status'[request[p].round] \in {"draft", "closed"}
                   /\ request[p].op = "publish" /\ request[p].pc = "write" =>
                        \A s \in Rounds \ {request[p].round} : status'[s] # "open"
        <5>1. ~ request[p].crossed /\ ~ Round!Crossed(p, r, st)
          BY <3>3, <4>5
        <5>2. /\ request[p].round # r
              /\ st = "open" => ~ (request[p].op = "publish" /\ request[p].pc = "write")
          BY <2>2, <3>5, <5>1 DEF Round!Crossed
        <5>. QED
          BY <2>2, <3>1, <3>2, <4>1, <5>1, <5>2 DEF RoundKnows, Round!IsOpen, Round!OtherOpen
      <4>. QED
        BY <3>3, <4>2, <4>3, <4>4, <4>5 DEF RoundKnows, Round!IsOpen, Round!OtherOpen
    <3>. QED
      BY <3>4, <3>5
  <2>. QED
    BY <2>1, <2>2
<1>. QED
  BY <1>1, <1>2, <1>5, <1>6

\* What a request does to the rows of rounds.
LEMMA RoundWrites ==
  ASSUME StoresAssumption, RoundInv, NEW q \in TeacherRequests,
         \/ \E op \in Operations, r \in Rounds : Round!ReadRound(q, op, r)
         \/ Round!LookForOpen(q) \/ Round!Publish(q) \/ Round!Close(q) \/ Round!OpenReview(q)
         \/ Round!DeleteRound(q)
  PROVE  RoundInv'
<1>. USE DEF RoundInv, Round!TypeOK, Round!Free, RoundRequest, Round!roundRows
<1>2. RoundKnows(q)
  OBVIOUS
<1>a. ASSUME UNCHANGED <<status, gone, ended, cut, raced>>
      PROVE  (Round!OneOpenRound /\ Round!ClosedStaysClosed /\ Round!NoOpenRoundDeleted)'
  BY <1>a DEF Round!OneOpenRound, Round!ClosedStaysClosed, Round!NoOpenRoundDeleted, Round!IsOpen
<1>b. ASSUME UNCHANGED <<status, gone>>, NEW p \in TeacherRequests, request'[p] = request[p]
      PROVE  RoundKnows(p)'
  BY <1>b DEF RoundKnows, Round!IsOpen, Round!OtherOpen
<1>c. ASSUME click' = click PROVE \A c \in Clicks : VoteOfAnother(c)'
  BY <1>c DEF VoteOfAnother
<1>3. ASSUME NEW op \in Operations, NEW r \in Rounds, Round!ReadRound(q, op, r)
      PROVE  RoundInv'
  <2> DEFINE n == [pc |-> IF op = "publish" THEN "look" ELSE "write", op |-> op, round |-> r,
                   crossed |-> FALSE]
  <2>1. /\ request' = [request EXCEPT ![q] = n]
        /\ Round!Allows(op, r)
        /\ UNCHANGED <<status, gone, ended, review, cut, raced, subs, label, votes, click>>
    BY <1>3 DEF Round!ReadRound
  <2>2. n \in RoundRequest /\ n.op = op /\ n.round = r /\ n.pc # "free"
        /\ (n.pc = "look" <=> op = "publish")
    OBVIOUS
  <2>. HIDE DEF n
  <2>3. RoundKnows(q)'
    BY <2>1, <2>2 DEF RoundKnows, Round!Allows, Round!IsOpen, Operations
  <2>4. \A p \in TeacherRequests : RoundKnows(p)'
    BY <1>b, <2>1, <2>3
  <2>. QED
    BY <1>a, <1>c, <2>1, <2>2, <2>4
<1>4. CASE Round!LookForOpen(q)
  <2> DEFINE n == IF Round!OtherOpen(request[q].round) THEN [pc |-> "free"]
                  ELSE [request[q] EXCEPT !.pc = "write"]
  <2>1. /\ request' = [request EXCEPT ![q] = n] /\ request[q].pc = "look"
        /\ UNCHANGED <<status, gone, ended, review, cut, raced, subs, label, votes, click>>
    BY <1>4 DEF Round!LookForOpen
  <2>2. /\ n \in RoundRequest
        /\ \/ n.pc = "free"
           \/ /\ n.pc = "write" /\ n.op = request[q].op /\ n.round = request[q].round
              /\ n.crossed = request[q].crossed /\ ~ Round!OtherOpen(request[q].round)
    BY <2>1
  <2>. HIDE DEF n
  <2>3. RoundKnows(q)'
    BY <1>2, <2>1, <2>2 DEF RoundKnows, Round!IsOpen, Round!OtherOpen
  <2>4. \A p \in TeacherRequests : RoundKnows(p)'
    BY <1>b, <2>1, <2>3
  <2>. QED
    BY <1>a, <1>c, <2>1, <2>2, <2>4
<1> DEFINE r == request[q].round
<1>d. ASSUME NEW st \in {"open", "closed", "none"}, request[q].pc = "write", Round!WriteStatus(q, r, st)
      PROVE  /\ status[r] = "none" => UNCHANGED <<status, raced>>
             /\ status[r] # "none" =>
                  /\ \A s \in Rounds : status'[s] = IF s = r THEN st ELSE status[s]
                  /\ raced' = IF request[q].crossed THEN raced \cup {r} ELSE raced \ {r}
             /\ status[r] = "none" => r \in gone
             /\ r \in gone => status[r] = "none"
             /\ r \in Rounds
  BY <1>2, <1>d DEF Round!WriteStatus, RoundKnows
<1>5. CASE Round!Publish(q)
  <2>1. /\ request[q].pc = "write" /\ request[q].op = "publish" /\ Round!WriteStatus(q, r, "open")
        /\ UNCHANGED <<gone, ended, review, subs, label, votes, click, cut>>
    BY <1>5 DEF Round!Publish, Round!SetStatus
  <2>2. /\ r \in Rounds /\ request' \in [TeacherRequests -> RoundRequest]
        /\ status' \in [Rounds -> {"none", "draft", "open", "closed"}] /\ raced' \subseteq Rounds
        /\ \A p \in TeacherRequests : RoundKnows(p)'
    BY <2>1, StatusWritten
  <2>3. CASE status[r] = "none"
    BY <1>a, <1>c, <1>d, <2>1, <2>2, <2>3
  <2>4. CASE status[r] # "none"
    <3>1. /\ \A s \in Rounds : status'[s] = IF s = r THEN "open" ELSE status[s]
          /\ raced' = IF request[q].crossed THEN raced \cup {r} ELSE raced \ {r}
          /\ r \notin gone
      BY <1>d, <2>1, <2>4
    <3>2. ~ request[q].crossed => status[r] = "draft" /\ ~ Round!OtherOpen(r)
      BY <1>2, <2>1 DEF RoundKnows
    <3>3. Round!OneOpenRound'
      BY <3>1, <3>2 DEF Round!OneOpenRound, Round!IsOpen, Round!OtherOpen
    <3>4. Round!ClosedStaysClosed' /\ Round!NoOpenRoundDeleted'
      BY <2>1, <2>2, <3>1, <3>2 DEF Round!ClosedStaysClosed, Round!NoOpenRoundDeleted
    <3>. QED
      BY <1>c, <2>1, <2>2, <3>1, <3>3, <3>4
  <2>. QED
    BY <2>3, <2>4
<1>6. CASE Round!Close(q)
  <2>1. /\ request[q].pc = "write" /\ request[q].op = "close" /\ Round!WriteStatus(q, r, "closed")
        /\ ended' = ended \cup ({r} \ gone)
        /\ UNCHANGED <<gone, review, subs, label, votes, click, cut>>
    BY <1>6 DEF Round!Close, Round!SetStatus
  <2>2. /\ r \in Rounds /\ request' \in [TeacherRequests -> RoundRequest]
        /\ status' \in [Rounds -> {"none", "draft", "open", "closed"}] /\ raced' \subseteq Rounds
        /\ \A p \in TeacherRequests : RoundKnows(p)'
    BY <2>1, StatusWritten
  <2>3. CASE status[r] = "none"
    <3>1. UNCHANGED <<status, raced, ended>>
      BY <1>d, <2>1, <2>3
    <3>. QED
      BY <1>a, <1>c, <2>1, <2>2, <3>1
  <2>4. CASE status[r] # "none"
    <3>1. /\ \A s \in Rounds : status'[s] = IF s = r THEN "closed" ELSE status[s]
          /\ raced' = IF request[q].crossed THEN raced \cup {r} ELSE raced \ {r}
          /\ r \notin gone
      BY <1>d, <2>1, <2>4
    <3>3. Round!OneOpenRound'
      BY <3>1 DEF Round!OneOpenRound, Round!IsOpen
    <3>4. Round!ClosedStaysClosed' /\ Round!NoOpenRoundDeleted'
      BY <2>1, <2>2, <3>1 DEF Round!ClosedStaysClosed, Round!NoOpenRoundDeleted
    <3>. QED
      BY <1>c, <2>1, <2>2, <3>1, <3>3, <3>4
  <2>. QED
    BY <2>3, <2>4
<1>7. CASE Round!OpenReview(q)
  <2>1. /\ request' = [request EXCEPT ![q] = [pc |-> "free"]]
        /\ request[q].pc = "write" /\ review' \subseteq review \cup {r}
        /\ UNCHANGED <<status, gone, ended, subs, label, votes, click, cut, raced>>
    BY <1>7 DEF Round!OpenReview
  <2>2. \A p \in TeacherRequests : RoundKnows(p)'
    BY <1>b, <2>1 DEF RoundKnows
  <2>. QED
    BY <1>a, <1>c, <2>1, <2>2
<1>8. CASE Round!DeleteRound(q)
  <2>1. /\ request[q].pc = "write" /\ request[q].op = "delete" /\ Round!WriteStatus(q, r, "none")
        /\ gone' = gone \cup {r} /\ ended' = ended \ {r} /\ review' = review \ {r}
        /\ cut' = (IF Round!IsOpen(r) THEN cut \cup {r} ELSE cut) /\ click' = click
        /\ subs' \subseteq subs /\ votes' \subseteq votes
        /\ label' = [s \in subs' |-> label[s]]
    BY <1>8 DEF Round!DeleteRound
  <2>2. /\ r \in Rounds /\ request' \in [TeacherRequests -> RoundRequest]
        /\ status' \in [Rounds -> {"none", "draft", "open", "closed"}] /\ raced' \subseteq Rounds
        /\ \A p \in TeacherRequests : RoundKnows(p)'
    BY <2>1, StatusWritten
  <2>3. label' \in [subs' -> 1..Cardinality(Voters)]
    BY <2>1, LabelsHaveType, LabelsOfLess, Zenon
  <2>4. \A s \in Rounds : status'[s] = IF s = r THEN "none" ELSE status[s]
    BY <1>d, <2>1
  <2>5. Round!TypeOK'
    BY <2>1, <2>2, <2>3, <2>4, SameCardinality
  <2>6. /\ status[r] = "none" => raced' = raced
        /\ status[r] # "none" => raced' = IF request[q].crossed THEN raced \cup {r} ELSE raced \ {r}
    BY <1>d, <2>1
  <2>7. Round!OneOpenRound'
    BY <2>4, <2>6 DEF Round!OneOpenRound, Round!IsOpen
  <2>8. Round!ClosedStaysClosed'
    BY <2>1, <2>4, <2>6 DEF Round!ClosedStaysClosed
  <2>9. Round!NoOpenRoundDeleted' /\ (cut \subseteq gone)'
    <3>1. r \in cut => status[r] = "none"
      OBVIOUS
    <3>2. ~ request[q].crossed => ~ Round!IsOpen(r)
      BY <1>2, <2>1 DEF RoundKnows, Round!IsOpen
    <3>. QED
      BY <2>1, <2>6, <3>1, <3>2 DEF Round!NoOpenRoundDeleted, Round!IsOpen
  <2>. QED
    BY <1>c, <2>1, <2>2, <2>4, <2>5, <2>7, <2>8, <2>9
<1>. QED
  BY <1>3, <1>4, <1>5, <1>6, <1>7, <1>8 DEF Operations

\* The label of a new submission is one of as many as there are students.
LEMMA LabelFits ==
  ASSUME StoresAssumption, subs \in SUBSET Round!Subs, NEW r \in Rounds, NEW s \in Voters,
         [round |-> r, author |-> s] \notin subs
  PROVE  Cardinality({y \in subs : y.round = r}) + 1 \in 1..Cardinality(Voters)
<1>. DEFINE There == {y \in subs : y.round = r}
            Others == {y.author : y \in There}
<1>1. IsFiniteSet(Voters)
  BY DEF StoresAssumption
<1>2. Others \subseteq Voters \ {s}
  <2>1. ASSUME NEW y \in There, y.author = s PROVE FALSE
    <3>1. y = [round |-> r, author |-> s]
      BY <2>1 DEF Round!Subs
    <3>. QED
      BY <3>1
  <2>. QED
    BY <2>1 DEF Round!Subs
<1>3. /\ IsFiniteSet(Voters \ {s})
      /\ Cardinality(Voters \ {s}) = Cardinality(Voters) - 1
  BY <1>1, FS_RemoveElement
<1>4. IsFiniteSet(Others) /\ Cardinality(Others) <= Cardinality(Voters \ {s})
  BY <1>2, <1>3, FS_Subset
<1>5. Cardinality(There) <= Cardinality(Others) /\ IsFiniteSet(There)
  <2> DEFINE f == [y \in There |-> y.author]
  <2>1. ASSUME NEW x \in There, NEW y \in There, f[x] = f[y] PROVE x = y
    BY <2>1 DEF Round!Subs
  <2>2. f \in [There -> Others]
    OBVIOUS
  <2>3. f \in Injection(There, Others)
    BY <2>1, <2>2, Fun_IsInj
  <2>. QED
    BY <1>4, <2>3, FS_Injection
<1>6. {Cardinality(There), Cardinality(Others), Cardinality(Voters)} \subseteq Nat
  BY <1>1, <1>4, <1>5, FS_CardinalityType
<1>. QED
  BY <1>3, <1>4, <1>5, <1>6

\* What students do.
LEMMA RoundWork ==
  ASSUME StoresAssumption, RoundInv,
         \/ \E r \in Rounds : Round!Create(r) \/ \E s \in Voters : Round!Submit(r, s)
         \/ \E s \in subs : Round!DeleteSubmission(s)
         \/ \E c \in Clicks : (\E v \in Round!Votes : Round!ReadVote(c, v)) \/ Round!Toggle(c)
  PROVE  RoundInv'
<1>. USE DEF RoundInv, Round!TypeOK, Round!IsOpen, Round!ClosedStaysClosed,
             Round!NoOpenRoundDeleted, Round!OneOpenRound, Round!roundRows
<1>1. ASSUME UNCHANGED <<status, gone, ended, review, cut, raced, request>>
      PROVE  \A q \in TeacherRequests : RoundKnows(q)'
  BY <1>1 DEF RoundKnows, Round!Allows, Round!OtherOpen
<1>2. ASSUME NEW r \in Rounds, Round!Create(r)
      PROVE  RoundInv'
  <2>1. ASSUME NEW q \in TeacherRequests PROVE RoundKnows(q)'
    BY <1>2 DEF Round!Create, RoundKnows, Round!Allows, Round!OtherOpen, RoundRequest, Operations
  <2>2. Round!TypeOK'
    BY <1>2 DEF Round!Create
  <2>. QED
    BY <1>2, <2>1, <2>2 DEF Round!Create, VoteOfAnother
<1>3. ASSUME NEW r \in Rounds, NEW s \in Voters, Round!Submit(r, s)
      PROVE  RoundInv'
  <2> DEFINE new == [round |-> r, author |-> s]
             mark == Cardinality({y \in subs : y.round = r}) + 1
  <2>1. /\ subs' = subs \cup {new} /\ new \notin subs
        /\ label' = [x \in subs' |-> IF x = new THEN mark ELSE label[x]]
        /\ UNCHANGED <<status, gone, ended, review, cut, raced, votes, request, click>>
    BY <1>3, SameCardinality, Zenon DEF Round!Submit
  <2>2. mark \in 1..Cardinality(Voters)
    BY <2>1, LabelFits
  <2>3. new \in Round!Subs
    BY DEF Round!Subs
  <2>. HIDE DEF new, mark
  <2>4. label' \in [subs' -> 1..Cardinality(Voters)]
    BY <2>1, <2>2, LabelsHaveType, LabelsOfMore, Zenon
  <2>5. Round!TypeOK'
    BY <2>1, <2>3, <2>4, SameCardinality
  <2>. QED
    BY <1>1, <2>1, <2>5 DEF VoteOfAnother
<1>4. ASSUME NEW s \in subs, Round!DeleteSubmission(s)
      PROVE  RoundInv'
  <2>1. /\ subs' \subseteq subs /\ votes' \subseteq votes
        /\ label' = [x \in subs' |-> label[x]]
        /\ UNCHANGED <<status, gone, ended, review, cut, raced, request, click>>
    BY <1>4 DEF Round!DeleteSubmission
  <2>2. label' \in [subs' -> 1..Cardinality(Voters)]
    BY <2>1, LabelsHaveType, LabelsOfLess, Zenon
  <2>3. Round!TypeOK'
    BY <2>1, <2>2, SameCardinality
  <2>. QED
    BY <1>1, <2>1, <2>3 DEF VoteOfAnother
<1>5. ASSUME NEW c \in Clicks, NEW v \in Round!Votes, Round!ReadVote(c, v)
      PROVE  RoundInv'
  <2>1. /\ v.voter # v.author
        /\ click' = [click EXCEPT ![c] =
             [pc |-> IF v \in votes THEN "remove" ELSE "insert", vote |-> v]]
        /\ UNCHANGED <<status, gone, ended, review, cut, raced, subs, label, votes, request>>
    BY <1>5 DEF Round!ReadVote, Round!MayVote
  <2>2. click' \in [Clicks -> RoundClick]
    BY <2>1 DEF RoundClick
  <2>3. \A d \in Clicks : VoteOfAnother(d)'
    BY <2>1 DEF VoteOfAnother
  <2>4. Round!TypeOK'
    BY <2>1, <2>2 DEF RoundClick
  <2>. QED
    BY <1>1, <2>1, <2>2, <2>3, <2>4
<1>6. ASSUME NEW c \in Clicks, Round!Toggle(c)
      PROVE  RoundInv'
  <2>1. /\ click[c].vote \in Round!Votes /\ click[c].vote.voter # click[c].vote.author
        /\ click' = [click EXCEPT ![c] = [pc |-> "free"]]
        /\ votes' \subseteq votes \cup {click[c].vote}
        /\ UNCHANGED <<status, gone, ended, review, cut, raced, subs, label, request>>
    BY <1>6 DEF Round!Toggle, Round!Free, RoundClick, VoteOfAnother
  <2>2. click' \in [Clicks -> RoundClick]
    BY <2>1 DEF RoundClick
  <2>3. \A d \in Clicks : VoteOfAnother(d)'
    BY <2>1 DEF VoteOfAnother
  <2>4. Round!TypeOK'
    BY <2>1, <2>2 DEF RoundClick
  <2>. QED
    BY <1>1, <2>1, <2>2, <2>3, <2>4
<1>. QED
  BY <1>2, <1>3, <1>4, <1>5, <1>6

LEMMA RoundStep ==
  ASSUME StoresAssumption, RoundInv, [Round!Next]_(Round!vars)
  PROVE  RoundInv'
<1>1. CASE UNCHANGED Round!vars
  BY <1>1 DEF Round!vars, RoundInv, Round!TypeOK, RoundKnows, VoteOfAnother, Round!IsOpen,
     Round!OtherOpen, Round!OneOpenRound, Round!ClosedStaysClosed, Round!NoOpenRoundDeleted
<1>. QED
  BY <1>1, RoundWrites, RoundWork DEF Round!Next, Operations

-----------------------------------------------------------------------------
(* The course and its first roster.                                         *)

CourseRow == [rows : SUBSET Default, seeded : BOOLEAN, extra : BOOLEAN, again : BOOLEAN]
CourseRequest ==
  [pc : {"start", "dead"}] \cup
  [pc : {"create"}, crossed : BOOLEAN] \cup
  [pc : {"check", "count", "seed", "mark", "done"}, course : Nat, seeded : BOOLEAN, crossed : BOOLEAN]

OnCourse(q) == req[q].pc \in {"check", "count", "seed", "mark", "done"}

\* What a request that was not crossed has read is still so.
CourseKnows(q) ==
  LET x == courses[req[q].course]
  IN  /\ req[q].pc = "create" /\ ~ req[q].crossed => courses = << >>
      /\ OnCourse(q) => req[q].course \in 1..Len(courses)
      /\ req[q].pc = "check" /\ req[q].seeded => x.seeded
      /\ req[q].pc \in {"count", "seed"} => ~ req[q].seeded
      /\ req[q].pc \in {"check", "count", "seed"} /\ ~ req[q].seeded /\ ~ req[q].crossed => ~ x.seeded
      /\ req[q].pc = "seed" /\ ~ req[q].crossed => x.rows = {}
      /\ req[q].pc = "mark" => x.seeded \/ x.rows = Default
      /\ req[q].pc = "done" => x.seeded

\* Until it is marked the roster is empty or whole; from then on it lacks only
\* those who were removed, and all of them unless it was seeded again.
RowsAreWhole(c) ==
  LET x == courses[c]
  IN  /\ ~ x.seeded => x.rows \in {{}, Default} /\ \A s \in Default : <<c, s>> \notin removed
      /\ x.seeded => \A s \in Default : s \in x.rows \/ <<c, s>> \in removed
      /\ ~ x.again => \A s \in Default : <<c, s>> \in removed => s \notin x.rows

CourseInv ==
  /\ courses \in Seq(CourseRow)
  /\ req \in [FirstRequests -> CourseRequest]
  /\ \A q \in FirstRequests : CourseKnows(q)
  /\ \A c \in 1..Len(courses) : RowsAreWhole(c)
  /\ \A c \in 1..Len(courses) : courses[c].extra \/ c = 1
  /\ FixedCode => Len(courses) <= 1
  /\ \A c \in Nat, s \in Default : <<c, s>> \in removed => c <= Len(courses)

LEMMA CourseInit == Course!Init => CourseInv
BY DEF Course!Init, Course!Start, CourseInv, CourseRequest, CourseKnows, OnCourse, RowsAreWhole

\* A request goes on and crosses others: what they had read is excused.
LEMMA OthersCrossed ==
  ASSUME CourseInv, NEW q \in FirstRequests, NEW to \in CourseRequest, NEW others,
         Course!Cross(q, to, others),
         \A p \in others : p \in FirstRequests /\ req[p].pc \notin {"start", "dead"}
  PROVE  /\ req' \in [FirstRequests -> CourseRequest]
         /\ req'[q] = to
         /\ \A p \in FirstRequests \ {q} :
              /\ req'[p].pc = req[p].pc
              /\ OnCourse(p) => req'[p].course = req[p].course /\ req'[p].seeded = req[p].seeded
              /\ p \in others => req'[p].crossed = TRUE
              /\ p \notin others => req'[p] = req[p]
<1>1. req' = [p \in FirstRequests |->
            IF p = q THEN to
            ELSE IF p \in others THEN [req[p] EXCEPT !.crossed = TRUE] ELSE req[p]]
  BY DEF Course!Cross
<1>2. ASSUME NEW p \in FirstRequests, p # q, p \in others
      PROVE  /\ req'[p] \in CourseRequest /\ req'[p].pc = req[p].pc /\ req'[p].crossed = TRUE
             /\ OnCourse(p) => req'[p].course = req[p].course /\ req'[p].seeded = req[p].seeded
  <2> DEFINE n == [req[p] EXCEPT !.crossed = TRUE]
  <2>1. req'[p] = n
    BY <1>1, <1>2
  <2>2. req[p] \in CourseRequest /\ req[p].pc \notin {"start", "dead"}
    BY <1>2 DEF CourseInv
  <2>3. CASE req[p].pc = "create"
    BY <2>1, <2>2, <2>3 DEF CourseRequest, OnCourse
  <2>4. CASE req[p].pc # "create"
    <3>1. req[p] \in [pc : {"check", "count", "seed", "mark", "done"}, course : Nat,
                      seeded : BOOLEAN, crossed : BOOLEAN]
      BY <2>2, <2>4 DEF CourseRequest
    <3>. QED
      BY <2>1, <3>1 DEF CourseRequest, OnCourse
  <2>. QED
    BY <2>3, <2>4
<1>3. ASSUME NEW p \in FirstRequests, p # q, p \notin others
      PROVE  req'[p] = req[p] /\ req[p] \in CourseRequest
  BY <1>1, <1>3 DEF CourseInv
<1>4. req'[q] = to
  BY <1>1
<1>5. \A p \in FirstRequests : req'[p] \in CourseRequest
  BY <1>2, <1>3, <1>4
<1>. QED
  BY <1>1, <1>2, <1>3, <1>4, <1>5

\* A course changes.
LEMMA CourseUpdated ==
  ASSUME CourseInv, NEW c \in 1..Len(courses), NEW y \in CourseRow, Course!Update(c, y)
  PROVE  /\ courses' \in Seq(CourseRow) /\ Len(courses') = Len(courses)
         /\ courses'[c] = y
         /\ \A d \in 1..Len(courses) : d # c => courses'[d] = courses[d]
BY DEF Course!Update, CourseInv

LEMMA CourseStep ==
  ASSUME StoresAssumption, CourseInv, Course!Next
  PROVE  CourseInv'
<1>. USE DEF CourseInv
<1>1. PICK q \in FirstRequests :
        \/ Course!Read(q) \/ Course!Create(q) \/ Course!Check(q) \/ Course!Count(q)
        \/ Course!Seed(q) \/ Course!Mark(q) \/ Course!Die(q)
        \/ \E s \in Default : Course!RemoveStudent(q, s)
  BY DEF Course!Next
<1>2. CourseKnows(q) /\ req[q] \in CourseRequest
  OBVIOUS
<1>q. OnCourse(q) => req[q] \in [pc : {"check", "count", "seed", "mark", "done"}, course : Nat,
                                seeded : BOOLEAN, crossed : BOOLEAN]
  BY <1>2 DEF OnCourse, CourseRequest
<1>r. OnCourse(q) => /\ courses[req[q].course] \in CourseRow /\ RowsAreWhole(req[q].course)
                     /\ req[q].course \in 1..Len(courses)
  BY <1>2 DEF CourseKnows
<1>3. ASSUME UNCHANGED <<courses, removed>>, NEW n \in CourseRequest, req' = [req EXCEPT ![q] = n],
             CourseKnows(q)'
      PROVE  CourseInv'
  <2>1. \A p \in FirstRequests : CourseKnows(p)'
    BY <1>3 DEF CourseKnows, OnCourse
  <2>. QED
    BY <1>3, <2>1 DEF RowsAreWhole
<1>4. CASE Course!Read(q)
  <2>a. CASE courses = << >>
    <3> DEFINE n == [pc |-> "create", crossed |-> FALSE]
    <3>1. /\ req' = [req EXCEPT ![q] = n]
          /\ UNCHANGED <<courses, removed>>
      BY <1>4, <2>a DEF Course!Read, Course!Exists
    <3>2. n \in CourseRequest
      BY DEF CourseRequest
    <3>3. CourseKnows(q)'
      BY <2>a, <3>1 DEF CourseKnows, OnCourse
    <3>. HIDE DEF n
    <3>. QED
      BY <1>3, <3>1, <3>2, <3>3
  <2>b. CASE courses # << >>
    <3> DEFINE n == [pc |-> "check", course |-> 1, seeded |-> courses[1].seeded, crossed |-> FALSE]
    <3>1. /\ req' = [req EXCEPT ![q] = n] /\ UNCHANGED <<courses, removed>>
      BY <1>4, <2>b DEF Course!Read, Course!Exists, Course!At
    <3>2. 1 \in 1..Len(courses) /\ courses[1] \in CourseRow /\ courses[1].seeded \in BOOLEAN
      <4>1. 1 \in 1..Len(courses) /\ courses[1] \in CourseRow
        BY <2>b
      <4>. QED
        BY <4>1 DEF CourseRow
    <3>3. n \in CourseRequest
      BY <3>2 DEF CourseRequest
    <3>4. /\ n.pc = "check" /\ n.course = 1 /\ n.seeded = courses[1].seeded
      OBVIOUS
    <3>. HIDE DEF n
    <3>5. req'[q] = n
      BY <3>1
    <3>6. CourseKnows(q)'
      BY <3>1, <3>2, <3>4, <3>5 DEF CourseKnows, OnCourse
    <3>. QED
      BY <1>3, <3>1, <3>3, <3>6
  <2>. QED
    BY <2>a, <2>b
<1>5. CASE Course!Create(q)
  <2>1. req[q].pc = "create" /\ req[q].crossed \in BOOLEAN /\ (~ req[q].crossed => courses = << >>)
    BY <1>2, <1>5 DEF Course!Create, CourseKnows, CourseRequest
  <2>a. CASE FixedCode /\ courses # << >>
    <3> DEFINE n == [pc |-> "dead"]
    <3>1. req' = [req EXCEPT ![q] = n] /\ UNCHANGED <<courses, removed>>
      BY <1>5, <2>a DEF Course!Create, Course!Dead
    <3>2. n \in CourseRequest
      BY DEF CourseRequest
    <3>3. CourseKnows(q)'
      BY <3>1 DEF CourseKnows, OnCourse
    <3>. HIDE DEF n
    <3>. QED
      BY <1>3, <3>1, <3>2, <3>3
  <2>b. CASE ~ (FixedCode /\ courses # << >>)
    <3> DEFINE y == [rows |-> {}, seeded |-> FALSE, extra |-> req[q].crossed, again |-> FALSE]
               n == [pc |-> "check", course |-> Len(courses) + 1, seeded |-> FALSE, crossed |-> FALSE]
    <3>1. /\ courses' = Append(courses, y) /\ removed' = removed /\ Course!Cross(q, n, Course!Creating)
      <4>1. Course!Fresh(req[q].crossed) = y
        BY DEF Course!Fresh
      <4>2. Course!At("check", Len(courses) + 1, FALSE) = n
        BY DEF Course!At
      <4>. HIDE DEF y, n
      <4>3. /\ courses' = Append(courses, Course!Fresh(req[q].crossed))
            /\ Course!Cross(q, Course!At("check", Len(courses) + 1, FALSE), Course!Creating)
            /\ removed' = removed
        BY <1>5, <2>b, Zenon DEF Course!Create
      <4>. QED
        BY <4>1, <4>2, <4>3, Zenon
    <3>2. y \in CourseRow /\ y.rows = {} /\ y.seeded = FALSE /\ y.extra = req[q].crossed /\ y.again = FALSE
      BY <2>1 DEF CourseRow
    <3>3. n \in CourseRequest /\ n.pc = "check" /\ n.course = Len(courses) + 1 /\ n.seeded = FALSE
      BY DEF CourseRequest
    <3>. HIDE DEF y, n
    <3>4. /\ courses' \in Seq(CourseRow) /\ Len(courses') = Len(courses) + 1
          /\ courses'[Len(courses) + 1] = y
          /\ \A d \in 1..Len(courses) : courses'[d] = courses[d]
      BY <3>1, <3>2
    <3>5. /\ req' \in [FirstRequests -> CourseRequest] /\ req'[q] = n
          /\ \A p \in FirstRequests \ {q} :
               /\ req'[p].pc = req[p].pc
               /\ p \in Course!Creating => req'[p].crossed = TRUE
               /\ p \notin Course!Creating => req'[p] = req[p]
      <4>1. PICK others : others = Course!Creating
        OBVIOUS
      <4>2. \A p \in others : p \in FirstRequests /\ req[p].pc \notin {"start", "dead"}
        BY <4>1 DEF Course!Creating
      <4>3. ASSUME NEW to \in CourseRequest, Course!Cross(q, to, others)
            PROVE  /\ req' \in [FirstRequests -> CourseRequest]
                   /\ req'[q] = to
                   /\ \A p \in FirstRequests \ {q} :
                        /\ req'[p].pc = req[p].pc
                        /\ p \in others => req'[p].crossed = TRUE
                        /\ p \notin others => req'[p] = req[p]
        <5>1. CourseInv
          OBVIOUS
        <5>. HIDE DEF CourseInv
        <5>2. req' \in [FirstRequests -> CourseRequest]
          BY <4>2, <4>3, <5>1, OthersCrossed
        <5>3. req'[q] = to
          BY <4>2, <4>3, <5>1, OthersCrossed
        <5>4. ASSUME NEW p \in FirstRequests \ {q}
              PROVE  /\ req'[p].pc = req[p].pc
                     /\ p \in others => req'[p].crossed = TRUE
                     /\ p \notin others => req'[p] = req[p]
          BY <4>2, <4>3, <5>1, OthersCrossed
        <5>. QED
          BY <5>2, <5>3, <5>4
      <4>4. Course!Cross(q, n, others) /\ n \in CourseRequest
        BY <3>1, <3>3, <4>1
      <4>5. /\ req' \in [FirstRequests -> CourseRequest] /\ req'[q] = n
            /\ \A p \in FirstRequests \ {q} :
                 /\ req'[p].pc = req[p].pc
                 /\ p \in others => req'[p].crossed = TRUE
                 /\ p \notin others => req'[p] = req[p]
        BY <4>3, <4>4
      <4>. QED
        BY <4>1, <4>5
    <3>6. CourseKnows(q)'
      BY <3>2, <3>3, <3>4, <3>5 DEF CourseKnows, OnCourse
    <3>7. ASSUME NEW p \in FirstRequests \ {q} PROVE CourseKnows(p)'
      <4>1. CASE req[p].pc = "create"
        BY <3>5, <4>1 DEF CourseKnows, OnCourse, Course!Creating
      <4>2. CASE req[p].pc # "create"
        <5>1. req'[p] = req[p] /\ CourseKnows(p)
          BY <3>5, <4>2 DEF Course!Creating
        <5>2. OnCourse(p) => courses'[req[p].course] = courses[req[p].course]
          BY <3>4, <5>1 DEF CourseKnows
        <5>. QED
          BY <3>4, <4>2, <5>1, <5>2 DEF CourseKnows, OnCourse
      <4>. QED
        BY <4>1, <4>2
    <3>8. ASSUME NEW c \in 1..Len(courses') PROVE RowsAreWhole(c)' /\ (courses'[c].extra \/ c = 1)
      <4>1. CASE c \in 1..Len(courses)
        BY <3>1, <3>4, <4>1 DEF RowsAreWhole
      <4>2. CASE c = Len(courses) + 1
        <5>1. \A s \in Default : <<c, s>> \notin removed
          BY <4>2
        <5>2. ~ y.extra => c = 1
          BY <2>1, <3>2, <4>2
        <5>. QED
          BY <3>1, <3>2, <3>4, <4>2, <5>1, <5>2 DEF RowsAreWhole
      <4>. QED
        BY <3>4, <4>1, <4>2
    <3>9. FixedCode => Len(courses') <= 1
      BY <2>b, <3>4
    <3>10. \A c \in Nat, s \in Default : <<c, s>> \in removed' => c <= Len(courses')
      BY <3>1, <3>4
    <3>. QED
      BY <3>4, <3>5, <3>6, <3>7, <3>8, <3>9, <3>10
  <2>. QED
    BY <2>a, <2>b
<1>6. CASE Course!Check(q) \/ Course!Count(q)
  <2> DEFINE x == courses[req[q].course]
             to == IF req[q].pc = "check" THEN IF req[q].seeded THEN "done" ELSE "count"
                   ELSE IF x.rows # {} THEN "mark" ELSE "seed"
             n == [req[q] EXCEPT !.pc = to]
  <2>1. /\ req' = [req EXCEPT ![q] = n] /\ UNCHANGED <<courses, removed>>
        /\ req[q].pc \in {"check", "count"} /\ OnCourse(q)
    BY <1>6 DEF Course!Check, Course!Count, Course!AlreadySeeded, OnCourse
  <2>2. /\ n \in CourseRequest /\ n.pc = to /\ n.course = req[q].course
        /\ n.seeded = req[q].seeded /\ n.crossed = req[q].crossed
    BY <1>q, <2>1 DEF CourseRequest
  <2>3. req'[q] = n
    BY <2>1
  <2>4. x \in CourseRow /\ (~ x.seeded => x.rows \in {{}, Default})
    BY <1>r, <2>1 DEF RowsAreWhole
  <2>. HIDE DEF n
  <2>5. CourseKnows(q)'
    BY <1>2, <2>1, <2>2, <2>3, <2>4 DEF CourseKnows, OnCourse
  <2>. QED
    BY <1>3, <2>1, <2>2, <2>5
<1>7. CASE Course!Seed(q)
  <2> DEFINE c == req[q].course
             x == courses[c]
             y == [x EXCEPT !.rows = @ \cup Default, !.again = @ \/ req[q].crossed]
             n == [req[q] EXCEPT !.pc = "mark"]
  <2>1. /\ req[q].pc = "seed" /\ Course!Update(c, y) /\ Course!Cross(q, n, Course!Unaware(c))
        /\ removed' = removed /\ OnCourse(q)
    BY <1>7 DEF Course!Seed, Course!RowsSeeded, OnCourse
  <2>2. c \in 1..Len(courses) /\ x \in CourseRow /\ RowsAreWhole(c) /\ req[q].crossed \in BOOLEAN
    BY <1>q, <1>r, <2>1
  <2>3. y \in CourseRow /\ y.rows = Default /\ y.seeded = x.seeded /\ y.extra = x.extra
        /\ (~ y.again => ~ x.again /\ ~ req[q].crossed)
    <3> DEFINE b == x.again \/ req[q].crossed
    <3>1. b \in BOOLEAN /\ (~ b => ~ x.again /\ ~ req[q].crossed)
      BY <2>2, Zenon DEF CourseRow
    <3>2. y = [x EXCEPT !.rows = x.rows \cup Default, !.again = b]
      BY <2>2 DEF CourseRow
    <3>. HIDE DEF b
    <3>3. /\ y.rows = x.rows \cup Default /\ y.seeded = x.seeded /\ y.extra = x.extra /\ y.again = b
          /\ y \in CourseRow
      BY <2>2, <3>1, <3>2 DEF CourseRow
    <3>4. x.rows \cup Default = Default
      BY <2>2 DEF CourseRow
    <3>. HIDE DEF y
    <3>. QED
      BY <3>1, <3>3, <3>4
  <2>4. n \in CourseRequest /\ n.pc = "mark" /\ n.course = c
    BY <1>q, <2>1 DEF CourseRequest
  <2>5. ~ req[q].crossed => ~ x.seeded
    BY <1>2, <2>1 DEF CourseKnows
  <2>. HIDE DEF y, n
  <2>6. /\ courses' \in Seq(CourseRow) /\ Len(courses') = Len(courses) /\ courses'[c] = y
        /\ \A d \in 1..Len(courses) : d # c => courses'[d] = courses[d]
    BY <2>1, <2>2, <2>3, CourseUpdated
  <2>7. /\ req' \in [FirstRequests -> CourseRequest] /\ req'[q] = n
        /\ \A p \in FirstRequests \ {q} :
             /\ req'[p].pc = req[p].pc
             /\ OnCourse(p) => req'[p].course = req[p].course /\ req'[p].seeded = req[p].seeded
             /\ p \in Course!Unaware(c) => req'[p].crossed = TRUE
             /\ p \notin Course!Unaware(c) => req'[p] = req[p]
    <3>1. \A p \in Course!Unaware(c) : p \in FirstRequests /\ req[p].pc \notin {"start", "dead"}
      BY DEF Course!Unaware
    <3>. QED
      BY <2>1, <2>4, <3>1, OthersCrossed
  <2>8. CourseKnows(q)'
    BY <2>2, <2>3, <2>4, <2>6, <2>7 DEF CourseKnows, OnCourse
  <2>9. ASSUME NEW p \in FirstRequests \ {q} PROVE CourseKnows(p)'
    <3>0. CourseKnows(p)
      OBVIOUS
    <3>1. CASE p \in Course!Unaware(c)
      <4>1. /\ req[p].pc \in {"check", "count", "seed"} /\ req[p].course = c /\ req'[p].crossed = TRUE
            /\ req'[p].pc = req[p].pc /\ req'[p].course = c /\ req'[p].seeded = req[p].seeded
        BY <2>7, <3>1 DEF Course!Unaware, OnCourse
      <4>. QED
        BY <2>2, <2>3, <2>6, <3>0, <4>1 DEF CourseKnows, OnCourse
    <3>2. CASE p \notin Course!Unaware(c)
      <4>1. req'[p] = req[p]
        BY <2>7, <3>2
      <4>2. CASE OnCourse(p) /\ req[p].course = c
        <5>1. req[p].pc \in {"mark", "done"}
          BY <3>2, <4>2 DEF Course!Unaware, OnCourse
        <5>. QED
          BY <2>2, <2>3, <2>6, <3>0, <4>1, <4>2, <5>1 DEF CourseKnows, OnCourse
      <4>3. CASE OnCourse(p) /\ req[p].course # c
        <5>1. courses'[req[p].course] = courses[req[p].course]
          BY <2>6, <3>0, <4>3 DEF CourseKnows
        <5>. QED
          BY <2>6, <3>0, <4>1, <4>3, <5>1 DEF CourseKnows, OnCourse
      <4>4. CASE ~ OnCourse(p)
        <5>1. courses # << >>
          BY <2>2
        <5>. QED
          BY <3>0, <4>1, <4>4, <5>1 DEF CourseKnows, OnCourse
      <4>. QED
        BY <4>2, <4>3, <4>4
    <3>. QED
      BY <3>1, <3>2
  <2>10. ASSUME NEW d \in 1..Len(courses') PROVE RowsAreWhole(d)' /\ (courses'[d].extra \/ d = 1)
    <3>1. CASE d # c
      BY <2>1, <2>6, <3>1 DEF RowsAreWhole
    <3>2. CASE d = c
      BY <2>1, <2>2, <2>3, <2>5, <2>6, <3>2 DEF RowsAreWhole
    <3>. QED
      BY <3>1, <3>2
  <2>. QED
    BY <2>1, <2>6, <2>7, <2>8, <2>9, <2>10
<1>8. CASE Course!Mark(q)
  <2> DEFINE c == req[q].course
             x == courses[c]
             y == [x EXCEPT !.seeded = TRUE]
             n == [req[q] EXCEPT !.pc = "done"]
  <2>1. /\ req[q].pc = "mark" /\ Course!Update(c, y) /\ Course!Cross(q, n, Course!Unaware(c))
        /\ removed' = removed /\ OnCourse(q)
    BY <1>8 DEF Course!Mark, OnCourse
  <2>2. c \in 1..Len(courses) /\ x \in CourseRow /\ RowsAreWhole(c)
    BY <1>r, <2>1
  <2>3. y \in CourseRow /\ y.rows = x.rows /\ y.seeded = TRUE /\ y.extra = x.extra /\ y.again = x.again
    BY <2>2 DEF CourseRow
  <2>4. n \in CourseRequest /\ n.pc = "done" /\ n.course = c
    BY <1>q, <2>1 DEF CourseRequest
  <2>5. x.seeded \/ x.rows = Default
    BY <1>2, <2>1 DEF CourseKnows
  <2>. HIDE DEF y, n
  <2>6. /\ courses' \in Seq(CourseRow) /\ Len(courses') = Len(courses) /\ courses'[c] = y
        /\ \A d \in 1..Len(courses) : d # c => courses'[d] = courses[d]
    BY <2>1, <2>2, <2>3, CourseUpdated
  <2>7. /\ req' \in [FirstRequests -> CourseRequest] /\ req'[q] = n
        /\ \A p \in FirstRequests \ {q} :
             /\ req'[p].pc = req[p].pc
             /\ OnCourse(p) => req'[p].course = req[p].course /\ req'[p].seeded = req[p].seeded
             /\ p \in Course!Unaware(c) => req'[p].crossed = TRUE
             /\ p \notin Course!Unaware(c) => req'[p] = req[p]
    <3>1. \A p \in Course!Unaware(c) : p \in FirstRequests /\ req[p].pc \notin {"start", "dead"}
      BY DEF Course!Unaware
    <3>. QED
      BY <2>1, <2>4, <3>1, OthersCrossed
  <2>8. CourseKnows(q)'
    BY <2>2, <2>3, <2>4, <2>6, <2>7 DEF CourseKnows, OnCourse
  <2>9. ASSUME NEW p \in FirstRequests \ {q} PROVE CourseKnows(p)'
    <3>0. CourseKnows(p)
      OBVIOUS
    <3>1. CASE p \in Course!Unaware(c)
      <4>1. /\ req[p].pc \in {"check", "count", "seed"} /\ req[p].course = c /\ req'[p].crossed = TRUE
            /\ req'[p].pc = req[p].pc /\ req'[p].course = c /\ req'[p].seeded = req[p].seeded
        BY <2>7, <3>1 DEF Course!Unaware, OnCourse
      <4>. QED
        BY <2>2, <2>3, <2>6, <3>0, <4>1 DEF CourseKnows, OnCourse
    <3>2. CASE p \notin Course!Unaware(c)
      <4>1. req'[p] = req[p]
        BY <2>7, <3>2
      <4>2. CASE OnCourse(p) /\ req[p].course = c
        <5>1. req[p].pc \in {"mark", "done"}
          BY <3>2, <4>2 DEF Course!Unaware, OnCourse
        <5>. QED
          BY <2>2, <2>3, <2>6, <3>0, <4>1, <4>2, <5>1 DEF CourseKnows, OnCourse
      <4>3. CASE OnCourse(p) /\ req[p].course # c
        <5>1. courses'[req[p].course] = courses[req[p].course]
          BY <2>6, <3>0, <4>3 DEF CourseKnows
        <5>. QED
          BY <2>6, <3>0, <4>1, <4>3, <5>1 DEF CourseKnows, OnCourse
      <4>4. CASE ~ OnCourse(p)
        <5>1. courses # << >>
          BY <2>2
        <5>. QED
          BY <3>0, <4>1, <4>4, <5>1 DEF CourseKnows, OnCourse
      <4>. QED
        BY <4>2, <4>3, <4>4
    <3>. QED
      BY <3>1, <3>2
  <2>10. ASSUME NEW d \in 1..Len(courses') PROVE RowsAreWhole(d)' /\ (courses'[d].extra \/ d = 1)
    <3>1. CASE d # c
      BY <2>1, <2>6, <3>1 DEF RowsAreWhole
    <3>2. CASE d = c
      BY <2>1, <2>2, <2>3, <2>5, <2>6, <3>2 DEF RowsAreWhole
    <3>. QED
      BY <3>1, <3>2
  <2>. QED
    BY <2>1, <2>6, <2>7, <2>8, <2>9, <2>10
<1>9. CASE Course!Die(q)
  <2> DEFINE n == [pc |-> "dead"]
  <2>1. req' = [req EXCEPT ![q] = n] /\ UNCHANGED <<courses, removed>>
    BY <1>9 DEF Course!Die, Course!Dead
  <2>2. n \in CourseRequest
    BY DEF CourseRequest
  <2>3. CourseKnows(q)'
    BY <2>1 DEF CourseKnows, OnCourse
  <2>. HIDE DEF n
  <2>. QED
    BY <1>3, <2>1, <2>2, <2>3
<1>10. ASSUME NEW s \in Default, Course!RemoveStudent(q, s)
       PROVE  CourseInv'
  <2> DEFINE c == req[q].course
             x == courses[c]
             y == [x EXCEPT !.rows = @ \ {s}]
  <2>1. /\ req[q].pc = "done" /\ Course!Update(c, y) /\ removed' = removed \cup {<<c, s>>}
        /\ req' = req /\ OnCourse(q)
    BY <1>10 DEF Course!RemoveStudent, OnCourse
  <2>2. c \in 1..Len(courses) /\ x \in CourseRow /\ RowsAreWhole(c) /\ x.seeded
    BY <1>2, <1>r, <2>1 DEF CourseKnows
  <2>3. y \in CourseRow /\ y.rows = x.rows \ {s} /\ y.seeded = TRUE /\ y.extra = x.extra /\ y.again = x.again
    BY <2>2 DEF CourseRow
  <2>. HIDE DEF y
  <2>6. /\ courses' \in Seq(CourseRow) /\ Len(courses') = Len(courses) /\ courses'[c] = y
        /\ \A d \in 1..Len(courses) : d # c => courses'[d] = courses[d]
    BY <2>1, <2>2, <2>3, CourseUpdated
  <2>7. ASSUME NEW p \in FirstRequests PROVE CourseKnows(p)'
    <3>0. CourseKnows(p)
      OBVIOUS
    <3>1. CASE OnCourse(p) /\ req[p].course = c
      BY <2>1, <2>2, <2>3, <2>6, <3>0, <3>1 DEF CourseKnows, OnCourse
    <3>2. CASE OnCourse(p) /\ req[p].course # c
      <4>1. courses'[req[p].course] = courses[req[p].course]
        BY <2>6, <3>0, <3>2 DEF CourseKnows
      <4>. QED
        BY <2>1, <2>6, <3>0, <3>2, <4>1 DEF CourseKnows, OnCourse
    <3>3. CASE ~ OnCourse(p)
      <4>1. courses # << >>
        BY <2>2
      <4>. QED
        BY <2>1, <3>0, <3>3, <4>1 DEF CourseKnows, OnCourse
    <3>. QED
      BY <3>1, <3>2, <3>3
  <2>8. ASSUME NEW d \in 1..Len(courses') PROVE RowsAreWhole(d)' /\ (courses'[d].extra \/ d = 1)
    <3>1. CASE d # c
      BY <2>1, <2>6, <3>1 DEF RowsAreWhole
    <3>2. CASE d = c
      BY <2>1, <2>2, <2>3, <2>6, <3>2 DEF RowsAreWhole
    <3>. QED
      BY <3>1, <3>2
  <2>9. \A d \in Nat, t \in Default : <<d, t>> \in removed' => d <= Len(courses')
    BY <2>1, <2>2, <2>6
  <2>. QED
    BY <2>1, <2>6, <2>7, <2>8, <2>9
<1>. QED
  BY <1>1, <1>4, <1>5, <1>6, <1>7, <1>8, <1>9, <1>10

\* What a request that has the course may rely on.
LEMMA CourseHolds ==
  ASSUME StoresAssumption, CourseInv
  PROVE  Course!TypeOK /\ Course!OneCourse /\ Course!RemovedStaysRemoved /\ Course!SeededInFull
<1>. USE DEF CourseInv
<1>1. Course!Ids = 1..Len(courses) /\ \A c \in 1..Len(courses) : courses[c] \in CourseRow
  BY DEF Course!Ids
<1>2. \A q \in FirstRequests :
        /\ req[q].pc \in {"start", "create", "check", "count", "seed", "mark", "done", "dead"}
        /\ req[q].pc \notin {"start", "create", "dead"} => OnCourse(q) /\ req[q].course \in 1..Len(courses)
  BY DEF CourseRequest, CourseKnows, OnCourse
<1>3. Course!TypeOK
  <2>1. \A c \in Course!Ids : courses[c].rows \subseteq Default
    BY <1>1 DEF CourseRow
  <2>2. \A q \in FirstRequests : req[q].pc = "mark" =>
          courses[req[q].course].seeded \/ courses[req[q].course].rows # {}
    BY DEF CourseKnows, StoresAssumption
  <2>. QED
    BY <1>1, <1>2, <2>1, <2>2 DEF Course!TypeOK
<1>4. Course!OneCourse
  <2>1. ASSUME NEW c \in 1..Len(courses), NEW d \in 1..Len(courses), c # d
        PROVE  ~ FixedCode /\ (courses[c].extra \/ courses[d].extra)
    BY <2>1
  <2>. QED
    BY <1>2, <2>1 DEF Course!OneCourse
<1>5. Course!RemovedStaysRemoved
  BY <1>1 DEF Course!RemovedStaysRemoved, RowsAreWhole
<1>6. Course!SeededInFull
  BY <1>2 DEF Course!SeededInFull, RowsAreWhole, CourseKnows
<1>. QED
  BY <1>3, <1>4, <1>5, <1>6

-----------------------------------------------------------------------------
(* The roster, whose requests overlap.                                     *)

Keys == Numbers \X Names
RosterRow == [id : 1..MaxRows, school : Schools, sid : Numbers, name : Names, order : Nat, active : BOOLEAN]
Trace == [kind : Class!Kinds, key : Keys, owner : 1..MaxRows]

RowsDiffer ==
  \A x, y \in roster : x.id = y.id \/ Class!KeyOf(x) = Class!KeyOf(y) => x = y
OrdersLag == \A x \in roster : x.order < x.id /\ x.id < nextId
OwnersLag == \A d \in data : d.owner < nextId

\* The student of this row has logged in.
HasLogin(x) == Class!Stored("student", Class!KeyOf(x))

\* What keeps the rows elsewhere with their student: one that nobody wrote for
\* too late has its row, whose key it carries and which a login holds.
Anchored ==
  \A d \in data : d.owner \notin crossed =>
    \E x \in roster : /\ x.id = d.owner /\ HasLogin(x)
                      /\ d.kind # "research" => d.key = Class!KeyOf(x)

\* What a request has read, of a roster that may have changed since.
ClassKnows(q) ==
  /\ req[q].pc \in {"idle", "order", "insert", "check", "rename", "count", "remove",
                    "student", "session", "save"}
  /\ req[q].pc \in {"order", "insert", "check", "rename"} => req[q].input \in Class!Inputs
  /\ req[q].pc = "insert" => req[q].order \in Nat /\ req[q].order < nextId
  /\ req[q].pc \in {"check", "rename", "count", "remove"} => req[q].row \in RosterRow
  /\ req[q].pc \in {"student", "session", "save"} =>
       req[q].key \in Keys /\ req[q].owner \in 1..MaxRows /\ req[q].owner < nextId
  /\ req[q].pc \in {"session", "save"} => \A x \in roster :
       req[q].owner = x.id /\ x.id \notin crossed => HasLogin(x)

ClassInv ==
  /\ roster \subseteq RosterRow /\ data \subseteq Trace
  /\ nextId \in Nat \ {0}
  /\ crossed \subseteq 1..MaxRows
  /\ req = [q \in Editors |-> req[q]]
  /\ RowsDiffer /\ OrdersLag /\ OwnersLag /\ Anchored
  /\ \A q \in Editors : ClassKnows(q)

LEMMA ClassInit == Class!Init => ClassInv
BY DEF Class!Init, Class!Idle, ClassInv, RowsDiffer, OrdersLag, OwnersLag, Anchored, ClassKnows

\* A request goes on.
LEMMA ClassGoesOn ==
  ASSUME ClassInv, NEW q \in Editors, UNCHANGED <<roster, data, nextId, crossed>>,
         NEW r, req' = [req EXCEPT ![q] = r], ClassKnows(q)'
  PROVE  ClassInv'
<1>1. \A p \in Editors : ClassKnows(p)'
  BY DEF ClassInv, ClassKnows, HasLogin, Class!Stored
<1>2. RowsDiffer' /\ OrdersLag' /\ OwnersLag' /\ Anchored'
  BY DEF ClassInv, RowsDiffer, OrdersLag, OwnersLag, Anchored, HasLogin, Class!Stored
<1>. QED
  BY <1>1, <1>2 DEF ClassInv

\* The greatest of some numbers below a bound.
LEMMA GreatestIn ==
  ASSUME NEW n \in Nat, NEW S \in SUBSET (0..n), S # {}
  PROVE  \E g \in S : \A y \in S : y <= g
<1> DEFINE Less == {p \in Nat \X Nat : p[1] < p[2]}
           T == {n - x : x \in S}
<1>1. IsWellFoundedOn(Less, Nat)
  BY NatLessThanWellFounded DEF OpToRel
<1>2. T \subseteq Nat /\ \A x \in S : n - x \in T
  OBVIOUS
<1>a. T # {}
  BY <1>2
<1>. HIDE DEF Less
<1>3. PICK m \in T : \A y \in T : ~ (<<y, m>> \in Less)
  BY <1>1, <1>2, <1>a, WFMin
<1>4. PICK g \in S : m = n - g
  BY <1>3
<1>5. ASSUME NEW y \in S PROVE y <= g
  <2>1. <<n - y, m>> \in Nat \X Nat /\ <<n - y, m>> \notin Less
    BY <1>2, <1>3
  <2>2. ~ (<<n - y, m>>[1] < <<n - y, m>>[2])
    BY <2>1 DEF Less
  <2>. QED
    BY <1>4, <2>2
<1>. QED
  BY <1>5

\* A new student's order is below the number that the row will have.
LEMMA NextOrderFits ==
  ASSUME ClassInv
  PROVE  Class!NextOrder \in Nat /\ Class!NextOrder < nextId
<1> DEFINE Orders == {x.order : x \in roster}
<1>1. CASE roster = {}
  BY <1>1 DEF Class!NextOrder, ClassInv
<1>2. CASE roster # {}
  <2>1. Orders \subseteq 0..nextId /\ \A o \in Orders : o + 1 < nextId
    BY DEF ClassInv, OrdersLag, RosterRow
  <2>2. nextId \in Nat /\ Orders # {}
    BY <1>2 DEF ClassInv
  <2>. HIDE DEF Orders
  <2>3. \E g \in Orders : \A y \in Orders : y <= g
    BY <2>1, <2>2, GreatestIn
  <2>. USE DEF Orders
  <2>4. \E g \in Orders : \A y \in roster : y.order <= g
    BY <2>3
  <2> DEFINE g == CHOOSE n \in Orders : \A y \in roster : y.order <= n
  <2>5. g \in Orders
    BY <2>4
  <2>6. Class!NextOrder = 1 + g
    BY <1>2 DEF Class!NextOrder
  <2>. HIDE DEF g, Orders
  <2>. QED
    BY <2>1, <2>2, <2>5, <2>6
<1>. QED
  BY <1>1, <1>2

\* Requests that only read.
LEMMA ClassReads ==
  ASSUME StoresAssumption, ClassInv, NEW q \in Editors,
         \/ \E x \in Class!Inputs : Class!StartAdd(q, x)
         \/ \E old \in roster : Class!StartLogin(q, old) \/ Class!StartDelete(q, old)
         \/ \E old \in roster, x \in Class!Inputs : Class!StartEdit(q, old, x)
         \/ \E s \in data : Class!StartWork(q, s)
         \/ Class!ReadOrder(q) \/ Class!Check(q) \/ Class!Count(q)
  PROVE  ClassInv'
<1>. USE DEF Class!Start, Class!Go, Class!End, Class!Idle
<1>1. /\ roster \subseteq RosterRow /\ data \subseteq Trace
      /\ req = [p \in Editors |-> req[p]] /\ nextId \in Nat
  BY DEF ClassInv
<1>2. ClassKnows(q)
  BY DEF ClassInv
<1>4. ASSUME NEW x \in Class!Inputs, Class!StartAdd(q, x)
      PROVE  ClassInv'
  <2>1. UNCHANGED <<roster, data, nextId, crossed>> /\ req' = [req EXCEPT ![q] = [pc |-> "order", input |-> x]]
    BY <1>4 DEF Class!StartAdd
  <2>2. ClassKnows(q)'
    BY <1>1, <2>1 DEF ClassKnows
  <2>. QED
    BY <2>1, <2>2, ClassGoesOn
<1>5. ASSUME NEW x \in roster, Class!StartLogin(q, x)
      PROVE  ClassInv'
  <2>1. /\ UNCHANGED <<roster, data, nextId, crossed>>
        /\ req' = [req EXCEPT ![q] = [pc |-> "student", key |-> Class!KeyOf(x), owner |-> x.id]]
    BY <1>5 DEF Class!StartLogin
  <2>2. Class!KeyOf(x) \in Keys /\ x.id \in 1..MaxRows /\ x.id < nextId
    BY <1>1 DEF Class!KeyOf, Keys, RosterRow, ClassInv, OrdersLag
  <2>3. ClassKnows(q)'
    BY <1>1, <2>1, <2>2 DEF ClassKnows
  <2>. QED
    BY <2>1, <2>3, ClassGoesOn
<1>6. ASSUME NEW x \in roster, Class!StartDelete(q, x)
      PROVE  ClassInv'
  <2>1. UNCHANGED <<roster, data, nextId, crossed>> /\ req' = [req EXCEPT ![q] = [pc |-> "count", row |-> x]]
    BY <1>6 DEF Class!StartDelete
  <2>2. ClassKnows(q)'
    BY <1>1, <2>1 DEF ClassKnows
  <2>. QED
    BY <2>1, <2>2, ClassGoesOn
<1>7. ASSUME NEW old \in roster, NEW x \in Class!Inputs, Class!StartEdit(q, old, x)
      PROVE  ClassInv'
  <2>1. /\ UNCHANGED <<roster, data, nextId, crossed>>
        /\ req' = [req EXCEPT ![q] = [pc |-> "check", row |-> old, input |-> x]]
    BY <1>7 DEF Class!StartEdit
  <2>2. ClassKnows(q)'
    BY <1>1, <2>1 DEF ClassKnows
  <2>. QED
    BY <2>1, <2>2, ClassGoesOn
<1>8. ASSUME NEW s \in data, Class!StartWork(q, s)
      PROVE  ClassInv'
  <2>1. /\ UNCHANGED <<roster, data, nextId, crossed>> /\ s.kind = "session"
        /\ req' = [req EXCEPT ![q] = [pc |-> "save", key |-> s.key, owner |-> s.owner]]
        /\ s.key \in Keys /\ s.owner \in 1..MaxRows
    BY <1>1, <1>8 DEF Class!StartWork, Trace
  <2>2. s.owner < nextId
    BY <1>1, <1>8, <2>1 DEF Class!StartWork, ClassInv, OwnersLag
  <2>3. \A x \in roster : s.owner = x.id /\ x.id \notin crossed => HasLogin(x)
    BY <2>1 DEF ClassInv, Anchored, RowsDiffer
  <2>4. ClassKnows(q)'
    BY <1>1, <2>1, <2>2, <2>3 DEF ClassKnows, HasLogin, Class!Stored
  <2>. QED
    BY <2>1, <2>4, ClassGoesOn
<1>9. CASE Class!Check(q)
  <2>1. /\ UNCHANGED <<roster, data, nextId, crossed>> /\ req[q].pc = "check"
        /\ \/ req' = [req EXCEPT ![q] = [pc |-> "idle"]]
           \/ req' = [req EXCEPT ![q] = [pc |-> "rename", row |-> req[q].row, input |-> req[q].input]]
    BY <1>9 DEF Class!Check
  <2>2. ClassKnows(q)'
    BY <1>1, <1>2, <2>1 DEF ClassKnows
  <2>. QED
    BY <2>1, <2>2, ClassGoesOn
<1>10. CASE Class!Count(q)
  <2> DEFINE any == Class!HasData(Class!KeyOf(req[q].row))
  <2>1. /\ UNCHANGED <<roster, data, nextId, crossed>> /\ req[q].pc = "count"
        /\ req' = [req EXCEPT ![q] = [pc |-> "remove", row |-> req[q].row, hasAnyData |-> any]]
    BY <1>10 DEF Class!Count
  <2>. HIDE DEF any
  <2>3. ClassKnows(q)'
    BY <1>1, <1>2, <2>1 DEF ClassKnows
  <2>. QED
    BY <2>1, <2>3, ClassGoesOn
<1>11. CASE Class!ReadOrder(q)
  <2>1. Class!NextOrder \in Nat /\ Class!NextOrder < nextId
    BY NextOrderFits
  <2>2. /\ UNCHANGED <<roster, data, nextId, crossed>> /\ req[q].pc = "order"
        /\ req' = [req EXCEPT ![q] = [pc |-> "insert", input |-> req[q].input, order |-> Class!NextOrder]]
    BY <1>11 DEF Class!ReadOrder
  <2>3. ClassKnows(q)'
    BY <1>1, <1>2, <2>1, <2>2 DEF ClassKnows
  <2>. QED
    BY <2>2, <2>3, ClassGoesOn
<1>. QED
  BY <1>4, <1>5, <1>6, <1>7, <1>8, <1>9, <1>10, <1>11

\* A request ends; what it changed leaves every login, or its row is crossed.
LEMMA ClassEnds ==
  ASSUME ClassInv, NEW q \in Editors, req' = [req EXCEPT ![q] = [pc |-> "idle"]],
         nextId' \in Nat, nextId <= nextId', crossed \subseteq crossed',
         \A x \in roster' : x.id \notin crossed' =>
           \/ x.id = nextId
           \/ \E y \in roster : y.id = x.id /\ (HasLogin(y) => HasLogin(x)')
  PROVE  req' = [p \in Editors |-> req'[p]] /\ \A p \in Editors : ClassKnows(p)'
<1>1. req = [p \in Editors |-> req[p]] /\ nextId \in Nat
  BY DEF ClassInv
<1>2. ClassKnows(q)'
  BY <1>1 DEF ClassKnows
<1>3. ASSUME NEW p \in Editors, p # q PROVE ClassKnows(p)'
  <2>1. ClassKnows(p) /\ req'[p] = req[p]
    BY <1>1, <1>3 DEF ClassInv
  <2>2. ASSUME req[p].pc \in {"session", "save"}, NEW x \in roster', req[p].owner = x.id, x.id \notin crossed'
        PROVE  HasLogin(x)'
    <3>1. req[p].owner # nextId
      BY <1>1, <2>1, <2>2 DEF ClassKnows
    <3>2. PICK y \in roster : y.id = x.id /\ (HasLogin(y) => HasLogin(x)')
      BY <2>2, <3>1
    <3>. QED
      BY <2>1, <2>2, <3>2 DEF ClassKnows
  <2>. QED
    BY <1>1, <2>1, <2>2 DEF ClassKnows
<1>. QED
  BY <1>1, <1>2, <1>3

\* Requests that change rows of the roster.
LEMMA ClassInserts ==
  ASSUME StoresAssumption, ClassInv, NEW q \in Editors, Class!Insert(q)
  PROVE  ClassInv'
<1>. USE DEF Class!Go, Class!End, Class!Idle
<1>1. /\ roster \subseteq RosterRow /\ data \subseteq Trace /\ nextId \in Nat \ {0}
      /\ RowsDiffer /\ OrdersLag /\ OwnersLag /\ Anchored /\ crossed \subseteq 1..MaxRows
  BY DEF ClassInv
<1>2. ClassKnows(q)
  BY DEF ClassInv
<1> DEFINE Refused == Class!Duplicate(req[q].input, None) \/ nextId > MaxRows
<1>5. CASE Refused
  <2>1. UNCHANGED <<roster, data, nextId, crossed>> /\ req' = [req EXCEPT ![q] = [pc |-> "idle"]]
    BY <1>5 DEF Class!Insert
  <2>2. ClassKnows(q)'
    BY <2>1 DEF ClassKnows, ClassInv
  <2>. QED
    BY <2>1, <2>2, ClassGoesOn
<1>6. CASE ~ Refused
  <2> DEFINE x == req[q].input
             n == [id |-> nextId, school |-> x.school, sid |-> x.sid,
                   name |-> x.name, order |-> req[q].order, active |-> TRUE]
  <2>1. /\ roster' = roster \cup {n} /\ nextId <= MaxRows /\ nextId' = nextId + 1
        /\ data' = data /\ crossed' = crossed
        /\ req' = [req EXCEPT ![q] = [pc |-> "idle"]] /\ req[q].pc = "insert"
    BY <1>1, <1>6, StoresAssumption DEF Class!Insert, StoresAssumption
  <2>2. n \in RosterRow /\ n.id = nextId /\ n.order < n.id /\ Class!KeyOf(n) = Class!KeyOf(x)
    BY <1>1, <1>2, <2>1 DEF ClassKnows, Class!Inputs, RosterRow, StoresAssumption, Class!KeyOf
  <2>3. \A y \in roster : y.id < nextId /\ Class!KeyOf(y) # Class!KeyOf(x)
    <3>1. ~ Class!Duplicate(x, None)
      BY <1>6
    <3>. QED
      BY <1>1, <3>1 DEF OrdersLag, Class!Duplicate, StoresAssumption, RosterRow
  <2>. HIDE DEF n, x
  <2>4. RowsDiffer' /\ OrdersLag' /\ OwnersLag'
    <3>1. RowsDiffer'
      BY <1>1, <2>1, <2>2, <2>3 DEF RowsDiffer
    <3>2. OrdersLag' /\ OwnersLag'
      BY <1>1, <2>1, <2>2 DEF OrdersLag, OwnersLag, RosterRow, Trace
    <3>. QED
      BY <3>1, <3>2
  <2>5. Anchored'
    BY <1>1, <2>1 DEF Anchored, HasLogin, Class!Stored
  <2>6. nextId' \in Nat \ {0} /\ roster' \subseteq RosterRow
    BY <1>1, <2>1, <2>2
  <2>7. \A y \in roster' : \/ y.id = nextId
                           \/ \E z \in roster : z.id = y.id /\ (HasLogin(z) => HasLogin(y)')
    BY <2>1, <2>2 DEF HasLogin, Class!Stored
  <2>8. req' = [p \in Editors |-> req'[p]] /\ \A p \in Editors : ClassKnows(p)'
    <3>1. nextId' \in Nat /\ nextId <= nextId' /\ crossed \subseteq crossed'
      BY <1>1, <2>1
    <3>. QED
      BY <2>1, <2>7, <3>1, ClassEnds
  <2>. QED
    BY <1>1, <2>1, <2>4, <2>5, <2>6, <2>8 DEF ClassInv
<1>. QED
  BY <1>5, <1>6

\* The traces stay as they are, and so does every row but one, which keeps its
\* key or goes.
LEMMA ClassRowChanges ==
  ASSUME ClassInv, NEW q \in Editors, req' = [req EXCEPT ![q] = [pc |-> "idle"]],
         UNCHANGED <<data, nextId>>, crossed \subseteq crossed', crossed' \subseteq 1..MaxRows,
         roster' \subseteq RosterRow,
         \A x \in roster' : \E y \in roster :
           x.id = y.id /\ x.order = y.order /\ Class!KeyOf(x) = Class!KeyOf(y),
         \A y \in roster : \/ \E x \in roster' : x.id = y.id /\ Class!KeyOf(x) = Class!KeyOf(y)
                           \/ y.id \in crossed' \/ ~ HasLogin(y),
         \A x, y \in roster' : x.id = y.id => x = y
  PROVE  ClassInv'
<1>1. /\ data \subseteq Trace /\ nextId \in Nat \ {0}
      /\ RowsDiffer /\ OrdersLag /\ OwnersLag /\ Anchored
  BY DEF ClassInv
<1>2. \A x, y : Class!KeyOf(x) = Class!KeyOf(y) => (HasLogin(x) => HasLogin(y)')
  BY DEF HasLogin, Class!Stored
<1>3. RowsDiffer' /\ OrdersLag' /\ OwnersLag'
  BY <1>1 DEF RowsDiffer, OrdersLag, OwnersLag
<1>4. Anchored'
  BY <1>1, <1>2 DEF Anchored
<1>5. req' = [p \in Editors |-> req'[p]] /\ \A p \in Editors : ClassKnows(p)'
  <2>1. \A x \in roster' : \E y \in roster : y.id = x.id /\ (HasLogin(y) => HasLogin(x)')
    BY <1>2
  <2>2. nextId' \in Nat /\ nextId <= nextId'
    BY <1>1
  <2>. QED
    BY <2>1, <2>2, ClassEnds
<1>. QED
  BY <1>1, <1>3, <1>4, <1>5 DEF ClassInv

\* A row is deleted or deactivated.
LEMMA ClassRemoves ==
  ASSUME ClassInv, NEW q \in Editors, Class!Remove(q)
  PROVE  ClassInv'
<1>. USE DEF Class!Go, Class!End, Class!Idle
<1> DEFINE id == req[q].row.id
           key == Class!KeyOf(req[q].row)
           off(y) == [y EXCEPT !.active = FALSE]
<1>1. /\ roster \subseteq RosterRow /\ RowsDiffer /\ crossed \subseteq 1..MaxRows
  BY DEF ClassInv
<1>2. req[q].row \in RosterRow
  BY DEF ClassInv, ClassKnows, Class!Remove
<1>3. /\ req' = [req EXCEPT ![q] = [pc |-> "idle"]] /\ UNCHANGED <<data, nextId>>
      /\ crossed' \in {crossed, crossed \cup {id}}
  BY DEF Class!Remove
<1>4. id \in 1..MaxRows
  BY <1>2 DEF RosterRow
<1>5. ASSUME NEW y \in roster
      PROVE  /\ off(y) \in RosterRow /\ off(y).id = y.id /\ off(y).order = y.order
             /\ Class!KeyOf(off(y)) = Class!KeyOf(y)
  BY <1>1 DEF RosterRow, Class!KeyOf
<1>. HIDE DEF off
<1>6. \A x \in roster' : \E y \in roster : x = y \/ x = off(y)
  <2>1. roster' \subseteq roster \cup {off(y) : y \in roster}
    BY DEF Class!Remove, Class!Rows, off
  <2>. QED
    BY <2>1
<1>7. \A y \in roster : y.id # id => y \in roster'
  BY DEF Class!Remove, Class!Rows
<1>9. ASSUME NEW y \in roster
      PROVE  \/ \E x \in roster' : x.id = y.id /\ Class!KeyOf(x) = Class!KeyOf(y)
             \/ y.id \in crossed' \/ ~ HasLogin(y)
  <2>1. CASE y.id # id
    BY <1>7, <2>1
  <2>2. CASE y.id = id /\ req[q].hasAnyData
    <3>1. off(y) \in roster'
      BY <2>2 DEF Class!Remove, Class!Rows, off
    <3>. QED
      BY <1>5, <3>1
  <2>3. CASE y.id = id /\ ~ req[q].hasAnyData
    <3>1. CASE Class!AsRead(id, key) /\ ~ Class!HasData(key)
      <4>1. key = Class!KeyOf(y)
        BY <1>1, <2>3, <3>1 DEF Class!AsRead, Class!Rows, RowsDiffer
      <4>2. ~ HasLogin(y)
        BY <3>1, <4>1 DEF HasLogin, Class!Stored, Class!HasData, Class!Counted
      <4>. QED
        BY <4>2
    <3>2. CASE ~ (Class!AsRead(id, key) /\ ~ Class!HasData(key))
      BY <2>3, <3>2 DEF Class!Remove
    <3>. QED
      BY <3>1, <3>2
  <2>. QED
    BY <2>1, <2>2, <2>3
<1>10. \A x, y \in roster' : x.id = y.id => x = y
  <2>1. ASSUME NEW x \in roster', x.id = id PROVE \E y \in roster : x = off(y) /\ y.id = id
    BY <1>5, <2>1 DEF Class!Remove, Class!Rows, off
  <2>2. ASSUME NEW x \in roster', x.id # id PROVE x \in roster
    <3>1. x \notin {off(y) : y \in Class!Rows(id)}
      BY <1>5, <2>2 DEF Class!Rows
    <3>. QED
      BY <3>1 DEF Class!Remove, off
  <2>. QED
    BY <1>1, <2>1, <2>2 DEF RowsDiffer
<1>11. crossed \subseteq crossed' /\ crossed' \subseteq 1..MaxRows
  BY <1>1, <1>3, <1>4
<1>12. roster' \subseteq RosterRow /\ \A x \in roster' : \E y \in roster :
           x.id = y.id /\ x.order = y.order /\ Class!KeyOf(x) = Class!KeyOf(y)
  BY <1>1, <1>5, <1>6
<1>. QED
  BY <1>3, <1>9, <1>10, <1>11, <1>12, ClassRowChanges

\* A row is corrected, and its traces are.
LEMMA ClassRenames ==
  ASSUME ClassInv, NEW q \in Editors, Class!Rename(q)
  PROVE  ClassInv'
<1>. USE DEF Class!Go, Class!End, Class!Idle
<1> DEFINE id == req[q].row.id
           x == req[q].input
           from == Class!KeyOf(req[q].row)
           moved(y) == [y EXCEPT !.school = x.school]
<1>1. /\ roster \subseteq RosterRow /\ data \subseteq Trace /\ nextId \in Nat \ {0}
      /\ RowsDiffer /\ OrdersLag /\ OwnersLag /\ Anchored /\ crossed \subseteq 1..MaxRows
  BY DEF ClassInv
<1>2. req[q].row \in RosterRow /\ x \in Class!Inputs
  BY DEF ClassInv, ClassKnows, Class!Rename
<1>3. req' = [req EXCEPT ![q] = [pc |-> "idle"]] /\ nextId' = nextId
  BY DEF Class!Rename
<1>4. id \in 1..MaxRows
  BY <1>2 DEF RosterRow
<1>5. CASE UNCHANGED <<roster, data, crossed>>
  <2>1. ClassKnows(q)'
    BY <1>3 DEF ClassKnows, ClassInv
  <2>. QED
    BY <1>3, <1>5, <2>1, ClassGoesOn
<1>6. CASE from = Class!KeyOf(x)
  <2>1. UNCHANGED <<data, crossed>>
    BY <1>6 DEF Class!Rename
  <2>2. roster' = {IF y.id = id THEN moved(y) ELSE y : y \in roster}
    BY <1>6 DEF Class!Rename
  <2>3. ASSUME NEW y \in roster
        PROVE  /\ moved(y) \in RosterRow /\ moved(y).id = y.id /\ moved(y).order = y.order
               /\ Class!KeyOf(moved(y)) = Class!KeyOf(y)
    BY <1>1, <1>2 DEF RosterRow, Class!KeyOf, Class!Inputs
  <2>. HIDE DEF moved
  <2>4. /\ roster' \subseteq RosterRow
        /\ \A n \in roster' : \E y \in roster :
             n.id = y.id /\ n.order = y.order /\ Class!KeyOf(n) = Class!KeyOf(y)
    BY <1>1, <2>2, <2>3
  <2>5. \A y \in roster : \E n \in roster' : n.id = y.id /\ Class!KeyOf(n) = Class!KeyOf(y)
    BY <2>2, <2>3
  <2>6. \A n, m \in roster' : n.id = m.id => n = m
    BY <1>1, <2>2, <2>3 DEF RowsDiffer
  <2>. QED
    BY <1>1, <1>3, <2>1, <2>4, <2>5, <2>6, ClassRowChanges
<1>7. CASE from # Class!KeyOf(x) /\ ~ UNCHANGED <<roster, data, crossed>>
  <2> DEFINE new(y) == IF y.id = id THEN Class!Edited(y, x) ELSE y
             now(d) == IF d.kind \in Class!Renamed /\ d.key = from
                       THEN [d EXCEPT !.key = Class!KeyOf(x)] ELSE d
             key == Class!KeyOf(x)
             Others == {y.id : y \in {z \in roster : Class!KeyOf(z) = from}}
  <2>1. /\ roster' = {new(y) : y \in roster} /\ data' = {now(d) : d \in data}
        /\ Class!Rows(id) # {} => ~ Class!Duplicate(x, id)
        /\ crossed' = IF Class!AsRead(id, from) THEN crossed ELSE crossed \cup {id} \cup Others
    BY <1>7 DEF Class!Rename
  <2>2. ASSUME NEW y \in roster
        PROVE  /\ new(y) \in RosterRow /\ new(y).id = y.id /\ new(y).order = y.order
               /\ y.id = id => Class!KeyOf(new(y)) = key
               /\ y.id # id => new(y) = y
    BY <1>1, <1>2 DEF RosterRow, Class!KeyOf, Class!Inputs, Class!Edited
  <2>3. ASSUME NEW d \in data
        PROVE  /\ now(d) \in Trace /\ now(d).kind = d.kind /\ now(d).owner = d.owner
               /\ now(d).key = IF d.kind # "research" /\ d.key = from THEN key ELSE d.key
    <3>1. key \in Keys
      BY <1>2 DEF Class!KeyOf, Class!Inputs, Keys
    <3>. HIDE DEF key
    <3>2. d \in Trace /\ (d.kind \in Class!Renamed <=> d.kind # "research")
      BY <1>1 DEF Trace, Class!Kinds, Class!Renamed
    <3>. QED
      BY <3>1, <3>2 DEF Trace, key
  <2>4. \A y \in roster : y.id # id /\ Class!Rows(id) # {} => Class!KeyOf(y) # key
    BY <2>1 DEF Class!Duplicate
  <2>. HIDE DEF new, now, key
  <2>5. RowsDiffer'
    <3>1. ASSUME NEW y \in roster, NEW z \in roster,
                 new(y).id = new(z).id \/ Class!KeyOf(new(y)) = Class!KeyOf(new(z))
          PROVE  y = z
      <4>1. CASE y.id = id /\ z.id = id
        BY <1>1, <4>1 DEF RowsDiffer
      <4>2. CASE y.id # id /\ z.id # id
        BY <1>1, <2>2, <3>1, <4>2 DEF RowsDiffer
      <4>3. CASE y.id = id /\ z.id # id
        BY <2>2, <2>4, <3>1, <4>3 DEF Class!Rows
      <4>4. CASE y.id # id /\ z.id = id
        BY <2>2, <2>4, <3>1, <4>4 DEF Class!Rows
      <4>. QED
        BY <4>1, <4>2, <4>3, <4>4
    <3>. QED
      BY <2>1, <3>1 DEF RowsDiffer
  <2>6. OrdersLag' /\ OwnersLag' /\ roster' \subseteq RosterRow /\ data' \subseteq Trace
    BY <1>1, <1>3, <2>1, <2>2, <2>3 DEF OrdersLag, OwnersLag
  <2>7. crossed \subseteq crossed' /\ crossed' \subseteq 1..MaxRows
    <3>1. Others \subseteq 1..MaxRows
      BY <1>1 DEF RosterRow
    <3>. QED
      BY <1>1, <1>4, <2>1, <3>1
  <2>8. ASSUME NEW y \in roster, y.id \notin crossed' PROVE (y.id = id) <=> (Class!KeyOf(y) = from)
    <3>1. CASE Class!AsRead(id, from)
      BY <1>1, <3>1 DEF Class!AsRead, Class!Rows, RowsDiffer
    <3>2. CASE ~ Class!AsRead(id, from)
      BY <2>1, <2>8, <3>2
    <3>. QED
      BY <3>1, <3>2
  <2>9. ASSUME NEW y \in roster, y.id \notin crossed', HasLogin(y), NEW z, z = new(y)
        PROVE  HasLogin(z)'
    <3>1. PICK d \in data : d.kind = "student" /\ d.key = Class!KeyOf(y)
      BY <2>9 DEF HasLogin, Class!Stored
    <3>2. now(d) \in data' /\ now(d).kind = "student" /\ now(d).key = Class!KeyOf(z)
      BY <2>1, <2>2, <2>3, <2>8, <2>9, <3>1
    <3>. QED
      BY <3>2 DEF HasLogin, Class!Stored
  <2>10. Anchored'
    <3>1. ASSUME NEW d \in data, d.owner \notin crossed'
          PROVE  \E z \in roster' : /\ z.id = d.owner /\ HasLogin(z)'
                                    /\ d.kind # "research" => now(d).key = Class!KeyOf(z)
      <4>1. PICK y \in roster : /\ y.id = d.owner /\ HasLogin(y)
                                /\ d.kind # "research" => d.key = Class!KeyOf(y)
        BY <1>1, <2>7, <3>1 DEF Anchored
      <4>a. PICK z \in roster' : z = new(y)
        BY <2>1
      <4>2. HasLogin(z)' /\ z.id = d.owner
        BY <2>2, <2>9, <3>1, <4>1, <4>a
      <4>3. d.kind # "research" => now(d).key = Class!KeyOf(z)
        BY <2>2, <2>3, <2>8, <3>1, <4>1, <4>a
      <4>. QED
        BY <4>2, <4>3
    <3>2. ASSUME NEW e \in data', e.owner \notin crossed'
          PROVE  \E z \in roster' : /\ z.id = e.owner /\ HasLogin(z)'
                                    /\ e.kind # "research" => e.key = Class!KeyOf(z)
      <4>1. PICK d \in data : e = now(d)
        BY <2>1
      <4>2. e.owner = d.owner /\ e.kind = d.kind
        BY <2>3, <4>1
      <4>. QED
        BY <3>1, <3>2, <4>1, <4>2
    <3>. QED
      BY <3>2 DEF Anchored
  <2>11. req' = [p \in Editors |-> req'[p]] /\ \A p \in Editors : ClassKnows(p)'
    <3>1. \A z \in roster' : z.id \notin crossed' =>
            \E y \in roster : y.id = z.id /\ (HasLogin(y) => HasLogin(z)')
      <4>1. ASSUME NEW z \in roster', z.id \notin crossed'
            PROVE  \E y \in roster : y.id = z.id /\ (HasLogin(y) => HasLogin(z)')
        <5>1. PICK y \in roster : z = new(y)
          BY <2>1
        <5>2. y.id = z.id
          BY <2>2, <5>1
        <5>. QED
          BY <2>9, <4>1, <5>1, <5>2
      <4>. QED
        BY <4>1
    <3>2. nextId' \in Nat /\ nextId <= nextId'
      BY <1>1, <1>3
    <3>. QED
      BY <1>3, <2>7, <3>1, <3>2, ClassEnds
  <2>. QED
    BY <1>1, <1>3, <2>5, <2>6, <2>7, <2>10, <2>11 DEF ClassInv
<1>. QED
  BY <1>5, <1>6, <1>7 DEF Class!Rename

\* The students' requests that write.
LEMMA ClassWork ==
  ASSUME ClassInv, NEW q \in Editors,
         Class!SaveStudent(q) \/ Class!OpenSession(q) \/ Class!SaveWork(q)
  PROVE  ClassInv'
<1>. USE DEF Class!Go, Class!End, Class!Idle
<1> DEFINE id == req[q].owner
           key == req[q].key
           rec(kind) == [kind |-> kind, key |-> key, owner |-> id]
<1>1. /\ roster \subseteq RosterRow /\ data \subseteq Trace /\ nextId \in Nat \ {0}
      /\ RowsDiffer /\ OrdersLag /\ OwnersLag /\ Anchored /\ crossed \subseteq 1..MaxRows
      /\ req = [p \in Editors |-> req[p]]
  BY DEF ClassInv
<1>2. ClassKnows(q)
  BY DEF ClassInv
<1>3. /\ req[q].pc \in {"student", "session", "save"} /\ UNCHANGED <<roster, nextId>>
      /\ req'[q].pc \in {"session", "idle"}
      /\ req'[q].pc = "session" => req[q].pc = "student" /\ req'[q].key = key /\ req'[q].owner = id
      /\ \A p \in Editors \ {q} : req'[p] = req[p]
      /\ req' = [p \in Editors |-> req'[p]]
      /\ crossed' = IF Class!AsRead(id, key) THEN crossed ELSE crossed \cup {id}
  BY <1>1 DEF Class!SaveStudent, Class!OpenSession, Class!SaveWork, Class!CrossLate
<1>4. key \in Keys /\ id \in 1..MaxRows /\ id < nextId
  BY <1>2, <1>3 DEF ClassKnows
<1>5. PICK Kinds \in SUBSET Class!Kinds :
        /\ data' = data \cup {rec(kind) : kind \in Kinds}
        /\ req[q].pc = "student" => \E d \in data' : d.kind = "student" /\ d.key = key
  <2>1. CASE Class!SaveStudent(q)
    <3>1. CASE Class!Stored("student", key)
      <4>1. data' = data
        BY <2>1, <3>1 DEF Class!SaveStudent
      <4>2. data' = data \cup {rec(kind) : kind \in {}}
        BY <4>1
      <4>3. \E d \in data' : d.kind = "student" /\ d.key = key
        BY <3>1, <4>1 DEF Class!Stored
      <4>. QED
        BY <4>2, <4>3
    <3>2. CASE ~ Class!Stored("student", key)
      <4>1. data' = data \cup {rec("student")}
        BY <2>1, <3>2 DEF Class!SaveStudent, Class!Record
      <4>2. rec("student") \in data' /\ rec("student").kind = "student" /\ rec("student").key = key
        BY <4>1
      <4>3. data' = data \cup {rec(kind) : kind \in {"student"}}
        BY <4>1
      <4>4. \E d \in data' : d.kind = "student" /\ d.key = key
        BY <4>2
      <4>5. {"student"} \in SUBSET Class!Kinds
        BY DEF Class!Kinds
      <4>. QED
        BY <4>3, <4>4, <4>5 DEF Class!Stored
    <3>. QED
      BY <3>1, <3>2
  <2>2. CASE Class!OpenSession(q)
    <3>1. data' = data \cup {rec(kind) : kind \in {"session"}} /\ req[q].pc # "student"
      BY <2>2 DEF Class!OpenSession, Class!Record
    <3>. QED
      BY <3>1 DEF Class!Kinds
  <2>3. CASE Class!SaveWork(q)
    <3>1. data' = data \cup {rec("work"), rec("research")} /\ req[q].pc # "student"
      BY <2>3 DEF Class!SaveWork, Class!Record
    <3>2. data' = data \cup {rec(kind) : kind \in {"work", "research"}}
      BY <3>1
    <3>. QED
      BY <3>1, <3>2 DEF Class!Kinds
  <2>. QED
    BY <2>1, <2>2, <2>3
<1>6. \A kind : rec(kind).kind = kind /\ rec(kind).key = key /\ rec(kind).owner = id
  OBVIOUS
<1>7. \A kind \in Class!Kinds : rec(kind) \in Trace
  BY <1>4 DEF Trace
<1>. HIDE DEF rec
<1>8. data \subseteq data' /\ data' \subseteq Trace /\ OwnersLag'
  BY <1>1, <1>3, <1>4, <1>5, <1>6, <1>7 DEF OwnersLag
<1>9. \A y : HasLogin(y) => HasLogin(y)'
  BY <1>8 DEF HasLogin, Class!Stored
<1>10. RowsDiffer' /\ OrdersLag'
  BY <1>1, <1>3 DEF RowsDiffer, OrdersLag
<1>11. crossed \subseteq crossed' /\ crossed' \subseteq 1..MaxRows
  BY <1>1, <1>3, <1>4
<1>12. ASSUME id \notin crossed'
       PROVE  \E y \in roster : y.id = id /\ Class!KeyOf(y) = key /\ HasLogin(y)'
  <2>1. PICK y \in roster : y.id = id /\ Class!KeyOf(y) = key
    BY <1>3, <1>12 DEF Class!AsRead, Class!Rows
  <2>2. CASE req[q].pc = "student"
    BY <1>5, <2>1, <2>2 DEF HasLogin, Class!Stored
  <2>3. CASE req[q].pc \in {"session", "save"}
    BY <1>2, <1>9, <1>11, <1>12, <2>1, <2>3 DEF ClassKnows
  <2>. QED
    BY <1>3, <2>1, <2>2, <2>3
<1>13. Anchored'
  <2>1. ASSUME NEW d \in data, d.owner \notin crossed'
        PROVE  \E x \in roster' : /\ x.id = d.owner /\ HasLogin(x)'
                                  /\ d.kind # "research" => d.key = Class!KeyOf(x)
    BY <1>1, <1>3, <1>9, <1>11, <2>1 DEF Anchored
  <2>2. ASSUME NEW kind \in Kinds, rec(kind).owner \notin crossed'
        PROVE  \E x \in roster' : /\ x.id = rec(kind).owner /\ HasLogin(x)'
                                  /\ rec(kind).key = Class!KeyOf(x)
    BY <1>3, <1>6, <1>12, <2>2
  <2>. QED
    BY <1>5, <2>1, <2>2 DEF Anchored
<1>14. ASSUME NEW p \in Editors PROVE ClassKnows(p)'
  <2>1. CASE p = q
    <3>1. ASSUME req'[q].pc = "session", NEW x \in roster', id = x.id, x.id \notin crossed'
          PROVE  HasLogin(x)'
      BY <1>1, <1>3, <1>12, <3>1 DEF RowsDiffer
    <3>. QED
      BY <1>1, <1>3, <1>4, <2>1, <3>1 DEF ClassKnows
  <2>2. CASE p # q
    <3>1. ClassKnows(p) /\ req'[p] = req[p]
      BY <1>3, <2>2 DEF ClassInv
    <3>. QED
      BY <1>1, <1>3, <1>9, <1>11, <3>1 DEF ClassKnows
  <2>. QED
    BY <2>1, <2>2
<1>. QED
  BY <1>1, <1>3, <1>8, <1>10, <1>11, <1>13, <1>14 DEF ClassInv

LEMMA ClassStep ==
  ASSUME StoresAssumption, ClassInv, [Class!Next]_(Class!vars)
  PROVE  ClassInv'
<1>1. CASE UNCHANGED Class!vars
  BY <1>1 DEF Class!vars, ClassInv, RowsDiffer, OrdersLag, OwnersLag, Anchored, HasLogin, ClassKnows,
     Class!Stored
<1>2. ASSUME NEW s \in data, Class!Logout(s)
      PROVE  ClassInv'
  <2>1. s.kind = "session" /\ data' = data \ {s} /\ UNCHANGED <<roster, nextId, req, crossed>>
    BY <1>2 DEF Class!Logout
  <2>2. \A y : HasLogin(y) <=> HasLogin(y)'
    BY <2>1 DEF HasLogin, Class!Stored
  <2>3. \A q \in Editors : ClassKnows(q)'
    BY <2>1, <2>2 DEF ClassInv, ClassKnows
  <2>4. RowsDiffer' /\ OrdersLag' /\ OwnersLag' /\ Anchored'
    BY <2>1, <2>2 DEF ClassInv, RowsDiffer, OrdersLag, OwnersLag, Anchored
  <2>. QED
    BY <2>1, <2>3, <2>4 DEF ClassInv
<1>. QED
  BY <1>1, <1>2, ClassReads, ClassInserts, ClassRemoves, ClassRenames, ClassWork DEF Class!Next

LEMMA ClassHolds ==
  ASSUME StoresAssumption, ClassInv
  PROVE  Class!TypeOK /\ Class!HistoryFollows /\ Class!HistoryHasOwner /\ Class!OneOwner
<1>. DEFINE Held == {x.id : x \in roster}
<1>1. Class!Cardinality(Held) = Class!Cardinality(roster)
  <2> DEFINE f == [x \in roster |-> x.id]
  <2>1. IsFiniteSet(Held) 
    <3>1. IsFiniteSet(1..MaxRows)
      BY FS_Interval DEF StoresAssumption
    <3>2. Held \subseteq 1..MaxRows
      BY DEF ClassInv, RosterRow
    <3>. QED
      BY <3>1, <3>2, FS_Subset
  <2>2. f \in Injection(roster, Held) /\ f \in Surjection(roster, Held)
    <3>1. f \in [roster -> Held]
      OBVIOUS
    <3>2. \A x, y \in roster : f[x] = f[y] => x = y
      BY DEF ClassInv, RowsDiffer
    <3>3. \A i \in Held : \E x \in roster : f[x] = i
      OBVIOUS
    <3>. QED
      BY <3>1, <3>2, <3>3, Fun_IsInj, Fun_IsSurj
  <2>3. IsFiniteSet(roster) /\ Cardinality(roster) <= Cardinality(Held)
    BY <2>1, <2>2, FS_Injection
  <2>4. Cardinality(Held) <= Cardinality(roster)
    BY <2>2, <2>3, FS_Surjection
  <2>. QED
    BY <2>1, <2>3, <2>4, FS_CardinalityType, SameCardinality
<1>2. Class!TypeOK
  BY <1>1 DEF Class!TypeOK, ClassInv, ClassKnows, RosterRow, Trace, OrdersLag
<1>3. Class!HistoryFollows
  BY DEF Class!HistoryFollows, Class!Follows, ClassInv, Anchored, RowsDiffer
<1>4. Class!HistoryHasOwner
  BY DEF Class!HistoryHasOwner, ClassInv, Anchored
<1>5. Class!OneOwner
  BY DEF Class!OneOwner, ClassInv, Anchored, RowsDiffer
<1>. QED
  BY <1>2, <1>3, <1>4, <1>5

-----------------------------------------------------------------------------
(* Stage-2 attempts, of students with any number of tabs.                   *)

AttemptRow ==
  [who : Writers, type : Attempt!Types, author : Writers, version : 0..MaxVersions,
   status : {"in_progress", "submitted", "evaluated"}, log : SUBSET (1..MaxOps),
   answer : (1..MaxOps) \cup {None}, asked : 1..MaxOps, made : 1..MaxOps]
ActionRow == [tag : 1..MaxOps, end : 1..MaxOps]

Ongoing(a) == att[a].status = "in_progress"

\* x is in the log, or another of the actions was written over it.
Traced(log, actions, x) ==
  x.tag \in log \/ \E y \in actions : y.tag # x.tag /\ y.tag <= x.end /\ x.end <= y.end

\* An attempt is at another's text, has an answer once it is no longer in
\* progress, nothing on record that began after the answer was graded, and
\* lacks no action but one that another was written over.
AttemptKept(a) ==
  /\ <<att[a].author, att[a].type>> \in Attempt!Works
  /\ att[a].type \in Attempt!ExecuteTypes(att[a].who)
  /\ Ongoing(a) <=> att[a].answer = None
  /\ Ongoing(a) <=> marked[a] = None
  /\ marked[a] # None => att[a].answer <= marked[a] /\ \A n \in att[a].log : n <= marked[a]
  /\ att[a].made <= ops /\ (\A n \in att[a].log : n <= ops)
  /\ \A x \in acked[a] : x.tag <= x.end /\ x.end <= ops /\ Traced(att[a].log, acked[a], x)

\* Of what was made before the request began, nothing of the student's is in
\* progress; nothing of theirs has this type.
Idling(t) == \A a \in 1..Len(att) : att[a].who = t[1] /\ att[a].made < req[t].tag => ~ Ongoing(a)
Lacks(t, type) ==
  \A a \in 1..Len(att) : att[a].who = t[1] /\ att[a].made < req[t].tag => att[a].type # type

\* What a request has read was so when it began.
AttemptKnows(t) ==
  /\ req[t].pc \in {"idle", "done", "pick", "insert", "action", "answer", "evaluate"}
  /\ req[t].pc # "idle" => req[t].tag \in 1..MaxOps /\ req[t].tag <= ops
  /\ req[t].pc \in {"done", "pick", "insert"} => Idling(t)
  /\ req[t].pc = "pick" =>
       \A type \in req[t].todo : type \in Attempt!ExecuteTypes(t[1]) /\ Lacks(t, type)
  /\ req[t].pc = "insert" =>
       /\ req[t].work \in Attempt!Works
       /\ req[t].work[2] \in Attempt!ExecuteTypes(t[1]) /\ Lacks(t, req[t].work[2])
  /\ req[t].pc \in {"action", "answer", "evaluate"} =>
       req[t].id \in 1..Len(att) /\ att[req[t].id].who = t[1]
  /\ req[t].pc \in {"action", "answer"} =>
       marked[req[t].id] = None \/ req[t].tag <= marked[req[t].id]
  /\ req[t].pc = "action" =>
       /\ req[t].log \in SUBSET (1..MaxOps) /\ \A n \in req[t].log : n < req[t].tag
       /\ \A x \in acked[req[t].id] :
            x.tag # req[t].tag /\ (x.end < req[t].tag => Traced(req[t].log, acked[req[t].id], x))
  /\ req[t].pc = "evaluate" => ~ Ongoing(req[t].id)

TagsApart ==
  \A t, u \in Writers \X Tabs :
    t # u /\ req[t].pc # "idle" /\ req[u].pc # "idle" => req[t].tag # req[u].tag

AttemptInv ==
  /\ stage2 \in BOOLEAN /\ subs \in [Attempt!Works -> 0..MaxVersions]
  /\ att \in Seq(AttemptRow) /\ acked \in Seq(SUBSET ActionRow) /\ marked \in Seq(Nat \cup {None})
  /\ Len(acked) = Len(att) /\ Len(marked) = Len(att)
  /\ ops \in 0..MaxOps
  /\ req = [t \in Writers \X Tabs |-> req[t]]
  /\ \A a \in 1..Len(att) : AttemptKept(a)
  /\ Attempt!OneAtATime
  /\ TagsApart
  /\ \A t \in Writers \X Tabs : AttemptKnows(t)

LEMMA AttemptTyped ==
  ASSUME AttemptInv, NEW a \in 1..Len(att)
  PROVE  att[a] \in AttemptRow /\ acked[a] \in SUBSET ActionRow /\ marked[a] \in Nat \cup {None}
<1> DEFINE Actions == SUBSET ActionRow
<1>1. /\ att \in Seq(AttemptRow) /\ acked \in Seq(Actions) /\ marked \in Seq(Nat \cup {None})
      /\ Len(acked) = Len(att) /\ Len(marked) = Len(att)
  BY DEF AttemptInv
<1>. HIDE DEF Actions
<1>2. att[a] \in AttemptRow /\ acked[a] \in Actions /\ marked[a] \in Nat \cup {None}
  BY <1>1
<1>. USE DEF Actions
<1>. QED
  BY <1>2

LEMMA AttemptInit == StoresAssumption /\ Attempt!Init => AttemptInv
<1>. SUFFICES ASSUME StoresAssumption, Attempt!Init PROVE AttemptInv
  OBVIOUS
<1>. USE DEF Attempt!Init, Attempt!Idle
<1>1. Len(att) = 0 /\ Len(acked) = 0 /\ Len(marked) = 0
  OBVIOUS
<1>2. ops \in 0..MaxOps /\ subs \in [Attempt!Works -> 0..MaxVersions]
  BY DEF StoresAssumption
<1>3. (\A t \in Writers \X Tabs : AttemptKnows(t)) /\ TagsApart
  BY DEF AttemptKnows, TagsApart
<1>. QED
  <2>1. att \in Seq(AttemptRow) /\ acked \in Seq(SUBSET ActionRow) /\ marked \in Seq(Nat \cup {None})
    OBVIOUS
  <2>2. req = [t \in Writers \X Tabs |-> req[t]] /\ stage2 \in BOOLEAN
    OBVIOUS
  <2>3. (\A a \in 1..Len(att) : AttemptKept(a)) /\ Attempt!OneAtATime
    BY <1>1 DEF Attempt!OneAtATime
  <2>. QED
    BY <1>1, <1>2, <1>3, <2>1, <2>2, <2>3, Zenon DEF AttemptInv

\* The clock only goes on.
LEMMA AttemptKeptLater ==
  ASSUME NEW a, AttemptKept(a), UNCHANGED <<att, acked, marked>>,
         ops \in Nat, ops' \in Nat, ops <= ops', att[a] \in AttemptRow,
         acked[a] \in SUBSET ActionRow, MaxOps \in Nat
  PROVE  AttemptKept(a)'
<1>1. att[a].made \in Nat /\ (\A n \in att[a].log : n \in Nat) /\ \A x \in acked[a] : x.end \in Nat
  BY DEF AttemptRow, ActionRow
<1>. QED
  BY <1>1 DEF AttemptKept, Ongoing, Traced

\* Requests that only read: one begins, with the next number, or goes on with
\* its own.
LEMMA AttemptReadOn ==
  ASSUME StoresAssumption, AttemptInv, NEW t \in Writers \X Tabs,
         UNCHANGED <<stage2, subs, att, acked, marked>>,
         NEW r, req' = [req EXCEPT ![t] = r],
         \/ ops' = ops + 1 /\ ops' <= MaxOps /\ r.tag = ops'
         \/ ops' = ops /\ r.pc = "idle"
         \/ ops' = ops /\ req[t].pc # "idle" /\ r.tag = req[t].tag,
         AttemptKnows(t)'
  PROVE  AttemptInv'
<1>0. ops \in Nat /\ ops' \in Nat /\ ops <= ops' /\ ops' \in 0..MaxOps /\ MaxOps \in Nat
  BY DEF AttemptInv, StoresAssumption
<1>1. ASSUME NEW u \in Writers \X Tabs, u # t PROVE AttemptKnows(u)' /\ req'[u] = req[u]
  <2>1. req'[u] = req[u] /\ AttemptKnows(u)
    BY <1>1 DEF AttemptInv
  <2>2. Idling(u) => Idling(u)'
    BY <2>1 DEF Idling, Ongoing
  <2>3. \A type : Lacks(u, type) => Lacks(u, type)'
    BY <2>1 DEF Lacks
  <2>4. \A log, actions, x : Traced(log, actions, x) => Traced(log, actions, x)'
    BY DEF Traced
  <2>5. \A a : Ongoing(a)' => Ongoing(a)
    BY DEF Ongoing
  <2>6. req[u].pc = "pick" =>
          \A type \in req'[u].todo : type \in Attempt!ExecuteTypes(u[1]) /\ Lacks(u, type)'
    BY <2>1, <2>3 DEF AttemptKnows
  <2>7. req[u].pc = "insert" => /\ req'[u].work \in Attempt!Works
                               /\ req'[u].work[2] \in Attempt!ExecuteTypes(u[1])
                               /\ Lacks(u, req[u].work[2])'
    BY <2>1, <2>3 DEF AttemptKnows
  <2>8. Lacks(u, req[u].work[2])' <=> Lacks(u, req[u].work[2])
    BY <2>1 DEF Lacks
  <2>. QED
    BY <1>0, <2>1, <2>2, <2>5, <2>6, <2>7, <2>8 DEF AttemptKnows, Traced
<1>2. ASSUME NEW a \in 1..Len(att') PROVE AttemptKept(a)'
  <2>1. AttemptKept(a) /\ att[a] \in AttemptRow /\ acked[a] \in SUBSET ActionRow
    BY AttemptTyped DEF AttemptInv
  <2>. QED
    BY <1>0, <2>1, AttemptKeptLater
<1>3. Attempt!OneAtATime'
  BY DEF AttemptInv, Attempt!OneAtATime
<1>4. TagsApart'
  <2>1. \A u \in Writers \X Tabs : AttemptKnows(u)
    BY DEF AttemptInv
  <2>2. \A u \in Writers \X Tabs : req[u].pc # "idle" => req[u].tag \in Nat /\ req[u].tag <= ops
    BY <2>1 DEF AttemptKnows
  <2>3. req'[t] = r
    BY DEF AttemptInv
  <2>4. \A u \in Writers \X Tabs :
          u # t /\ r.pc # "idle" /\ req[u].pc # "idle" => r.tag # req[u].tag
    BY <1>0, <2>2 DEF AttemptInv, TagsApart
  <2>. QED
    BY <1>1, <2>3, <2>4 DEF AttemptInv, TagsApart
<1>5. req' = [u \in Writers \X Tabs |-> req'[u]]
  BY DEF AttemptInv
<1>. QED
  BY <1>0, <1>1, <1>2, <1>3, <1>4, <1>5 DEF AttemptInv

LEMMA AttemptReads ==
  ASSUME StoresAssumption, AttemptInv, NEW t \in Writers \X Tabs,
         \/ Attempt!Ask(t) \/ Attempt!ReadDone(t) \/ Attempt!Pick(t)
         \/ \E a \in 1..Len(att) : Attempt!StartAction(t, a) \/ Attempt!StartAnswer(t, a)
                                   \/ Attempt!StartEvaluate(t, a)
  PROVE  AttemptInv' /\ UNCHANGED att
<1>. USE DEF Attempt!Start, Attempt!Go, Attempt!Idle
<1>1. /\ AttemptKnows(t) /\ req = [u \in Writers \X Tabs |-> req[u]]
      /\ ops \in 0..MaxOps /\ MaxOps \in Nat
      /\ \A a \in 1..Len(att) : AttemptKept(a) /\ att[a] \in AttemptRow
  BY DEF AttemptInv, StoresAssumption
<1>3. CASE Attempt!Ask(t)
  <2>1. /\ UNCHANGED <<stage2, subs, att, acked, marked>> /\ ops' = ops + 1 /\ ops' <= MaxOps
        /\ req' = [req EXCEPT ![t] = [pc |-> "done", tag |-> ops']]
    BY <1>1, <1>3 DEF Attempt!Ask
  <2>2. req'[t] = [pc |-> "done", tag |-> ops']
    BY <1>1, <2>1
  <2>3. Idling(t)'
    BY <1>3, <2>1 DEF Attempt!Ask, Attempt!InProgress, Idling, Ongoing
  <2>4. AttemptKnows(t)'
    BY <1>1, <2>1, <2>2, <2>3 DEF AttemptKnows
  <2>. QED
    BY <2>1, <2>4, AttemptReadOn
<1>4. CASE Attempt!ReadDone(t)
  <2> DEFINE todo == Attempt!Remaining(t[1])
  <2>1. /\ req[t].pc = "done" /\ UNCHANGED <<stage2, subs, att, acked, marked, ops>>
        /\ \/ req' = [req EXCEPT ![t] = [pc |-> "idle"]]
           \/ req' = [req EXCEPT ![t] = [pc |-> "pick", tag |-> req[t].tag, todo |-> todo]]
    BY <1>4 DEF Attempt!ReadDone
  <2>2. Idling(t)
    BY <1>1, <2>1 DEF AttemptKnows
  <2>3. \A type \in todo : type \in Attempt!ExecuteTypes(t[1]) /\ Lacks(t, type)
    BY <2>2 DEF Idling, Lacks, Ongoing, Attempt!Remaining, Attempt!Completed
  <2>. HIDE DEF todo
  <2>4. CASE req' = [req EXCEPT ![t] = [pc |-> "idle"]]
    <3>1. AttemptKnows(t)'
      BY <1>1, <2>4 DEF AttemptKnows
    <3>. QED
      BY <2>1, <2>4, <3>1, AttemptReadOn
  <2>5. CASE req' = [req EXCEPT ![t] = [pc |-> "pick", tag |-> req[t].tag, todo |-> todo]]
    <3>1. req'[t] = [pc |-> "pick", tag |-> req[t].tag, todo |-> todo]
      BY <1>1, <2>5
    <3>2. Idling(t)' /\ \A type \in todo : Lacks(t, type)'
      BY <2>1, <2>2, <2>3, <3>1 DEF Idling, Lacks, Ongoing
    <3>3. AttemptKnows(t)'
      BY <1>1, <2>1, <2>3, <3>1, <3>2 DEF AttemptKnows
    <3>. QED
      BY <2>1, <2>5, <3>3, AttemptReadOn
  <2>. QED
    BY <2>1, <2>4, <2>5
<1>5. CASE Attempt!Pick(t)
  <2>1. req[t].pc = "pick" /\ UNCHANGED <<stage2, subs, att, acked, marked, ops>>
    BY <1>5 DEF Attempt!Pick
  <2>2. CASE req' = [req EXCEPT ![t] = [pc |-> "idle"]]
    <3>1. AttemptKnows(t)'
      BY <1>1, <2>2 DEF AttemptKnows
    <3>. QED
      BY <2>1, <2>2, <3>1, AttemptReadOn
  <2>3. ASSUME NEW w \in Attempt!Works, w[2] \in req[t].todo,
               req' = [req EXCEPT ![t] = [pc |-> "insert", tag |-> req[t].tag, work |-> w]]
        PROVE  AttemptInv'
    <3>1. req'[t] = [pc |-> "insert", tag |-> req[t].tag, work |-> w]
      BY <1>1, <2>3
    <3>2. Idling(t) /\ w[2] \in Attempt!ExecuteTypes(t[1]) /\ Lacks(t, w[2])
      BY <1>1, <2>1, <2>3 DEF AttemptKnows
    <3>3. Idling(t)' /\ Lacks(t, w[2])'
      BY <2>1, <3>1, <3>2 DEF Idling, Lacks, Ongoing
    <3>4. AttemptKnows(t)'
      BY <1>1, <2>1, <3>1, <3>2, <3>3 DEF AttemptKnows
    <3>. QED
      BY <2>1, <2>3, <3>4, AttemptReadOn
  <2>. QED
    BY <1>5, <2>2, <2>3 DEF Attempt!Pick
<1>6. ASSUME NEW a \in 1..Len(att), NEW st \in {"in_progress", "submitted"},
             NEW pc \in {"action", "answer", "evaluate"},
             pc = "evaluate" <=> st = "submitted", Attempt!Reads(t, a, st, pc)
      PROVE  AttemptInv' /\ UNCHANGED att
  <2>1. /\ ops' = ops + 1 /\ ops' <= MaxOps /\ UNCHANGED <<stage2, subs, att, acked, marked>>
        /\ att[a].who = t[1] /\ att[a].status = st
        /\ req' = [req EXCEPT ![t] = [pc |-> pc, id |-> a, log |-> att[a].log, tag |-> ops']]
    BY <1>1, <1>6 DEF Attempt!Reads
  <2>2. req'[t] = [pc |-> pc, id |-> a, log |-> att[a].log, tag |-> ops']
    BY <1>1, <2>1
  <2>3. /\ att[a].log \in SUBSET (1..MaxOps) /\ AttemptKept(a) /\ acked[a] \in SUBSET ActionRow
        /\ \A n \in att[a].log : n <= ops
    BY <1>1, AttemptTyped DEF AttemptRow, AttemptKept
  <2>4. st = "in_progress" => marked[a] = None
    BY <2>1, <2>3 DEF AttemptKept, Ongoing
  <2>5. \A x \in acked[a] : x.tag # ops' /\ Traced(att[a].log, acked[a], x)
    <3>1. \A x \in acked[a] : Traced(att[a].log, acked[a], x)
      BY <2>3 DEF AttemptKept
    <3>2. \A x \in acked[a] : x.tag <= ops
      BY <1>1, <2>3 DEF AttemptKept, ActionRow
    <3>3. \A x \in acked[a] : x.tag \in Nat
      BY <2>3 DEF ActionRow
    <3>. QED
      BY <1>1, <2>1, <3>1, <3>2, <3>3
  <2>6. AttemptKnows(t)'
    BY <1>1, <1>6, <2>1, <2>2, <2>3, <2>4, <2>5 DEF AttemptKnows, Ongoing
  <2>. QED
    BY <2>1, <2>6, AttemptReadOn
<1>7. UNCHANGED att
  BY DEF Attempt!Ask, Attempt!ReadDone, Attempt!Pick, Attempt!StartAction, Attempt!StartAnswer,
     Attempt!StartEvaluate, Attempt!Reads
<1>8. ASSUME NEW a \in 1..Len(att), Attempt!StartAction(t, a) \/ Attempt!StartAnswer(t, a)
                                   \/ Attempt!StartEvaluate(t, a)
      PROVE  AttemptInv'
  BY <1>6, <1>8 DEF Attempt!StartAction, Attempt!StartAnswer, Attempt!StartEvaluate
<1>. QED
  BY <1>3, <1>4, <1>5, <1>7, <1>8

\* A new attempt.
LEMMA AttemptBegins ==
  ASSUME StoresAssumption, AttemptInv, NEW t \in Writers \X Tabs, Attempt!Insert(t)
  PROVE  AttemptInv' /\ \A a \in 1..Len(att) : att'[a] = att[a]
<1>. USE DEF AttemptInv, Attempt!Go, Attempt!Idle
<1> DEFINE w == req[t].work
           new == [who |-> t[1], type |-> w[2], author |-> w[1], version |-> subs[w],
                   status |-> "in_progress", log |-> {}, answer |-> None,
                   asked |-> req[t].tag, made |-> ops]
<1>1. /\ req[t].pc = "insert" /\ UNCHANGED <<stage2, subs, ops>>
      /\ att' = Append(att, new) /\ acked' = Append(acked, {}) /\ marked' = Append(marked, None)
      /\ req' = [req EXCEPT ![t] = [pc |-> "idle"]]
  BY DEF Attempt!Insert
<1>2. /\ w \in Attempt!Works /\ w[2] \in Attempt!ExecuteTypes(t[1])
      /\ Idling(t) /\ Lacks(t, w[2]) /\ req[t].tag \in 1..MaxOps /\ req[t].tag <= ops
      /\ ops \in 1..MaxOps
  BY <1>1, StoresAssumption DEF AttemptKnows, StoresAssumption
<1>3. /\ new \in AttemptRow /\ new.who = t[1] /\ new.type = w[2] /\ new.author = w[1]
      /\ new.status = "in_progress" /\ new.answer = None /\ new.log = {}
      /\ new.asked = req[t].tag /\ new.made = ops
  BY <1>2 DEF Attempt!Works, AttemptRow
<1>. HIDE DEF new
<1>4. /\ att' \in Seq(AttemptRow) /\ acked' \in Seq(SUBSET ActionRow) /\ marked' \in Seq(Nat \cup {None})
      /\ Len(att') = Len(att) + 1 /\ Len(acked') = Len(att') /\ Len(marked') = Len(att')
      /\ Len(att) \in Nat
  <2> DEFINE Actions == SUBSET ActionRow
  <2>1. acked \in Seq(Actions) /\ {} \in Actions
    OBVIOUS
  <2>. HIDE DEF Actions
  <2>2. acked' \in Seq(Actions) /\ Len(acked') = Len(acked) + 1
    BY <1>1, <2>1
  <2>. USE DEF Actions
  <2>. QED
    BY <1>1, <1>3, <2>2
<1>5. /\ \A a \in 1..Len(att) : att'[a] = att[a] /\ acked'[a] = acked[a] /\ marked'[a] = marked[a]
      /\ att'[Len(att')] = new /\ acked'[Len(att')] = {} /\ marked'[Len(att')] = None
  BY <1>1, <1>3, <1>4
<1>6. \A a \in 1..Len(att') : a \in 1..Len(att) \/ a = Len(att')
  BY <1>4
<1>7. ASSUME NEW a, a = Len(att') PROVE AttemptKept(a)'
  <2>1. <<w[1], w[2]>> \in Attempt!Works
    BY <1>2 DEF Attempt!Works
  <2>2. att'[a] = new /\ acked'[a] = {} /\ marked'[a] = None /\ ops' = ops
    BY <1>1, <1>5, <1>7
  <2>3. Ongoing(a)'
    BY <1>3, <2>2 DEF Ongoing
  <2>. QED
    BY <1>2, <1>3, <2>1, <2>2, <2>3 DEF AttemptKept
<1>8. \A a \in 1..Len(att') : AttemptKept(a)'
  BY <1>1, <1>5, <1>6, <1>7 DEF AttemptKept, Ongoing
<1>9. Attempt!OneAtATime'
  <2>1. \A a \in 1..Len(att) : att[a].made \in Nat
    <3>1. \A a \in 1..Len(att) : att[a] \in AttemptRow
      OBVIOUS
    <3>. QED
      BY <3>1 DEF AttemptRow
  <2>2. \A a \in 1..Len(att) : att[a].who = t[1] /\ ~ (new.asked <= att[a].made) =>
          att[a].type # new.type /\ ~ Ongoing(a)
    BY <1>2, <1>3, <2>1 DEF Idling, Lacks
  <2>3. ASSUME NEW a \in 1..Len(att), att[a].who = new.who,
               \/ att[a].type = new.type \/ {att[a].status, new.status} = {"in_progress"}
        PROVE  new.asked <= att[a].made
    BY <1>3, <2>2, <2>3 DEF Ongoing
  <2>4. ASSUME NEW b \in 1..Len(att'), NEW a \in 1..(b - 1), att'[a].who = att'[b].who,
               \/ att'[a].type = att'[b].type
               \/ {att'[a].status, att'[b].status} = {"in_progress"}
        PROVE  att'[b].asked <= att'[a].made
    <3>1. a \in 1..Len(att)
      BY <1>4
    <3>2. CASE b = Len(att')
      BY <1>5, <2>3, <2>4, <3>1, <3>2
    <3>3. CASE b \in 1..Len(att)
      BY <1>5, <2>4, <3>1, <3>3 DEF Attempt!OneAtATime
    <3>. QED
      BY <1>6, <3>2, <3>3
  <2>. QED
    BY <2>4 DEF Attempt!OneAtATime
<1>10. ASSUME NEW u \in Writers \X Tabs, u # t PROVE AttemptKnows(u)'
  <2>1. req'[u] = req[u] /\ AttemptKnows(u)
    BY <1>1, <1>10
  <2>2. req[u].pc # "idle" => ~ (new.made < req[u].tag)
    BY <1>2, <1>3, <2>1 DEF AttemptKnows
  <2>3. req[u].pc # "idle" /\ Idling(u) => Idling(u)'
    BY <1>3, <1>5, <1>6, <2>1, <2>2 DEF Idling, Ongoing
  <2>4. req[u].pc # "idle" => \A type : Lacks(u, type) => Lacks(u, type)'
    BY <1>3, <1>5, <1>6, <2>1, <2>2 DEF Lacks
  <2>5. 1..Len(att) \subseteq 1..Len(att')
    BY <1>4
  <2>. QED
    BY <1>1, <1>5, <2>1, <2>3, <2>4, <2>5 DEF AttemptKnows, Ongoing, Traced
<1>11. AttemptKnows(t)'
  BY <1>1 DEF AttemptKnows
<1>12. TagsApart'
  BY <1>1 DEF TagsApart
<1>. QED
  BY <1>1, <1>4, <1>5, <1>8, <1>9, <1>10, <1>11, <1>12

LEMMA Ranks ==
  Attempt!Rank("in_progress") = 1 /\ Attempt!Rank("submitted") = 2 /\ Attempt!Rank("evaluated") = 3
<1>. USE DEF Attempt!Rank, Attempt!Statuses
<1>1. \A i \in 1..3 : i = 1 \/ i = 2 \/ i = 3
  OBVIOUS
<1>2. /\ Attempt!Statuses[1] = "in_progress" /\ Attempt!Statuses[2] = "submitted"
      /\ Attempt!Statuses[3] = "evaluated"
  OBVIOUS
<1>3. Attempt!Rank("in_progress") = 1
  BY <1>1, <1>2
<1>4. Attempt!Rank("submitted") = 2
  BY <1>1, <1>2
<1>5. Attempt!Rank("evaluated") = 3
  BY <1>1, <1>2
<1>. QED
  BY <1>3, <1>4, <1>5

\* What a request t may make of an attempt, with what was answered and when it
\* was graded.
Becomes(t, id, new, answered, m) ==
  /\ new \in AttemptRow /\ answered \in SUBSET ActionRow /\ m \in Nat \cup {None}
  /\ new.who = att[id].who /\ new.type = att[id].type /\ new.author = att[id].author
  /\ new.asked = att[id].asked /\ new.made = att[id].made
  /\ new.status = "in_progress" => Ongoing(id)
  /\ new.status = "in_progress" <=> new.answer = None
  /\ new.status = "in_progress" <=> m = None
  /\ m # None => new.answer <= m /\ \A n \in new.log : n <= m
  /\ m = marked[id] \/ m = ops
  /\ \A n \in new.log : n <= ops
  /\ \A x \in answered : x.tag <= x.end /\ x.end <= ops /\ Traced(new.log, answered, x)
  /\ acked[id] \subseteq answered
  /\ \A x \in answered \ acked[id] : x.tag = req[t].tag /\ x.end = ops

LEMMA AttemptRewritten ==
  ASSUME AttemptInv, NEW t \in Writers \X Tabs, req[t].pc # "idle",
         NEW id \in 1..Len(att), att[id].who = t[1],
         NEW new, NEW answered, NEW m, Becomes(t, id, new, answered, m),
         att' = [att EXCEPT ![id] = new], acked' = [acked EXCEPT ![id] = answered],
         marked' = [marked EXCEPT ![id] = m],
         UNCHANGED <<stage2, subs, ops>>, req' = [req EXCEPT ![t] = [pc |-> "idle"]]
  PROVE  AttemptInv'
<1>1. /\ att \in Seq(AttemptRow) /\ acked \in Seq(SUBSET ActionRow) /\ marked \in Seq(Nat \cup {None})
      /\ Len(acked) = Len(att) /\ Len(marked) = Len(att)
      /\ \A a \in 1..Len(att) : att[a] \in AttemptRow /\ AttemptKept(a)
  BY DEF AttemptInv
<1>2. new \in AttemptRow /\ answered \in SUBSET ActionRow /\ m \in Nat \cup {None}
  BY DEF Becomes
<1>3. /\ att' \in Seq(AttemptRow) /\ Len(att') = Len(att) /\ att'[id] = new
      /\ \A a \in 1..Len(att) : a # id => att'[a] = att[a]
  BY <1>1, <1>2
<1>4. /\ acked' \in Seq(SUBSET ActionRow) /\ Len(acked') = Len(att) /\ acked'[id] = answered
      /\ \A a \in 1..Len(att) : a # id => acked'[a] = acked[a]
  <2> DEFINE Actions == SUBSET ActionRow
  <2>1. acked \in Seq(Actions) /\ answered \in Actions
    BY <1>1, <1>2
  <2>. HIDE DEF Actions
  <2>2. /\ acked' \in Seq(Actions) /\ Len(acked') = Len(acked) /\ acked'[id] = answered
        /\ \A a \in 1..Len(acked) : a # id => acked'[a] = acked[a]
    BY <1>1, <2>1
  <2>. USE DEF Actions
  <2>. QED
    BY <1>1, <2>2
<1>5. /\ marked' \in Seq(Nat \cup {None}) /\ Len(marked') = Len(att) /\ marked'[id] = m
      /\ \A a \in 1..Len(att) : a # id => marked'[a] = marked[a]
  BY <1>1, <1>2
<1>6. ASSUME NEW a \in 1..Len(att), a # id PROVE AttemptKept(a)'
  BY <1>1, <1>3, <1>4, <1>5, <1>6 DEF AttemptKept, Ongoing, Traced
<1>7. AttemptKept(id)'
  BY <1>1, <1>3, <1>4, <1>5 DEF AttemptKept, Ongoing, Becomes, Traced
<1>8. \A a \in 1..Len(att) : /\ att'[a].who = att[a].who /\ att'[a].type = att[a].type
                             /\ att'[a].asked = att[a].asked /\ att'[a].made = att[a].made
                             /\ Ongoing(a)' => Ongoing(a)
  BY <1>3 DEF Becomes, Ongoing
<1>9. Attempt!OneAtATime'
  <2>1. ASSUME NEW b \in 1..Len(att), NEW a \in 1..(b - 1), att'[a].who = att'[b].who,
               \/ att'[a].type = att'[b].type
               \/ {att'[a].status, att'[b].status} = {"in_progress"}
        PROVE  att'[b].asked <= att'[a].made
    <3>1. a \in 1..Len(att)
      BY <1>1
    <3>2. \/ att[a].type = att[b].type \/ {att[a].status, att[b].status} = {"in_progress"}
      BY <1>8, <2>1, <3>1 DEF Ongoing
    <3>. QED
      BY <1>8, <2>1, <3>1, <3>2 DEF AttemptInv, Attempt!OneAtATime
  <2>. QED
    BY <1>3, <2>1 DEF Attempt!OneAtATime
<1>10. ASSUME NEW u \in Writers \X Tabs, u # t PROVE AttemptKnows(u)'
  <2>1. req'[u] = req[u] /\ AttemptKnows(u)
    BY <1>10 DEF AttemptInv
  <2>2. Idling(u) => Idling(u)'
    BY <1>3, <1>8, <2>1 DEF Idling
  <2>3. \A type : Lacks(u, type) => Lacks(u, type)'
    BY <1>3, <1>8, <2>1 DEF Lacks
  <2>4. /\ req[u].pc \in {"action", "answer", "evaluate"} =>
             req[u].id \in 1..Len(att') /\ att'[req[u].id].who = u[1]
        /\ req[u].pc = "evaluate" => ~ Ongoing(req[u].id)'
    BY <1>3, <1>8, <2>1 DEF AttemptKnows
  <2>5. req[u].pc \in {"action", "answer"} =>
          marked'[req[u].id] = None \/ req[u].tag <= marked'[req[u].id]
    BY <1>5, <2>1 DEF AttemptKnows, Becomes
  <2>6. ASSUME req[u].pc = "action", NEW x \in acked'[req[u].id]
        PROVE  /\ x.tag # req[u].tag
               /\ x.end < req[u].tag => Traced(req[u].log, acked'[req[u].id], x)
    <3>1. req[u].id \in 1..Len(att) /\ req[u].tag <= ops /\ req[u].tag \in Nat /\ ops \in Nat
      BY <2>1, <2>6 DEF AttemptKnows, AttemptInv
    <3>2. CASE x \in acked[req[u].id]
      <4>1. acked[req[u].id] \subseteq acked'[req[u].id]
        BY <1>4, <3>1 DEF Becomes
      <4>2. /\ x.tag # req[u].tag
            /\ x.end < req[u].tag => Traced(req[u].log, acked[req[u].id], x)
        BY <2>1, <2>6, <3>2 DEF AttemptKnows
      <4>. QED
        BY <4>1, <4>2 DEF Traced
    <3>3. CASE x \notin acked[req[u].id]
      <4>1. req[u].id = id /\ x.tag = req[t].tag /\ x.end = ops
        BY <1>4, <2>6, <3>1, <3>3 DEF Becomes
      <4>2. req[t].tag # req[u].tag
        BY <1>10, <2>6 DEF AttemptInv, TagsApart
      <4>. QED
        BY <3>1, <4>1, <4>2
    <3>. QED
      BY <3>2, <3>3
  <2>. QED
    BY <2>1, <2>2, <2>3, <2>4, <2>5, <2>6 DEF AttemptKnows
<1>11. AttemptKnows(t)' /\ TagsApart' /\ req' = [u \in Writers \X Tabs |-> req'[u]]
  BY DEF AttemptKnows, AttemptInv, TagsApart
<1>. QED
  BY <1>3, <1>4, <1>5, <1>6, <1>7, <1>9, <1>10, <1>11 DEF AttemptInv

\* An attempt of one's own is written back.
LEMMA AttemptWrites ==
  ASSUME StoresAssumption, AttemptInv, NEW t \in Writers \X Tabs,
         Attempt!WriteAction(t) \/ Attempt!WriteAnswer(t) \/ Attempt!WriteEvaluation(t)
  PROVE  AttemptInv' /\ Attempt!NothingAfterAnswer
<1>. USE DEF Attempt!Go, Attempt!Idle
<1> DEFINE id == req[t].id
           tag == req[t].tag
<1>1. AttemptKnows(t) /\ req = [u \in Writers \X Tabs |-> req[u]]
  BY DEF AttemptInv
<1>2. /\ id \in 1..Len(att) /\ att[id].who = t[1] /\ tag \in 1..MaxOps /\ tag <= ops
      /\ ops \in 1..MaxOps /\ MaxOps \in Nat /\ None \notin Nat /\ req[t].pc # "idle"
      /\ DOMAIN req = Writers \X Tabs
  BY <1>1 DEF AttemptKnows, Attempt!WriteAction, Attempt!WriteAnswer, Attempt!WriteEvaluation,
     AttemptInv, StoresAssumption
<1>3. /\ att[id] \in AttemptRow /\ acked[id] \in SUBSET ActionRow /\ marked[id] \in Nat \cup {None}
      /\ att \in Seq(AttemptRow) /\ AttemptKept(id) /\ acked \in Seq(SUBSET ActionRow)
      /\ marked \in Seq(Nat \cup {None})
  BY <1>2 DEF AttemptInv
<1>4. /\ att[id].log \in SUBSET (1..MaxOps) /\ att[id].answer \in (1..MaxOps) \cup {None}
      /\ att[id].status \in {"in_progress", "submitted", "evaluated"}
      /\ \A x \in acked[id] : x.tag \in Nat /\ x.end \in Nat
  <2>1. \A x \in ActionRow : x.tag \in Nat /\ x.end \in Nat
    BY DEF ActionRow
  <2>2. \A x \in acked[id] : x \in ActionRow
    BY <1>3
  <2>3. \A x \in acked[id] : x.tag \in Nat /\ x.end \in Nat
    BY <2>1, <2>2
  <2>4. /\ att[id].log \in SUBSET (1..MaxOps) /\ att[id].answer \in (1..MaxOps) \cup {None}
        /\ att[id].status \in {"in_progress", "submitted", "evaluated"}
    BY <1>3 DEF AttemptRow
  <2>. QED
    BY <2>3, <2>4
<1>5. ASSUME NEW new, att' = [att EXCEPT ![id] = new], new.status = "in_progress" => Ongoing(id),
             new.status \in {"in_progress", "submitted", "evaluated"},
             ~ Ongoing(id) =>
               \/ /\ Attempt!Rank(att[id].status) <= Attempt!Rank(new.status)
                  /\ new.answer = att[id].answer /\ new.log = att[id].log
               \/ /\ req[t].pc \in {"action", "answer"} /\ req'[t] = [pc |-> "idle"]
                  /\ tag <= marked[id]
      PROVE  Attempt!NothingAfterAnswer
  <2>1. /\ att'[id] = new
        /\ \A a \in 1..Len(att) : a # id => att'[a] = att[a]
        /\ \A a \in 1..Len(att) : att[a].status \in {"in_progress", "submitted", "evaluated"}
    <3>1. \A a \in 1..Len(att) : att[a] \in AttemptRow
      BY AttemptTyped
    <3>2. \A a \in 1..Len(att) : att[a].status \in {"in_progress", "submitted", "evaluated"}
      BY <3>1 DEF AttemptRow
    <3>. QED
      BY <1>2, <1>3, <1>5, <3>2
  <2>2. \A st \in {"in_progress", "submitted", "evaluated"} : Attempt!Rank(st) \in Nat
    BY Ranks
  <2>3. ASSUME NEW a \in 1..Len(att), att[a].status # "in_progress"
        PROVE  /\ att'[a].status # "in_progress"
               /\ \/ Attempt!Rank(att'[a].status) < Attempt!Rank(att[a].status)
                  \/ <<att'[a].answer, att'[a].log>> # <<att[a].answer, att[a].log>>
                  => \E u \in DOMAIN req :
                       /\ req[u].pc \in {"action", "answer"} /\ req'[u] = [pc |-> "idle"]
                       /\ req[u].id = a /\ req[u].tag <= marked[a]
    <3>1. CASE a # id
      BY <2>1, <2>2, <2>3, <3>1
    <3>2. CASE a = id
      <4>1. ~ Ongoing(id) /\ new.status # "in_progress"
        BY <1>5, <2>3, <3>2 DEF Ongoing
      <4>2. CASE /\ req[t].pc \in {"action", "answer"} /\ req'[t] = [pc |-> "idle"]
                 /\ tag <= marked[id]
        BY <1>2, <2>1, <3>2, <4>1, <4>2
      <4>3. CASE /\ Attempt!Rank(att[id].status) <= Attempt!Rank(new.status)
                 /\ new.answer = att[id].answer /\ new.log = att[id].log
        <5>1. ~ (Attempt!Rank(new.status) < Attempt!Rank(att[id].status))
          <6>1. Attempt!Rank(att[id].status) \in Nat
            BY <1>4, <2>2
          <6>2. \A i, j \in Int : i <= j => ~ (j < i)
            OBVIOUS
          <6>3. Attempt!Rank(new.status) \in Nat
            BY <1>5, <2>2
          <6>. QED
            BY <4>3, <6>1, <6>2, <6>3
        <5>. QED
          BY <2>1, <3>2, <4>1, <4>3, <5>1
      <4>. QED
        BY <1>5, <4>1, <4>2, <4>3
    <3>. QED
      BY <3>1, <3>2
  <2>. QED
    BY <2>3 DEF Attempt!NothingAfterAnswer
<1>6. CASE Attempt!WriteAction(t)
  <2> DEFINE act == [tag |-> tag, end |-> ops]
             log == req[t].log \cup {tag}
             new == [att[id] EXCEPT !.log = log]
             answered == acked[id] \cup {act}
  <2>1. /\ UNCHANGED <<stage2, subs, ops, marked>> /\ req' = [req EXCEPT ![t] = [pc |-> "idle"]]
        /\ req[t].pc = "action"
    BY <1>6 DEF Attempt!WriteAction
  <2>2. att' = [att EXCEPT ![id] = new]
    BY <1>2, <1>3, <1>6 DEF Attempt!WriteAction, Attempt!Extended
  <2>3. acked' = [acked EXCEPT ![id] = answered] /\ marked' = [marked EXCEPT ![id] = marked[id]]
    BY <1>2, <1>3, <1>6 DEF Attempt!WriteAction
  <2>4. /\ req[t].log \in SUBSET (1..MaxOps) /\ (\A n \in req[t].log : n < tag)
        /\ \A x \in acked[id] : x.tag # tag /\ (x.end < tag => Traced(req[t].log, acked[id], x))
        /\ marked[id] # None => tag <= marked[id]
    BY <1>1, <2>1 DEF AttemptKnows
  <2>5. log \in SUBSET (1..MaxOps) /\ \A n \in log : n <= tag
    BY <1>2, <2>4
  <2>6. /\ new \in AttemptRow /\ new.log = log
        /\ new.who = att[id].who /\ new.type = att[id].type /\ new.author = att[id].author
        /\ new.asked = att[id].asked /\ new.made = att[id].made
        /\ new.status = att[id].status /\ new.answer = att[id].answer
    BY <1>3, <2>5 DEF AttemptRow
  <2>7. act \in ActionRow /\ act.tag = tag /\ act.end = ops /\ act \in answered
    BY <1>2 DEF ActionRow
  <2>8. ASSUME NEW x \in answered
        PROVE  x.tag <= x.end /\ x.end <= ops /\ Traced(log, answered, x)
    <3>1. CASE x = act
      BY <1>2, <2>7, <3>1 DEF Traced
    <3>2. CASE x \in acked[id]
      <4>1. x.tag <= x.end /\ x.end <= ops /\ x.tag \in Nat /\ x.end \in Nat /\ x.tag # tag
        BY <1>3, <1>4, <2>4, <3>2 DEF AttemptKept
      <4>2. CASE x.end < tag
        BY <2>4, <3>2, <4>1, <4>2 DEF Traced
      <4>3. CASE tag <= x.end
        BY <2>7, <4>1, <4>3 DEF Traced
      <4>. QED
        BY <1>2, <4>1, <4>2, <4>3
    <3>. QED
      BY <3>1, <3>2
  <2>9. /\ answered \in SUBSET ActionRow /\ acked[id] \subseteq answered
        /\ \A x \in answered \ acked[id] : x.tag = tag /\ x.end = ops
    BY <1>3, <2>7
  <2>. HIDE DEF new, answered, act, log
  <2>10. /\ \A n \in log : n <= ops
         /\ marked[id] # None => \A n \in log : n <= marked[id]
    BY <1>2, <1>3, <2>4, <2>5
  <2>11. Becomes(t, id, new, answered, marked[id])
    BY <1>3, <2>6, <2>8, <2>9, <2>10 DEF Becomes, AttemptKept, Ongoing
  <2>12. AttemptInv'
    BY <1>2, <2>1, <2>2, <2>3, <2>11, AttemptRewritten
  <2>13. /\ new.status = "in_progress" => Ongoing(id)
         /\ new.status \in {"in_progress", "submitted", "evaluated"}
    BY <1>4, <2>6 DEF Ongoing
  <2>14. ~ Ongoing(id) => tag <= marked[id]
    BY <1>3, <2>4 DEF AttemptKept
  <2>15. req'[t] = [pc |-> "idle"]
    BY <1>1, <2>1
  <2>. QED
    BY <1>5, <2>1, <2>2, <2>12, <2>13, <2>14, <2>15
<1>7. CASE Attempt!WriteAnswer(t)
  <2> DEFINE new == [att[id] EXCEPT !.status = "submitted", !.answer = tag]
             m == IF marked[id] = None THEN ops ELSE marked[id]
  <2>1. /\ UNCHANGED <<stage2, subs, ops, acked>> /\ req' = [req EXCEPT ![t] = [pc |-> "idle"]]
        /\ req[t].pc = "answer"
    BY <1>7 DEF Attempt!WriteAnswer
  <2>2. att' = [att EXCEPT ![id] = new]
    BY <1>2, <1>3, <1>7 DEF Attempt!WriteAnswer, Attempt!Graded
  <2>3. marked' = [marked EXCEPT ![id] = m] /\ acked' = [acked EXCEPT ![id] = acked[id]]
    BY <1>2, <1>3, <1>7 DEF Attempt!WriteAnswer
  <2>4. marked[id] # None => tag <= marked[id]
    BY <1>1, <2>1 DEF AttemptKnows
  <2>5. /\ new \in AttemptRow /\ new.log = att[id].log /\ new.answer = tag
        /\ new.who = att[id].who /\ new.type = att[id].type /\ new.author = att[id].author
        /\ new.asked = att[id].asked /\ new.made = att[id].made /\ new.status = "submitted"
    BY <1>2, <1>3 DEF AttemptRow
  <2>6. /\ m \in Nat /\ m # None /\ tag <= m /\ (\A n \in att[id].log : n <= m)
        /\ m = marked[id] \/ m = ops
    BY <1>2, <1>3, <2>4 DEF AttemptKept
  <2>7. tag # None
    BY <1>2
  <2>. HIDE DEF new, m
  <2>8. Becomes(t, id, new, acked[id], m)
    BY <1>3, <2>5, <2>6, <2>7 DEF Becomes, AttemptKept
  <2>9. AttemptInv'
    BY <1>2, <2>1, <2>2, <2>3, <2>8, AttemptRewritten
  <2>10. /\ new.status = "in_progress" => Ongoing(id)
         /\ new.status \in {"in_progress", "submitted", "evaluated"}
    BY <2>5
  <2>11. ~ Ongoing(id) => tag <= marked[id]
    BY <1>3, <2>4 DEF AttemptKept
  <2>12. req'[t] = [pc |-> "idle"]
    BY <1>1, <2>1
  <2>. QED
    BY <1>5, <2>1, <2>2, <2>9, <2>10, <2>11, <2>12
<1>8. CASE Attempt!WriteEvaluation(t)
  <2> DEFINE new == [att[id] EXCEPT !.status = "evaluated"]
  <2>1. /\ UNCHANGED <<stage2, subs, ops>> /\ req' = [req EXCEPT ![t] = [pc |-> "idle"]]
        /\ req[t].pc = "evaluate" /\ ~ Ongoing(id)
    BY <1>1, <1>8 DEF Attempt!WriteEvaluation, AttemptKnows
  <2>2. att' = [att EXCEPT ![id] = new]
    BY <1>2, <1>3, <1>8 DEF Attempt!WriteEvaluation
  <2>3. marked' = [marked EXCEPT ![id] = marked[id]] /\ acked' = [acked EXCEPT ![id] = acked[id]]
    BY <1>2, <1>3, <1>8 DEF Attempt!WriteEvaluation
  <2>4. /\ new \in AttemptRow /\ new.log = att[id].log /\ new.answer = att[id].answer
        /\ new.who = att[id].who /\ new.type = att[id].type /\ new.author = att[id].author
        /\ new.asked = att[id].asked /\ new.made = att[id].made
        /\ new.status = "evaluated"
    BY <1>3 DEF AttemptRow
  <2>. HIDE DEF new
  <2>5. Becomes(t, id, new, acked[id], marked[id])
    BY <1>3, <2>1, <2>4 DEF Becomes, AttemptKept
  <2>6. AttemptInv'
    BY <1>2, <2>1, <2>2, <2>3, <2>5, AttemptRewritten
  <2>7. Attempt!Rank(att[id].status) <= Attempt!Rank(new.status)
    BY <1>4, <2>4, Ranks
  <2>8. /\ new.status = "in_progress" => Ongoing(id)
        /\ new.status \in {"in_progress", "submitted", "evaluated"}
    BY <2>4
  <2>. QED
    BY <1>5, <2>2, <2>4, <2>6, <2>7, <2>8
<1>. QED
  BY <1>6, <1>7, <1>8

LEMMA AttemptStep ==
  ASSUME StoresAssumption, AttemptInv, [Attempt!Next]_(Attempt!vars)
  PROVE  AttemptInv' /\ Attempt!NothingAfterAnswer
<1>1. ASSUME \A a \in 1..Len(att) : att'[a] = att[a]
      PROVE  Attempt!NothingAfterAnswer
  <2>1. \A a \in 1..Len(att) : att[a].status \in {"in_progress", "submitted", "evaluated"}
    <3>1. \A a \in 1..Len(att) : att[a] \in AttemptRow
      BY DEF AttemptInv
    <3>. QED
      BY <3>1 DEF AttemptRow
  <2>2. \A st \in {"in_progress", "submitted", "evaluated"} :
          ~ (Attempt!Rank(st) < Attempt!Rank(st))
    BY Ranks
  <2>. QED
    BY <1>1, <2>1, <2>2 DEF Attempt!NothingAfterAnswer
<1>2. CASE UNCHANGED <<att, req, ops, acked, marked>> /\ stage2' \in BOOLEAN
           /\ subs' \in [Attempt!Works -> 0..MaxVersions]
  <2>1. ASSUME NEW t \in Writers \X Tabs PROVE AttemptKnows(t)'
    <3>1. AttemptKnows(t) /\ req'[t] = req[t]
      BY <1>2 DEF AttemptInv
    <3>. QED
      BY <1>2, <3>1 DEF AttemptKnows, Idling, Lacks, Ongoing, Traced
  <2>a. TagsApart'
    BY <1>2 DEF AttemptInv, TagsApart
  <2>2. Attempt!OneAtATime' /\ \A a \in 1..Len(att) : AttemptKept(a)'
    BY <1>2 DEF AttemptInv, Attempt!OneAtATime, AttemptKept, Ongoing, Traced
  <2>. QED
    BY <1>1, <1>2, <2>1, <2>a, <2>2 DEF AttemptInv
<1>3. CASE UNCHANGED Attempt!vars
  BY <1>2, <1>3 DEF Attempt!vars, AttemptInv
<1>4. CASE Attempt!ActivateStage2
  BY <1>2, <1>4 DEF Attempt!ActivateStage2, AttemptInv
<1>5. ASSUME NEW s \in Writers, NEW type \in Attempt!Types, Attempt!Write(s, type)
      PROVE  AttemptInv' /\ Attempt!NothingAfterAnswer
  <2>1. <<s, type>> \in Attempt!Works
    BY <1>5 DEF Attempt!Write, Attempt!Works
  <2>2. subs' \in [Attempt!Works -> 0..MaxVersions]
    BY <1>5, <2>1 DEF Attempt!Write, AttemptInv, StoresAssumption
  <2>. QED
    BY <1>2, <1>5, <2>2 DEF Attempt!Write, AttemptInv
<1>6. ASSUME NEW t \in Writers \X Tabs,
             \/ Attempt!Ask(t) \/ Attempt!ReadDone(t) \/ Attempt!Pick(t)
             \/ \E a \in 1..Len(att) : Attempt!StartAction(t, a) \/ Attempt!StartAnswer(t, a)
                                       \/ Attempt!StartEvaluate(t, a)
      PROVE  AttemptInv' /\ Attempt!NothingAfterAnswer
  BY <1>1, <1>6, AttemptReads
<1>7. ASSUME NEW t \in Writers \X Tabs, Attempt!Insert(t)
      PROVE  AttemptInv' /\ Attempt!NothingAfterAnswer
  BY <1>1, <1>7, AttemptBegins
<1>. QED
  BY <1>3, <1>4, <1>5, <1>6, <1>7, AttemptWrites DEF Attempt!Next

LEMMA AttemptHolds ==
  ASSUME StoresAssumption, AttemptInv
  PROVE  /\ Attempt!TypeOK /\ Attempt!OneAtATime /\ Attempt!OthersOnly
         /\ Attempt!ActionsKept /\ Attempt!AnswerIsFinal
<1>. USE DEF AttemptInv, Ongoing
<1>1. \A a \in 1..Len(att) : att[a] \in AttemptRow /\ AttemptKept(a)
  OBVIOUS
<1>2. Attempt!TypeOK
  BY <1>1 DEF Attempt!TypeOK, AttemptRow, AttemptKept, AttemptKnows
<1>3. Attempt!OthersOnly
  BY <1>1 DEF Attempt!OthersOnly, AttemptKept, Attempt!Works, Attempt!WriteTypes, Attempt!ExecuteTypes
<1>4. Attempt!ActionsKept
  <2>1. ASSUME NEW a \in 1..Len(att), NEW x \in acked[a]
        PROVE  x.tag \in att[a].log \/ Attempt!Overwritten(a, x)
    <3>1. Traced(att[a].log, acked[a], x)
      BY <1>1, <2>1 DEF AttemptKept
    <3>. QED
      BY <3>1 DEF Traced, Attempt!Overwritten
  <2>. QED
    BY <2>1 DEF Attempt!ActionsKept
<1>5. Attempt!AnswerIsFinal
  BY <1>1 DEF Attempt!AnswerIsFinal, AttemptKept
<1>. QED
  BY <1>2, <1>3, <1>4, <1>5

-----------------------------------------------------------------------------
(* The stores together: a step works in one of them.                       *)

LEMMA AttemptsHold == Spec => [](area = "attempts" => AttemptInv)
<1>1. Init => (area = "attempts" => AttemptInv)
  BY StoresAssumption, AttemptInit DEF Init
<1>2. (area = "attempts" => AttemptInv) /\ [Next]_vars => (area = "attempts" => AttemptInv)'
  <2>. SUFFICES ASSUME area = "attempts" => AttemptInv, [Next]_vars, area' = "attempts"
                PROVE  AttemptInv'
    OBVIOUS
  <2>1. area = "attempts" /\ [Attempt!Next]_(Attempt!vars)
    BY DEF Next, vars, attemptV, shared, Attempt!vars
  <2>. QED
    BY <2>1, StoresAssumption, AttemptStep
<1>. QED
  BY <1>1, <1>2, PTL DEF Spec

LEMMA ClassesHold == Spec => [](area = "roster" => ClassInv)
<1>1. Init => (area = "roster" => ClassInv)
  BY ClassInit DEF Init
<1>2. (area = "roster" => ClassInv) /\ [Next]_vars => (area = "roster" => ClassInv)'
  <2>. SUFFICES ASSUME area = "roster" => ClassInv, [Next]_vars, area' = "roster"
                PROVE  ClassInv'
    OBVIOUS
  <2>1. area = "roster" /\ [Class!Next]_(Class!vars)
    BY DEF Next, vars, rosterV, shared, Class!vars
  <2>. QED
    BY <2>1, StoresAssumption, ClassStep
<1>. QED
  BY <1>1, <1>2, PTL DEF Spec

LEMMA CoursesHold == Spec => [](area = "course" => CourseInv)
<1>1. Init => (area = "course" => CourseInv)
  BY CourseInit DEF Init
<1>2. (area = "course" => CourseInv) /\ [Next]_vars => (area = "course" => CourseInv)'
  <2>. SUFFICES ASSUME area = "course" => CourseInv, [Next]_vars, area' = "course"
                PROVE  CourseInv'
    OBVIOUS
  <2>1. area = "course" /\ (Course!Next \/ UNCHANGED <<courses, req, removed>>)
    BY DEF Next, vars, courseV, shared
  <2>2. CASE UNCHANGED <<courses, req, removed>>
    BY <2>1, <2>2 DEF CourseInv, CourseKnows, OnCourse, RowsAreWhole
  <2>. QED
    BY <2>1, <2>2, StoresAssumption, CourseStep
<1>. QED
  BY <1>1, <1>2, PTL DEF Spec

LEMMA RoundsHold == Spec => [](area = "rounds" => RoundInv)
<1>1. Init => (area = "rounds" => RoundInv)
  BY RoundInit DEF Init
<1>2. (area = "rounds" => RoundInv) /\ [Next]_vars => (area = "rounds" => RoundInv)'
  <2>. SUFFICES ASSUME area = "rounds" => RoundInv, [Next]_vars, area' = "rounds"
                PROVE  RoundInv'
    OBVIOUS
  <2>1. area = "rounds" /\ [Round!Next]_(Round!vars)
    BY DEF Next, vars, roundV, shared, Round!vars
  <2>. QED
    BY <2>1, StoresAssumption, RoundStep
<1>. QED
  BY <1>1, <1>2, PTL DEF Spec

LEMMA ReviewsHold == Spec => [](area = "review" => Review!ReviewInv)
<1>1. Init => (area = "review" => Review!ReviewInv)
  BY ReviewBounds, Review!ReviewInit DEF Init
<1>2. (area = "review" => Review!ReviewInv) /\ [Next]_vars
        => (area = "review" => Review!ReviewInv)'
  <2>. SUFFICES ASSUME area = "review" => Review!ReviewInv, [Next]_vars, area' = "review"
                PROVE  Review!ReviewInv'
    OBVIOUS
  <2>1. area = "review" /\ [Review!Next]_(Review!vars)
    BY DEF Next, vars, reviewV, shared, Review!vars
  <2>. QED
    BY <2>1, ReviewBounds, Review!ReviewStep
<1>. QED
  BY <1>1, <1>2, PTL DEF Spec

LEMMA RightsHold == Spec => [](area = "rights" => Rights!ReviewInv)
<1>1. Init => (area = "rights" => Rights!ReviewInv)
  BY ReviewBounds, Rights!ReviewInit DEF Init
<1>2. (area = "rights" => Rights!ReviewInv) /\ [Next]_vars
        => (area = "rights" => Rights!ReviewInv)'
  <2>. SUFFICES ASSUME area = "rights" => Rights!ReviewInv, [Next]_vars, area' = "rights"
                PROVE  Rights!ReviewInv'
    OBVIOUS
  <2>1. area = "rights" /\ [Rights!Next]_(Rights!vars)
    BY DEF Next, vars, reviewV, shared, Rights!vars
  <2>. QED
    BY <2>1, ReviewBounds, Rights!ReviewStep
<1>. QED
  BY <1>1, <1>2, PTL DEF Spec

-----------------------------------------------------------------------------
(* The lease of a feedback, and its calls.                                  *)

\* A request that claimed the row and still has it knows how long: its lease
\* began when it did.
FeedbackLeased ==
  \A r \in Askers :
    req[r].pc \in {"claimed", "work", "fence", "call"} /\ Feedback!Holds(r) /\ req[r].age <= Lease
      => left >= Lease - req[r].age

\* Behind a guard the row is the request's own as long as the lease that it
\* asked for: the guard was passed before the deadline, and a call takes no more
\* than its timeout, but the guard's query takes what it takes.
FeedbackGuarded ==
  \A r \in Askers :
    /\ req[r].pc \in {"fence", "call"} /\ req[r].age <= Lease => Feedback!Holds(r)
    /\ req[r].pc = "fence" /\ req[r].waited <= Lease => req[r].age <= Deadline + req[r].waited
    /\ req[r].pc = "call" => req[r].waited <= CallTime
    /\ req[r].pc = "call" /\ ~ Feedback!Slow(r) =>
         req[r].age <= Deadline + req[r].fenced + req[r].waited

FeedbackInv == Feedback!TypeOK /\ FeedbackLeased /\ FeedbackGuarded

\* A claimable row is nobody's who is behind a guard within that lease: a claim
\* asks that the holder's lease was over at its own beginning.
LEMMA VersionNotTaken ==
  ASSUME Feedback!LeaseAssumption, FeedbackInv, NEW r \in Askers, NEW s \in Askers,
         req[r].pc \in {"fence", "call"}, req[r].age <= Lease
  PROVE  Feedback!Holds(r) /\ left >= 0 /\ status # "none" /\ ~ Feedback!Claimable(s)
<1>1. req[r].age \in Nat /\ req[s].age \in Nat
  BY DEF FeedbackInv, Feedback!TypeOK, Feedback!LeaseAssumption, Feedback!Late
<1>2. Feedback!Holds(r)
  BY DEF FeedbackInv, FeedbackGuarded
<1>3. left >= 0
  BY <1>1, <1>2 DEF FeedbackInv, FeedbackLeased, Feedback!TypeOK, Feedback!LeaseAssumption,
     Feedback!Over
<1>4. ~ Feedback!Claimable(s)
  BY <1>1, <1>2, <1>3 DEF Feedback!Claimable, Feedback!Holds, FeedbackInv, Feedback!TypeOK,
     Feedback!LeaseAssumption, Feedback!Over
<1>. QED  BY <1>2, <1>3, <1>4 DEF Feedback!Holds

FeedbackRequest ==
  [pc : Feedback!Stages, age : 0..Feedback!Late, slot : (-1)..SlotLease,
   waited : 0..Feedback!Late, fenced : 0..Feedback!Late]

\* A request that goes on keeps its type, and so does one that grows older.
LEMMA RequestGoesOn ==
  ASSUME Feedback!LeaseAssumption, NEW q \in FeedbackRequest, NEW stage \in Feedback!Stages
  PROVE  /\ [q EXCEPT !.pc = stage, !.waited = 0] \in FeedbackRequest
         /\ [q EXCEPT !.pc = stage, !.slot = SlotLease] \in FeedbackRequest
         /\ [q EXCEPT !.pc = stage, !.waited = 0, !.fenced = q.waited] \in FeedbackRequest
         /\ Feedback!Idle \in FeedbackRequest
<1>1. 0 \in 0..Feedback!Late /\ -1 \in (-1)..SlotLease /\ SlotLease \in (-1)..SlotLease
  BY DEF Feedback!LeaseAssumption, Feedback!Late
<1>2. Feedback!Idle \in FeedbackRequest
  BY <1>1 DEF FeedbackRequest, Feedback!Idle, Feedback!Stages
<1>3. q.waited \in 0..Feedback!Late
  BY DEF FeedbackRequest
<1>. QED
  BY <1>1, <1>2, <1>3 DEF FeedbackRequest

LEMMA RequestAges ==
  ASSUME Feedback!LeaseAssumption, NEW q \in FeedbackRequest
  PROVE  /\ Feedback!Older(q) \in FeedbackRequest
         /\ Feedback!Older(q).pc = q.pc /\ Feedback!Older(q).fenced = q.fenced
         /\ Feedback!Older(q).age = Feedback!OneMore(q.age)
         /\ q.pc \in {"fence", "call"} => Feedback!Older(q).waited = Feedback!OneMore(q.waited)
<1> DEFINE age == Feedback!OneMore(q.age)
           slot == IF q.slot < 0 THEN q.slot ELSE q.slot - 1
           waited == IF q.pc \in {"fence", "call"} THEN Feedback!OneMore(q.waited) ELSE q.waited
<1>1. Feedback!Older(q) = [q EXCEPT !.age = age, !.slot = slot, !.waited = waited]
  BY DEF Feedback!Older, FeedbackRequest
<1>2. age \in 0..Feedback!Late /\ slot \in (-1)..SlotLease /\ waited \in 0..Feedback!Late
  BY DEF FeedbackRequest, Feedback!LeaseAssumption, Feedback!Late, Feedback!OneMore
<1>3. q.pc \in {"fence", "call"} => waited = Feedback!OneMore(q.waited)
  OBVIOUS
<1>4. age = Feedback!OneMore(q.age)
  OBVIOUS
<1>. HIDE DEF age, slot, waited
<1>. QED
  BY <1>1, <1>2, <1>3, <1>4 DEF FeedbackRequest

\* The steps keep the types.
LEMMA FeedbackTyped ==
  ASSUME Feedback!LeaseAssumption, Feedback!TypeOK, [Feedback!Next]_(Feedback!vars)
  PROVE  Feedback!TypeOK'
<1>. USE DEF Feedback!LeaseAssumption
<1>1. req \in [Askers -> FeedbackRequest]
  BY DEF Feedback!TypeOK, FeedbackRequest
<1>2. ASSUME NEW r \in Askers, Feedback!Step(r)
      PROVE  req' \in [Askers -> FeedbackRequest]
  <2>1. ASSUME NEW n \in FeedbackRequest, req' = [req EXCEPT ![r] = n]
        PROVE  req' \in [Askers -> FeedbackRequest]
    BY <1>1, <2>1
  <2>2. ASSUME NEW stage \in Feedback!Stages, Feedback!To(r, stage)
        PROVE  req' \in [Askers -> FeedbackRequest]
    <3>1. req' = [req EXCEPT ![r] = [req[r] EXCEPT !.pc = stage, !.waited = 0]]
      BY <1>1, <2>2 DEF Feedback!To
    <3>. QED
      BY <1>1, <2>1, <2>2, <3>1, RequestGoesOn
  <2>3. ASSUME Feedback!End(r) PROVE req' \in [Askers -> FeedbackRequest]
    BY <1>1, <2>1, <2>3, RequestGoesOn DEF Feedback!End, Feedback!Stages
  <2>4. {"asked", "claimed", "work", "fence", "call"} \subseteq Feedback!Stages
    BY DEF Feedback!Stages
  <2>5. CASE Feedback!GetSlot(r)
    <3>1. req' = [req EXCEPT ![r] = [req[r] EXCEPT !.pc = "work", !.slot = SlotLease]]
      BY <1>1, <2>5 DEF Feedback!GetSlot
    <3>. QED
      BY <1>1, <2>1, <2>4, <3>1, RequestGoesOn
  <2>6. CASE Feedback!Call(r) /\ ~ Feedback!End(r)
    <3>1. req' = [req EXCEPT ![r] = [req[r] EXCEPT !.pc = "call", !.waited = 0, !.fenced = req[r].waited]]
      BY <1>1, <2>6 DEF Feedback!Call
    <3>. QED
      BY <1>1, <2>1, <2>4, <3>1, RequestGoesOn
  <2>7. CASE UNCHANGED req
    BY <1>1, <2>7
  <2>8. CASE Feedback!Ask(r) \/ Feedback!Fence(r) \/ Feedback!CallEnds(r) \/ Feedback!Claim(r)
    BY <2>2, <2>3, <2>4, <2>8 DEF Feedback!Ask, Feedback!Fence, Feedback!CallEnds, Feedback!Claim
  <2>. QED
    BY <1>2, <2>3, <2>5, <2>6, <2>7, <2>8 DEF Feedback!Step, Feedback!Insert,
       Feedback!NoSlot, Feedback!Complete, Feedback!Fail, Feedback!Die
<1>3. ASSUME NEW r \in Askers, Feedback!Step(r)
      PROVE  /\ status' \in Feedback!Statuses /\ token' \in Askers \cup {Nobody}
             /\ (token' # Nobody) <=> (status' = "running")
             /\ open' = open
  BY <1>3 DEF Feedback!TypeOK, Feedback!Statuses, Feedback!Step, Feedback!Ask, Feedback!Insert,
     Feedback!Claim, Feedback!GetSlot, Feedback!NoSlot, Feedback!Fence, Feedback!Call,
     Feedback!CallEnds, Feedback!Complete, Feedback!Fail, Feedback!Die, Feedback!KeepRow,
     Feedback!SettleIfHeld, Feedback!Become
<1>4. ASSUME NEW r \in Askers, Feedback!Step(r)
      PROVE  left' \in Feedback!Over..Lease
  <2>1. req[r].age \in 0..Feedback!Late
    BY <1>1 DEF FeedbackRequest
  <2>2. left' \in {left, Feedback!Over, Lease - req[r].age}
    BY <1>4 DEF Feedback!Step, Feedback!Ask, Feedback!Insert,
     Feedback!Claim, Feedback!GetSlot, Feedback!NoSlot, Feedback!Fence, Feedback!Call,
     Feedback!CallEnds, Feedback!Complete, Feedback!Fail, Feedback!Die, Feedback!KeepRow,
     Feedback!SettleIfHeld, Feedback!Become
  <2>. QED
    BY <2>1, <2>2 DEF Feedback!TypeOK, Feedback!Over, Feedback!Late
<1>5. ASSUME NEW r \in Askers, Feedback!Step(r)
      PROVE  lost' \in 0..MaxLost /\ busy' \in 0..MaxBusy
  BY <1>5 DEF Feedback!TypeOK, Feedback!Step, Feedback!Ask, Feedback!Insert,
     Feedback!Claim, Feedback!GetSlot, Feedback!NoSlot, Feedback!Fence, Feedback!Call,
     Feedback!CallEnds, Feedback!Complete, Feedback!Fail, Feedback!Die
<1>6. CASE \E r \in Askers : Feedback!Step(r)
  BY <1>2, <1>3, <1>4, <1>5, <1>6 DEF Feedback!TypeOK, FeedbackRequest
<1>7. CASE Feedback!CloseRound
  BY <1>7 DEF Feedback!CloseRound, Feedback!TypeOK
<1>8. CASE Feedback!Tick
  <2>1. \A r \in Askers : req'[r] \in {Feedback!Idle, Feedback!Older(req[r])}
    BY <1>8 DEF Feedback!Tick
  <2>2. \A r \in Askers : Feedback!Idle \in FeedbackRequest /\ Feedback!Older(req[r]) \in FeedbackRequest
    BY <1>1, RequestGoesOn, RequestAges DEF Feedback!Stages
  <2>3. req' \in [Askers -> FeedbackRequest]
    BY <1>8, <2>1, <2>2 DEF Feedback!Tick
  <2>4. left' \in Feedback!Over..Lease
    BY <1>8 DEF Feedback!Tick, Feedback!Over, Feedback!TypeOK
  <2>. QED
    BY <1>8, <2>3, <2>4 DEF Feedback!Tick, Feedback!TypeOK, FeedbackRequest
<1>9. CASE UNCHANGED Feedback!vars
  BY <1>9 DEF Feedback!vars, Feedback!TypeOK
<1>. QED  BY <1>6, <1>7, <1>8, <1>9 DEF Feedback!Next

\* A request that ends leaves the leases of the others as they are.
LEMMA RequestEndsAlone ==
  ASSUME Feedback!TypeOK, FeedbackLeased, NEW s \in Askers,
         \/ Feedback!NoSlot(s) \/ Feedback!Complete(s) \/ Feedback!Fail(s) \/ Feedback!Die(s)
         \/ Feedback!Call(s) /\ Feedback!End(s)
  PROVE  FeedbackLeased'
<1>1. Feedback!End(s) /\ (Feedback!KeepRow \/ status' # "running")
  BY DEF Feedback!NoSlot, Feedback!Complete, Feedback!Fail, Feedback!Die, Feedback!Call,
     Feedback!SettleIfHeld, Feedback!Become
<1>2. ASSUME NEW r \in Askers, req'[r].pc # "idle"
      PROVE  req'[r] = req[r]
  BY <1>1, <1>2 DEF Feedback!End, Feedback!Idle, Feedback!TypeOK
<1>3. ASSUME NEW r \in Askers, req'[r].pc # "idle", (Feedback!Holds(r))'
      PROVE  req'[r] = req[r] /\ left' = left /\ Feedback!Holds(r)
  BY <1>1, <1>2, <1>3 DEF Feedback!KeepRow, Feedback!Holds
<1>. QED  BY <1>3 DEF FeedbackLeased

\* A step of one request leaves the lease of every other as it is.
LEMMA FeedbackStaysLeased ==
  ASSUME Feedback!LeaseAssumption, FeedbackInv, Feedback!TypeOK', [Feedback!Next]_(Feedback!vars)
  PROVE  FeedbackLeased'
<1>. USE DEF Feedback!LeaseAssumption, FeedbackInv, Feedback!TypeOK, Feedback!Idle,
   FeedbackLeased, Feedback!Holds
<1>1. ASSUME NEW s \in Askers, Feedback!Step(s)
      PROVE  FeedbackLeased'
  <2>1. CASE Feedback!Ask(s)       BY <2>1 DEF Feedback!Ask, Feedback!To
  <2>2. CASE Feedback!Insert(s)    BY <2>2 DEF Feedback!Insert, Feedback!Become
  <2>3. CASE Feedback!Claim(s)
    BY <2>3 DEF Feedback!Claim, Feedback!Become, Feedback!KeepRow, Feedback!To, Feedback!End
  <2>4. CASE Feedback!GetSlot(s)   BY <2>4 DEF Feedback!GetSlot, Feedback!KeepRow
  <2>5. CASE Feedback!Fence(s)     BY <2>5 DEF Feedback!Fence, Feedback!To, Feedback!KeepRow
  <2>6. CASE Feedback!Call(s) /\ ~ Feedback!End(s)
    BY <2>6 DEF Feedback!Call, Feedback!KeepRow
  <2>7. CASE Feedback!CallEnds(s)  BY <2>7 DEF Feedback!CallEnds, Feedback!To, Feedback!KeepRow
  <2>8. CASE \/ Feedback!NoSlot(s) \/ Feedback!Complete(s) \/ Feedback!Fail(s) \/ Feedback!Die(s)
             \/ Feedback!Call(s) /\ Feedback!End(s)
    BY <2>8, RequestEndsAlone
  <2>. QED  BY <1>1, <2>1, <2>2, <2>3, <2>4, <2>5, <2>6, <2>7, <2>8 DEF Feedback!Step
<1>2. CASE Feedback!CloseRound
  BY <1>2 DEF Feedback!CloseRound
<1>3. CASE Feedback!Tick
  <2>1. ASSUME NEW r \in Askers, req'[r].pc \in {"claimed", "work", "fence", "call"}
        PROVE  req[r].pc = req'[r].pc /\ req'[r].age = Feedback!OneMore(req[r].age)
    BY <1>3, <2>1, RequestAges DEF Feedback!Tick, FeedbackRequest
  <2>2. /\ left' = IF left > Feedback!Over THEN left - 1 ELSE Feedback!Over
        /\ UNCHANGED <<status, token>>
    BY <1>3 DEF Feedback!Tick
  <2>. QED
    BY <2>1, <2>2 DEF Feedback!OneMore, Feedback!Over, Feedback!Late
<1>4. CASE UNCHANGED Feedback!vars
  BY <1>4 DEF Feedback!vars
<1>. QED  BY <1>1, <1>2, <1>3, <1>4 DEF Feedback!Next

\* A step of one request leaves every other behind its guard.
LEMMA FeedbackStaysGuarded ==
  ASSUME Feedback!LeaseAssumption, FeedbackInv, Feedback!TypeOK', [Feedback!Next]_(Feedback!vars)
  PROVE  FeedbackGuarded'
<1>. USE DEF Feedback!LeaseAssumption, Feedback!TypeOK
<1>1. Feedback!TypeOK /\ FeedbackGuarded
  BY DEF FeedbackInv
<1>2. ASSUME NEW s \in Askers, Feedback!Step(s)
      PROVE  FeedbackGuarded'
  <2>1. ASSUME NEW r \in Askers, r # s PROVE req'[r] = req[r]
    BY <1>1, <1>2, <2>1 DEF Feedback!Step, Feedback!Ask, Feedback!Insert, Feedback!Claim,
       Feedback!GetSlot, Feedback!NoSlot, Feedback!Fence, Feedback!Call, Feedback!CallEnds,
       Feedback!Complete, Feedback!Fail, Feedback!Die, Feedback!To, Feedback!End
  <2>2. ASSUME NEW r \in Askers, r # s, req[r].pc \in {"fence", "call"}, req[r].age <= Lease
        PROVE  Feedback!Holds(r)'
    <3>1. Feedback!Holds(r) /\ status # "none" /\ ~ Feedback!Claimable(s) /\ ~ Feedback!Holds(s)
      BY <2>2, VersionNotTaken DEF Feedback!Holds
    <3>2. UNCHANGED <<status, token>>
      BY <1>2, <3>1 DEF Feedback!Step, Feedback!Ask, Feedback!Insert, Feedback!Claim,
         Feedback!GetSlot, Feedback!NoSlot, Feedback!Fence, Feedback!Call, Feedback!CallEnds,
         Feedback!Complete, Feedback!Fail, Feedback!Die, Feedback!KeepRow, Feedback!SettleIfHeld
    <3>. QED
      BY <3>1, <3>2 DEF Feedback!Holds
  <2>3. CASE Feedback!Fence(s)
    <3>1. /\ req'[s].pc = "fence" /\ req'[s].age = req[s].age /\ req'[s].waited = 0
          /\ req[s].age <= Deadline
      BY <1>1, <2>3 DEF Feedback!Fence, Feedback!To, Feedback!InTime
    <3>2. Feedback!Holds(s)'
      BY <2>3 DEF Feedback!Fence, Feedback!KeepRow, Feedback!Holds
    <3>. QED
      BY <1>1, <2>1, <2>2, <3>1, <3>2 DEF FeedbackGuarded, Feedback!Slow
  <2>4. CASE Feedback!Call(s) /\ ~ Feedback!End(s)
    <3>1. /\ req[s].pc = "fence"
          /\ req'[s].pc = "call" /\ req'[s].age = req[s].age /\ req'[s].waited = 0
          /\ req'[s].fenced = req[s].waited
      BY <1>1, <2>4 DEF Feedback!Call
    <3>2. Feedback!Holds(s) => Feedback!Holds(s)'
      BY <2>4 DEF Feedback!Call, Feedback!KeepRow, Feedback!Holds
    <3>. QED
      BY <1>1, <2>1, <2>2, <3>1, <3>2 DEF FeedbackGuarded, Feedback!Slow
  <2>5. CASE ~ Feedback!Fence(s) /\ ~ (Feedback!Call(s) /\ ~ Feedback!End(s))
    <3>1. \/ req'[s] = req[s] /\ req[s].pc = "asked"
          \/ req'[s].pc \notin {"fence", "call"}
      BY <1>1, <1>2, <2>5 DEF Feedback!Step, Feedback!Ask, Feedback!Insert, Feedback!Claim,
         Feedback!GetSlot, Feedback!NoSlot, Feedback!Call, Feedback!CallEnds,
         Feedback!Complete, Feedback!Fail, Feedback!Die, Feedback!To, Feedback!End, Feedback!Idle
    <3>. QED
      BY <1>1, <2>1, <2>2, <3>1 DEF FeedbackGuarded, Feedback!Slow
  <2>. QED
    BY <2>3, <2>4, <2>5
<1>3. CASE Feedback!CloseRound
  BY <1>1, <1>3 DEF Feedback!CloseRound, FeedbackGuarded, Feedback!Slow, Feedback!Holds
<1>4. CASE Feedback!Tick
  <2>1. ASSUME NEW r \in Askers, req[r].pc \in {"fence", "call"}
        PROVE  /\ req'[r].pc = req[r].pc /\ req'[r].fenced = req[r].fenced
               /\ req'[r].age = Feedback!OneMore(req[r].age)
               /\ req'[r].waited = Feedback!OneMore(req[r].waited)
               /\ req[r].pc = "call" => req[r].waited < CallTime
    BY <1>1, <1>4, <2>1 DEF Feedback!Tick, Feedback!Older
  <2>2. \A r \in Askers : req'[r].pc = req[r].pc
    BY <1>1, <1>4 DEF Feedback!Tick, Feedback!Older, Feedback!Idle
  <2>3. UNCHANGED <<status, token>>
    BY <1>4 DEF Feedback!Tick
  <2>. QED
    BY <1>1, <2>1, <2>2, <2>3 DEF FeedbackGuarded, Feedback!Slow, Feedback!Holds,
       Feedback!OneMore, Feedback!Late
<1>5. CASE UNCHANGED Feedback!vars
  BY <1>1, <1>5 DEF Feedback!vars, FeedbackGuarded, Feedback!Slow, Feedback!Holds
<1>. QED  BY <1>2, <1>3, <1>4, <1>5 DEF Feedback!Next

LEMMA FeedbackBegins ==
  ASSUME Feedback!LeaseAssumption, Feedback!Init
  PROVE  FeedbackInv
<1>1. Feedback!TypeOK
  <2>1. Feedback!Over \in Feedback!Over..Lease /\ 0 \in 0..(Lease + 1) /\ -1 \in (-1)..SlotLease /\ 0 \in 0..MaxLost /\ 0
     \in 0..MaxBusy
    BY DEF Feedback!LeaseAssumption, Feedback!Over
  <2>. QED  BY <2>1 DEF Feedback!Init, Feedback!TypeOK, Feedback!Statuses, Feedback!Stages,
     Feedback!Idle, Feedback!Late
<1>2. ASSUME NEW r \in Askers
      PROVE  req[r].pc = "idle"
  BY DEF Feedback!Init, Feedback!Idle
<1>. QED  BY <1>1, <1>2 DEF FeedbackInv, FeedbackLeased, FeedbackGuarded

LEMMA FeedbackStep ==
  ASSUME Feedback!LeaseAssumption, FeedbackInv, [Feedback!Next]_(Feedback!vars)
  PROVE  FeedbackInv'
BY FeedbackTyped, FeedbackStaysLeased, FeedbackStaysGuarded DEF FeedbackInv

\* Two callers would both hold the row.
LEMMA FeedbackCallsApart ==
  ASSUME Feedback!LeaseAssumption, FeedbackInv
  PROVE  Feedback!OneCallPerVersion
<1>1. ASSUME NEW r \in Askers, req[r].pc = "call", ~ Feedback!Slow(r)
      PROVE  Feedback!Holds(r)
  <2>1. req[r].age \in Nat /\ req[r].fenced \in Nat /\ req[r].waited \in Nat
    BY DEF FeedbackInv, Feedback!TypeOK, Feedback!LeaseAssumption, Feedback!Late
  <2>2. req[r].age <= Lease
    BY <1>1, <2>1 DEF FeedbackInv, FeedbackGuarded, Feedback!Slow, Feedback!LeaseAssumption
  <2>. QED
    BY <1>1, <2>2 DEF FeedbackInv, FeedbackGuarded
<1>. QED
  BY <1>1 DEF Feedback!Holds, Feedback!OneCallPerVersion

\* Every write asks for the token, and a completed row has none.
LEMMA FeedbackIsFinal ==
  ASSUME Feedback!TypeOK, [Feedback!Next]_(Feedback!vars)
  PROVE  Feedback!CompletedIsFinal
<1>1. ASSUME status = "completed", NEW s \in Askers, Feedback!Step(s)
      PROVE  status' = "completed"
  BY <1>1 DEF Feedback!Step, Feedback!Ask, Feedback!Insert, Feedback!Claim, Feedback!Claimable,
     Feedback!GetSlot, Feedback!NoSlot, Feedback!Fence, Feedback!Call, Feedback!CallEnds,
     Feedback!Complete, Feedback!Fail, Feedback!Die, Feedback!SettleIfHeld, Feedback!Holds,
     Feedback!KeepRow, Feedback!TypeOK
<1>. QED  BY <1>1 DEF Feedback!Next, Feedback!CloseRound, Feedback!Tick,
   Feedback!CompletedIsFinal, Feedback!vars

\* A claim waits for the end of the lease; only the holder settles the row.
LEMMA FeedbackLeaseKept ==
  ASSUME Feedback!LeaseAssumption, Feedback!TypeOK, [Feedback!Next]_(Feedback!vars)
  PROVE  Feedback!LeaseIsKept
<1>1. ASSUME NEW r \in Askers, NEW s \in Askers, Feedback!Step(s),
             Feedback!Holds(r), left >= 0, ~ (Feedback!Holds(r))'
      PROVE  req'[r] # req[r]
  <2>. USE DEF Feedback!TypeOK, Feedback!LeaseAssumption
  <2>1. ~ Feedback!Claim(s) /\ ~ Feedback!Insert(s)
    BY <1>1 DEF Feedback!Claim, Feedback!Claimable, Feedback!Insert, Feedback!Become,
       Feedback!KeepRow, Feedback!Holds
  <2>2. CASE Feedback!NoSlot(s)
    BY <1>1, <2>2 DEF Feedback!NoSlot, Feedback!SettleIfHeld, Feedback!KeepRow, Feedback!End,
       Feedback!Idle, Feedback!Holds
  <2>3. CASE Feedback!Complete(s)
    BY <1>1, <2>3 DEF Feedback!Complete, Feedback!SettleIfHeld, Feedback!KeepRow, Feedback!End,
       Feedback!Idle, Feedback!Holds
  <2>4. CASE Feedback!Fail(s)
    BY <1>1, <2>4 DEF Feedback!Fail, Feedback!SettleIfHeld, Feedback!KeepRow, Feedback!End,
       Feedback!Idle, Feedback!Holds
  <2>a. CASE Feedback!Call(s)
    BY <1>1, <2>a DEF Feedback!Call, Feedback!SettleIfHeld, Feedback!KeepRow, Feedback!End,
       Feedback!Idle, Feedback!Holds
  <2>5. ~ Feedback!Ask(s) /\ ~ Feedback!GetSlot(s) /\ ~ Feedback!Fence(s) /\
     ~ Feedback!CallEnds(s) /\ ~ Feedback!Die(s)
    BY <1>1 DEF Feedback!Ask, Feedback!GetSlot, Feedback!Fence, Feedback!CallEnds,
       Feedback!Die, Feedback!KeepRow, Feedback!Holds
  <2>. QED  BY <1>1, <2>1, <2>2, <2>3, <2>4, <2>5, <2>a DEF Feedback!Step
<1>2. ASSUME Feedback!CloseRound \/ Feedback!Tick \/ UNCHANGED Feedback!vars, NEW r \in Askers
      PROVE  (Feedback!Holds(r))' <=> Feedback!Holds(r)
  BY <1>2 DEF Feedback!CloseRound, Feedback!Tick, Feedback!Holds, Feedback!vars
<1>. QED  BY <1>1, <1>2 DEF Feedback!Next, Feedback!LeaseIsKept

LEMMA FeedbackHolds == Spec => [](area = "feedback" => FeedbackInv)
<1>1. Init => (area = "feedback" => FeedbackInv)
  BY FeedbackTimes, FeedbackBegins DEF Init
<1>2. (area = "feedback" => FeedbackInv) /\ [Next]_vars
        => (area = "feedback" => FeedbackInv)'
  <2>. SUFFICES ASSUME area = "feedback" => FeedbackInv, [Next]_vars, area' = "feedback"
                PROVE  FeedbackInv'
    OBVIOUS
  <2>1. area = "feedback" /\ [Feedback!Next]_(Feedback!vars)
    BY DEF Next, vars, aiV, shared, Feedback!vars
  <2>. QED
    BY <2>1, FeedbackTimes, FeedbackStep
<1>. QED
  BY <1>1, <1>2, PTL DEF Spec

-----------------------------------------------------------------------------
\* Every store's variables keep their types, however requests overlap (their
\* records say what each has read before it writes).
THEOREM TypesHold == Spec => []TypeOK
<1>1. /\ area = "attempts" => AttemptInv
      /\ area = "roster" => ClassInv
      /\ area = "course" => CourseInv
      /\ area = "rounds" => RoundInv
      /\ area = "review" => Review!ReviewInv
      /\ area = "rights" => Rights!ReviewInv
      /\ area = "feedback" => FeedbackInv
      => TypeOK
  BY StoresAssumption, AttemptHolds, ClassHolds, CourseHolds
  DEF TypeOK, RoundInv, Review!ReviewInv, Rights!ReviewInv, FeedbackInv
<1>. QED
  BY <1>1, AttemptsHold, ClassesHold, CoursesHold, RoundsHold, ReviewsHold, RightsHold,
     FeedbackHolds, PTL

\* For any number of students with any number of tabs, a student has one attempt
\* in progress, none at their own text, keeps every action that was answered with
\* success and the answer that was graded, except for what a request of theirs
\* changes that was already under way (assignExecuteAttempt,
\* applyActionAndPersist and submitFinalAnswer in lib/store.ts).
THEOREM AttemptsStay == Spec => []AttemptsAreKept
<1>1. (area = "attempts" => AttemptInv) => AttemptsAreKept
  BY StoresAssumption, AttemptHolds DEF AttemptsAreKept
<1>. QED
  BY <1>1, AttemptsHold, PTL

\* Through any number of edits, removals and logins, however they overlap, a
\* student's work and logins carry the key of their roster row, a row with history
\* is never deleted and no key comes to belong to two students, except for a
\* student whom a request wrote for, renamed or removed after what it had read of
\* the row had changed (lib/roster.ts).
THEOREM HistoryKept == Spec => []HistoryHasItsOwner
<1>1. (area = "roster" => ClassInv) => HistoryHasItsOwner
  BY StoresAssumption, ClassHolds DEF HistoryHasItsOwner
<1>. QED
  BY <1>1, ClassesHold, PTL

\* However many first requests overlap, and whichever of them die between two
\* statements, every one that gets a course gets one whose roster was seeded in
\* full; it is the same one, and whom the teacher removed stays removed, unless a
\* request wrote after another had overtaken what it had read
\* (getOrCreateDefaultCourse and seedRosterForCourse).
THEOREM CoursesAreWhole == Spec => []CourseIsWhole
<1>1. (area = "course" => CourseInv) => CourseIsWhole
  BY StoresAssumption, CourseHolds DEF CourseIsWhole
<1>. QED
  BY <1>1, CoursesHold, PTL

\* With any number of rounds, students, votes and teachers' requests, however they
\* overlap, at most one round is open, a closed one stays closed and none is
\* deleted while it is open, except for a round that a request wrote after another
\* had overtaken what it had read (publishWarmupRound, closeWarmupRound and
\* deleteWarmupRound in lib/warmupStore.ts).
THEOREM RoundsOpenOnce == Spec => []OneOpenRound
<1>1. (area = "rounds" => RoundInv) => OneOpenRound
  BY DEF OneOpenRound, RoundInv
<1>. QED
  BY <1>1, RoundsHold, PTL

\* For any number of students, submissions and requests that race to freeze the
\* ring it is fair; and whatever the times of the lease and however long a guard's
\* query takes, no two calls read one version unless such a query outlasted what
\* deadline and timeout leave of the lease (assignResearchReviews, claim and
\* guardedFetch).
THEOREM ReviewsStayFair == Spec => []ReviewsAreFair
<1>1. (area = "review" => Review!ReviewInv) /\ (area = "feedback" => FeedbackInv)
        => ReviewsAreFair
  BY ReviewBounds, FeedbackTimes, Review!FairRing, FeedbackCallsApart DEF ReviewsAreFair
<1>. QED
  BY <1>1, ReviewsHold, FeedbackHolds, PTL

\* No step takes back what is settled: an answered attempt is not reopened, nor
\* is its answer, log or evaluation changed but by a request that had begun when it
\* was graded; a frozen ring is not added to, a stored feedback not replaced, and
\* a row whose lease lasts not taken from its holder.
THEOREM SettledIsKept == Spec => SettledStays
<1>. DEFINE Inv == /\ area = "attempts" => AttemptInv
                   /\ area = "review" => Review!ReviewInv
                   /\ area = "feedback" => FeedbackInv
            Kept == /\ area = "attempts" => Attempt!NothingAfterAnswer
                    /\ area = "review" => Review!RingIsFrozen
                    /\ area = "feedback" => Feedback!CompletedIsFinal /\ Feedback!LeaseIsKept
<1>1. Inv /\ [Next]_vars => [Kept]_vars
  <2>. SUFFICES ASSUME Inv, [Next]_vars PROVE Kept
    OBVIOUS
  <2>1. CASE area = "attempts"
    <3>1. [Attempt!Next]_(Attempt!vars)
      BY <2>1 DEF Next, vars, attemptV, shared, Attempt!vars
    <3>. QED
      BY <2>1, <3>1, StoresAssumption, AttemptStep
  <2>2. CASE area = "review"
    <3>1. [Review!Next]_(Review!vars)
      BY <2>2 DEF Next, vars, reviewV, shared, Review!vars
    <3>. QED
      BY <2>2, <3>1, ReviewBounds, Review!ReviewStep
  <2>3. CASE area = "feedback"
    <3>1. [Feedback!Next]_(Feedback!vars)
      BY <2>3 DEF Next, vars, aiV, shared, Feedback!vars
    <3>2. Feedback!TypeOK
      BY <2>3 DEF FeedbackInv
    <3>. QED
      BY <2>3, <3>1, <3>2, FeedbackTimes, FeedbackIsFinal, FeedbackLeaseKept
  <2>. QED
    BY <2>1, <2>2, <2>3
<1>2. Spec => []Inv
  BY AttemptsHold, ReviewsHold, FeedbackHolds, PTL
<1>. QED
  BY <1>1, <1>2, PTL DEF Spec, SettledStays

\* No step takes the right to revise from a submission that it leaves there,
\* whatever texts change and whoever else is deleted (canRevise and
\* deleteWarmupSubmission).
THEOREM RightsStay == Spec => RightToRevise
<1>1. (area = "rights" => Rights!ReviewInv) /\ [Next]_vars
        => [area = "rights" => Rights!RightToRevise]_vars
  <2>. SUFFICES ASSUME area = "rights", Rights!ReviewInv, [Next]_vars
                PROVE  Rights!RightToRevise
    OBVIOUS
  <2>1. [Rights!Next]_(Rights!vars)
    BY DEF Next, vars, reviewV, shared, Rights!vars
  <2>. QED
    BY <2>1, ReviewBounds, Rights!RevisionStays
<1>. QED
  BY <1>1, RightsHold, PTL DEF Spec, RightToRevise
=============================================================================
