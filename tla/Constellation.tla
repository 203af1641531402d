---------------------------- MODULE Constellation ----------------------------
(* The practice problem "constellation": the star map of the sandbox, the    *)
(* connections a student makes, the check of the answer and the comparison   *)
(* with Kruskal's order (lib/problems/constellation.ts,                       *)
(* components/write/sandbox/ConstellationSandbox.tsx).                        *)
EXTENDS Integers, Sequences, FiniteSets, SequencesExt, FiniteSetsExt

CONSTANTS
  Layouts,      \* the maps generate() may draw: sequences of points <<x, y>>
  MaxAttempts,  \* bound: connections tried in one behaviour
  None

VARIABLES lay, correctAnswer,              \* instance: input.points and its answer
          edges, attempts,                 \* instance: its state
          first, second,                   \* selectedFirst, selectedSecond
          connecting, toast, flash, timers, \* transient display and its timers
          feedback, overlay                \* the check of the answer

vars == <<lay, correctAnswer, edges, attempts, first, second, connecting, toast, flash,
          timers, feedback, overlay>>

Timers == {"connecting", "toast", "flash"}
Ids(L) == 1..Len(L)

\* Math.round(Math.hypot(dx, dy)): the r with (r - 1/2)^2 <= dx^2 + dy^2 < (r + 1/2)^2.
starDistance(L, a, b) ==
  LET dx == L[a][1] - L[b][1]
      dy == L[a][2] - L[b][2]
      d2 == 4 * (dx * dx + dy * dy)
  IN CHOOSE r \in 0..200 : d2 < (2 * r + 1) * (2 * r + 1)
                           /\ (r = 0 \/ (2 * r - 1) * (2 * r - 1) <= d2)

Edge(L, a, b) == [a |-> a, b |-> b, dist |-> starDistance(L, a, b)]
totalEdgeWeight(es) == FoldLeft(LAMBDA sum, e : sum + e.dist, 0, es)
Samepair(e, a, b) == {e.a, e.b} = {a, b}
isDirectlyConnected(es, a, b) == \E i \in DOMAIN es : Samepair(es[i], a, b)

\* The root of x and the parent map with the path halved on the way.
findRoot(parent, x) ==
  LET find[c \in [DOMAIN parent -> DOMAIN parent] \X DOMAIN parent] ==
        LET p == c[1]
            y == c[2]
            up == p[p[y]]
        IN IF p[y] = y THEN [root |-> y, parent |-> p] ELSE find[<<[p EXCEPT ![y] = up], up>>]
  IN find[<<parent, x>>]

Alone(L) == [i \in Ids(L) |-> i]
Apart(parent, a, b) == findRoot(parent, a).root # findRoot(parent, b).root
Join(parent, e) ==
  LET ra == findRoot(parent, e.a)
      rb == findRoot(ra.parent, e.b)
  IN [rb.parent EXCEPT ![ra.root] = rb.root]
Groups(L, es) == FoldLeft(Join, Alone(L), es)

\* Every pair by distance; the sort is stable, so equal ones stay in order of ids.
Candidates(L) ==
  LET lines == {Edge(L, p[1], p[2]) : p \in {q \in Ids(L) \X Ids(L) : q[1] < q[2]}}
      Before(e, f) == \/ e.dist < f.dist
                      \/ e.dist = f.dist /\ (e.a < f.a \/ (e.a = f.a /\ e.b < f.b))
      At(k) == CHOOSE e \in lines : Cardinality({f \in lines : Before(f, e)}) = k - 1
  IN [k \in 1..Cardinality(lines) |-> At(k)]

\* Slip: the scan takes every short edge, cycles or not.
GreedyKruskal(L) ==
  SubSeq(Candidates(L), 1, Len(L) - 1)
\* Slip: the longest line comes first.
LongestFirst(L) ==
  FoldLeft(LAMBDA es, e : IF Apart(Groups(L, es), e.a, e.b) THEN Append(es, e) ELSE es,
           <<>>, Reverse(Candidates(L)))
Kruskal(L) ==
  FoldLeft(LAMBDA es, e : IF Apart(Groups(L, es), e.a, e.b) THEN Append(es, e) ELSE es,
           <<>>, Candidates(L))

\* The answer generate() stores with the map.
AnswerOf(L) == totalEdgeWeight(Kruskal(L))

n == Len(lay)
spanningTreeDone == Len(edges) = n - 1
solved == feedback = "right"
bothSelected == first # None /\ second # None
canConnect == bothSelected /\ ~ isDirectlyConnected(edges, first, second)

\* The places where the student took a longer edge than one still open.
skips(L, order) ==
  {i \in DOMAIN order :
     LET joined == Groups(L, SubSeq(order, 1, i - 1))
     IN \E a, b \in Ids(L) : Apart(joined, a, b) /\ starDistance(L, a, b) < order[i].dist}
userOrder ==
  LET yes == SelectSeq(attempts, LAMBDA t : t.accepted)
  IN [i \in DOMAIN yes |-> yes[i].e]
-----------------------------------------------------------------------------
Init ==
  /\ lay \in Layouts /\ correctAnswer = AnswerOf(lay)
  /\ edges = <<>> /\ attempts = <<>>
  /\ first = None /\ second = None
  /\ connecting = FALSE /\ toast = "none" /\ flash = None /\ timers = {}
  /\ feedback = "none" /\ overlay = FALSE

\* Slip: the timers are cleared but the button stays busy.
ResetKeepsBusy ==
  /\ timers' = {} /\ first' = None /\ second' = None
  /\ flash' = None /\ toast' = "none" /\ UNCHANGED connecting
  /\ feedback' = "none" /\ overlay' = FALSE
\* Slip: the reset forgets the rejected line and its timer.
ResetKeepsFlash ==
  /\ timers' = timers \cap {"flash"} /\ first' = None /\ second' = None
  /\ UNCHANGED flash /\ toast' = "none" /\ connecting' = FALSE
  /\ feedback' = "none" /\ overlay' = FALSE
\* Slip: the answer stays drawn on the next map.
ResetKeepsAnswer ==
  /\ timers' = {} /\ first' = None /\ second' = None
  /\ flash' = None /\ toast' = "none" /\ connecting' = FALSE
  /\ feedback' = "none" /\ UNCHANGED overlay
resetTransientUi ==
  /\ timers' = {} /\ first' = None /\ second' = None
  /\ flash' = None /\ toast' = "none" /\ connecting' = FALSE
  /\ feedback' = "none" /\ overlay' = FALSE

NewProblem ==
  /\ resetTransientUi
  /\ lay' \in Layouts /\ correctAnswer' = AnswerOf(lay')
  /\ edges' = <<>> /\ attempts' = <<>>

Reset ==
  /\ resetTransientUi
  /\ edges' = <<>> /\ attempts' = <<>>
  /\ UNCHANGED <<lay, correctAnswer>>

\* Slip: the chosen star can be chosen again as the second one.
ClickTwice(id) ==
  /\ ~ solved
  /\ IF first # None /\ second = None
       THEN first' = first /\ second' = id
       ELSE /\ first' = IF id \in {first, second} THEN None ELSE id
            /\ second' = None
  /\ UNCHANGED <<lay, correctAnswer, edges, attempts, connecting, toast, flash, timers,
                 feedback, overlay>>
\* The second click completes the pair, a click on a chosen star or a third
\* click starts over.
StarClick(id) ==
  /\ ~ solved
  /\ IF first # None /\ second = None /\ id # first
       THEN first' = first /\ second' = id
       ELSE /\ first' = IF id \in {first, second} THEN None ELSE id
            /\ second' = None
  /\ UNCHANGED <<lay, correctAnswer, edges, attempts, connecting, toast, flash, timers,
                 feedback, overlay>>

\* Slip: the union-find starts from the last accepted edge only.
JudgeByLast(a, b) ==
  Apart(Groups(lay, IF edges = <<>> THEN <<>> ELSE <<Last(edges)>>), a, b)
\* Slip: a line between two touched stars counts as a ring.
JudgeByTouch(a, b) ==
  ~ {a, b} \subseteq UNION {{e.a, e.b} : e \in Range(edges)}
Accepts(a, b) == Apart(Groups(lay, edges), a, b)

Connect ==
  /\ canConnect /\ ~ connecting
  /\ Len(attempts) < MaxAttempts
  /\ LET e == Edge(lay, Min({first, second}), Max({first, second}))
         accepted == Accepts(first, second)
     IN /\ attempts' = Append(attempts, [e |-> e, accepted |-> accepted])
        /\ edges' = IF accepted THEN Append(edges, e) ELSE edges
        /\ toast' = IF accepted THEN "success" ELSE "error"
        /\ flash' = IF accepted THEN flash ELSE e
        /\ timers' = timers \cup {"connecting", "toast"}
                            \cup (IF accepted THEN {} ELSE {"flash"})
  /\ connecting' = TRUE
  /\ first' = None /\ second' = None
  /\ UNCHANGED <<lay, correctAnswer, feedback, overlay>>

\* A guess is judged against the least total, not against the student's own tree.
CheckAnswer(guess) ==
  /\ spanningTreeDone /\ ~ solved
  /\ feedback' = IF guess = correctAnswer THEN "right" ELSE "wrong"
  /\ overlay' = TRUE
  /\ UNCHANGED <<lay, correctAnswer, edges, attempts, first, second, connecting, toast, flash, timers>>

Fire(t) ==
  /\ t \in timers
  /\ timers' = timers \ {t}
  /\ connecting' = IF t = "connecting" THEN FALSE ELSE connecting
  /\ toast' = IF t = "toast" THEN "none" ELSE toast
  /\ flash' = IF t = "flash" THEN None ELSE flash
  /\ UNCHANGED <<lay, correctAnswer, edges, attempts, first, second, feedback, overlay>>

Next ==
  \/ NewProblem
  \/ Reset
  \/ \E id \in Ids(lay) : StarClick(id)
  \/ Connect
  \/ spanningTreeDone /\ \E guess \in {correctAnswer, totalEdgeWeight(edges)} : CheckAnswer(guess)
  \/ \E t \in Timers : Fire(t)

Spec == Init /\ [][Next]_vars
-----------------------------------------------------------------------------
EdgeType == [a : Nat, b : Nat, dist : Nat]

\* Every variable has its type; a chosen pair is two stars.
TypeOK ==
  /\ lay \in Layouts
  /\ \A i \in DOMAIN edges : edges[i] \in EdgeType
  /\ first \in Ids(lay) \cup {None} /\ second \in Ids(lay) \cup {None}
  /\ (first = None => second = None) /\ (first # None => first # second)
  /\ timers \subseteq Timers /\ connecting \in BOOLEAN
  /\ toast \in {"none", "success", "error"}

\* The stars reachable from the set S over the lines es.
Reach(S, es) ==
  LET stars == S \cup UNION {{e.a, e.b} : e \in es}
      reach[T \in SUBSET stars] ==
        LET more == T \cup UNION {{e.a, e.b} : e \in {x \in es : {x.a, x.b} \cap T # {}}}
        IN IF more = T THEN T ELSE reach[more]
  IN reach[S]
Linked(es, a, b) == b \in Reach({a}, es)

\* The accepted lines never close a ring, and n - 1 of them join all the stars:
\* "finished" on the page means that the sky is one constellation.
Tree ==
  /\ \A i \in DOMAIN edges :
       ~ Linked(Range(edges) \ {edges[i]}, edges[i].a, edges[i].b)
  /\ spanningTreeDone <=> Reach({1}, Range(edges)) = Ids(lay)

\* Every attempt was judged by the lines accepted before it.
JudgedRightly ==
  \A i \in DOMAIN attempts :
     LET before == {attempts[j].e : j \in {k \in 1..(i - 1) : attempts[k].accepted}}
     IN attempts[i].accepted <=> ~ Linked(before, attempts[i].e.a, attempts[i].e.b)

\* No finished map is shorter than the answer the student is judged by.
NeverBelowAnswer == spanningTreeDone => totalEdgeWeight(edges) >= correctAnswer

\* "The same order as Kruskal's" (no longer edge taken than one still open) is
\* only said of a map whose total is the least one.
NoSkipIsLeast ==
  (spanningTreeDone /\ skips(lay, userOrder) = {})
     => totalEdgeWeight(edges) = correctAnswer

\* The red line on the map is an attempt of this map that was refused.
FlashIsRefused ==
  flash # None => \E i \in DOMAIN attempts :
                     attempts[i].e = flash /\ ~ attempts[i].accepted

\* The answer's lines are drawn only on a finished map that has been checked.
AnswerAfterCheck == overlay => spanningTreeDone /\ feedback # "none"

\* The connect button is busy only while a timer will release it, whatever is
\* reset in between.
ButtonIsReleased == connecting => "connecting" \in timers
=============================================================================
