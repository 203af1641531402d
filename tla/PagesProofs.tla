----------------------------- MODULE PagesProofs -----------------------------
(***************************************************************************)
(* Theorems about the pages, for any number of students, requests, clicks  *)
(* and lost answers.  Each page has an inductive invariant of its own,     *)
(* mostly about the requests that are under way.                           *)
(***************************************************************************)
EXTENDS Pages, FiniteSetTheorems, FunctionTheorems, TLAPS

\* An instance's numbers of elements are those of FiniteSets.
LEMMA PageCardinality ==
  \A S : /\ Tab!Cardinality(S) = Cardinality(S) /\ Execute!Cardinality(S) = Cardinality(S)
         /\ Chooser!Cardinality(S) = Cardinality(S) /\ Explore!Cardinality(S) = Cardinality(S)
         /\ Panel!Cardinality(S) = Cardinality(S) /\ Job!Cardinality(S) = Cardinality(S)
         /\ Results!Cardinality(S) = Cardinality(S)
BY DEF Cardinality, Tab!Cardinality, Execute!Cardinality, Chooser!Cardinality,
   Explore!Cardinality, Panel!Cardinality, Job!Cardinality, Results!Cardinality

\* Requests that are replaced are as many as before.
LEMMA Imaged ==
  ASSUME NEW S, IsFiniteSet(S), NEW f, NEW T \in SUBSET {f[x] : x \in S}
  PROVE  IsFiniteSet(T) /\ Cardinality(T) <= Cardinality(S)
<1>. DEFINE g == [x \in S |-> f[x]]
            All == {f[x] : x \in S}
<1>1. g \in [S -> All] /\ \A t \in All : \E x \in S : g[x] = t
  OBVIOUS
<1>2. g \in Surjection(S, All)
  BY <1>1, Fun_IsSurj
<1>3. IsFiniteSet(All) /\ Cardinality(All) <= Cardinality(S)
  BY <1>2, FS_Surjection
<1>4. IsFiniteSet(T) /\ Cardinality(T) <= Cardinality(All)
  BY <1>3, FS_Subset
<1>5. Cardinality(T) \in Nat /\ Cardinality(All) \in Nat /\ Cardinality(S) \in Nat
  BY <1>3, <1>4, FS_CardinalityType
<1>. HIDE DEF All
<1>. QED
  BY <1>3, <1>4, <1>5

LEMMA Replaced ==
  ASSUME NEW S, IsFiniteSet(S), NEW x \in S, NEW y
  PROVE  /\ IsFiniteSet((S \ {x}) \cup {y})
         /\ Cardinality((S \ {x}) \cup {y}) <= Cardinality(S)
<1>. DEFINE f == [z \in S |-> IF z = x THEN y ELSE z]
<1>1. (S \ {x}) \cup {y} \in SUBSET {f[z] : z \in S}
  OBVIOUS
<1>. QED
  BY <1>1, Imaged

LEMMA Fewer ==
  ASSUME NEW S, IsFiniteSet(S), NEW T \in SUBSET S
  PROVE  IsFiniteSet(T) /\ Cardinality(T) <= Cardinality(S)
BY FS_Subset

\* Requests on a wire of n: one is sent, one is answered, or some are gone.
LEMMA OneMore ==
  ASSUME NEW S, IsFiniteSet(S), NEW n \in Nat, Cardinality(S) < n, NEW x
  PROVE  IsFiniteSet(S \cup {x}) /\ Cardinality(S \cup {x}) <= n
<1>1. /\ IsFiniteSet(S \cup {x}) /\ Cardinality(S) \in Nat
      /\ Cardinality(S \cup {x}) = IF x \in S THEN Cardinality(S) ELSE Cardinality(S) + 1
  BY FS_AddElement, FS_CardinalityType
<1>. QED
  BY <1>1

LEMMA NotMore ==
  ASSUME NEW S, IsFiniteSet(S), NEW n \in Nat, Cardinality(S) <= n
  PROVE  /\ \A x \in S : \A y : /\ IsFiniteSet((S \ {x}) \cup {y})
                                /\ Cardinality((S \ {x}) \cup {y}) <= n
         /\ \A T \in SUBSET S : IsFiniteSet(T) /\ Cardinality(T) <= n
<1>1. Cardinality(S) \in Nat
  BY FS_CardinalityType
<1>2. ASSUME NEW x \in S, NEW y
      PROVE  /\ IsFiniteSet((S \ {x}) \cup {y})
             /\ Cardinality((S \ {x}) \cup {y}) <= n
  <2>1. /\ IsFiniteSet((S \ {x}) \cup {y})
        /\ Cardinality((S \ {x}) \cup {y}) <= Cardinality(S)
    BY Replaced
  <2>. QED
    BY <1>1, <2>1, FS_CardinalityType
<1>3. ASSUME NEW T \in SUBSET S PROVE IsFiniteSet(T) /\ Cardinality(T) <= n
  <2>1. IsFiniteSet(T) /\ Cardinality(T) <= Cardinality(S)
    BY Fewer
  <2>. QED
    BY <1>1, <2>1, FS_CardinalityType
<1>. QED
  BY <1>2, <1>3

-----------------------------------------------------------------------------
(* The rounds tab: what an action and a load have to hand.                 *)

ActRows ==
  [pc : {"idle"}] \cup
  [pc : {"sent", "answered", "reload"}, op : RoundsTab!Ops, round : TabledRounds,
   ok : BOOLEAN, todo : Seq({"list", "detail"}), folds : BOOLEAN]
LoadRows ==
  [pc : {"idle"}] \cup
  [pc : {"sent"}, what : {"list"}, round : TabledRounds \cup {None}, then : TabledRounds \cup {None}] \cup
  [pc : {"sent"}, what : {"detail"}, round : TabledRounds, then : {None}] \cup
  [pc : {"served"}, what : {"list"}, round : TabledRounds \cup {None}, then : TabledRounds \cup {None},
   data : [TabledRounds -> RoundsTab!Statuses]] \cup
  [pc : {"served"}, what : {"detail"}, round : TabledRounds, then : {None}, data : BOOLEAN]

RoundsTabInv ==
  /\ RoundsTab!TypeOK /\ RoundsTab!OneActionAtOnce
  /\ act \in [Clicks -> ActRows] /\ load \in [Slots \cup Clicks -> LoadRows]

LEMMA RoundsTabInit == RoundsTab!Init => RoundsTabInv
<1>. SUFFICES ASSUME RoundsTab!Init PROVE RoundsTabInv
  OBVIOUS
<1>1. /\ act = [c \in Clicks |-> [pc |-> "idle"]] /\ [pc |-> "idle"] \in ActRows
      /\ load = [l \in Slots \cup Clicks |-> [pc |-> "idle"]] /\ [pc |-> "idle"] \in LoadRows
  BY DEF RoundsTab!Init, RoundsTab!Idle, ActRows, LoadRows
<1>2. act \in [Clicks -> ActRows] /\ load \in [Slots \cup Clicks -> LoadRows]
  BY <1>1
<1>3. /\ \A c \in Clicks : act[c].pc = "idle"
      /\ \A l \in Slots \cup Clicks : load[l].pc = "idle"
  BY <1>1
<1>4. /\ srv \in [TabledRounds -> RoundsTab!Statuses] /\ list = srv
      /\ detailId = None /\ detail = None /\ busyRef = FALSE /\ busy = FALSE /\ autoRefresh = FALSE
  BY DEF RoundsTab!Init, RoundsTab!Statuses
<1>. QED
  BY <1>2, <1>3, <1>4 DEF RoundsTabInv, RoundsTab!TypeOK, RoundsTab!OneActionAtOnce

\* What an action reloads is a list of loads.
LEMMA RoundsTabClick ==
  ASSUME RoundsTabInv, NEW c \in Clicks, NEW op \in RoundsTab!Ops, NEW r \in TabledRounds,
         RoundsTab!Click(c, op, r)
  PROVE  RoundsTabInv'
<1>. USE DEF RoundsTabInv, RoundsTab!TypeOK, RoundsTab!OneActionAtOnce
<1>1. RoundsTab!Reloads(op, r) \in Seq({"list", "detail"})
  <2>1. /\ op = "delete" => RoundsTab!Reloads(op, r) = <<>>
        /\ op = "close" /\ detailId = r => RoundsTab!Reloads(op, r) = <<"list", "detail">>
        /\ op # "delete" /\ ~(op = "close" /\ detailId = r) => RoundsTab!Reloads(op, r) = <<"list">>
    BY Zenon DEF RoundsTab!Reloads
  <2>2. /\ <<>> \in Seq({"list", "detail"}) /\ <<"list">> \in Seq({"list", "detail"})
        /\ <<"list", "detail">> \in Seq({"list", "detail"})
    OBVIOUS
  <2>. QED
    BY <2>1, <2>2, Zenon
<1>. DEFINE row == [pc |-> "sent", op |-> op, round |-> r, ok |-> FALSE,
                    todo |-> RoundsTab!Reloads(op, r), folds |-> op = "delete" /\ detailId = r]
<1>2. row \in ActRows
  BY <1>1 DEF ActRows
<1>3. /\ busyRef' = TRUE /\ act' = [act EXCEPT ![c] = row]
      /\ \A d \in Clicks : act[d].pc = "idle"
      /\ UNCHANGED <<srv, list, detailId, detail, autoRefresh, busy, load>>
  BY DEF RoundsTab!Click, RoundsTab!Guards, RoundsTab!page
<1>4. act' \in [Clicks -> ActRows] /\ act'[c].pc = "sent"
      /\ \A d \in Clicks \ {c} : act'[d].pc = "idle"
  BY <1>2, <1>3
<1>. QED
  BY <1>3, <1>4

LEMMA RoundsTabWorks ==
  ASSUME RoundsTabInv, NEW c \in Clicks, RoundsTab!Works(c)
  PROVE  RoundsTabInv'
<1>. USE DEF RoundsTabInv, RoundsTab!TypeOK, RoundsTab!OneActionAtOnce, RoundsTab!page
<1>. DEFINE a == act[c]
<1>1. act[c].pc # "idle" => \A d \in Clicks \ {c} : act[d].pc = "idle"
  OBVIOUS
<1>2. act[c].pc # "idle" =>
        act[c] \in [pc : {"sent", "answered", "reload"}, op : RoundsTab!Ops, round : TabledRounds,
                    ok : BOOLEAN, todo : Seq({"list", "detail"}), folds : BOOLEAN]
  BY DEF ActRows
<1>3. ASSUME NEW row \in ActRows, act' = [act EXCEPT ![c] = row], act[c].pc # "idle",
             row.pc # "idle", busyRef' = busyRef
      PROVE  /\ act' \in [Clicks -> ActRows] /\ RoundsTab!OneActionAtOnce'
             /\ \A d \in Clicks : act'[d].pc \in {"idle", "sent", "answered", "reload"}
             /\ ((\E d \in Clicks : act'[d].pc # "idle") <=> busyRef')
  BY <1>1, <1>3 DEF ActRows
<1>4. CASE RoundsTab!ServeAction(c)
  <2>1. /\ act[c].pc = "sent"
        /\ \/ srv' = [srv EXCEPT ![a.round] = RoundsTab!After(a.op)]
              /\ act' = [act EXCEPT ![c].pc = "answered", ![c].ok = TRUE]
           \/ srv' = srv /\ act' = [act EXCEPT ![c].pc = "answered", ![c].todo = <<>>]
        /\ UNCHANGED <<list, detailId, detail, autoRefresh, busyRef, busy, load>>
    BY <1>4 DEF RoundsTab!ServeAction
  <2>2. RoundsTab!After(a.op) \in RoundsTab!Statuses
    <3>1. a.op \in {"create", "publish", "close", "delete"}
      BY <1>2, <2>1 DEF RoundsTab!Ops
    <3>2. /\ a.op = "create" => RoundsTab!After(a.op) = "draft"
          /\ a.op = "publish" => RoundsTab!After(a.op) = "open"
          /\ a.op = "close" => RoundsTab!After(a.op) = "closed"
          /\ a.op = "delete" => RoundsTab!After(a.op) = "gone"
      BY Zenon DEF RoundsTab!After
    <3>. QED
      BY <3>1, <3>2 DEF RoundsTab!Statuses
  <2>3. srv' \in [TabledRounds -> RoundsTab!Statuses]
    BY <1>2, <2>1, <2>2
  <2>4. PICK row \in ActRows : row.pc # "idle" /\ act' = [act EXCEPT ![c] = row]
    <3>1. /\ [a EXCEPT !.pc = "answered", !.ok = TRUE] \in ActRows
          /\ [a EXCEPT !.pc = "answered", !.todo = <<>>] \in ActRows
      <4>1. ASSUME NEW b \in [pc : {"sent", "answered", "reload"}, op : RoundsTab!Ops,
                             round : TabledRounds, ok : BOOLEAN,
                             todo : Seq({"list", "detail"}), folds : BOOLEAN]
            PROVE  /\ [b EXCEPT !.pc = "answered", !.ok = TRUE] \in ActRows
                   /\ [b EXCEPT !.pc = "answered", !.todo = <<>>] \in ActRows
        <5>1. <<>> \in Seq({"list", "detail"})
          OBVIOUS
        <5>. QED
          BY <5>1 DEF ActRows
      <4>2. a \in [pc : {"sent", "answered", "reload"}, op : RoundsTab!Ops,
                   round : TabledRounds, ok : BOOLEAN,
                   todo : Seq({"list", "detail"}), folds : BOOLEAN]
        BY <1>2, <2>1, Zenon
      <4>. QED
        BY <4>1, <4>2, Zenon
    <3>2. \/ act' = [act EXCEPT ![c] = [a EXCEPT !.pc = "answered", !.ok = TRUE]]
          \/ act' = [act EXCEPT ![c] = [a EXCEPT !.pc = "answered", !.todo = <<>>]]
      BY <2>1
    <3>. QED
      BY <3>1, <3>2, <1>2, <2>1
  <2>. QED
    BY <1>3, <2>1, <2>3, <2>4
<1>5. CASE RoundsTab!Reload(c)
  <2>1. /\ act[c].pc = "answered" /\ act[c].todo # <<>>
        /\ load' = [load EXCEPT ![c] = [pc |-> "sent", what |-> Head(a.todo), round |-> a.round,
                                        then |-> None]]
        /\ detailId' = IF Head(a.todo) = "detail" THEN a.round ELSE detailId
        /\ act' = [act EXCEPT ![c] = [a EXCEPT !.pc = "reload", !.todo = Tail(a.todo)]]
        /\ UNCHANGED <<srv, list, detail, autoRefresh, busyRef, busy>>
    BY <1>5 DEF RoundsTab!Reload, RoundsTab!Send
  <2>2. Head(a.todo) \in {"list", "detail"} /\ Tail(a.todo) \in Seq({"list", "detail"})
    BY <1>2, <2>1
  <2>3. [a EXCEPT !.pc = "reload", !.todo = Tail(a.todo)] \in ActRows
        /\ [a EXCEPT !.pc = "reload", !.todo = Tail(a.todo)].pc = "reload"
    BY <1>2, <2>1, <2>2 DEF ActRows
  <2>4. load' \in [Slots \cup Clicks -> LoadRows] /\ detailId' \in TabledRounds \cup {None}
        /\ \A l \in Slots \cup Clicks : load'[l].pc \in {"idle", "sent", "served"}
    BY <1>2, <2>1, <2>2 DEF LoadRows
  <2>. QED
    BY <1>3, <2>1, <2>3, <2>4
<1>6. CASE RoundsTab!Reloaded(c)
  <2>1. /\ act[c].pc = "reload"
        /\ act' = [act EXCEPT ![c] = [a EXCEPT !.pc = "answered"]]
        /\ UNCHANGED <<srv, list, detailId, detail, autoRefresh, busyRef, busy, load>>
    BY <1>6 DEF RoundsTab!Reloaded
  <2>2. [a EXCEPT !.pc = "answered"] \in ActRows /\ [a EXCEPT !.pc = "answered"].pc = "answered"
    BY <1>2, <2>1 DEF ActRows
  <2>. QED
    BY <1>3, <2>1, <2>2
<1>7. CASE RoundsTab!Finish(c)
  <2>1. /\ act[c].pc = "answered" /\ busyRef' = FALSE
        /\ act' = [act EXCEPT ![c] = [pc |-> "idle"]]
        /\ list' \in {list, [list EXCEPT ![a.round] = "gone"]}
        /\ detailId' \in {detailId, None} /\ detail' \in {detail, None}
        /\ UNCHANGED <<srv, autoRefresh, busy, load>>
    BY <1>7 DEF RoundsTab!Finish, RoundsTab!Releases, RoundsTab!Idle
  <2>2. list' \in [TabledRounds -> RoundsTab!Statuses]
    BY <1>2, <2>1 DEF RoundsTab!Statuses
  <2>3. act' \in [Clicks -> ActRows] /\ \A d \in Clicks : act'[d].pc = "idle"
    BY <1>1, <2>1 DEF ActRows
  <2>. QED
    BY <2>1, <2>2, <2>3
<1>. QED
  BY <1>4, <1>5, <1>6, <1>7 DEF RoundsTab!Works

\* The page's effects and the loads, which leave the actions alone.
LEMMA RoundsTabLoads ==
  ASSUME RoundsTabInv,
         \/ RoundsTab!Render \/ RoundsTab!Switch
         \/ \E l \in Slots : \/ \E r \in TabledRounds : RoundsTab!Unfold(r, l)
                             \/ RoundsTab!Refresh(l)
                             \/ \E x \in RoundsTab!Refreshes : RoundsTab!Tick(l, x)
         \/ \E l \in Slots \cup Clicks :
              RoundsTab!ServeLoad(l) \/ RoundsTab!Arrive(l) \/ RoundsTab!LoadFails(l)
  PROVE  RoundsTabInv'
<1>. USE DEF RoundsTabInv, RoundsTab!TypeOK, RoundsTab!OneActionAtOnce, RoundsTab!page
<1>1. ASSUME load' \in [Slots \cup Clicks -> LoadRows], UNCHANGED <<act, busyRef>>,
             srv' = srv, list' \in [TabledRounds -> RoundsTab!Statuses], busy' \in BOOLEAN,
             autoRefresh' \in BOOLEAN,
             detailId' \in TabledRounds \cup {None}, detail' \in TabledRounds \cup {None}
      PROVE  RoundsTabInv'
  BY <1>1 DEF LoadRows
<1>2. CASE RoundsTab!Render \/ RoundsTab!Switch
  BY <1>1, <1>2 DEF RoundsTab!Render, RoundsTab!Switch
<1>3. ASSUME NEW l \in Slots, NEW r \in TabledRounds, RoundsTab!Unfold(r, l)
      PROVE  RoundsTabInv'
  <2>1. load' \in [Slots \cup Clicks -> LoadRows]
    BY <1>3 DEF RoundsTab!Unfold, RoundsTab!Send, LoadRows
  <2>. QED
    BY <1>1, <1>3, <2>1 DEF RoundsTab!Unfold
<1>8. ASSUME NEW l \in Slots \cup Clicks, load[l].pc # "idle", RoundsTab!GoesOn(l)
      PROVE  load' \in [Slots \cup Clicks -> LoadRows] /\ detailId' \in TabledRounds \cup {None}
  <2>1. load[l].then \in TabledRounds \cup {None}
    BY <1>8 DEF LoadRows
  <2>2. CASE load[l].then = None
    <3>1. [pc |-> "idle"] \in LoadRows
      BY DEF LoadRows
    <3>. QED
      BY <1>8, <2>2, <3>1 DEF RoundsTab!GoesOn, RoundsTab!Idle
  <2>3. CASE load[l].then # None
    <3>. DEFINE row == [pc |-> "sent", what |-> "detail", round |-> load[l].then, then |-> None]
    <3>1. row \in LoadRows
      BY <2>1, <2>3 DEF LoadRows
    <3>2. load' = [load EXCEPT ![l] = row] /\ detailId' = load[l].then
      BY <1>8, <2>3 DEF RoundsTab!GoesOn, RoundsTab!Send
    <3>. QED
      BY <2>1, <3>1, <3>2
  <2>. QED
    BY <2>2, <2>3
<1>9. ASSUME NEW l \in Slots, RoundsTab!Refresh(l)
      PROVE  RoundsTabInv'
  <2>1. [pc |-> "sent", what |-> "list", round |-> None, then |-> detailId] \in LoadRows
    BY DEF LoadRows
  <2>2. load' = [load EXCEPT ![l] = [pc |-> "sent", what |-> "list", round |-> None,
                                     then |-> detailId]]
    BY <1>9 DEF RoundsTab!Refresh, RoundsTab!Send
  <2>3. load' \in [Slots \cup Clicks -> LoadRows]
    BY <2>1, <2>2
  <2>. QED
    BY <1>1, <1>9, <2>3 DEF RoundsTab!Refresh
<1>4. ASSUME NEW l \in Slots, NEW x \in RoundsTab!Refreshes, RoundsTab!Tick(l, x)
      PROVE  RoundsTabInv'
  <2>1. [pc |-> "sent", what |-> x.what, round |-> x.round, then |-> None] \in LoadRows
    BY <1>4 DEF RoundsTab!Refreshes, LoadRows
  <2>2. load' = [load EXCEPT ![l] = [pc |-> "sent", what |-> x.what, round |-> x.round,
                                     then |-> None]]
    BY <1>4 DEF RoundsTab!Tick, RoundsTab!Send
  <2>3. load' \in [Slots \cup Clicks -> LoadRows]
    BY <2>1, <2>2
  <2>. QED
    BY <1>1, <1>4, <2>3 DEF RoundsTab!Tick
<1>5. ASSUME NEW l \in Slots \cup Clicks, RoundsTab!ServeLoad(l)
      PROVE  RoundsTabInv'
  <2>. DEFINE read == IF load[l].what = "list" THEN srv
                      ELSE srv[load[l].round] \notin {"new", "gone"}
              row == [pc |-> "served", what |-> load[l].what, round |-> load[l].round,
                      then |-> load[l].then, data |-> read]
  <2>1. load[l].pc = "sent" /\ load' = [load EXCEPT ![l] = row]
        /\ UNCHANGED <<srv, list, detailId, detail, autoRefresh, busyRef, busy, act>>
    BY <1>5 DEF RoundsTab!ServeLoad
  <2>2. \/ load[l] \in [pc : {"sent"}, what : {"list"}, round : TabledRounds \cup {None},
                        then : TabledRounds \cup {None}]
        \/ load[l] \in [pc : {"sent"}, what : {"detail"}, round : TabledRounds, then : {None}]
    BY <2>1 DEF LoadRows
  <2>3. row \in LoadRows
    BY <2>2 DEF LoadRows
  <2>4. load' \in [Slots \cup Clicks -> LoadRows]
    BY <2>1, <2>3
  <2>. QED
    BY <1>1, <2>1, <2>4
<1>6. ASSUME NEW l \in Slots \cup Clicks, RoundsTab!Arrive(l)
      PROVE  RoundsTabInv'
  <2>1. load[l].pc = "served" => 
        \/ load[l] \in [pc : {"served"}, what : {"list"}, round : TabledRounds \cup {None},
                        then : TabledRounds \cup {None},
                        data : [TabledRounds -> RoundsTab!Statuses]]
        \/ load[l] \in [pc : {"served"}, what : {"detail"}, round : TabledRounds, then : {None},
                        data : BOOLEAN]
    BY DEF LoadRows
  <2>2. list' \in [TabledRounds -> RoundsTab!Statuses] /\ detail' \in TabledRounds \cup {None}
    BY <1>6, <2>1 DEF RoundsTab!Arrive
  <2>3. load' \in [Slots \cup Clicks -> LoadRows] /\ detailId' \in TabledRounds \cup {None}
    <3>1. load[l].pc # "idle" /\ RoundsTab!GoesOn(l)
      BY <1>6 DEF RoundsTab!Arrive
    <3>. QED
      BY <1>8, <3>1
  <2>. QED
    BY <1>1, <1>6, <2>2, <2>3 DEF RoundsTab!Arrive
<1>7. ASSUME NEW l \in Slots \cup Clicks, RoundsTab!LoadFails(l)
      PROVE  RoundsTabInv'
  <2>1. load' \in [Slots \cup Clicks -> LoadRows] /\ detailId' \in TabledRounds \cup {None}
    BY <1>7, <1>8 DEF RoundsTab!LoadFails
  <2>. QED
    BY <1>1, <1>7, <2>1 DEF RoundsTab!LoadFails
<1>. QED
  BY <1>2, <1>3, <1>4, <1>5, <1>6, <1>7, <1>9

LEMMA RoundsTabStep == RoundsTabInv /\ [RoundsTab!Next]_(RoundsTab!vars) => RoundsTabInv'
<1>. SUFFICES ASSUME RoundsTabInv, [RoundsTab!Next]_(RoundsTab!vars) PROVE RoundsTabInv'
  OBVIOUS
<1>1. CASE UNCHANGED RoundsTab!vars
  BY <1>1 DEF RoundsTabInv, RoundsTab!TypeOK, RoundsTab!OneActionAtOnce, RoundsTab!vars,
            RoundsTab!page
<1>2. CASE RoundsTab!Next
  BY <1>2, RoundsTabClick, RoundsTabWorks, RoundsTabLoads DEF RoundsTab!Next
<1>. QED
  BY <1>1, <1>2

-----------------------------------------------------------------------------
(* The results of a job: what a read was answered, and which read counts.  *)

Saved == Results!Total(saved)
Reads ==
  [kind : {"list"}, item : {None}, live : BOOLEAN, done : BOOLEAN, answer : Nat \cup {None}] \cup
  [kind : {"detail"}, item : Items, live : BOOLEAN, done : BOOLEAN,
   answer : [item : Items, trials : Nat] \cup {None}]

\* The answer of a read is no more than what is saved, and no less than what the
\* page shows, if the read still counts.
ListRead(q) ==
  q.kind = "list" /\ q.done =>
    q.answer \in 0..Saved /\ (q.live /\ list # None => q.answer >= list)
DetailRead(q) ==
  q.kind = "detail" =>
    /\ q.live => q.item = selected
    /\ q.done => /\ q.answer \in [item : {q.item}, trials : 0..saved[q.item]]
                 /\ q.live /\ detail # None => q.answer.trials >= detail.trials

ResultsInv ==
  /\ saved \in [Items -> 0..Trials] /\ seen \in 0..(Trials * Cardinality(Items))
  /\ selected \in Items \cup {None}
  /\ list \in (0..Saved) \cup {None}
  /\ detail \in {None} \cup [item : Items, trials : Nat]
  /\ detail # None => detail.item = selected /\ detail.trials <= saved[selected]
  /\ wire \subseteq Reads
  /\ \A q, r \in wire : (q.live /\ r.live /\ q.kind = r.kind) => q = r
  /\ \A q \in wire : ListRead(q) /\ DetailRead(q)

\* What is saved of all items is a number, no more than all trials, and grows.
LEMMA TotalIsBounded ==
  ASSUME PagesAssumption, NEW f \in [Items -> 0..Trials]
  PROVE  Results!Total(f) \in 0..(Trials * Cardinality(Items))
<1>. DEFINE Pairs == {p \in Items \X (1..Trials) : p[2] <= f[p[1]]}
<1>1. IsFiniteSet(Items) /\ Trials \in Nat
  BY DEF PagesAssumption
<1>2. IsFiniteSet(1..Trials) /\ Cardinality(1..Trials) = Trials
  <2>1. IsFiniteSet(1..Trials) /\ Cardinality(1..Trials) = IF 1 > Trials THEN 0 ELSE Trials - 1 + 1
    BY <1>1, FS_Interval
  <2>. QED
    BY <1>1, <2>1
<1>3. /\ IsFiniteSet(Items \X (1..Trials))
      /\ Cardinality(Items \X (1..Trials)) = Cardinality(Items) * Cardinality(1..Trials)
  BY <1>1, <1>2, FS_Product
<1>4. Pairs \subseteq Items \X (1..Trials)
  OBVIOUS
<1>5. IsFiniteSet(Pairs) /\ Cardinality(Pairs) <= Cardinality(Items \X (1..Trials))
  BY <1>3, <1>4, FS_Subset
<1>6. Cardinality(Pairs) \in Nat /\ Cardinality(Items) \in Nat
  BY <1>1, <1>5, FS_CardinalityType
<1>7. Results!Total(f) = Cardinality(Pairs)
  BY PageCardinality DEF Results!Total
<1>8. Cardinality(Items) * Trials = Trials * Cardinality(Items)
  BY <1>1, <1>6
<1>. HIDE DEF Pairs
<1>. QED
  BY <1>1, <1>2, <1>3, <1>5, <1>6, <1>7, <1>8

LEMMA TotalGrows ==
  ASSUME PagesAssumption, NEW f \in [Items -> 0..Trials], NEW g \in [Items -> 0..Trials],
         \A i \in Items : f[i] <= g[i]
  PROVE  Results!Total(f) <= Results!Total(g)
<1>. DEFINE Pairs(h) == {p \in Items \X (1..Trials) : p[2] <= h[p[1]]}
<1>1. IsFiniteSet(Items) /\ Trials \in Nat
  BY DEF PagesAssumption
<1>2. IsFiniteSet(1..Trials)
  BY <1>1, FS_Interval
<1>3. IsFiniteSet(Items \X (1..Trials))
  BY <1>1, <1>2, FS_Product
<1>4. Pairs(g) \subseteq Items \X (1..Trials)
  OBVIOUS
<1>5. IsFiniteSet(Pairs(g))
  BY <1>3, <1>4, FS_Subset
<1>6. Pairs(f) \subseteq Pairs(g)
  <2>1. ASSUME NEW p \in Items \X (1..Trials), p[2] <= f[p[1]] PROVE p[2] <= g[p[1]]
    <3>1. f[p[1]] \in Nat /\ g[p[1]] \in Nat /\ p[2] \in Nat /\ f[p[1]] <= g[p[1]]
      BY <1>1
    <3>. QED
      BY <2>1, <3>1
  <2>. QED
    BY <2>1
<1>7. Cardinality(Pairs(f)) <= Cardinality(Pairs(g))
  BY <1>5, <1>6, FS_Subset
<1>. QED
  BY <1>7, PageCardinality DEF Results!Total

LEMMA SavedIsBounded ==
  ASSUME PagesAssumption, saved \in [Items -> 0..Trials]
  PROVE  Saved \in 0..(Trials * Cardinality(Items)) /\ Saved \in Nat
<1>1. Saved \in 0..(Trials * Cardinality(Items))
  BY TotalIsBounded DEF Saved
<1>. QED
  BY <1>1

LEMMA ResultsInit == PagesAssumption /\ Results!Init => ResultsInv
<1>. SUFFICES ASSUME PagesAssumption, Results!Init PROVE ResultsInv
  OBVIOUS
<1>1. saved \in [Items -> 0..Trials]
  BY DEF Results!Init, PagesAssumption
<1>2. Trials * Cardinality(Items) \in Nat
  BY FS_CardinalityType DEF PagesAssumption
<1>. QED
  BY <1>1, <1>2 DEF Results!Init, Results!Read, ResultsInv, Reads, ListRead, DetailRead

\* Reads that are sent anew: the ones before them no longer count.
LEMMA ResultsSent ==
  ASSUME ResultsInv, NEW kinds \in SUBSET {"list", "detail"}, "detail" \in kinds,
         NEW lists \in SUBSET {Results!Read("list", None)},
         NEW details, details = {Results!Read("detail", i) : i \in {selected'} \ {None}},
         lists # {} => "list" \in kinds,
         selected' \in Items \cup {None},
         wire' = Results!Abort(kinds) \cup lists \cup details,
         UNCHANGED <<saved, list>>,
         seen' \in 0..(Trials * Cardinality(Items)),
         detail' = None \/ (detail' = detail /\ selected' = selected)
  PROVE  ResultsInv'
<1>. USE DEF ResultsInv
<1>. DEFINE Off(q) == [q EXCEPT !.live = FALSE]
<1>1. Saved' = Saved
  BY DEF Saved
<1>2. ASSUME NEW q \in wire'
      PROVE  \/ q = Results!Read("list", None) /\ lists # {}
             \/ selected' \in Items /\ q = Results!Read("detail", selected')
             \/ q \in wire /\ q.kind \notin kinds
             \/ \E p \in wire : p.kind \in kinds /\ q = Off(p)
  BY <1>2 DEF Results!Abort
<1>3. ASSUME NEW q \in wire'
      PROVE  /\ q \in Reads /\ ListRead(q)' /\ DetailRead(q)'
             /\ q.live => \/ q = Results!Read("list", None) /\ lists # {}
                          \/ q = Results!Read("detail", selected')
                          \/ q \in wire /\ q.kind \notin kinds
  <2>1. CASE q = Results!Read("list", None)
    BY <1>1, <1>2, <2>1 DEF Results!Read, Reads, ListRead, DetailRead
  <2>2. CASE selected' \in Items /\ q = Results!Read("detail", selected')
    BY <2>2 DEF Results!Read, Reads, ListRead, DetailRead
  <2>3. CASE q \in wire /\ q.kind \notin kinds
    BY <1>1, <2>3 DEF Reads, ListRead, DetailRead
  <2>4. ASSUME NEW p \in wire, p.kind \in kinds, q = Off(p)
        PROVE  q \in Reads /\ ListRead(q)' /\ DetailRead(q)' /\ ~ q.live
    <3>1. p \in Reads /\ ListRead(p) /\ DetailRead(p)
      OBVIOUS
    <3>2. q \in Reads /\ q.kind = p.kind /\ q.item = p.item /\ q.done = p.done
          /\ q.answer = p.answer /\ q.live = FALSE
      BY <2>4, <3>1 DEF Reads
    <3>. QED
      BY <1>1, <3>1, <3>2 DEF ListRead, DetailRead
  <2>. QED
    BY <1>2, <2>1, <2>2, <2>3, <2>4
<1>4. ASSUME NEW q \in wire', NEW r \in wire', q.live, r.live, q.kind = r.kind
      PROVE  q = r
  BY <1>3, <1>4 DEF Results!Read, Reads
<1>5. detail' # None => detail'.item = selected' /\ detail'.trials <= saved'[selected']
  OBVIOUS
<1>. QED
  BY <1>1, <1>3, <1>4, <1>5

LEMMA ResultsAsked ==
  ASSUME PagesAssumption, ResultsInv,
         Results!JobMoved \/ Results!Refresh \/ \E i \in Items : Results!Select(i)
  PROVE  ResultsInv' /\ Results!ResultsGrow
<1>1. Saved \in 0..(Trials * Cardinality(Items)) /\ Saved \in Nat
  BY SavedIsBounded DEF ResultsInv
<1>2. (list # None => list \in Nat) /\ (detail # None => detail.trials \in Nat)
  BY <1>1 DEF ResultsInv
<1>3. CASE Results!JobMoved
  <2>1. /\ seen' = Saved /\ UNCHANGED <<saved, list, selected, detail>>
        /\ wire' = Results!Abort({"list", "detail"}) \cup {Results!Read("list", None)}
                     \cup {Results!Read("detail", i) : i \in {selected'} \ {None}}
    BY <1>3 DEF Results!JobMoved, Results!Sees, Results!ReadAll, Saved
  <2>. DEFINE kinds == {"list", "detail"}
              lists == {Results!Read("list", None)}
              details == {Results!Read("detail", i) : i \in {selected'} \ {None}}
  <2>2. /\ kinds \in SUBSET {"list", "detail"} /\ "detail" \in kinds
        /\ lists \in SUBSET {Results!Read("list", None)} /\ (lists # {} => "list" \in kinds)
        /\ details = {Results!Read("detail", i) : i \in {selected'} \ {None}}
        /\ wire' = Results!Abort(kinds) \cup lists \cup details
        /\ selected' \in Items \cup {None}
        /\ seen' \in 0..(Trials * Cardinality(Items))
        /\ detail' = None \/ (detail' = detail /\ selected' = selected)
        /\ UNCHANGED <<saved, list>>
    BY <1>1, <2>1 DEF ResultsInv
  <2>. HIDE DEF kinds, lists, details
  <2>3. ResultsInv'
    BY <2>2, ResultsSent
  <2>. QED
    BY <1>2, <2>1, <2>3 DEF Results!ResultsGrow
<1>4. CASE Results!Refresh
  <2>1. /\ UNCHANGED <<seen, saved, list, selected, detail>>
        /\ wire' = Results!Abort({"list", "detail"}) \cup {Results!Read("list", None)}
                     \cup {Results!Read("detail", i) : i \in {selected'} \ {None}}
    BY <1>4 DEF Results!Refresh, Results!page, Results!ReadAll
  <2>. DEFINE kinds == {"list", "detail"}
              lists == {Results!Read("list", None)}
              details == {Results!Read("detail", i) : i \in {selected'} \ {None}}
  <2>2. /\ kinds \in SUBSET {"list", "detail"} /\ "detail" \in kinds
        /\ lists \in SUBSET {Results!Read("list", None)} /\ (lists # {} => "list" \in kinds)
        /\ details = {Results!Read("detail", i) : i \in {selected'} \ {None}}
        /\ wire' = Results!Abort(kinds) \cup lists \cup details
        /\ selected' \in Items \cup {None}
        /\ seen' \in 0..(Trials * Cardinality(Items))
        /\ detail' = None \/ (detail' = detail /\ selected' = selected)
        /\ UNCHANGED <<saved, list>>
    BY <1>1, <2>1 DEF ResultsInv
  <2>. HIDE DEF kinds, lists, details
  <2>3. ResultsInv'
    BY <2>2, ResultsSent
  <2>. QED
    BY <1>2, <2>1, <2>3 DEF Results!ResultsGrow
<1>5. ASSUME NEW i \in Items, Results!Select(i)
      PROVE  ResultsInv' /\ Results!ResultsGrow
  <2>1. /\ selected' \in {i, None} /\ detail' = None /\ UNCHANGED <<saved, seen, list>>
        /\ wire' = Results!Abort({"detail"}) \cup {}
                     \cup {Results!Read("detail", x) : x \in {selected'} \ {None}}
    BY <1>5 DEF Results!Select
  <2>2. ResultsInv'
    BY <2>1, ResultsSent DEF ResultsInv
  <2>. QED
    BY <1>2, <2>1, <2>2 DEF Results!ResultsGrow
<1>. QED
  BY <1>3, <1>4, <1>5

LEMMA ResultsSave ==
  ASSUME PagesAssumption, ResultsInv, NEW i \in Items, Results!Save(i)
  PROVE  ResultsInv' /\ Results!ResultsGrow
<1>. USE DEF ResultsInv
<1>1. /\ saved' = [saved EXCEPT ![i] = saved[i] + 1] /\ saved[i] < Trials
      /\ UNCHANGED <<seen, list, selected, detail, wire>>
  BY DEF Results!Save, Results!page
<1>2. Trials \in Nat
  BY DEF PagesAssumption
<1>3. saved' \in [Items -> 0..Trials] /\ \A j \in Items : saved[j] <= saved'[j]
  BY <1>1, <1>2
<1>4. Saved \in Nat /\ Saved' \in Nat /\ Saved <= Saved'
  <2>1. Results!Total(saved) <= Results!Total(saved')
    BY <1>3, TotalGrows
  <2>2. Results!Total(saved') \in 0..(Trials * Cardinality(Items))
    BY <1>3, TotalIsBounded
  <2>3. Saved' = Results!Total(saved')
    BY DEF Saved, Results!Total
  <2>. QED
    BY <2>1, <2>2, <2>3, SavedIsBounded DEF Saved
<1>5. ASSUME NEW q \in wire PROVE ListRead(q)' /\ DetailRead(q)'
  <2>1. q \in Reads /\ ListRead(q) /\ DetailRead(q)
    OBVIOUS
  <2>2. ListRead(q)'
    BY <1>1, <1>4, <2>1 DEF ListRead
  <2>3. DetailRead(q)'
    <3>1. q.kind = "detail" => q.item \in Items
      BY <2>1 DEF Reads
    <3>. QED
      BY <1>1, <1>2, <1>3, <2>1, <3>1 DEF DetailRead
  <2>. QED
    BY <2>2, <2>3
<1>6. list' \in (0..Saved') \cup {None}
  BY <1>1, <1>4
<1>7. detail # None => detail.trials <= saved'[selected]
  BY <1>1, <1>2, <1>3
<1>8. (list # None => list \in Nat) /\ (detail # None => detail.trials \in Nat)
  BY <1>4
<1>. QED
  BY <1>1, <1>3, <1>5, <1>6, <1>7, <1>8 DEF Results!ResultsGrow

LEMMA ResultsServe ==
  ASSUME PagesAssumption, ResultsInv, NEW q \in wire, Results!Serve(q)
  PROVE  ResultsInv' /\ Results!ResultsGrow
<1>. USE DEF ResultsInv
<1>0. PICK answer : answer = IF q.kind = "list" THEN Results!Total(saved)
                              ELSE [item |-> q.item, trials |-> saved[q.item]]
  OBVIOUS
<1>1. PICK new : /\ new = [q EXCEPT !.done = TRUE, !.answer = answer]
                 /\ wire' = (wire \ {q}) \cup {new}
                 /\ UNCHANGED <<saved, seen, list, selected, detail>>
  BY <1>0 DEF Results!Serve, Results!page
<1>2. q \in Reads /\ DetailRead(q)
  OBVIOUS
<1>3. Saved \in Nat /\ Saved' = Saved /\ Saved = Results!Total(saved)
  BY <1>1, SavedIsBounded DEF Saved
<1>4. new \in Reads /\ new.kind = q.kind /\ new.item = q.item /\ new.live = q.live
      /\ new.answer = answer
  <2>1. CASE q.kind = "list"
    BY <1>0, <1>1, <1>2, <1>3, <2>1 DEF Reads
  <2>2. CASE q.kind = "detail"
    <3>1. answer \in [item : Items, trials : Nat]
      BY <1>0, <1>2, <2>2 DEF Reads, PagesAssumption
    <3>. QED
      BY <1>1, <1>2, <2>2, <3>1 DEF Reads
  <2>. QED
    BY <1>2, <2>1, <2>2 DEF Reads
<1>5. ListRead(new)'
  <2>1. q.kind = "list" => answer \in 0..Saved' /\ (list # None => answer >= list)
    BY <1>0, <1>3
  <2>. QED
    BY <1>1, <1>4, <2>1 DEF ListRead
<1>6. DetailRead(new)'
  <2>1. q.kind = "detail" => q.item \in Items
    BY <1>2 DEF Reads
  <2>2. q.kind = "detail" => answer \in [item : {q.item}, trials : 0..saved[q.item]]
    BY <1>0, <2>1 DEF PagesAssumption
  <2>3. q.kind = "detail" /\ q.live /\ detail # None => answer.trials >= detail.trials
    BY <1>0, <1>2, <2>1 DEF DetailRead, PagesAssumption
  <2>. QED
    BY <1>1, <1>2, <1>4, <2>1, <2>2, <2>3 DEF DetailRead
<1>7. ASSUME NEW r \in wire \ {q} PROVE ListRead(r)' /\ DetailRead(r)'
  BY <1>1, <1>3 DEF ListRead, DetailRead
<1>8. \A r \in wire \ {q} : ~(r.live /\ q.live /\ r.kind = q.kind)
  OBVIOUS
<1>9. (list # None => list \in Nat) /\ (detail # None => detail.trials \in Nat)
  BY <1>3
<1>10. wire' \subseteq Reads /\ \A r \in wire' : ListRead(r)' /\ DetailRead(r)'
  <2>1. \A r \in wire' : r = new \/ r \in wire \ {q}
    BY <1>1
  <2>. QED
    BY <1>4, <1>5, <1>6, <1>7, <2>1, Zenon
<1>11. \A r, t \in wire' : (r.live /\ t.live /\ r.kind = t.kind) => r = t
  <2>. SUFFICES ASSUME NEW r \in wire', NEW t \in wire', r.live, t.live, r.kind = t.kind
                PROVE  r = t
    OBVIOUS
  <2>1. (r = new \/ r \in wire \ {q}) /\ (t = new \/ t \in wire \ {q})
    BY <1>1
  <2>. QED
    BY <1>4, <1>8, <2>1
<1>12. list' \in (0..Saved') \cup {None}
  BY <1>1, <1>3
<1>. QED
  BY <1>1, <1>9, <1>10, <1>11, <1>12 DEF Results!ResultsGrow

LEMMA ResultsArrive ==
  ASSUME PagesAssumption, ResultsInv, NEW q \in wire, Results!Got(q) \/ Results!Lose(q)
  PROVE  ResultsInv' /\ Results!ResultsGrow
<1>. USE DEF ResultsInv
<1>1. Saved \in Nat
  BY SavedIsBounded
<1>2. (list # None => list \in Nat) /\ (detail # None => detail.trials \in Nat)
  BY <1>1
<1>3. q \in Reads /\ ListRead(q) /\ DetailRead(q)
  OBVIOUS
<1>4. /\ wire' = wire \ {q} /\ UNCHANGED <<saved, seen, selected>>
      /\ \/ list' = list
         \/ q.live /\ q.kind = "list" /\ q.done /\ list' = q.answer
      /\ \/ detail' = detail
         \/ q.live /\ q.kind = "detail" /\ q.done /\ detail' = q.answer
  BY DEF Results!Got, Results!Lose, Results!Applies
<1>5. Saved' = Saved
  BY <1>4 DEF Saved
<1>6. /\ list' \in (0..Saved) \cup {None}
      /\ list # None => list' \in Nat /\ list' >= list
  BY <1>1, <1>2, <1>3, <1>4 DEF ListRead
<1>7. /\ detail' \in {None} \cup [item : Items, trials : Nat]
      /\ detail' # None => detail'.item = selected /\ detail'.trials <= saved[selected]
      /\ detail # None /\ detail' # None => detail'.trials >= detail.trials
  <2>1. CASE detail' = detail
    BY <1>2, <2>1
  <2>2. CASE q.live /\ q.kind = "detail" /\ q.done /\ detail' = q.answer
    <3>1. q.item \in Items /\ q.item = selected /\ saved[q.item] \in Nat
      BY <1>3, <2>2 DEF Reads, DetailRead, PagesAssumption
    <3>2. q.answer \in [item : {q.item}, trials : 0..saved[q.item]]
      BY <1>3, <2>2 DEF DetailRead
    <3>. QED
      BY <1>3, <2>2, <3>1, <3>2 DEF DetailRead
  <2>. QED
    BY <1>4, <2>1, <2>2
<1>8. ASSUME NEW r \in wire \ {q} PROVE ListRead(r)' /\ DetailRead(r)'
  <2>1. r \in Reads /\ ListRead(r) /\ DetailRead(r)
    OBVIOUS
  <2>2. ~(r.live /\ q.live /\ r.kind = q.kind)
    OBVIOUS
  <2>. QED
    BY <1>4, <1>5, <2>1, <2>2 DEF ListRead, DetailRead
<1>. QED
  BY <1>4, <1>5, <1>6, <1>7, <1>8 DEF Results!ResultsGrow

LEMMA ResultsStep ==
  PagesAssumption /\ ResultsInv /\ [Results!Next]_(Results!vars)
    => ResultsInv' /\ Results!ResultsGrow
<1>. SUFFICES ASSUME PagesAssumption, ResultsInv, [Results!Next]_(Results!vars)
              PROVE  ResultsInv' /\ Results!ResultsGrow
  OBVIOUS
<1>1. CASE UNCHANGED Results!vars
  <2>1. Saved \in Nat
    BY SavedIsBounded DEF ResultsInv
  <2>2. UNCHANGED <<saved, seen, list, selected, detail, wire>>
    BY <1>1 DEF Results!vars, Results!page
  <2>3. Saved' = Saved
    BY <2>2 DEF Saved
  <2>. QED
    BY <2>1, <2>2, <2>3 DEF ResultsInv, ListRead, DetailRead, Results!ResultsGrow
<1>2. CASE Results!Next
  BY <1>2, ResultsAsked, ResultsSave, ResultsServe, ResultsArrive DEF Results!Next
<1>. QED
  BY <1>1, <1>2

LEMMA ResultsHolds ==
  PagesAssumption /\ ResultsInv => Results!TypeOK /\ Results!DetailOfSelected
BY PageCardinality DEF ResultsInv, Results!TypeOK, Results!DetailOfSelected

-----------------------------------------------------------------------------
(* The pages of the automatic runs: an answer is a state that each run had, *)
(* no older than what the page shows while the request still counts.       *)

RunStates == {r \in Grading!RunViews : r.status \in Grading!ACTIVE \cup {"failed", "cancelled"} => r.left >= 1}
AutoAsks ==
  [who : Graded, step : {"get", "advance", "retry"}, gen : Nat, live : BOOLEAN, done : BOOLEAN,
   answer : RunStates \cup {None}, off : BOOLEAN] \cup
  [who : {"teacher"}, step : {"auto-status", "auto-advance", "auto-cancel", "auto-resume"},
   gen : Nat, live : BOOLEAN, done : BOOLEAN, answer : [Graded -> RunStates] \cup {None},
   off : BOOLEAN]

StudentAsk(q) ==
  q.who \in Graded /\ q.done =>
    /\ q.answer \in RunStates /\ q.answer.ver <= runs[q.who].ver
    /\ q.live /\ view[q.who] # None => q.answer.ver >= view[q.who].ver
TeacherAsk(q) ==
  q.who = "teacher" /\ q.done =>
    /\ q.answer \in [Graded -> RunStates]
    /\ \A s \in Graded : /\ q.answer[s].ver <= runs[s].ver
                         /\ q.live /\ auto # None => q.answer[s].ver >= auto[s].ver

AutoInv ==
  /\ runs \in [Graded -> RunStates] /\ view \in [Graded -> RunStates \cup {None}]
  /\ next \in [Graded -> {"none", "get", "advance", "retry"}] /\ tries \in [Graded -> Nat]
  /\ auto \in [Graded -> RunStates] \cup {None}
  /\ ask \in {"none", "auto-status", "auto-advance"} /\ busy \in BOOLEAN /\ gen \in Nat
  /\ wire \subseteq AutoAsks
  /\ \A s \in Graded : /\ view[s] # None => view[s].ver <= runs[s].ver
                       /\ auto # None => auto[s].ver <= runs[s].ver
  /\ \A q, r \in wire : q.live /\ r.live /\ q.who = r.who => q = r
  /\ \A q \in wire : StudentAsk(q) /\ TeacherAsk(q)
  /\ busy => \E q \in wire : q.who = "teacher" /\ q.live /\ Grading!IsAct(q) /\ q.gen = gen

\* A run only gets newer, and one that is not over has waves left.
LEMMA AutoMoves ==
  ASSUME PagesAssumption, NEW r \in RunStates
  PROVE  /\ r.ver \in Nat
         /\ r.status \in Grading!ACTIVE => Grading!Wave(r) \in RunStates /\ Grading!Wave(r).ver >= r.ver
         /\ \A st \in {"queued", "retrying", "failed", "cancelled"} :
              r.left >= 1 => Grading!To(r, st, r.left) \in RunStates /\ Grading!To(r, st, r.left).ver >= r.ver
         /\ Grading!To(r, "transferred", r.left) \in RunStates
         /\ Grading!To(r, "transferred", r.left).ver >= r.ver
<1>. USE DEF RunStates, Grading!RunViews, Grading!ACTIVE, Grading!To
<1>1. r.ver \in Nat /\ r.left \in 0..RunWaves /\ RunWaves \in Nat
  BY DEF PagesAssumption
<1>2. ASSUME r.status \in Grading!ACTIVE
      PROVE  Grading!Wave(r) \in RunStates /\ Grading!Wave(r).ver >= r.ver
  <2>1. r.left \in 1..RunWaves
    BY <1>1, <1>2
  <2>2. CASE r.left = 1
    BY <1>1, <2>2 DEF Grading!Wave
  <2>3. CASE r.left # 1
    <3>1. r.left - 1 \in 1..RunWaves
      BY <1>1, <2>1, <2>3
    <3>. QED
      BY <1>1, <2>3, <3>1 DEF Grading!Wave
  <2>. QED
    BY <2>2, <2>3
<1>. QED
  BY <1>1, <1>2

LEMMA AutoMoved ==
  ASSUME PagesAssumption, NEW r \in RunStates, NEW step
  PROVE  Grading!Moved(step, r) \in RunStates /\ Grading!Moved(step, r).ver >= r.ver
<1>. DEFINE waves == step \in {"advance", "auto-advance"} /\ r.status \in Grading!ACTIVE
            retries == step = "retry" /\ r.status = "failed"
            cancels == step = "auto-cancel" /\ r.status \in Grading!ACTIVE \cup {"failed"}
            resumes == step = "auto-resume" /\ r.status \in {"cancelled", "failed"}
            queued == Grading!To(r, "queued", r.left)
<1>1. /\ waves => Grading!Moved(step, r) = Grading!Wave(r)
      /\ retries => Grading!Moved(step, r) = Grading!Wave(queued)
      /\ cancels => Grading!Moved(step, r) = Grading!To(r, "cancelled", r.left)
      /\ resumes => Grading!Moved(step, r) = queued
      /\ ~ waves /\ ~ retries /\ ~ cancels /\ ~ resumes => Grading!Moved(step, r) = r
  BY Zenon DEF Grading!Moved
<1>2. retries \/ cancels \/ resumes => r.left >= 1
  BY DEF RunStates
<1>3. retries => queued \in RunStates /\ queued.ver >= r.ver
  BY <1>2, AutoMoves
<1>4. queued.status = "queued" /\ queued.ver \in Nat /\ r.ver \in Nat
  BY AutoMoves DEF Grading!To
<1>5. retries => Grading!Wave(queued) \in RunStates /\ Grading!Wave(queued).ver >= queued.ver
  BY <1>3, <1>4, AutoMoves DEF Grading!ACTIVE
<1>6. retries => Grading!Wave(queued).ver \in Nat
  BY <1>5, AutoMoves
<1>. QED
  BY <1>1, <1>2, <1>3, <1>4, <1>5, <1>6, AutoMoves

LEMMA AutoInit == PagesAssumption /\ Grading!Init => AutoInv
<1>. SUFFICES ASSUME PagesAssumption, Grading!Init PROVE AutoInv
  OBVIOUS
<1>1. [status |-> "queued", left |-> RunWaves, ver |-> 0] \in RunStates
  BY DEF RunStates, Grading!RunViews, Grading!ACTIVE, PagesAssumption
<1>. QED
  BY <1>1 DEF Grading!Init, AutoInv

\* The students' pages and the panel send, and the runs stay as they are.
LEMMA AutoSends ==
  ASSUME PagesAssumption, AutoInv,
         \/ \E s \in Graded : Grading!run(s) \/ Grading!Retry(s)
         \/ Grading!tick \/ \E a \in {"auto-cancel", "auto-resume"} : Grading!act(a)
  PROVE  AutoInv' /\ Grading!NeverBack
<1>. USE DEF AutoInv, Grading!NeverBack, Grading!pageVars, Grading!panelVars
<1>1. \A s \in Graded : runs[s].ver \in Nat /\ (view[s] # None => view[s].ver \in Nat)
                        /\ (auto # None => auto[s].ver \in Nat)
  BY AutoMoves
<1>2. "teacher" \notin Graded
  BY DEF PagesAssumption
<1>3. ASSUME NEW s \in Graded, Grading!run(s) PROVE AutoInv' /\ Grading!NeverBack
  <2>1. PICK new : /\ new = Grading!Asked(s, next[s], tries[s]) /\ wire' = wire \cup {new}
                   /\ \A q \in wire : ~(q.who = s /\ q.live)
                   /\ next[s] # "none"
                   /\ UNCHANGED <<runs, view, next, tries, auto, ask, busy, gen>>
    BY <1>3 DEF Grading!run, Grading!Of
  <2>2. new \in AutoAsks /\ new.who = s /\ new.done = FALSE
    BY <2>1 DEF AutoAsks, Grading!Asked
  <2>3. StudentAsk(new)' /\ TeacherAsk(new)'
    BY <2>2 DEF StudentAsk, TeacherAsk
  <2>4. \A q \in wire : StudentAsk(q)' /\ TeacherAsk(q)'
    BY <2>1 DEF StudentAsk, TeacherAsk
  <2>5. busy' => \E q \in wire' : q.who = "teacher" /\ q.live /\ Grading!IsAct(q) /\ q.gen = gen'
    BY <2>1
  <2>. QED
    BY <1>1, <2>1, <2>2, <2>3, <2>4, <2>5
<1>4. ASSUME NEW s \in Graded, Grading!Retry(s) PROVE AutoInv' /\ Grading!NeverBack
  <2>1. /\ wire' = Grading!Stopped(s)
        /\ tries' = [tries EXCEPT ![s] = tries[s] + 1]
        /\ view' = [view EXCEPT ![s] = None] /\ next' = [next EXCEPT ![s] = "retry"]
        /\ UNCHANGED <<runs, auto, ask, busy, gen>>
    BY <1>4 DEF Grading!Retry
  <2>2. ASSUME NEW q \in wire'
        PROVE  \/ q \in wire /\ q.who # s
               \/ q.live = FALSE /\ q.who = s /\ \E p \in wire : q = [p EXCEPT !.live = FALSE]
    BY <2>1 DEF Grading!Stopped, AutoAsks
  <2>3. ASSUME NEW q \in wire' PROVE q \in AutoAsks /\ StudentAsk(q)' /\ TeacherAsk(q)'
    <3>1. CASE q \in wire /\ q.who # s
      <4>1. q.who \in Graded => view'[q.who] = view[q.who]
        BY <2>1, <3>1
      <4>. QED
        BY <2>1, <3>1, <4>1 DEF StudentAsk, TeacherAsk
    <3>2. ASSUME NEW p \in wire, q = [p EXCEPT !.live = FALSE], q.who = s, q.live = FALSE
          PROVE  q \in AutoAsks /\ StudentAsk(q)' /\ TeacherAsk(q)'
      <4>1. /\ q \in AutoAsks /\ q.who = p.who /\ q.done = p.done /\ q.answer = p.answer
        BY <3>2 DEF AutoAsks
      <4>2. StudentAsk(p)
        OBVIOUS
      <4>. QED
        BY <1>2, <2>1, <3>2, <4>1, <4>2 DEF StudentAsk, TeacherAsk
    <3>. QED
      BY <2>2, <3>1, <3>2
  <2>4. busy' => \E q \in wire' : q.who = "teacher" /\ q.live /\ Grading!IsAct(q) /\ q.gen = gen'
    <3>1. \A q \in wire : q.who = "teacher" => q \in wire'
      BY <1>2, <2>1 DEF Grading!Stopped
    <3>. QED
      BY <2>1, <3>1
  <2>5. \A q, r \in wire' : q.live /\ r.live /\ q.who = r.who => q = r
    BY <2>2
  <2>6. \A t \in Graded : view'[t] = IF t = s THEN None ELSE view[t]
    BY <2>1
  <2>7. /\ view' \in [Graded -> RunStates \cup {None}] /\ tries' \in [Graded -> Nat]
        /\ next' \in [Graded -> {"none", "get", "advance", "retry"}]
    BY <2>1
  <2>. QED
    BY <1>1, <2>1, <2>3, <2>4, <2>5, <2>6, <2>7
<1>5. CASE Grading!tick
  <2>1. PICK new : /\ new = Grading!Asked("teacher", ask, gen) /\ wire' = wire \cup {new}
                   /\ \A q \in wire : ~(q.who = "teacher" /\ q.live)
                   /\ ask # "none" /\ ~ busy
                   /\ UNCHANGED <<runs, view, next, tries, auto, ask, busy, gen>>
    BY <1>5 DEF Grading!tick, Grading!Of
  <2>2. new \in AutoAsks /\ new.who = "teacher" /\ new.done = FALSE
    BY <2>1 DEF AutoAsks, Grading!Asked
  <2>3. StudentAsk(new)' /\ TeacherAsk(new)'
    BY <2>2 DEF StudentAsk, TeacherAsk
  <2>4. \A q \in wire : StudentAsk(q)' /\ TeacherAsk(q)'
    BY <2>1 DEF StudentAsk, TeacherAsk
  <2>. QED
    BY <1>1, <2>1, <2>2, <2>3, <2>4
<1>6. ASSUME NEW a \in {"auto-cancel", "auto-resume"}, Grading!act(a)
      PROVE  AutoInv' /\ Grading!NeverBack
  <2>1. PICK new : /\ new = Grading!Asked("teacher", a, gen + 1)
                   /\ wire' = Grading!Stopped("teacher") \cup {new}
                   /\ busy' = TRUE /\ gen' = gen + 1
                   /\ UNCHANGED <<runs, view, next, tries, auto, ask>>
    BY <1>6 DEF Grading!act
  <2>2. /\ new \in AutoAsks /\ new.who = "teacher" /\ new.done = FALSE /\ new.gen = gen + 1
        /\ new.live = TRUE /\ Grading!IsAct(new)
    BY <2>1 DEF AutoAsks, Grading!Asked, Grading!IsAct
  <2>3. ASSUME NEW q \in wire'
        PROVE  \/ q = new
               \/ q \in wire /\ q.who # "teacher"
               \/ q.live = FALSE /\ \E p \in wire : q = [p EXCEPT !.live = FALSE]
    BY <2>1 DEF Grading!Stopped, AutoAsks
  <2>4. ASSUME NEW q \in wire' PROVE q \in AutoAsks /\ StudentAsk(q)' /\ TeacherAsk(q)'
    <3>1. CASE q = new
      BY <2>2, <3>1 DEF StudentAsk, TeacherAsk
    <3>2. CASE q \in wire
      BY <2>1, <3>2 DEF StudentAsk, TeacherAsk
    <3>3. ASSUME NEW p \in wire, q = [p EXCEPT !.live = FALSE], q.live = FALSE
          PROVE  q \in AutoAsks /\ StudentAsk(q)' /\ TeacherAsk(q)'
      <4>1. q \in AutoAsks /\ q.who = p.who /\ q.done = p.done /\ q.answer = p.answer
        BY <3>3 DEF AutoAsks
      <4>2. StudentAsk(p) /\ TeacherAsk(p)
        OBVIOUS
      <4>. QED
        BY <2>1, <3>3, <4>1, <4>2 DEF StudentAsk, TeacherAsk
    <3>. QED
      BY <2>3, <3>1, <3>2, <3>3
  <2>5. \A q, r \in wire' : q.live /\ r.live /\ q.who = r.who => q = r
    BY <2>2, <2>3
  <2>6. new \in wire' /\ gen' \in Nat
    BY <2>1
  <2>. QED
    BY <1>1, <2>1, <2>2, <2>4, <2>5, <2>6
<1>. QED
  BY <1>3, <1>4, <1>5, <1>6

\* A request is answered with the runs as they are then.
LEMMA AutoServeWith ==
  ASSUME PagesAssumption, AutoInv, NEW q \in wire, NEW new \in [Graded -> RunStates],
         NEW off \in BOOLEAN, \A s \in Graded : new[s].ver >= runs[s].ver,
         Grading!ServeWith(q, new, off)
  PROVE  AutoInv' /\ Grading!NeverBack
<1>. USE DEF AutoInv, Grading!NeverBack, Grading!pageVars, Grading!panelVars
<1>1. \A s \in Graded : /\ runs[s].ver \in Nat /\ new[s].ver \in Nat
                        /\ view[s] # None => view[s].ver \in Nat
                        /\ auto # None => auto[s].ver \in Nat
  BY AutoMoves
<1>2. PICK ans : /\ ans = [q EXCEPT !.done = TRUE, !.off = off,
                              !.answer = IF q.who = "teacher" THEN new ELSE new[q.who]]
                 /\ wire' = (wire \ {q}) \cup {ans}
                 /\ runs' = new /\ UNCHANGED <<view, next, tries, auto, ask, busy, gen>>
  BY DEF Grading!ServeWith, Grading!Answered
<1>3. q \in AutoAsks /\ "teacher" \notin Graded
  BY DEF PagesAssumption
<1>4. /\ ans \in AutoAsks /\ ans.who = q.who /\ ans.live = q.live /\ ans.gen = q.gen
      /\ ans.step = q.step
      /\ ans.answer = IF q.who = "teacher" THEN new ELSE new[q.who]
  <2>1. CASE q.who = "teacher"
    BY <1>2, <1>3, <2>1 DEF AutoAsks
  <2>2. CASE q.who \in Graded
    BY <1>2, <1>3, <2>2 DEF AutoAsks
  <2>. QED
    BY <1>3, <2>1, <2>2 DEF AutoAsks
<1>5. StudentAsk(ans)' /\ TeacherAsk(ans)'
  <2>1. CASE q.who = "teacher"
    <3>1. \A s \in Graded : auto # None => auto[s].ver <= new[s].ver
      BY <1>1
    <3>. QED
      BY <1>1, <1>2, <1>3, <1>4, <2>1, <3>1 DEF StudentAsk, TeacherAsk
  <2>2. CASE q.who \in Graded
    <3>1. view[q.who] # None => view[q.who].ver <= new[q.who].ver
      BY <1>1, <2>2
    <3>. QED
      BY <1>1, <1>2, <1>3, <1>4, <2>2, <3>1 DEF StudentAsk, TeacherAsk
  <2>. QED
    BY <1>3, <2>1, <2>2 DEF AutoAsks
<1>6. ASSUME NEW r \in wire \ {q} PROVE StudentAsk(r)' /\ TeacherAsk(r)'
  <2>1. StudentAsk(r) /\ TeacherAsk(r)
    OBVIOUS
  <2>2. StudentAsk(r)'
    <3>1. r.who \in Graded /\ r.done => r.answer.ver \in Nat
      BY <2>1, AutoMoves DEF StudentAsk
    <3>. QED
      BY <1>1, <1>2, <2>1, <3>1 DEF StudentAsk
  <2>3. TeacherAsk(r)'
    <3>1. r.who = "teacher" /\ r.done => \A s \in Graded : r.answer[s].ver \in Nat
      BY <2>1, AutoMoves DEF TeacherAsk
    <3>. QED
      BY <1>1, <1>2, <2>1, <3>1 DEF TeacherAsk
  <2>. QED
    BY <2>2, <2>3
<1>7. \A r \in wire' : r = ans \/ r \in wire \ {q}
  BY <1>2
<1>8. \A r, t \in wire' : r.live /\ t.live /\ r.who = t.who => r = t
  <2>. SUFFICES ASSUME NEW r \in wire', NEW t \in wire', r.live, t.live, r.who = t.who
                PROVE  r = t
    OBVIOUS
  <2>1. \A x \in wire \ {q} : ~(x.live /\ q.live /\ x.who = q.who)
    OBVIOUS
  <2>. QED
    BY <1>4, <1>7, <2>1
<1>9. busy' => \E r \in wire' : r.who = "teacher" /\ r.live /\ Grading!IsAct(r) /\ r.gen = gen'
  <2>. SUFFICES ASSUME busy
                PROVE  \E r \in wire' : r.who = "teacher" /\ r.live /\ Grading!IsAct(r) /\ r.gen = gen'
    BY <1>2
  <2>1. PICK x \in wire : x.who = "teacher" /\ x.live /\ Grading!IsAct(x) /\ x.gen = gen
    OBVIOUS
  <2>2. CASE x = q
    BY <1>2, <1>4, <2>1, <2>2 DEF Grading!IsAct
  <2>3. CASE x # q
    BY <1>2, <2>1, <2>3
  <2>. QED
    BY <2>2, <2>3
<1>10. wire' \subseteq AutoAsks /\ \A r \in wire' : StudentAsk(r)' /\ TeacherAsk(r)'
  BY <1>4, <1>5, <1>6, <1>7
<1>11. \A s \in Graded : /\ view'[s] # None => view'[s].ver <= runs'[s].ver
                         /\ auto' # None => auto'[s].ver <= runs'[s].ver
  BY <1>1, <1>2
<1>. QED
  BY <1>1, <1>2, <1>8, <1>9, <1>10, <1>11

LEMMA AutoServe ==
  ASSUME PagesAssumption, AutoInv, NEW q \in wire,
         Grading!Serve(q) \/ Grading!Outage(q) \/ Grading!Unconfigured(q)
  PROVE  AutoInv' /\ Grading!NeverBack
<1>1. runs \in [Graded -> RunStates] /\ \A s \in Graded : runs[s].ver \in Nat
  BY AutoMoves DEF AutoInv
<1>2. CASE Grading!Serve(q)
  <2>. DEFINE new == [s \in Graded |-> IF s \in Grading!Concerns(q) THEN Grading!Moved(q.step, runs[s])
                                       ELSE runs[s]]
  <2>1. new \in [Graded -> RunStates] /\ \A s \in Graded : new[s].ver >= runs[s].ver
    BY <1>1, AutoMoved
  <2>2. Grading!ServeWith(q, new, FALSE)
    BY <1>2 DEF Grading!Serve
  <2>. QED
    BY <2>1, <2>2, AutoServeWith
<1>3. CASE Grading!Outage(q)
  <2>1. PICK s \in Grading!Concerns(q) : /\ runs[s].status \in Grading!ACTIVE
                                      /\ \E r \in Grading!FailedWave(runs[s]) :
                                           Grading!ServeWith(q, [runs EXCEPT ![s] = r], FALSE)
    BY <1>3 DEF Grading!Outage
  <2>2. s \in Graded
    BY DEF Grading!Concerns, AutoInv, AutoAsks
  <2>3. PICK r \in Grading!FailedWave(runs[s]) : Grading!ServeWith(q, [runs EXCEPT ![s] = r], FALSE)
    BY <2>1
  <2>4. r \in RunStates /\ r.ver >= runs[s].ver
    <3>1. runs[s] \in RunStates /\ runs[s].left >= 1
      BY <1>1, <2>1, <2>2 DEF RunStates
    <3>. QED
      BY <3>1, AutoMoves DEF Grading!FailedWave
  <2>5. /\ [runs EXCEPT ![s] = r] \in [Graded -> RunStates]
        /\ \A t \in Graded : [runs EXCEPT ![s] = r][t].ver >= runs[t].ver
    BY <1>1, <2>2, <2>4
  <2>. QED
    BY <2>3, <2>5, AutoServeWith
<1>4. CASE Grading!Unconfigured(q)
  <2>1. Grading!ServeWith(q, runs, TRUE)
    BY <1>4 DEF Grading!Unconfigured
  <2>2. \A s \in Graded : runs[s].ver >= runs[s].ver
    BY <1>1
  <2>. QED
    BY <1>1, <2>1, <2>2, AutoServeWith, Zenon
<1>. QED
  BY <1>2, <1>3, <1>4

LEMMA AutoTransfer ==
  ASSUME PagesAssumption, AutoInv, NEW s \in Graded, Grading!Transfer(s)
  PROVE  AutoInv' /\ Grading!NeverBack
<1>. USE DEF AutoInv, Grading!NeverBack, Grading!pageVars, Grading!panelVars
<1>1. /\ runs' = [runs EXCEPT ![s] = Grading!To(runs[s], "transferred", runs[s].left)]
      /\ UNCHANGED <<view, next, tries, auto, ask, busy, gen, wire>>
  BY DEF Grading!Transfer
<1>2. \A t \in Graded : /\ runs[t].ver \in Nat
                        /\ view[t] # None => view[t].ver \in Nat
                        /\ auto # None => auto[t].ver \in Nat
  BY AutoMoves
<1>3. /\ runs' \in [Graded -> RunStates]
      /\ \A t \in Graded : runs'[t].ver \in Nat /\ runs'[t].ver >= runs[t].ver
  BY <1>1, AutoMoves
<1>4. ASSUME NEW q \in wire PROVE StudentAsk(q)' /\ TeacherAsk(q)'
  <2>1. StudentAsk(q) /\ TeacherAsk(q)
    OBVIOUS
  <2>2. /\ q.who \in Graded /\ q.done => q.answer.ver \in Nat
        /\ q.who = "teacher" /\ q.done => \A t \in Graded : q.answer[t].ver \in Nat
    BY <2>1, AutoMoves DEF StudentAsk, TeacherAsk
  <2>3. StudentAsk(q)'
    BY <1>1, <1>2, <1>3, <2>1, <2>2 DEF StudentAsk
  <2>4. TeacherAsk(q)'
    BY <1>1, <1>2, <1>3, <2>1, <2>2 DEF TeacherAsk
  <2>. QED
    BY <2>3, <2>4
<1>. QED
  BY <1>1, <1>2, <1>3, <1>4

\* An answer arrives, or does not.
LEMMA AutoStudentHears ==
  ASSUME PagesAssumption, AutoInv, NEW q \in wire, Grading!StudentGot(q) \/ Grading!StudentLost(q)
  PROVE  AutoInv' /\ Grading!NeverBack
<1>. USE DEF AutoInv, Grading!NeverBack, Grading!panelVars
<1>1. /\ wire' = wire \ {q} /\ UNCHANGED <<runs, tries, auto, ask, busy, gen>>
      /\ q.who \in Graded
      /\ \/ view' = view
         \/ q.live /\ q.done /\ view' = [view EXCEPT ![q.who] = q.answer]
      /\ next' \in [Graded -> {"none", "get", "advance", "retry"}]
  <2>1. \A v, off : Grading!NextStep(v, off) \in {"none", "get", "advance", "retry"}
    <3>. TAKE v, off
    <3>1. /\ v.status = "completed" => Grading!NextStep(v, off) = "none"
          /\ v.status # "completed" /\ v.status \in Grading!ACTIVE => Grading!NextStep(v, off) = "advance"
          /\ v.status # "completed" /\ v.status \notin Grading!ACTIVE => Grading!NextStep(v, off) = "get"
      BY Zenon DEF Grading!NextStep, Grading!ACTIVE
    <3>. QED
      BY <3>1
  <2>2. CASE Grading!StudentGot(q)
    <3>1. \/ next' = next
          \/ next' = [next EXCEPT ![q.who] = Grading!NextStep(q.answer, q.off)]
      BY <2>2 DEF Grading!StudentGot
    <3>2. next' \in [Graded -> {"none", "get", "advance", "retry"}]
      BY <2>1, <3>1
    <3>. QED
      BY <2>2, <3>2 DEF Grading!StudentGot, Grading!Heard
  <2>3. CASE Grading!StudentLost(q)
    BY <2>3 DEF Grading!StudentLost
  <2>. QED
    BY <2>2, <2>3
<1>2. \A t \in Graded : /\ runs[t].ver \in Nat
                        /\ view[t] # None => view[t].ver \in Nat
                        /\ auto # None => auto[t].ver \in Nat
  BY AutoMoves
<1>3. "teacher" \notin Graded /\ StudentAsk(q)
  BY DEF PagesAssumption
<1>4. /\ view' \in [Graded -> RunStates \cup {None}]
      /\ \A s \in Graded : /\ view'[s] # None => view'[s].ver <= runs[s].ver
                           /\ view[s] # None /\ view'[s] # None => view'[s].ver >= view[s].ver
  BY <1>1, <1>2, <1>3 DEF StudentAsk
<1>5. ASSUME NEW r \in wire \ {q} PROVE StudentAsk(r)' /\ TeacherAsk(r)'
  <2>1. StudentAsk(r) /\ TeacherAsk(r) /\ ~(r.live /\ q.live /\ r.who = q.who)
    OBVIOUS
  <2>2. r.who \in Graded => view'[r.who] = view[r.who] \/ (q.live /\ r.who = q.who)
    BY <1>1
  <2>. QED
    BY <1>1, <2>1, <2>2 DEF StudentAsk, TeacherAsk
<1>6. busy' => \E r \in wire' : r.who = "teacher" /\ r.live /\ Grading!IsAct(r) /\ r.gen = gen'
  BY <1>1, <1>3
<1>. QED
  BY <1>1, <1>2, <1>4, <1>5, <1>6

LEMMA AutoTeacherHears ==
  ASSUME PagesAssumption, AutoInv, NEW q \in wire, Grading!TeacherGot(q) \/ Grading!TeacherLost(q)
  PROVE  AutoInv' /\ Grading!NeverBack
<1>. USE DEF AutoInv, Grading!NeverBack, Grading!pageVars
<1>1. /\ wire' = wire \ {q} /\ UNCHANGED <<runs, view, next, tries, gen>>
      /\ q.who = "teacher"
      /\ \/ auto' = auto
         \/ q.live /\ q.done /\ auto' = q.answer
      /\ ask' \in {"none", "auto-status", "auto-advance"}
      /\ busy' = busy \/ busy' = FALSE
      /\ Grading!IsAct(q) /\ q.live /\ q.gen = gen => busy' = FALSE
  BY DEF Grading!TeacherGot, Grading!TeacherLost, Grading!Current, Grading!Poll, Grading!ResumePolling
<1>2. \A t \in Graded : /\ runs[t].ver \in Nat
                        /\ view[t] # None => view[t].ver \in Nat
                        /\ auto # None => auto[t].ver \in Nat
  BY AutoMoves
<1>3. "teacher" \notin Graded /\ TeacherAsk(q)
  BY DEF PagesAssumption
<1>4. /\ auto' \in [Graded -> RunStates] \cup {None}
      /\ \A s \in Graded : /\ auto' # None => auto'[s].ver <= runs[s].ver
                           /\ auto # None => auto'[s].ver >= auto[s].ver
  BY <1>1, <1>2, <1>3 DEF TeacherAsk
<1>5. ASSUME NEW r \in wire \ {q} PROVE StudentAsk(r)' /\ TeacherAsk(r)'
  <2>1. StudentAsk(r) /\ TeacherAsk(r) /\ ~(r.live /\ q.live /\ r.who = q.who)
    OBVIOUS
  <2>. QED
    BY <1>1, <2>1 DEF StudentAsk, TeacherAsk
<1>6. busy' => \E r \in wire' : r.who = "teacher" /\ r.live /\ Grading!IsAct(r) /\ r.gen = gen'
  BY <1>1
<1>7. wire' \subseteq wire \ {q} /\ \A r \in wire' : StudentAsk(r)' /\ TeacherAsk(r)'
  BY <1>1, <1>5
<1>8. \A s \in Graded : view[s] # None => view[s].ver >= view[s].ver
  BY <1>2
<1>. QED
  BY <1>1, <1>2, <1>4, <1>6, <1>7, <1>8

LEMMA AutoStep ==
  PagesAssumption /\ AutoInv /\ [Grading!Next]_(Grading!vars) => AutoInv' /\ Grading!NeverBack
<1>. SUFFICES ASSUME PagesAssumption, AutoInv, [Grading!Next]_(Grading!vars)
              PROVE  AutoInv' /\ Grading!NeverBack
  OBVIOUS
<1>1. CASE UNCHANGED Grading!vars
  <2>1. UNCHANGED <<runs, view, next, tries, auto, ask, busy, gen, wire>>
    BY <1>1 DEF Grading!vars, Grading!pageVars, Grading!panelVars
  <2>2. \A t \in Graded : /\ view[t] # None => view[t].ver \in Nat
                          /\ auto # None => auto[t].ver \in Nat
    BY AutoMoves DEF AutoInv
  <2>3. \A q \in wire : StudentAsk(q)' /\ TeacherAsk(q)'
    BY <2>1 DEF AutoInv, StudentAsk, TeacherAsk
  <2>. QED
    BY <2>1, <2>2, <2>3 DEF AutoInv, Grading!NeverBack
<1>2. CASE Grading!Next
  BY <1>2, AutoSends, AutoServe, AutoTransfer, AutoStudentHears, AutoTeacherHears DEF Grading!Next
<1>. QED
  BY <1>1, <1>2

LEMMA AutoTypes == AutoInv => Grading!TypeOK
BY DEF AutoInv, Grading!TypeOK, RunStates, Grading!Of

-----------------------------------------------------------------------------
(* A round's jobs: one is active at most, and what the page and its         *)
(* requests know of a job is a state that it had.                           *)

JobsInv ==
  /\ jobs \in Seq(Job!JobViews)
  /\ \A i \in 1..Len(jobs) : /\ jobs[i].id = i
                             /\ jobs[i].status # "completed" => jobs[i].left >= 1
  /\ \A i, j \in 1..Len(jobs) :
       jobs[i].status \in Job!Active /\ jobs[j].status \in Job!Active => i = j

JobKinds == {"read", "start", "resume", "cancel", "advance"}
JobAsks ==
  [kind : JobKinds, id : 0..MaxJobs, gen : Nat, live : BOOLEAN, done : BOOLEAN,
   answer : Job!JobViews \cup {None}]

\* A state that a job had.
WasSo(j) == j \in Job!JobViews /\ j.id \in 1..Len(jobs) /\ j.ver <= jobs[j.id].ver

JobAsk(q) ==
  /\ q.gen <= gen
  /\ q.kind \in {"resume", "cancel", "advance"} => q.id \in 1..Len(jobs)
  /\ q.answer # None => WasSo(q.answer)
  /\ Job!Current(q) /\ q.answer # None /\ job # None /\ q.answer.id = job.id
       => q.answer.ver >= job.ver
  /\ Job!Current(q) /\ q.kind # "advance" => busy

JobPageInv ==
  /\ job # None => WasSo(job)
  /\ error \in {"none", "changing", "failed"} /\ busy \in BOOLEAN /\ gen \in Nat
  /\ wire \subseteq JobAsks /\ IsFiniteSet(wire)
  /\ \A q, r \in wire : Job!Current(q) /\ Job!Current(r) => q = r
  /\ \A q \in wire : JobAsk(q)
  /\ busy => error # "none" \/ job = None
  /\ busy => \E q \in wire : q.kind # "advance" /\ Job!Current(q)

JobInv == JobsInv /\ JobPageInv

JobsGrow ==
  Len(jobs) <= Len(jobs') /\ \A i \in 1..Len(jobs) : jobs[i].ver <= jobs'[i].ver

LEMMA ChangedAt ==
  ASSUME NEW S, NEW s \in Seq(S), NEW i \in 1..Len(s), NEW v \in S
  PROVE  /\ [s EXCEPT ![i] = v] \in Seq(S) /\ Len([s EXCEPT ![i] = v]) = Len(s)
         /\ \A j \in 1..Len(s) : [s EXCEPT ![i] = v][j] = IF j = i THEN v ELSE s[j]
OBVIOUS

LEMMA JobsTyped ==
  ASSUME JobsInv
  PROVE  /\ Len(jobs) \in Nat
         /\ \A i \in 1..Len(jobs) : jobs[i] \in Job!JobViews /\ jobs[i].ver \in Nat
                                   /\ jobs[i].left \in 0..JobWaves
<1>1. Len(jobs) \in Nat /\ \A i \in 1..Len(jobs) : jobs[i] \in Job!JobViews
  BY DEF JobsInv
<1>2. \A j \in Job!JobViews : j.ver \in Nat /\ j.left \in 0..JobWaves
  BY DEF Job!JobViews
<1>. QED
  BY <1>1, <1>2

\* One job changes, and is not the second active one.
LEMMA JobBecomes ==
  ASSUME PagesAssumption, JobsInv, NEW i \in 1..Len(jobs),
         NEW st \in Job!Active \cup {"failed", "cancelled", "completed"}, NEW n \in 0..JobWaves,
         Job!Become(i, st, n), st # "completed" => n >= 1,
         st \in Job!Active => \A j \in 1..Len(jobs) : jobs[j].status \in Job!Active => j = i
  PROVE  JobsInv' /\ JobsGrow
<1>. DEFINE row == [id |-> i, status |-> st, left |-> n, ver |-> jobs[i].ver + 1]
<1>1. jobs[i] \in Job!JobViews /\ jobs[i].id = i
  BY DEF JobsInv
<1>2. /\ row \in Job!JobViews /\ row.id = i /\ row.status = st /\ row.left = n
      /\ row.ver >= jobs[i].ver
  BY <1>1 DEF Job!JobViews
<1>3. jobs' = [jobs EXCEPT ![i] = row]
  BY DEF Job!Become
<1>. HIDE DEF row
<1>4. /\ jobs' \in Seq(Job!JobViews) /\ Len(jobs') = Len(jobs)
      /\ \A j \in 1..Len(jobs) : jobs'[j] = IF j = i THEN row ELSE jobs[j]
  BY <1>2, <1>3, ChangedAt DEF JobsInv
<1>5. \A j \in 1..Len(jobs) : jobs[j].ver \in Nat
  BY JobsTyped
<1>6. JobsGrow
  BY <1>2, <1>4, <1>5 DEF JobsGrow
<1>7. \A j \in 1..Len(jobs) : /\ jobs'[j].id = j
                              /\ jobs'[j].status # "completed" => jobs'[j].left >= 1
  BY <1>2, <1>4 DEF JobsInv
<1>8. \A j, k \in 1..Len(jobs) :
        jobs'[j].status \in Job!Active /\ jobs'[k].status \in Job!Active => j = k
  BY <1>2, <1>4 DEF JobsInv
<1>. QED
  BY <1>4, <1>6, <1>7, <1>8 DEF JobsInv

LEMMA JobsSame == JobsInv /\ UNCHANGED jobs => JobsInv' /\ JobsGrow
<1>. SUFFICES ASSUME JobsInv, UNCHANGED jobs PROVE JobsInv' /\ JobsGrow
  OBVIOUS
<1>1. Len(jobs) \in Nat /\ \A i \in 1..Len(jobs) : jobs[i].ver \in Nat
  BY JobsTyped
<1>. QED
  BY <1>1 DEF JobsInv, JobsGrow

LEMMA JobCreated ==
  ASSUME PagesAssumption, JobsInv, Job!createJob
  PROVE  /\ JobsInv' /\ JobsGrow
         /\ Job!Newest \in 1..Len(jobs')
<1>1. CASE Job!Others(0) # {}
  <2>1. UNCHANGED jobs /\ JobsInv' /\ JobsGrow
    BY <1>1, JobsSame DEF Job!createJob
  <2>2. \E i \in 1..Len(jobs') : jobs'[i].status \in Job!Active
    BY <1>1, <2>1 DEF Job!Others
  <2>. QED
    BY <2>1, <2>2 DEF Job!Newest
<1>2. CASE Job!Others(0) = {}
  <2>1. jobs' = Append(jobs, Job!NewJob) /\ Len(jobs) < MaxJobs
    BY <1>2 DEF Job!createJob
  <2>2. Len(jobs) \in Nat /\ jobs \in Seq(Job!JobViews)
    BY DEF JobsInv
  <2>3. /\ Job!NewJob \in Job!JobViews /\ Job!NewJob.id = Len(jobs) + 1
        /\ Job!NewJob.left >= 1 /\ Job!NewJob.status \in Job!Active
    BY <2>1, <2>2 DEF Job!NewJob, Job!JobViews, Job!Active, PagesAssumption
  <2>4. /\ jobs' \in Seq(Job!JobViews) /\ Len(jobs') = Len(jobs) + 1
        /\ \A i \in 1..Len(jobs) : jobs'[i] = jobs[i]
        /\ jobs'[Len(jobs) + 1] = Job!NewJob
    BY <2>1, <2>2, <2>3
  <2>5. \A i \in 1..Len(jobs) : jobs[i].status \notin Job!Active
    BY <1>2, <2>2 DEF Job!Others
  <2>6. \A i \in 1..Len(jobs) : jobs[i].ver \in Nat
    BY JobsTyped
  <2>7. JobsGrow
    BY <2>2, <2>4, <2>6 DEF JobsGrow
  <2>8. \A i \in 1..Len(jobs') : i \in 1..Len(jobs) \/ i = Len(jobs) + 1
    BY <2>2, <2>4
  <2>9. JobsInv'
    <3>1. \A i \in 1..Len(jobs') : /\ jobs'[i].id = i
                                   /\ jobs'[i].status # "completed" => jobs'[i].left >= 1
      BY <2>3, <2>4, <2>8 DEF JobsInv
    <3>2. \A i, j \in 1..Len(jobs') :
            jobs'[i].status \in Job!Active /\ jobs'[j].status \in Job!Active => i = j
      BY <2>4, <2>5, <2>8
    <3>. QED
      BY <2>4, <3>1, <3>2 DEF JobsInv
  <2>10. \E i \in 1..Len(jobs') : jobs'[i].status \in Job!Active
    BY <2>2, <2>3, <2>4
  <2>. QED
    BY <2>7, <2>9, <2>10 DEF Job!Newest
<1>. QED
  BY <1>1, <1>2

\* What the routes do to a job.
LEMMA JobMoves ==
  ASSUME PagesAssumption, JobsInv, NEW i \in 1..Len(jobs),
         \/ Job!cancelJob(i) \/ Job!resumeJob(i) \/ Job!advanceJob(i)
         \/ jobs[i].status \in Job!Active /\ Job!Become(i, "failed", jobs[i].left)
  PROVE  JobsInv' /\ JobsGrow
<1>1. /\ jobs[i] \in Job!JobViews /\ jobs[i].left \in 0..JobWaves /\ JobWaves \in Nat
      /\ jobs[i].status # "completed" => jobs[i].left >= 1
  BY JobsTyped DEF JobsInv, PagesAssumption
<1>2. \A j \in 1..Len(jobs) :
        jobs[i].status \in Job!Active /\ jobs[j].status \in Job!Active => j = i
  BY DEF JobsInv
<1>3. CASE Job!cancelJob(i)
  <2>1. CASE jobs[i].status \in Job!Active
    <3>1. Job!Become(i, "cancelled", jobs[i].left) /\ jobs[i].left >= 1
      BY <1>1, <1>3, <2>1 DEF Job!cancelJob, Job!Active
    <3>2. "cancelled" \notin Job!Active
      BY DEF Job!Active
    <3>. QED
      BY <1>1, <3>1, <3>2, JobBecomes
  <2>2. CASE jobs[i].status \notin Job!Active
    BY <1>3, <2>2, JobsSame DEF Job!cancelJob
  <2>. QED
    BY <2>1, <2>2
<1>4. CASE Job!resumeJob(i)
  <2>1. CASE Job!Resumable(i)
    <3>1. Job!Become(i, "queued", jobs[i].left) /\ jobs[i].left >= 1
      BY <1>1, <1>4, <2>1 DEF Job!resumeJob, Job!Resumable
    <3>2. \A j \in 1..Len(jobs) : jobs[j].status \in Job!Active => j = i
      BY <2>1 DEF Job!Resumable, Job!Others
    <3>3. "queued" \in Job!Active
      BY DEF Job!Active
    <3>. QED
      BY <1>1, <3>1, <3>2, <3>3, JobBecomes
  <2>2. CASE ~ Job!Resumable(i)
    BY <1>4, <2>2, JobsSame DEF Job!resumeJob
  <2>. QED
    BY <2>1, <2>2
<1>5. CASE Job!advanceJob(i)
  <2>1. CASE jobs[i].status \in Job!Active
    <3>. DEFINE st == IF jobs[i].left = 1 THEN "completed" ELSE "running"
    <3>1. Job!Become(i, st, jobs[i].left - 1)
      BY <1>5, <2>1 DEF Job!advanceJob
    <3>2. /\ jobs[i].left - 1 \in 0..JobWaves /\ (st # "completed" => jobs[i].left - 1 >= 1)
          /\ st \in Job!Active \cup {"failed", "cancelled", "completed"}
      BY <1>1, <2>1 DEF Job!Active
    <3>3. \A j \in 1..Len(jobs) : jobs[j].status \in Job!Active => j = i
      BY <1>2, <2>1
    <3>. HIDE DEF st
    <3>. QED
      BY <3>1, <3>2, <3>3, JobBecomes
  <2>2. CASE jobs[i].status \notin Job!Active
    BY <1>5, <2>2, JobsSame DEF Job!advanceJob
  <2>. QED
    BY <2>1, <2>2
<1>6. CASE jobs[i].status \in Job!Active /\ Job!Become(i, "failed", jobs[i].left)
  <2>1. jobs[i].left >= 1 /\ "failed" \notin Job!Active
    BY <1>1, <1>6 DEF Job!Active
  <2>. QED
    BY <1>1, <1>6, <2>1, JobBecomes
<1>. QED
  BY <1>3, <1>4, <1>5, <1>6

LEMMA JobInit == PagesAssumption /\ Job!Init => JobInv
<1>. SUFFICES ASSUME PagesAssumption, Job!Init PROVE JobInv
  OBVIOUS
<1>. DEFINE q == [kind |-> "read", id |-> 0, gen |-> 0, live |-> TRUE, done |-> FALSE, answer |-> None]
<1>1. /\ jobs = <<>> /\ job = None /\ busy = TRUE /\ error = "none" /\ gen = 0 /\ wire = {q}
  BY DEF Job!Init
<1>2. JobsInv
  <2>1. Len(jobs) = 0 /\ jobs \in Seq(Job!JobViews)
    BY <1>1
  <2>. QED
    BY <2>1 DEF JobsInv
<1>3. q \in JobAsks
  BY DEF JobAsks, JobKinds, PagesAssumption
<1>4. JobAsk(q) /\ Job!Current(q)
  BY <1>1 DEF JobAsk, Job!Current
<1>5. IsFiniteSet(wire)
  BY <1>1, FS_Singleton
<1>. QED
  BY <1>1, <1>2, <1>3, <1>4, <1>5 DEF JobInv, JobPageInv

\* What was known of the jobs is still a state they had.
LEMMA StillWasSo ==
  ASSUME JobsInv, JobsInv', JobsGrow, NEW j, WasSo(j)
  PROVE  WasSo(j)'
<1>1. /\ Len(jobs) \in Nat /\ Len(jobs') \in Nat /\ Len(jobs) <= Len(jobs')
      /\ j.id \in 1..Len(jobs) /\ j.ver \in Nat
      /\ jobs[j.id] \in Job!JobViews /\ jobs'[j.id] \in Job!JobViews
      /\ jobs[j.id].ver <= jobs'[j.id].ver
  <2>1. j \in Job!JobViews /\ j.id \in 1..Len(jobs)
    BY DEF WasSo
  <2>2. Len(jobs) \in Nat /\ Len(jobs') \in Nat /\ Len(jobs) <= Len(jobs')
    BY DEF JobsInv, JobsGrow
  <2>3. j.id \in 1..Len(jobs') /\ j.ver \in Nat
    BY <2>1, <2>2 DEF Job!JobViews
  <2>. QED
    BY <2>1, <2>2, <2>3 DEF JobsInv, JobsGrow
<1>2. \A r \in Job!JobViews : r.ver \in Nat
  BY DEF Job!JobViews
<1>3. j \in Job!JobViews /\ j.id \in 1..Len(jobs') /\ j.ver <= jobs[j.id].ver
  BY <1>1 DEF WasSo
<1>. QED
  BY <1>1, <1>2, <1>3 DEF WasSo

\* The server's jobs change, and the page does not.
LEMMA JobPageKept ==
  ASSUME JobInv, JobsInv', JobsGrow, UNCHANGED <<job, busy, error, gen>>
  PROVE  /\ job' # None => WasSo(job)'
         /\ \A q \in wire : JobAsk(q)'
<1>1. \A j : WasSo(j) => WasSo(j)'
  BY StillWasSo DEF JobInv
<1>2. job' # None => WasSo(job)'
  <2>. SUFFICES ASSUME job' # None PROVE WasSo(job)'
    OBVIOUS
  <2>1. PICK j : j = job
    OBVIOUS
  <2>2. WasSo(j)'
    BY <1>1, <2>1 DEF JobInv, JobPageInv
  <2>. QED
    BY <2>1, <2>2 DEF WasSo
<1>3. ASSUME NEW q \in wire PROVE JobAsk(q)'
  <2>1. JobAsk(q) /\ Len(jobs) <= Len(jobs') /\ Len(jobs) \in Nat /\ Len(jobs') \in Nat
    BY DEF JobInv, JobPageInv, JobsInv, JobsGrow
  <2>2. q.answer # None => WasSo(q.answer)'
    BY <1>1, <2>1 DEF JobAsk
  <2>3. q.kind \in {"resume", "cancel", "advance"} => q.id \in 1..Len(jobs')
    BY <2>1 DEF JobAsk
  <2>. QED
    BY <2>1, <2>2, <2>3 DEF JobAsk, Job!Current
<1>. QED
  BY <1>2, <1>3

Advances(w) == {q \in w : q.kind = "advance"}

\* Answers and requests are changed one by one, and none of them to drive a job.
LEMMA NoMoreAdvances ==
  ASSUME IsFiniteSet(wire), NEW f,
         \A q \in wire' : q.kind = "advance" => \E p \in Advances(wire) : q = f[p]
  PROVE  Job!DispatchStops
<1>1. IsFiniteSet(Advances(wire))
  BY Fewer DEF Advances
<1>2. Advances(wire') \in SUBSET {f[p] : p \in Advances(wire)}
  BY DEF Advances
<1>3. Cardinality(Advances(wire')) <= Cardinality(Advances(wire))
  BY <1>1, <1>2, Imaged
<1>. QED
  BY <1>3, PageCardinality DEF Job!DispatchStops, Advances

LEMMA SameAdvances == IsFiniteSet(wire) /\ wire' \subseteq wire => Job!DispatchStops
<1>. SUFFICES ASSUME IsFiniteSet(wire), wire' \subseteq wire PROVE Job!DispatchStops
  OBVIOUS
<1>. DEFINE f == [q \in wire |-> q]
<1>1. \A q \in wire' : q.kind = "advance" => \E p \in Advances(wire) : q = f[p]
  BY DEF Advances
<1>. HIDE DEF f
<1>. QED
  BY <1>1, NoMoreAdvances

LEMMA JobSame ==
  ASSUME PagesAssumption, JobInv, JobsInv', JobsGrow, UNCHANGED <<job, busy, error, gen, wire>>
  PROVE  JobInv' /\ Job!NeverBack /\ Job!DispatchStops
<1>1. Job!DispatchStops
  BY SameAdvances DEF JobInv, JobPageInv
<1>2. (job' # None => WasSo(job)') /\ \A q \in wire : JobAsk(q)'
  BY JobPageKept
<1>3. job # None => job.ver \in Nat
  BY DEF JobInv, JobPageInv, WasSo, Job!JobViews
<1>. QED
  BY <1>1, <1>2, <1>3 DEF JobInv, JobPageInv, Job!NeverBack, Job!Current

LEMMA JobElsewhere ==
  ASSUME PagesAssumption, JobInv, Job!Elsewhere
  PROVE  JobInv' /\ Job!NeverBack /\ Job!DispatchStops
<1>1. UNCHANGED <<job, busy, error, gen, wire>>
  BY DEF Job!Elsewhere, Job!page
<1>2. JobsInv' /\ JobsGrow
  <2>1. CASE Job!createJob
    BY <2>1, JobCreated DEF JobInv
  <2>2. CASE \E id \in 1..Len(jobs) : Job!cancelJob(id) \/ Job!resumeJob(id)
    BY <2>2, JobMoves DEF JobInv
  <2>. QED
    BY <2>1, <2>2 DEF Job!Elsewhere
<1>. QED
  BY <1>1, <1>2, JobSame

LEMMA JobTick ==
  ASSUME PagesAssumption, JobInv, Job!Tick
  PROVE  JobInv' /\ Job!NeverBack /\ Job!DispatchStops
<1>1. PICK new : /\ new = Job!Request("advance") /\ wire' = wire \cup {new}
                 /\ job # None /\ error = "none" /\ Job!Ticks = {}
                 /\ UNCHANGED <<jobs, job, busy, error, gen>>
  BY DEF Job!Tick, Job!Driving, Job!activeId, Job!server, Job!page
<1>2. JobsInv' /\ JobsGrow
  BY <1>1, JobsSame DEF JobInv
<1>3. (job' # None => WasSo(job)') /\ \A q \in wire : JobAsk(q)'
  BY <1>1, <1>2, JobPageKept
<1>4. ~ busy
  BY <1>1 DEF JobInv, JobPageInv
<1>5. WasSo(job) /\ gen \in Nat
  BY <1>1 DEF JobInv, JobPageInv
<1>6. /\ new = [kind |-> "advance", id |-> job.id, gen |-> gen, live |-> TRUE, done |-> FALSE,
                answer |-> None]
  BY <1>1 DEF Job!Request
<1>7. new \in JobAsks /\ JobAsk(new)'
  <2>1. job.id \in 1..MaxJobs /\ MaxJobs \in Nat
    BY <1>5 DEF WasSo, Job!JobViews, PagesAssumption
  <2>2. new \in JobAsks
    BY <1>5, <1>6, <2>1 DEF JobAsks, JobKinds
  <2>3. JobAsk(new)'
    BY <1>1, <1>5, <1>6 DEF JobAsk, WasSo
  <2>. QED
    BY <2>2, <2>3
<1>8. \A q \in wire : ~ Job!Current(q)
  <2>. SUFFICES ASSUME NEW q \in wire, Job!Current(q) PROVE FALSE
    OBVIOUS
  <2>1. JobAsk(q) /\ q \in JobAsks
    BY DEF JobInv, JobPageInv
  <2>2. q.kind = "advance"
    BY <1>4, <2>1 DEF JobAsk
  <2>. QED
    BY <1>1, <2>2 DEF Job!Ticks, Job!Current
<1>9. \A q, r \in wire' : Job!Current(q)' /\ Job!Current(r)' => q = r
  BY <1>1, <1>8 DEF Job!Current
<1>10. IsFiniteSet(wire')
  BY <1>1, FS_AddElement DEF JobInv, JobPageInv
<1>11. job # None => job.ver \in Nat
  BY <1>5 DEF WasSo, Job!JobViews
<1>12. wire' \subseteq JobAsks /\ \A q \in wire' : JobAsk(q)'
  BY <1>1, <1>3, <1>7 DEF JobInv, JobPageInv
<1>. QED
  BY <1>1, <1>2, <1>3, <1>4, <1>9, <1>10, <1>11, <1>12
  DEF JobInv, JobPageInv, Job!NeverBack, Job!DispatchStops

LEMMA JobClicks ==
  ASSUME PagesAssumption, JobInv, NEW a \in Job!Acts, Job!act(a)
  PROVE  JobInv' /\ Job!NeverBack /\ Job!DispatchStops
<1>1. PICK new : /\ new = [Job!Request(a) EXCEPT !.gen = gen + 1]
                 /\ wire' = Job!Stop \cup {new}
                 /\ ~ busy /\ busy' = TRUE /\ error' = "changing" /\ gen' = gen + 1
                 /\ Job!Offered(a) /\ UNCHANGED <<jobs, job>>
  BY Zenon DEF Job!act
<1>2. JobsInv' /\ JobsGrow
  BY <1>1, JobsSame DEF JobInv
<1>3. gen \in Nat /\ (job # None => WasSo(job) /\ WasSo(job)')
  BY <1>1 DEF JobInv, JobPageInv, WasSo
<1>4. new = [kind |-> a, id |-> IF job = None THEN 0 ELSE job.id, gen |-> gen + 1, live |-> TRUE,
             done |-> FALSE, answer |-> None]
  BY <1>1 DEF Job!Request
<1>5. a \in {"start", "resume", "cancel"} /\ (a # "start" => job # None)
  <2>1. a = "resume" => Job!Offered(a) = (Job!canResume /\ job.status # "completed")
    BY Zenon DEF Job!Offered
  <2>2. a = "cancel" => Job!Offered(a) = Job!activeId
    BY Zenon DEF Job!Offered
  <2>. QED
    BY <1>1, <2>1, <2>2 DEF Job!Acts, Job!canResume, Job!activeId
<1>6. new \in JobAsks /\ JobAsk(new)' /\ Job!Current(new)'
  <2>1. MaxJobs \in Nat /\ (job # None => job.id \in 1..MaxJobs /\ job.id \in 1..Len(jobs))
    BY <1>3 DEF WasSo, Job!JobViews, PagesAssumption
  <2>2. new \in JobAsks
    BY <1>3, <1>4, <1>5, <2>1 DEF JobAsks, JobKinds
  <2>3. JobAsk(new)'
    BY <1>1, <1>3, <1>4, <1>5, <2>1 DEF JobAsk
  <2>. QED
    BY <1>1, <1>4, <2>2, <2>3 DEF Job!Current
<1>0. PICK f : f = [q \in wire |-> IF q.kind = "advance" THEN [q EXCEPT !.live = FALSE] ELSE q]
  OBVIOUS
<1>7. ASSUME NEW q \in wire'
      PROVE  q = new \/ \E p \in wire : q = f[p]
  BY <1>0, <1>1 DEF Job!Stop
<1>8. ASSUME NEW p \in wire
      PROVE  /\ f[p] \in JobAsks /\ JobAsk(f[p])' /\ ~ Job!Current(f[p])'
             /\ f[p].kind = p.kind
  <2>1. p \in JobAsks /\ JobAsk(p)
    BY DEF JobInv, JobPageInv
  <2>2. PICK q : q = f[p] /\ q = IF p.kind = "advance" THEN [p EXCEPT !.live = FALSE] ELSE p
    BY <1>0
  <2>3. /\ q \in JobAsks /\ q.gen = p.gen /\ q.kind = p.kind /\ q.id = p.id /\ q.answer = p.answer
    BY <2>1, <2>2 DEF JobAsks
  <2>4. p.gen \in Nat /\ p.gen <= gen
    BY <2>1 DEF JobAsk, JobAsks
  <2>5. ~ Job!Current(q)'
    BY <1>1, <1>3, <2>3, <2>4 DEF Job!Current
  <2>6. JobAsk(q)'
    BY <1>1, <1>3, <2>1, <2>3, <2>4, <2>5 DEF JobAsk, WasSo
  <2>. QED
    BY <2>2, <2>3, <2>5, <2>6
<1>9. IsFiniteSet(wire')
  <2>1. IsFiniteSet(wire) /\ Job!Stop \in SUBSET {f[p] : p \in wire}
    BY <1>0 DEF JobInv, JobPageInv, Job!Stop
  <2>2. IsFiniteSet(Job!Stop)
    BY <2>1, Imaged
  <2>. QED
    BY <1>1, <2>2, FS_AddElement
<1>10. Job!DispatchStops
  <2>1. \A q \in wire' : q.kind = "advance" => \E p \in Advances(wire) : q = f[p]
    BY <1>4, <1>5, <1>7, <1>8 DEF Advances
  <2>. QED
    BY <2>1, NoMoreAdvances DEF JobInv, JobPageInv
<1>11. Job!NeverBack
  BY <1>1, <1>3 DEF Job!NeverBack, WasSo, Job!JobViews
<1>12. wire' \subseteq JobAsks /\ \A q \in wire' : JobAsk(q)'
  BY <1>6, <1>7, <1>8
<1>13. \A q, r \in wire' : Job!Current(q)' /\ Job!Current(r)' => q = r
  BY <1>7, <1>8
<1>14. \E q \in wire' : q.kind # "advance" /\ Job!Current(q)'
  BY <1>1, <1>4, <1>5, <1>6
<1>. QED
  BY <1>1, <1>2, <1>3, <1>9, <1>10, <1>11, <1>12, <1>13, <1>14 DEF JobInv, JobPageInv

\* A request is carried out, and answered with the job as it is then.
LEMMA JobServe ==
  ASSUME PagesAssumption, JobInv, NEW q \in wire, Job!Serve(q) \/ Job!Outage(q)
  PROVE  JobInv' /\ Job!NeverBack /\ Job!DispatchStops
<1>1. JobAsk(q) /\ q \in JobAsks /\ gen \in Nat
  BY DEF JobInv, JobPageInv
<1>2. UNCHANGED <<job, busy, error, gen>>
  BY DEF Job!Serve, Job!Outage, Job!page
<1>3. /\ JobsInv' /\ JobsGrow
      /\ \E j : /\ Job!Answered(q, j)
                /\ j = None \/ \E i \in 1..Len(jobs') : j = jobs'[i]
  <2>1. CASE q.kind = "read" /\ Job!Serve(q)
    <3>1. UNCHANGED jobs /\ Job!Answered(q, IF jobs = <<>> THEN None ELSE jobs[Len(jobs)])
      BY <2>1 DEF Job!Serve
    <3>2. JobsInv' /\ JobsGrow
      BY <3>1, JobsSame DEF JobInv
    <3>3. jobs # <<>> => Len(jobs) \in 1..Len(jobs')
      BY <3>1 DEF JobInv, JobsInv
    <3>. QED
      BY <3>1, <3>2, <3>3
  <2>2. CASE q.kind = "start" /\ Job!Serve(q)
    <3>1. Job!createJob /\ Job!Answered(q, jobs'[Job!Newest])
      BY <2>2 DEF Job!Serve
    <3>. QED
      BY <3>1, JobCreated DEF JobInv
  <2>3. ASSUME q.kind \in {"resume", "cancel", "advance"}, NEW j,
               JobsInv', JobsGrow, Job!Answered(q, j), j \in {None, jobs'[q.id]}
        PROVE  /\ JobsInv' /\ JobsGrow
               /\ \E k : /\ Job!Answered(q, k)
                         /\ k = None \/ \E i \in 1..Len(jobs') : k = jobs'[i]
    <3>1. q.id \in 1..Len(jobs')
      BY <1>1, <2>3 DEF JobAsk, JobInv, JobsInv, JobsGrow
    <3>. QED
      BY <2>3, <3>1
  <2>4. CASE q.kind = "cancel" /\ Job!Serve(q)
    <3>1. Job!cancelJob(q.id) /\ Job!Answered(q, jobs'[q.id]) /\ q.id \in 1..Len(jobs)
      BY <1>1, <2>4 DEF Job!Serve, JobAsk
    <3>2. JobsInv' /\ JobsGrow
      BY <3>1, JobMoves DEF JobInv
    <3>. QED
      BY <2>3, <2>4, <3>1, <3>2
  <2>5. CASE q.kind = "resume" /\ Job!Serve(q)
    <3>1. /\ Job!resumeJob(q.id) /\ q.id \in 1..Len(jobs)
          /\ Job!Answered(q, None) \/ Job!Answered(q, jobs'[q.id])
      BY <1>1, <2>5 DEF Job!Serve, JobAsk
    <3>2. JobsInv' /\ JobsGrow
      BY <3>1, JobMoves DEF JobInv
    <3>. QED
      BY <2>3, <2>5, <3>1, <3>2
  <2>6. CASE q.kind = "advance" /\ Job!Serve(q)
    <3>1. Job!advanceJob(q.id) /\ Job!Answered(q, jobs'[q.id]) /\ q.id \in 1..Len(jobs)
      BY <1>1, <2>6 DEF Job!Serve, JobAsk
    <3>2. JobsInv' /\ JobsGrow
      BY <3>1, JobMoves DEF JobInv
    <3>. QED
      BY <2>3, <2>6, <3>1, <3>2
  <2>7. CASE Job!Outage(q)
    <3>1. /\ q.kind = "advance" /\ Job!Answered(q, jobs'[q.id]) /\ q.id \in 1..Len(jobs)
          /\ jobs[q.id].status \in Job!Active /\ Job!Become(q.id, "failed", jobs[q.id].left)
      BY <1>1, <2>7 DEF Job!Outage, JobAsk
    <3>2. JobsInv' /\ JobsGrow
      BY <3>1, JobMoves DEF JobInv
    <3>. QED
      BY <2>3, <3>1, <3>2
  <2>. QED
    BY <2>1, <2>2, <2>4, <2>5, <2>6, <2>7 DEF Job!Serve
<1>4. PICK j : Job!Answered(q, j) /\ (j = None \/ \E i \in 1..Len(jobs') : j = jobs'[i])
  BY <1>3
<1>5. PICK new : new = [q EXCEPT !.done = TRUE, !.answer = j] /\ wire' = (wire \ {q}) \cup {new}
  BY <1>4 DEF Job!Answered
<1>6. j # None => WasSo(j)'
  <2>. SUFFICES ASSUME NEW i \in 1..Len(jobs'), j = jobs'[i] PROVE WasSo(j)'
    BY <1>4
  <2>1. JobsInv'
    BY <1>3
  <2>2. jobs'[i] \in Job!JobViews /\ jobs'[i].id = i
    BY <2>1 DEF JobsInv
  <2>3. jobs'[i].ver \in Nat
    BY <2>2 DEF Job!JobViews
  <2>. QED
    BY <2>2, <2>3 DEF WasSo
<1>7. /\ new \in JobAsks /\ new.kind = q.kind /\ new.id = q.id /\ new.gen = q.gen
      /\ new.live = q.live /\ new.answer = j
  BY <1>1, <1>5, <1>6 DEF JobAsks, WasSo
<1>8. (job' # None => WasSo(job)') /\ \A r \in wire : JobAsk(r)'
  BY <1>2, <1>3, JobPageKept
<1>9. Job!Current(new)' <=> Job!Current(q)
  BY <1>2, <1>7 DEF Job!Current
<1>10. JobAsk(new)'
  <2>1. j # None /\ job # None /\ j.id = job.id => j.ver >= job.ver
    <3>. SUFFICES ASSUME NEW i \in 1..Len(jobs'), j = jobs'[i], job # None, j.id = job.id
                  PROVE  j.ver >= job.ver
      BY <1>4
    <3>1. JobsInv' /\ WasSo(job)' /\ job' = job
      BY <1>2, <1>3, <1>8
    <3>2. jobs'[i].id = i /\ jobs'[i] \in Job!JobViews
      BY <3>1 DEF JobsInv
    <3>3. job.ver \in Nat /\ job.ver <= jobs'[i].ver
      BY <3>1, <3>2 DEF WasSo, Job!JobViews
    <3>. QED
      BY <3>2, <3>3 DEF Job!JobViews
  <2>2. JobAsk(q)'
    BY <1>8
  <2>. QED
    BY <1>1, <1>2, <1>6, <1>7, <1>9, <2>1, <2>2 DEF JobAsk
<1>11. \A r \in wire' : r = new \/ r \in wire \ {q}
  BY <1>5
<1>12. \A r, t \in wire' : Job!Current(r)' /\ Job!Current(t)' => r = t
  <2>. SUFFICES ASSUME NEW r \in wire', NEW t \in wire', Job!Current(r)', Job!Current(t)'
                PROVE  r = t
    OBVIOUS
  <2>1. \A x \in wire : Job!Current(x)' => Job!Current(x)
    BY <1>2 DEF Job!Current
  <2>. QED
    BY <1>9, <1>11, <2>1 DEF JobInv, JobPageInv
<1>13. IsFiniteSet(wire')
  BY <1>5, Replaced DEF JobInv, JobPageInv
<1>14. Job!DispatchStops
  <2>. DEFINE f == [p \in wire |-> IF p = q THEN new ELSE p]
  <2>1. \A r \in wire' : r.kind = "advance" => \E p \in Advances(wire) : r = f[p]
    BY <1>5, <1>7 DEF Advances
  <2>. HIDE DEF f
  <2>. QED
    BY <2>1, NoMoreAdvances DEF JobInv, JobPageInv
<1>15. Job!NeverBack
  BY <1>2 DEF JobInv, JobPageInv, Job!NeverBack, WasSo, Job!JobViews
<1>16. busy' => \E r \in wire' : r.kind # "advance" /\ Job!Current(r)'
  <2>. SUFFICES ASSUME busy PROVE \E r \in wire' : r.kind # "advance" /\ Job!Current(r)'
    BY <1>2
  <2>1. PICK x \in wire : x.kind # "advance" /\ Job!Current(x)
    BY DEF JobInv, JobPageInv
  <2>2. CASE x = q
    BY <1>5, <1>7, <1>9, <2>1, <2>2
  <2>3. CASE x # q
    BY <1>2, <1>5, <2>1, <2>3 DEF Job!Current
  <2>. QED
    BY <2>2, <2>3
<1>17. wire' \subseteq JobAsks /\ \A r \in wire' : JobAsk(r)'
  BY <1>7, <1>8, <1>10, <1>11 DEF JobInv, JobPageInv
<1>. QED
  BY <1>2, <1>3, <1>8, <1>12, <1>13, <1>14, <1>15, <1>16, <1>17 DEF JobInv, JobPageInv

LEMMA JobHears ==
  ASSUME PagesAssumption, JobInv, NEW q \in wire, Job!Got(q) \/ Job!Lose(q)
  PROVE  JobInv' /\ Job!NeverBack /\ Job!DispatchStops
<1>1. JobAsk(q) /\ q \in JobAsks /\ gen \in Nat
  BY DEF JobInv, JobPageInv
<1>2. /\ wire' = wire \ {q} /\ UNCHANGED <<jobs, gen>>
      /\ ~ Job!Current(q) => UNCHANGED <<job, busy, error>>
      /\ Job!Current(q) => 
           /\ busy' = IF q.kind = "advance" THEN busy ELSE FALSE
           /\ job' = job \/ (q.answer # None /\ job' = q.answer)
           /\ error' \in {"none", "failed", error}
  BY DEF Job!Got, Job!Lose, Job!Settles, Job!server
<1>3. JobsInv' /\ JobsGrow
  BY <1>2, JobsSame DEF JobInv
<1>4. Job!DispatchStops
  BY <1>2, SameAdvances DEF JobInv, JobPageInv
<1>5. Job!NeverBack /\ (job' # None => WasSo(job)')
  <2>1. job # None => WasSo(job) /\ job.ver \in Nat
    BY DEF JobInv, JobPageInv, WasSo, Job!JobViews
  <2>2. CASE job' = job
    BY <1>2, <2>1, <2>2 DEF Job!NeverBack, WasSo
  <2>3. CASE Job!Current(q) /\ q.answer # None /\ job' = q.answer
    <3>1. WasSo(q.answer)
      BY <1>1, <2>3 DEF JobAsk
    <3>2. WasSo(job)'
      BY <1>2, <2>3, <3>1 DEF WasSo
    <3>. QED
      BY <1>1, <2>3, <3>2 DEF JobAsk, Job!NeverBack
  <2>. QED
    BY <1>2, <2>2, <2>3
<1>6. CASE ~ Job!Current(q)
  <2>1. \A r \in wire : JobAsk(r)'
    BY <1>2, <1>3, <1>6, JobPageKept
  <2>2. \A r \in wire : Job!Current(r)' <=> Job!Current(r)
    BY <1>2 DEF Job!Current
  <2>3. IsFiniteSet(wire')
    BY <1>2, Fewer DEF JobInv, JobPageInv
  <2>4. busy' => \E r \in wire' : r.kind # "advance" /\ Job!Current(r)'
    BY <1>2, <1>6, <2>2 DEF JobInv, JobPageInv
  <2>. QED
    BY <1>2, <1>3, <1>4, <1>5, <1>6, <2>1, <2>2, <2>3, <2>4 DEF JobInv, JobPageInv
<1>7. CASE Job!Current(q)
  <2>1. \A r \in wire' : r \in wire /\ ~ Job!Current(r) /\ ~ Job!Current(r)'
    BY <1>2, <1>7 DEF JobInv, JobPageInv, Job!Current
  <2>2. busy' = FALSE
    <3>1. CASE q.kind = "advance"
      BY <1>2, <1>7, <3>1 DEF JobInv, JobPageInv
    <3>2. CASE q.kind # "advance"
      BY <1>2, <1>7, <3>2
    <3>. QED
      BY <3>1, <3>2
  <2>3. ASSUME NEW r \in wire' PROVE JobAsk(r)'
    <3>1. JobAsk(r)
      BY <2>1 DEF JobInv, JobPageInv
    <3>. QED
      BY <1>2, <2>1, <3>1 DEF JobAsk, WasSo
  <2>4. IsFiniteSet(wire')
    BY <1>2, Fewer DEF JobInv, JobPageInv
  <2>5. error' \in {"none", "changing", "failed"} /\ wire' \subseteq JobAsks
    BY <1>2, <1>7 DEF JobInv, JobPageInv
  <2>. QED
    BY <1>2, <1>3, <1>4, <1>5, <2>1, <2>2, <2>3, <2>4, <2>5 DEF JobInv, JobPageInv
<1>. QED
  BY <1>6, <1>7

LEMMA JobStep ==
  PagesAssumption /\ JobInv /\ [Job!Next]_(Job!vars)
    => JobInv' /\ Job!NeverBack /\ Job!DispatchStops
<1>. SUFFICES ASSUME PagesAssumption, JobInv, [Job!Next]_(Job!vars)
              PROVE  JobInv' /\ Job!NeverBack /\ Job!DispatchStops
  OBVIOUS
<1>1. CASE UNCHANGED Job!vars
  BY <1>1, JobsSame, JobSame DEF Job!vars, Job!server, Job!page, JobInv
<1>2. CASE Job!Next
  <2>1. CASE Job!Elsewhere \/ Job!Tick
    BY <2>1, JobElsewhere, JobTick
  <2>2. CASE \E a \in Job!Acts : Job!act(a)
    BY <2>2, JobClicks
  <2>3. CASE \E q \in wire : Job!Serve(q) \/ Job!Outage(q)
    BY <2>3, JobServe
  <2>4. CASE \E q \in wire : Job!Got(q) \/ Job!Lose(q)
    BY <2>4, JobHears
  <2>. QED
    BY <1>2, <2>1, <2>2, <2>3, <2>4, Zenon DEF Job!Next
<1>. QED
  BY <1>1, <1>2

LEMMA JobHolds ==
  ASSUME PagesAssumption, JobInv
  PROVE  Job!TypeOK /\ Job!OneActive
<1>1. Job!TypeOK
  <2>1. \A i \in 1..Len(jobs) : jobs[i] \in Job!JobViews /\ jobs[i].id = i
    BY JobsTyped DEF JobInv, JobsInv
  <2>. QED
    BY <2>1 DEF JobInv, JobPageInv, WasSo, Job!TypeOK
<1>2. \A i, j \in Job!Others(0) : i = j
  BY DEF JobInv, JobsInv, Job!Others
<1>3. Cardinality(Job!Others(0)) <= 1
  <2>1. CASE Job!Others(0) = {}
    BY <2>1, FS_EmptySet
  <2>2. ASSUME NEW i \in Job!Others(0) PROVE Cardinality(Job!Others(0)) <= 1
    <3>1. Job!Others(0) = {i} /\ Cardinality({i}) = 1
      BY <1>2, FS_Singleton
    <3>. QED
      BY <3>1
  <2>. QED
    BY <2>1, <2>2
<1>. QED
  BY <1>1, <1>3, PageCardinality DEF Job!OneActive

-----------------------------------------------------------------------------
(* The research panel: a note goes with the version it is about, in the     *)
(* form, in every request and in every view.                                *)

\* A view that some load may show.
PanelView(v) ==
  v \in Panel!Views /\ v.note \in {0, v.rev} /\ (v.can => Panel!Allowed)
Rows(kind, of, ver, note, stages) ==
  [kind : {kind}, of : of, ver : ver, note : note, stage : stages, ok : BOOLEAN,
   view : Panel!Views \cup {None}]
PanelAsks ==
  Rows("load", {"poll", "ask", "note"}, {0}, {0}, {"sent", "half", "done"}) \cup
  Rows("ask", {"ask"}, 1..PanelRev, {0}, {"sent", "work", "done"}) \cup
  Rows("note", {"note"}, 1..PanelRev, 0..PanelRev, {"sent", "done"})

PanelAsk(q) ==
  /\ q.kind = "load" /\ q.stage # "sent" => PanelView(q.view)
  /\ q.kind = "note" => q.note \in {0, q.ver}

PanelInv ==
  /\ Panel!TypeOK /\ Panel!NotesStay /\ busy \in BOOLEAN /\ open \in BOOLEAN
  /\ stored \in [1..PanelRev -> 0..PanelRev]
  /\ view # None => PanelView(view)
  /\ draft # None => draft.ver \in 1..PanelRev /\ draft.note \in {0, draft.ver}
  /\ wire \subseteq PanelAsks
  /\ \A q \in wire : PanelAsk(q)

LEMMA PanelInit == PagesAssumption /\ Panel!Init => PanelInv
<1>. SUFFICES ASSUME PagesAssumption, Panel!Init PROVE PanelInv
  OBVIOUS
<1>. USE DEF Panel!Init, PagesAssumption
<1>1. /\ Panel!Load("poll") \in PanelAsks /\ PanelAsk(Panel!Load("poll"))
      /\ Panel!Load("poll").of # "ask"
  BY DEF PanelAsks, Rows, PanelAsk, Panel!Load, Panel!Request
<1>2. Panel!TypeOK
  BY DEF Panel!TypeOK, Panel!Versions, Panel!NotAssigned, Panel!Status
<1>3. stored \in [1..PanelRev -> 0..PanelRev] /\ Panel!NotesStay
  BY DEF Panel!Versions, Panel!NotesStay
<1>. QED
  BY <1>1, <1>2, <1>3 DEF PanelInv

\* What is allowed stays so, and then every view of before is still right.
LEMMA PanelViewStays ==
  ASSUME Panel!Allowed => Panel!Allowed'
  PROVE  /\ \A v : PanelView(v) => PanelView(v)'
         /\ \A q : PanelAsk(q) => PanelAsk(q)'
BY DEF PanelView, PanelAsk

LEMMA PanelWorld ==
  ASSUME PagesAssumption, PanelInv,
         \/ Panel!World \/ \E v \in Panel!Versions : Panel!Expire(v)
  PROVE  PanelInv'
<1>. USE DEF PanelInv, Panel!TypeOK, Panel!effect
<1>1. CASE Panel!World
  <2>1. /\ UNCHANGED <<ai, stored, view, draft, busy, due, hot, wire>>
        /\ rev' \in Panel!Versions /\ reviews' \in Panel!NotAssigned..Reviewers
        /\ open' \in BOOLEAN
        /\ Panel!Allowed => Panel!Allowed'
    <3>1. UNCHANGED <<ai, stored, view, draft, busy, due, hot, wire>>
      BY <1>1 DEF Panel!World
    <3>2. /\ rev \in 1..PanelRev /\ PanelRev \in Nat /\ reviews \in -1..Reviewers
          /\ Reviewers \in Nat
      BY DEF PagesAssumption, Panel!Versions, Panel!NotAssigned
    <3>3. rev' \in Panel!Versions
      BY <1>1, <3>2 DEF Panel!World, Panel!Versions
    <3>4. reviews' \in Panel!NotAssigned..Reviewers
      BY <1>1, <3>2 DEF Panel!World, Panel!NotAssigned
    <3>5. open' \in BOOLEAN
      <4>1. open' = open \/ open' = FALSE
        BY <1>1, Zenon DEF Panel!World
      <4>. QED
        BY <4>1
    <3>6. ASSUME Panel!Allowed PROVE Panel!Allowed'
      <4>1. \/ override' = override /\ reviews' = reviews
            \/ override' = TRUE
            \/ override' = override /\ reviews # 0
        BY <1>1, <3>2 DEF Panel!World, Panel!NotAssigned
      <4>. QED
        BY <3>6, <4>1 DEF Panel!Allowed
    <3>. QED
      BY <3>1, <3>3, <3>4, <3>5, <3>6
  <2>2. view # None => PanelView(view)'
    <3>1. view # None => \A v : v = view => PanelView(v)'
      BY <2>1, PanelViewStays
    <3>. QED
      BY <2>1, <3>1 DEF PanelView
  <2>3. \A q \in wire : PanelAsk(q)'
    BY <2>1, PanelViewStays
  <2>. QED
    BY <2>1, <2>2, <2>3 DEF Panel!NotesStay
<1>2. ASSUME NEW v \in Panel!Versions, Panel!Expire(v) PROVE PanelInv'
  <2>1. /\ UNCHANGED <<open, rev, reviews, override, stored, view, draft, busy, due, hot, wire>>
        /\ ai' = [ai EXCEPT ![v] = "expired"]
    BY <1>2 DEF Panel!Expire, Panel!round
  <2>2. ai' \in [Panel!Versions -> Panel!Status]
    BY <2>1 DEF Panel!Status
  <2>. QED
    BY <2>1, <2>2 DEF Panel!NotesStay, PanelView, PanelAsk, Panel!Allowed
<1>. QED
  BY <1>1, <1>2

\* Requests that the page sends.
LEMMA PanelSends ==
  ASSUME PagesAssumption, PanelInv,
         Panel!Poll \/ Panel!Effect \/ Panel!Cool \/ Panel!Retry \/ Panel!saveNote
  PROVE  PanelInv'
<1>. USE DEF PanelInv, Panel!TypeOK, Panel!effect, Panel!server, Panel!round
<1>1. view # None => view.rev \in 1..PanelRev
  BY DEF PanelView, Panel!Views, Panel!Versions
<1>2. ASSUME NEW new \in PanelAsks, PanelAsk(new), wire' = wire \cup {new},
             UNCHANGED <<open, rev, reviews, override, ai, stored, view, draft>>,
             due' => due, busy' \in BOOLEAN, busy' => busy \/ new.of = "ask"
      PROVE  PanelInv'
  <2>1. (\A q \in wire : PanelAsk(q)') /\ PanelAsk(new)'
    BY <1>2 DEF PanelView, PanelAsk, Panel!Allowed
  <2>. QED
    BY <1>2, <2>1 DEF Panel!NotesStay, PanelView, Panel!Allowed
<1>3. ASSUME UNCHANGED <<open, rev, reviews, override, ai, stored, view, draft, busy, wire>>,
             due' => due
      PROVE  PanelInv'
  BY <1>3 DEF Panel!NotesStay, PanelView, PanelAsk, Panel!Allowed
<1>4. ASSUME NEW v \in 1..PanelRev
      PROVE  /\ Panel!Request("ask", "ask", v, 0) \in PanelAsks
             /\ PanelAsk(Panel!Request("ask", "ask", v, 0))
             /\ Panel!Request("ask", "ask", v, 0).of = "ask"
  BY DEF Panel!Request, PanelAsks, Rows, PanelAsk
<1>5. CASE Panel!Poll
  <2>1. Panel!Load("poll") \in PanelAsks /\ PanelAsk(Panel!Load("poll"))
    BY DEF PanelAsks, Rows, PanelAsk, Panel!Load, Panel!Request
  <2>. QED
    BY <1>2, <1>5, <2>1 DEF Panel!Poll
<1>6. CASE Panel!Effect
  <2>1. CASE Panel!execute(view.rev)
    BY <1>1, <1>2, <1>4, <1>6, <2>1 DEF Panel!Effect, Panel!execute
  <2>2. CASE UNCHANGED <<hot, busy, wire>>
    BY <1>3, <1>6, <2>2 DEF Panel!Effect
  <2>. QED
    BY <1>6, <2>1, <2>2 DEF Panel!Effect
<1>7. CASE Panel!Cool
  BY <1>3, <1>7 DEF Panel!Cool
<1>8. CASE Panel!Retry
  BY <1>1, <1>2, <1>4, <1>8 DEF Panel!Retry, Panel!execute
<1>9. CASE Panel!saveNote
  <2>. DEFINE new == Panel!Request("note", "note", view.rev, Panel!note)
  <2>1. view # None /\ wire' = wire \cup {new}
        /\ UNCHANGED <<open, rev, reviews, override, ai, stored, view, draft, busy, due>>
    BY <1>9 DEF Panel!saveNote, Panel!Form
  <2>2. Panel!note \in {0, view.rev}
    BY <2>1 DEF Panel!note, PanelView
  <2>3. new \in PanelAsks /\ PanelAsk(new)
    BY <1>1, <2>1, <2>2 DEF Panel!Request, PanelAsks, Rows, PanelAsk
  <2>. HIDE DEF new
  <2>. QED
    BY <1>2, <2>1, <2>3
<1>. QED
  BY <1>5, <1>6, <1>7, <1>8, <1>9

LEMMA PanelTypes ==
  ASSUME PagesAssumption, PanelInv, NEW n \in Panel!Notes, Panel!Type(n)
  PROVE  PanelInv'
<1>. USE DEF PanelInv, Panel!TypeOK, Panel!effect, Panel!server, Panel!round
<1>1. /\ view # None /\ n \in {view.rev, Panel!note} /\ draft' = [ver |-> view.rev, note |-> n]
      /\ UNCHANGED <<open, rev, reviews, override, ai, stored, view, busy, due, wire>>
  BY DEF Panel!Type, Panel!Form
<1>2. view.rev \in 1..PanelRev /\ Panel!note \in {0, view.rev}
  BY <1>1 DEF Panel!note, PanelView, Panel!Views, Panel!Versions
<1>. QED
  BY <1>1, <1>2 DEF Panel!NotesStay, PanelView, PanelAsk, Panel!Allowed

\* The routes: a request is moved on, and stays what it is.
LEMMA PanelServes ==
  ASSUME PagesAssumption, PanelInv, NEW q \in wire,
         Panel!Serve(q) \/ \E st \in {"failed", "queued"} : Panel!Fail(q, st)
  PROVE  PanelInv'
<1>. USE DEF Panel!round
<1>1. q \in PanelAsks /\ PanelAsk(q)
  BY DEF PanelInv
<1>2. UNCHANGED <<open, rev, reviews, override, view, draft, busy, due, hot>>
  BY DEF Panel!Serve, Panel!Fail, Panel!effect
<1>3. /\ Panel!Versions = 1..PanelRev /\ rev \in 1..PanelRev /\ PanelRev \in Nat
      /\ open \in BOOLEAN /\ ai \in [1..PanelRev -> Panel!Status]
      /\ stored \in [1..PanelRev -> 0..PanelRev] /\ Panel!NotesStay
  BY DEF PanelInv, Panel!TypeOK, Panel!Versions, PagesAssumption
<1>4. \E new \in PanelAsks : /\ wire' = (wire \ {q}) \cup {new}
                             /\ PanelAsk(new) /\ new.of = q.of
  <2>1. ASSUME NEW ok \in BOOLEAN, q.kind # "load",
               wire' = (wire \ {q}) \cup {[q EXCEPT !.stage = "done", !.ok = ok, !.view = None]}
        PROVE  \E new \in PanelAsks : /\ wire' = (wire \ {q}) \cup {new}
                                      /\ PanelAsk(new) /\ new.of = q.of
    <3>. DEFINE new == [q EXCEPT !.stage = "done", !.ok = ok, !.view = None]
    <3>1. new \in PanelAsks /\ PanelAsk(new) /\ new.of = q.of
      BY <1>1, <2>1 DEF PanelAsks, Rows, PanelAsk
    <3>. QED
      BY <2>1, <3>1
  <2>2. CASE Panel!ReadVersions(q)
    <3>1. PICK v : v = [open |-> open, rev |-> rev, ai |-> ai[rev], note |-> stored[rev], can |-> FALSE]
      OBVIOUS
    <3>2. v \in Panel!Views /\ v.note \in {0, v.rev} /\ v.can = FALSE
      <4>1. stored[rev] \in {0, rev} /\ stored[rev] \in Panel!Notes /\ ai[rev] \in Panel!Status
        BY <1>3 DEF Panel!NotesStay, Panel!Notes
      <4>. QED
        BY <1>3, <3>1, <4>1 DEF Panel!Views
    <3>3. PICK new : /\ new = [q EXCEPT !.stage = "half", !.view = v]
                     /\ wire' = (wire \ {q}) \cup {new} /\ q.kind = "load"
      BY <2>2, <3>1 DEF Panel!ReadVersions
    <3>4. new \in PanelAsks /\ new.of = q.of /\ new.view = v /\ new.kind = "load"
      BY <1>1, <3>2, <3>3 DEF PanelAsks, Rows
    <3>. QED
      BY <3>2, <3>3, <3>4 DEF PanelAsk, PanelView
  <2>3. CASE Panel!ReadReviews(q)
    <3>1. q.kind = "load" /\ PanelView(q.view) /\ q.view \in Panel!Views
      BY <1>1, <2>3 DEF Panel!ReadReviews, PanelAsk, PanelView
    <3>2. PICK v : v = [q.view EXCEPT !.can = Panel!canRevise(q.view.open)]
      OBVIOUS
    <3>3. /\ v \in Panel!Views /\ v.note = q.view.note /\ v.rev = q.view.rev
          /\ v.can => Panel!Allowed
      BY <3>1, <3>2 DEF Panel!Views, Panel!canRevise, Panel!Allowed
    <3>4. PICK new : /\ new = [q EXCEPT !.stage = "done", !.ok = TRUE, !.view = v]
                     /\ wire' = (wire \ {q}) \cup {new}
      BY <2>3, <3>2 DEF Panel!ReadReviews, Panel!Answered
    <3>5. new \in PanelAsks /\ new.of = q.of /\ new.view = v /\ new.kind = "load"
      BY <1>1, <3>1, <3>3, <3>4 DEF PanelAsks, Rows
    <3>. QED
      BY <3>1, <3>3, <3>4, <3>5 DEF PanelAsk, PanelView
  <2>4. CASE Panel!SaveNote(q)
    BY <1>3, <2>1, <2>4 DEF Panel!SaveNote, Panel!Answered
  <2>5. CASE Panel!Claim(q)
    <3>1. q.kind = "ask"
      BY <2>5 DEF Panel!Claim
    <3>2. CASE wire' = Panel!Answered(q, open, None)
      BY <1>3, <2>1, <3>1, <3>2 DEF Panel!Answered
    <3>3. CASE wire' = (wire \ {q}) \cup {[q EXCEPT !.stage = "work"]}
      <4>1. [q EXCEPT !.stage = "work"] \in PanelAsks /\ PanelAsk([q EXCEPT !.stage = "work"])
            /\ [q EXCEPT !.stage = "work"].of = q.of
        BY <1>1, <3>1 DEF PanelAsks, Rows, PanelAsk
      <4>. QED
        BY <3>3, <4>1
    <3>. QED
      BY <2>5, <3>2, <3>3 DEF Panel!Claim
  <2>6. CASE Panel!Complete(q) \/ \E st \in {"failed", "queued"} : Panel!Fail(q, st)
    <3>1. q.kind # "load" /\ wire' = Panel!Answered(q, TRUE, None)
      BY <1>1, <2>6 DEF Panel!Complete, Panel!Fail, PanelAsks, Rows
    <3>. QED
      BY <2>1, <3>1 DEF Panel!Answered
  <2>. QED
    BY <2>2, <2>3, <2>4, <2>5, <2>6 DEF Panel!Serve
<1>5. /\ ai' \in [Panel!Versions -> Panel!Status]
      /\ stored' \in [1..PanelRev -> 0..PanelRev] /\ Panel!NotesStay'
  <2>1. q.kind \in {"ask", "note"} => q.ver \in 1..PanelRev
    BY <1>1 DEF PanelAsks, Rows
  <2>2. q.kind = "note" => q.note \in {0, q.ver}
    BY <1>1 DEF PanelAsk
  <2>3. q.stage = "work" => q.kind = "ask"
    BY <1>1 DEF PanelAsks, Rows
  <2>4. CASE Panel!ReadVersions(q) \/ Panel!ReadReviews(q)
    BY <2>4 DEF Panel!ReadVersions, Panel!ReadReviews, PanelInv, Panel!TypeOK, Panel!NotesStay
  <2>5. CASE Panel!SaveNote(q)
    <3>1. /\ q.kind = "note" /\ ai' = ai
          /\ stored' = stored \/ stored' = [stored EXCEPT ![q.ver] = q.note]
      BY <2>5 DEF Panel!SaveNote
    <3>. QED
      BY <1>3, <2>1, <2>2, <3>1 DEF PanelInv, Panel!TypeOK, Panel!NotesStay
  <2>6. CASE \/ Panel!Claim(q) \/ Panel!Complete(q)
             \/ \E st \in {"failed", "queued"} : Panel!Fail(q, st)
    <3>1. /\ stored' = stored /\ q.ver \in 1..PanelRev
          /\ ai' = ai \/ \E st \in Panel!Status : ai' = [ai EXCEPT ![q.ver] = st]
      BY <2>1, <2>3, <2>6 DEF Panel!Claim, Panel!Complete, Panel!Fail, Panel!Status
    <3>. QED
      BY <1>3, <3>1 DEF PanelInv, Panel!TypeOK, Panel!NotesStay
  <2>. QED
    BY <2>4, <2>5, <2>6 DEF Panel!Serve
<1>6. PICK new \in PanelAsks : /\ wire' = (wire \ {q}) \cup {new}
                               /\ PanelAsk(new) /\ new.of = q.of
  BY <1>4
<1>7. Panel!Allowed => Panel!Allowed'
  BY <1>2 DEF Panel!Allowed
<1>8. /\ \A r \in wire' : PanelAsk(r)'
      /\ wire' \subseteq PanelAsks
      /\ (\E r \in wire : r.of = "ask") => \E r \in wire' : r.of = "ask"
  BY <1>6, <1>7, PanelViewStays DEF PanelInv
<1>9. view' # None => PanelView(view)'
  BY <1>2 DEF PanelInv, PanelView, Panel!Allowed
<1>. QED
  BY <1>2, <1>5, <1>8, <1>9 DEF PanelInv, Panel!TypeOK

LEMMA PanelHears ==
  ASSUME PagesAssumption, PanelInv, NEW q \in wire, Panel!Got(q) \/ Panel!Lose(q)
  PROVE  PanelInv'
<1>. USE DEF Panel!server, Panel!round, Panel!effect
<1>1. q \in PanelAsks /\ PanelAsk(q)
  BY DEF PanelInv
<1>2. UNCHANGED <<open, rev, reviews, override, ai, stored, draft>>
  BY DEF Panel!Got, Panel!Lose
<1>3. /\ \/ wire' = wire \ {q} /\ busy' = IF q.of = "ask" THEN FALSE ELSE busy
         \/ q.kind # "load" /\ wire' = (wire \ {q}) \cup {Panel!Load(q.of)} /\ busy' = busy
      /\ \/ view' = view /\ due' = due
         \/ q.kind = "load" /\ q.stage = "done" /\ view' = q.view
  BY DEF Panel!Got, Panel!Lose, Panel!GotLoad, Panel!GotOk, Panel!GotRefusal, Panel!Release,
     Panel!setView
<1>4. Panel!Load(q.of) \in PanelAsks /\ PanelAsk(Panel!Load(q.of)) /\ Panel!Load(q.of).of = q.of
  BY <1>1 DEF PanelAsks, Rows, PanelAsk, Panel!Load, Panel!Request
<1>5. /\ view' # None => PanelView(view')
      /\ due' => view' # None
      /\ view' \in Panel!Views \cup {None}
  <2>1. CASE view' = view /\ due' = due
    BY <2>1 DEF PanelInv, Panel!TypeOK
  <2>2. CASE q.kind = "load" /\ q.stage = "done" /\ view' = q.view
    BY <1>1, <2>2 DEF PanelAsk, PanelView, PagesAssumption
  <2>. QED
    BY <1>3, <2>1, <2>2
<1>6. Panel!Allowed => Panel!Allowed'
  BY <1>2 DEF Panel!Allowed
<1>7. /\ \A r \in wire' : PanelAsk(r)'
      /\ wire' \subseteq PanelAsks
  BY <1>3, <1>4, <1>6, PanelViewStays DEF PanelInv
<1>8. busy' \in BOOLEAN /\ (busy' => \E r \in wire' : r.of = "ask")
  <2>1. busy' \in BOOLEAN /\ (busy' => busy)
    <3>1. busy \in BOOLEAN
      BY DEF PanelInv
    <3>2. CASE busy' = FALSE
      BY <3>2
    <3>3. CASE busy' = busy
      BY <3>1, <3>3
    <3>. QED
      BY <1>3, <3>2, <3>3
  <2>2. ASSUME busy' PROVE \E r \in wire' : r.of = "ask"
    <3>1. PICK r \in wire : r.of = "ask"
      BY <2>1, <2>2 DEF PanelInv, Panel!TypeOK
    <3>2. CASE r = q
      BY <1>3, <1>4, <2>2, <3>1, <3>2
    <3>3. CASE r # q
      BY <1>3, <3>1, <3>3
    <3>. QED
      BY <3>2, <3>3
  <2>. QED
    BY <2>1, <2>2
<1>9. view' # None => PanelView(view)'
  BY <1>2, <1>5 DEF PanelView, Panel!Allowed
<1>. QED
  BY <1>2, <1>5, <1>7, <1>8, <1>9 DEF PanelInv, Panel!TypeOK, Panel!NotesStay

LEMMA PanelStep == PagesAssumption /\ PanelInv /\ [Panel!Next]_(Panel!vars) => PanelInv'
<1>. SUFFICES ASSUME PagesAssumption, PanelInv, [Panel!Next]_(Panel!vars) PROVE PanelInv'
  OBVIOUS
<1>1. CASE UNCHANGED Panel!vars
  BY <1>1 DEF Panel!vars, Panel!server, Panel!round, Panel!effect, PanelInv, Panel!TypeOK,
     Panel!NotesStay, PanelView, PanelAsk, Panel!Allowed
<1>2. CASE Panel!Next
  <2>1. CASE Panel!World \/ \E v \in Panel!Versions : Panel!Expire(v)
    BY <2>1, PanelWorld
  <2>2. CASE Panel!Poll \/ Panel!Effect \/ Panel!Cool \/ Panel!Retry \/ Panel!saveNote
    BY <2>2, PanelSends
  <2>3. CASE \E n \in Panel!Notes : Panel!Type(n)
    BY <2>3, PanelTypes
  <2>4. CASE \E q \in wire : Panel!Serve(q) \/ \E st \in {"failed", "queued"} : Panel!Fail(q, st)
    BY <2>4, PanelServes
  <2>5. CASE \E q \in wire : Panel!Got(q) \/ Panel!Lose(q)
    BY <2>5, PanelHears
  <2>. QED
    BY <1>2, <2>1, <2>2, <2>3, <2>4, <2>5, Zenon DEF Panel!Next
<1>. QED
  BY <1>1, <1>2

LEMMA PanelHolds == PanelInv => Panel!TypeOK /\ Panel!NotesStay /\ Panel!OfferedIsAllowed
BY DEF PanelInv, PanelView, Panel!OfferedIsAllowed, Panel!Offered

-----------------------------------------------------------------------------
(* The board of ideas: what it shows as reviewed has been reviewed.         *)

ExploreAsks ==
  [kind : {"board", "vote"}, as : {student, None}, entry : Ideas \cup {None},
   done : BOOLEAN, board : Explore!Boards \cup {None}]
\* A board that some answer may show.
ShownBoard(b) == b # None => b.done \subseteq done[student]

ExploreInv ==
  /\ Explore!TypeOK /\ IsFiniteSet(wire)
  /\ who \in {student, None}
  /\ ShownBoard(board)
  /\ wire \subseteq ExploreAsks
  /\ \A q \in wire : /\ ShownBoard(q.board)
                     /\ q.kind = "vote" => q.entry \in Ideas

LEMMA ExploreInit == PagesAssumption /\ Explore!Init => ExploreInv
<1>. SUFFICES ASSUME PagesAssumption, Explore!Init PROVE ExploreInv
  OBVIOUS
<1>1. IsFiniteSet({}) /\ Cardinality({}) = 0
  BY FS_EmptySet
<1>2. Cardinality(wire) = 0 /\ BoardWire \in Nat
  BY <1>1 DEF Explore!Init, PagesAssumption
<1>3. Explore!TypeOK
  BY <1>2, PageCardinality DEF Explore!Init, Explore!TypeOK
<1>. QED
  BY <1>1, <1>3 DEF Explore!Init, ExploreInv, ShownBoard

LEMMA BoardsStay ==
  ASSUME done[student] \subseteq done'[student]
  PROVE  \A b : ShownBoard(b) => (b # None => b.done \subseteq done'[student])
BY DEF ShownBoard

\* One more request.
LEMMA ExploreRoom ==
  ASSUME PagesAssumption, ExploreInv, Explore!Room, NEW r
  PROVE  IsFiniteSet(wire \cup {r}) /\ Cardinality(wire \cup {r}) <= BoardWire
BY OneMore, PageCardinality DEF ExploreInv, Explore!Room, PagesAssumption

LEMMA ExploreRequest ==
  ASSUME PagesAssumption, ExploreInv, NEW e \in Ideas \cup {None}
  PROVE  /\ Explore!Request("board", e) \in ExploreAsks
         /\ Explore!Request("vote", e) \in ExploreAsks
         /\ Explore!Request("board", e).entry = e /\ Explore!Request("vote", e).entry = e
         /\ Explore!Request("board", e).kind = "board"
         /\ ShownBoard(Explore!Request("board", e).board)
         /\ ShownBoard(Explore!Request("vote", e).board)
BY DEF ExploreInv, Explore!Request, ExploreAsks, ShownBoard

\* Students and teachers elsewhere, and what the hook hears.
LEMMA ExploreWorld ==
  ASSUME PagesAssumption, ExploreInv,
         \/ Explore!OpenReview \/ Explore!CloseRound \/ Explore!Poll \/ Explore!Leave
         \/ \E s \in {student} : Explore!Enter(s) \/ \E e \in Ideas : Explore!Review(s, e)
  PROVE  ExploreInv'
<1>1. UNCHANGED <<board, boardLoading, boardError, pending, wire, faults, votes>>
  BY DEF Explore!OpenReview, Explore!CloseRound, Explore!Poll, Explore!Leave, Explore!Enter,
     Explore!Review, Explore!page, Explore!server, Explore!hook
<1>2. /\ done' \in [{student} -> SUBSET Ideas] /\ done[student] \subseteq done'[student]
      /\ who' \in {student, None}
      /\ due' => Explore!Shown'
  <2>1. CASE \E e \in Ideas : Explore!Review(student, e)
    BY <2>1 DEF ExploreInv, Explore!TypeOK, Explore!Review, Explore!hook, Explore!Shown
  <2>2. CASE Explore!OpenReview \/ Explore!CloseRound
    BY <2>2 DEF ExploreInv, Explore!TypeOK, Explore!OpenReview, Explore!CloseRound,
       Explore!hook, Explore!Shown
  <2>3. CASE Explore!Poll \/ Explore!Leave
    BY <2>3 DEF ExploreInv, Explore!TypeOK, Explore!Poll, Explore!Leave, Explore!Sees,
       Explore!server, Explore!Shown
  <2>4. CASE Explore!Enter(student)
    BY <2>4 DEF ExploreInv, Explore!TypeOK, Explore!Enter, Explore!Sees, Explore!server,
       Explore!Shown, PagesAssumption
  <2>. QED
    BY <2>1, <2>2, <2>3, <2>4
<1>3. ShownBoard(board)' /\ \A q \in wire' : ShownBoard(q.board)'
  BY <1>1, <1>2, BoardsStay DEF ExploreInv, ShownBoard
<1>. QED
  BY <1>1, <1>2, <1>3 DEF ExploreInv, Explore!TypeOK, Explore!Cardinality

\* Requests that the page sends, alone or in the place of another one.
LEMMA ExploreSent ==
  ASSUME PagesAssumption, ExploreInv, NEW r \in ExploreAsks,
         ShownBoard(r.board), r.kind = "vote" => r.entry \in Ideas,
         NEW gone \in SUBSET wire,
         wire' = (wire \ gone) \cup {r}, IsFiniteSet(wire'), Cardinality(wire') <= BoardWire,
         \A q \in gone : q.entry = r.entry \/ q.entry \notin pending',
         pending' \subseteq pending \cup {r.entry}, pending' \subseteq Ideas,
         UNCHANGED <<open, review, votes, done, who, round>>, due' => due,
         board' = board
  PROVE  ExploreInv'
<1>1. \A e \in pending' : \E q \in wire' : q.entry = e
  <2>. TAKE e \in pending'
  <2>1. CASE e = r.entry
    BY <2>1
  <2>2. CASE e # r.entry
    BY <2>2 DEF ExploreInv, Explore!TypeOK
  <2>. QED
    BY <2>1, <2>2
<1>2. \A q \in wire' : ShownBoard(q.board)'
  BY DEF ExploreInv, ShownBoard
<1>3. Cardinality(wire)' <= BoardWire
  BY DEF Cardinality
<1>. QED
  BY <1>1, <1>2, <1>3, PageCardinality DEF ExploreInv, Explore!TypeOK, ShownBoard, Explore!Shown

LEMMA ExploreSends ==
  ASSUME PagesAssumption, ExploreInv,
         \/ Explore!LoadBoard \/ Explore!Refresh \/ \E e \in Ideas : Explore!handleVote(e)
  PROVE  ExploreInv'
<1>. USE DEF Explore!server, Explore!hook, Explore!StartLoad
<1>1. pending \subseteq Ideas
  BY DEF ExploreInv, Explore!TypeOK
<1>2. CASE Explore!LoadBoard \/ Explore!Refresh
  <2>. DEFINE r == Explore!Request("board", None)
  <2>1. /\ Explore!Room /\ wire' = (wire \ {}) \cup {r}
        /\ UNCHANGED <<open, review, votes, done, who, round, board, pending>>
        /\ due' => due
    BY <1>2 DEF Explore!LoadBoard, Explore!Refresh
  <2>2. r \in ExploreAsks /\ r.kind = "board" /\ ShownBoard(r.board)
    BY ExploreRequest
  <2>3. IsFiniteSet(wire') /\ Cardinality(wire') <= BoardWire
    BY <2>1, ExploreRoom
  <2>. DEFINE gone == {}
  <2>4. /\ gone \in SUBSET wire /\ wire' = (wire \ gone) \cup {r}
        /\ \A z \in gone : z.entry = r.entry \/ z.entry \notin pending'
        /\ pending' \subseteq pending \cup {r.entry} /\ pending' \subseteq Ideas
        /\ due' => due
        /\ r.kind = "vote" => r.entry \in Ideas
    BY <1>1, <2>1, <2>2
  <2>. HIDE DEF r, gone
  <2>. QED
    BY <2>1, <2>2, <2>3, <2>4, ExploreSent
<1>3. ASSUME NEW e \in Ideas, Explore!handleVote(e) PROVE ExploreInv'
  <2>. DEFINE r == Explore!Request("vote", e)
  <2>1. /\ Explore!Room /\ wire' = (wire \ {}) \cup {r} /\ pending' = pending \cup {e}
        /\ UNCHANGED <<open, review, votes, done, who, round, due, board>>
    BY <1>3 DEF Explore!handleVote
  <2>2. r \in ExploreAsks /\ r.entry = e /\ ShownBoard(r.board)
    BY ExploreRequest
  <2>3. IsFiniteSet(wire') /\ Cardinality(wire') <= BoardWire
    BY <2>1, ExploreRoom
  <2>. DEFINE gone == {}
  <2>4. /\ gone \in SUBSET wire /\ wire' = (wire \ gone) \cup {r}
        /\ \A z \in gone : z.entry = r.entry \/ z.entry \notin pending'
        /\ pending' \subseteq pending \cup {r.entry} /\ pending' \subseteq Ideas
        /\ due' => due
        /\ r.kind = "vote" => r.entry \in Ideas
    BY <1>1, <2>1, <2>2
  <2>. HIDE DEF r, gone
  <2>. QED
    BY <2>1, <2>2, <2>3, <2>4, ExploreSent
<1>. QED
  BY <1>2, <1>3

LEMMA ExploreReplaced ==
  ASSUME PagesAssumption, ExploreInv, NEW q \in wire, NEW r
  PROVE  /\ IsFiniteSet((wire \ {q}) \cup {r})
         /\ Cardinality((wire \ {q}) \cup {r}) <= BoardWire
         /\ IsFiniteSet(wire \ {q}) /\ Cardinality(wire \ {q}) <= BoardWire
<1>1. IsFiniteSet(wire) /\ Cardinality(wire) <= BoardWire /\ BoardWire \in Nat
  BY PageCardinality DEF ExploreInv, Explore!TypeOK, PagesAssumption
<1>2. wire \ {q} \in SUBSET wire
  OBVIOUS
<1>. QED
  BY <1>1, <1>2, NotMore

LEMMA ExploreServe ==
  ASSUME PagesAssumption, ExploreInv, NEW q \in wire, Explore!Serve(q)
  PROVE  ExploreInv'
<1>. DEFINE Ok == q.as # None /\ open /\ review
            Seen == IF Ok THEN [votes |-> votes[q.as], done |-> done[q.as]] ELSE None
<1>1. q \in ExploreAsks /\ (q.kind = "vote" => q.entry \in Ideas) /\ ShownBoard(q.board)
  BY DEF ExploreInv
<1>2. /\ votes \in [{student} -> SUBSET Ideas] /\ done \in [{student} -> SUBSET Ideas]
  BY DEF ExploreInv, Explore!TypeOK
<1>3. Seen \in Explore!Boards \cup {None} /\ ShownBoard(Seen)
  BY <1>1, <1>2 DEF Explore!Boards, ExploreAsks, ShownBoard
<1>4. PICK new : /\ new = [q EXCEPT !.done = TRUE, !.board = Seen]
                 /\ wire' = (wire \ {q}) \cup {new}
  BY DEF Explore!Serve
<1>5. /\ UNCHANGED <<open, review, done, who, round, due, board, pending>>
      /\ votes' \in [{student} -> SUBSET Ideas]
  <2>1. Explore!Toggle(votes[q.as], q.entry) \in SUBSET Ideas \/ ~ (Ok /\ q.kind = "vote")
    BY <1>1, <1>2 DEF Explore!Toggle, ExploreAsks
  <2>2. votes' = votes \/ (Ok /\ q.kind = "vote"
          /\ votes' = [votes EXCEPT ![q.as] = Explore!Toggle(votes[q.as], q.entry)])
    BY DEF Explore!Serve
  <2>. QED
    BY <1>2, <2>1, <2>2 DEF Explore!Serve, Explore!hook, Explore!page
<1>. HIDE DEF Seen, Ok
<1>6. new \in ExploreAsks /\ new.entry = q.entry /\ new.kind = q.kind /\ new.board = Seen
  BY <1>1, <1>3, <1>4 DEF ExploreAsks
<1>7. IsFiniteSet(wire') /\ Cardinality(wire') <= BoardWire
  BY <1>4, ExploreReplaced
<1>8. \A e \in pending' : \E r \in wire' : r.entry = e
  <2>. TAKE e \in pending'
  <2>1. PICK r \in wire : r.entry = e
    BY <1>5 DEF ExploreInv, Explore!TypeOK
  <2>. QED
    BY <1>4, <1>6, <2>1
<1>9. \A r \in wire' : ShownBoard(r.board)' /\ (r.kind = "vote" => r.entry \in Ideas)
  BY <1>1, <1>3, <1>4, <1>5, <1>6 DEF ExploreInv, ShownBoard
<1>10. Explore!Cardinality(wire)' <= BoardWire
  BY <1>7 DEF Explore!Cardinality, Cardinality
<1>. QED
  BY <1>4, <1>5, <1>6, <1>7, <1>8, <1>9, <1>10
     DEF ExploreInv, Explore!TypeOK, Explore!Shown, ShownBoard

LEMMA ExploreHears ==
  ASSUME PagesAssumption, ExploreInv, NEW q \in wire, Explore!Got(q) \/ Explore!Lose(q)
  PROVE  ExploreInv'
<1>. USE DEF Explore!server, Explore!hook, Explore!Unlock, Explore!StartLoad
<1>1. q \in ExploreAsks /\ (q.kind = "vote" => q.entry \in Ideas) /\ ShownBoard(q.board)
  BY DEF ExploreInv
<1>2. CASE q.kind = "vote" /\ wire' = (wire \ {q}) \cup {Explore!Request("board", q.entry)}
           /\ Explore!Got(q)
  <2>. DEFINE r == Explore!Request("board", q.entry)
  <2>1. /\ wire' = (wire \ {q}) \cup {r}
        /\ UNCHANGED <<open, review, votes, done, who, round, due, board>>
        /\ pending' \subseteq pending /\ pending \subseteq Ideas
    BY <1>2 DEF Explore!Got, Explore!GotVote, Explore!GotBoard, ExploreInv, Explore!TypeOK
  <2>2. r \in ExploreAsks /\ r.kind = "board" /\ r.entry = q.entry /\ ShownBoard(r.board)
    BY <1>1, <1>2, ExploreRequest
  <2>3. IsFiniteSet(wire') /\ Cardinality(wire') <= BoardWire
    BY <2>1, ExploreReplaced
  <2>. DEFINE gone == {q}
  <2>4. /\ gone \in SUBSET wire /\ wire' = (wire \ gone) \cup {r}
        /\ \A z \in gone : z.entry = r.entry \/ z.entry \notin pending'
        /\ pending' \subseteq pending \cup {r.entry} /\ pending' \subseteq Ideas
        /\ due' => due
        /\ r.kind = "vote" => r.entry \in Ideas
    BY <2>1, <2>2
  <2>. HIDE DEF r, gone
  <2>. QED
    BY <2>1, <2>2, <2>3, <2>4, ExploreSent
<1>3. CASE wire' = wire \ {q} /\ pending' = pending \ {q.entry}
  <2>1. UNCHANGED <<open, review, votes, done, who, round, due>>
    BY DEF Explore!Got, Explore!Lose
  <2>2. board' = board \/ board' = q.board
    BY DEF Explore!Got, Explore!GotVote, Explore!GotBoard, Explore!Lose
  <2>3. board' \in Explore!Boards \cup {None} /\ ShownBoard(board')
    BY <1>1, <2>2 DEF ExploreInv, Explore!TypeOK, ExploreAsks
  <2>4. \A e \in pending' : \E r \in wire' : r.entry = e
    BY <1>3 DEF ExploreInv, Explore!TypeOK
  <2>5. IsFiniteSet(wire') /\ Cardinality(wire') <= BoardWire
    BY <1>3, ExploreReplaced
  <2>6. Explore!Cardinality(wire)' <= BoardWire
    BY <2>5 DEF Explore!Cardinality, Cardinality
  <2>7. \A r \in wire' : ShownBoard(r.board)' /\ (r.kind = "vote" => r.entry \in Ideas)
    BY <1>3, <2>1 DEF ExploreInv, ShownBoard
  <2>8. ShownBoard(board)'
    BY <2>1, <2>3 DEF ShownBoard
  <2>. QED
    BY <1>3, <2>1, <2>3, <2>4, <2>5, <2>6, <2>7, <2>8
       DEF ExploreInv, Explore!TypeOK, Explore!Shown
<1>. QED
  BY <1>2, <1>3 DEF Explore!Got, Explore!Lose, Explore!GotBoard, Explore!GotVote

LEMMA ExploreStep == PagesAssumption /\ ExploreInv /\ [Explore!Next]_(Explore!vars) => ExploreInv'
<1>. SUFFICES ASSUME PagesAssumption, ExploreInv, [Explore!Next]_(Explore!vars) PROVE ExploreInv'
  OBVIOUS
<1>1. CASE UNCHANGED Explore!vars
  BY <1>1 DEF Explore!vars, Explore!server, Explore!hook, Explore!page, ExploreInv,
     Explore!TypeOK, ShownBoard, Explore!Shown, Explore!Cardinality
<1>2. CASE Explore!Next
  <2>1. CASE \/ Explore!OpenReview \/ Explore!CloseRound \/ Explore!Poll \/ Explore!Leave
             \/ \E s \in {student} : Explore!Enter(s) \/ \E e \in Ideas : Explore!Review(s, e)
    BY <2>1, ExploreWorld
  <2>2. CASE \/ Explore!LoadBoard \/ Explore!Refresh \/ \E e \in Ideas : Explore!handleVote(e)
    BY <2>2, ExploreSends
  <2>3. CASE \E q \in wire : Explore!Serve(q) \/ Explore!Got(q) \/ Explore!Lose(q)
    BY <2>3, ExploreServe, ExploreHears
  <2>. QED
    BY <1>2, <2>1, <2>2, <2>3, Zenon DEF Explore!Next
<1>. QED
  BY <1>1, <1>2

LEMMA ExploreHolds == ExploreInv => Explore!TypeOK /\ Explore!PracticeEarned
<1>. SUFFICES ASSUME ExploreInv, Explore!Practice PROVE done[who] = Ideas
  BY DEF ExploreInv, Explore!PracticeEarned
<1>1. who = student /\ board # None /\ board.done = Ideas /\ done[student] \subseteq Ideas
  BY DEF ExploreInv, Explore!Practice, Explore!Shown, Explore!allEvaluated, Explore!TypeOK
<1>. QED
  BY <1>1 DEF ExploreInv, ShownBoard

-----------------------------------------------------------------------------
(* The chooser: the list that is shown was asked for by who is logged in.   *)

ChooserAsks ==
  [kind : {"me", "list", "login", "logout"}, as : 0..ChooserLogins,
   sub : {"none", "ok", "session", "closed"}, exp : {"none"}, who : Choosers \cup {None},
   old : {None}, new : Choosers \cup {None}, text : {None}, set : 0..ChooserLogins,
   stale : BOOLEAN]

ChooserAsk(q) ==
  /\ q.as <= logins
  /\ q.kind = "me" => checking /\ q.as = 0 /\ q.sub # "ok"
  /\ q.kind = "login" =>
       /\ ~ loggedIn /\ ~ checking /\ loading /\ q.new \in Choosers
       /\ q.sub = "ok" => q.set \in 1..logins /\ owner[q.set] \in {q.new, None}
  /\ q.kind = "list" /\ ~ q.stale =>
       /\ loggedIn /\ begun /\ Chooser!Who(q.as) \in {label, None}
       /\ q.sub = "ok" => q.who = label

\* Nothing is tried out on a page that was opened to choose.
NothingTried ==
  /\ stored \in [Choosers -> Chooser!Reviews \cup {None}]
  /\ loadError \in Chooser!Errors /\ form = None /\ submitted = FALSE /\ thanked = None
  /\ submission = FALSE

ChooserInv ==
  /\ NothingTried /\ IsFiniteSet(wire) /\ Cardinality(wire) <= ChooserWire
  /\ checking \in BOOLEAN /\ loggedIn \in BOOLEAN /\ begun \in BOOLEAN
  /\ listing \in BOOLEAN /\ listError \in BOOLEAN
  /\ label \in Choosers \cup {None} /\ list \in Choosers \cup {None}
  /\ logins \in 0..ChooserLogins /\ session \in 0..logins
  /\ owner \in [1..ChooserLogins -> Choosers \cup {None}]
  /\ checking => ~ loggedIn
  /\ loggedIn => label # None /\ Chooser!Who(session) \in {label, None}
  /\ begun => loggedIn
  /\ Chooser!ListIsOwn
  /\ wire \subseteq ChooserAsks
  /\ \A q \in wire : ChooserAsk(q)
  /\ \A q, r \in wire : q.kind = r.kind /\ q.kind \in {"me", "login"} => q = r

LEMMA ChooserInit == PagesAssumption /\ Chooser!Init => ChooserInv
<1>. SUFFICES ASSUME PagesAssumption, Chooser!Init PROVE ChooserInv
  OBVIOUS
<1>. USE DEF Chooser!Init, PagesAssumption
<1>1. IsFiniteSet(wire) /\ Cardinality(wire) = 1
  BY FS_Singleton
<1>2. NothingTried
  BY DEF NothingTried, Chooser!Maybe, Chooser!Errors
<1>3. /\ Chooser!Request("me") \in ChooserAsks /\ ChooserAsk(Chooser!Request("me"))
  BY DEF Chooser!Request, ChooserAsks, ChooserAsk
<1>4. Chooser!ListIsOwn
  BY DEF Chooser!ListIsOwn
<1>5. /\ logins \in 0..ChooserLogins /\ session \in 0..logins
      /\ owner \in [1..ChooserLogins -> Choosers \cup {None}]
  BY DEF Chooser!Tokens
<1>6. /\ Cardinality(wire) <= ChooserWire /\ wire \subseteq ChooserAsks
      /\ \A q \in wire : ChooserAsk(q)
      /\ \A q, r \in wire : q.kind = r.kind /\ q.kind \in {"me", "login"} => q = r
  BY <1>1, <1>3
<1>. QED
  BY <1>1, <1>2, <1>4, <1>5, <1>6 DEF ChooserInv

LEMMA ChooserWhat ==
  ASSUME PagesAssumption, ChooserInv, NEW k \in {"me", "list", "login", "logout"}
  PROVE  /\ Chooser!Request(k) \in ChooserAsks /\ Chooser!Request(k).kind = k
         /\ Chooser!Request(k).as = session /\ Chooser!Request(k).sub = "none"
         /\ Chooser!Request(k).stale = FALSE
BY DEF ChooserInv, Chooser!Request, ChooserAsks, PagesAssumption

\* What is stale stays so, and keeps its kind.
LEMMA ChooserCleanup ==
  ASSUME PagesAssumption, ChooserInv
  PROVE  /\ IsFiniteSet(Chooser!Cleanup(wire)) /\ Cardinality(Chooser!Cleanup(wire)) <= Cardinality(wire)
         /\ Chooser!Cleanup(wire) \subseteq ChooserAsks
         /\ \A q \in Chooser!Cleanup(wire) :
              \E r \in wire : /\ q.kind = r.kind /\ q.as = r.as /\ q.sub = r.sub /\ q.new = r.new
                              /\ q.set = r.set /\ (q.kind = "list" => q.stale)
                              /\ (q.kind # "list" => q = r)
<1>. DEFINE f == [q \in wire |-> [q EXCEPT !.stale = q.stale \/ q.kind = "list"]]
<1>1. Chooser!Cleanup(wire) \in SUBSET {f[q] : q \in wire}
  BY DEF Chooser!Cleanup
<1>2. ASSUME NEW r \in wire
      PROVE  /\ f[r] \in ChooserAsks
             /\ f[r].kind = r.kind /\ f[r].as = r.as /\ f[r].sub = r.sub /\ f[r].new = r.new
             /\ f[r].set = r.set /\ (r.kind = "list" => f[r].stale)
             /\ (r.kind # "list" => f[r] = r)
  <2>1. r \in ChooserAsks
    BY DEF ChooserInv
  <2>2. CASE r.kind = "list"
    BY <2>1, <2>2 DEF ChooserAsks
  <2>3. CASE r.kind # "list"
    <3>1. r.stale \in BOOLEAN
      BY <2>1 DEF ChooserAsks
    <3>2. (r.stale \/ r.kind = "list") = r.stale
      BY <2>3, <3>1
    <3>3. f[r] = [r EXCEPT !.stale = r.stale]
      BY <3>2
    <3>. QED
      BY <2>1, <2>3, <3>3 DEF ChooserAsks
  <2>. QED
    BY <2>2, <2>3
<1>3. \A q \in Chooser!Cleanup(wire) : \E r \in wire : q = f[r]
  BY DEF Chooser!Cleanup
<1>4. IsFiniteSet(wire)
  BY DEF ChooserInv
<1>5. IsFiniteSet(Chooser!Cleanup(wire)) /\ Cardinality(Chooser!Cleanup(wire)) <= Cardinality(wire)
  BY <1>1, <1>4, Imaged
<1>. HIDE DEF f
<1>. QED
  BY <1>2, <1>3, <1>5

LEMMA ChooserClicks ==
  ASSUME PagesAssumption, ChooserInv,
         \/ Chooser!CloseRound \/ Chooser!Logout \/ Chooser!Begin \/ Chooser!Fill \/ Chooser!Submit
         \/ \E s \in Choosers : Chooser!Login(s)
         \/ \E t \in Chooser!Tokens : Chooser!Expire(t)
  PROVE  ChooserInv'
<1>. USE DEF Chooser!server, Chooser!cookie, Chooser!gate, Chooser!review, Chooser!chooser
<1>1. ~ Chooser!FormShown
  BY DEF Chooser!FormShown
<1>2. CASE Chooser!CloseRound
  BY <1>2 DEF Chooser!CloseRound, ChooserInv, NothingTried, Chooser!ListIsOwn, ChooserAsk,
     Chooser!Who, Chooser!Tokens
<1>3. ASSUME NEW t \in Chooser!Tokens, Chooser!Expire(t) PROVE ChooserInv'
  <2>1. /\ UNCHANGED <<stored, session, logins, checking, loggedIn, label, begun, loading,
                       submission, loadError, form, submitted, thanked, list, listing, listError, wire>>
        /\ owner' = [owner EXCEPT ![t] = None]
    BY <1>3 DEF Chooser!Expire
  <2>2. owner' \in [1..ChooserLogins -> Choosers \cup {None}]
    BY <2>1 DEF ChooserInv
  <2>3. \A u \in 0..logins : \A s : Chooser!Who(u) \in {s, None} => Chooser!Who(u)' \in {s, None}
    BY <2>1 DEF ChooserInv, Chooser!Who, Chooser!Tokens
  <2>4. \A u \in 1..logins : \A s : owner[u] \in {s, None} => owner'[u] \in {s, None}
    BY <2>1 DEF ChooserInv
  <2>5. \A q \in wire : ChooserAsk(q)'
    <3>. TAKE q \in wire
    <3>1. ChooserAsk(q) /\ q.as \in 0..logins
      BY DEF ChooserInv, ChooserAsk, ChooserAsks
    <3>. QED
      BY <2>1, <2>3, <2>4, <3>1 DEF ChooserAsk
  <2>6. loggedIn' => Chooser!Who(session)' \in {label', None}
    BY <2>1 DEF ChooserInv, Chooser!Who, Chooser!Tokens
  <2>. QED
    BY <2>1, <2>2, <2>5, <2>6 DEF ChooserInv, NothingTried, Chooser!ListIsOwn
<1>4. CASE Chooser!Logout
  <2>. DEFINE r == Chooser!Request("logout")
  <2>1. /\ UNCHANGED <<stored, session, logins, owner, checking, label, loading,
                       loadError, form, submitted, thanked, list, listing, listError>>
        /\ loggedIn' = FALSE /\ begun' = FALSE /\ submission' = FALSE /\ ~ checking
        /\ loggedIn /\ Cardinality(wire) < ChooserWire
        /\ wire' = Chooser!Cleanup(wire) \cup {r}
    BY <1>4, PageCardinality DEF Chooser!Logout
  <2>2. r \in ChooserAsks /\ r.kind = "logout" /\ r.as = session
    BY ChooserWhat
  <2>3. IsFiniteSet(wire') /\ Cardinality(wire') <= ChooserWire
    <3>1. /\ IsFiniteSet(Chooser!Cleanup(wire))
          /\ Cardinality(Chooser!Cleanup(wire)) <= Cardinality(wire) /\ IsFiniteSet(wire)
          /\ ChooserWire \in Nat
      BY ChooserCleanup DEF ChooserInv, PagesAssumption
    <3>2. Cardinality(Chooser!Cleanup(wire)) < ChooserWire
      BY <2>1, <3>1, FS_CardinalityType
    <3>. QED
      BY <2>1, <3>1, <3>2, OneMore
  <2>. HIDE DEF r
  <2>4. \A q \in wire : q.kind \notin {"me", "login"}
    BY <2>1 DEF ChooserInv, ChooserAsk
  <2>5. \A q \in wire' : /\ q \in ChooserAsks /\ q.kind \notin {"me", "login"}
                         /\ q.kind = "list" => q.stale
                         /\ q.as <= logins
    BY <2>1, <2>2, <2>4, ChooserCleanup DEF ChooserInv, ChooserAsk
  <2>6. \A q \in wire' : ChooserAsk(q)'
    BY <2>1, <2>5 DEF ChooserAsk
  <2>. QED
    BY <2>1, <2>3, <2>5, <2>6 DEF ChooserInv, NothingTried, Chooser!ListIsOwn
<1>5. CASE Chooser!Begin
  <2>. DEFINE r == Chooser!Request("list")
  <2>1. /\ UNCHANGED <<stored, session, logins, owner, checking, loggedIn, label, loading,
                       submission, loadError, form, submitted, thanked, list>>
        /\ listing' = TRUE /\ listError' = FALSE /\ begun' = TRUE
        /\ loggedIn /\ ~ begun /\ wire' = wire \cup {r} /\ Cardinality(wire) < ChooserWire
    BY <1>5, PageCardinality DEF Chooser!Begin, Chooser!Send
  <2>2. r \in ChooserAsks /\ r.kind = "list" /\ r.as = session /\ r.sub = "none"
    BY ChooserWhat
  <2>3. IsFiniteSet(wire') /\ Cardinality(wire') <= ChooserWire
    BY <2>1, OneMore DEF ChooserInv, PagesAssumption
  <2>. HIDE DEF r
  <2>4. \A q \in wire' : ChooserAsk(q)'
    BY <2>1, <2>2 DEF ChooserInv, ChooserAsk, Chooser!Who, Chooser!Tokens
  <2>5. Chooser!Who(session)' \in {label', None}
    BY <2>1 DEF ChooserInv, Chooser!Who, Chooser!Tokens
  <2>6. wire' \subseteq ChooserAsks /\ \A q, z \in wire' : q.kind = z.kind /\ q.kind \in {"me", "login"} => q = z
    BY <2>1, <2>2 DEF ChooserInv
  <2>. QED
    BY <2>1, <2>3, <2>4, <2>5, <2>6 DEF ChooserInv, NothingTried, Chooser!ListIsOwn
<1>6. ASSUME NEW s \in Choosers, Chooser!Login(s) PROVE ChooserInv'
  <2>. DEFINE r == [Chooser!Request("login") EXCEPT !.new = s]
  <2>1. /\ UNCHANGED <<stored, session, logins, owner, checking, loggedIn, label, begun,
                       submission, loadError, form, submitted, thanked, list, listing, listError>>
        /\ ~ loggedIn /\ ~ checking /\ ~ loading /\ loading' = TRUE
        /\ wire' = wire \cup {r} /\ Cardinality(wire) < ChooserWire
    BY <1>6, PageCardinality DEF Chooser!Login, Chooser!Send
  <2>2. r \in ChooserAsks /\ r.kind = "login" /\ r.as = session /\ r.sub = "none" /\ r.new = s
    BY ChooserWhat DEF ChooserAsks
  <2>3. IsFiniteSet(wire') /\ Cardinality(wire') <= ChooserWire
    BY <2>1, OneMore DEF ChooserInv, PagesAssumption
  <2>. HIDE DEF r
  <2>4. \A q \in wire : q.kind # "login"
    BY <2>1 DEF ChooserInv, ChooserAsk
  <2>5. \A q \in wire' : ChooserAsk(q)'
    BY <2>1, <2>2, <2>4 DEF ChooserInv, ChooserAsk, Chooser!Who, Chooser!Tokens
  <2>6. wire' \subseteq ChooserAsks /\ \A q, z \in wire' : q.kind = z.kind /\ q.kind \in {"me", "login"} => q = z
    BY <2>1, <2>2, <2>4 DEF ChooserInv
  <2>. QED
    BY <2>1, <2>3, <2>5, <2>6 DEF ChooserInv, NothingTried, Chooser!ListIsOwn
<1>. QED
  BY <1>1, <1>2, <1>3, <1>4, <1>5, <1>6, Zenon DEF Chooser!Fill, Chooser!Submit

LEMMA ChooserVerdict ==
  /\ Chooser!Verdict(None) = "session"
  /\ \A s : s # None => Chooser!Verdict(s) \in {"closed", "ok"}
<1>1. Chooser!Verdict(None) = "session"
  BY Zenon DEF Chooser!Verdict
<1>2. ASSUME NEW s, s # None PROVE Chooser!Verdict(s) \in {"closed", "ok"}
  <2>1. CASE ~ open
    BY <1>2, <2>1 DEF Chooser!Verdict
  <2>2. CASE open
    BY <1>2, <2>2 DEF Chooser!Verdict
  <2>. QED
    BY <2>1, <2>2
<1>. QED
  BY <1>1, <1>2

LEMMA ChooserServe ==
  ASSUME PagesAssumption, ChooserInv, NEW q \in wire, Chooser!Serve(q)
  PROVE  ChooserInv'
<1>. USE DEF Chooser!server, Chooser!cookie, Chooser!gate, Chooser!review, Chooser!chooser
<1>1. q \in ChooserAsks /\ ChooserAsk(q) /\ q.as \in 0..logins
  BY DEF ChooserInv, ChooserAsk, ChooserAsks
<1>2. UNCHANGED <<checking, loggedIn, label, begun, loading, submission, loadError, form,
                  submitted, thanked, list, listing, listError, session>>
  BY DEF Chooser!Serve, Chooser!ServeRead, Chooser!ServePost, Chooser!ServeGate
<1>3. q.kind \in {"me", "list", "login", "logout"}
  BY <1>1 DEF ChooserAsks
<1>4. ~ Chooser!ServePost(q)
  BY <1>3 DEF Chooser!ServePost
<1>5. stored' = stored
  BY <1>4 DEF Chooser!Serve, Chooser!ServeRead, Chooser!ServeGate
<1>6. ASSUME NEW new \in ChooserAsks, wire' = (wire \ {q}) \cup {new}, new.kind = q.kind,
             ChooserAsk(new)', logins' \in logins..ChooserLogins,
             owner' \in [1..ChooserLogins -> Choosers \cup {None}],
             \A u \in 1..logins : owner'[u] \in {owner[u], None}
      PROVE  ChooserInv'
  <2>1. IsFiniteSet(wire') /\ Cardinality(wire') <= ChooserWire
    BY <1>6, NotMore DEF ChooserInv, PagesAssumption
  <2>2. \A u \in 0..logins : \A s : Chooser!Who(u) \in {s, None} => Chooser!Who(u)' \in {s, None}
    BY <1>6 DEF ChooserInv, Chooser!Who, Chooser!Tokens
  <2>3. logins \in Nat /\ session \in 0..logins /\ ChooserLogins \in Nat
    BY DEF ChooserInv, PagesAssumption
  <2>4. logins' \in 0..ChooserLogins /\ session' \in 0..logins'
    BY <1>2, <1>6, <2>3
  <2>5. ASSUME NEW z \in wire, z # q PROVE ChooserAsk(z)'
    <3>1. ChooserAsk(z) /\ z \in ChooserAsks
      BY DEF ChooserInv
    <3>2. z.as \in 0..logins /\ z.set \in 0..ChooserLogins
      BY <3>1 DEF ChooserAsks, ChooserAsk
    <3>3. z.kind = "login" /\ z.sub = "ok" =>
            z.set \in 1..logins' /\ owner'[z.set] \in {z.new, None}
      BY <1>6, <2>3, <3>1 DEF ChooserAsk
    <3>4. z.as <= logins'
      BY <1>6, <2>3, <3>2
    <3>. QED
      BY <1>2, <2>2, <3>1, <3>2, <3>3, <3>4 DEF ChooserAsk
  <2>6. \A z \in wire' : ChooserAsk(z)'
    BY <1>6, <2>5
  <2>7. wire' \subseteq ChooserAsks /\ \A y, z \in wire' : y.kind = z.kind /\ y.kind \in {"me", "login"} => y = z
    BY <1>6 DEF ChooserInv
  <2>8. loggedIn' => Chooser!Who(session)' \in {label', None}
    BY <1>2, <1>6, <2>3 DEF ChooserInv, Chooser!Who, Chooser!Tokens
  <2>9. Chooser!ListIsOwn'
    BY <1>2 DEF ChooserInv, Chooser!ListIsOwn
  <2>10. NothingTried'
    BY <1>2, <1>5 DEF ChooserInv, NothingTried
  <2>. QED
    BY <1>2, <1>6, <2>1, <2>4, <2>6, <2>7, <2>8, <2>9, <2>10 DEF ChooserInv
<1>7. CASE Chooser!ServeRead(q)
  <2>1. PICK s : s = Chooser!Who(q.as)
    OBVIOUS
  <2>2. s \in Choosers \cup {None}
    BY <1>1, <2>1 DEF ChooserInv, Chooser!Who, Chooser!Tokens
  <2>3. Chooser!Verdict(s) \in {"session", "closed", "ok"} /\ (Chooser!Verdict(s) = "ok" => s # None)
    BY ChooserVerdict
  <2>4. q.kind = "me" => s = None
    BY <1>1, <2>1 DEF ChooserAsk, Chooser!Who, Chooser!Tokens
  <2>5. PICK sub : sub = IF q.kind = "me" /\ s # None THEN "ok" ELSE Chooser!Verdict(s)
    OBVIOUS
  <2>6. sub \in {"session", "closed", "ok"} /\ (sub = "ok" => s # None) /\ (q.kind = "me" => sub # "ok")
    BY <2>3, <2>4, <2>5, ChooserVerdict
  <2>7. PICK new : /\ new = [q EXCEPT !.sub = sub, !.who = s]
                   /\ wire' = (wire \ {q}) \cup {new} /\ q.kind \in {"me", "list"}
                   /\ UNCHANGED <<logins, owner>>
    BY <1>3, <1>7, <2>1, <2>5 DEF Chooser!ServeRead, Chooser!Answered
  <2>8. /\ new \in ChooserAsks /\ new.kind = q.kind /\ new.as = q.as /\ new.stale = q.stale
        /\ new.sub = sub /\ new.who = s
    BY <1>1, <2>2, <2>6, <2>7 DEF ChooserAsks
  <2>9. ChooserAsk(new)'
    BY <1>1, <1>2, <2>1, <2>6, <2>7, <2>8 DEF ChooserAsk, Chooser!Who, Chooser!Tokens
  <2>10. logins' \in logins..ChooserLogins
    BY <2>7 DEF ChooserInv
  <2>. QED
    BY <1>6, <2>7, <2>8, <2>9, <2>10 DEF ChooserInv
<1>8. CASE Chooser!ServeGate(q) /\ q.kind = "login"
  <2>1. PICK n : n = logins + 1
    OBVIOUS
  <2>2. /\ logins < ChooserLogins /\ logins' = n /\ owner' = [owner EXCEPT ![n] = q.new]
        /\ wire' = (wire \ {q}) \cup {[q EXCEPT !.sub = "ok", !.set = n]}
    BY <1>8, <2>1 DEF Chooser!ServeGate, Chooser!Answered
  <2>3. /\ logins \in Nat /\ ChooserLogins \in Nat /\ n \in 1..ChooserLogins /\ q.new \in Choosers
        /\ owner \in [1..ChooserLogins -> Choosers \cup {None}]
        /\ logins' \in logins..ChooserLogins /\ n \in 0..ChooserLogins
    BY <1>1, <1>8, <2>1, <2>2 DEF ChooserInv, ChooserAsk, PagesAssumption
  <2>4. PICK new : new = [q EXCEPT !.sub = "ok", !.set = n]
    OBVIOUS
  <2>5. /\ new \in ChooserAsks /\ new.kind = "login" /\ new.as = q.as /\ new.set = n
        /\ new.new = q.new
    BY <1>1, <1>8, <2>3, <2>4 DEF ChooserAsks
  <2>6. /\ owner' \in [1..ChooserLogins -> Choosers \cup {None}] /\ owner'[n] = q.new
        /\ \A u \in 1..logins : owner'[u] = owner[u]
    BY <2>1, <2>2, <2>3
  <2>7. ChooserAsk(new)'
    BY <1>1, <1>2, <1>8, <2>1, <2>2, <2>3, <2>5, <2>6 DEF ChooserAsk
  <2>. QED
    BY <1>6, <1>8, <2>2, <2>3, <2>4, <2>5, <2>6, <2>7
<1>9. CASE Chooser!ServeGate(q) /\ q.kind = "logout"
  <2>1. /\ owner' = [t \in 1..ChooserLogins |-> IF t = q.as THEN None ELSE owner[t]]
        /\ logins' = logins
        /\ wire' = (wire \ {q}) \cup {[q EXCEPT !.sub = "ok", !.set = 0]}
    BY <1>9 DEF Chooser!ServeGate, Chooser!Answered, Chooser!Tokens
  <2>2. PICK new : new = [q EXCEPT !.sub = "ok", !.set = 0]
    OBVIOUS
  <2>6. 0 \in 0..ChooserLogins
    BY DEF PagesAssumption
  <2>3. new \in ChooserAsks /\ new.kind = "logout" /\ new.as = q.as
    BY <1>1, <1>9, <2>2, <2>6 DEF ChooserAsks
  <2>4. ChooserAsk(new)'
    BY <1>1, <2>1, <2>3 DEF ChooserAsk
  <2>5. /\ owner' \in [1..ChooserLogins -> Choosers \cup {None}]
        /\ logins' \in logins..ChooserLogins
        /\ \A u \in 1..logins : owner'[u] \in {owner[u], None}
    BY <2>1 DEF ChooserInv
  <2>. QED
    BY <1>6, <1>9, <2>1, <2>2, <2>3, <2>4, <2>5
<1>. QED
  BY <1>4, <1>7, <1>8, <1>9 DEF Chooser!Serve, Chooser!ServeGate

LEMMA ChooserHears ==
  ASSUME PagesAssumption, ChooserInv, NEW q \in wire, Chooser!Got(q) \/ Chooser!Lose(q)
  PROVE  ChooserInv'
<1>. USE DEF Chooser!server, Chooser!cookie, Chooser!gate, Chooser!review, Chooser!chooser,
             Chooser!Drop
<1>1. q \in ChooserAsks /\ ChooserAsk(q)
  BY DEF ChooserInv
<1>2. q.kind \in {"me", "list", "login", "logout"}
  BY <1>1 DEF ChooserAsks
<1>3. /\ wire' = wire \ {q}
      /\ UNCHANGED <<stored, logins, owner, begun, submission, loadError, form, submitted, thanked>>
  BY <1>2 DEF Chooser!Got, Chooser!Lose, Chooser!GotMe, Chooser!GotData, Chooser!GotList,
     Chooser!GotLogin, Chooser!GotLogout, Chooser!GotPost
<1>4. /\ IsFiniteSet(wire') /\ Cardinality(wire') <= ChooserWire
      /\ wire' \subseteq ChooserAsks
      /\ \A y, z \in wire' : y.kind = z.kind /\ y.kind \in {"me", "login"} => y = z
      /\ NothingTried'
  <2>1. wire \ {q} \in SUBSET wire
    OBVIOUS
  <2>2. IsFiniteSet(wire') /\ Cardinality(wire') <= ChooserWire
    BY <1>3, <2>1, NotMore DEF ChooserInv, PagesAssumption
  <2>. QED
    BY <1>3, <2>2 DEF ChooserInv, NothingTried
<1>5. CASE q.kind = "login" /\ Chooser!Got(q)
  <2>1. /\ loggedIn' = TRUE /\ label' = q.new /\ session' = q.set /\ q.sub = "ok"
        /\ UNCHANGED <<checking, list, listing, listError>>
    BY <1>5 DEF Chooser!Got, Chooser!GotLogin, Chooser!GotMe, Chooser!GotData, Chooser!GotList,
       Chooser!GotLogout, Chooser!GotPost
  <2>2. /\ ~ loggedIn /\ ~ checking /\ ~ begun /\ q.new \in Choosers
        /\ q.set \in 1..logins /\ owner[q.set] \in {q.new, None}
    BY <1>1, <1>5, <2>1 DEF ChooserInv, ChooserAsk
  <2>3. \A z \in wire' : z.kind \notin {"me", "login"} /\ (z.kind = "list" => z.stale) /\ z.as <= logins
    BY <1>3, <1>5, <2>2 DEF ChooserInv, ChooserAsk
  <2>4. \A z \in wire' : ChooserAsk(z)'
    BY <1>3, <2>3 DEF ChooserAsk
  <2>5. Chooser!Who(session)' \in {label', None}
    BY <1>3, <2>1, <2>2 DEF Chooser!Who, Chooser!Tokens, ChooserInv
  <2>6. session' \in 0..logins'
    BY <1>3, <2>1, <2>2 DEF ChooserInv
  <2>7. Chooser!ListIsOwn'
    BY <1>3, <2>2 DEF Chooser!ListIsOwn
  <2>8. label' # None
    BY <2>1, <2>2 DEF PagesAssumption
  <2>. QED
    BY <1>3, <1>4, <2>1, <2>2, <2>4, <2>5, <2>6, <2>7, <2>8 DEF ChooserInv
<1>6. CASE ~(q.kind = "login" /\ Chooser!Got(q))
  <2>1. /\ loggedIn' = loggedIn /\ label' = label
        /\ session' \in {session, 0}
        /\ checking' = (checking /\ q.kind # "me")
        /\ q.kind # "login" /\ loading => loading'
    <3>1. CASE q.kind = "me" /\ Chooser!Got(q)
      <4>1. loggedIn = FALSE /\ q.sub # "ok"
        BY <1>1, <3>1 DEF ChooserAsk, ChooserInv
      <4>2. /\ checking' = FALSE /\ loggedIn' = (q.sub = "ok")
            /\ label' = IF q.sub = "ok" THEN q.who ELSE label
            /\ UNCHANGED <<session, loading>>
        BY <3>1 DEF Chooser!Got, Chooser!GotMe, Chooser!GotData,
           Chooser!GotList, Chooser!GotLogin, Chooser!GotLogout, Chooser!GotPost
      <4>3. loggedIn' = FALSE
        BY <4>1, <4>2
      <4>. QED
        BY <3>1, <4>1, <4>2, <4>3
    <3>2. CASE q.kind \in {"list", "logout"} /\ Chooser!Got(q)
      BY <3>2 DEF ChooserInv, Chooser!Got, Chooser!GotMe, Chooser!GotData,
         Chooser!GotList, Chooser!GotLogin, Chooser!GotLogout, Chooser!GotPost
    <3>3. CASE Chooser!Lose(q)
      BY <1>2, <3>3 DEF Chooser!Lose
    <3>. QED
      BY <1>2, <1>6, <3>1, <3>2, <3>3
  <2>2. Chooser!ListIsOwn' /\ list' \in Choosers \cup {None} /\ listing' \in BOOLEAN /\ listError' \in BOOLEAN
    <3>1. CASE UNCHANGED <<list, listing, listError>>
      BY <1>3, <2>1, <3>1 DEF ChooserInv, Chooser!ListIsOwn
    <3>2. CASE ~ UNCHANGED <<list, listing, listError>> /\ Chooser!Got(q)
      <4>1. /\ q.kind = "list" /\ ~ q.stale /\ listing' = FALSE /\ listError' = (q.sub # "ok")
            /\ list' = IF q.sub = "ok" THEN q.who ELSE None
        BY <3>2 DEF Chooser!Got, Chooser!GotMe, Chooser!GotData,
         Chooser!GotList, Chooser!GotLogin, Chooser!GotLogout, Chooser!GotPost
      <4>. QED
        BY <1>1, <2>1, <4>1 DEF ChooserAsk, ChooserAsks, Chooser!ListIsOwn
    <3>3. CASE ~ UNCHANGED <<list, listing, listError>> /\ Chooser!Lose(q)
      <4>1. listing' = FALSE /\ listError' = TRUE /\ list' = list
        BY <3>3 DEF Chooser!Lose
      <4>. QED
        BY <4>1 DEF ChooserInv, Chooser!ListIsOwn
    <3>. QED
      BY <3>1, <3>2, <3>3
  <2>3. ASSUME NEW z \in wire' PROVE ChooserAsk(z)'
    <3>1. ChooserAsk(z) /\ z \in wire /\ z # q
      BY <1>3 DEF ChooserInv
    <3>2. z.kind = "login" => loading'
      BY <2>1, <3>1 DEF ChooserInv, ChooserAsk
    <3>3. z.kind = "me" => checking'
      BY <2>1, <3>1 DEF ChooserAsk, ChooserInv
    <3>. QED
      BY <1>3, <2>1, <3>1, <3>2, <3>3 DEF ChooserAsk, Chooser!Who
  <2>4. /\ session' \in 0..logins'
        /\ loggedIn' => Chooser!Who(session)' \in {label', None}
    BY <1>3, <2>1 DEF ChooserInv, Chooser!Who, Chooser!Tokens
  <2>5. checking' \in BOOLEAN /\ (checking' => ~ loggedIn')
    BY <2>1 DEF ChooserInv
  <2>. QED
    BY <1>3, <1>4, <2>1, <2>2, <2>3, <2>4, <2>5 DEF ChooserInv
<1>. QED
  BY <1>5, <1>6

LEMMA ChooserStep == PagesAssumption /\ ChooserInv /\ [Chooser!Next]_(Chooser!vars) => ChooserInv'
<1>. SUFFICES ASSUME PagesAssumption, ChooserInv, [Chooser!Next]_(Chooser!vars) PROVE ChooserInv'
  OBVIOUS
<1>1. CASE UNCHANGED Chooser!vars
  BY <1>1 DEF Chooser!vars, Chooser!server, Chooser!cookie, Chooser!gate, Chooser!review,
     Chooser!chooser, ChooserInv, ChooserAsk, NothingTried, Chooser!ListIsOwn, Chooser!Who
<1>2. CASE Chooser!Next
  <2>1. CASE \/ Chooser!CloseRound \/ Chooser!Logout \/ Chooser!Begin \/ Chooser!Fill \/ Chooser!Submit
             \/ \E s \in Choosers : Chooser!Login(s)
             \/ \E t \in Chooser!Tokens : Chooser!Expire(t)
    BY <2>1, ChooserClicks
  <2>2. CASE \E q \in wire : Chooser!Serve(q) \/ Chooser!Got(q) \/ Chooser!Lose(q)
    BY <2>2, ChooserServe, ChooserHears
  <2>. QED
    BY <1>2, <2>1, <2>2, Zenon DEF Chooser!Next
<1>. QED
  BY <1>1, <1>2

LEMMA ChooserHolds == PagesAssumption /\ ChooserInv => Chooser!TypeOK /\ Chooser!ListIsOwn
BY PageCardinality DEF ChooserInv, NothingTried, Chooser!TypeOK, Chooser!Maybe, PagesAssumption

-----------------------------------------------------------------------------
(* The page of a peer's algorithm: what it thanks for is stored.            *)

Sharer == Sharers \cup {None}
Asked(kinds, subs, exps) ==
  [kind : kinds, as : 0..ExecuteLogins, sub : subs, exp : exps, who : Sharer,
   old : Execute!Reviews \cup {None}, new : Sharer,
   text : Execute!Reviews \cup {None}, set : 0..ExecuteLogins, stale : BOOLEAN]
Verdicts == {"session", "closed", "ok"}
ExecuteAsks ==
  Asked({"me"}, Verdicts \cup {"none"}, {"none"}) \cup
  Asked({"data"}, Verdicts \cup {"none"}, Verdicts \cup {"none"}) \cup
  Asked({"login", "logout"}, {"none", "ok"}, {"none"}) \cup
  Asked({"post"}, {"none", "ok", "refused"}, {"none"})

Given(s) == s \in Sharers /\ stored[s] # None
ExecuteAsk(q) ==
  /\ q.as <= logins
  /\ q.kind = "me" => checking /\ q.as = 0 /\ q.sub # "ok"
  /\ q.kind = "login" => ~ checking /\ q.new \in Sharers /\ (q.sub = "ok" => q.set \in 1..logins)
  /\ q.old # None => q.kind = "data" /\ Given(q.who)
  /\ q.kind = "post" => q.text # None /\ form # None /\ (q.sub = "ok" => Given(q.who))

ExecuteInv ==
  /\ Execute!TypeOK /\ IsFiniteSet(wire)
  /\ checking \in BOOLEAN /\ loggedIn \in BOOLEAN /\ submitted \in BOOLEAN
  /\ logins \in 0..ExecuteLogins
  /\ owner \in [1..ExecuteLogins -> Sharer]
  /\ checking => ~ loggedIn
  /\ submitted => Given(thanked)
  /\ wire \subseteq ExecuteAsks
  /\ \A q \in wire : ExecuteAsk(q)
  /\ \A q, r \in wire : q.kind = "me" /\ r.kind = "me" => q = r

LEMMA ExecuteInit == PagesAssumption /\ Execute!Init => ExecuteInv
<1>. SUFFICES ASSUME PagesAssumption, Execute!Init PROVE ExecuteInv
  OBVIOUS
<1>. USE DEF Execute!Init, PagesAssumption
<1>1. IsFiniteSet(wire) /\ Cardinality(wire) <= ExecuteWire
  <2>1. IsFiniteSet(wire) /\ Cardinality(wire) = 1
    BY FS_Singleton
  <2>2. ExecuteWire \in Nat \ {0}
    OBVIOUS
  <2>. QED
    BY <2>1, <2>2
<1>2. Execute!TypeOK
  BY <1>1, PageCardinality DEF Execute!TypeOK, Execute!Maybe, Execute!Errors
<1>3. /\ Execute!Request("me") \in ExecuteAsks /\ ExecuteAsk(Execute!Request("me"))
  BY DEF Execute!Request, ExecuteAsks, Asked, Verdicts, ExecuteAsk, Sharer
<1>4. /\ logins \in 0..ExecuteLogins
      /\ owner \in [1..ExecuteLogins -> Sharer]
  BY DEF Execute!Tokens, Sharer
<1>5. /\ wire \subseteq ExecuteAsks /\ \A q \in wire : ExecuteAsk(q)
      /\ \A q, r \in wire : q.kind = "me" /\ r.kind = "me" => q = r
  BY <1>3
<1>. QED
  BY <1>1, <1>2, <1>4, <1>5 DEF ExecuteInv

LEMMA ExecuteWhat ==
  ASSUME PagesAssumption, ExecuteInv, NEW k \in {"data", "login", "logout", "post"}
  PROVE  /\ Execute!Request(k) \in ExecuteAsks /\ Execute!Request(k).kind = k
         /\ Execute!Request(k).as = session /\ Execute!Request(k).sub = "none"
         /\ Execute!Request(k).old = None
<1>1. session \in 0..ExecuteLogins /\ 0 \in 0..ExecuteLogins
  BY DEF ExecuteInv, Execute!TypeOK, PagesAssumption
<1>. QED
  BY <1>1 DEF Execute!Request, ExecuteAsks, Asked, Sharer

\* What a request relies on stays so.
LEMMA ExecuteStays ==
  ASSUME NEW q \in wire, ExecuteInv, \A s : Given(s) => Given(s)', form # None => form' # None,
         checking' = checking, logins' = logins
  PROVE  ExecuteAsk(q)'
BY DEF ExecuteInv, ExecuteAsk

\* A request that the page sends.
LEMMA ExecuteSent ==
  ASSUME PagesAssumption, ExecuteInv, NEW r \in ExecuteAsks, NEW kept,
         r.kind # "me", ExecuteAsk(r),
         IsFiniteSet(kept), Cardinality(kept) < ExecuteWire, kept \subseteq wire,
         wire' = kept \cup {r},
         UNCHANGED <<stored, session, logins, owner, checking, label, form, submitted, thanked, list>>,
         loggedIn' \in BOOLEAN, loggedIn' => loggedIn, begun' => loggedIn',
         loadError' \in Execute!Errors
  PROVE  ExecuteInv'
<1>1. IsFiniteSet(wire') /\ Cardinality(wire') <= ExecuteWire
  BY OneMore DEF PagesAssumption
<1>2. \A q \in wire : ExecuteAsk(q)'
  BY DEF ExecuteInv, ExecuteAsk, Given
<1>3. ExecuteAsk(r)'
  BY DEF ExecuteAsk, Given
<1>4. /\ wire' \subseteq ExecuteAsks /\ \A q \in wire' : ExecuteAsk(q)'
      /\ \A q, z \in wire' : q.kind = "me" /\ z.kind = "me" => q = z
  BY <1>2, <1>3 DEF ExecuteInv
<1>5. Execute!TypeOK'
  BY <1>1, PageCardinality DEF ExecuteInv, Execute!TypeOK
<1>. QED
  BY <1>1, <1>4, <1>5 DEF ExecuteInv, Given

\* No list is asked for on this page, so that nothing is stale.
LEMMA ExecuteCleanup ==
  ASSUME PagesAssumption, ExecuteInv
  PROVE  Execute!Cleanup(wire) = wire
<1>1. ASSUME NEW q \in wire PROVE [q EXCEPT !.stale = q.stale \/ q.kind = "list"] = q
  <2>1. q \in ExecuteAsks
    BY DEF ExecuteInv
  <2>2. q.kind # "list" /\ q.stale \in BOOLEAN
    BY <2>1 DEF ExecuteAsks, Asked
  <2>3. (q.stale \/ q.kind = "list") = q.stale
    BY <2>2
  <2>4. [q EXCEPT !.stale = q.stale] = q
    BY <2>1 DEF ExecuteAsks, Asked
  <2>. QED
    BY <2>3, <2>4
<1>. QED
  BY <1>1 DEF Execute!Cleanup

LEMMA ExecuteClicks ==
  ASSUME PagesAssumption, ExecuteInv,
         \/ Execute!CloseRound \/ Execute!Logout \/ Execute!Begin \/ Execute!Fill \/ Execute!Submit
         \/ \E s \in Sharers : Execute!Login(s)
         \/ \E t \in Execute!Tokens : Execute!Expire(t)
  PROVE  ExecuteInv'
<1>. USE DEF Execute!server, Execute!cookie, Execute!gate, Execute!review, Execute!chooser
<1>1. CASE Execute!CloseRound
  BY <1>1 DEF Execute!CloseRound, ExecuteInv, Execute!TypeOK, ExecuteAsk, Given,
     Execute!Cardinality
<1>2. ASSUME NEW t \in Execute!Tokens, Execute!Expire(t) PROVE ExecuteInv'
  <2>1. /\ UNCHANGED <<stored, session, logins, checking, loggedIn, label, begun,
                       loadError, form, submitted, thanked, list, wire>>
        /\ owner' = [owner EXCEPT ![t] = None]
    BY <1>2 DEF Execute!Expire
  <2>2. owner' \in [1..ExecuteLogins -> Sharer]
    BY <2>1 DEF ExecuteInv, Sharer
  <2>. QED
    BY <2>1, <2>2 DEF ExecuteInv, Execute!TypeOK, ExecuteAsk, Given, Execute!Cardinality
<1>3. CASE Execute!Fill
  <2>1. /\ UNCHANGED <<stored, session, logins, owner, checking, loggedIn, label, begun,
                       loadError, submitted, thanked, list, wire>>
        /\ form' = [by |-> label] /\ loggedIn
    BY <1>3 DEF Execute!Fill, Execute!FormShown
  <2>2. label \in Sharer /\ label # None
    BY <2>1 DEF ExecuteInv, Execute!TypeOK, Execute!Maybe, Sharer
  <2>3. form' \in Execute!Reviews /\ form' # None
    BY <2>1, <2>2 DEF Execute!Reviews, PagesAssumption, Sharer
  <2>4. \A q \in wire : ExecuteAsk(q)'
    BY <2>1, <2>3, ExecuteStays DEF Given
  <2>. QED
    BY <2>1, <2>3, <2>4 DEF ExecuteInv, Execute!TypeOK, Given, Execute!Cardinality,
       Execute!Maybe
<1>4. CASE Execute!Logout
  <2>. DEFINE r == Execute!Request("logout")
              kept == wire
  <2>1. /\ UNCHANGED <<stored, session, logins, owner, checking, label, form, submitted, thanked, list>>
        /\ loggedIn' = FALSE /\ begun' = FALSE /\ loadError' = loadError
        /\ Cardinality(wire) < ExecuteWire
        /\ wire' = kept \cup {r}
    BY <1>4, PageCardinality, ExecuteCleanup DEF Execute!Logout
  <2>2. r \in ExecuteAsks /\ r.kind = "logout" /\ ExecuteAsk(r)
    BY ExecuteWhat DEF ExecuteAsk, ExecuteInv, Execute!TypeOK
  <2>3. IsFiniteSet(kept) /\ loadError \in Execute!Errors
    BY DEF ExecuteInv, Execute!TypeOK
  <2>. HIDE DEF r
  <2>. QED
    BY <2>1, <2>2, <2>3, ExecuteSent
<1>5. CASE Execute!Begin
  <2>. DEFINE r == Execute!Request("data")
              kept == wire
  <2>1. /\ UNCHANGED <<stored, session, logins, owner, checking, loggedIn, label, form,
                       submitted, thanked, list>>
        /\ loggedIn /\ loadError' = "none"
        /\ Cardinality(wire) < ExecuteWire
        /\ wire' = kept \cup {r}
    BY <1>5, PageCardinality DEF Execute!Begin, Execute!Send
  <2>2. r \in ExecuteAsks /\ r.kind = "data" /\ ExecuteAsk(r)
    BY ExecuteWhat DEF ExecuteAsk, ExecuteInv, Execute!TypeOK
  <2>3. IsFiniteSet(kept) /\ loadError' \in Execute!Errors /\ loggedIn \in BOOLEAN
    BY <2>1 DEF ExecuteInv, Execute!TypeOK, Execute!Errors
  <2>. HIDE DEF r
  <2>. QED
    BY <2>1, <2>2, <2>3, ExecuteSent
<1>6. CASE Execute!Submit
  <2>. DEFINE r == [Execute!Request("post") EXCEPT !.text = form]
              kept == wire
  <2>1. /\ UNCHANGED <<stored, session, logins, owner, checking, loggedIn, label, begun,
                       loadError, form, submitted, thanked, list>>
        /\ form # None
        /\ Cardinality(wire) < ExecuteWire
        /\ wire' = kept \cup {r}
    BY <1>6, PageCardinality DEF Execute!Submit, Execute!Send
  <2>2. form \in Execute!Reviews
    BY <2>1 DEF ExecuteInv, Execute!TypeOK, Execute!Maybe
  <2>3. PICK z : z = Execute!Request("post")
    OBVIOUS
  <2>4. z \in ExecuteAsks /\ z.kind = "post" /\ z.as = session /\ z.sub = "none" /\ z.old = None
    BY <2>3, ExecuteWhat
  <2>5. /\ r \in ExecuteAsks /\ r.kind = "post" /\ r.as = session /\ r.sub = "none"
        /\ r.old = None /\ r.text = form
    BY <2>2, <2>3, <2>4 DEF ExecuteAsks, Asked
  <2>6. ExecuteAsk(r)
    BY <2>1, <2>5 DEF ExecuteAsk, ExecuteInv, Execute!TypeOK
  <2>7. IsFiniteSet(kept) /\ loadError \in Execute!Errors /\ loggedIn \in BOOLEAN
        /\ (begun => loggedIn)
    BY DEF ExecuteInv, Execute!TypeOK
  <2>. HIDE DEF r
  <2>. QED
    BY <2>1, <2>5, <2>6, <2>7, ExecuteSent
<1>7. ASSUME NEW s \in Sharers, Execute!Login(s) PROVE ExecuteInv'
  <2>. DEFINE r == [Execute!Request("login") EXCEPT !.new = s]
              kept == wire
  <2>1. /\ UNCHANGED <<stored, session, logins, owner, checking, loggedIn, label, begun,
                       loadError, form, submitted, thanked, list>>
        /\ ~ checking
        /\ Cardinality(wire) < ExecuteWire
        /\ wire' = kept \cup {r}
    BY <1>7, PageCardinality DEF Execute!Login, Execute!Send
  <2>3. PICK z : z = Execute!Request("login")
    OBVIOUS
  <2>4. z \in ExecuteAsks /\ z.kind = "login" /\ z.as = session /\ z.sub = "none" /\ z.old = None
    BY <2>3, ExecuteWhat
  <2>5. /\ r \in ExecuteAsks /\ r.kind = "login" /\ r.as = session /\ r.sub = "none"
        /\ r.old = None /\ r.new = s
    BY <2>3, <2>4 DEF ExecuteAsks, Asked, Sharer
  <2>6. ExecuteAsk(r)
    BY <2>1, <2>5 DEF ExecuteAsk, ExecuteInv, Execute!TypeOK
  <2>7. IsFiniteSet(kept) /\ loadError \in Execute!Errors /\ loggedIn \in BOOLEAN
        /\ (begun => loggedIn)
    BY DEF ExecuteInv, Execute!TypeOK
  <2>. HIDE DEF r
  <2>. QED
    BY <2>1, <2>5, <2>6, <2>7, ExecuteSent
<1>. QED
  BY <1>1, <1>2, <1>3, <1>4, <1>5, <1>6, <1>7

LEMMA ExecuteVerdict ==
  /\ Execute!Verdict(None) = "session"
  /\ \A s : s # None => Execute!Verdict(s) \in {"closed", "ok"}
<1>1. Execute!Verdict(None) = "session"
  BY Zenon DEF Execute!Verdict
<1>2. ASSUME NEW s, s # None PROVE Execute!Verdict(s) \in {"closed", "ok"}
  <2>1. CASE ~ open
    BY <1>2, <2>1 DEF Execute!Verdict
  <2>2. CASE open
    BY <1>2, <2>2 DEF Execute!Verdict
  <2>. QED
    BY <2>1, <2>2
<1>. QED
  BY <1>1, <1>2

LEMMA ExecuteServe ==
  ASSUME PagesAssumption, ExecuteInv, NEW q \in wire, Execute!Serve(q)
  PROVE  ExecuteInv'
<1>. USE DEF Execute!server, Execute!cookie, Execute!gate, Execute!review, Execute!chooser
<1>1. q \in ExecuteAsks /\ ExecuteAsk(q) /\ q.as <= logins
  BY DEF ExecuteInv, ExecuteAsk
<1>2. UNCHANGED <<checking, loggedIn, label, begun, loadError, form, submitted, thanked, list, session>>
  BY DEF Execute!Serve, Execute!ServeRead, Execute!ServePost, Execute!ServeGate
<1>3. /\ logins \in Nat /\ ExecuteLogins \in Nat /\ logins <= ExecuteLogins
      /\ owner \in [1..ExecuteLogins -> Sharer]
      /\ stored \in [Sharers -> Execute!Reviews \cup {None}]
      /\ session \in 0..logins
      /\ None \notin Sharers
  BY DEF ExecuteInv, Execute!TypeOK, Execute!Maybe, PagesAssumption
<1>6. ASSUME NEW new \in ExecuteAsks, wire' = (wire \ {q}) \cup {new}, new.kind = q.kind,
             ExecuteAsk(new)', logins' \in logins..ExecuteLogins,
             owner' \in [1..ExecuteLogins -> Sharer],
             stored' \in [Sharers -> Execute!Reviews \cup {None}],
             \A z : Given(z) => Given(z)'
      PROVE  ExecuteInv'
  <2>1. IsFiniteSet(wire) /\ Cardinality(wire) <= ExecuteWire /\ ExecuteWire \in Nat
    BY PageCardinality DEF ExecuteInv, Execute!TypeOK, PagesAssumption
  <2>2. IsFiniteSet(wire') /\ Cardinality(wire') <= ExecuteWire
    BY <1>6, <2>1, NotMore
  <2>3. logins' \in 0..ExecuteLogins /\ session' \in 0..logins'
    BY <1>2, <1>3, <1>6
  <2>4. ASSUME NEW z \in wire, z # q PROVE ExecuteAsk(z)'
    <3>1. ExecuteAsk(z) /\ z \in ExecuteAsks
      BY DEF ExecuteInv
    <3>2. z.as \in Int /\ z.set \in Int
      BY <3>1, <1>3 DEF ExecuteAsks, Asked
    <3>3. z.as <= logins' /\ (z.set \in 1..logins => z.set \in 1..logins')
      BY <1>3, <1>6, <3>1, <3>2 DEF ExecuteAsk
    <3>. QED
      BY <1>2, <1>6, <3>1, <3>3 DEF ExecuteAsk
  <2>5. \A z \in wire' : ExecuteAsk(z)'
    BY <1>6, <2>4
  <2>6. wire' \subseteq ExecuteAsks /\ \A y, z \in wire' : y.kind = "me" /\ z.kind = "me" => y = z
    BY <1>6 DEF ExecuteInv
  <2>7. Execute!TypeOK'
    BY <1>2, <1>6, <2>2, <2>3, PageCardinality DEF ExecuteInv, Execute!TypeOK, Execute!Maybe
  <2>. QED
    BY <1>2, <1>6, <2>2, <2>3, <2>5, <2>6, <2>7 DEF ExecuteInv
<1>7. PICK s : s = Execute!Who(q.as)
  OBVIOUS
<1>8. s \in Sharer /\ (q.kind = "me" => s = None)
  BY <1>1, <1>3, <1>7 DEF Execute!Who, Execute!Tokens, ExecuteAsk, Sharer
<1>9. Execute!Verdict(s) \in Verdicts /\ (Execute!Verdict(s) = "ok" => s \in Sharers)
  BY <1>8, ExecuteVerdict DEF Verdicts, Sharer
<1>10. CASE Execute!ServeRead(q)
  <2>1. UNCHANGED <<stored, logins, owner>>
    BY <1>10 DEF Execute!ServeRead
  <2>2. CASE /\ q.kind \in {"me", "data"}
             /\ Execute!Answered(q, [q EXCEPT !.sub = IF q.kind = "me" /\ s # None THEN "ok"
                                              ELSE Execute!Verdict(s),
                                       !.who = IF q.kind = "data" THEN @ ELSE s])
    <3>1. PICK v : v = Execute!Verdict(s)
      OBVIOUS
    <3>2. PICK new : new = [q EXCEPT !.sub = v, !.who = IF q.kind = "data" THEN @ ELSE s]
      OBVIOUS
    <3>3. wire' = (wire \ {q}) \cup {new}
      BY <1>8, <2>2, <3>1, <3>2 DEF Execute!Answered
    <3>4. v \in Verdicts /\ (q.kind = "me" => v = "session")
      BY <1>8, <1>9, <3>1, ExecuteVerdict
    <3>5. /\ new \in ExecuteAsks /\ new.kind = q.kind /\ new.as = q.as /\ new.sub = v
          /\ new.old = q.old /\ (q.kind = "data" => new.who = q.who)
      BY <1>1, <1>8, <2>2, <3>2, <3>4 DEF ExecuteAsks, Asked, Verdicts
    <3>6. ExecuteAsk(new)'
      BY <1>1, <1>2, <2>1, <2>2, <3>4, <3>5 DEF ExecuteAsk, Given
    <3>. QED
      BY <1>3, <1>6, <2>1, <3>3, <3>5, <3>6 DEF Given
  <2>3. CASE /\ q.kind = "data"
             /\ Execute!Answered(q, [q EXCEPT !.exp = Execute!Verdict(s), !.who = s,
                  !.old = IF Execute!Verdict(s) = "ok" THEN stored[s] ELSE None])
    <3>1. PICK v : v = Execute!Verdict(s)
      OBVIOUS
    <3>2. PICK old : old = IF v = "ok" THEN stored[s] ELSE None
      OBVIOUS
    <3>3. PICK new : new = [q EXCEPT !.exp = v, !.who = s, !.old = old]
      OBVIOUS
    <3>4. wire' = (wire \ {q}) \cup {new}
      BY <2>3, <3>1, <3>2, <3>3 DEF Execute!Answered
    <3>5. v \in Verdicts /\ old \in Execute!Reviews \cup {None} /\ (old # None => Given(s))
      BY <1>3, <1>8, <1>9, <3>1, <3>2 DEF Given
    <3>6. /\ new \in ExecuteAsks /\ new.kind = "data" /\ new.as = q.as
          /\ new.old = old /\ new.who = s
      BY <1>1, <1>8, <2>3, <3>3, <3>5 DEF ExecuteAsks, Asked
    <3>7. ExecuteAsk(new)'
      BY <1>1, <1>2, <2>1, <2>3, <3>5, <3>6 DEF ExecuteAsk, Given
    <3>. QED
      BY <1>3, <1>6, <2>1, <2>3, <3>4, <3>6, <3>7 DEF Given
  <2>4. q.kind # "list"
    BY <1>1 DEF ExecuteAsks, Asked
  <2>. QED
    BY <1>7, <1>10, <2>2, <2>3, <2>4 DEF Execute!ServeRead
<1>11. CASE Execute!ServePost(q)
  <2>1. /\ q.kind = "post" /\ q.text # None /\ q.text \in Execute!Reviews
        /\ UNCHANGED <<logins, owner>>
    BY <1>1, <1>11 DEF Execute!ServePost, ExecuteAsk, ExecuteAsks, Asked
  <2>2. CASE Execute!Verdict(s) = "ok" /\ stored[s] = None
    <3>1. PICK new : new = [q EXCEPT !.sub = "ok", !.who = s]
      OBVIOUS
    <3>2. /\ stored' = [stored EXCEPT ![s] = q.text] /\ wire' = (wire \ {q}) \cup {new}
      BY <1>7, <1>9, <1>11, <2>2, <3>1 DEF Execute!ServePost, Execute!Answered
    <3>3. /\ new \in ExecuteAsks /\ new.kind = "post" /\ new.as = q.as /\ new.old = q.old
          /\ new.text = q.text /\ new.who = s
      BY <1>1, <1>8, <2>1, <3>1 DEF ExecuteAsks, Asked
    <3>4. /\ stored' \in [Sharers -> Execute!Reviews \cup {None}]
          /\ Given(s)' /\ \A z : Given(z) => Given(z)'
      BY <1>3, <1>9, <2>1, <2>2, <3>2 DEF Given
    <3>5. ExecuteAsk(new)'
      BY <1>1, <1>2, <2>1, <3>3, <3>4 DEF ExecuteAsk
    <3>. QED
      BY <1>3, <1>6, <2>1, <3>2, <3>3, <3>4, <3>5
  <2>3. CASE ~(Execute!Verdict(s) = "ok" /\ stored[s] = None)
    <3>1. PICK new : new = [q EXCEPT !.sub = "refused"]
      OBVIOUS
    <3>2. stored' = stored /\ wire' = (wire \ {q}) \cup {new}
      BY <1>7, <1>11, <2>3, <3>1 DEF Execute!ServePost, Execute!Answered
    <3>3. /\ new \in ExecuteAsks /\ new.kind = "post" /\ new.as = q.as /\ new.old = q.old
          /\ new.text = q.text /\ new.sub = "refused"
      BY <1>1, <2>1, <3>1 DEF ExecuteAsks, Asked
    <3>4. ExecuteAsk(new)'
      BY <1>1, <1>2, <2>1, <3>2, <3>3 DEF ExecuteAsk, Given
    <3>. QED
      BY <1>3, <1>6, <2>1, <3>2, <3>3, <3>4 DEF Given
  <2>. QED
    BY <2>2, <2>3
<1>12. CASE Execute!ServeGate(q) /\ q.kind = "login"
  <2>1. PICK n : n = logins + 1
    OBVIOUS
  <2>2. PICK new : new = [q EXCEPT !.sub = "ok", !.set = n]
    OBVIOUS
  <2>3. /\ logins < ExecuteLogins /\ logins' = n /\ owner' = [owner EXCEPT ![n] = q.new]
        /\ wire' = (wire \ {q}) \cup {new} /\ stored' = stored
    BY <1>12, <2>1, <2>2 DEF Execute!ServeGate, Execute!Answered
  <2>4. n \in 1..ExecuteLogins /\ n \in 0..ExecuteLogins /\ logins' \in logins..ExecuteLogins
        /\ q.new \in Sharers /\ n \in 1..logins' /\ q.as <= logins'
    <3>1. q.as \in Int
      BY <1>1, <1>3 DEF ExecuteAsks, Asked
    <3>. QED
      BY <1>1, <1>3, <1>12, <2>1, <2>3, <3>1 DEF ExecuteAsk
  <2>5. /\ new \in ExecuteAsks /\ new.kind = "login" /\ new.as = q.as /\ new.old = q.old
        /\ new.new = q.new /\ new.set = n
    BY <1>1, <1>12, <2>2, <2>4 DEF ExecuteAsks, Asked
  <2>6. ExecuteAsk(new)'
    BY <1>1, <1>2, <1>12, <2>3, <2>4, <2>5 DEF ExecuteAsk, Given
  <2>7. owner' \in [1..ExecuteLogins -> Sharer]
    BY <1>3, <2>3, <2>4 DEF Sharer
  <2>. QED
    BY <1>3, <1>6, <1>12, <2>3, <2>4, <2>5, <2>6, <2>7 DEF Given
<1>13. CASE Execute!ServeGate(q) /\ q.kind = "logout"
  <2>1. PICK new : new = [q EXCEPT !.sub = "ok", !.set = 0]
    OBVIOUS
  <2>2. /\ owner' = [t \in 1..ExecuteLogins |-> IF t = q.as THEN None ELSE owner[t]]
        /\ logins' = logins /\ stored' = stored /\ wire' = (wire \ {q}) \cup {new}
    BY <1>13, <2>1 DEF Execute!ServeGate, Execute!Answered, Execute!Tokens
  <2>3. 0 \in 0..ExecuteLogins
    BY <1>3
  <2>4. new \in ExecuteAsks /\ new.kind = "logout" /\ new.as = q.as /\ new.old = q.old
    BY <1>1, <1>13, <2>1, <2>3 DEF ExecuteAsks, Asked
  <2>5. ExecuteAsk(new)'
    BY <1>1, <1>2, <1>13, <2>2, <2>4 DEF ExecuteAsk, Given
  <2>6. owner' \in [1..ExecuteLogins -> Sharer] /\ logins' \in logins..ExecuteLogins
    BY <1>3, <2>2 DEF Sharer
  <2>. QED
    BY <1>3, <1>6, <1>13, <2>2, <2>4, <2>5, <2>6 DEF Given
<1>. QED
  BY <1>10, <1>11, <1>12, <1>13 DEF Execute!Serve, Execute!ServeGate

LEMMA ExecuteHears ==
  ASSUME PagesAssumption, ExecuteInv, NEW q \in wire, Execute!Got(q) \/ Execute!Lose(q)
  PROVE  ExecuteInv'
<1>. USE DEF Execute!server, Execute!cookie, Execute!gate, Execute!review, Execute!chooser,
             Execute!Drop
<1>1. q \in ExecuteAsks /\ ExecuteAsk(q)
  BY DEF ExecuteInv
<1>2. q.kind \in {"me", "data", "login", "logout", "post"}
  BY <1>1 DEF ExecuteAsks, Asked
<1>3. wire' = wire \ {q} /\ UNCHANGED <<stored, logins, owner, begun, list>>
  BY <1>2 DEF Execute!Got, Execute!Lose, Execute!GotMe, Execute!GotData, Execute!GotList,
     Execute!GotLogin, Execute!GotLogout, Execute!GotPost
<1>4. checking \in BOOLEAN /\ loggedIn \in BOOLEAN /\ submitted \in BOOLEAN
  BY DEF ExecuteInv
<1>5. /\ checking' = (checking /\ q.kind # "me")
      /\ checking' => ~ loggedIn'
      /\ loggedIn' \in BOOLEAN /\ (begun => loggedIn')
      /\ loggedIn' => label' # None
      /\ label' \in Sharer /\ session' \in 0..logins
  <2>1. /\ label \in Sharer /\ session \in 0..logins /\ 0 \in 0..logins
        /\ (loggedIn => label # None) /\ (begun => loggedIn) /\ (checking => ~ loggedIn)
        /\ None \notin Sharers
    BY DEF ExecuteInv, Execute!TypeOK, Execute!Maybe, PagesAssumption, Sharer
  <2>2. CASE Execute!GotMe(q)
    <3>1. /\ q.kind = "me" /\ checking' = FALSE /\ session' = session
          /\ loggedIn' = (q.sub = "ok") /\ label' = IF q.sub = "ok" THEN q.who ELSE label
      BY <2>2 DEF Execute!GotMe
    <3>2. q.sub # "ok" /\ checking
      BY <1>1, <3>1 DEF ExecuteAsk
    <3>3. loggedIn' = FALSE /\ label' = label /\ ~ begun
      BY <2>1, <3>1, <3>2
    <3>. QED
      BY <2>1, <3>1, <3>3
  <2>3. CASE Execute!GotLogin(q) /\ q.kind = "login"
    <3>1. /\ loggedIn' = TRUE /\ label' = q.new /\ session' = q.set /\ checking' = checking
          /\ q.sub = "ok"
      BY <2>3 DEF Execute!GotLogin
    <3>2. checking = FALSE /\ q.new \in Sharers /\ q.set \in 1..logins
      BY <1>1, <1>4, <2>3, <3>1 DEF ExecuteAsk
    <3>3. q.set \in 0..logins
      BY <3>2
    <3>4. checking' = FALSE /\ (checking /\ q.kind # "me") = FALSE
      BY <3>1, <3>2
    <3>. QED
      BY <2>1, <3>1, <3>2, <3>3, <3>4 DEF Sharer
  <2>4. CASE /\ q.kind # "me" /\ loggedIn' = loggedIn /\ checking' = checking /\ label' = label
             /\ session' \in {session, 0}
    BY <1>4, <2>1, <2>4
  <2>5. CASE Execute!Lose(q)
    BY <1>4, <2>1, <2>5 DEF Execute!Lose
  <2>. QED
    BY <1>2, <2>2, <2>3, <2>4, <2>5 DEF Execute!Got, Execute!GotData, Execute!GotList,
       Execute!GotLogin, Execute!GotLogout, Execute!GotPost
<1>6. /\ loadError' \in Execute!Errors
      /\ form' \in Execute!Reviews \cup {None} /\ (form # None => form' # None)
      /\ submitted' \in BOOLEAN /\ thanked' \in Sharer
      /\ submitted' => form' # None /\ Given(thanked')
  <2>1. /\ loadError \in Execute!Errors /\ form \in Execute!Reviews \cup {None}
        /\ thanked \in Sharer /\ (submitted => form # None /\ Given(thanked))
        /\ \A s : Given(s) => s \in Sharer
    BY DEF ExecuteInv, Execute!TypeOK, Execute!Maybe, Sharer, Given
  <2>2. CASE Execute!GotData(q)
    <3>1. /\ q.old \in Execute!Reviews \cup {None} /\ (q.old # None => Given(q.who))
          /\ q.sub \in Execute!Errors \cup {"ok", "none"}
      BY <1>1, <2>2 DEF Execute!GotData, ExecuteAsk, ExecuteAsks, Asked, Verdicts, Execute!Errors
    <3>2. /\ loadError' = loadError \/ (loadError' = q.sub /\ q.sub \notin {"none", "ok"})
          /\ \/ form' = form /\ submitted' = submitted /\ thanked' = thanked
             \/ q.old # None /\ form' = q.old /\ submitted' = TRUE /\ thanked' = q.who
      BY <2>2 DEF Execute!GotData
    <3>3. loadError' \in Execute!Errors
      BY <2>1, <3>1, <3>2
    <3>4. CASE form' = form /\ submitted' = submitted /\ thanked' = thanked
      BY <1>4, <2>1, <3>3, <3>4
    <3>5. CASE q.old # None /\ form' = q.old /\ submitted' = TRUE /\ thanked' = q.who
      BY <2>1, <3>1, <3>3, <3>5
    <3>. QED
      BY <3>2, <3>4, <3>5
  <2>3. CASE Execute!GotPost(q)
    <3>1. /\ loadError' = loadError /\ form' = form /\ q.kind = "post"
          /\ submitted' = (submitted \/ q.sub = "ok")
          /\ thanked' = IF q.sub = "ok" THEN q.who ELSE thanked
      BY <2>3 DEF Execute!GotPost
    <3>2. form # None /\ (q.sub = "ok" => Given(q.who))
      BY <1>1, <3>1 DEF ExecuteAsk
    <3>3. CASE q.sub = "ok"
      BY <2>1, <3>1, <3>2, <3>3
    <3>4. CASE q.sub # "ok"
      BY <1>4, <2>1, <3>1, <3>4
    <3>. QED
      BY <3>3, <3>4
  <2>4. CASE Execute!Lose(q)
    BY <1>4, <2>1, <2>4 DEF Execute!Lose, Execute!Errors
  <2>5. CASE UNCHANGED <<loadError, form, submitted, thanked>>
    BY <1>4, <2>1, <2>5
  <2>. QED
    BY <1>2, <2>2, <2>3, <2>4, <2>5 DEF Execute!Got, Execute!GotMe, Execute!GotList,
       Execute!GotLogin, Execute!GotLogout
<1>7. IsFiniteSet(wire') /\ Cardinality(wire') <= ExecuteWire
  <2>1. /\ IsFiniteSet(wire) /\ Cardinality(wire) <= ExecuteWire /\ ExecuteWire \in Nat
        /\ wire \ {q} \in SUBSET wire
    BY PageCardinality DEF ExecuteInv, Execute!TypeOK, PagesAssumption
  <2>. QED
    BY <1>3, <2>1, NotMore
<1>8. Execute!TypeOK'
  BY <1>3, <1>5, <1>6, <1>7, PageCardinality DEF ExecuteInv, Execute!TypeOK, Execute!Maybe, Sharer
<1>9. ASSUME NEW z \in wire' PROVE ExecuteAsk(z)'
  <2>1. ExecuteAsk(z) /\ z \in wire /\ z # q
    BY <1>3 DEF ExecuteInv
  <2>2. z.kind = "me" => checking'
    BY <1>5, <2>1 DEF ExecuteInv, ExecuteAsk
  <2>3. z.kind = "login" => ~ checking'
    BY <1>5, <2>1 DEF ExecuteAsk
  <2>. QED
    BY <1>3, <1>6, <2>1, <2>2, <2>3 DEF ExecuteAsk, Given
<1>10. checking' \in BOOLEAN /\ (submitted' => Given(thanked)')
  BY <1>3, <1>5, <1>6 DEF Given
<1>. QED
  BY <1>3, <1>5, <1>6, <1>7, <1>8, <1>9, <1>10 DEF ExecuteInv

LEMMA ExecuteStep == PagesAssumption /\ ExecuteInv /\ [Execute!Next]_(Execute!vars) => ExecuteInv'
<1>. SUFFICES ASSUME PagesAssumption, ExecuteInv, [Execute!Next]_(Execute!vars) PROVE ExecuteInv'
  OBVIOUS
<1>1. CASE UNCHANGED Execute!vars
  BY <1>1 DEF Execute!vars, Execute!server, Execute!cookie, Execute!gate, Execute!review,
     Execute!chooser, ExecuteInv, ExecuteAsk, Given, Execute!TypeOK, Execute!Cardinality
<1>2. CASE Execute!Next
  <2>1. CASE \/ Execute!CloseRound \/ Execute!Logout \/ Execute!Begin \/ Execute!Fill \/ Execute!Submit
             \/ \E s \in Sharers : Execute!Login(s)
             \/ \E t \in Execute!Tokens : Execute!Expire(t)
    BY <2>1, ExecuteClicks
  <2>2. CASE \E q \in wire : Execute!Serve(q) \/ Execute!Got(q) \/ Execute!Lose(q)
    BY <2>2, ExecuteServe, ExecuteHears
  <2>. QED
    BY <1>2, <2>1, <2>2, Zenon DEF Execute!Next
<1>. QED
  BY <1>1, <1>2

LEMMA ExecuteHolds ==
  PagesAssumption /\ ExecuteInv => Execute!TypeOK /\ Execute!SubmittedIsStored
BY DEF ExecuteInv, Execute!SubmittedIsStored, Given, PagesAssumption

-----------------------------------------------------------------------------
(* The student's tab: what was written is in the draft and in the editor.   *)

Writing == Tab!Texts \cup {None}
TabAsks ==
  [kind : Tab!Kinds, tok : 0..TabLogins, done : BOOLEAN, ok : BOOLEAN, who : Sharer,
   round : TabRounds \cup {0}, mine : Writing \cup Sharer, text : Writing,
   canRevise : BOOLEAN, new : 0..TabLogins]

TabAsk(q) ==
  /\ q.tok # 0 => seat \in Sharers
  /\ q.kind \in Tab!RoundKinds =>
       /\ q.mine \in Writing
       /\ q.ok => q.who # None /\ seat \in Sharers
  /\ q.kind = "login" => q.who \in Sharers /\ (q.done => q.new \in 1..logins)
  /\ q.kind = "submit" =>
       /\ q.text # None /\ q.round \in TabRounds /\ work[q.round] \in {None, q.text}
       /\ q.ok => work[q.round] = None

TabServer ==
  /\ open \in TabRounds \cup {0} /\ last \in TabRounds /\ open \in {0, last}
  /\ saved \in [TabRounds -> [Sharers -> Writing]]
  /\ live \in [1..TabLogins -> Sharer] /\ logins \in 0..TabLogins
TabHook ==
  /\ cookie \in 0..logins /\ (cookie # 0 => seat \in Sharers)
  /\ label \in Sharer /\ round \in TabRounds \cup {0} /\ mine \in Writing
  /\ loggedIn => label # None /\ seat \in Sharers
TabEditor ==
  /\ text \in Writing /\ draft \in [TabRounds -> Writing]
  /\ ctx \in (Sharers \X TabRounds) \cup {None} /\ (text # None => ctx # None)
  /\ page # "algorithm" => ctx = None
  /\ work \in [TabRounds -> Writing]
  /\ \A r \in TabRounds : work[r] # None =>
       draft[r] = work[r] /\ (ctx # None /\ ctx[2] = r => text = work[r])
TabRequests ==
  /\ IsFiniteSet(wire) /\ Cardinality(wire) <= TabWire /\ wire \subseteq TabAsks
  /\ \A q \in wire : TabAsk(q)
TabInv == TabServer /\ TabHook /\ TabEditor /\ TabRequests

LEMMA TabNames ==
  PagesAssumption =>
    /\ Tab!Tokens = 1..TabLogins /\ \A S : Tab!Maybe(S) = S \cup {None}
    /\ 0 \notin TabRounds /\ TabLogins \in Nat /\ TabWire \in Nat \ {0} /\ None \notin Sharers
    /\ TabRounds \subseteq Nat /\ 1 \in TabRounds
BY DEF PagesAssumption, Tab!Tokens, Tab!Maybe

LEMMA TabHolds == PagesAssumption /\ TabInv => Tab!TypeOK /\ Tab!WorkKept
<1>. SUFFICES ASSUME PagesAssumption, TabInv PROVE Tab!TypeOK /\ Tab!WorkKept
  OBVIOUS
<1>1. Tab!TypeOK
  BY TabNames, PageCardinality DEF TabInv, TabServer, TabHook, TabEditor, TabRequests,
     Tab!TypeOK, Sharer, Writing
<1>2. Tab!WorkKept
  BY DEF TabInv, TabEditor, Tab!WorkKept
<1>. QED
  BY <1>1, <1>2

LEMMA TabRequest ==
  ASSUME PagesAssumption, NEW k \in Tab!Kinds, NEW tok \in 0..TabLogins
  PROVE  /\ Tab!Request(k, tok) \in TabAsks
         /\ Tab!Request(k, tok).kind = k /\ Tab!Request(k, tok).tok = tok
         /\ Tab!Request(k, tok).mine = None /\ Tab!Request(k, tok).ok = FALSE
         /\ Tab!Request(k, tok).done = FALSE
BY TabNames DEF Tab!Request, TabAsks, Sharer, Writing

\* A request that reads nothing yet.
LEMMA TabBlank ==
  ASSUME PagesAssumption, NEW k \in Tab!Kinds \ {"login", "submit"}, NEW tok \in 0..TabLogins,
         tok # 0 => seat \in Sharers
  PROVE  Tab!Request(k, tok) \in TabAsks /\ TabAsk(Tab!Request(k, tok))
<1>1. PICK q : q = Tab!Request(k, tok)
  OBVIOUS
<1>2. /\ q \in TabAsks /\ q.kind = k /\ q.tok = tok /\ q.mine = None /\ q.ok = FALSE
  BY <1>1, TabRequest
<1>3. TabAsk(q)
  BY <1>2 DEF TabAsk, Writing
<1>. QED
  BY <1>1, <1>2, <1>3

LEMMA TabInit == PagesAssumption /\ Tab!Init => TabInv
<1>. SUFFICES ASSUME PagesAssumption, Tab!Init PROVE TabInv
  OBVIOUS
<1>1. TabServer /\ TabHook /\ TabEditor
  BY TabNames DEF Tab!Init, TabServer, TabHook, TabEditor, Sharer, Writing
<1>2. IsFiniteSet(wire) /\ Cardinality(wire) = 1
  BY FS_Singleton DEF Tab!Init
<1>3. Tab!Request("mount", 0) \in TabAsks /\ TabAsk(Tab!Request("mount", 0))
  <2>1. "mount" \in Tab!Kinds \ {"login", "submit"} /\ 0 \in 0..TabLogins
    BY TabNames DEF Tab!Kinds, Tab!RoundKinds
  <2>. QED
    BY <2>1, TabBlank
<1>4. wire = {Tab!Request("mount", 0)}
  BY DEF Tab!Init
<1>5. Cardinality(wire) <= TabWire
  BY <1>2, TabNames
<1>. QED
  BY <1>1, <1>2, <1>3, <1>4, <1>5 DEF TabInv, TabRequests

\* What requests and the editor rely on stays so.
LEMMA TabStays ==
  ASSUME TabInv, work' = work, seat \in Sharers => seat' \in Sharers,
         logins \in Nat, logins' \in Nat, logins <= logins'
  PROVE  /\ \A q \in wire : TabAsk(q)'
         /\ UNCHANGED <<page, ctx, text, draft>> => TabEditor'
<1>1. ASSUME NEW q \in wire PROVE TabAsk(q)'
  <2>1. TabAsk(q)
    BY DEF TabInv, TabRequests
  <2>2. q.new \in 1..logins => q.new \in 1..logins'
    OBVIOUS
  <2>. QED
    BY <2>1, <2>2 DEF TabAsk
<1>2. ASSUME UNCHANGED <<page, ctx, text, draft>> PROVE TabEditor'
  BY <1>2 DEF TabInv, TabEditor
<1>. QED
  BY <1>1, <1>2

\* A step that leaves the editor alone.
LEMMA TabAround ==
  ASSUME PagesAssumption, TabInv, TabServer', TabHook', logins <= logins',
         UNCHANGED <<page, ctx, text, draft>>,
         work' = work, seat \in Sharers => seat' \in Sharers,
         IsFiniteSet(wire'), Cardinality(wire') <= TabWire,
         \A q \in wire' : q \in wire \/ (q \in TabAsks /\ TabAsk(q)')
  PROVE  TabInv'
<1>1. logins \in Nat /\ logins' \in Nat
  BY TabNames DEF TabInv, TabServer
<1>2. (\A q \in wire : TabAsk(q)') /\ TabEditor'
  BY <1>1, TabStays
<1>3. TabRequests'
  BY <1>2 DEF TabInv, TabRequests
<1>. QED
  BY <1>2, <1>3 DEF TabInv

LEMMA TabWorld ==
  ASSUME PagesAssumption, TabInv,
         \/ Tab!CloseRound \/ Tab!PublishRound \/ Tab!OpenRevision
         \/ \E t \in Tab!Tokens : Tab!Expire(t)
  PROVE  TabInv'
<1>. USE DEF Tab!hook, Tab!editor
<1>1. UNCHANGED <<saved, logins, cookie, page, label, round, mine, loggedIn, ctx, text, draft,
                  seat, work, wire>>
  BY DEF Tab!CloseRound, Tab!PublishRound, Tab!OpenRevision, Tab!Expire
<1>2. /\ open' \in TabRounds \cup {0} /\ last' \in TabRounds /\ open' \in {0, last'}
      /\ live' \in [1..TabLogins -> Sharer]
  <2>1. CASE Tab!CloseRound \/ Tab!PublishRound \/ Tab!OpenRevision
    BY <2>1 DEF Tab!CloseRound, Tab!PublishRound, Tab!OpenRevision, TabInv, TabServer
  <2>2. ASSUME NEW t \in Tab!Tokens, Tab!Expire(t)
        PROVE  UNCHANGED <<open, last>> /\ live' \in [1..TabLogins -> Sharer]
    BY <2>2 DEF Tab!Expire, TabInv, TabServer, Sharer
  <2>. QED
    BY <2>1, <2>2 DEF TabInv, TabServer
<1>3. TabServer'
  BY <1>1, <1>2 DEF TabInv, TabServer
<1>4. TabHook'
  BY <1>1 DEF TabInv, TabHook
<1>5. IsFiniteSet(wire') /\ Cardinality(wire') <= TabWire /\ logins <= logins'
  BY <1>1, TabNames DEF TabInv, TabRequests, TabServer
<1>. QED
  BY <1>1, <1>3, <1>4, <1>5, TabAround

\* Requests that the page sends.
LEMMA TabSends ==
  ASSUME PagesAssumption, TabInv,
         \/ Tab!Poll \/ Tab!ConfirmLogout \/ Tab!Submit \/ Tab!AskResult
         \/ \E s \in Sharers : Tab!Login(s)
  PROVE  TabInv'
<1>. USE DEF Tab!server, Tab!hook, Tab!editor
<1>1. UNCHANGED <<open, last, saved, revise, live, logins, cookie, page, label, round, mine,
                  loggedIn, ctx, text, draft, seat, work>>
  BY DEF Tab!Poll, Tab!ConfirmLogout, Tab!Submit, Tab!AskResult, Tab!Login
<1>2. /\ cookie \in 0..TabLogins /\ (cookie # 0 => seat \in Sharers) /\ text \in Writing
      /\ round \in TabRounds \cup {0} /\ label \in Sharer
  BY TabNames DEF TabInv, TabServer, TabHook, TabEditor
<1>3. \A k \in Tab!Kinds \ {"login", "submit"} :
        Tab!Request(k, cookie) \in TabAsks /\ TabAsk(Tab!Request(k, cookie))
  BY <1>2, TabBlank
<1>4. \E r \in TabAsks : /\ TabAsk(r) /\ wire' = wire \cup {r} /\ Cardinality(wire) < TabWire
  <2>. USE PageCardinality DEF Tab!Send
  <2>1. {"poll", "navLogout", "result"} \subseteq Tab!Kinds \ {"login", "submit"}
    BY DEF Tab!Kinds, Tab!RoundKinds
  <2>2. CASE Tab!Poll
    BY <1>3, <2>1, <2>2 DEF Tab!Poll
  <2>3. CASE Tab!ConfirmLogout
    BY <1>3, <2>1, <2>3 DEF Tab!ConfirmLogout
  <2>4. CASE Tab!AskResult
    <3>1. PICK q : q = Tab!Request("result", cookie)
      OBVIOUS
    <3>2. PICK r : r = [q EXCEPT !.who = label]
      OBVIOUS
    <3>3. q \in TabAsks /\ TabAsk(q) /\ q.kind = "result"
      BY <1>2, <1>3, <2>1, <3>1, TabRequest DEF Tab!Kinds
    <3>4. r \in TabAsks /\ r.kind = "result" /\ r.tok = q.tok
      BY <1>2, <3>2, <3>3 DEF TabAsks
    <3>5. TabAsk(r)
      BY <3>3, <3>4 DEF TabAsk, Tab!RoundKinds
    <3>. QED
      BY <2>4, <3>1, <3>2, <3>4, <3>5 DEF Tab!AskResult
  <2>5. CASE Tab!Submit
    <3>1. PICK q : q = Tab!Request("submit", cookie)
      OBVIOUS
    <3>2. PICK r : r = [q EXCEPT !.text = text, !.round = round]
      OBVIOUS
    <3>3. q \in TabAsks /\ q.kind = "submit" /\ q.tok = cookie /\ q.ok = FALSE
      BY <1>2, <3>1, TabRequest DEF Tab!Kinds
    <3>4. /\ r \in TabAsks /\ r.kind = "submit" /\ r.tok = cookie /\ r.text = text
          /\ r.round = round /\ r.ok = FALSE
      BY <1>2, <3>2, <3>3 DEF TabAsks
    <3>5. text # None /\ wire' = wire \cup {r} /\ Cardinality(wire) < TabWire
      BY <2>5, <3>1, <3>2 DEF Tab!Submit
    <3>6. Tab!isOpen /\ Tab!Key = <<label, round>> /\ round \in TabRounds
      BY <1>2, <2>5 DEF Tab!Submit, Tab!isOpen, Tab!Key
    <3>7. work[round] \in {None, text}
      BY <3>6 DEF Tab!isOpen, TabInv, TabEditor
    <3>8. TabAsk(r)
      BY <1>2, <3>4, <3>5, <3>6, <3>7 DEF TabAsk, Tab!RoundKinds
    <3>. QED
      BY <3>4, <3>5, <3>8
  <2>6. ASSUME NEW s \in Sharers, Tab!Login(s)
        PROVE  \E r \in TabAsks : /\ TabAsk(r) /\ wire' = wire \cup {r}
                                  /\ Cardinality(wire) < TabWire
    <3>1. PICK q : q = Tab!Request("login", cookie)
      OBVIOUS
    <3>2. PICK r : r = [q EXCEPT !.who = s]
      OBVIOUS
    <3>3. q \in TabAsks /\ q.kind = "login" /\ q.tok = cookie /\ q.done = FALSE
      BY <1>2, <3>1, TabRequest DEF Tab!Kinds
    <3>4. r \in TabAsks /\ r.kind = "login" /\ r.tok = cookie /\ r.who = s /\ r.done = FALSE
      BY <1>2, <3>2, <3>3 DEF TabAsks, Sharer
    <3>5. TabAsk(r)
      BY <1>2, <3>4 DEF TabAsk, Tab!RoundKinds
    <3>. QED
      BY <2>6, <3>1, <3>2, <3>4, <3>5 DEF Tab!Login
  <2>. QED
    BY <2>2, <2>3, <2>4, <2>5, <2>6
<1>5. PICK r \in TabAsks : TabAsk(r) /\ wire' = wire \cup {r} /\ Cardinality(wire) < TabWire
  BY <1>4
<1>6. IsFiniteSet(wire') /\ Cardinality(wire') <= TabWire
  BY <1>5, OneMore, TabNames DEF TabInv, TabRequests
<1>7. TabAsk(r)'
  BY <1>1, <1>5 DEF TabAsk
<1>8. TabServer' /\ TabHook' /\ logins <= logins'
  BY <1>1, TabNames DEF TabInv, TabServer, TabHook
<1>9. \A q \in wire' : q \in wire \/ (q \in TabAsks /\ TabAsk(q)')
  BY <1>5, <1>7
<1>. QED
  BY <1>1, <1>6, <1>8, <1>9, TabAround

\* What is written goes to the draft, and to the editor when it is written there.
LEMMA TabNote ==
  ASSUME TabInv, NEW t \in Writing, Tab!Note(t), round \in TabRounds,
         draft' = [draft EXCEPT ![round] = t], wire' = wire,
         ctx' = ctx, page' = page, text' \in Writing, text' # None => ctx # None,
         ctx = None \/ (ctx[2] = round /\ text' = t),
         UNCHANGED <<logins, seat>>
  PROVE  TabEditor' /\ TabRequests'
<1>1. PICK busySubmit : busySubmit = Tab!Submitting
  OBVIOUS
<1>2. work' = [work EXCEPT ![round] = IF busySubmit THEN None ELSE t]
  BY <1>1 DEF Tab!Note
<1>3. /\ work \in [TabRounds -> Writing] /\ draft \in [TabRounds -> Writing] /\ None \in Writing
      /\ ctx \in (Sharers \X TabRounds) \cup {None} /\ (page # "algorithm" => ctx = None)
      /\ \A r \in TabRounds : work[r] # None =>
           draft[r] = work[r] /\ (ctx # None /\ ctx[2] = r => text = work[r])
  BY DEF TabInv, TabEditor, Writing
<1>4. /\ work' \in [TabRounds -> Writing] /\ draft' \in [TabRounds -> Writing]
      /\ work'[round] = (IF busySubmit THEN None ELSE t) /\ draft'[round] = t
      /\ \A r \in TabRounds \ {round} : work'[r] = work[r] /\ draft'[r] = draft[r]
  BY <1>2, <1>3
<1>5. ASSUME NEW r \in TabRounds, work'[r] # None
      PROVE  draft'[r] = work'[r] /\ (ctx' # None /\ ctx'[2] = r => text' = work'[r])
  BY <1>3, <1>4, <1>5
<1>6. TabEditor'
  BY <1>3, <1>4, <1>5 DEF TabEditor
<1>7. ASSUME NEW q \in wire PROVE TabAsk(q)'
  <2>1. TabAsk(q)
    BY DEF TabInv, TabRequests
  <2>2. q.kind = "submit" /\ q.round = round => busySubmit
    BY <1>1 DEF Tab!Submitting
  <2>3. q.kind = "submit" /\ q.round = round => work'[q.round] = None
    BY <1>4, <2>2
  <2>4. q.kind = "submit" /\ q.round # round => work'[q.round] = work[q.round]
    BY <1>4, <2>1 DEF TabAsk
  <2>. QED
    BY <2>1, <2>3, <2>4 DEF TabAsk
<1>8. TabRequests'
  BY <1>7 DEF TabInv, TabRequests
<1>. QED
  BY <1>6, <1>8

\* The editor: what it restores, and what is written, copied or erased.
LEMMA TabWrites ==
  ASSUME PagesAssumption, TabInv,
         \/ Tab!Restore \/ Tab!Erase \/ \E v \in Drafts : Tab!Type(v) \/ Tab!CopyHistory(v)
  PROVE  TabInv'
<1>. USE DEF Tab!server, Tab!hook, Tab!editor
<1>1. UNCHANGED <<open, last, saved, revise, live, logins, cookie, page, label, round, mine,
                  loggedIn, seat, wire>>
  BY DEF Tab!Restore, Tab!Erase, Tab!Type, Tab!CopyHistory
<1>2. TabServer' /\ TabHook'
  BY <1>1 DEF TabInv, TabServer, TabHook
<1>3. /\ text \in Writing /\ draft \in [TabRounds -> Writing]
      /\ ctx \in (Sharers \X TabRounds) \cup {None} /\ (text # None => ctx # None)
      /\ page # "algorithm" => ctx = None
      /\ label \in Sharer /\ round \in TabRounds \cup {0} /\ mine \in Writing
      /\ loggedIn => seat \in Sharers
      /\ None \in Writing
  BY DEF TabInv, TabEditor, TabHook, Writing
<1>4. Tab!Key # None => Tab!Key = <<label, round>> /\ label \in Sharers /\ round \in TabRounds
  BY <1>3 DEF Tab!Key, Sharer
<1>5. CASE Tab!Restore
  <2>1. /\ Tab!Key # None /\ page = "algorithm" /\ ctx' = Tab!Key /\ draft' = draft
        /\ text' = (IF draft[round] # None THEN draft[round] ELSE mine) /\ work' = work
    BY <1>5 DEF Tab!Restore
  <2>2. ctx' = <<label, round>> /\ ctx'[2] = round /\ ctx' \in Sharers \X TabRounds
    BY <1>4, <2>1
  <2>3. text' \in Writing
    BY <1>3, <1>4, <2>1
  <2>4. ctx' # None
    BY <2>1
  <2>5. ASSUME NEW r \in TabRounds, work'[r] # None
        PROVE  draft'[r] = work'[r] /\ (ctx' # None /\ ctx'[2] = r => text' = work'[r])
    BY <2>1, <2>2, <2>5 DEF TabInv, TabEditor
  <2>6. TabEditor'
    BY <1>1, <1>3, <2>1, <2>2, <2>3, <2>4, <2>5 DEF TabInv, TabEditor
  <2>7. TabRequests'
    BY <1>1, <2>1 DEF TabInv, TabRequests, TabAsk
  <2>. QED
    BY <1>2, <2>6, <2>7 DEF TabInv
<1>6. ASSUME NEW t \in Writing, Tab!isOpen, text' = t, ctx' = ctx,
             draft' = [draft EXCEPT ![round] = t], Tab!Note(t)
      PROVE  TabInv'
  <2>1. Tab!Key # None /\ ctx = Tab!Key
    BY <1>6 DEF Tab!isOpen
  <2>2. round \in TabRounds /\ ctx[2] = round /\ ctx # None
    BY <1>4, <2>1
  <2>. QED
    BY <1>1, <1>2, <1>6, <2>2, TabNote DEF TabInv
<1>7. ASSUME NEW v \in Drafts, loggedIn, round \in TabRounds PROVE Tab!Written(v) \in Writing
  BY <1>3, <1>7 DEF Tab!Written, Tab!Texts, Writing
<1>8. ASSUME NEW v \in Drafts, Tab!Type(v) PROVE TabInv'
  <2>1. /\ loggedIn /\ Tab!isOpen /\ text' = Tab!Written(v) /\ ctx' = ctx
        /\ draft' = [draft EXCEPT ![round] = text'] /\ Tab!Note(text')
    BY <1>8 DEF Tab!Type, Tab!Shown
  <2>2. PICK t : t = text'
    OBVIOUS
  <2>3. t \in Writing
    BY <1>4, <1>7, <2>1, <2>2 DEF Tab!isOpen
  <2>4. Tab!Note(t)
    BY <2>1, <2>2 DEF Tab!Note
  <2>. QED
    BY <1>6, <2>1, <2>2, <2>3, <2>4
<1>9. CASE Tab!Erase
  BY <1>3, <1>6, <1>9 DEF Tab!Erase
<1>10. ASSUME NEW v \in Drafts, Tab!CopyHistory(v) PROVE TabInv'
  <2>1. PICK existing : existing = IF draft[round] # None THEN draft[round] ELSE mine
    OBVIOUS
  <2>2. PICK t : t = IF existing = None THEN Tab!Written(v) ELSE [existing EXCEPT !.v = @ \cup {v}]
    OBVIOUS
  <2>3. /\ loggedIn /\ page = "write" /\ round # 0 /\ ctx' = ctx /\ text' = text
        /\ draft' = [draft EXCEPT ![round] = t] /\ Tab!Note(t)
    BY <1>10, <2>1, <2>2 DEF Tab!CopyHistory, Tab!Shown
  <2>4. ctx = None /\ round \in TabRounds
    BY <1>3, <2>3
  <2>5. existing \in Writing
    BY <1>3, <2>1, <2>4
  <2>6. existing # None => [existing EXCEPT !.v = @ \cup {v}] \in Writing
    BY <2>5 DEF Writing, Tab!Texts
  <2>7. t \in Writing
    BY <1>7, <2>2, <2>3, <2>4, <2>6
  <2>8. text' \in Writing /\ (text' # None => ctx # None) /\ page' = page /\ wire' = wire
        /\ UNCHANGED <<logins, seat>>
    BY <1>1, <1>3, <2>3
  <2>9. TabEditor' /\ TabRequests'
    BY <2>3, <2>4, <2>7, <2>8, TabNote
  <2>. QED
    BY <1>2, <2>9 DEF TabInv
<1>. QED
  BY <1>5, <1>8, <1>9, <1>10

\* A document that is loaded anew.
LEMMA TabAnew ==
  ASSUME PagesAssumption, TabInv, Tab!Fresh, UNCHANGED <<Tab!server, cookie, seat, work>>,
         draft' \in [TabRounds -> Writing],
         \A r \in TabRounds : work[r] # None => draft'[r] = draft[r]
  PROVE  TabInv'
<1>. USE DEF Tab!server
<1>1. /\ loggedIn' = FALSE /\ label' = None /\ round' = 0 /\ mine' = None
      /\ ctx' = None /\ text' = None /\ wire' = {Tab!Request("mount", cookie')}
  BY DEF Tab!Fresh
<1>2. TabServer' /\ TabHook' /\ TabEditor'
  BY <1>1, TabNames DEF TabInv, TabServer, TabHook, TabEditor, Sharer, Writing
<1>3. PICK r : r = Tab!Request("mount", cookie)
  OBVIOUS
<1>4. wire' = {r}
  BY <1>1, <1>3 DEF Tab!Request
<1>5. r \in TabAsks /\ TabAsk(r)
  <2>1. /\ "mount" \in Tab!Kinds \ {"login", "submit"} /\ cookie \in 0..TabLogins
        /\ cookie # 0 => seat \in Sharers
    BY TabNames DEF TabInv, TabServer, TabHook, Tab!Kinds, Tab!RoundKinds
  <2>. QED
    BY <1>3, <2>1, TabBlank
<1>6. TabAsk(r)'
  BY <1>5 DEF TabAsk
<1>7. IsFiniteSet(wire') /\ Cardinality(wire') = 1
  BY <1>4, FS_Singleton
<1>8. Cardinality(wire') <= TabWire
  BY <1>7, TabNames
<1>. QED
  BY <1>2, <1>4, <1>5, <1>6, <1>7, <1>8 DEF TabInv, TabRequests

LEMMA TabServe ==
  ASSUME PagesAssumption, TabInv, NEW q \in wire, Tab!Serve(q)
  PROVE  TabInv'
<1>. USE DEF Tab!server, Tab!hook, Tab!editor
<1>1. q \in TabAsks /\ TabAsk(q)
  BY DEF TabInv, TabRequests
<1>2. /\ UNCHANGED <<cookie, page, label, round, mine, loggedIn, ctx, text, draft, seat>>
      /\ Tab!ServeSubmit(q) \/ work' = work
  BY DEF Tab!Serve
<1>3. /\ open \in TabRounds \cup {0} /\ last \in TabRounds
      /\ saved \in [TabRounds -> [Sharers -> Writing]]
      /\ live \in [1..TabLogins -> Sharer] /\ logins \in 0..TabLogins /\ TabLogins \in Nat
  BY TabNames DEF TabInv, TabServer
<1>0. q.kind # "submit" => work' = work
  BY <1>2 DEF Tab!ServeSubmit
<1>4. ASSUME NEW new \in TabAsks, wire' = (wire \ {q}) \cup {new}, TabAsk(new)',
             TabServer', logins <= logins', work' = work
      PROVE  TabInv'
  <2>1. IsFiniteSet(wire') /\ Cardinality(wire') <= TabWire
    BY <1>4, NotMore, TabNames DEF TabInv, TabRequests
  <2>2. cookie' \in 0..logins'
    BY <1>2, <1>3, <1>4, TabNames DEF TabInv, TabHook, TabServer
  <2>3. TabHook'
    BY <1>2, <1>4, <2>2 DEF TabInv, TabHook
  <2>. QED
    BY <1>2, <1>4, <2>1, <2>3, TabAround
<1>5. PICK s : s = Tab!Who(q.tok)
  OBVIOUS
<1>6. s \in Sharer /\ (s # None => q.tok # 0)
  BY <1>1, <1>3, <1>5, TabNames DEF Tab!Who, Sharer
<1>7. CASE Tab!ServeRound(q)
  <2>1. UNCHANGED <<open, last, saved, revise, live, logins>> /\ q.kind \in Tab!RoundKinds
    BY <1>7 DEF Tab!ServeRound
  <2>2. PICK m : m = Tab!Mine(s)
    OBVIOUS
  <2>3. PICK new : new = [q EXCEPT !.ok = (s # None), !.who = s,
                            !.round = IF s = None THEN 0 ELSE open,
                            !.mine = m, !.canRevise = (revise /\ m # None), !.done = TRUE]
    OBVIOUS
  <2>4. wire' = (wire \ {q}) \cup {new}
    BY <1>1, <1>5, <1>7, <2>2, <2>3 DEF Tab!ServeRound, Tab!Answer, TabAsks
  <2>5. m \in Writing
    BY <1>3, <1>6, <2>2, TabNames DEF Tab!Mine, Sharer, Writing
  <2>6. /\ new \in TabAsks /\ new.kind = q.kind /\ new.tok = q.tok /\ new.mine = m
        /\ new.ok = (s # None) /\ new.who = s /\ new.round = IF s = None THEN 0 ELSE open
    BY <1>1, <1>3, <1>6, <2>3, <2>5 DEF TabAsks
  <2>7. TabAsk(new)
    BY <1>1, <1>6, <2>1, <2>5, <2>6 DEF TabAsk, Tab!RoundKinds
  <2>8. TabAsk(new)' /\ TabServer' /\ logins <= logins'
    BY <1>2, <1>3, <1>0, <2>1, <2>6, <2>7 DEF TabAsk, TabInv, TabServer, Tab!RoundKinds
  <2>. QED
    BY <1>4, <1>0, <2>1, <2>4, <2>6, <2>8 DEF Tab!RoundKinds
<1>8. CASE Tab!ServeLogin(q)
  <2>1. PICK n : n = logins + 1
    OBVIOUS
  <2>2. PICK new : new = [q EXCEPT !.ok = TRUE, !.new = n, !.done = TRUE]
    OBVIOUS
  <2>3. /\ q.kind = "login" /\ logins < TabLogins /\ logins' = n
        /\ live' = [live EXCEPT ![n] = q.who]
        /\ wire' = (wire \ {q}) \cup {new} /\ UNCHANGED <<open, last, saved>>
    BY <1>1, <1>8, <2>1, <2>2 DEF Tab!ServeLogin, Tab!Answer, TabAsks
  <2>4. n \in 1..TabLogins /\ n \in 0..TabLogins /\ logins <= n /\ n \in 1..n
    BY <1>3, <2>1, <2>3
  <2>5. /\ new \in TabAsks /\ new.kind = "login" /\ new.tok = q.tok /\ new.who = q.who
        /\ new.new = n
    BY <1>1, <2>2, <2>3, <2>4 DEF TabAsks
  <2>6. TabAsk(new)'
    BY <1>1, <1>2, <2>3, <2>4, <2>5 DEF TabAsk, Tab!RoundKinds
  <2>7. live' \in [1..TabLogins -> Sharer]
    BY <1>1, <1>3, <2>3, <2>4 DEF TabAsks
  <2>8. TabServer'
    BY <2>3, <2>4, <2>7 DEF TabInv, TabServer
  <2>. QED
    BY <1>4, <1>0, <2>3, <2>4, <2>5, <2>6, <2>8
<1>9. CASE Tab!ServeLogout(q)
  <2>1. PICK new : new = [q EXCEPT !.ok = TRUE, !.done = TRUE]
    OBVIOUS
  <2>2. /\ q.kind \in {"navLogout", "logout"} /\ UNCHANGED <<open, last, saved, logins>>
        /\ live' = IF q.tok \in 1..TabLogins THEN [live EXCEPT ![q.tok] = None] ELSE live
        /\ wire' = (wire \ {q}) \cup {new}
    BY <1>1, <1>9, <2>1, TabNames DEF Tab!ServeLogout, Tab!Answer, TabAsks
  <2>3. new \in TabAsks /\ new.kind = q.kind /\ new.tok = q.tok
    BY <1>1, <2>1 DEF TabAsks
  <2>4. TabAsk(new)'
    BY <1>1, <1>2, <2>2, <2>3 DEF TabAsk, Tab!RoundKinds
  <2>5. live' \in [1..TabLogins -> Sharer]
    BY <1>3, <2>2 DEF Sharer
  <2>6. TabServer' /\ logins <= logins'
    BY <1>2, <1>3, <2>2, <2>5 DEF TabInv, TabServer
  <2>. QED
    BY <1>4, <1>0, <2>2, <2>3, <2>4, <2>6
<1>10. CASE Tab!ServeSubmit(q)
  <2>1. /\ q.kind = "submit" /\ q.text \in Writing /\ q.text # None /\ q.round \in TabRounds
        /\ work[q.round] \in {None, q.text} /\ (q.ok => work[q.round] = None)
        /\ UNCHANGED <<open, last, live, logins>>
    BY <1>1, <1>10 DEF Tab!ServeSubmit, TabAsk, TabAsks
  <2>2. PICK takes : takes = Tab!Takes(s)
    OBVIOUS
  <2>3. saved' \in [TabRounds -> [Sharers -> Writing]]
    <3>1. CASE Tab!Takes(s)
      <4>1. open \in TabRounds /\ s \in Sharers /\ saved' = [saved EXCEPT ![open][s] = q.text]
        BY <1>3, <1>5, <1>6, <1>10, <3>1 DEF Tab!ServeSubmit, Tab!Takes, Sharer
      <4>. QED
        BY <1>3, <2>1, <4>1
    <3>2. CASE ~ Tab!Takes(s)
      BY <1>3, <1>5, <1>10, <3>2 DEF Tab!ServeSubmit
    <3>. QED
      BY <3>1, <3>2
  <2>4. PICK new : new = IF takes THEN [q EXCEPT !.ok = TRUE, !.mine = q.text, !.done = TRUE]
                         ELSE [q EXCEPT !.done = TRUE]
    OBVIOUS
  <2>5. /\ wire' = (wire \ {q}) \cup {new}
        /\ work' = [work EXCEPT ![q.round] = IF takes /\ @ = q.text THEN None ELSE @]
    BY <1>1, <1>5, <1>10, <2>2, <2>4 DEF Tab!ServeSubmit, Tab!Answer, TabAsks
  <2>6. /\ new \in TabAsks /\ new.kind = "submit" /\ new.tok = q.tok /\ new.text = q.text
        /\ new.round = q.round /\ (new.ok => takes \/ q.ok)
    BY <1>1, <2>1, <2>4 DEF TabAsks
  <2>7. work \in [TabRounds -> Writing] /\ None \in Writing
    BY DEF TabInv, TabEditor, Writing
  <2>8. /\ work' \in [TabRounds -> Writing]
        /\ \A r \in TabRounds : work'[r] \in {work[r], None}
        /\ takes => work'[q.round] = None
    BY <2>1, <2>5, <2>7
  <2>9. ASSUME NEW z \in wire PROVE TabAsk(z)'
    <3>1. TabAsk(z)
      BY DEF TabInv, TabRequests
    <3>. QED
      BY <1>2, <2>1, <2>8, <3>1 DEF TabAsk
  <2>10. TabAsk(new)'
    BY <1>1, <1>2, <2>1, <2>6, <2>8 DEF TabAsk, Tab!RoundKinds
  <2>11. IsFiniteSet(wire') /\ Cardinality(wire') <= TabWire
    BY <2>5, NotMore, TabNames DEF TabInv, TabRequests
  <2>12. TabRequests'
    BY <2>5, <2>6, <2>9, <2>10, <2>11 DEF TabInv, TabRequests
  <2>13. TabServer' /\ TabHook'
    BY <1>2, <1>3, <2>1, <2>3 DEF TabInv, TabServer, TabHook
  <2>14. TabEditor'
    BY <1>2, <2>7, <2>8 DEF TabInv, TabEditor
  <2>. QED
    BY <2>12, <2>13, <2>14 DEF TabInv
<1>11. CASE Tab!ServeResult(q)
  <2>1. q.kind = "result" /\ UNCHANGED <<open, last, saved, live, logins>>
    BY <1>11 DEF Tab!ServeResult
  <2>2. PICK new : new = [q EXCEPT !.ok = TRUE, !.mine = s, !.done = TRUE]
    OBVIOUS
  <2>3. wire' = (wire \ {q}) \cup {new}
    BY <1>1, <1>5, <1>11, <2>2 DEF Tab!ServeResult, Tab!Answer, TabAsks
  <2>4. new \in TabAsks /\ new.kind = "result" /\ new.tok = q.tok
    BY <1>1, <1>6, <2>1, <2>2 DEF TabAsks
  <2>5. TabAsk(new)'
    BY <1>1, <1>2, <2>1, <2>4 DEF TabAsk, Tab!RoundKinds
  <2>6. TabServer' /\ logins <= logins'
    BY <1>3, <2>1 DEF TabInv, TabServer
  <2>. QED
    BY <1>4, <1>0, <2>1, <2>3, <2>4, <2>5, <2>6
<1>. QED
  BY <1>7, <1>8, <1>9, <1>10, <1>11 DEF Tab!Serve

LEMMA TabHears ==
  ASSUME PagesAssumption, TabInv, NEW q \in wire, Tab!Got(q) \/ Tab!Lose(q)
  PROVE  TabInv'
<1>. USE DEF Tab!server, Tab!hook, Tab!editor
<1>1. q \in TabAsks /\ TabAsk(q)
  BY DEF TabInv, TabRequests
<1>2. CASE Tab!GotSubmit(q) /\ q.ok
  <2>1. /\ Tab!Fresh /\ UNCHANGED <<Tab!server, cookie, seat, work>>
        /\ draft' = [draft EXCEPT ![q.round] = None] /\ q.kind = "submit"
    BY <1>2 DEF Tab!GotSubmit
  <2>2. draft \in [TabRounds -> Writing] /\ draft' \in [TabRounds -> Writing]
    BY <2>1 DEF TabInv, TabEditor, Writing
  <2>3. work[q.round] = None
    BY <1>1, <1>2, <2>1 DEF TabAsk
  <2>4. \A r \in TabRounds : work[r] # None => draft'[r] = draft[r]
    BY <2>1, <2>2, <2>3
  <2>. QED
    BY <2>1, <2>2, <2>4, TabAnew
<1>3. CASE ~(Tab!GotSubmit(q) /\ q.ok)
  <2>1. /\ UNCHANGED <<open, last, saved, live, logins, page, ctx, text, draft, work>>
        /\ \/ wire' = wire \ {q}
           \/ /\ q.kind = "login" /\ q.done
              /\ wire' = (wire \ {q}) \cup {Tab!Request("loginRound", q.new)}
              /\ cookie' = q.new /\ label' = q.who /\ seat' = q.who
              /\ UNCHANGED <<loggedIn, round, mine>>
           \/ /\ wire' = (wire \ {q}) \cup {Tab!Request("logout", 0)}
              /\ cookie' = 0 /\ UNCHANGED seat
           \/ /\ wire' = (wire \ {q}) \cup {Tab!Request("logout", cookie)}
              /\ UNCHANGED <<cookie, seat>>
    <3>1. CASE Tab!Got(q)
      BY <1>3, <3>1 DEF Tab!Got, Tab!GotRound, Tab!GotLogin, Tab!GotNavLogout, Tab!GotLogout,
         Tab!GotSubmit, Tab!GotResult, Tab!Taken
    <3>2. CASE Tab!Lose(q)
      BY <3>2 DEF Tab!Lose, Tab!Fails
    <3>. QED
      BY <3>1, <3>2
  <2>2. TabServer' /\ logins <= logins'
    BY <2>1, TabNames DEF TabInv, TabServer
  <2>3. TabHook' /\ (seat \in Sharers => seat' \in Sharers)
    <3>1. TabHook /\ None \notin Sharers /\ 0 \in 0..logins
      BY TabNames DEF TabInv, TabServer
    <3>2. CASE Tab!GotRound(q)
      <4>1. /\ q.kind \in Tab!RoundKinds /\ loggedIn' = q.ok /\ UNCHANGED <<cookie, seat>>
            /\ \/ /\ q.ok /\ label' = q.who /\ round' = q.round /\ mine' = q.mine
               \/ ~ q.ok /\ UNCHANGED <<label, round, mine>>
        BY <3>2 DEF Tab!GotRound
      <4>2. CASE ~ q.ok /\ UNCHANGED <<label, round, mine>>
        BY <2>1, <3>1, <4>1, <4>2 DEF TabHook
      <4>3. CASE q.ok /\ label' = q.who /\ round' = q.round /\ mine' = q.mine
        <5>1. /\ q.mine \in Writing
              /\ q.who # None /\ seat \in Sharers /\ q.who \in Sharer
              /\ q.round \in TabRounds \cup {0}
          BY <1>1, <4>1, <4>3 DEF TabAsk, TabAsks
        <5>. QED
          BY <2>1, <3>1, <4>1, <4>3, <5>1 DEF TabHook
      <4>. QED
        BY <4>1, <4>2, <4>3
    <3>3. CASE Tab!GotLogin(q)
      <4>1. /\ q.kind = "login" /\ q.done /\ cookie' = q.new /\ label' = q.who /\ seat' = q.who
            /\ UNCHANGED <<loggedIn, round, mine>>
        BY <3>3 DEF Tab!GotLogin, Tab!Taken
      <4>2. q.who \in Sharers /\ q.new \in 1..logins /\ q.new \in 0..logins
        BY <1>1, <4>1 DEF TabAsk
      <4>. QED
        BY <2>1, <3>1, <4>1, <4>2 DEF TabHook, Sharer
    <3>4. CASE Tab!GotNavLogout(q) \/ Tab!GotLogout(q)
      BY <2>1, <3>1, <3>4 DEF TabHook, Tab!GotNavLogout, Tab!GotLogout, Tab!Leave, Writing
    <3>5. CASE Tab!GotSubmit(q) \/ Tab!GotResult(q)
      BY <1>3, <2>1, <3>1, <3>5 DEF TabHook, Tab!GotSubmit, Tab!GotResult
    <3>6. CASE Tab!Lose(q)
      BY <2>1, <3>1, <3>6 DEF TabHook, Tab!Lose, Tab!Leave, Writing
    <3>. QED
      BY <3>2, <3>3, <3>4, <3>5, <3>6 DEF Tab!Got
  <2>4. IsFiniteSet(wire) /\ Cardinality(wire) <= TabWire /\ TabWire \in Nat
        /\ wire \ {q} \in SUBSET wire
    BY TabNames DEF TabInv, TabRequests
  <2>5. CASE wire' = wire \ {q}
    <3>1. IsFiniteSet(wire') /\ Cardinality(wire') <= TabWire
      BY <2>4, <2>5, NotMore
    <3>2. \A z \in wire' : z \in wire \/ (z \in TabAsks /\ TabAsk(z)')
      BY <2>5
    <3>. QED
      BY <2>1, <2>2, <2>3, <3>1, <3>2, TabAround
  <2>6. ASSUME NEW k \in {"loginRound", "logout"}, NEW tok \in 0..TabLogins,
               tok # 0 => seat' \in Sharers,
               wire' = (wire \ {q}) \cup {Tab!Request(k, tok)}
        PROVE  TabInv'
    <3>1. PICK r : r = Tab!Request(k, tok)
      OBVIOUS
    <3>2. /\ r \in TabAsks /\ r.kind = k /\ r.tok = tok /\ r.mine = None /\ r.ok = FALSE
      BY <2>6, <3>1, TabRequest DEF Tab!Kinds, Tab!RoundKinds
    <3>3. TabAsk(r)'
      BY <2>6, <3>2 DEF TabAsk, Writing
    <3>4. wire' = (wire \ {q}) \cup {r}
      BY <2>6, <3>1
    <3>5. IsFiniteSet(wire') /\ Cardinality(wire') <= TabWire
      BY <2>4, <3>4, NotMore
    <3>6. \A z \in wire' : z \in wire \/ (z \in TabAsks /\ TabAsk(z)')
      BY <3>2, <3>3, <3>4
    <3>. QED
      BY <2>1, <2>2, <2>3, <3>5, <3>6, TabAround
  <2>7. /\ 0 \in 0..TabLogins /\ cookie \in 0..TabLogins /\ (cookie # 0 => seat \in Sharers)
        /\ q.kind = "login" /\ q.done => q.new \in 0..TabLogins /\ q.who \in Sharers
    <3>1. logins \in 0..TabLogins /\ TabLogins \in Nat /\ cookie \in 0..logins
      BY TabNames DEF TabInv, TabServer, TabHook
    <3>. QED
      BY <1>1, <3>1 DEF TabAsk, TabInv, TabHook
  <2>. QED
    BY <2>1, <2>5, <2>6, <2>7
<1>. QED
  BY <1>2, <1>3

LEMMA TabStep ==
  PagesAssumption /\ TabInv /\ [Tab!Next]_(Tab!vars) => TabInv' /\ Tab!OnlyTypingChanges
<1>. SUFFICES ASSUME PagesAssumption, TabInv, [Tab!Next]_(Tab!vars)
              PROVE  TabInv' /\ Tab!OnlyTypingChanges
  OBVIOUS
<1>1. TabInv'
  <2>1. CASE UNCHANGED Tab!vars
    BY <2>1 DEF Tab!vars, Tab!server, Tab!hook, Tab!editor, TabInv, TabServer, TabHook, TabEditor,
       TabRequests, TabAsk
  <2>2. CASE Tab!Next
    <3>1. CASE \/ Tab!CloseRound \/ Tab!PublishRound \/ Tab!OpenRevision
               \/ \E t \in Tab!Tokens : Tab!Expire(t)
      BY <3>1, TabWorld
    <3>2. CASE \/ Tab!Poll \/ Tab!ConfirmLogout \/ Tab!Submit \/ Tab!AskResult
               \/ \E s \in Sharers : Tab!Login(s)
      BY <3>2, TabSends
    <3>3. CASE Tab!Restore \/ Tab!Erase \/ \E v \in Drafts : Tab!Type(v) \/ Tab!CopyHistory(v)
      BY <3>3, TabWrites
    <3>4. CASE \E p \in {"write", "algorithm"} : Tab!Navigate(p)
      <4>1. Tab!Fresh /\ UNCHANGED <<Tab!server, cookie, seat, work>> /\ draft' = draft
        BY <3>4 DEF Tab!Navigate
      <4>2. draft' \in [TabRounds -> Writing]
        BY <4>1 DEF TabInv, TabEditor
      <4>. QED
        BY <4>1, <4>2, TabAnew
    <3>5. CASE \E q \in wire : Tab!Serve(q) \/ Tab!Got(q) \/ Tab!Lose(q)
      BY <3>5, TabServe, TabHears
    <3>. QED
      BY <2>2, <3>1, <3>2, <3>3, <3>4, <3>5, Zenon DEF Tab!Next
  <2>. QED
    BY <2>1, <2>2
<1>2. text # None => ctx # None
  BY DEF TabInv, TabEditor
<1>3. \/ UNCHANGED <<ctx, text>>
      \/ ctx' = None /\ text' = None
      \/ ctx' # ctx
      \/ Tab!Erase \/ \E v \in Drafts : Tab!Type(v)
  <2>. USE DEF Tab!editor
  <2>1. CASE UNCHANGED Tab!vars
    BY <2>1 DEF Tab!vars
  <2>2. CASE \/ Tab!CloseRound \/ Tab!PublishRound \/ Tab!OpenRevision
             \/ \E t \in Tab!Tokens : Tab!Expire(t)
    BY <2>2 DEF Tab!CloseRound, Tab!PublishRound, Tab!OpenRevision, Tab!Expire
  <2>3. CASE \/ Tab!Poll \/ Tab!ConfirmLogout \/ Tab!Submit \/ Tab!AskResult
             \/ \E s \in Sharers : Tab!Login(s)
    BY <2>3 DEF Tab!Poll, Tab!ConfirmLogout, Tab!Submit, Tab!AskResult, Tab!Login
  <2>4. CASE Tab!Restore \/ Tab!Erase \/ \E v \in Drafts : Tab!Type(v) \/ Tab!CopyHistory(v)
    BY <2>4 DEF Tab!Restore, Tab!CopyHistory
  <2>5. CASE \E p \in {"write", "algorithm"} : Tab!Navigate(p)
    BY <2>5 DEF Tab!Navigate, Tab!Fresh
  <2>6. CASE \E q \in wire : Tab!Serve(q) \/ Tab!Lose(q)
    BY <2>6 DEF Tab!Serve, Tab!Lose
  <2>7. CASE \E q \in wire : Tab!Got(q)
    BY <2>7 DEF Tab!Got, Tab!GotRound, Tab!GotLogin, Tab!GotNavLogout, Tab!GotLogout,
       Tab!GotSubmit, Tab!GotResult, Tab!Fresh
  <2>. QED
    BY <2>1, <2>2, <2>3, <2>4, <2>5, <2>6, <2>7, Zenon DEF Tab!Next
<1>4. ASSUME NEW v \in Drafts, Tab!Type(v) PROVE Tab!OnlyTypingChanges
  BY <1>4 DEF Tab!Type, Tab!OnlyTypingChanges
<1>5. ASSUME Tab!Erase PROVE Tab!OnlyTypingChanges
  BY <1>5 DEF Tab!Erase, Tab!OnlyTypingChanges
<1>6. Tab!OnlyTypingChanges
  BY <1>2, <1>3, <1>4, <1>5 DEF Tab!OnlyTypingChanges
<1>. QED
  BY <1>1, <1>6

-----------------------------------------------------------------------------
(* The pages together: one of them is open.                                 *)

PagesInv ==
  /\ area = "tab" => TabInv
  /\ area = "execute" => ExecuteInv
  /\ area = "chooser" => ChooserInv
  /\ area = "explore" => ExploreInv
  /\ area = "panel" => PanelInv
  /\ area = "rounds" => RoundsTabInv
  /\ area = "job" => JobInv
  /\ area = "results" => ResultsInv
  /\ area = "auto" => AutoInv

\* A step is one of the page that is open.
LEMMA PagesMove ==
  ASSUME [Next]_vars
  PROVE  /\ area' = area
         /\ area = "tab" => [Tab!Next]_(Tab!vars)
         /\ area = "execute" => [Execute!Next]_(Execute!vars)
         /\ area = "chooser" => [Chooser!Next]_(Chooser!vars)
         /\ area = "explore" => [Explore!Next]_(Explore!vars)
         /\ area = "panel" => [Panel!Next]_(Panel!vars)
         /\ area = "rounds" => [RoundsTab!Next]_(RoundsTab!vars)
         /\ area = "job" => [Job!Next]_(Job!vars)
         /\ area = "results" => [Results!Next]_(Results!vars)
         /\ area = "auto" => [Grading!Next]_(Grading!vars)
<1>1. CASE UNCHANGED vars
  <2>1. UNCHANGED <<area, tabV, executeV, exploreV, panelV, roundsV, jobV, resultsV, autoV, shared>>
    BY <1>1 DEF vars
  <2>2. UNCHANGED Tab!vars /\ UNCHANGED Execute!vars /\ UNCHANGED Chooser!vars
    BY <2>1 DEF tabV, executeV, shared, Tab!vars, Tab!server, Tab!hook, Tab!editor,
       Execute!vars, Execute!server, Execute!cookie, Execute!gate, Execute!review, Execute!chooser,
       Chooser!vars, Chooser!server, Chooser!cookie, Chooser!gate, Chooser!review, Chooser!chooser
  <2>3. UNCHANGED Explore!vars /\ UNCHANGED Panel!vars /\ UNCHANGED RoundsTab!vars
    BY <2>1 DEF exploreV, panelV, roundsV, shared, Explore!vars, Explore!server, Explore!hook,
       Explore!page, Panel!vars, Panel!server, Panel!round, Panel!effect, RoundsTab!vars,
       RoundsTab!page
  <2>4. UNCHANGED Job!vars /\ UNCHANGED Results!vars /\ UNCHANGED Grading!vars
    BY <2>1 DEF jobV, resultsV, autoV, shared, Job!vars, Job!server, Job!page, Results!vars,
       Results!page, Grading!vars, Grading!pageVars, Grading!panelVars
  <2>. QED
    BY <2>1, <2>2, <2>3, <2>4
<1>2. CASE Next
  BY <1>2 DEF Next, InTab, InExecute, InExplore, InPanel, InRounds, InJob, InResults, InAuto
<1>. QED
  BY <1>1, <1>2

LEMMA PagesStay == Spec => []PagesInv
<1>1. Init => PagesInv
  BY PagesAssumption, TabInit, ExecuteInit, ChooserInit, ExploreInit, PanelInit, RoundsTabInit,
     JobInit, ResultsInit, AutoInit DEF Init, PagesInv
<1>2. PagesInv /\ [Next]_vars => PagesInv'
  <2>. SUFFICES ASSUME PagesInv, [Next]_vars PROVE PagesInv'
    OBVIOUS
  <2>1. /\ area = "tab" => TabInv'
        /\ area = "execute" => ExecuteInv'
        /\ area = "chooser" => ChooserInv'
    BY PagesAssumption, PagesMove, TabStep, ExecuteStep, ChooserStep DEF PagesInv
  <2>2. /\ area = "explore" => ExploreInv'
        /\ area = "panel" => PanelInv'
        /\ area = "rounds" => RoundsTabInv'
    BY PagesAssumption, PagesMove, ExploreStep, PanelStep, RoundsTabStep DEF PagesInv
  <2>3. /\ area = "job" => JobInv'
        /\ area = "results" => ResultsInv'
        /\ area = "auto" => AutoInv'
    BY PagesAssumption, PagesMove, JobStep, ResultsStep, AutoStep DEF PagesInv
  <2>4. area' = area
    BY PagesMove
  <2>. QED
    BY <2>1, <2>2, <2>3, <2>4 DEF PagesInv
<1>. QED
  BY <1>1, <1>2, PTL DEF Spec

\* The state of every page has its type, and the wire of each page its bound;
\* "due" and "pending" have what they wait for, a logged-in page its student.
THEOREM PagesAreTyped == Spec => []TypeOK
<1>1. PagesInv => TypeOK
  <2>. SUFFICES ASSUME PagesInv PROVE TypeOK
    OBVIOUS
  <2>1. /\ area = "tab" => Tab!TypeOK
        /\ area = "execute" => Execute!TypeOK
        /\ area = "chooser" => Chooser!TypeOK
    BY PagesAssumption, TabHolds, ExecuteHolds, ChooserHolds DEF PagesInv
  <2>2. /\ area = "explore" => Explore!TypeOK
        /\ area = "panel" => Panel!TypeOK
        /\ area = "rounds" => RoundsTab!TypeOK
    BY ExploreHolds, PanelHolds DEF PagesInv, RoundsTabInv
  <2>3. /\ area = "job" => Job!TypeOK
        /\ area = "results" => Results!TypeOK
        /\ area = "auto" => Grading!TypeOK
    BY PagesAssumption, JobHolds, ResultsHolds, AutoTypes DEF PagesInv
  <2>. QED
    BY <2>1, <2>2, <2>3 DEF TypeOK
<1>. QED
  BY <1>1, PagesStay, PTL

\* What a student wrote survives whatever the pages hear or miss and whoever logs
\* in: the text last written in the tab, except while a submit is under way, is the
\* draft until it is stored; a review that the page thanks for is stored; a note
\* stays with the version it was written about.
THEOREM WorkStays == Spec => []WorkIsKept
<1>1. PagesInv => WorkIsKept
  BY PagesAssumption, TabHolds, ExecuteHolds, PanelHolds DEF PagesInv, WorkIsKept
<1>. QED
  BY <1>1, PagesStay, PTL

\* The chooser lists what was asked for by who is logged in, the results show
\* the detail of the selected submission, the practice opens after all reviews
\* and a revision is offered when the server would take it.
THEOREM OwnIsShown == Spec => []ShownIsOwn
<1>1. PagesInv => ShownIsOwn
  BY PagesAssumption, ChooserHolds, ResultsHolds, ExploreHolds, PanelHolds
     DEF PagesInv, ShownIsOwn
<1>. QED
  BY <1>1, PagesStay, PTL

\* A row's second click sends nothing while the first is under way, and a round
\* has one active job, from however many pages it is started or resumed.
THEOREM OneIsSent == Spec => []OneAtATime
<1>1. PagesInv => OneAtATime
  BY PagesAssumption, JobHolds DEF PagesInv, OneAtATime, RoundsTabInv
<1>. QED
  BY <1>1, PagesStay, PTL

\* Answers arrive late and out of order, and still no page shows an older text,
\* job, run or result than before, nor drives a job on after an error.
THEOREM NothingReturns == Spec => NothingGoesBack
<1>. DEFINE Onward == /\ area = "tab" => Tab!OnlyTypingChanges
                      /\ area = "job" => Job!NeverBack /\ Job!DispatchStops
                      /\ area = "results" => Results!ResultsGrow
                      /\ area = "auto" => Grading!NeverBack
<1>1. PagesInv /\ [Next]_vars => [Onward]_vars
  <2>. SUFFICES ASSUME PagesInv, [Next]_vars PROVE Onward
    OBVIOUS
  <2>1. area = "tab" => Tab!OnlyTypingChanges
    BY PagesAssumption, PagesMove, TabStep DEF PagesInv
  <2>2. area = "job" => Job!NeverBack /\ Job!DispatchStops
    BY PagesAssumption, PagesMove, JobStep DEF PagesInv
  <2>3. area = "results" => Results!ResultsGrow
    BY PagesAssumption, PagesMove, ResultsStep DEF PagesInv
  <2>4. area = "auto" => Grading!NeverBack
    BY PagesAssumption, PagesMove, AutoStep DEF PagesInv
  <2>. QED
    BY <2>1, <2>2, <2>3, <2>4
<1>. QED
  BY <1>1, PagesStay, PTL DEF Spec, NothingGoesBack
=============================================================================
