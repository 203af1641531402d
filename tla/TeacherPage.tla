---------------------------- MODULE TeacherPage ----------------------------
(***************************************************************************)
(* The rounds tab of the teacher's page (app/teacher/page.tsx) against the *)
(* server's rounds: actions guarded by a ref and by buttons that are       *)
(* disabled on the next render, loads of the list and of one round's       *)
(* detail that are answered in any order or never, and the automatic       *)
(* refresh.  A load reads the server when it is served and sets the page   *)
(* when its answer arrives.                                                *)
(***************************************************************************)
EXTENDS Naturals, Sequences

CONSTANTS
  Rounds,
  Slots,      \* loads of the interval and of the rows in flight at one time
  Clicks,     \* actions in flight at one time, if the guard let them; each has a load of its own
  MaxActions, \* bound on actions
  MaxFailed,  \* bound on loads that fail
  None

VARIABLES
  srv,      \* status of each round on the server; "gone" once deleted
  list,     \* the status the page shows
  detailId, \* the round whose row is unfolded
  detail,   \* the round that the detail shown below it is about
  busyRef, busy, \* the ref, and the state as last rendered
  autoRefresh, \* the switch of the interval
  act,      \* actions in flight
  load,     \* loads in flight
  actions, failed

page == <<list, detailId, detail, autoRefresh>>
vars == <<srv, page, busyRef, busy, act, load, actions, failed>>

Statuses == {"new", "draft", "open", "closed", "gone"}
Ops == {"create", "publish", "close", "delete"}
Idle == [pc |-> "idle"]

TypeOK ==
  /\ srv \in [Rounds -> Statuses] /\ list \in [Rounds -> Statuses]
  /\ detailId \in Rounds \cup {None} /\ detail \in Rounds \cup {None}
  /\ busyRef \in BOOLEAN /\ busy \in BOOLEAN /\ autoRefresh \in BOOLEAN
  /\ \A c \in Clicks : act[c].pc \in {"idle", "sent", "answered", "reload"}
  /\ \A l \in Slots \cup Clicks : load[l].pc \in {"idle", "sent", "served"}
  /\ (\E c \in Clicks : act[c].pc # "idle") <=> busyRef

After(op) ==
  CASE op = "create" -> "draft" [] op = "publish" -> "open" [] op = "close" -> "closed" [] op = "delete" -> "gone"

\* The buttons a round has.
Offers(op, st) ==
  CASE op = "create"  -> st = "new"
    [] op = "publish" -> st = "draft"
    [] op = "close"   -> st = "open"
    [] op = "delete"  -> st \in {"draft", "closed"}

\* The routes' own checks (WarmupRounds).
Accepts(op, r) ==
  /\ Offers(op, srv[r])
  /\ op = "publish" => \A q \in Rounds : srv[q] # "open"

\* Slip: the guard is the rendered state only.
GuardsRendered == ~busy

\* runWarmupAction: the ref flips before the first await.
Guards == ~busyRef

\* What an accepted action loads before it ends; the detail is the one that
\* was unfolded when the button was rendered.
Reloads(op, r) ==
  CASE op = "delete" -> <<>>
    [] op = "close" /\ detailId = r -> <<"list", "detail">>
    [] OTHER -> <<"list">>

-----------------------------------------------------------------------------
\* A button that is not disabled as rendered.
Click(c, op, r) ==
  /\ act[c].pc = "idle" /\ actions < MaxActions
  /\ ~busy /\ Offers(op, list[r])
  /\ Guards
  /\ busyRef' = TRUE
  /\ act' = [act EXCEPT ![c] = [pc |-> "sent", op |-> op, round |-> r,
                                ok |-> FALSE, todo |-> Reloads(op, r),
                                folds |-> op = "delete" /\ detailId = r]]
  /\ actions' = actions + 1
  /\ UNCHANGED <<srv, page, busy, load, failed>>

Render ==
  /\ busy # busyRef /\ busy' = busyRef
  /\ UNCHANGED <<srv, page, busyRef, act, load, actions, failed>>

\* The route carries the action out or refuses it.
ServeAction(c) ==
  LET a == act[c] IN
  /\ a.pc = "sent"
  /\ IF Accepts(a.op, a.round)
     THEN /\ srv' = [srv EXCEPT ![a.round] = After(a.op)]
          /\ act' = [act EXCEPT ![c].pc = "answered", ![c].ok = TRUE]
     ELSE act' = [act EXCEPT ![c].pc = "answered", ![c].todo = <<>>] /\ UNCHANGED srv
  /\ UNCHANGED <<page, busyRef, busy, load, actions, failed>>

\* A load of the list or of a round's detail; "then" is the round whose detail
\* is loaded after it.
Send(l, what, r, then) ==
  load' = [load EXCEPT ![l] = [pc |-> "sent", what |-> what, round |-> r, then |-> then]]

\* loadWarmupRounds, then loadRoundDetail, awaited one after the other; the
\* second unfolds the row again.
Reload(c) ==
  /\ act[c].pc = "answered" /\ act[c].todo # <<>>
  /\ Send(c, Head(act[c].todo), act[c].round, None)
  /\ detailId' = IF Head(act[c].todo) = "detail" THEN act[c].round ELSE detailId
  /\ act' = [act EXCEPT ![c].pc = "reload", ![c].todo = Tail(@)]
  /\ UNCHANGED <<srv, list, detail, autoRefresh, busyRef, busy, actions, failed>>

Reloaded(c) ==
  /\ act[c].pc = "reload" /\ load[c].pc = "idle"
  /\ act' = [act EXCEPT ![c].pc = "answered"]
  /\ UNCHANGED <<srv, page, busyRef, busy, load, actions, failed>>

\* Slip: a refused action keeps the buttons.
ReleasesOnSuccess(c) == busyRef' = ~act[c].ok

\* finally.
Releases(c) == busyRef' = FALSE

\* A deletion has edited the list instead of loading it, and folds
\* the row if it was the unfolded one when the button was rendered.
Finish(c) ==
  LET r == act[c].round
      deleted == act[c].ok /\ act[c].op = "delete"
      folds == deleted /\ act[c].folds IN
  /\ act[c].pc = "answered" /\ act[c].todo = <<>>
  /\ list' = IF deleted THEN [list EXCEPT ![r] = "gone"] ELSE list
  /\ detailId' = IF folds THEN None ELSE detailId
  /\ detail' = IF folds THEN None ELSE detail
  /\ act' = [act EXCEPT ![c] = Idle] /\ Releases(c)
  /\ UNCHANGED <<srv, autoRefresh, busy, load, actions, failed>>

Works(c) == ServeAction(c) \/ Reload(c) \/ Reloaded(c) \/ Finish(c)

\* The row's button, which folds it or loads its detail.
Unfold(r, l) ==
  /\ list[r] \notin {"new", "gone"}
  /\ IF detailId = r THEN detailId' = None /\ UNCHANGED load
     ELSE load[l].pc = "idle" /\ detailId' = r /\ Send(l, "detail", r, None)
  /\ actions < MaxActions /\ actions' = actions + 1
  /\ UNCHANGED <<srv, list, detail, autoRefresh, busyRef, busy, act, failed>>

\* The buttons that refresh now (refreshActiveTab) and that switch the interval
\* on or off.
Refresh(l) ==
  /\ ~busy /\ load[l].pc = "idle"
  /\ Send(l, "list", None, detailId)
  /\ actions < MaxActions /\ actions' = actions + 1
  /\ UNCHANGED <<srv, page, busyRef, busy, act, failed>>
Switch ==
  /\ autoRefresh' = ~autoRefresh
  /\ actions < MaxActions /\ actions' = actions + 1
  /\ UNCHANGED <<srv, list, detailId, detail, busyRef, busy, act, load, failed>>

\* Slip: only the list is refreshed.
RefreshesListOnly == {[what |-> "list", round |-> None]}

\* Slip: the list is refreshed only while no row is unfolded.
RefreshesEither ==
  {[what |-> IF detailId = None THEN "list" ELSE "detail", round |-> detailId]}

\* What one tick of the interval loads.
Refreshes ==
  {[what |-> "list", round |-> None]} \cup
  {[what |-> "detail", round |-> r] : r \in {detailId} \ {None}}

\* The interval runs only while it is switched on.
Tick(l, x) ==
  /\ autoRefresh
  /\ x \in Refreshes /\ load[l].pc = "idle"
  /\ \A k \in Slots : load[k].pc # "idle" => load[k].what # x.what
  /\ Send(l, x.what, x.round, None)
  /\ UNCHANGED <<srv, page, busyRef, busy, act, actions, failed>>

ServeLoad(l) ==
  /\ load[l].pc = "sent"
  /\ load' = [load EXCEPT ![l] =
       [pc |-> "served", what |-> @.what, round |-> @.round, then |-> @.then,
        data |-> IF @.what = "list" THEN srv ELSE srv[@.round] \notin {"new", "gone"}]]
  /\ UNCHANGED <<srv, page, busyRef, busy, act, actions, failed>>

\* A refresh goes on to the detail of the row that was unfolded at its click,
\* which unfolds it again.
GoesOn(l) ==
  LET r == load[l].then IN
  IF r = None THEN load' = [load EXCEPT ![l] = Idle] /\ UNCHANGED detailId
  ELSE Send(l, "detail", r, None) /\ detailId' = r

\* setRounds or setRoundDetail, whatever has happened since it was sent.
Arrive(l) ==
  /\ load[l].pc = "served"
  /\ list' = IF load[l].what = "list" THEN load[l].data ELSE list
  /\ detail' = IF load[l].what = "detail" /\ load[l].data THEN load[l].round ELSE detail
  /\ GoesOn(l)
  /\ UNCHANGED <<srv, autoRefresh, busyRef, busy, act, actions, failed>>

\* A network error: ignored.
LoadFails(l) ==
  /\ load[l].pc # "idle" /\ failed < MaxFailed
  /\ failed' = failed + 1
  /\ GoesOn(l)
  /\ UNCHANGED <<srv, list, detail, autoRefresh, busyRef, busy, act, actions>>

-----------------------------------------------------------------------------
Init ==
  /\ srv \in [Rounds -> {"new", "draft"}] /\ list = srv
  /\ detailId = None /\ detail = None
  /\ busyRef = FALSE /\ busy = FALSE /\ autoRefresh = FALSE
  /\ act = [c \in Clicks |-> Idle] /\ load = [l \in Slots \cup Clicks |-> Idle]
  /\ actions = 0 /\ failed = 0

Next ==
  \/ Render \/ Switch
  \/ \E c \in Clicks :
       \/ \E op \in Ops, r \in Rounds : Click(c, op, r)
       \/ Works(c)
  \/ \E l \in Slots :
       \/ \E r \in Rounds : Unfold(r, l)
       \/ Refresh(l)
       \/ \E x \in Refreshes : Tick(l, x)
  \/ \E l \in Slots \cup Clicks : ServeLoad(l) \/ Arrive(l) \/ LoadFails(l)

Spec == Init /\ [][Next]_vars

-----------------------------------------------------------------------------
(* Properties.                                                             *)

\* A double click that comes before the disabled button is rendered does not
\* send a second action.
OneActionAtOnce ==
  \A c, d \in Clicks : act[c].pc # "idle" /\ act[d].pc # "idle" => c = d

\* While it refreshes by itself, the page shows what the server has, and below
\* an unfolded row the detail of that row's round.
Settled ==
  autoRefresh => list = srv /\ (detailId # None /\ srv[detailId] # "gone" => detail = detailId)

=============================================================================
