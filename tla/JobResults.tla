----------------------------- MODULE JobResults ------------------------------
(* The results of one job below its panel (components/jev/JevJobResults.tsx): *)
(* the list of the students and the detail of one of them are read again each *)
(* time the page sees that the job has moved. A new read aborts the one       *)
(* before, whose answer may already be on its way.                            *)
EXTENDS Integers, FiniteSets

CONSTANTS
  Items, Trials, None,
  MaxRefresh,  \* bound on clicks on "refresh"
  MaxFaults    \* bound on lost requests

VARIABLES
  saved,                          \* trials saved of each item
  seen,                           \* the progress the page has seen (JobPage)
  list, error, selected, detail, detailError,
  wire, refreshed, faults

page == <<seen, list, error, selected, detail, detailError>>
vars == <<saved, page, wire, refreshed, faults>>

\* One for each trial of an item that was saved.
Total(f) == Cardinality({p \in Items \X (1..Trials) : p[2] <= f[p[1]]})
Read(kind, i) == [kind |-> kind, item |-> i, live |-> TRUE, done |-> FALSE, answer |-> None]
\* Slip: the read before goes on.
AbortNothing(kinds) == wire
Abort(kinds) == {IF q.kind \in kinds THEN [q EXCEPT !.live = FALSE] ELSE q : q \in wire}
ReadAll ==
  wire' = Abort({"list", "detail"}) \cup {Read("list", None)}
          \cup {Read("detail", i) : i \in {selected} \ {None}}
-----------------------------------------------------------------------------
Init ==
  /\ saved = [i \in Items |-> 0] /\ seen = 0
  /\ list = None /\ error = FALSE /\ selected = None /\ detail = None /\ detailError = FALSE
  /\ wire = {Read("list", None)} /\ refreshed = 0 /\ faults = 0

\* Slip: the items' results are read again only when the job is complete.
SeesEnd == seen' = Total(saved) /\ seen' = Trials * Cardinality(Items)
Sees == seen' = Total(saved)
Save(i) == /\ saved[i] < Trials /\ saved' = [saved EXCEPT ![i] = @ + 1]
           /\ UNCHANGED <<page, wire, refreshed, faults>>
JobMoved == /\ Sees /\ seen' # seen /\ ReadAll
            /\ UNCHANGED <<saved, list, error, selected, detail, detailError, refreshed, faults>>
Refresh == /\ refreshed < MaxRefresh /\ refreshed' = refreshed + 1 /\ ReadAll
           /\ UNCHANGED <<saved, page, faults>>
\* A click on a student opens or closes the detail.
Select(i) ==
  /\ list # None /\ detail' = None /\ detailError' = FALSE
  /\ selected' = IF selected = i THEN None ELSE i
  /\ wire' = Abort({"detail"}) \cup {Read("detail", x) : x \in {selected'} \ {None}}
  /\ UNCHANGED <<saved, seen, list, error, refreshed, faults>>

\* getJevJobResults
Serve(q) ==
  /\ q \in wire /\ ~ q.done
  /\ wire' = (wire \ {q}) \cup {[q EXCEPT !.done = TRUE, !.answer =
       IF q.kind = "list" THEN Total(saved) ELSE [item |-> q.item, trials |-> saved[q.item]]]}
  /\ UNCHANGED <<saved, page, refreshed, faults>>
\* Slip: an aborted read's answer is shown.
AppliesLate(q) == TRUE
\* if (!controller.signal.aborted)
Applies(q) == q.live
Got(q) ==
  /\ q \in wire /\ q.done /\ wire' = wire \ {q}
  /\ IF Applies(q) /\ q.kind = "list" THEN list' = q.answer /\ error' = FALSE ELSE UNCHANGED <<list, error>>
  /\ IF Applies(q) /\ q.kind = "detail" THEN detail' = q.answer /\ detailError' = FALSE
                                    ELSE UNCHANGED <<detail, detailError>>
  /\ UNCHANGED <<saved, seen, selected, refreshed, faults>>
Lose(q) ==
  /\ q \in wire /\ faults < MaxFaults /\ faults' = faults + 1 /\ wire' = wire \ {q}
  /\ error' = (error \/ (Applies(q) /\ q.kind = "list"))
  /\ detailError' = (detailError \/ (Applies(q) /\ q.kind = "detail"))
  /\ UNCHANGED <<saved, seen, list, selected, detail, refreshed>>

Next == \/ JobMoved \/ Refresh \/ \E i \in Items : Save(i) \/ Select(i)
        \/ \E q \in wire : Serve(q) \/ Got(q) \/ Lose(q)
Spec == Init /\ [][Next]_vars
-----------------------------------------------------------------------------
TypeOK ==
  /\ seen \in 0..(Trials * Cardinality(Items)) /\ selected \in Items \cup {None}
  \* One read of each kind counts.
  /\ \A q, r \in wire : (q.live /\ r.live /\ q.kind = r.kind) => q = r
\* The detail on the page is the selected student's, however the clicks and the
\* answers overtake each other.
DetailOfSelected == detail # None => detail.item = selected
\* No answer takes the list, or an open detail, back to fewer results.
ResultsGrow ==
  /\ list # None => list' >= list
  /\ (detail # None /\ detail' # None) => detail'.trials >= detail.trials
\* The list and an open detail show all that is saved, or an error.
UpToDate ==
  /\ list = Total(saved) \/ error
  /\ detail # None => (detail.trials = saved[detail.item] \/ detailError)
=============================================================================
