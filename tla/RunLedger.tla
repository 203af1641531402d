----------------------------- MODULE RunLedger ------------------------------
(***************************************************************************)
(* What automatic grading promises for every saved revision of a student's *)
(* algorithm (a run): each of its trials gets at most one result, results  *)
(* arrive only while the run is open and its revision is the latest, the   *)
(* last result closes the run in the same step, a stopped run takes no     *)
(* result until it is reopened, and a superseded or closed run never       *)
(* reopens.                                                                *)
(***************************************************************************)
EXTENDS Naturals

CONSTANTS Submissions, Revisions, Trials

VARIABLES
  latest,   \* the latest revision of each submission, 0 before the first
  phase,    \* of each run
  results   \* the trials of each run that have a result

lvars == <<latest, phase, results>>

Runs == Submissions \X Revisions
Phases == {"absent", "open", "paused", "retired", "closed"}

Init ==
  /\ latest = [s \in Submissions |-> 0]
  /\ phase = [r \in Runs |-> "absent"]
  /\ results = [r \in Runs |-> {}]

Same(r) == phase'[r] = phase[r] /\ results'[r] = results[r]

\* A run is registered: open, or closed at once if its text cannot be executed.
Register(r) ==
  /\ phase[r] = "absent"
  /\ phase'[r] \in {"open", "closed"}
  /\ results'[r] = results[r]

\* A trial gets its result; the last one closes the run.
Record(r) ==
  /\ phase[r] = "open"
  /\ latest[r[1]] = r[2]
  /\ \E i \in Trials \ results[r] : results'[r] = results[r] \cup {i}
  /\ phase'[r] = IF results'[r] = Trials THEN "closed" ELSE "open"

\* The teacher stops or resumes a run, a newer revision retires it, or a
\* teacher job takes it over for good.
Move(r) ==
  /\ <<phase[r], phase'[r]>> \in
       {<<"open", "paused">>, <<"paused", "open">>, <<"open", "retired">>,
        <<"open", "closed">>, <<"paused", "closed">>, <<"retired", "closed">>}
  /\ results'[r] = results[r]

Next ==
  /\ \A s \in Submissions : latest'[s] \in {latest[s], latest[s] + 1}
  /\ \A r \in Runs : Same(r) \/ Register(r) \/ Record(r) \/ Move(r)

Spec == Init /\ [][Next]_lvars
=============================================================================
