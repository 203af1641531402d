-------------------------------- MODULE MaxBox --------------------------------
(* The game of the boxes: write/sandbox/MaxBoxSandbox.tsx keeps the instance  *)
(* of lib/problems/maxbox.ts with its record of openings, and beside it the   *)
(* state the actions of MaxFinding work on.                                   *)
EXTENDS MaxFinding

CONSTANTS
  Sizes, Apples,     \* 8..12 boxes of 1..30 apples in the program
  MaxChecks,         \* bound on the openings of one game
  MaxGames           \* bound on the games

VARIABLES
  counts, log,       \* the instance: its boxes and the openings
  numbers, st,       \* the executor's copy of the boxes, and its state
  games,
  ruled              \* so far each press was the rule's

vars == <<counts, log, numbers, st, games, ruled>>
Layouts == UNION {{c \in [1..size -> Apples] : \A i, j \in 1..size : c[i] = c[j] => i = j} :
                  size \in Sizes}
correctAnswer == CHOOSE m \in {counts[i] : i \in 1..Len(counts)} :
                   \A i \in 1..Len(counts) : counts[i] <= m
solved == st.output # None /\ st.output = correctAnswer
-----------------------------------------------------------------------------
Init ==
  /\ counts \in Layouts /\ log = <<>> /\ numbers = counts /\ st = initialState
  /\ games = 1 /\ ruled = TRUE

\* Every box once, from the left, and the greater count on the memo.
RulePress ==
  IF st.value = None THEN "CHECK_SELECTED_BOX"
  ELSE IF st.memo = None THEN "WRITE_MEMO"
  ELSE IF st.value > st.memo THEN "WRITE_MEMO"
  ELSE IF st.index < Len(counts) THEN "MOVE_RIGHT_BOX" ELSE "SUBMIT_ANSWER"

opened == [position |-> st.index, value |-> counts[st.index]]
candidates == {a \in Playable : appliesWhen(a, numbers, st)}
handlePress(action) ==
  /\ ~ solved /\ action \in candidates
  /\ IF action = "CHECK_SELECTED_BOX" THEN Len(log) < MaxChecks /\ log' = Append(log, opened)
     ELSE UNCHANGED log
  /\ st' = applyProblemAction(action, numbers, st)
  /\ ruled' = (ruled /\ action = RulePress)
  /\ UNCHANGED <<counts, numbers, games>>

\* Slip: the memo of the last try is kept.
freshAlgStateMemo(boxes) == numbers' = boxes /\ st' = [initialState EXCEPT !.memo = st.memo]
freshAlgState(boxes) == numbers' = boxes /\ st' = initialState
handleReset ==
  /\ log' = <<>> /\ freshAlgState(counts) /\ ruled' = TRUE /\ UNCHANGED <<counts, games>>
\* Slip: the executor keeps the boxes of the last game.
NewBoxesOld == freshAlgState(counts)
NewBoxes == freshAlgState(counts')
handleNewGame ==
  /\ games < MaxGames /\ games' = games + 1
  /\ counts' \in Layouts /\ NewBoxes /\ log' = <<>> /\ ruled' = TRUE

Next == (\E a \in Playable : handlePress(a)) \/ handleReset \/ handleNewGame
Spec == Init /\ [][Next]_vars
RuleStep == handlePress(RulePress)
-----------------------------------------------------------------------------
TypeOK ==
  /\ counts \in Layouts /\ numbers = counts /\ st.index \in 1..Len(counts)
  \* An open box shows its own count.
  /\ st.value # None => st.value = counts[st.index]

\* The two records of one game agree: what is in view, on the memo or submitted
\* was opened in this game, by the record of openings that is handed in.
OnlyOpenedIsKnown ==
  {st.value, st.memo, st.output} \ {None} \subseteq {log[i].value : i \in 1..Len(log)}

\* Who follows the rule needs one opening per box, the reference number, and the
\* first answer is right.
RuleIsRight == ruled /\ st.output # None => solved /\ Len(log) = Len(counts)
=============================================================================
