------------------------------ MODULE MaxFinding ------------------------------
(* The actions of the problem "the box with the most apples", declared once   *)
(* in lib/jev/problems/max-finding.json and applied by lib/jev/               *)
(* problemSchema.ts, for the game a student plays and for the executor of her *)
(* written algorithm. Boxes are numbered from 1.                              *)
EXTENDS Integers, Sequences

CONSTANT None     \* null: not checked, not written, not submitted

Playable == {"MOVE_LEFT_BOX", "MOVE_RIGHT_BOX", "CHECK_SELECTED_BOX", "WRITE_MEMO", "SUBMIT_ANSWER"}
Actions == Playable \cup {"UPDATE_MEMO_IF_GREATER", "REPEAT_STUDENT_STEPS"}
initialState == [index |-> 1, value |-> None, memo |-> None, output |-> None]

\* Slip: anything may be submitted.
AppliesLax(a, numbers, s) ==
  \/ a = "MOVE_LEFT_BOX" /\ s.index > 1
  \/ a \in {"MOVE_RIGHT_BOX", "REPEAT_STUDENT_STEPS"} /\ s.index < Len(numbers)
  \/ a \in {"CHECK_SELECTED_BOX", "SUBMIT_ANSWER"}
  \/ a = "WRITE_MEMO" /\ s.value # None
  \/ a = "UPDATE_MEMO_IF_GREATER" /\ s.value # None /\ s.memo # None
appliesWhen(a, numbers, s) ==
  \/ a = "MOVE_LEFT_BOX" /\ s.index > 1
  \/ a \in {"MOVE_RIGHT_BOX", "REPEAT_STUDENT_STEPS"} /\ s.index < Len(numbers)
  \/ a = "CHECK_SELECTED_BOX"
  \/ a = "WRITE_MEMO" /\ s.value # None
  \/ a = "UPDATE_MEMO_IF_GREATER" /\ s.value # None /\ s.memo # None
  \/ a = "SUBMIT_ANSWER" /\ s.memo # None

\* Slip: the count of the box that was left stays in view.
movedOpen(s, to) == [s EXCEPT !.index = to]
moved(s, to) == [s EXCEPT !.index = to, !.value = None]
applyProblemAction(a, numbers, s) ==
  CASE a = "MOVE_LEFT_BOX" -> moved(s, s.index - 1)
    [] a = "MOVE_RIGHT_BOX" -> moved(s, s.index + 1)
    [] a = "CHECK_SELECTED_BOX" -> [s EXCEPT !.value = numbers[s.index]]
    [] a = "WRITE_MEMO" -> [s EXCEPT !.memo = s.value]
    [] a = "UPDATE_MEMO_IF_GREATER" -> IF s.value > s.memo THEN [s EXCEPT !.memo = s.value] ELSE s
    [] a = "SUBMIT_ANSWER" -> [s EXCEPT !.output = s.memo]
=============================================================================
