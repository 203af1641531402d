------------------------------ MODULE PlanRuns ------------------------------
(* What the box activities share: a student's sentences are split into       *)
(* clauses, JEV names the instruction of each clause, and only a program all *)
(* of whose clauses were accepted is run (lib/evenActivity.ts,                *)
(* lib/truckActivity.ts).                                                     *)
EXTENDS Integers, Sequences

CONSTANT NoValue      \* null: nothing has been read or printed

Loops == {"LOOP", "LOOP_MOVE"}

\* The step a sentence of step number "step" sends the robot back to: the one
\* step it names, if that is an earlier one; 0 stands for undefined.
repeatStart(named, step) == IF named \in 1..(step - 1) THEN named ELSE 0

\* The answer for one clause: the choice, whether its confidence is at least
\* 0.65, the step the text names and whether the text states the condition.
Answers(actions, step) ==
  {[step |-> step, action |-> a, sure |-> TRUE, named |-> 0, cond |-> FALSE]
     : a \in actions \ Loops}
  \cup {[step |-> step, action |-> a, sure |-> TRUE, named |-> k, cond |-> TRUE]
     : a \in Loops, k \in 1..step}
  \cup {[step |-> step, action |-> a, sure |-> s, named |-> 1, cond |-> FALSE]
     : a \in {"NONE", "LOOP"}, s \in BOOLEAN}

Start(a) == IF a.action \in Loops THEN repeatStart(a.named, a.step) ELSE 0
Accepted(a) ==
  /\ a.action # "NONE" /\ a.sure
  /\ a.action \in Loops => (Start(a) # 0 /\ a.cond)

\* Slip: the accepted clauses run although others were not understood.
PlanOfTheRest(answers) ==
  LET ok == SelectSeq(answers, Accepted)
  IN [i \in DOMAIN ok |-> [step |-> ok[i].step, action |-> ok[i].action,
                           start |-> Start(ok[i])]]
Plan(answers) ==
  IF \A i \in DOMAIN answers : Accepted(answers[i])
    THEN [i \in DOMAIN answers |-> [step |-> answers[i].step,
                                    action |-> answers[i].action,
                                    start |-> Start(answers[i])]]
    ELSE <<>>

\* Slip: the jump lands on the last clause of the step.
TargetLast(plan, pc, start) ==
  LET at == {i \in 1..(pc - 1) : plan[i].step = start}
  IN IF at = {} THEN 0 ELSE CHOOSE i \in at : \A j \in at : j <= i
\* Where a jump to a step lands: its first clause, before this instruction.
Target(plan, pc, start) ==
  LET at == {i \in 1..(pc - 1) : plan[i].step = start}
  IN IF at = {} THEN 0 ELSE CHOOSE i \in at : \A j \in at : i <= j

\* The robot over the boxes: right by one, or a loop that looks at what is left.
Move(numbers, s) ==
  IF s.index = Len(numbers) THEN [s EXCEPT !.failed = TRUE]
  ELSE [s EXCEPT !.index = @ + 1, !.value = NoValue]
Loop(plan, numbers, s) ==
  IF s.index = Len(numbers) THEN s
  ELSE LET to == Target(plan, s.pc, plan[s.pc].start)
           at == IF plan[s.pc].action = "LOOP_MOVE" THEN Move(numbers, s) ELSE s
       IN IF to = 0 THEN [at EXCEPT !.failed = TRUE] ELSE [at EXCEPT !.next = to]

\* The clauses of one sentence under step numbers of their own, with the jumps
\* to the first clause of the sentence they named.
Unfold(plan) ==
  LET First(step) == CHOOSE i \in DOMAIN plan :
                       /\ plan[i].step = step
                       /\ \A j \in 1..(i - 1) : plan[j].step # step
  IN [i \in DOMAIN plan |->
        [plan[i] EXCEPT !.step = i, !.start = IF @ = 0 THEN 0 ELSE First(@)]]
=============================================================================
