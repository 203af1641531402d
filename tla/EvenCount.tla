------------------------------ MODULE EvenCount ------------------------------
(* The activity "count the even numbers in the boxes": the instructions a    *)
(* student's sentences stand for, their run on the fixed boxes and the        *)
(* verdict (lib/evenActivity.ts, app/api/even-activity/route.ts).             *)
EXTENDS PlanRuns, FiniteSets

CONSTANTS
  Boxes,        \* how many boxes a case has (the page's 5)
  EVEN_CASES,   \* the fixed cases
  MaxClauses,   \* bound: clauses of a program
  MaxTicks      \* the loop bound of runEven (100)

VARIABLE answers   \* what JEV said of the clauses so far

EVEN_ACTIONS == {"CHECK", "ADD_EVEN", "ADD", "MOVE", "LOOP_MOVE", "LOOP", "OUTPUT"}

Start0 == [pc |-> 1, next |-> 1, index |-> 1, value |-> NoValue, memo |-> 0,
           output |-> NoValue, failed |-> FALSE]

Exec(plan, numbers, s) ==
  LET a == plan[s.pc].action IN
  CASE a = "CHECK"    -> [s EXCEPT !.value = numbers[s.index]]
    [] a = "ADD"      -> [s EXCEPT !.memo = @ + 1]
    [] a = "ADD_EVEN" -> IF s.value = NoValue THEN [s EXCEPT !.failed = TRUE]
                         ELSE [s EXCEPT !.memo = @ + 1 - (s.value % 2)]
    [] a = "MOVE"     -> Move(numbers, s)
    [] a \in Loops    -> Loop(plan, numbers, s)
    [] a = "OUTPUT"   -> [s EXCEPT !.output = s.memo]

\* Slip: the run is cut off after two rounds over the program.
FewTicks(plan) == 2 * Len(plan)
Ticks(plan) == MaxTicks

\* The state when the program ends, fails or is cut off.
Final(plan, numbers, limit) ==
  LET run[ticks \in 0..limit] ==
        IF ticks = 0 THEN Start0
        ELSE LET s == run[ticks - 1] IN
          IF s.failed \/ s.pc > Len(plan) THEN s
          ELSE LET t == Exec(plan, numbers, [s EXCEPT !.next = s.pc + 1])
               IN IF t.failed THEN t ELSE [t EXCEPT !.pc = t.next]
  IN run[limit]

expected(numbers) == Cardinality({i \in DOMAIN numbers : numbers[i] % 2 = 0})

\* Slip: a program that prints nothing is compared like the others.
VerdictUnprinted(plan, numbers, limit) ==
  LET s == Final(plan, numbers, limit)
  IN [executable |-> ~ s.failed,
      correct |-> ~ s.failed /\ s.memo = expected(numbers)]
Verdict(plan, numbers, limit) ==
  LET s == Final(plan, numbers, limit)
      executable == ~ s.failed /\ s.pc > Len(plan) /\ s.output # NoValue
  IN [executable |-> executable,
      correct |-> executable /\ s.output = expected(numbers)]
runEven(plan, numbers) == Verdict(plan, numbers, Ticks(plan))

\* Slip: only the first case is run.
GradedFirst == LET plan == Plan(answers) IN
               IF plan = <<>> THEN <<>> ELSE <<runEven(plan, EVEN_CASES[1])>>
\* The route runs a program on every case, and an empty one on none.
Graded == LET plan == Plan(answers) IN
          IF plan = <<>> THEN <<>>
          ELSE [i \in DOMAIN EVEN_CASES |-> runEven(plan, EVEN_CASES[i])]
Passed == Graded # <<>> /\ \A i \in DOMAIN Graded : Graded[i].correct
-----------------------------------------------------------------------------
Init == answers = <<>>

\* Slip: the first sentence has number 0.
InterpretFromZero(step) ==
  /\ Len(answers) < MaxClauses
  /\ \E a \in Answers(EVEN_ACTIONS, step) :
       answers' = Append(answers, [a EXCEPT !.step = step - 1])
\* The next clause, of the same sentence or of the next one.
Interpret(step) ==
  /\ Len(answers) < MaxClauses
  /\ \E a \in Answers(EVEN_ACTIONS, step) : answers' = Append(answers, a)

\* The student starts over.
Rewrite == answers' = <<>>

Next ==
  \/ answers # <<>> /\ Interpret(answers[Len(answers)].step)
  \/ Interpret(IF answers = <<>> THEN 1 ELSE answers[Len(answers)].step + 1)
  \/ Rewrite

Spec == Init /\ [][Next]_answers
-----------------------------------------------------------------------------
TypeOK ==
  \A i \in DOMAIN answers :
     /\ answers[i].action \in EVEN_ACTIONS \cup {"NONE"}
     /\ answers[i].step \in 1..i

\* The fixed cases are enough: a program that passes them is right for every
\* row of boxes (only the parities matter).
CasesSuffice ==
  Passed => \A numbers \in [1..Boxes -> {0, 1}] : runEven(Plan(answers), numbers).correct

\* A program with a clause that was not understood gets no verdict at all.
NoneWithheldGraded == (\E i \in DOMAIN answers : ~ Accepted(answers[i])) => Graded = <<>>

\* A verdict "right" needs a printed number that depends on the boxes: no
\* program that never counts or never prints passes.
PassedCounts ==
  Passed => /\ \E i \in DOMAIN answers : answers[i].action = "ADD_EVEN"
            /\ \E i \in DOMAIN answers : answers[i].action = "OUTPUT"

\* Writing the clauses of one sentence as steps of their own changes no verdict.
SplitIsHarmless ==
  LET plan == Plan(answers) IN
  plan # <<>> => \A i \in DOMAIN EVEN_CASES :
                   runEven(Unfold(plan), EVEN_CASES[i]) = runEven(plan, EVEN_CASES[i])

\* The cut-off gives no verdict, it only takes one away: a program that is run to
\* its end has the verdict it has without the cut-off.  It takes it from a
\* program that would end ("the repetition does not end") only if the program
\* has so many clauses that one pass over them for every box needs more than
\* MaxTicks steps: from 21 clauses on in the code.
CutOffOnlyRefuses ==
  LET plan == Plan(answers)
      passes == Boxes * Len(plan)
  IN plan # <<>> => \A i \in DOMAIN EVEN_CASES :
       LET cut == runEven(plan, EVEN_CASES[i]) IN
       cut # Verdict(plan, EVEN_CASES[i], 2 * passes) => ~ cut.executable /\ passes > MaxTicks
=============================================================================
