------------------------------ MODULE TruckLoad ------------------------------
(* The activity "load the parcels": the instructions of a student's           *)
(* sentences, their run on the fixed cases and the verdict                     *)
(* (lib/truckActivity.ts).                                                     *)
EXTENDS PlanRuns, FiniteSets

CONSTANTS
  TRUCK_CAPACITY,
  TRUCK_CASES,   \* the fixed cases
  Rows,          \* other rows of boxes a student may be asked about
  Actions,       \* the instructions programs are written with
  MaxClauses,    \* bound: clauses of a program
  MaxTicks       \* the loop bound of runTruck (200)

VARIABLE answers

TRUCK_ACTIONS == {"CHECK", "LOAD", "LOAD_IF_FITS", "DEPART_IF_OVER",
  "DEPART_LOAD_IF_OVER", "LOAD_OR_DEPART_LOAD", "CHECK_TRUCK_COUNT", "DEPART",
  "ADD_TRUCK", "MOVE", "LOOP_MOVE", "LOOP", "OUTPUT"}

Weight(numbers) ==
  LET upTo[i \in 0..Len(numbers)] == IF i = 0 THEN 0 ELSE upTo[i - 1] + numbers[i]
  IN upTo[Len(numbers)]
\* Slip: the weights are only added up.
NeededByWeight(numbers) == (Weight(numbers) + TRUCK_CAPACITY - 1) \div TRUCK_CAPACITY
\* The fewest trucks: a new one whenever the next box does not fit.
trucksNeeded(numbers) ==
  LET after[i \in 0..Len(numbers)] ==
        IF i = 0 THEN [trucks |-> 1, load |-> 0]
        ELSE IF after[i - 1].load + numbers[i] > TRUCK_CAPACITY
          THEN [trucks |-> after[i - 1].trucks + 1, load |-> numbers[i]]
          ELSE [after[i - 1] EXCEPT !.load = @ + numbers[i]]
  IN after[Len(numbers)].trucks

Start0 == [pc |-> 1, next |-> 1, index |-> 1, value |-> NoValue, load |-> 0,
           trucks |-> 0, departures |-> 0, loaded |-> {}, output |-> NoValue,
           failed |-> FALSE]
Fails(s) == [s EXCEPT !.failed = TRUE]
Over(s) == s.load + s.value > TRUCK_CAPACITY

loadBox(s) ==
  IF s.value = NoValue \/ s.index \in s.loaded \/ Over(s) THEN Fails(s)
  ELSE [s EXCEPT !.load = @ + s.value, !.loaded = @ \cup {s.index}]
\* Slip: the truck leaves without being counted as used.
DepartUncounted(s) ==
  IF s.load = 0 THEN Fails(s) ELSE [s EXCEPT !.trucks = @ + 1, !.load = 0]
depart(s) ==
  IF s.load = 0 THEN Fails(s)
  ELSE [s EXCEPT !.trucks = @ + 1, !.departures = @ + 1, !.load = 0]
DepartLoad(s) == LET d == depart(s) IN IF d.failed THEN d ELSE loadBox(d)

\* Trucks that left, and the one that stands there loaded.
Used(s) == s.departures + (IF s.load > 0 THEN 1 ELSE 0)

Conditional == {"LOAD_IF_FITS", "DEPART_IF_OVER", "DEPART_LOAD_IF_OVER",
                "LOAD_OR_DEPART_LOAD"}
Exec(plan, numbers, s) ==
  LET a == plan[s.pc].action IN
  CASE a = "CHECK" -> [s EXCEPT !.value = numbers[s.index]]
    [] a \in Conditional /\ s.value = NoValue -> Fails(s)
    [] a = "LOAD" -> loadBox(s)
    [] a = "LOAD_IF_FITS" -> IF Over(s) THEN s ELSE loadBox(s)
    [] a = "DEPART_IF_OVER" -> IF Over(s) THEN depart(s) ELSE s
    [] a = "DEPART_LOAD_IF_OVER" -> IF Over(s) THEN DepartLoad(s) ELSE s
    [] a = "LOAD_OR_DEPART_LOAD" -> IF Over(s) THEN DepartLoad(s) ELSE loadBox(s)
    [] a = "CHECK_TRUCK_COUNT" -> [s EXCEPT !.trucks = Used(s)]
    [] a = "DEPART" -> depart(s)
    [] a = "ADD_TRUCK" -> [s EXCEPT !.trucks = @ + 1]
    [] a = "MOVE" -> Move(numbers, s)
    [] a \in Loops -> Loop(plan, numbers, s)
    [] a = "OUTPUT" -> [s EXCEPT !.output = s.trucks]

\* The state when the program ends, fails or is cut off.
Final(plan, numbers) ==
  LET run[ticks \in 0..MaxTicks] ==
        IF ticks = 0 THEN Start0
        ELSE LET s == run[ticks - 1] IN
          IF s.failed \/ s.pc > Len(plan) THEN s
          ELSE LET t == Exec(plan, numbers, [s EXCEPT !.next = s.pc + 1])
               IN IF t.failed THEN t ELSE [t EXCEPT !.pc = t.next]
  IN run[MaxTicks]

runTruck(plan, numbers) ==
  LET s == Final(plan, numbers)
      executable == /\ ~ s.failed /\ s.pc > Len(plan) /\ s.output # NoValue
                    /\ s.loaded = DOMAIN numbers
  IN [executable |-> executable,
      correct |-> executable /\ s.output = trucksNeeded(numbers)]

\* Slip: only the first case is run.
PassedFirst == LET plan == Plan(answers) IN
               plan # <<>> /\ runTruck(plan, TRUCK_CASES[1]).correct
Passed == LET plan == Plan(answers) IN
          plan # <<>> /\ \A i \in DOMAIN TRUCK_CASES : runTruck(plan, TRUCK_CASES[i]).correct
-----------------------------------------------------------------------------
Init == answers = <<>>
\* Slip: sentences are numbered from 0.
InterpretFromZero(step) ==
  /\ Len(answers) < MaxClauses
  /\ \E a \in Answers(Actions, step - 1) : answers' = Append(answers, a)
Interpret(step) ==
  /\ Len(answers) < MaxClauses
  /\ \E a \in Answers(Actions, step) : answers' = Append(answers, a)
Rewrite == answers' = <<>>
Next ==
  \/ Interpret(IF answers = <<>> THEN 1 ELSE answers[Len(answers)].step + 1)
  \/ Rewrite
Spec == Init /\ [][Next]_answers
-----------------------------------------------------------------------------
TypeOK == \A i \in DOMAIN answers : /\ answers[i].step = i
                                    /\ answers[i].action \in TRUCK_ACTIONS \cup {"NONE"}

\* The fixed cases are enough: a program that passes them is right for every
\* other row of boxes.
CasesSuffice ==
  Passed => \A row \in Rows : runTruck(Plan(answers), row).correct

\* A program that passes did not only print the right number: it loaded every
\* box once and used no more trucks than it had to.
PassedDrives ==
  Passed => \A row \in Rows :
              LET s == Final(Plan(answers), row)
              IN s.loaded = DOMAIN row /\ Used(s) = trucksNeeded(row)

\* An order of trucks that keeps the row's order cannot do with fewer: the
\* answer is the least number of runs of boxes that each fit a truck.
\* (It does not depend on the program: one state is enough.)
NeededIsLeast == answers = <<>> =>
  \A row \in Rows :
     LET Fits(cut) == \* a truck leaves after each box of cut
           \A a, b \in DOMAIN row :
              (a <= b /\ ~ \E c \in cut : a <= c /\ c < b) =>
                 Weight(SubSeq(row, a, b)) <= TRUCK_CAPACITY
         cuts == {cut \in SUBSET (1..(Len(row) - 1)) : Fits(cut)}
     IN /\ \A cut \in cuts : Cardinality(cut) + 1 >= trucksNeeded(row)
        /\ \E cut \in cuts : Cardinality(cut) + 1 = trucksNeeded(row)
=============================================================================
