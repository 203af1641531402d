------------------------------ MODULE JevEngine ------------------------------
(* The executor of a student's algorithm: each clause of each step is judged  *)
(* by a service, and the one action it names is applied, or the run fails     *)
(* there (lib/jev/executionEngine.ts). The services are the mock, JEV asked   *)
(* anew at every clause (lib/jev/jevService.ts), or JEV asked once per text   *)
(* before the runs (lib/researchAI.ts).                                       *)
EXTENDS MaxFinding

CONSTANTS
  Programs,          \* sequences of [texts |-> the step's clauses, loop |-> ...]
  Layouts,           \* the boxes a run may have
  Services,          \* of "mock", "jev", "compiled"
  Meanings(_),       \* what the texts of a program may be compiled to
  MaxEvaluations     \* MAX_EVALUATIONS_PER_RUN, 60 in the program

VARIABLES
  program, service, numbers, meaning,
  at, step, clause,  \* at "clause", at the "head" of the loop, or at the "end"
  loop,              \* None, or the loop that runs
  st, evaluations,
  calls,             \* requests sent to JEV
  trace, result

given == <<program, service, numbers, meaning>>
vars == <<given, at, step, clause, loop, st, evaluations, calls, trace, result>>

Texts(prog) == UNION {{prog[i].texts[j] : j \in 1..Len(prog[i].texts)} : i \in 1..Len(prog)}
texts == program[step].texts
trueMax == CHOOSE m \in {numbers[i] : i \in 1..Len(numbers)} :
             \A i \in 1..Len(numbers) : numbers[i] <= m

\* What a sentence of repetition says: the steps it names, whether it states a
\* number of rounds, and whether it states when to end. 0: not supported.
\* Slip: a step may name itself.
parseLoopOwn(words, own) ==
  IF words.refs # <<>> THEN IF words.refs[1] \in 1..own THEN words.refs[1] ELSE 0 ELSE 0
parseForwardScanLoop(words, own) ==
  IF /\ ~ words.counted /\ words.ends
     /\ words.refs # <<>> /\ words.refs[1] \in 1..own - 1
     /\ Len(words.refs) = 2 => words.refs[2] = own - 1
     /\ Len(words.refs) <= 2
  THEN words.refs[1] ELSE 0
-----------------------------------------------------------------------------
\* JEV is offered the actions that apply, and the loop's. A refusal because none
\* fits is followed by one more question, unless it called the text unclear.
candidateActions == {a \in Actions : appliesWhen(a, numbers, st)} \cup {"REPEAT_STUDENT_STEPS"}
Answer(action, asked) == [executable |-> action # "NONE", action |-> action, asked |-> asked]
evaluateStep ==
  CASE service = "mock" -> {Answer(a, 0) : a \in Actions \cup {"STOP", "NONE"}}
    [] service = "jev" -> {Answer(a, 1) : a \in candidateActions \cup {"NONE"}}
                          \cup {Answer("NONE", 2) : a \in Actions \ candidateActions}
    [] service = "compiled" -> {Answer(meaning[texts[clause]], 0)}

Init ==
  /\ program \in Programs /\ service \in Services /\ numbers \in Layouts
  /\ meaning \in IF service = "compiled" THEN Meanings(program) ELSE {None}
  /\ at = "clause" /\ step = 1 /\ clause = 1 /\ loop = None
  /\ st = initialState /\ evaluations = 0 /\ calls = 0 /\ trace = <<>> /\ result = None

Entry(ok, before, closes) ==
  [step |-> step, ok |-> ok, before |-> before, after |-> st', closes |-> closes,
   round |-> IF loop = None THEN FALSE ELSE step # loop.step]
pushTrace(ok, before, closes) == trace' = Append(trace, Entry(ok, before, closes))
Settle(verdict) == at' = "end" /\ result' = verdict /\ UNCHANGED <<step, clause>>
failure(reason) ==
  Settle([executable |-> FALSE, correct |-> None, failedStep |-> step, reason |-> reason])
\* Slip: the memo stands in for an answer that was not submitted.
GradeMemo(s) ==
  LET output == IF s.output = None THEN s.memo ELSE s.output IN
  [executable |-> output # None, correct |-> IF output = None THEN None ELSE output = trueMax,
   failedStep |-> None, reason |-> None]
Grade(s) ==
  [executable |-> s.output # None, correct |-> IF s.output = None THEN None ELSE s.output = trueMax,
   failedStep |-> None, reason |-> IF s.output = None THEN "NO_OUTPUT" ELSE None]

lastOfLoop == IF loop = None THEN FALSE ELSE step + 1 = loop.step
\* To the next clause, the next step, the head of the loop, or the grading.
Advance ==
  /\ UNCHANGED loop
  /\ \/ clause < Len(texts) /\ clause' = clause + 1 /\ UNCHANGED <<at, step, result>>
     \/ /\ clause = Len(texts) /\ lastOfLoop
        /\ at' = "head" /\ step' = step + 1 /\ clause' = 1 /\ UNCHANGED result
     \/ /\ clause = Len(texts) /\ ~ lastOfLoop /\ step < Len(program)
        /\ step' = step + 1 /\ clause' = 1 /\ UNCHANGED <<at, result>>
     \/ clause = Len(texts) /\ step = Len(program) /\ Settle(Grade(st'))

\* Slip: the failure is not recorded.
FailsUnlogged(reason) == st' = st /\ UNCHANGED <<loop, trace>> /\ failure(reason)
Fails(reason) == st' = st /\ UNCHANGED loop /\ pushTrace(FALSE, st, FALSE) /\ failure(reason)
Apply(action) == st' = applyProblemAction(action, numbers, st) /\ Advance /\ pushTrace(TRUE, st, FALSE)
Stop == st' = st /\ UNCHANGED loop /\ pushTrace(TRUE, st, FALSE) /\ Settle(Grade(st))
\* A loop is a step of its own, outside any loop.
mayRepeat == Len(texts) = 1 /\ loop = None
EnterLoop ==
  LET start == parseForwardScanLoop(program[step].loop, step) IN
  /\ mayRepeat /\ start # 0
  /\ loop' = [step |-> step, start |-> start, seen |-> {}, before |-> st]
  /\ at' = "head" /\ UNCHANGED <<st, step, clause, trace, result>>

resolves(e) == e.executable /\ (e.action = "REPEAT_STUDENT_STEPS" \/ appliesWhen(e.action, numbers, st))
Plan(e) ==
  \/ ~ e.executable /\ Fails("unclear")
  \/ e.action = "STOP" /\ Stop
  \/ e.executable /\ e.action # "STOP" /\ ~ resolves(e) /\ Fails("impossible")
  \/ e.action = "REPEAT_STUDENT_STEPS" /\ EnterLoop
  \/ /\ e.action = "REPEAT_STUDENT_STEPS"
     /\ ~ mayRepeat \/ parseForwardScanLoop(program[step].loop, step) = 0
     /\ Fails("loop")
  \/ e.action \notin {"STOP", "REPEAT_STUDENT_STEPS"} /\ resolves(e) /\ Apply(e.action)

\* Slip: one evaluation more than the budget.
budgetLate == evaluations > MaxEvaluations
budgetExhausted == evaluations >= MaxEvaluations
Evaluate ==
  /\ at = "clause" /\ ~ budgetExhausted /\ evaluations' = evaluations + 1
  /\ \E e \in evaluateStep : Plan(e) /\ calls' = calls + e.asked
  /\ UNCHANGED given
Budget ==
  /\ at = "clause" /\ budgetExhausted /\ Fails("budget") /\ UNCHANGED <<given, evaluations, calls>>
\* A request that fails or times out leaves the run without a verdict.
Outage ==
  /\ at = "clause" /\ service = "jev" /\ ~ budgetExhausted /\ calls' = calls + 1
  /\ Settle([executable |-> FALSE, correct |-> None, failedStep |-> None, reason |-> "error"]) /\ UNCHANGED <<given, loop, st, evaluations, trace>>

\* Slip: two rounds that begin with the same memo are taken for the same.
keyMemo(s) == s.memo
key(s) == s
\* Slip: the loop ends on the way to the last box.
untilNear == st.index >= Len(numbers) - 1
until == st.index >= Len(numbers)
\* Slip: the entry of the loop begins where its last round ended.
stateBeforeLast == st
stateBefore == loop.before
runLoop ==
  /\ at = "head" /\ UNCHANGED <<given, st, evaluations, calls>>
  /\ \/ /\ until /\ loop' = None /\ pushTrace(TRUE, stateBefore, TRUE)
        /\ \/ step < Len(program) /\ step' = step + 1 /\ at' = "clause" /\ clause' = 1 /\ UNCHANGED result
           \/ step = Len(program) /\ Settle(Grade(st))
     \/ ~ until /\ key(st) \in loop.seen /\ UNCHANGED loop /\ pushTrace(FALSE, st, FALSE) /\ failure("endless")
     \/ /\ ~ until /\ key(st) \notin loop.seen
        /\ loop' = [loop EXCEPT !.seen = @ \cup {key(st)}]
        /\ at' = "clause" /\ step' = loop.start /\ clause' = 1 /\ UNCHANGED <<trace, result>>

Next == Evaluate \/ Budget \/ Outage \/ runLoop
Spec == Init /\ [][Next]_vars
-----------------------------------------------------------------------------
TypeOK ==
  /\ at \in {"clause", "head", "end"} /\ (at = "end") = (result # None)
  /\ step \in 1..Len(program) /\ clause \in 1..Len(texts)
  /\ st.index \in 1..Len(numbers)
  /\ loop # None => (loop.start \in 1..loop.step - 1 /\ step \in loop.start..loop.step)

\* The record of a run explains it: each entry begins where the one before it
\* ended, the entry that closes a loop spans it, and the last ends at the final
\* state. The page replays the record, and never runs anything itself.
Before(i) == IF i = 0 THEN initialState ELSE trace[i].after
TraceExplains ==
  /\ st = Before(Len(trace))
  /\ \A i \in 1..Len(trace) :
       LET rounds == {j \in 0..i - 1 : \A m \in j + 1..i - 1 : trace[m].round}
           from == CHOOSE j \in rounds : \A other \in rounds : j <= other IN
       IF trace[i].closes
         THEN trace[i].before = Before(from) /\ trace[i].after = Before(i - 1)
         ELSE trace[i].before = Before(i - 1) /\ (trace[i].ok \/ trace[i].after = trace[i].before)

Verdict == IF result = None THEN FALSE ELSE result.reason # "error"

\* An answer that is graded was submitted, of a box that was opened: the engine
\* never fills in what the student did not write.
AnswerWasOpened ==
  Verdict /\ result.executable =>
    /\ result.correct = (st.output = trueMax)
    /\ \E i \in 1..Len(trace) : trace[i].ok /\ trace[i].after.value = st.output
    /\ \E i \in 1..Len(trace) : trace[i].after.output # trace[i].before.output

\* The verdict is the record's: a failed step is its last entry and its only
\* failure, and a run without one ended at its end or by a stop.
VerdictIsRecorded ==
  Verdict =>
    /\ \A i \in 1..Len(trace) - 1 : trace[i].ok
    /\ IF result.failedStep = None THEN \A i \in 1..Len(trace) : trace[i].ok
       ELSE trace # <<>> /\ ~ trace[Len(trace)].ok /\ trace[Len(trace)].step = result.failedStep

\* What a run may cost: the budget, and one more question at the failing step.
CallsBounded == calls <= MaxEvaluations + 1

\* The loop's entry is closed only when no box is left unopened, as the sentence
\* of repetition says.
LoopChecksAll ==
  \A i \in 1..Len(trace) : trace[i].closes =>
    \A b \in 1..Len(numbers) :
      \E j \in 1..i : trace[j].after.index = b /\ trace[j].after.value # None

\* The scan of the examples takes 3 n + 1 evaluations and finds the maximum.
ScanIsRight ==
  result # None => /\ result.executable /\ result.correct
                   /\ evaluations = 3 * Len(numbers) + 1
-----------------------------------------------------------------------------
\* The reference: the compiled program as a list of clauses with jumps, with
\* fuel for so many clauses and no look at earlier rounds.
States == [index : Nat, value : Nat \cup {None}, memo : Nat \cup {None}, output : Nat \cup {None}]
code ==
  LET upTo[i \in 0..Len(program)] ==
        IF i = 0 THEN <<>>
        ELSE upTo[i - 1] \o [c \in 1..Len(program[i].texts) |->
                               [step |-> i, text |-> program[i].texts[c]]]
  IN upTo[Len(program)]
FirstOf(i) == CHOOSE p \in 1..Len(code) :
  code[p].step = i /\ \A q \in 1..p - 1 : code[q].step # i
Naive(budget) ==
  LET back(own) == parseForwardScanLoop(program[own].loop, own)
      refused == [executable |-> FALSE, correct |-> None]
      run[p \in Nat, s \in States, fuel \in 0..budget, looping \in Nat] ==
        LET a == meaning[code[p].text] IN
        IF p > Len(code) THEN Grade(s)
        ELSE IF p = looping
          THEN IF s.index >= Len(numbers) THEN run[p + 1, s, fuel, 0]
               ELSE run[FirstOf(back(code[p].step)), s, fuel, looping]
        ELSE IF fuel = 0 THEN refused
        ELSE IF a = "REPEAT_STUDENT_STEPS"
          THEN IF looping # 0 \/ Len(program[code[p].step].texts) > 1 \/ back(code[p].step) = 0
               THEN refused ELSE run[p, s, fuel - 1, p]
        ELSE IF ~ appliesWhen(a, numbers, s) THEN refused
        ELSE run[p + 1, applyProblemAction(a, numbers, s), fuel - 1, looping]
  IN run[1, initialState, budget, 0]

\* A compiled run ends with the verdict of the reference, and one that is failed
\* as endless would not have ended with three times the fuel.
VerdictIsNaive ==
  service = "compiled" /\ result # None =>
    LET n == Naive(MaxEvaluations)
        more == Naive(3 * MaxEvaluations) IN
    /\ result.executable = n.executable /\ result.correct = n.correct
    /\ result.reason = "endless" => ~ more.executable
=============================================================================
