------------------------------ MODULE Practice ------------------------------
(***************************************************************************)
(* The practice problems, the activities' programs and the engine that     *)
(* runs a student's algorithm.  The page shows one sandbox at a time, and  *)
(* each run of the engine stands for itself: a behaviour is of the one     *)
(* chosen at the start; the variables of the others stay unused.           *)
(* A sandbox is played freely in a small instance, and by its rule in one  *)
(* of the program's size.                                                  *)
(***************************************************************************)
EXTENDS Integers, FiniteSets, Sequences

CONSTANTS
  Areas,   \* the sandboxes, programs and runs that are explored
  Unused,  \* the value of the others' variables
  None,
  \* The small instances that are played freely; the others have the program's sizes.
  FewCoins, MaxWeighs,                  \* coins
  CircleSizes, CircleCounts,            \* circle
  CardSizes, CardPool,                  \* cards
  StackSizes, MaxFlips,                 \* pancakes
  TurnCards, MaxLog,                    \* turn
  BoxSizes, BoxApples, MaxChecks,       \* boxes
  MaxGames,                             \* of each of these
  MaxHeight, Trees, MaxCuts,            \* forest
  StarMaps, MaxAttempts,                \* stars
  EvenClauses, TruckClauses,            \* even, truck
  EnginePrograms, EngineBoxes, EngineBudget  \* engine

VARIABLES
  area,
  fake, heavier, left, right,
  k, alive, removedOrder, nextUp, currentCount, byTheRule,
  array, target, revealed, showAllCards, halving,
  stack, initialStack, largestFirst,
  initial, cards, index, checked, finished,
  counts,
  forest, answer, queryHeight,
  lay, correctAnswer, edges, attempts, first, second, connecting, toast, flash, timers, overlay,
  answers,
  program, service, meaning, at, clause, loop, evaluations, calls, trace, result,
  \* of several areas:
  mode, history, feedback, games, n, log, ruled, numbers, st, step

\* The variables of each by itself, and those that several have.
coinsV == <<fake, heavier, left, right>>
circleV == <<k, alive, removedOrder, nextUp, currentCount, byTheRule>>
cardsV == <<array, target, revealed, showAllCards, halving>>
pancakesV == <<stack, initialStack, largestFirst>>
turnV == <<initial, cards, index, checked, finished>>
boxesV == <<counts>>
forestV == <<forest, answer, queryHeight>>
starsV == <<lay, correctAnswer, edges, attempts, first, second, connecting, toast, flash, timers,
            overlay>>
planV == <<answers>>
engineV == <<program, service, meaning, at, clause, loop, evaluations, calls, trace,
             result>>
shared == <<mode, history, feedback, games, n, log, ruled, numbers, st, step>>
vars == <<area, coinsV, circleV, cardsV, pancakesV, turnV, boxesV, forestV, starsV,
          planV, engineV, shared>>

NoCoins ==
  /\ fake = Unused /\ heavier = Unused /\ left = Unused /\ right = Unused
NoCircle ==
  /\ k = Unused /\ alive = Unused /\ removedOrder = Unused /\ nextUp = Unused /\
     currentCount = Unused /\ byTheRule = Unused
NoCards ==
  /\ array = Unused /\ target = Unused /\ revealed = Unused /\
     showAllCards = Unused /\ halving = Unused
NoPancakes ==
  /\ stack = Unused /\ initialStack = Unused /\ largestFirst = Unused
NoTurn ==
  /\ initial = Unused /\ cards = Unused /\ index = Unused /\ checked = Unused /\
     finished = Unused
NoBoxes ==
  /\ counts = Unused
NoForest ==
  /\ forest = Unused /\ answer = Unused /\ queryHeight = Unused
NoStars ==
  /\ lay = Unused /\ correctAnswer = Unused /\ edges = Unused /\ attempts = Unused /\ first = Unused /\
     second = Unused /\ connecting = Unused /\ toast = Unused /\ flash = Unused /\
     timers = Unused /\ overlay = Unused
NoPlan ==
  /\ answers = Unused
NoEngine ==
  /\ program = Unused /\ service = Unused /\ meaning = Unused /\ at = Unused /\
     clause = Unused /\ loop = Unused /\ evaluations = Unused /\ calls = Unused /\
     trace = Unused /\ result = Unused

-----------------------------------------------------------------------------
(* The instances.                                                           *)
Injective(f) == \A i, j \in DOMAIN f : f[i] = f[j] => i = j

\* Few coins; the program's twelve with the four-on-four plan.
FreeCoins == INSTANCE Coins WITH Coins <- FewCoins, Plan <- <<>>
PlannedCoins == INSTANCE Coins WITH
  Coins <- 1..12, MaxWeighs <- 3, MaxGames <- 1,
  Plan <- <<[left |-> {5, 6, 7, 11}, right |-> {8, 9, 10, 12}],
            [left |-> {2, 3, 4, 11}, right |-> {5, 6, 10, 12}],
            [left |-> {1, 4, 6, 10}, right |-> {2, 7, 9, 12}]>>

FreeCircle == INSTANCE Josephus WITH Sizes <- CircleSizes, Counts <- CircleCounts
RuledCircle == INSTANCE Josephus WITH Sizes <- 8..12, Counts <- 2..4, MaxGames <- 1

FreeCards == INSTANCE Cards WITH Sizes <- CardSizes, Pool <- CardPool
HalvedCards == INSTANCE Cards WITH Sizes <- {7, 8}, Pool <- 1..9, MaxGames <- 1

FreePancakes == INSTANCE Pancake WITH Sizes <- StackSizes
PlannedPancakes == INSTANCE Pancake WITH Sizes <- 4..6, MaxFlips <- 10, MaxGames <- 1

FreeTurn == INSTANCE CardFlip WITH n <- TurnCards
RuledTurn == INSTANCE CardFlip WITH n <- 6, MaxLog <- 24, MaxGames <- 1

FreeBoxes == INSTANCE MaxBox WITH Sizes <- BoxSizes, Apples <- BoxApples
RuledBoxes == INSTANCE MaxBox WITH Sizes <- 2..4, Apples <- 1..5, MaxChecks <- 5, MaxGames <- 1

Forest == INSTANCE Woodcut WITH MAX_HEIGHT <- MaxHeight, Fraction <- None

Stars == INSTANCE Constellation WITH Layouts <- StarMaps
\* A map of four stars on the page's scale: two of its distances are equal, and
\* its three shortest lines close a ring.
FourStars == {<<<<10, 10>>, <<30, 10>>, <<20, 25>>, <<80, 60>>>>}

\* The six cases of the page.  As in the code (100 steps, and 12 sentences of
\* several clauses on 5 boxes) the longest programs need more steps than the
\* cut-off allows: 4 clauses on 5 boxes need up to 20.
Even == INSTANCE EvenCount WITH
  NoValue <- None, Boxes <- 5, MaxClauses <- EvenClauses, MaxTicks <- 16,
  EVEN_CASES <- <<<<1, 3, 5, 7, 9>>, <<2, 4, 6, 8, 10>>, <<2, 3, 5, 7, 9>>,
                  <<1, 3, 5, 7, 2>>, <<3, 8, 2, 7, 4>>, <<0, 1, 2, 3, 4>>>>

\* The ten cases of the page, and every row of two to four boxes of four weights
\* (the page draws 5 to 8 boxes).
TruckCases == <<<<4,5,3,6,2,8>>, <<10,10,10,10,10>>, <<1,1,1,1,1,1,1,1>>, <<5,5,5,5,5,5>>,
                <<9,1,9,1,9,1>>, <<3,8,3,8,3>>, <<2,3,4,1,6,4,2>>, <<7,2,2,7,2,2,7>>,
                <<6,5,4,3,2,1>>, <<2,2,2,2,9>>>>
Truck == INSTANCE TruckLoad WITH
  NoValue <- None, TRUCK_CAPACITY <- 10, TRUCK_CASES <- TruckCases,
  Rows <- UNION {[1..size -> {1, 4, 6, 10}] : size \in 2..4},
  Actions <- {"CHECK", "LOAD", "LOAD_IF_FITS", "DEPART_IF_OVER", "DEPART_LOAD_IF_OVER",
              "LOAD_OR_DEPART_LOAD", "CHECK_TRUCK_COUNT", "DEPART", "ADD_TRUCK", "MOVE",
              "LOOP_MOVE", "LOOP", "OUTPUT"},
  MaxClauses <- TruckClauses, MaxTicks <- 40

\* Every step of up to five words.
Words == INSTANCE CompoundStep WITH
  Kinds <- {"go", "nieun", "seq", "end", "and", "naseo", "iss", "again", "x", "short"},
  MaxWords <- 5

\* The programs of the engine: steps, each of clauses, with what the sentence
\* says of a loop.
Step(ts, words) == [texts |-> ts, loop |-> words]
NoLoop == [counted |-> FALSE, refs |-> <<>>, ends |-> FALSE]
From(i) == [counted |-> FALSE, refs |-> <<i>>, ends |-> TRUE]
Loose == [refs : {<<>>, <<1>>, <<1, 2>>, <<2, 2>>, <<1, 2, 3>>}, counted : BOOLEAN, ends : BOOLEAN]
Actions == {"MOVE_LEFT_BOX", "MOVE_RIGHT_BOX", "CHECK_SELECTED_BOX", "WRITE_MEMO",
            "SUBMIT_ANSWER", "UPDATE_MEMO_IF_GREATER", "REPEAT_STUDENT_STEPS"}

\* Open, note; go right, open, keep the greater, repeat from there; submit.
ScanMeaning == [open |-> "CHECK_SELECTED_BOX", note |-> "WRITE_MEMO", right |-> "MOVE_RIGHT_BOX",
                keep |-> "UPDATE_MEMO_IF_GREATER", again |-> "REPEAT_STUDENT_STEPS", say |-> "SUBMIT_ANSWER"]
Scan == <<Step(<<"open">>, NoLoop), Step(<<"note">>, NoLoop), Step(<<"right">>, NoLoop), Step(<<"open">>, NoLoop),
          Step(<<"keep">>, NoLoop), Step(<<"again">>, From(3)), Step(<<"say">>, NoLoop)>>
TextsOf(prog) == UNION {{prog[i].texts[j] : j \in 1..Len(prog[i].texts)} : i \in 1..Len(prog)}
\* Any meanings for the texts that have no name of their own.
AnyMeaning(prog) ==
  LET free == TextsOf(prog) \ DOMAIN ScanMeaning
  IN {[t \in TextsOf(prog) |-> IF t \in free THEN f[t] ELSE ScanMeaning[t]] : f \in [free -> Actions]}
ScansMeaning(prog) == {ScanMeaning}

\* Any answers.
Engine == INSTANCE JevEngine WITH
  Programs <- EnginePrograms, Layouts <- EngineBoxes, Services <- {"mock", "jev"},
  Meanings <- ScansMeaning, MaxEvaluations <- EngineBudget
\* A step of two clauses, a loop, an answer; and a step that cannot repeat.
LoopPrograms == {<<Step(<<"a", "b">>, NoLoop), Step(<<"c">>, From(1)), Step(<<"d">>, NoLoop)>>,
                 <<Step(<<"a">>, NoLoop), Step(<<"b">>, From(1)), Step(<<"c">>, From(3))>>}
TwoBoxes == {<<1, 2>>, <<2, 1>>}

\* Any meanings: the second and the last text may be the same.
Compiled == INSTANCE JevEngine WITH
  Programs <-
    {<<Step(<<"a">>, NoLoop), Step(<<"b">>, NoLoop), Step(<<"c">>, w), Step(<<"d">>, NoLoop)>> : w \in Loose}
    \cup {<<Step(<<"a", "b">>, NoLoop), Step(<<"c", "b">>, NoLoop), Step(<<"d">>, From(2)), Step(<<"say">>, NoLoop)>>,
          <<Step(<<"a">>, NoLoop), Step(<<"b">>, NoLoop), Step(<<"c", "d">>, From(1)), Step(<<"say">>, NoLoop)>>,
          <<Step(<<"open", "note">>, NoLoop), Step(<<"c">>, NoLoop), Step(<<"d">>, NoLoop),
            Step(<<"again">>, From(2)), Step(<<"say">>, NoLoop)>>},
  Layouts <- {<<2, 1>>, <<2, 1, 3, 4>>}, Services <- {"compiled"}, Meanings <- AnyMeaning,
  MaxEvaluations <- 12

\* The scan of the examples over every order of up to four boxes, and over twelve.
ScanRun == INSTANCE JevEngine WITH
  Programs <- {Scan}, Services <- {"compiled"}, Meanings <- ScansMeaning, MaxEvaluations <- 60,
  Layouts <- UNION {{f \in [1..size -> 1..size] : Injective(f)} : size \in 2..4}
             \cup {[i \in 1..12 |-> i], [i \in 1..12 |-> 13 - i], [i \in 1..12 |-> (5 * i) % 13]}

\* What is assumed of the small instances.
ASSUME PracticeAssumption ==
  /\ None \notin Nat \cup BOOLEAN \cup [pos : Nat, answer : Nat]
  /\ None \notin [executable : BOOLEAN, correct : BOOLEAN \cup {None},
                  failedStep : Nat \cup {None},
                  reason : {"unclear", "impossible", "loop", "budget", "endless", "error",
                            "NO_OUTPUT", None}]
  /\ None \notin [step : Nat, start : Nat, seen : SUBSET Engine!States, before : Engine!States]
  /\ IsFiniteSet(FewCoins)
  /\ CircleSizes \cup CircleCounts \cup StackSizes \cup BoxSizes \subseteq Nat \ {0}
  /\ CardPool \cup BoxApples \subseteq Nat /\ CardSizes \subseteq Nat /\ IsFiniteSet(CardPool)
  /\ {TurnCards, MaxHeight} \subseteq Nat /\ Trees \in Nat \ {0, 1}
  /\ StarMaps \subseteq Seq((0..100) \X (0..100))
  /\ EnginePrograms \subseteq
       Seq([texts : Seq(STRING) \ {<<>>},
            loop : [counted : BOOLEAN, refs : Seq(Nat), ends : BOOLEAN]]) \ {<<>>}
  /\ EngineBoxes \subseteq Seq(Nat) \ {<<>>} /\ EngineBudget \in Nat

-----------------------------------------------------------------------------
Init ==
  /\ area \in Areas
  /\ IF area = "coins" THEN FreeCoins!Init
     ELSE IF area = "coinsPlan" THEN PlannedCoins!Init ELSE NoCoins
  /\ IF area = "circle" THEN FreeCircle!Init
     ELSE IF area = "circleRule" THEN RuledCircle!Init ELSE NoCircle
  /\ IF area = "cards" THEN FreeCards!Init
     ELSE IF area = "halving" THEN HalvedCards!Init ELSE NoCards
  /\ IF area = "pancakes" THEN FreePancakes!Init
     ELSE IF area = "pancakePlan" THEN PlannedPancakes!Init ELSE NoPancakes
  /\ IF area = "turn" THEN FreeTurn!Init
     ELSE IF area = "turnRule" THEN RuledTurn!Init ELSE NoTurn
  /\ IF area = "boxes" THEN FreeBoxes!Init
     ELSE IF area = "boxesRule" THEN RuledBoxes!Init ELSE NoBoxes
  /\ IF area = "forest" THEN Forest!Init ELSE NoForest
  /\ IF area = "stars" THEN Stars!Init ELSE NoStars
  /\ IF area = "even" THEN Even!Init
     ELSE IF area = "truck" THEN Truck!Init ELSE NoPlan
  /\ IF area = "words" THEN Words!Init ELSE TRUE
  /\ IF area = "engine" THEN Engine!Init
     ELSE IF area = "compiled" THEN Compiled!Init
     ELSE IF area = "scan" THEN ScanRun!Init ELSE NoEngine
  /\ area \notin {"coins", "coinsPlan", "circle", "circleRule", "cards", "halving",
                  "pancakes", "pancakePlan"} =>
       /\ mode = Unused
  /\ area \notin {"coins", "coinsPlan", "pancakes", "pancakePlan", "forest"} =>
       /\ history = Unused
  /\ area \notin {"coins", "coinsPlan", "cards", "halving", "forest", "stars"} =>
       /\ feedback = Unused
  /\ area \notin {"coins", "coinsPlan", "circle", "circleRule", "cards", "halving",
                  "pancakes", "pancakePlan", "turn", "turnRule", "boxes",
                  "boxesRule"} =>
       /\ games = Unused
  /\ area \notin {"circle", "circleRule", "pancakes", "pancakePlan"} =>
       /\ n = Unused
  /\ area \notin {"turn", "turnRule", "boxes", "boxesRule"} =>
       /\ log = Unused /\ ruled = Unused
  /\ area \notin {"boxes", "boxesRule", "engine", "compiled", "scan"} =>
       /\ numbers = Unused /\ st = Unused
  /\ area \notin {"words", "engine", "compiled", "scan"} => step = Unused

\* A step of one of them.
InCoins(action) ==
  /\ area \in {"coins", "coinsPlan"} /\ action
  /\ UNCHANGED <<area, circleV, cardsV, pancakesV, turnV, boxesV, forestV, starsV,
                 planV, engineV, n, log, ruled, numbers, st, step>>
InCircle(action) ==
  /\ area \in {"circle", "circleRule"} /\ action
  /\ UNCHANGED <<area, coinsV, cardsV, pancakesV, turnV, boxesV, forestV, starsV,
                 planV, engineV, history, feedback, log, ruled, numbers, st, step>>
InCards(action) ==
  /\ area \in {"cards", "halving"} /\ action
  /\ UNCHANGED <<area, coinsV, circleV, pancakesV, turnV, boxesV, forestV, starsV,
                 planV, engineV, history, n, log, ruled, numbers, st, step>>
InPancakes(action) ==
  /\ area \in {"pancakes", "pancakePlan"} /\ action
  /\ UNCHANGED <<area, coinsV, circleV, cardsV, turnV, boxesV, forestV, starsV, planV,
                 engineV, feedback, log, ruled, numbers, st, step>>
InTurn(action) ==
  /\ area \in {"turn", "turnRule"} /\ action
  /\ UNCHANGED <<area, coinsV, circleV, cardsV, pancakesV, boxesV, forestV, starsV,
                 planV, engineV, mode, history, feedback, n, numbers, st, step>>
InBoxes(action) ==
  /\ area \in {"boxes", "boxesRule"} /\ action
  /\ UNCHANGED <<area, coinsV, circleV, cardsV, pancakesV, turnV, forestV, starsV,
                 planV, engineV, mode, history, feedback, n, step>>
InForest(action) ==
  /\ area = "forest" /\ action
  /\ UNCHANGED <<area, coinsV, circleV, cardsV, pancakesV, turnV, boxesV, starsV,
                 planV, engineV, mode, games, n, log, ruled, numbers, st, step>>
InStars(action) ==
  /\ area = "stars" /\ action
  /\ UNCHANGED <<area, coinsV, circleV, cardsV, pancakesV, turnV, boxesV, forestV,
                 planV, engineV, mode, history, games, n, log, ruled, numbers, st,
                 step>>
InPlan(action) ==
  /\ area \in {"even", "truck"} /\ action
  /\ UNCHANGED <<area, coinsV, circleV, cardsV, pancakesV, turnV, boxesV, forestV,
                 starsV, engineV, mode, history, feedback, games, n, log, ruled,
                 numbers, st, step>>
InWords(action) ==
  /\ area = "words" /\ action
  /\ UNCHANGED <<area, coinsV, circleV, cardsV, pancakesV, turnV, boxesV, forestV,
                 starsV, planV, engineV, mode, history, feedback, games, n, log,
                 ruled, numbers, st>>
InEngine(action) ==
  /\ area \in {"engine", "compiled", "scan"} /\ action
  /\ UNCHANGED <<area, coinsV, circleV, cardsV, pancakesV, turnV, boxesV, forestV,
                 starsV, planV, mode, history, feedback, games, n, log, ruled>>

Next ==
  \/ InCoins(area = "coins" /\ FreeCoins!Next)
  \/ InCoins(area = "coinsPlan" /\ PlannedCoins!PlanStep)
  \/ InCircle(area = "circle" /\ FreeCircle!Next)
  \/ InCircle(area = "circleRule" /\ RuledCircle!RuleStep)
  \/ InCards(area = "cards" /\ FreeCards!Next)
  \/ InCards(area = "halving" /\ HalvedCards!HalvingStep)
  \/ InPancakes(area = "pancakes" /\ FreePancakes!Next)
  \/ InPancakes(area = "pancakePlan" /\ PlannedPancakes!LargestStep)
  \/ InTurn(area = "turn" /\ FreeTurn!Next)
  \/ InTurn(area = "turnRule" /\ RuledTurn!RuleStep)
  \/ InBoxes(area = "boxes" /\ FreeBoxes!Next)
  \/ InBoxes(area = "boxesRule" /\ RuledBoxes!RuleStep)
  \/ InForest(area = "forest" /\ Forest!Next)
  \/ InStars(area = "stars" /\ Stars!Next)
  \/ InPlan(area = "even" /\ Even!Next)
  \/ InPlan(area = "truck" /\ Truck!Next)
  \/ InWords(area = "words" /\ Words!Next)
  \/ InEngine(area = "engine" /\ Engine!Next)
  \/ InEngine(area = "compiled" /\ Compiled!Next)
  \/ InEngine(area = "scan" /\ ScanRun!Next)

Spec == Init /\ [][Next]_vars

\* A program with a clause that was not accepted, or that stopped in the middle of
\* the first case, is not written further.
StillWritten ==
  /\ area = "even" => \A i \in DOMAIN answers : Even!Accepted(answers[i])
  /\ area = "truck" => LET plan == Truck!Plan(answers) IN
                        answers = <<>> \/ (plan # <<>> /\ ~ Truck!Final(plan, TruckCases[1]).failed)

-----------------------------------------------------------------------------
(* Properties: each is stated, with what it says of the code, in the module *)
(* it is taken from.                                                        *)

\* The type invariant of each.
TypeOK ==
  /\ area = "coins" => FreeCoins!TypeOK
  /\ area = "circle" => FreeCircle!TypeOK
  /\ area = "cards" => FreeCards!TypeOK
  /\ area = "pancakes" => FreePancakes!TypeOK
  /\ area = "turn" => FreeTurn!TypeOK
  /\ area = "boxes" => FreeBoxes!TypeOK
  /\ area = "forest" => Forest!TypeOK
  /\ area = "stars" => Stars!TypeOK
  /\ area = "even" => Even!TypeOK
  /\ area = "truck" => Truck!TypeOK
  /\ area = "engine" => Engine!TypeOK

\* A verdict is about the problem on the screen and what was submitted for it,
\* and whoever follows a rule that is stated gets it; a line is refused exactly
\* when it closes a ring; a program with a clause that was not understood gets no
\* verdict, and a run costs no more than its budget.
VerdictsAreRight ==
  /\ area = "coins" => FreeCoins!VerdictOfThisGame
  /\ area = "circle" => FreeCircle!RuleGivesAnswer
  /\ area = "cards" => FreeCards!VerdictOfThisGame
  /\ area = "turn" => FreeTurn!RuleIsRight
  /\ area = "boxes" => FreeBoxes!RuleIsRight
  /\ area = "forest" => Forest!VerdictOfThisForest /\ Forest!AnswerIsHighest
  /\ area = "stars" => Stars!AnswerAfterCheck /\ Stars!Tree /\ Stars!JudgedRightly
  /\ area = "even" => Even!NoneWithheldGraded
  /\ area = "engine" => Engine!VerdictIsRecorded /\ Engine!AnswerWasOpened /\ Engine!CallsBounded

\* What the page records explains what it shows, and never rules out the answer:
\* the weighings, the removals, the turned cards, the flips, the openings, the
\* cuts, the refused lines and the engine's trace.
LogsExplain ==
  /\ area = "coins" => FreeCoins!FakeStaysPossible
  /\ area = "circle" => FreeCircle!EveryoneOnce
  /\ area = "cards" => FreeCards!AnswerIsLeft
  /\ area = "pancakes" => FreePancakes!HistoryExplains
  /\ area = "turn" => FreeTurn!LogExplains
  /\ area = "boxes" => FreeBoxes!OnlyOpenedIsKnown
  /\ area = "forest" => Forest!AnswerStaysPossible /\ Forest!BadgesAddUp
  /\ area = "stars" => Stars!FlashIsRefused /\ Stars!ButtonIsReleased
  /\ area = "engine" => Engine!TraceExplains

\* The instances of the program's sizes are typed like the small ones.
PageSizesTyped ==
  /\ area = "coinsPlan" => PlannedCoins!TypeOK
  /\ area = "circleRule" => RuledCircle!TypeOK
  /\ area = "halving" => HalvedCards!TypeOK
  /\ area = "pancakePlan" => PlannedPancakes!TypeOK
  /\ area = "turnRule" => RuledTurn!TypeOK
  /\ area = "boxesRule" => RuledBoxes!TypeOK
  /\ area = "compiled" => Compiled!TypeOK
  /\ area = "scan" => ScanRun!TypeOK

\* The rule of a problem gives the answer that is graded, within the number of
\* actions the page gives for reference.
RulesAreEnough ==
  /\ area = "coinsPlan" => PlannedCoins!ThreeAreEnough
  /\ area = "circleRule" => RuledCircle!RuleGivesAnswer
  /\ area = "halving" => HalvedCards!HalvingIsEnough
  /\ area = "pancakePlan" => PlannedPancakes!LargestFirstIsEnough
  /\ area = "turnRule" => RuledTurn!TurnAddsOne /\ RuledTurn!RuleIsRight
  /\ area = "boxesRule" => RuledBoxes!RuleIsRight
  /\ area = "forest" => Forest!CutsNarrowDown
  /\ area = "scan" => ScanRun!ScanIsRight

\* What the code computes is what a plain reference computes: no map is shorter
\* than the graded answer, a program that passes the fixed cases is right on the
\* others, the cut-off of a loop gives no verdict and takes one only from programs
\* that would never end or have too many clauses, the engine's compiled run ends
\* like the plain execution, and the clauses of a step are its words.
CodeMatchesReference ==
  /\ area = "stars" => Stars!NeverBelowAnswer /\ Stars!NoSkipIsLeast
  /\ area = "even" => /\ Even!CasesSuffice /\ Even!PassedCounts
                      /\ Even!SplitIsHarmless /\ Even!CutOffOnlyRefuses
  /\ area = "truck" => Truck!CasesSuffice /\ Truck!PassedDrives /\ Truck!NeededIsLeast
  /\ area = "words" => Words!NothingIsLost /\ Words!ClausesStand
  /\ area = "compiled" => Compiled!VerdictIsNaive

\* The rules and the references agree with the code, at the program's sizes.
ComputationsAgree == PageSizesTyped /\ RulesAreEnough /\ CodeMatchesReference
=============================================================================
