-------------------------------- MODULE Coins --------------------------------
(* One coin of another weight among the coins, and a balance to find it with: *)
(* lib/problems/coins.ts, played alone (write/sandbox/CoinsSandbox.tsx) or by *)
(* the executor of an attempt (execute/CoinsViewer.tsx).                      *)
EXTENDS Naturals, Sequences, FiniteSets

CONSTANTS
  None,
  Coins,       \* twelve in the program
  MaxWeighs,   \* bound on the weighings of one game
  MaxGames     \* bound on the games played in the sandbox

VARIABLES
  mode,              \* "sandbox" or "attempt"
  fake, heavier,     \* hidden from the player
  left, right, history,
  feedback,          \* the sandbox's verdict: the guess and the coin it named
  games

input == <<fake, heavier>>
pans == <<left, right>>
vars == <<mode, input, pans, history, feedback, games>>

Inputs == Coins \X BOOLEAN
Results == {"left", "right", "balanced"}
-----------------------------------------------------------------------------
Init ==
  /\ mode \in {"sandbox", "attempt"} /\ fake \in Coins /\ heavier \in BOOLEAN
  /\ left = {} /\ right = {} /\ history = <<>> /\ feedback = None /\ games = 1

\* A selection replaces what is on the pan; a coin is on one pan at most.
placeLeft(S) == /\ S \cap right = {} /\ left' = S /\ UNCHANGED right
\* Slip: the left pan is not looked at.
placeRightAny(S) == right' = S /\ UNCHANGED left
placeRight(S) == /\ S \cap left = {} /\ right' = S /\ UNCHANGED left
Selections == SUBSET Coins \ {{}}
Place(S) == /\ (placeLeft(S) \/ placeRight(S))
            /\ UNCHANGED <<mode, input, history, feedback, games>>
clearPans == /\ left \cup right # {} /\ left' = {} /\ right' = {}
             /\ UNCHANGED <<mode, input, history, feedback, games>>

\* Slip: a fake coin on a pan always weighs it down.
WeighsHeavy == IF fake \in left THEN "left" ELSE IF fake \in right THEN "right" ELSE "balanced"
Tips == IF fake \in left THEN IF heavier THEN "left" ELSE "right"
        ELSE IF fake \in right THEN IF heavier THEN "right" ELSE "left"
        ELSE "balanced"
CanWeigh == left # {} /\ right # {}
weigh ==
  /\ CanWeigh /\ Len(history) < MaxWeighs
  /\ history' = Append(history, [left |-> left, right |-> right, result |-> Tips])
  /\ left' = {} /\ right' = {} /\ UNCHANGED <<mode, input, feedback, games>>

\* Only the sandbox: the verdict, another coin, the same coin again.
handleCheckAnswer(guess) ==
  /\ mode = "sandbox" /\ feedback' = [guess |-> guess, coin |-> fake]
  /\ UNCHANGED <<mode, input, pans, history, games>>
Cleared == /\ left' = {} /\ right' = {} /\ history' = <<>> /\ UNCHANGED mode
handleReset == mode = "sandbox" /\ Cleared /\ feedback' = None /\ UNCHANGED <<input, games>>
\* Slip: the verdict on the last game is left standing.
NewProblemVerdict == Cleared /\ UNCHANGED feedback
\* Slip: the weighings of the last game are left standing.
NewProblemHistory == /\ left' = {} /\ right' = {} /\ feedback' = None /\ UNCHANGED <<mode, history>>
NewProblem == Cleared /\ feedback' = None
handleNewProblem ==
  /\ mode = "sandbox" /\ games < MaxGames /\ games' = games + 1 /\ NewProblem
  /\ fake' \in Coins /\ heavier' \in BOOLEAN

Next ==
  \/ \E S \in Selections : Place(S)
  \/ clearPans \/ weigh
  \/ \E c \in Coins : handleCheckAnswer(c)
  \/ handleReset \/ handleNewProblem
Spec == Init /\ [][Next]_vars
-----------------------------------------------------------------------------
\* What a balance shows when coin c is the odd one: every other coin weighs 2.
Weight(S, c, heavy) == IF c \notin S THEN 2 * Cardinality(S)
                       ELSE IF heavy THEN 2 * Cardinality(S) + 1 ELSE 2 * Cardinality(S) - 1
Balance(L, R, c, heavy) ==
  CASE Weight(L, c, heavy) > Weight(R, c, heavy) -> "left"
    [] Weight(L, c, heavy) < Weight(R, c, heavy) -> "right"
    [] OTHER -> "balanced"
\* The coins that the weighings of equal pans leave possible.
Possible == {x \in Inputs : \A i \in 1..Len(history) :
  LET h == history[i] IN
    Cardinality(h.left) = Cardinality(h.right) => h.result = Balance(h.left, h.right, x[1], x[2])}

TypeOK ==
  /\ fake \in Coins /\ heavier \in BOOLEAN /\ left \subseteq Coins /\ right \subseteq Coins
  /\ left \cap right = {}
  /\ \A i \in 1..Len(history) : history[i].result \in Results

\* The verdict on the page, with the coin it names, is about the game on the page.
VerdictOfThisGame == feedback # None => mode = "sandbox" /\ feedback.coin = fake

\* No sequence of weighings, across resets and new games, excludes the coin that
\* is to be found, whatever the player concludes from them.
FakeStaysPossible == input \in Possible

\* A balance also shows which pan holds more of the equal coins.
BalanceIsTrue == \A i \in 1..Len(history) :
  history[i].result = Balance(history[i].left, history[i].right, fake, heavier)
-----------------------------------------------------------------------------
\* A player who knows how: four coins against four, three times, each coin with
\* a pattern of its own.
CONSTANT Plan
PlanStep ==
  /\ mode = "attempt" /\ Len(history) < Len(Plan)
  /\ LET step == Plan[Len(history) + 1] IN
       \/ left = {} /\ Place(step.left) /\ left' = step.left
       \/ left # {} /\ right = {} /\ Place(step.right) /\ right' = step.right
       \/ right # {} /\ weigh

\* referenceActionCount: three weighings are enough to know the coin and whether
\* it is heavier, wherever it is.
ThreeAreEnough == Len(history) = 3 => Possible = {input}
=============================================================================
