-------------------------------- MODULE Cards --------------------------------
(* A number to find among face-down cards in ascending order:                 *)
(* lib/problems/cards.ts, alone (write/sandbox/CardsSandbox.tsx) or by the    *)
(* executor of an attempt (execute/CardsViewer.tsx).                          *)
EXTENDS Naturals, Sequences, FiniteSets

CONSTANTS
  None,
  Sizes,       \* 6..30 cards in the program
  Pool,        \* the numbers on the cards, 1..60 in the program
  MaxGames     \* bound on the games played in the sandbox

VARIABLES
  mode, array, target,     \* the array is hidden
  revealed,                \* the positions turned over
  feedback, showAllCards, games,
  halving                  \* so far each card was in the middle of what was left

input == <<array, target>>
page == <<feedback, showAllCards, games>>
vars == <<mode, input, revealed, page, halving>>

n == Len(array)
\* Slip: the cards are not in order.
ArrayMixed(S) == [i \in 1..Cardinality(S) |->
  CHOOSE x \in S : Cardinality({y \in S : y < x}) = i % Cardinality(S)]
ArrayOf(S) == [i \in 1..Cardinality(S) |-> CHOOSE x \in S : Cardinality({y \in S : y < x}) = i - 1]
Arrays == {ArrayOf(S) : S \in {T \in SUBSET Pool : Cardinality(T) \in Sizes}}
\* Slip: a position counted from 0.
AnswerIndex(a, t) == IF \E i \in 1..Len(a) : a[i] = t THEN (CHOOSE i \in 1..Len(a) : a[i] = t) - 1 ELSE 0
AnswerIn(a, t) == IF \E i \in 1..Len(a) : a[i] = t THEN CHOOSE i \in 1..Len(a) : a[i] = t ELSE 0
correctAnswer == AnswerIn(array, target)
\* ceil(log2(x)), x > 0.
Log2Up(x) == CHOOSE r \in 0..x : 2 ^ r >= x /\ (r = 0 \/ 2 ^ (r - 1) < x)
\* Slip: a card less.
ReferenceOfOthers == Log2Up(n)
referenceActionCount == Log2Up(n + 1)
-----------------------------------------------------------------------------
Init ==
  /\ mode \in {"sandbox", "attempt"} /\ array \in Arrays /\ target \in Pool
  /\ revealed = {} /\ feedback = None /\ showAllCards = FALSE /\ games = 1 /\ halving = TRUE

\* The positions that what was seen leaves for the target.
Left == {p \in 1..n : \A q \in revealed :
  /\ q < p => array[q] < target
  /\ q > p => array[q] > target
  /\ q = p => array[q] = target}
Middle == {p \in Left : LET below == Cardinality({q \in Left : q < p})
                            above == Cardinality({q \in Left : q > p})
                        IN  below - above \in {0, 1} \/ above - below = 1}
handleFlip(position) ==
  /\ position \notin revealed /\ revealed' = revealed \cup {position}
  /\ halving' = (halving /\ position \in Middle)
  /\ UNCHANGED <<mode, input, page>>

\* Only the sandbox. The verdict names the right position and shows every card.
handleCheckAnswer(pos) ==
  /\ mode = "sandbox" /\ feedback' = [pos |-> pos, answer |-> correctAnswer] /\ showAllCards' = TRUE
  /\ UNCHANGED <<mode, input, revealed, games, halving>>
toggleCards == /\ feedback # None /\ showAllCards' = ~ showAllCards
               /\ UNCHANGED <<mode, input, revealed, feedback, games, halving>>
\* Slip: the cards of the next game lie open.
ClearedOpen == revealed' = {} /\ feedback' = None /\ halving' = TRUE /\ UNCHANGED showAllCards
\* Slip: the verdict is left standing.
ClearedVerdict == revealed' = {} /\ halving' = TRUE /\ UNCHANGED <<feedback, showAllCards>>
Cleared == revealed' = {} /\ feedback' = None /\ showAllCards' = FALSE /\ halving' = TRUE
handleReset == mode = "sandbox" /\ Cleared /\ UNCHANGED <<mode, input, games>>
handleNewProblem ==
  /\ mode = "sandbox" /\ games < MaxGames /\ games' = games + 1 /\ Cleared
  /\ array' \in Arrays /\ target' \in Pool /\ UNCHANGED mode

Next ==
  \/ \E p \in 1..n : handleFlip(p)
  \/ \E p \in 0..n : handleCheckAnswer(p)
  \/ toggleCards \/ handleReset \/ handleNewProblem
Spec == Init /\ [][Next]_vars
\* An executor who turns over the middle of what is left until the target is seen.
Seen == \E q \in revealed : array[q] = target
HalvingStep == mode = "attempt" /\ ~ Seen /\ \E p \in Middle : handleFlip(p)
-----------------------------------------------------------------------------
TypeOK ==
  /\ array \in Arrays /\ target \in Pool /\ revealed \subseteq 1..n
  \* The cards lie open only behind a verdict, and the verdict is about these cards.
  /\ showAllCards => feedback # None

VerdictOfThisGame == feedback # None => feedback.answer = correctAnswer

\* What was turned over never excludes the position that is graded as correct,
\* and never shows a number that is said to be absent.
AnswerIsLeft == IF correctAnswer = 0 THEN ~ Seen ELSE correctAnswer \in Left

\* The reference number of flips is enough for whoever halves, from any size and
\* for an absent number too: by then the number is seen, or nothing is left.
HalvingIsEnough ==
  halving /\ Cardinality(revealed) >= referenceActionCount => Seen \/ Left = {}
=============================================================================
