------------------------------- MODULE Woodcut -------------------------------
(* The practice problem "woodcut": the forest, the saw height, the log of    *)
(* cuts and the check of the answer (lib/problems/woodcut.ts,                 *)
(* components/write/sandbox/WoodcutSandbox.tsx).                              *)
EXTENDS Integers, Sequences, FiniteSets, FiniteSetsExt

CONSTANTS
  MAX_HEIGHT,   \* the page's 100
  Trees,        \* how many trees a forest has
  MaxCuts,      \* bound: cuts in one forest
  Fraction      \* a typed height between two integers

VARIABLES forest, answer,   \* input.heights (distinct, so a set), correctAnswer
          history, queryHeight, feedback

vars == <<forest, answer, history, queryHeight, feedback>>

Forests == kSubset(Trees, 1..MAX_HEIGHT)
MID_HEIGHT == MAX_HEIGHT \div 2

totalWood(heights, height) ==
  FoldSet(LAMBDA h, sum : sum + (IF h > height THEN h - height ELSE 0), 0, heights)
target == totalWood(forest, answer)

\* Slip: the answer may be the height of the tallest tree.
AnswersToTop(heights) == LET top == Max(heights) IN 1..top
\* randInt(lo, hi) between a tenth and nine tenths of the tallest tree.
Answers(heights) ==
  LET top == Max(heights)
      lo == Max({1, top \div 10})
      hi == Max({lo, (9 * top) \div 10})
  IN lo..hi

\* Slip: the logarithm is rounded down.
FloorCount == CHOOSE k \in 0..10 : 2 ^ k <= MAX_HEIGHT + 1 /\ MAX_HEIGHT + 1 < 2 ^ (k + 1)
\* Math.ceil(Math.log2(MAX_HEIGHT + 1))
referenceActionCount == CHOOSE k \in 0..10 : /\ 2 ^ k >= MAX_HEIGHT + 1
                                             /\ k = 0 \/ 2 ^ (k - 1) < MAX_HEIGHT + 1
latest == history[Len(history)]
solved == feedback.kind = "right"
\* Slip: the badges stay while the slider moves away from the cut.
BadgesAlways ==
  IF history # <<>> /\ queryHeight # Fraction THEN {h \in forest : h > queryHeight} ELSE {}
\* The trees that carry a "+N" badge: those the last cut, still at the saw's
\* height, took wood from.
Badges ==
  IF history # <<>> /\ queryHeight # Fraction /\ latest.height = queryHeight
    THEN {h \in forest : h > queryHeight} ELSE {}
NoFeedback == [kind |-> "none", shown |-> 0]
-----------------------------------------------------------------------------
Init ==
  /\ forest \in Forests /\ answer \in Answers(forest)
  /\ history = <<>> /\ queryHeight = MID_HEIGHT /\ feedback = NoFeedback

\* Slip: a wrong answer's text outlives the forest it was about.
NewProblemKeepsText ==
  /\ forest' \in Forests /\ answer' \in Answers(forest')
  /\ history' = <<>> /\ queryHeight' = MID_HEIGHT /\ UNCHANGED feedback
NewProblem ==
  /\ forest' \in Forests /\ answer' \in Answers(forest')
  /\ history' = <<>> /\ queryHeight' = MID_HEIGHT /\ feedback' = NoFeedback

\* The saw stays where it is.
Reset ==
  /\ history' = <<>> /\ feedback' = NoFeedback
  /\ UNCHANGED <<forest, answer, queryHeight>>

\* Slip: the typed height is not clamped.
SlideFree(v) ==
  /\ queryHeight' = v
  /\ UNCHANGED <<forest, answer, history, feedback>>
\* The slider and the typed height are clamped; a typed fraction is kept.
Slide(v) ==
  /\ queryHeight' = IF v = Fraction THEN Fraction
                    ELSE Min({MAX_HEIGHT, Max({0, v})})
  /\ UNCHANGED <<forest, answer, history, feedback>>

\* A fraction is refused by applyAction and the click does nothing.
Cut ==
  /\ queryHeight \in 0..MAX_HEIGHT /\ Len(history) < MaxCuts
  /\ history' = Append(history, [height |-> queryHeight,
                                 collected |-> totalWood(forest, queryHeight)])
  /\ UNCHANGED <<forest, answer, queryHeight, feedback>>

CheckAnswer(guess) ==
  /\ ~ solved
  /\ feedback' = [kind |-> IF guess = answer THEN "right" ELSE "wrong", shown |-> answer]
  /\ UNCHANGED <<forest, answer, history, queryHeight>>

Next ==
  \/ NewProblem
  \/ Reset
  \/ \E v \in -1..(MAX_HEIGHT + 1) \cup {Fraction} : Slide(v)
  \/ Cut
  \/ \E guess \in {answer, answer + 1} : CheckAnswer(guess)

Spec == Init /\ [][Next]_vars
-----------------------------------------------------------------------------
TypeOK ==
  /\ forest \in Forests /\ answer \in 1..MAX_HEIGHT
  /\ \A i \in DOMAIN history : /\ history[i].height \in 0..MAX_HEIGHT
                               /\ history[i].collected \in Nat
  /\ queryHeight \in 0..MAX_HEIGHT \cup {Fraction}
  /\ feedback.kind \in {"none", "right", "wrong"}

\* The answer is the highest height that collects the target: the text of a
\* wrong answer promises that one more would fall short.
AnswerIsHighest ==
  \A h \in 0..MAX_HEIGHT : totalWood(forest, h) >= target <=> h <= answer

\* The heights that the cuts made so far leave possible.
Possible(cuts) ==
  {h \in 0..MAX_HEIGHT :
     \A i \in 1..Len(cuts) : cuts[i].collected >= target <=> cuts[i].height <= h}
Bisecting ==
  \A i \in DOMAIN history :
     LET left == Possible(SubSeq(history, 1, i - 1))
     IN history[i].height = (Min(left) + Max(left) + 1) \div 2

\* The log never rules the answer out, whatever was cut, reset or redrawn.
AnswerStaysPossible == answer \in Possible(history)

\* A student who halves the heights left is certain after the reference number
\* of cuts.
CutsNarrowDown ==
  (Bisecting /\ Len(history) >= referenceActionCount) => Possible(history) = {answer}

\* The badges on the trees add up to the last cut's total.
BadgesAddUp ==
  Badges # {} =>
    FoldSet(LAMBDA h, sum : sum + h - queryHeight, 0, Badges) = latest.collected

\* The answer a verdict shows is the one of the forest on the screen.
VerdictOfThisForest == feedback.kind # "none" => feedback.shown = answer

\* What the comment in handleCut relies on: the saw's height is always valid.
SawIsValid == queryHeight \in 0..MAX_HEIGHT
=============================================================================
