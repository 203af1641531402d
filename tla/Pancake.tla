------------------------------- MODULE Pancake -------------------------------
(* A stack to sort by turning over its top: lib/problems/pancake.ts, alone    *)
(* (write/sandbox/PancakeSandbox.tsx) or by the executor of an attempt        *)
(* (execute/PancakeViewer.tsx). A stack is listed from its top.               *)
EXTENDS Naturals, Sequences

CONSTANTS
  Sizes,       \* 4..6 in the program
  MaxFlips,    \* bound on the flips of one game
  MaxGames     \* bound on the games played in the sandbox

VARIABLES
  mode, n, stack, history,
  initialStack,      \* the sandbox's own copy of the first stack
  games,
  largestFirst       \* so far each flip brought the largest misplaced one down

vars == <<mode, n, stack, history, initialStack, games, largestFirst>>

Sorted(s) == \A i \in 1..Len(s) : s[i] = i
Shuffles(size) == {s \in [1..size -> 1..size] :
                     ~ Sorted(s) /\ \A i, j \in 1..size : s[i] = s[j] => i = j}
referenceActionCount == 2 * (n - 1)
-----------------------------------------------------------------------------
Init ==
  /\ mode \in {"sandbox", "attempt"} /\ n \in Sizes /\ stack \in Shuffles(n)
  /\ initialStack = stack /\ history = <<>> /\ games = 1 /\ largestFirst = TRUE

\* Slip: one less is turned over.
TurnedLess(s, k) == [i \in 1..Len(s) |-> IF i < k THEN s[k - i] ELSE s[i]]
\* Slip: the one under the cut is there twice.
TurnedTwice(s, k) == [i \in 1..Len(s) + 1 |-> IF i <= k THEN s[k + 1 - i] ELSE s[i - 1]]
Turned(s, k) == [i \in 1..Len(s) |-> IF i <= k THEN s[k + 1 - i] ELSE s[i]]
\* To bring the largest misplaced one down: to the top first, unless it is there.
Largest == CHOOSE m \in 1..n : stack[m] # m /\ \A i \in m + 1..n : stack[i] = i
NextFlip == IF stack[1] = Largest THEN Largest ELSE CHOOSE i \in 1..n : stack[i] = Largest
handleFlip(k) ==
  /\ Len(history) < MaxFlips /\ stack' = Turned(stack, k) /\ history' = Append(history, k)
  /\ largestFirst' = (largestFirst /\ ~ Sorted(stack) /\ k = NextFlip)
  /\ UNCHANGED <<mode, n, initialStack, games>>
\* Slip: the flips of before stay listed.
RestartedLog == stack' = initialStack /\ UNCHANGED history
Restarted == stack' = initialStack /\ history' = <<>>
handleReset ==
  /\ mode = "sandbox" /\ Restarted /\ largestFirst' = TRUE /\ UNCHANGED <<mode, n, initialStack, games>>
handleNewProblem ==
  /\ mode = "sandbox" /\ games < MaxGames /\ games' = games + 1
  /\ n' \in Sizes /\ stack' \in Shuffles(n') /\ initialStack' = stack' /\ history' = <<>>
  /\ largestFirst' = TRUE /\ UNCHANGED mode

Next == (\E k \in 1..n : handleFlip(k)) \/ handleReset \/ handleNewProblem
Spec == Init /\ [][Next]_vars
\* An executor who brings the largest one down, again and again.
LargestStep == mode = "attempt" /\ ~ Sorted(stack) /\ handleFlip(NextFlip)
-----------------------------------------------------------------------------
TypeOK ==
  /\ n \in Sizes /\ stack \in Shuffles(n) \cup {[i \in 1..n |-> i]}
  \* A reset gives a stack to sort, of this game's size.
  /\ initialStack \in Shuffles(n)

\* The flips that are listed, in their order, make the stack of the first one,
\* across resets and new games: the student copies them as an algorithm.
HistoryExplains ==
  LET pile[i \in 0..Len(history)] ==
        IF i = 0 THEN initialStack ELSE Turned(pile[i - 1], history[i])
  IN stack = pile[Len(history)]

\* The reference number of flips is enough for whoever brings the largest down.
LargestFirstIsEnough == largestFirst /\ Len(history) >= referenceActionCount => Sorted(stack)
=============================================================================
