------------------------------ MODULE Josephus ------------------------------
(* People in a circle, every k-th is removed: lib/problems/josephus.ts, alone *)
(* (write/sandbox/JosephusSandbox.tsx) or by the executor of an attempt       *)
(* (execute/JosephusViewer.tsx). The page names the next person; the player   *)
(* counts, and may remove anyone.                                             *)
EXTENDS Naturals, Sequences

CONSTANTS
  Sizes, Counts,     \* 8..12 people and k in 2..4 in the program
  MaxGames           \* bound on the games played in the sandbox

Nobody == 0            \* nextUp is null

VARIABLES
  mode, n, k,
  alive, removedOrder, nextUp,
  currentCount,      \* the sandbox's counter
  games,
  byTheRule          \* so far each removed person was the k-th

state == <<alive, removedOrder, nextUp>>
vars == <<mode, n, k, state, currentCount, games, byTheRule>>

Circle(size) == [i \in 1..size |-> i]
Without(people, position) ==
  SubSeq(people, 1, position - 1) \o SubSeq(people, position + 1, Len(people))
PositionOf(person) == CHOOSE i \in 1..Len(alive) : alive[i] = person

\* simulateJosephus: the people and the position that is next, counted from 0,
\* when so many are left.
Simulate(size, step) ==
  LET round[left \in 1..size] ==
        IF left = size THEN [people |-> Circle(size), idx |-> 0]
        ELSE LET people == round[left + 1].people
                 at == (round[left + 1].idx + step - 1) % (left + 1)
             IN [people |-> Without(people, at + 1), idx |-> IF at = left THEN 0 ELSE at]
  IN round[1].people[1]
correctAnswer == Simulate(n, k)
-----------------------------------------------------------------------------
\* Slip: the removed of the last game stay.
FreshCircle(up) == alive' = Circle(n') /\ nextUp' = up /\ byTheRule' = TRUE /\ UNCHANGED removedOrder
Fresh(up) == alive' = Circle(n') /\ removedOrder' = <<>> /\ nextUp' = up /\ byTheRule' = TRUE
Init ==
  /\ mode \in {"sandbox", "attempt"} /\ n \in Sizes /\ k \in Counts
  /\ alive = Circle(n) /\ removedOrder = <<>> /\ nextUp = Nobody
  /\ currentCount = 1 /\ games = 1 /\ byTheRule = TRUE

\* Slip: at the end of the line the last one is next.
NextAfterEnd(index, rest) == rest[IF index > Len(rest) THEN Len(rest) ELSE index]
NextAfter(index, rest) == rest[IF index > Len(rest) THEN 1 ELSE index]
displayNextUp == IF nextUp = Nobody THEN 1 ELSE nextUp
TheKth == alive[(((PositionOf(displayNextUp) - 1) + (k - 1)) % Len(alive)) + 1]
handleRemove(person) ==
  /\ Len(alive) > 1 /\ \E i \in 1..Len(alive) : alive[i] = person
  /\ LET rest == Without(alive, PositionOf(person)) IN
       alive' = rest /\ nextUp' = NextAfter(PositionOf(person), rest)
  /\ removedOrder' = Append(removedOrder, person) /\ currentCount' = 1
  /\ byTheRule' = (byTheRule /\ person = TheKth)
  /\ UNCHANGED <<mode, n, k, games>>
handleStepCount ==
  /\ mode = "sandbox" /\ Len(alive) > 1
  /\ currentCount' = IF currentCount >= k THEN 1 ELSE currentCount + 1
  /\ UNCHANGED <<mode, n, k, state, games, byTheRule>>
\* The reset names person 1 where a new game names nobody: the page shows 1 for both.
handleReset ==
  /\ mode = "sandbox" /\ UNCHANGED <<mode, n, k, games>> /\ Fresh(1) /\ currentCount' = 1
\* Slip: the count of the last game goes on.
FirstCountKept == UNCHANGED currentCount
FirstCount == currentCount' = 1
handleNewProblem ==
  /\ mode = "sandbox" /\ games < MaxGames /\ games' = games + 1
  /\ n' \in Sizes /\ k' \in Counts /\ Fresh(Nobody) /\ FirstCount /\ UNCHANGED mode

Next ==
  \/ \E person \in 1..n : handleRemove(person)
  \/ handleStepCount \/ handleReset \/ handleNewProblem
Spec == Init /\ [][Next]_vars
\* An executor who follows the rule.
RuleStep == mode = "attempt" /\ handleRemove(TheKth)
-----------------------------------------------------------------------------
TypeOK ==
  /\ n \in Sizes /\ k \in Counts /\ currentCount \in 1..k
  /\ nextUp = Nobody \/ \E i \in 1..Len(alive) : alive[i] = nextUp

\* Everyone is in the circle or was removed, once, and those left sit in order:
\* no sequence of removals, resets and new games mixes up two games.
EveryoneOnce ==
  /\ {alive[i] : i \in 1..Len(alive)} \cup {removedOrder[i] : i \in 1..Len(removedOrder)} = 1..n
  /\ Len(alive) + Len(removedOrder) = n
  /\ \A i, j \in 1..Len(alive) : i < j => alive[i] < alive[j]

\* The survivor by the recurrence J(1) = 0, J(m) = (J(m - 1) + k) mod m.
Survivor == LET J[m \in 1..n] == IF m = 1 THEN 0 ELSE (J[m - 1] + k) % m IN J[n] + 1
\* Whoever counts k from the person the page names, each time, ends with the
\* answer that is graded as correct, and that is the one of the problem.
RuleGivesAnswer ==
  /\ correctAnswer = Survivor
  /\ byTheRule /\ Len(alive) = 1 => alive[1] = correctAnswer
=============================================================================
