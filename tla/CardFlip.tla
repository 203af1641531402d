------------------------------ MODULE CardFlip ------------------------------
(* One turn of turning cards: from the right end, every card that shows its  *)
(* face is turned down until one that lies face down is turned up. The rules *)
(* are those of lib/problems/cardflip.ts and the page is                     *)
(* write/sandbox/CardFlipSandbox.tsx. A card is TRUE when it shows its face. *)
EXTENDS Integers, FiniteSets, Sequences

CONSTANTS
  None,
  n,           \* six cards in the program
  MaxLog,      \* bound on the actions of one turn
  MaxGames     \* bound on the layouts dealt

VARIABLES
  initial,     \* the layout the turn began with
  cards, index, checked, finished,
  log,         \* the page's record of the turn
  games,
  ruled        \* so far each action was the rule's

state == <<cards, index, checked, finished>>
vars == <<initial, state, log, games, ruled>>
Layouts == [1..n -> BOOLEAN]

\* cardFlipExpected.
LastDown(c) == IF \A i \in 1..n : c[i] THEN 0
               ELSE CHOOSE i \in 1..n : ~ c[i] /\ \A j \in i + 1..n : c[j]
\* Slip: the turn goes on past the first card that lay face down.
ExpectedAll(c) == [i \in 1..n |-> ~ c[i]]
Expected(c) == [i \in 1..n |-> IF i >= LastDown(c) THEN ~ c[i] ELSE c[i]]
-----------------------------------------------------------------------------
Dealt(c) == cards = c /\ index = n /\ checked = None /\ finished = FALSE
Init == /\ initial \in Layouts /\ Dealt(initial) /\ log = <<>> /\ games = 1 /\ ruled = TRUE

\* The turn by the rule. The last look is remembered while the card is turned.
RuleAction ==
  IF index = 0 THEN "finish"
  ELSE IF checked = None THEN "check"
  ELSE IF cards[index] = checked THEN "flip"
  ELSE IF checked THEN "left" ELSE "finish"

check == checked' = cards[index] /\ UNCHANGED <<cards, index, finished>>
flip == cards' = [cards EXCEPT ![index] = ~ @] /\ UNCHANGED <<index, checked, finished>>
\* Slip: the last look is kept on the way left.
leftLooked == index' = index - 1 /\ UNCHANGED <<cards, checked, finished>>
left == index' = index - 1 /\ checked' = None /\ UNCHANGED <<cards, finished>>
finish == finished' = TRUE /\ UNCHANGED <<cards, index, checked>>
\* The buttons are off where applyAction would refuse.
act(action) ==
  /\ ~ finished /\ (index = 0 => action = "finish")
  /\ \/ action = "check" /\ check
     \/ action = "flip" /\ flip
     \/ action = "left" /\ left
     \/ action = "finish" /\ finish
  /\ Len(log) < MaxLog /\ log' = Append(log, [action |-> action, at |-> index])
  /\ ruled' = (ruled /\ action = RuleAction)
  /\ UNCHANGED <<initial, games>>

DealtAgain(c) == /\ cards' = c /\ index' = n /\ checked' = None
                 /\ finished' = FALSE /\ log' = <<>> /\ ruled' = TRUE
\* Slip: the turn begins again with the cards as they lie.
ResetAsTheyLie == DealtAgain(cards) /\ UNCHANGED <<initial, games>>
Reset == DealtAgain(initial) /\ UNCHANGED <<initial, games>>
Fresh == /\ games < MaxGames /\ games' = games + 1 /\ \E c \in Layouts : DealtAgain(c) /\ initial' = c
reset == Reset \/ Fresh

Next == (\E a \in {"check", "flip", "left", "finish"} : act(a)) \/ reset
Spec == Init /\ [][Next]_vars
RuleStep == act(RuleAction)
-----------------------------------------------------------------------------
correct == cards = Expected(initial)
Turned(log_, i) == Cardinality({j \in 1..Len(log_) : log_[j].action = "flip" /\ log_[j].at = i})

TypeOK ==
  /\ initial \in Layouts /\ cards \in Layouts /\ index \in 0..n
  /\ checked \in BOOLEAN \cup {None} /\ finished \in BOOLEAN
  \* What the page calls the last look was a look at the card it stands on.
  /\ checked # None => \E i \in 1..Len(log) : log[i] = [action |-> "check", at |-> index]

\* The record that is copied into the algorithm explains the cards from the
\* layout shown as the first one, also after a restart and a new layout.
LogExplains == \A i \in 1..n : cards[i] = (initial[i] # (Turned(log, i) % 2 = 1))

\* Number the layout in binary: a turn adds one, and from all faces to none.
ValueOf(c) ==
  LET value[i \in 0..n] == IF i = 0 THEN 0 ELSE 2 * value[i - 1] + IF c[i] THEN 1 ELSE 0
  IN value[n]
TurnAddsOne == ValueOf(Expected(initial)) = (ValueOf(initial) + 1) % (2 ^ n)

\* Whoever follows the rule ends the turn with the expected cards, and only
\* then does the page say so.
RuleIsRight == ruled /\ finished => correct
=============================================================================
