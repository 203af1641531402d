---------------------------- MODULE PracticeProofs ----------------------------
(***************************************************************************)
(* Theorems about the practice problems, the activities' programs and the  *)
(* engine, played freely in instances of any size.                         *)
(***************************************************************************)
EXTENDS Practice, FiniteSetTheorems, FunctionTheorems, SequenceTheorems, WellFoundedInduction,
        TLAPS

-----------------------------------------------------------------------------
(* Induction over sets of numbers, for what is computed by recursion.       *)

LEMMA Below == OpToRel(<, Nat) = {p \in Nat \X Nat : p[1] < p[2]}
  BY Zenon DEF OpToRel

\* A set of numbers has a least one.
LEMMA Least ==
  ASSUME NEW T \in SUBSET Nat, T # {}
  PROVE  \E m \in T : \A x \in T : m <= x
<1>1. PICK m \in T : \A x \in T : ~ (<<x, m>> \in OpToRel(<, Nat))
  BY NatLessThanWellFounded, WFMin, Zenon
<1>2. \A x \in T : ~ (x < m)
  BY <1>1, Below
<1>. QED
  BY <1>2

\* A set with 0, and with the successor of each of its numbers, has all of them.
LEMMA Induct ==
  ASSUME NEW S, 0 \in S, \A i \in Nat : i \in S => i + 1 \in S
  PROVE  \A i \in Nat : i \in S
<1> DEFINE T == {i \in Nat : i \notin S}
<1>1. SUFFICES ASSUME T # {} PROVE FALSE
  OBVIOUS
<1>2. PICK m \in T : \A x \in T : m <= x
  BY <1>1, Least
<1>3. m \in Nat \ {0} /\ m - 1 \in Nat /\ m - 1 \notin T
  BY <1>2
<1>. QED
  BY <1>2, <1>3

\* As far as a bound.
LEMMA InductTo ==
  ASSUME NEW m \in Nat, NEW S, 0 \in S, \A i \in 0..m : i \in S /\ i < m => i + 1 \in S
  PROVE  \A i \in 0..m : i \in S
<1> DEFINE T == {i \in Nat : i <= m => i \in S}
<1>1. 0 \in T
  OBVIOUS
<1>2. \A i \in Nat : i \in T => i + 1 \in T
  OBVIOUS
<1> HIDE DEF T
<1>3. \A i \in Nat : i \in T
  BY <1>1, <1>2, Induct, Zenon
<1>. QED
  BY <1>3 DEF T

-----------------------------------------------------------------------------
(* Coins.                                                                   *)

CoinPans(h) ==
  /\ h.left \subseteq FewCoins /\ h.right \subseteq FewCoins
  /\ h.result \in FreeCoins!Results
  /\ Cardinality(h.left) = Cardinality(h.right)
       => h.result = FreeCoins!Balance(h.left, h.right, fake, heavier)
CoinsInv ==
  /\ FreeCoins!TypeOK /\ FreeCoins!VerdictOfThisGame
  /\ history \in Seq([left : SUBSET FewCoins, right : SUBSET FewCoins, result : FreeCoins!Results])
  /\ \A i \in 1..Len(history) : CoinPans(history[i])

LEMMA CoinCount == \A S : FreeCoins!Cardinality(S) = Cardinality(S)
  BY DEF FreeCoins!Cardinality, Cardinality

\* What a pan of c coins weighs.
LEMMA PanWeight ==
  ASSUME NEW c \in Nat, NEW S, Cardinality(S) = c, NEW x, NEW heavy \in BOOLEAN
  PROVE  /\ x \notin S => FreeCoins!Weight(S, x, heavy) = 2 * c
         /\ x \in S /\ heavy => FreeCoins!Weight(S, x, heavy) = 2 * c + 1
         /\ x \in S /\ ~ heavy => FreeCoins!Weight(S, x, heavy) = 2 * c - 1
<1>1. FreeCoins!Cardinality(S) = c
  BY CoinCount
<1>. QED
  BY <1>1, Zenon DEF FreeCoins!Weight

\* A balance with equally many coins tips the way the page computes it.
LEMMA TipsIsBalance ==
  ASSUME PracticeAssumption, FreeCoins!TypeOK, Cardinality(left) = Cardinality(right)
  PROVE  FreeCoins!Tips = FreeCoins!Balance(left, right, fake, heavier)
<1>1. PICK c \in Nat : Cardinality(left) = c /\ Cardinality(right) = c
  BY FS_Subset, FS_CardinalityType DEF PracticeAssumption, FreeCoins!TypeOK
<1> DEFINE L == FreeCoins!Weight(left, fake, heavier)
           R == FreeCoins!Weight(right, fake, heavier)
<1>2. /\ fake \notin left => L = 2 * c
      /\ fake \in left /\ heavier => L = 2 * c + 1
      /\ fake \in left /\ ~ heavier => L = 2 * c - 1
      /\ fake \notin right => R = 2 * c
      /\ fake \in right /\ heavier => R = 2 * c + 1
      /\ fake \in right /\ ~ heavier => R = 2 * c - 1
  <2>1. heavier \in BOOLEAN
    BY Zenon DEF FreeCoins!TypeOK
  <2>2. /\ fake \notin left => L = 2 * c
        /\ fake \in left /\ heavier => L = 2 * c + 1
        /\ fake \in left /\ ~ heavier => L = 2 * c - 1
    BY <1>1, <2>1, PanWeight, Zenon
  <2>3. /\ fake \notin right => R = 2 * c
        /\ fake \in right /\ heavier => R = 2 * c + 1
        /\ fake \in right /\ ~ heavier => R = 2 * c - 1
    BY <1>1, <2>1, PanWeight, Zenon
  <2>. QED
    BY <2>2, <2>3
<1>3. ~ (fake \in left /\ fake \in right) /\ heavier \in BOOLEAN
  BY DEF FreeCoins!TypeOK
<1>4. FreeCoins!Balance(left, right, fake, heavier) =
        CASE L > R -> "left" [] L < R -> "right" [] OTHER -> "balanced"
  BY Zenon DEF FreeCoins!Balance
<1> HIDE DEF L, R
<1>5. /\ L > R => FreeCoins!Balance(left, right, fake, heavier) = "left"
      /\ L < R => FreeCoins!Balance(left, right, fake, heavier) = "right"
      /\ ~ (L > R) /\ ~ (L < R) => FreeCoins!Balance(left, right, fake, heavier) = "balanced"
  <2>1. \A l, r \in Int : l > r => ~ (l < r)
    OBVIOUS
  <2>2. L \in Int /\ R \in Int
    BY <1>2, <1>3
  <2>. QED
    BY <1>4, <2>1, <2>2
<1>6. CASE fake \in left
  BY <1>2, <1>3, <1>5, <1>6 DEF FreeCoins!Tips
<1>7. CASE fake \in right
  BY <1>2, <1>3, <1>5, <1>7 DEF FreeCoins!Tips
<1>8. CASE fake \notin left /\ fake \notin right
  BY <1>2, <1>3, <1>5, <1>8 DEF FreeCoins!Tips
<1>. QED
  BY <1>6, <1>7, <1>8

LEMMA CoinsHold == Spec => [](area = "coins" => CoinsInv)
<1>1. Init => (area = "coins" => CoinsInv)
  BY DEF Init, FreeCoins!Init, CoinsInv, FreeCoins!TypeOK, FreeCoins!VerdictOfThisGame
<1>2. (area = "coins" => CoinsInv) /\ [Next]_vars => (area = "coins" => CoinsInv)'
  <2>. SUFFICES ASSUME area = "coins" => CoinsInv, [Next]_vars, area' = "coins"
                PROVE  CoinsInv'
    OBVIOUS
  <2>1. CoinsInv /\ [FreeCoins!Next]_(FreeCoins!vars)
    BY Zenon DEF Next, vars, InCoins, InCircle, InCards, InPancakes, InTurn, InBoxes, InForest,
       InStars, InPlan, InWords, InEngine, coinsV, shared, FreeCoins!vars, FreeCoins!input,
       FreeCoins!pans
  <2>2. ASSUME NEW S \in FreeCoins!Selections, FreeCoins!Place(S)
        PROVE  CoinsInv'
    BY <2>1, <2>2 DEF CoinsInv, FreeCoins!Selections, FreeCoins!Place, FreeCoins!placeLeft,
       FreeCoins!placeRight, FreeCoins!input, FreeCoins!TypeOK, FreeCoins!VerdictOfThisGame,
       CoinPans
  <2>3. CASE FreeCoins!clearPans
    BY <2>1, <2>3 DEF CoinsInv, FreeCoins!clearPans, FreeCoins!input, FreeCoins!TypeOK,
       FreeCoins!VerdictOfThisGame, CoinPans
  <2>4. CASE FreeCoins!weigh
    <3> DEFINE h == [left |-> left, right |-> right, result |-> FreeCoins!Tips]
    <3>1. /\ h \in [left : SUBSET FewCoins, right : SUBSET FewCoins, result : FreeCoins!Results]
          /\ CoinPans(h)
      BY <2>1, TipsIsBalance, PracticeAssumption
      DEF CoinsInv, FreeCoins!TypeOK, CoinPans, FreeCoins!Tips, FreeCoins!Results
    <3>2. history' = Append(history, h) /\ left' = {} /\ right' = {}
          /\ UNCHANGED <<fake, heavier, feedback, mode>>
      BY <2>4 DEF FreeCoins!weigh, FreeCoins!input
    <3>3. /\ history' \in Seq([left : SUBSET FewCoins, right : SUBSET FewCoins,
                               result : FreeCoins!Results])
          /\ Len(history') = Len(history) + 1
          /\ \A i \in 1..Len(history') :
               history'[i] = IF i = Len(history) + 1 THEN h ELSE history[i]
      BY <2>1, <3>1, <3>2 DEF CoinsInv
    <3>4. (\A i \in 1..Len(history) : CoinPans(history[i]))'
      BY <2>1, <3>1, <3>2, <3>3 DEF CoinsInv, CoinPans
    <3>. QED
      BY <2>1, <3>2, <3>3, <3>4
      DEF CoinsInv, CoinPans, FreeCoins!TypeOK, FreeCoins!VerdictOfThisGame
  <2>5. ASSUME NEW c \in FewCoins, FreeCoins!handleCheckAnswer(c)
        PROVE  CoinsInv'
    BY <2>1, <2>5 DEF CoinsInv, FreeCoins!handleCheckAnswer, FreeCoins!input, FreeCoins!pans,
       FreeCoins!TypeOK, FreeCoins!VerdictOfThisGame, CoinPans
  <2>6. CASE FreeCoins!handleReset
    BY <2>1, <2>6 DEF CoinsInv, FreeCoins!handleReset, FreeCoins!Cleared, FreeCoins!input,
       FreeCoins!TypeOK, FreeCoins!VerdictOfThisGame
  <2>7. CASE FreeCoins!handleNewProblem
    BY <2>1, <2>7 DEF CoinsInv, FreeCoins!handleNewProblem, FreeCoins!NewProblem,
       FreeCoins!Cleared, FreeCoins!TypeOK, FreeCoins!VerdictOfThisGame
  <2>8. CASE UNCHANGED FreeCoins!vars
    BY <2>1, <2>8 DEF CoinsInv, FreeCoins!vars, FreeCoins!input, FreeCoins!pans,
       FreeCoins!TypeOK, FreeCoins!VerdictOfThisGame, CoinPans
  <2>. QED
    BY <2>1, <2>2, <2>3, <2>4, <2>5, <2>6, <2>7, <2>8 DEF FreeCoins!Next
<1>. QED
  BY <1>1, <1>2, PTL DEF Spec

\* The coin to find stays possible.
LEMMA CoinStaysPossible ==
  ASSUME CoinsInv
  PROVE  FreeCoins!FakeStaysPossible
<1> DEFINE x == <<fake, heavier>>
<1>1. x \in FewCoins \X BOOLEAN /\ x[1] = fake /\ x[2] = heavier
  BY DEF CoinsInv, FreeCoins!TypeOK
<1>2. ASSUME NEW i \in 1..Len(history), Cardinality(history[i].left) = Cardinality(history[i].right)
      PROVE  history[i].result = FreeCoins!Balance(history[i].left, history[i].right, x[1], x[2])
  BY <1>1, <1>2 DEF CoinsInv, CoinPans
<1>3. FreeCoins!input = x
  BY DEF FreeCoins!input
<1> HIDE DEF x
<1>4. x \in FreeCoins!Possible
  BY <1>1, <1>2, CoinCount, Zenon DEF FreeCoins!Possible, FreeCoins!Inputs
<1>. QED
  BY <1>3, <1>4 DEF FreeCoins!FakeStaysPossible

-----------------------------------------------------------------------------
(* Circle.                                                                  *)

CircleInv ==
  /\ n \in CircleSizes /\ k \in CircleCounts /\ currentCount \in 1..k
  /\ alive \in Seq(1..n) /\ removedOrder \in Seq(1..n) /\ Len(alive) + Len(removedOrder) = n
  /\ \A i, j \in 1..Len(alive) : i < j => alive[i] < alive[j]
  /\ \A x \in 1..n : (\E i \in 1..Len(alive) : alive[i] = x)
                       \/ \E i \in 1..Len(removedOrder) : removedOrder[i] = x
  /\ nextUp = 0 \/ \E i \in 1..Len(alive) : alive[i] = nextUp

\* A circle without one position: those left keep their order.
LEMMA CircleWithout ==
  ASSUME NEW m \in Nat, NEW s \in Seq(1..m), NEW p \in 1..Len(s)
  PROVE  LET r == FreeCircle!Without(s, p) IN
           /\ r \in Seq(1..m) /\ Len(r) = Len(s) - 1
           /\ \A i \in 1..Len(r) : r[i] = IF i < p THEN s[i] ELSE s[i + 1]
<1> DEFINE a == SubSeq(s, 1, p - 1)
           b == SubSeq(s, p + 1, Len(s))
           r == FreeCircle!Without(s, p)
<1>0. Len(s) \in Nat /\ p \in Int /\ \A i \in 1..Len(s) : s[i] \in 1..m
  BY LenProperties, ElementOfSeq
<1>1. /\ a \in Seq(1..m) /\ Len(a) = p - 1
      /\ \A i \in 1..p - 1 : a[i] = s[i]
  BY <1>0, SubSeqProperties
<1>2. /\ b \in Seq(1..m) /\ Len(b) = Len(s) - p
      /\ \A i \in 1..Len(s) - p : b[i] = s[p + i]
  <2>1. /\ b \in Seq(1..m) /\ Len(b) = IF p + 1 <= Len(s) THEN Len(s) - (p + 1) + 1 ELSE 0
        /\ \A i \in 1..Len(s) - (p + 1) + 1 : b[i] = s[(p + 1) + i - 1]
    BY <1>0, SubSeqProperties
  <2>. QED
    BY <1>0, <2>1
<1>3. r = a \o b
  BY Zenon DEF FreeCircle!Without
<1> HIDE DEF a, b, r
<1>4. /\ r \in Seq(1..m) /\ Len(r) = Len(a) + Len(b)
      /\ \A i \in 1..Len(a) + Len(b) : r[i] = IF i <= Len(a) THEN a[i] ELSE b[i - Len(a)]
  BY <1>1, <1>2, <1>3, ConcatProperties, Zenon
<1>5. Len(r) = Len(s) - 1
  BY <1>0, <1>1, <1>2, <1>4
<1>6. ASSUME NEW i \in 1..Len(r)
      PROVE  r[i] = IF i < p THEN s[i] ELSE s[i + 1]
  <2>1. CASE i < p
    BY <1>0, <1>1, <1>2, <1>4, <1>5, <2>1
  <2>2. CASE ~ (i < p)
    <3>1. r[i] = b[i - (p - 1)] /\ i - (p - 1) \in 1..Len(s) - p /\ p + (i - (p - 1)) = i + 1
      BY <1>0, <1>1, <1>2, <1>4, <1>5, <2>2
    <3>. QED
      BY <1>2, <2>2, <3>1
  <2>. QED
    BY <2>1, <2>2
<1>. QED
  BY <1>4, <1>5, <1>6 DEF r

LEMMA FreshCircleHolds ==
  ASSUME PracticeAssumption, NEW size \in CircleSizes, NEW count \in CircleCounts
  PROVE  /\ size \in Nat \ {0} /\ 1 \in 1..count
         /\ FreeCircle!Circle(size) \in Seq(1..size) /\ Len(FreeCircle!Circle(size)) = size
         /\ \A i \in 1..size : FreeCircle!Circle(size)[i] = i
  BY DEF PracticeAssumption, FreeCircle!Circle

\* Without the one who was removed everyone still is in the circle or removed.
LEMMA RemovalHolds ==
  ASSUME PracticeAssumption, CircleInv, NEW person \in 1..n, FreeCircle!handleRemove(person)
  PROVE  CircleInv'
<1> DEFINE p == FreeCircle!PositionOf(person)
           r == FreeCircle!Without(alive, p)
<1>1. n \in Nat \ {0} /\ 1 \in 1..k
  BY FreshCircleHolds DEF CircleInv
<1>2. /\ \A i, j \in 1..Len(alive) : i < j => alive[i] < alive[j]
      /\ alive \in Seq(1..n) /\ removedOrder \in Seq(1..n)
      /\ Len(alive) + Len(removedOrder) = n
  BY DEF CircleInv
<1>3. /\ Len(alive) \in Nat /\ Len(removedOrder) \in Nat
      /\ \A i \in 1..Len(alive) : alive[i] \in 1..n
  BY <1>2, LenProperties, ElementOfSeq
<1>4. p \in 1..Len(alive) /\ alive[p] = person
  <2>1. \E i \in 1..Len(alive) : alive[i] = person
    BY DEF FreeCircle!handleRemove
  <2>. QED
    BY <2>1, Zenon DEF FreeCircle!PositionOf
<1>5. /\ alive' = r /\ nextUp' = FreeCircle!NextAfter(p, r) /\ Len(alive) > 1
      /\ removedOrder' = Append(removedOrder, person) /\ currentCount' = 1
      /\ n' = n /\ k' = k
  BY DEF FreeCircle!handleRemove
<1> HIDE DEF p
<1>6. /\ r \in Seq(1..n) /\ Len(r) = Len(alive) - 1
      /\ \A i \in 1..Len(r) : r[i] = IF i < p THEN alive[i] ELSE alive[i + 1]
  BY <1>1, <1>2, <1>4, CircleWithout
<1> HIDE DEF r
<1>7. /\ removedOrder' \in Seq(1..n) /\ Len(removedOrder') = Len(removedOrder) + 1
      /\ removedOrder'[Len(removedOrder) + 1] = person
      /\ \A i \in 1..Len(removedOrder) : removedOrder'[i] = removedOrder[i]
  BY <1>2, <1>5, AppendProperties
<1>8. ASSUME NEW i \in 1..Len(r), NEW j \in 1..Len(r), i < j
      PROVE  r[i] < r[j]
  <2>1. i \in 1..Len(alive) /\ j \in 1..Len(alive) /\ i + 1 \in 1..Len(alive) /\ j + 1 \in 1..Len(alive)
    BY <1>3, <1>6
  <2>2. CASE j < p
    BY <1>2, <1>4, <1>6, <1>8, <2>1, <2>2
  <2>3. CASE i < p /\ ~ (j < p)
    <3>1. r[i] = alive[i] /\ r[j] = alive[j + 1] /\ i < j + 1
      BY <1>4, <1>6, <1>8, <2>3
    <3>. QED
      BY <1>2, <2>1, <3>1, Zenon
  <2>4. CASE ~ (i < p)
    <3>1. r[i] = alive[i + 1] /\ r[j] = alive[j + 1] /\ i + 1 < j + 1
      BY <1>4, <1>6, <1>8, <2>4
    <3>. QED
      BY <1>2, <2>1, <3>1, Zenon
  <2>. QED
    BY <1>4, <1>8, <2>1, <2>2, <2>3, <2>4
<1>9. ASSUME NEW x \in 1..n
      PROVE  (\E i \in 1..Len(r) : r[i] = x)
               \/ \E i \in 1..Len(removedOrder') : removedOrder'[i] = x
  <2>1. ASSUME NEW i \in 1..Len(removedOrder), removedOrder[i] = x
        PROVE  \E j \in 1..Len(removedOrder') : removedOrder'[j] = x
    <3>1. i \in 1..Len(removedOrder')
      BY <1>3, <1>7
    <3>. QED
      BY <1>7, <2>1, <3>1
  <2>2. ASSUME NEW i \in 1..Len(alive), alive[i] = x
        PROVE  (\E j \in 1..Len(r) : r[j] = x)
                 \/ \E j \in 1..Len(removedOrder') : removedOrder'[j] = x
    <3>1. CASE i < p
      <4>1. i \in 1..Len(r) /\ r[i] = x
        BY <1>3, <1>4, <1>6, <2>2, <3>1
      <4>. QED
        BY <4>1
    <3>2. CASE i = p
      <4>1. Len(removedOrder) + 1 \in 1..Len(removedOrder')
        BY <1>3, <1>7
      <4>. QED
        BY <1>4, <1>7, <2>2, <3>2, <4>1
    <3>3. CASE i > p
      <4>1. i - 1 \in 1..Len(r) /\ r[i - 1] = x
        BY <1>3, <1>4, <1>6, <2>2, <3>3
      <4>. QED
        BY <4>1
    <3>. QED
      BY <1>4, <3>1, <3>2, <3>3
  <2>. QED
    BY <2>1, <2>2 DEF CircleInv
<1>10. \E i \in 1..Len(r) : r[i] = nextUp'
  <2>1. IF p > Len(r) THEN 1 \in 1..Len(r) ELSE p \in 1..Len(r)
    BY <1>3, <1>4, <1>5, <1>6
  <2>. QED
    BY <1>5, <2>1 DEF FreeCircle!NextAfter
<1>11. Len(r) + Len(removedOrder') = n
  BY <1>2, <1>3, <1>6, <1>7
<1>12. n \in CircleSizes /\ k \in CircleCounts
  BY DEF CircleInv
<1>. QED
  BY <1>1, <1>5, <1>6, <1>7, <1>8, <1>9, <1>10, <1>11, <1>12 DEF CircleInv

LEMMA FreshRoundHolds ==
  ASSUME PracticeAssumption, n' \in CircleSizes, k' \in CircleCounts, currentCount' = 1,
         nextUp' \in {0, 1}, alive' = FreeCircle!Circle(n'), removedOrder' = <<>>
  PROVE  CircleInv'
<1>1. /\ n' \in Nat \ {0} /\ 1 \in 1..k'
      /\ FreeCircle!Circle(n') \in Seq(1..n') /\ Len(FreeCircle!Circle(n')) = n'
      /\ \A i \in 1..n' : FreeCircle!Circle(n')[i] = i
  BY FreshCircleHolds, Zenon
<1>2. Len(alive') = n' /\ alive' \in Seq(1..n') /\ \A i \in 1..n' : alive'[i] = i
  BY <1>1, Zenon
<1>3. Len(removedOrder') = 0 /\ removedOrder' \in Seq(1..n')
  OBVIOUS
<1>4. \A x \in 1..n' : \E i \in 1..Len(alive') : alive'[i] = x
  BY <1>2, Zenon
<1>5. nextUp' = 1 => \E i \in 1..Len(alive') : alive'[i] = nextUp'
  <2>1. 1 \in 1..n'
    BY <1>1
  <2>. QED
    BY <1>2, <2>1, Zenon
<1>6. \A i, j \in 1..Len(alive') : i < j => alive'[i] < alive'[j]
  BY <1>1, <1>2
<1>7. currentCount' \in 1..k' /\ Len(alive') + Len(removedOrder') = n'
  <2>1. \A m \in Nat : m + 0 = m
    OBVIOUS
  <2>2. n' \in Nat
    BY <1>1, Zenon
  <2>3. n' + 0 = n'
    BY <2>1, <2>2, Zenon
  <2>. QED
    BY <1>1, <1>2, <1>3, <2>3, Zenon
<1>8. nextUp' = 0 \/ \E i \in 1..Len(alive') : alive'[i] = nextUp'
  BY <1>5
<1>. QED
  BY <1>2, <1>3, <1>4, <1>6, <1>7, <1>8, Zenon DEF CircleInv

LEMMA CircleHolds == Spec => [](area = "circle" => CircleInv)
<1>1. Init => (area = "circle" => CircleInv)
  <2>. SUFFICES ASSUME FreeCircle!Init PROVE CircleInv
    BY Zenon DEF Init
  <2>1. /\ n \in CircleSizes /\ k \in CircleCounts /\ alive = FreeCircle!Circle(n)
        /\ removedOrder = <<>> /\ nextUp = 0 /\ currentCount = 1
    BY DEF FreeCircle!Init, FreeCircle!Nobody
  <2>2. /\ n \in Nat \ {0} /\ 1 \in 1..k
        /\ FreeCircle!Circle(n) \in Seq(1..n) /\ Len(FreeCircle!Circle(n)) = n
        /\ \A i \in 1..n : FreeCircle!Circle(n)[i] = i
    BY <2>1, FreshCircleHolds, PracticeAssumption, Zenon
  <2>3. Len(alive) = n /\ Len(removedOrder) = 0 /\ alive \in Seq(1..n) /\ removedOrder \in Seq(1..n)
    BY <2>1, <2>2
  <2>. QED
    BY <2>1, <2>2, <2>3 DEF CircleInv
<1>2. (area = "circle" => CircleInv) /\ [Next]_vars => (area = "circle" => CircleInv)'
  <2>. SUFFICES ASSUME area = "circle" => CircleInv, [Next]_vars, area' = "circle"
                PROVE  CircleInv'
    OBVIOUS
  <2>1. CircleInv /\ [FreeCircle!Next]_(FreeCircle!vars)
    BY Zenon DEF Next, vars, InCoins, InCircle, InCards, InPancakes, InTurn, InBoxes, InForest,
       InStars, InPlan, InWords, InEngine, circleV, shared, FreeCircle!vars, FreeCircle!state
  <2>2. ASSUME NEW person \in 1..n, FreeCircle!handleRemove(person)
        PROVE  CircleInv'
    BY <2>1, <2>2, RemovalHolds, PracticeAssumption
  <2>3. CASE FreeCircle!handleStepCount
    <3>1. /\ currentCount' = IF currentCount >= k THEN 1 ELSE currentCount + 1
          /\ UNCHANGED <<n, k, alive, removedOrder, nextUp>>
      BY <2>3 DEF FreeCircle!handleStepCount, FreeCircle!state
    <3>2. k \in Nat /\ 1 <= k
      BY <2>1, PracticeAssumption DEF CircleInv, PracticeAssumption
    <3>3. currentCount' \in 1..k
      BY <2>1, <3>1, <3>2 DEF CircleInv
    <3>. QED
      BY <2>1, <3>1, <3>3 DEF CircleInv
  <2>4. CASE FreeCircle!handleReset
    <3>1. /\ n' = n /\ k' = k /\ currentCount' = 1 /\ nextUp' \in {0, 1}
          /\ alive' = FreeCircle!Circle(n') /\ removedOrder' = <<>>
      BY <2>4 DEF FreeCircle!handleReset, FreeCircle!Fresh
    <3>2. n \in CircleSizes /\ k \in CircleCounts
      BY <2>1 DEF CircleInv
    <3>. QED
      BY <3>1, <3>2, FreshRoundHolds, PracticeAssumption, Zenon
  <2>5. CASE FreeCircle!handleNewProblem
    <3>1. /\ n' \in CircleSizes /\ k' \in CircleCounts /\ currentCount' = 1 /\ nextUp' \in {0, 1}
          /\ alive' = FreeCircle!Circle(n') /\ removedOrder' = <<>>
      BY <2>5 DEF FreeCircle!handleNewProblem, FreeCircle!Fresh, FreeCircle!FirstCount,
         FreeCircle!Nobody
    <3>. QED
      BY <3>1, FreshRoundHolds, PracticeAssumption, Zenon
  <2>6. CASE UNCHANGED FreeCircle!vars
    BY <2>1, <2>6 DEF CircleInv, FreeCircle!vars, FreeCircle!state
  <2>. QED
    BY <2>1, <2>2, <2>3, <2>4, <2>5, <2>6 DEF FreeCircle!Next
<1>. QED
  BY <1>1, <1>2, PTL DEF Spec

LEMMA CircleExplains ==
  ASSUME PracticeAssumption, CircleInv
  PROVE  FreeCircle!TypeOK /\ FreeCircle!EveryoneOnce
<1>1. FreeCircle!TypeOK
  BY DEF CircleInv, FreeCircle!TypeOK, FreeCircle!Nobody
<1>2. {alive[i] : i \in 1..Len(alive)}
        \cup {removedOrder[i] : i \in 1..Len(removedOrder)} = 1..n
  <2>1. /\ \A i \in 1..Len(alive) : alive[i] \in 1..n
        /\ \A i \in 1..Len(removedOrder) : removedOrder[i] \in 1..n
    BY LenProperties, ElementOfSeq DEF CircleInv
  <2>2. \A x \in 1..n : (\E i \in 1..Len(alive) : alive[i] = x)
                           \/ \E i \in 1..Len(removedOrder) : removedOrder[i] = x
    BY DEF CircleInv
  <2>. QED
    BY <2>1, <2>2
<1>. QED
  BY <1>1, <1>2 DEF CircleInv, FreeCircle!EveryoneOnce

-----------------------------------------------------------------------------
(* The rule of the circle.                                                  *)

\* What % computes, for numbers up to twice the modulus and for sums.
LEMMA ModIs ==
  ASSUME NEW m \in Nat \ {0}, NEW x \in Nat
  PROVE  /\ x % m \in 0..m - 1
         /\ x < m => x % m = x
         /\ x \in m..2 * m - 1 => x % m = x - m
  BY Z3

LEMMA ModSum ==
  ASSUME NEW m \in Nat \ {0}, NEW x \in Nat, NEW y \in Nat
  PROVE  (x + (y % m)) % m = (x + y) % m
<1> DEFINE a == y \div m
           z == x + (y % m)
           b == z \div m
<1>1. y % m \in 0..m - 1 /\ a \in Int
  BY Z3
<1>2. y % m = y - m * a
  BY Z3
<1>3. z \in Nat
  BY <1>1
<1>4. z % m = z - m * b /\ z % m \in 0..m - 1 /\ b \in Int
  <2>. HIDE DEF z
  <2>. QED
    BY <1>3, Z3
<1>5. z = x + y - m * a
  BY <1>1, <1>2
<1>. HIDE DEF a, b, z
<1>6. m * a \in Int /\ m * b \in Int /\ m * (a + b) = m * a + m * b
  BY <1>1, <1>4
<1>7. x + y = (a + b) * m + (z % m) /\ a + b \in Int
  <2>1. \A i, j \in Int : z - j \in Int /\ (z = x + y - i => x + y = (i + j) + (z - j))
    BY <1>3
  <2>2. x + y = (m * a + m * b) + (z % m)
    BY <1>4, <1>5, <1>6, <2>1, Zenon
  <2>3. (a + b) * m = m * (a + b) /\ a + b \in Int
    BY <1>1, <1>4
  <2>. QED
    BY <1>6, <2>2, <2>3
<1>8. \A q \in Int, r \in 0..m - 1, v \in Nat : v = q * m + r => v % m = r
  BY Z3
<1>9. (x + y) % m = z % m
  <2>1. x + y \in Nat
    OBVIOUS
  <2>. QED
    BY <1>4, <1>7, <1>8, <2>1, Zenon
<1>. QED
  BY <1>9 DEF z

\* A function that is computed from number to number, as far as a bound.
Iterated(m, X, x0, F) ==
  \E g \in [0..m -> X] : g[0] = x0 /\ \A i \in 1..m : g[i] = F[<<i, g[i - 1]>>]

LEMMA Iterates ==
  ASSUME NEW m \in Nat, NEW X, NEW x0 \in X, NEW F \in [Nat \X X -> X]
  PROVE  Iterated(m, X, x0, F)
<1> DEFINE Goes(j, g) == /\ g \in [0..j -> X] /\ g[0] = x0
                         /\ \A i \in 1..j : g[i] = F[<<i, g[i - 1]>>]
           S == {j \in Nat : \E g : Goes(j, g)}
<1>1. 0 \in S
  <2> DEFINE g == [i \in 0..0 |-> x0]
  <2>1. Goes(0, g)
    OBVIOUS
  <2>. HIDE DEF g, Goes
  <2>. QED
    BY <2>1
<1>2. ASSUME NEW j \in Nat, j \in S PROVE j + 1 \in S
  <2>1. PICK g : Goes(j, g)
    BY <1>2
  <2> DEFINE h == [i \in 0..j + 1 |-> IF i = j + 1 THEN F[<<j + 1, g[j]>>] ELSE g[i]]
  <2>2. g[j] \in X /\ F[<<j + 1, g[j]>>] \in X
    BY <2>1
  <2>3. h \in [0..j + 1 -> X] /\ h[j + 1] = F[<<j + 1, g[j]>>] /\ \A i \in 0..j : h[i] = g[i]
    BY <2>1, <2>2
  <2>. HIDE DEF h
  <2>4. ASSUME NEW i \in 1..j + 1 PROVE h[i] = F[<<i, h[i - 1]>>]
    <3>1. CASE i = j + 1
      <4>1. i - 1 = j /\ j \in 0..j
        BY <3>1
      <4>. QED
        BY <2>3, <3>1, <4>1
    <3>2. CASE i # j + 1
      <4>1. i \in 1..j /\ i \in 0..j /\ i - 1 \in 0..j
        BY <3>2
      <4>. QED
        BY <2>1, <2>3, <4>1
    <3>. QED
      BY <3>1, <3>2
  <2>5. h[0] = x0
    BY <2>1, <2>3
  <2>6. Goes(j + 1, h)
    BY <2>3, <2>4, <2>5
  <2>. HIDE DEF Goes
  <2>. QED
    BY <2>6
<1>. HIDE DEF S
<1>3. m \in S
  BY <1>1, <1>2, Induct
<1>. QED
  BY <1>3 DEF S, Iterated

\* A round of simulateJosephus, and what the rounds keep.
RoundOf(left_, r, count) ==
  LET at_ == (r.idx + count - 1) % (left_ + 1)
  IN [people |-> FreeCircle!Without(r.people, at_ + 1), idx |-> IF at_ = left_ THEN 0 ELSE at_]
FirstRound(size) == [people |-> FreeCircle!Circle(size), idx |-> 0]
GoodRound(size, left_, r) ==
  r \in [people : Seq(1..size), idx : 0..left_ - 1] /\ Len(r.people) = left_

LEMMA RoundIsGood ==
  ASSUME NEW size \in Nat \ {0}, NEW count \in Nat \ {0}, NEW m \in Nat \ {0}, NEW r,
         GoodRound(size, m + 1, r)
  PROVE  GoodRound(size, m, RoundOf(m, r, count))
<1> DEFINE i == (r.idx + count - 1) % (m + 1)
<1>1. r.people \in Seq(1..size) /\ r.idx \in 0..m /\ Len(r.people) = m + 1
  BY DEF GoodRound
<1>2. i \in 0..m
  <2>1. r.idx + count - 1 \in Nat /\ m + 1 \in Nat \ {0} /\ (m + 1) - 1 = m
    BY <1>1
  <2>. QED
    BY <2>1, ModIs
<1>. HIDE DEF i
<1>3. i + 1 \in 1..Len(r.people) /\ size \in Nat
  BY <1>1, <1>2
<1>4. /\ FreeCircle!Without(r.people, i + 1) \in Seq(1..size)
      /\ Len(FreeCircle!Without(r.people, i + 1)) = m
  BY <1>1, <1>3, CircleWithout
<1>5. (IF i = m THEN 0 ELSE i) \in 0..m - 1
  BY <1>2
<1>6. RoundOf(m, r, count) = [people |-> FreeCircle!Without(r.people, i + 1), idx |-> IF i = m THEN 0 ELSE i]
  BY DEF RoundOf, i
<1> DEFINE ppl == FreeCircle!Without(r.people, i + 1)
           nxt == IF i = m THEN 0 ELSE i
<1>7. ppl \in Seq(1..size) /\ Len(ppl) = m /\ nxt \in 0..m - 1 /\ RoundOf(m, r, count) = [people |-> ppl, idx |-> nxt]
  BY <1>4, <1>5, <1>6
<1>. HIDE DEF ppl, nxt
<1>. QED
  BY <1>7 DEF GoodRound

LEMMA FirstIsGood ==
  ASSUME NEW size \in Nat \ {0}
  PROVE  GoodRound(size, size, FirstRound(size))
<1>1. FreeCircle!Circle(size) \in Seq(1..size) /\ Len(FreeCircle!Circle(size)) = size
  BY DEF FreeCircle!Circle
<1>. QED
  BY <1>1 DEF GoodRound, FirstRound

LEMMA RoundsAreGood ==
  ASSUME NEW size \in Nat \ {0}, NEW h, h[size] = FirstRound(size), NEW count \in Nat \ {0},
         \A m \in 1..size - 1 : GoodRound(size, m + 1, h[m + 1]) => h[m] = RoundOf(m, h[m + 1], count)
  PROVE  \A m \in 1..size : GoodRound(size, m, h[m])
<1> DEFINE S == {i \in 0..size - 1 : GoodRound(size, size - i, h[size - i])}
<1>1. 0 \in S
  <2>1. size - 0 = size
    OBVIOUS
  <2>. QED
    BY <2>1, FirstIsGood
<1>2. \A i \in 0..size - 1 : i \in S /\ i < size - 1 => i + 1 \in S
  <2>1. SUFFICES ASSUME NEW i \in 0..size - 1, i \in S, i < size - 1 PROVE i + 1 \in S
    OBVIOUS
  <2> DEFINE m == size - (i + 1)
  <2>2. m \in 1..size - 1 /\ m \in Nat \ {0} /\ size - i = m + 1 /\ i + 1 \in 0..size - 1
    BY <2>1
  <2>. HIDE DEF m
  <2>3. GoodRound(size, m + 1, h[m + 1])
    BY <2>1, <2>2
  <2>4. GoodRound(size, m, h[m])
    BY <2>2, <2>3, RoundIsGood
  <2>. QED
    BY <2>2, <2>4 DEF m
<1>. HIDE DEF S
<1>3. \A i \in 0..size - 1 : i \in S
  <2>1. size - 1 \in Nat
    OBVIOUS
  <2>. QED
    BY <1>1, <1>2, <2>1, InductTo
<1>4. ASSUME NEW m \in 1..size PROVE GoodRound(size, m, h[m])
  <2>1. size - m \in 0..size - 1 /\ size - (size - m) = m
    OBVIOUS
  <2>. QED
    BY <1>3, <2>1 DEF S
<1>. QED
  BY <1>4

\* The rounds of simulateJosephus, the last of which leaves its answer.
Rounds(size, count, h) ==
  /\ h[size] = FirstRound(size)
  /\ \A m \in 1..size - 1 : h[m] = RoundOf(m, h[m + 1], count)
  /\ \A m \in 1..size : GoodRound(size, m, h[m])
RoundsOf(size, count) == CHOOSE h : Rounds(size, count, h) /\ FreeCircle!Simulate(size, count) = h[1].people[1]

LEMMA SimulateIs ==
  ASSUME NEW size \in Nat \ {0}, NEW count \in Nat \ {0}
  PROVE  /\ Rounds(size, count, RoundsOf(size, count))
         /\ FreeCircle!Simulate(size, count) = RoundsOf(size, count)[1].people[1]
<1> DEFINE X == [people : Seq(1..size), idx : Nat]
           Val(i, x) == RoundOf(size - i, x, count)
           F == [c \in Nat \X X |-> IF Val(c[1], c[2]) \in X THEN Val(c[1], c[2]) ELSE c[2]]
           round == CHOOSE f : f = [left_ \in 1..size |->
             IF left_ = size THEN [people |-> FreeCircle!Circle(size), idx |-> 0]
             ELSE LET people == f[left_ + 1].people
                      at_ == (f[left_ + 1].idx + count - 1) % (left_ + 1)
                  IN [people |-> FreeCircle!Without(people, at_ + 1), idx |-> IF at_ = left_ THEN 0 ELSE at_]]
           Is(f) == f = [left_ \in 1..size |-> IF left_ = size THEN FirstRound(size)
                                               ELSE RoundOf(left_, f[left_ + 1], count)]
<1>1. FreeCircle!Simulate(size, count) = round[1].people[1]
  BY DEF FreeCircle!Simulate
<1>2. round = CHOOSE f : Is(f)
  BY DEF RoundOf, FirstRound
<1>. HIDE DEF round
<1>3. F \in [Nat \X X -> X]
  <2>. HIDE DEF X, Val
  <2>. QED
    OBVIOUS
<1>4. FirstRound(size) \in X /\ \A m \in Nat : \A r : GoodRound(size, m, r) => r \in X
  BY FirstIsGood DEF GoodRound
<1>5. \A i \in Nat, x \in X : Val(i, x) \in X => F[<<i, x>>] = Val(i, x)
  <2>. HIDE DEF X, Val
  <2>. QED
    OBVIOUS
<1>. HIDE DEF F, X
<1>6. PICK g \in [0..size -> X] : /\ g[0] = FirstRound(size)
                                  /\ \A i \in 1..size : g[i] = F[<<i, g[i - 1]>>]
  <2>1. size \in Nat
    OBVIOUS
  <2>. QED
    BY <1>3, <1>4, <2>1, Iterates DEF Iterated
<1> DEFINE h == [m \in 1..size |-> g[size - m]]
<1>7. h[size] = FirstRound(size)
  <2>1. size \in 1..size /\ size - size = 0
    OBVIOUS
  <2>. QED
    BY <1>6, <2>1
<1>8. ASSUME NEW m \in 1..size - 1, GoodRound(size, m + 1, h[m + 1])
      PROVE  h[m] = RoundOf(m, h[m + 1], count)
  <2> DEFINE i == size - m
  <2>1. /\ i \in 1..size /\ i \in Nat /\ size - i = m /\ m \in Nat \ {0} /\ m \in 1..size /\ m + 1 \in 1..size
        /\ size - (m + 1) = i - 1
    OBVIOUS
  <2>2. h[m] = g[i] /\ h[m + 1] = g[i - 1]
    BY <2>1
  <2>. HIDE DEF h, i
  <2>3. h[m] = F[<<i, h[m + 1]>>]
    BY <1>6, <2>1, <2>2
  <2>4. GoodRound(size, m, RoundOf(m, h[m + 1], count))
    BY <1>8, <2>1, RoundIsGood
  <2>5. h[m + 1] \in X /\ Val(i, h[m + 1]) = RoundOf(m, h[m + 1], count) /\ Val(i, h[m + 1]) \in X
    BY <1>4, <1>8, <2>1, <2>4
  <2>. HIDE DEF Val
  <2>. QED
    BY <1>5, <2>1, <2>3, <2>5
<1>9. \A m \in 1..size : GoodRound(size, m, h[m])
  <2>. HIDE DEF h
  <2>. QED
    BY <1>7, <1>8, RoundsAreGood
<1>10. Is(h)
  <2>1. ASSUME NEW m \in 1..size
        PROVE  h[m] = IF m = size THEN FirstRound(size) ELSE RoundOf(m, h[m + 1], count)
    <3>1. CASE m = size
      BY <1>7, <3>1
    <3>2. CASE m # size
      <4>1. m \in 1..size - 1 /\ m + 1 \in 1..size
        BY <3>2
      <4>. HIDE DEF h
      <4>. QED
        BY <1>8, <1>9, <3>2, <4>1
    <3>. QED
      BY <3>1, <3>2
  <2>2. h = [m \in 1..size |-> h[m]]
    OBVIOUS
  <2>. HIDE DEF h
  <2>. QED
    BY <2>1, <2>2
<1>. HIDE DEF h
<1>11. Is(round)
  <2>. HIDE DEF Is
  <2>. QED
    BY <1>2, <1>10, Zenon
<1>12. /\ round[size] = FirstRound(size)
       /\ \A m \in 1..size - 1 : round[m] = RoundOf(m, round[m + 1], count)
  <2>1. \A m \in 1..size : round[m] = IF m = size THEN FirstRound(size) ELSE RoundOf(m, round[m + 1], count)
    BY <1>11
  <2>2. size \in 1..size /\ \A m \in 1..size - 1 : m \in 1..size /\ m # size
    OBVIOUS
  <2>. QED
    BY <2>1, <2>2
<1>13. Rounds(size, count, round)
  BY <1>12, RoundsAreGood DEF Rounds
<1>14. \E f : Rounds(size, count, f) /\ FreeCircle!Simulate(size, count) = f[1].people[1]
  BY <1>1, <1>13
<1>. QED
  BY <1>14, Zenon DEF RoundsOf

\* The recurrence, as a function.
Recurs(size, count, J) ==
  /\ J[1] = 0 /\ \A m \in 1..size : J[m] \in 0..m - 1
  /\ \A m \in 1..size - 1 : J[m + 1] = (J[m] + count) % (m + 1)

LEMMA SurvivorIs ==
  ASSUME n \in Nat \ {0}, k \in Nat \ {0}
  PROVE  \E J : Recurs(n, k, J) /\ FreeCircle!Survivor = J[n] + 1
<1> DEFINE F == [c \in Nat \X Nat |-> (c[2] + k) % (c[1] + 1)]
           Is(f) == f = [m \in 1..n |-> IF m = 1 THEN 0 ELSE (f[m - 1] + k) % m]
           J == CHOOSE f : f = [m \in 1..n |-> IF m = 1 THEN 0 ELSE (f[m - 1] + k) % m]
<1>1. FreeCircle!Survivor = J[n] + 1
  BY DEF FreeCircle!Survivor
<1>2. J = CHOOSE f : Is(f)
  OBVIOUS
<1>. HIDE DEF J
<1>3. \A i \in Nat, x \in Nat : (x + k) % (i + 1) \in 0..i
  <2>1. ASSUME NEW i \in Nat, NEW x \in Nat PROVE (x + k) % (i + 1) \in 0..i
    <3>1. i + 1 \in Nat \ {0} /\ x + k \in Nat /\ (i + 1) - 1 = i
      OBVIOUS
    <3>. QED
      BY <3>1, ModIs
  <2>. QED
    BY <2>1
<1>4. F \in [Nat \X Nat -> Nat]
  BY <1>3
<1>5. \A i \in Nat, x \in Nat : F[<<i, x>>] = (x + k) % (i + 1)
  OBVIOUS
<1>. HIDE DEF F
<1>6. PICK g \in [0..n -> Nat] : g[0] = 0 /\ \A i \in 1..n : g[i] = F[<<i, g[i - 1]>>]
  <2> DEFINE X == Nat
             x0 == 0
  <2>1. n \in Nat /\ x0 \in X /\ F \in [Nat \X X -> X]
    BY <1>4
  <2>. HIDE DEF X, x0
  <2>2. Iterated(n, X, x0, F)
    BY <2>1, Iterates, Zenon
  <2>. QED
    BY <2>2 DEF X, x0, Iterated
<1> DEFINE h == [m \in 1..n |-> g[m - 1]]
<1>7. Is(h)
  <2>1. ASSUME NEW m \in 1..n PROVE h[m] = IF m = 1 THEN 0 ELSE (h[m - 1] + k) % m
    <3>1. CASE m = 1
      BY <1>6, <3>1
    <3>2. CASE m # 1
      <4>1. m - 1 \in 1..n /\ m - 1 \in Nat /\ (m - 1) - 1 \in 0..n /\ (m - 1) + 1 = m
        BY <3>2
      <4>2. h[m] = g[m - 1] /\ h[m - 1] = g[(m - 1) - 1] /\ g[(m - 1) - 1] \in Nat
        BY <1>6, <4>1
      <4>. HIDE DEF h
      <4>3. h[m] = (h[m - 1] + k) % ((m - 1) + 1)
        BY <1>5, <1>6, <4>1, <4>2
      <4>. QED
        BY <3>2, <4>1, <4>3
    <3>. QED
      BY <3>1, <3>2
  <2>2. h = [m \in 1..n |-> h[m]]
    OBVIOUS
  <2>. HIDE DEF h
  <2>. QED
    BY <2>1, <2>2
<1>. HIDE DEF h
<1>8. Is(J)
  <2>. HIDE DEF Is
  <2>. QED
    BY <1>2, <1>7, Zenon
<1>9. \A m \in 1..n : J[m] = IF m = 1 THEN 0 ELSE (J[m - 1] + k) % m
  BY <1>8
<1>. HIDE DEF Is
<1>10. J[1] = 0
  <2>1. 1 \in 1..n
    OBVIOUS
  <2>. QED
    BY <1>9, <2>1
<1>11. \A m \in 1..n - 1 : J[m + 1] = (J[m] + k) % (m + 1)
  <2>1. \A m \in 1..n - 1 : m + 1 \in 1..n /\ m + 1 # 1 /\ (m + 1) - 1 = m
    OBVIOUS
  <2>. QED
    BY <1>9, <2>1
<1>12. \A m \in 1..n : J[m] \in 0..m - 1
  <2> DEFINE S == {i \in 0..n - 1 : J[i + 1] \in 0..i}
  <2>1. 0 \in S
    BY <1>10
  <2>2. \A i \in 0..n - 1 : i \in S /\ i < n - 1 => i + 1 \in S
    <3>1. SUFFICES ASSUME NEW i \in 0..n - 1, i \in S, i < n - 1 PROVE i + 1 \in S
      OBVIOUS
    <3>2. i + 1 \in 1..n - 1 /\ i + 1 \in Nat /\ J[i + 1] \in Nat
      BY <3>1
    <3>3. J[(i + 1) + 1] = (J[i + 1] + k) % ((i + 1) + 1)
      BY <1>11, <3>2
    <3>4. J[(i + 1) + 1] \in 0..i + 1
      BY <1>3, <3>2, <3>3
    <3>. QED
      BY <3>1, <3>2, <3>4
  <2>. HIDE DEF S
  <2>3. \A i \in 0..n - 1 : i \in S
    <3>1. n - 1 \in Nat
      OBVIOUS
    <3>. QED
      BY <2>1, <2>2, <3>1, InductTo
  <2>4. ASSUME NEW m \in 1..n PROVE J[m] \in 0..m - 1
    <3>1. m - 1 \in 0..n - 1 /\ (m - 1) + 1 = m
      OBVIOUS
    <3>. QED
      BY <2>3, <3>1 DEF S
  <2>. QED
    BY <2>4
<1>. QED
  BY <1>1, <1>10, <1>11, <1>12 DEF Recurs

\* One round moves the survivor's place as the recurrence does: at_ is who
\* leaves, i2 the next index, q the survivor's index after the round.
Moves(m, i, j, count) ==
  \A at_, i2, q :
    at_ = (i + count - 1) % (m + 1) /\ i2 = (IF at_ = m THEN 0 ELSE at_) /\ q = (i2 + j) % m
    => /\ at_ \in 0..m /\ q \in 0..m - 1
       /\ (i + ((j + count) % (m + 1))) % (m + 1) = IF q < at_ THEN q ELSE q + 1

LEMMA PlaceMoves ==
  ASSUME NEW m \in Nat \ {0}, NEW i \in 0..m, NEW j \in 0..m - 1, NEW count \in Nat \ {0}
  PROVE  Moves(m, i, j, count)
<1>0. SUFFICES ASSUME NEW at_, NEW i2, NEW q, at_ = (i + count - 1) % (m + 1),
                      i2 = (IF at_ = m THEN 0 ELSE at_), q = (i2 + j) % m
               PROVE  /\ at_ \in 0..m /\ q \in 0..m - 1
                      /\ (i + ((j + count) % (m + 1))) % (m + 1) = IF q < at_ THEN q ELSE q + 1
  BY Zenon DEF Moves
<1> DEFINE M == m + 1
           x == i + count - 1
<1>1. M \in Nat \ {0} /\ x \in Nat /\ M - 1 = m
  OBVIOUS
<1>2. at_ \in 0..m
  BY <1>0, <1>1, ModIs
<1>3. /\ (i + ((j + count) % M)) % M = (i + (j + count)) % M
      /\ ((j + 1) + (x % M)) % M = ((j + 1) + x) % M
  <2>1. i \in Nat /\ j + count \in Nat /\ j + 1 \in Nat
    OBVIOUS
  <2>. HIDE DEF M, x
  <2>. QED
    BY <1>1, <2>1, ModSum, Zenon
<1>5. i + (j + count) = (j + 1) + x
  OBVIOUS
<1>6. (i + ((j + count) % M)) % M = ((j + 1) + at_) % M
  BY <1>0, <1>3, <1>5
<1>. HIDE DEF M, x
<1>7. i2 \in 0..m - 1 /\ q \in 0..m - 1
  <2>1. i2 \in 0..m - 1 /\ i2 + j \in Nat
    BY <1>0, <1>2
  <2>. QED
    BY <1>0, <2>1, ModIs
<1>8. CASE at_ = m
  <2>1. i2 + j = j /\ j \in Nat /\ j < m
    BY <1>0, <1>8
  <2>2. q = j
    BY <1>0, <2>1, ModIs
  <2>3. (j + 1) + at_ \in M..2 * M - 1 /\ ((j + 1) + at_) - M = j /\ (j + 1) + at_ \in Nat
    BY <1>8 DEF M
  <2>4. ((j + 1) + at_) % M = j
    BY <1>1, <2>3, ModIs
  <2>. QED
    BY <1>2, <1>6, <1>7, <1>8, <2>2, <2>4 DEF M
<1>9. CASE at_ # m /\ at_ + j < m
  <2>1. q = at_ + j
    <3>1. i2 + j = at_ + j /\ at_ + j \in Nat
      BY <1>0, <1>2, <1>9
    <3>. QED
      BY <1>0, <1>9, <3>1, ModIs
  <2>2. ((j + 1) + at_) % M = (j + 1) + at_
    <3>1. (j + 1) + at_ \in Nat /\ (j + 1) + at_ < M
      BY <1>2, <1>9 DEF M
    <3>. QED
      BY <1>1, <3>1, ModIs
  <2>. QED
    BY <1>2, <1>6, <1>7, <2>1, <2>2 DEF M
<1>10. CASE at_ # m /\ ~ (at_ + j < m)
  <2>1. q = at_ + j - m
    <3>1. i2 + j = at_ + j /\ at_ + j \in Nat /\ at_ + j \in m..2 * m - 1
      BY <1>0, <1>2, <1>10
    <3>. QED
      BY <1>0, <3>1, ModIs
  <2>2. ((j + 1) + at_) % M = at_ + j - m
    <3>1. (j + 1) + at_ \in Nat /\ (j + 1) + at_ \in M..2 * M - 1 /\ ((j + 1) + at_) - M = at_ + j - m
      BY <1>2, <1>10 DEF M
    <3>. QED
      BY <1>1, <3>1, ModIs
  <2>. QED
    BY <1>2, <1>6, <1>7, <2>1, <2>2 DEF M
<1>. QED
  BY <1>8, <1>9, <1>10

\* The answer that is graded is the one of the recurrence.
LEMMA AnswerIsSurvivor ==
  ASSUME n \in Nat \ {0}, k \in Nat \ {0}
  PROVE  FreeCircle!correctAnswer = FreeCircle!Survivor
<1> DEFINE h == RoundsOf(n, k)
           last == h[1].people[1]
<1>1. FreeCircle!correctAnswer = last /\ Rounds(n, k, h)
  BY SimulateIs DEF FreeCircle!correctAnswer
<1>2. PICK J : Recurs(n, k, J) /\ FreeCircle!Survivor = J[n] + 1
  BY SurvivorIs
<1>. HIDE DEF h, last
<1> DEFINE Place(m) == ((h[m].idx + J[m]) % m) + 1
           S == {i \in 0..n - 1 : last = h[i + 1].people[Place(i + 1)]}
<1>3. 0 \in S
  <2>1. GoodRound(n, 1, h[1]) /\ J[1] = 0
    <3>1. 1 \in 1..n
      OBVIOUS
    <3>. QED
      BY <1>1, <1>2, <3>1 DEF Rounds, Recurs
  <2>2. h[1].idx = 0
    BY <2>1 DEF GoodRound
  <2>3. Place(1) = 1
    <3>1. 0 + 0 \in Nat /\ 0 + 0 < 1 /\ 1 \in Nat \ {0}
      OBVIOUS
    <3>2. (0 + 0) % 1 = 0
      BY <3>1, ModIs
    <3>. QED
      BY <2>1, <2>2, <3>2
  <2>. HIDE DEF Place
  <2>. QED
    BY <2>3 DEF last
<1>4. \A i \in 0..n - 1 : i \in S /\ i < n - 1 => i + 1 \in S
  <2>1. SUFFICES ASSUME NEW i \in 0..n - 1, i \in S, i < n - 1 PROVE i + 1 \in S
    OBVIOUS
  <2> DEFINE m == i + 1
             r == h[m + 1]
             pos == (r.idx + k - 1) % (m + 1)
             q == (h[m].idx + J[m]) % m
  <2>2. m \in 1..n - 1 /\ m \in 1..n /\ m + 1 \in 1..n /\ m \in Nat \ {0}
    BY <2>1
  <2>3. last = h[m].people[Place(m)] /\ Place(m) = q + 1
    BY <2>1
  <2>4. /\ h[m] = RoundOf(m, r, k) /\ GoodRound(n, m + 1, r)
        /\ J[m + 1] = (J[m] + k) % (m + 1) /\ J[m] \in 0..m - 1
    BY <1>1, <1>2, <2>2 DEF Rounds, Recurs
  <2>5. r.people \in Seq(1..n) /\ Len(r.people) = m + 1 /\ r.idx \in 0..m
    BY <2>2, <2>4 DEF GoodRound
  <2>6. h[m].people = FreeCircle!Without(r.people, pos + 1) /\ h[m].idx = IF pos = m THEN 0 ELSE pos
    BY <2>4 DEF RoundOf
  <2>. HIDE DEF r, m, S
  <2>7. /\ pos \in 0..m /\ q \in 0..m - 1
        /\ (r.idx + J[m + 1]) % (m + 1) = IF q < pos THEN q ELSE q + 1
    <3> DEFINE i2 == IF pos = m THEN 0 ELSE pos
    <3>1. q = (i2 + J[m]) % m
      BY <2>6
    <3>. HIDE DEF i2, pos
    <3>2. i2 = IF pos = m THEN 0 ELSE pos
      BY DEF i2
    <3>3. pos = (r.idx + k - 1) % (m + 1)
      BY DEF pos
    <3>4. /\ pos \in 0..m /\ q \in 0..m - 1
          /\ (r.idx + ((J[m] + k) % (m + 1))) % (m + 1) = IF q < pos THEN q ELSE q + 1
      <4>1. m \in Nat \ {0} /\ r.idx \in 0..m /\ J[m] \in 0..m - 1 /\ k \in Nat \ {0}
        BY <2>2, <2>4, <2>5
      <4>. HIDE DEF q
      <4>2. Moves(m, r.idx, J[m], k)
        BY <4>1, PlaceMoves, Zenon
      <4>. QED
        BY <3>1, <3>2, <3>3, <4>2, Zenon DEF Moves
    <3>. QED
      BY <2>4, <3>4
  <2>. HIDE DEF pos, q
  <2>8. pos + 1 \in 1..Len(r.people) /\ n \in Nat
    BY <2>2, <2>5, <2>7
  <2>9. /\ Len(h[m].people) = m
        /\ \A j \in 1..m : h[m].people[j] = IF j < pos + 1 THEN r.people[j] ELSE r.people[j + 1]
    <3>1. Len(r.people) - 1 = m
      BY <2>2, <2>5
    <3>2. LET s == FreeCircle!Without(r.people, pos + 1) IN
            /\ Len(s) = Len(r.people) - 1
            /\ \A j \in 1..Len(s) : s[j] = IF j < pos + 1 THEN r.people[j] ELSE r.people[j + 1]
      BY <2>5, <2>8, CircleWithout
    <3>. QED
      BY <2>6, <3>1, <3>2
  <2>10. last = IF q < pos THEN r.people[q + 1] ELSE r.people[(q + 1) + 1]
    <3>1. q + 1 \in 1..m /\ (q + 1 < pos + 1 <=> q < pos)
      BY <2>2, <2>7
    <3>. HIDE DEF Place
    <3>. QED
      BY <2>3, <2>9, <3>1
  <2>11. Place(m + 1) = IF q < pos THEN q + 1 ELSE (q + 1) + 1
    <3>1. Place(m + 1) = ((r.idx + J[m + 1]) % (m + 1)) + 1
      BY DEF r
    <3>. HIDE DEF Place
    <3>. QED
      BY <2>7, <3>1
  <2>12. last = h[m + 1].people[Place(m + 1)]
    <3>. HIDE DEF Place
    <3>. QED
      BY <2>10, <2>11 DEF r
  <2>. QED
    <3>1. i + 1 \in 0..n - 1
      BY <2>1
    <3>. HIDE DEF Place
    <3>. QED
      BY <2>12, <3>1 DEF S, m
<1>5. n - 1 \in S
  <2>1. n - 1 \in Nat /\ n - 1 \in 0..n - 1
    OBVIOUS
  <2>. HIDE DEF S
  <2>. QED
    BY <1>3, <1>4, <2>1, InductTo
<1>6. last = h[n].people[Place(n)]
  <2>1. (n - 1) + 1 = n
    OBVIOUS
  <2>. HIDE DEF Place
  <2>. QED
    BY <1>5, <2>1
<1>7. h[n] = FirstRound(n) /\ J[n] \in 0..n - 1
  <2>1. n \in 1..n
    OBVIOUS
  <2>. QED
    BY <1>1, <1>2, <2>1 DEF Rounds, Recurs
<1>8. Place(n) = J[n] + 1
  <2>1. h[n].idx = 0
    BY <1>7 DEF FirstRound
  <2>2. 0 + J[n] = J[n] /\ J[n] \in Nat /\ J[n] < n
    BY <1>7
  <2>3. (0 + J[n]) % n = J[n]
    BY <2>2, ModIs
  <2>. QED
    BY <2>1, <2>3
<1>9. h[n].people[J[n] + 1] = J[n] + 1
  BY <1>7 DEF FirstRound, FreeCircle!Circle
<1>. HIDE DEF Place
<1>. QED
  BY <1>1, <1>2, <1>6, <1>8, <1>9

\* So far as the rule was followed, the page and simulateJosephus have the same
\* circle and the same next person.
CircleRuled ==
  byTheRule => /\ alive = RoundsOf(n, k)[Len(alive)].people
               /\ Len(alive) \in 1..n
               /\ FreeCircle!displayNextUp = alive[RoundsOf(n, k)[Len(alive)].idx + 1]

LEMMA FreshRound ==
  ASSUME n' \in Nat \ {0}, k' \in Nat \ {0}, alive' = FreeCircle!Circle(n'), nextUp' \in {0, 1}
  PROVE  CircleRuled'
<1>1. Rounds(n', k', RoundsOf(n', k'))
  BY SimulateIs
<1>2. RoundsOf(n', k')[n'] = FirstRound(n')
  BY <1>1 DEF Rounds
<1>3. Len(alive') = n' /\ n' \in 1..n' /\ alive'[1] = 1
  BY DEF FreeCircle!Circle
<1>4. FreeCircle!displayNextUp' = 1
  BY DEF FreeCircle!displayNextUp, FreeCircle!Nobody
<1>5. alive' = RoundsOf(n', k')[n'].people /\ RoundsOf(n', k')[n'].idx + 1 = 1
  BY <1>2 DEF FirstRound
<1>. QED
  BY <1>3, <1>4, <1>5 DEF CircleRuled

\* Who counts k from the person the page names removes the one of the next round.
LEMMA RuleRemoves ==
  ASSUME n \in Nat \ {0}, k \in Nat \ {0}, CircleInv, CircleRuled,
         NEW person, FreeCircle!handleRemove(person)
  PROVE  CircleRuled'
<1>1. SUFFICES ASSUME byTheRule'
               PROVE  /\ alive' = RoundsOf(n, k)[Len(alive')].people
                      /\ Len(alive') \in 1..n
                      /\ FreeCircle!displayNextUp' = alive'[RoundsOf(n, k)[Len(alive')].idx + 1]
  BY DEF FreeCircle!handleRemove, CircleRuled
<1> DEFINE h == RoundsOf(n, k)
           m == Len(alive) - 1
           r == h[m + 1]
           pos == (r.idx + k - 1) % (m + 1)
           rest == FreeCircle!Without(alive, pos + 1)
<1>2. byTheRule /\ person = FreeCircle!TheKth /\ Len(alive) > 1
      /\ alive' = FreeCircle!Without(alive, FreeCircle!PositionOf(person))
      /\ nextUp' = FreeCircle!NextAfter(FreeCircle!PositionOf(person), alive')
  BY <1>1, Zenon DEF FreeCircle!handleRemove
<1>3. /\ alive = h[Len(alive)].people /\ Len(alive) \in 1..n
      /\ FreeCircle!displayNextUp = alive[h[Len(alive)].idx + 1]
  BY <1>2 DEF CircleRuled
<1>4. m \in Nat \ {0} /\ m \in 1..n - 1 /\ m + 1 \in 1..n /\ Len(alive) = m + 1 /\ m \in 1..n
  <2>1. \A i \in 1..n : i > 1 =>
          /\ i - 1 \in Nat \ {0} /\ i - 1 \in 1..n - 1 /\ (i - 1) + 1 \in 1..n
          /\ i = (i - 1) + 1 /\ i - 1 \in 1..n
    OBVIOUS
  <2>. QED
    BY <1>2, <1>3, <2>1, Zenon
<1>5. Rounds(n, k, h)
  BY SimulateIs
<1>. HIDE DEF h, m
<1>6. h[m] = RoundOf(m, r, k) /\ GoodRound(n, m + 1, r) /\ GoodRound(n, m, h[m])
  BY <1>4, <1>5 DEF Rounds
<1>7. r.people = alive /\ r.idx \in 0..m /\ FreeCircle!displayNextUp = alive[r.idx + 1]
  <2>1. (m + 1) - 1 = m
    BY <1>4
  <2>. QED
    BY <1>3, <1>4, <1>6, <2>1 DEF GoodRound
<1>8. h[m].people = rest /\ h[m].idx = (IF pos = m THEN 0 ELSE pos) /\ Len(rest) = m
  BY <1>6, <1>7 DEF RoundOf, GoodRound
<1>. HIDE DEF r
<1>9. pos \in 0..m
  <2>1. m + 1 \in Nat \ {0} /\ r.idx + k - 1 \in Nat /\ (m + 1) - 1 = m
    BY <1>4, <1>7
  <2>. QED
    BY <2>1, ModIs
<1>10. \A i \in 1..Len(alive) : FreeCircle!PositionOf(alive[i]) = i
  <2>1. ASSUME NEW i \in 1..Len(alive) PROVE FreeCircle!PositionOf(alive[i]) = i
    <3> DEFINE p == FreeCircle!PositionOf(alive[i])
    <3>1. p \in 1..Len(alive) /\ alive[p] = alive[i]
      BY Zenon DEF FreeCircle!PositionOf
    <3>. HIDE DEF p
    <3>2. /\ \A a, b \in 1..Len(alive) : a < b => alive[a] < alive[b]
          /\ \A a \in 1..Len(alive) : alive[a] \in 1..n
      BY ElementOfSeq, LenProperties DEF CircleInv
    <3>3. ~ (p < i) /\ ~ (i < p)
      BY <3>1, <3>2
    <3>4. p = i
      BY <1>4, <3>1, <3>3
    <3>. QED
      BY <3>4 DEF p
  <2>. QED
    BY <2>1
<1>11. FreeCircle!PositionOf(person) = pos + 1
  <2>1. r.idx + 1 \in 1..Len(alive) /\ pos + 1 \in 1..Len(alive)
    BY <1>4, <1>7, <1>9
  <2>2. FreeCircle!PositionOf(FreeCircle!displayNextUp) = r.idx + 1
    BY <1>7, <1>10, <2>1
  <2>3. (((r.idx + 1) - 1) + (k - 1)) % Len(alive) = pos
    <3>1. ((r.idx + 1) - 1) + (k - 1) = r.idx + k - 1
      BY <1>7
    <3>. QED
      BY <1>4, <3>1
  <2>. HIDE DEF pos
  <2>4. person = alive[pos + 1]
    BY <1>2, <2>2, <2>3 DEF FreeCircle!TheKth
  <2>. QED
    BY <1>10, <2>1, <2>4
<1>. HIDE DEF pos, rest
<1>12. alive' = rest /\ Len(alive') = m
  BY <1>2, <1>8, <1>11 DEF rest
<1>13. nextUp' = alive'[h[m].idx + 1]
  <2>1. pos + 1 > m <=> pos = m
    BY <1>4, <1>9
  <2>. QED
    BY <1>2, <1>8, <1>11, <1>12, <2>1 DEF FreeCircle!NextAfter
<1>14. nextUp' # 0
  <2>1. /\ h[m].people \in Seq(1..n) /\ h[m].idx + 1 \in 1..m
    BY <1>4, <1>6 DEF GoodRound
  <2>2. alive'[h[m].idx + 1] \in 1..n
    BY <1>8, <1>12, <2>1, ElementOfSeq
  <2>. QED
    BY <1>13, <2>2
<1>15. FreeCircle!displayNextUp' = nextUp'
  BY <1>14 DEF FreeCircle!displayNextUp, FreeCircle!Nobody
<1>. QED
  BY <1>4, <1>8, <1>12, <1>13, <1>15 DEF h

LEMMA CircleRules == Spec => [](area = "circle" => CircleRuled)
<1>0. CircleInv => n \in Nat \ {0} /\ k \in Nat \ {0}
  BY PracticeAssumption DEF PracticeAssumption, CircleInv
<1>1. CircleSizes \subseteq Nat \ {0} /\ CircleCounts \subseteq Nat \ {0}
  BY PracticeAssumption DEF PracticeAssumption
<1>2. Init => (area = "circle" => CircleRuled)
  <2>. SUFFICES ASSUME FreeCircle!Init PROVE CircleRuled
    BY Zenon DEF Init
  <2>1. n \in Nat \ {0} /\ k \in Nat \ {0} /\ alive = FreeCircle!Circle(n) /\ nextUp = 0
    BY <1>1 DEF FreeCircle!Init, FreeCircle!Nobody
  <2>2. RoundsOf(n, k)[n] = FirstRound(n)
    BY <2>1, SimulateIs DEF Rounds
  <2>3. Len(alive) = n /\ n \in 1..n /\ alive[1] = 1
    BY <2>1 DEF FreeCircle!Circle
  <2>4. FreeCircle!displayNextUp = 1
    BY <2>1 DEF FreeCircle!displayNextUp, FreeCircle!Nobody
  <2>5. alive = RoundsOf(n, k)[n].people /\ RoundsOf(n, k)[n].idx + 1 = 1
    BY <2>1, <2>2 DEF FirstRound
  <2>. QED
    BY <2>3, <2>4, <2>5 DEF CircleRuled
<1>3. /\ area = "circle" => CircleInv
      /\ area = "circle" => CircleRuled
      /\ [Next]_vars
      => (area = "circle" => CircleRuled)'
  <2>. SUFFICES ASSUME area = "circle" => CircleInv, area = "circle" => CircleRuled, [Next]_vars,
                       area' = "circle"
                PROVE  CircleRuled'
    OBVIOUS
  <2>1. CircleInv /\ CircleRuled /\ [FreeCircle!Next]_(FreeCircle!vars)
    BY Zenon DEF Next, vars, InCoins, InCircle, InCards, InPancakes, InTurn, InBoxes, InForest,
       InStars, InPlan, InWords, InEngine, circleV, shared, FreeCircle!vars, FreeCircle!state
  <2>2. n \in Nat \ {0} /\ k \in Nat \ {0}
    BY <1>0, <2>1
  <2>3. ASSUME NEW person \in 1..n, FreeCircle!handleRemove(person) PROVE CircleRuled'
    BY <2>1, <2>2, <2>3, RuleRemoves
  <2>4. CASE UNCHANGED <<n, k, alive, nextUp, byTheRule>>
    BY <2>1, <2>4 DEF CircleRuled, FreeCircle!displayNextUp
  <2>5. CASE FreeCircle!handleStepCount
    BY <2>4, <2>5, Zenon DEF FreeCircle!handleStepCount, FreeCircle!state
  <2>6. CASE FreeCircle!handleReset
    <3>1. n' \in Nat \ {0} /\ k' \in Nat \ {0} /\ nextUp' \in {0, 1} /\ alive' = FreeCircle!Circle(n')
      BY <2>2, <2>6 DEF FreeCircle!handleReset, FreeCircle!Fresh
    <3>. QED
      BY <3>1, FreshRound
  <2>7. CASE FreeCircle!handleNewProblem
    <3>1. n' \in Nat \ {0} /\ k' \in Nat \ {0} /\ nextUp' \in {0, 1} /\ alive' = FreeCircle!Circle(n')
      BY <1>1, <2>7 DEF FreeCircle!handleNewProblem, FreeCircle!Fresh, FreeCircle!Nobody
    <3>. QED
      BY <3>1, FreshRound
  <2>8. CASE UNCHANGED FreeCircle!vars
    BY <2>4, <2>8, Zenon DEF FreeCircle!vars, FreeCircle!state
  <2>. QED
    BY <2>1, <2>3, <2>5, <2>6, <2>7, <2>8 DEF FreeCircle!Next
<1>. QED
  BY <1>2, <1>3, CircleHolds, PTL DEF Spec

LEMMA CircleIsRight ==
  ASSUME PracticeAssumption, CircleInv, CircleRuled
  PROVE  FreeCircle!RuleGivesAnswer
<1>1. n \in Nat \ {0} /\ k \in Nat \ {0}
  BY DEF PracticeAssumption, CircleInv
<1>2. FreeCircle!correctAnswer = FreeCircle!Survivor
  BY <1>1, AnswerIsSurvivor
<1>3. FreeCircle!correctAnswer = RoundsOf(n, k)[1].people[1]
  BY <1>1, SimulateIs DEF FreeCircle!correctAnswer
<1>4. byTheRule /\ Len(alive) = 1 => alive[1] = FreeCircle!correctAnswer
  BY <1>3 DEF CircleRuled
<1>. QED
  BY <1>2, <1>4 DEF FreeCircle!RuleGivesAnswer
-----------------------------------------------------------------------------
(* Cards.                                                                   *)

CardsInv ==
  /\ FreeCards!TypeOK /\ FreeCards!VerdictOfThisGame

LEMMA CardCount == \A S : FreeCards!Cardinality(S) = Cardinality(S)
  BY DEF FreeCards!Cardinality, Cardinality

\* How many of S are below x.
Rank(S, x) == FreeCards!Cardinality({y \in S : y < x})

LEMMA RankGrows ==
  ASSUME NEW S \in SUBSET Nat, IsFiniteSet(S), NEW x \in S
  PROVE  /\ Rank(S, x) \in Nat /\ Rank(S, x) < Cardinality(S)
         /\ \A y \in S : x < y => Rank(S, x) < Rank(S, y)
<1> DEFINE B(z) == {y \in S : y < z}
<1>1. \A z : IsFiniteSet(B(z)) /\ Cardinality(B(z)) \in Nat
  BY FS_Subset, FS_CardinalityType
<1>2. IsFiniteSet(B(x) \cup {x}) /\ Cardinality(B(x) \cup {x}) = Cardinality(B(x)) + 1
  <2>1. x \notin B(x)
    OBVIOUS
  <2>2. IsFiniteSet(B(x))
    BY <1>1
  <2>. HIDE DEF B
  <2>. QED
    BY <2>1, <2>2, FS_AddElement
<1>3. Cardinality(B(x) \cup {x}) <= Cardinality(S)
  BY FS_Subset
<1>4. ASSUME NEW y \in S, x < y
      PROVE  Cardinality(B(x)) < Cardinality(B(y))
  <2>1. B(x) \cup {x} \subseteq B(y)
    <3>1. ASSUME NEW z \in B(x) PROVE z \in B(y)
      BY <1>4
    <3>. QED
      BY <1>4, <3>1
  <2>2. Cardinality(B(x) \cup {x}) <= Cardinality(B(y))
    BY <1>1, <2>1, FS_Subset
  <2>3. Cardinality(B(x)) \in Nat /\ Cardinality(B(y)) \in Nat
    BY <1>1
  <2>. QED
    BY <1>2, <2>2, <2>3
<1>5. Cardinality(S) \in Nat /\ Cardinality(B(x)) \in Nat
  BY <1>1, FS_CardinalityType
<1>6. Cardinality(B(x)) < Cardinality(S)
  BY <1>2, <1>3, <1>5
<1>. QED
  BY <1>4, <1>5, <1>6, CardCount DEF Rank

\* Every position has the card of its rank.
LEMMA RankReached ==
  ASSUME NEW S \in SUBSET Nat, IsFiniteSet(S), NEW i \in 1..Cardinality(S)
  PROVE  \E x \in S : Rank(S, x) = i - 1
<1> DEFINE m == Cardinality(S)
           T == 0..m - 1
           f == [x \in S |-> Rank(S, x)]
<1>1. m \in Nat /\ i \in 1..m
  BY FS_CardinalityType
<1> HIDE DEF m
<1>2. IsFiniteSet(T) /\ Cardinality(T) = m
  <2>1. /\ IsFiniteSet(T)
        /\ Cardinality(T) = IF 0 > m - 1 THEN 0 ELSE m - 1 - 0 + 1
    <3>1. 0 \in Int /\ m - 1 \in Int
      BY <1>1
    <3>. QED
      BY <3>1, FS_Interval, Zenon
  <2>. QED
    BY <1>1, <2>1
<1>3. f \in [S -> T]
  <2>1. \A x \in S : Rank(S, x) \in Nat /\ Rank(S, x) < m
    BY RankGrows DEF m
  <2>. QED
    BY <1>1, <2>1
<1>4. \A x, y \in S : f[x] = f[y] => x = y
  <2>1. ASSUME NEW x \in S, NEW y \in S, f[x] = f[y] PROVE x = y
    <3>1. /\ Rank(S, x) \in Nat /\ Rank(S, y) \in Nat /\ Rank(S, x) = Rank(S, y)
          /\ x < y => Rank(S, x) < Rank(S, y)
          /\ y < x => Rank(S, y) < Rank(S, x)
      BY <2>1, RankGrows
    <3>. QED
      BY <3>1
  <2>. QED
    BY <2>1
<1> HIDE DEF f, T
<1>5. f \in Injection(S, T)
  BY <1>3, <1>4, Fun_IsInj
<1>6. f \in Surjection(S, T)
  BY <1>2, <1>5, FS_Injection DEF m
<1>7. i - 1 \in T
  BY <1>1 DEF T
<1>8. PICK x \in S : f[x] = i - 1
  BY <1>6, <1>7, Fun_SurjectionProperties
<1>. QED
  BY <1>8 DEF f

\* The cards lie in ascending order.
LEMMA CardsAscend ==
  ASSUME PracticeAssumption, NEW a \in FreeCards!Arrays
  PROVE  /\ a \in Seq(Nat) /\ DOMAIN a = 1..Len(a) /\ Len(a) \in Nat
         /\ \A i, j \in 1..Len(a) : i < j => a[i] < a[j]
<1>1. PICK S : S \in SUBSET CardPool /\ a = FreeCards!ArrayOf(S)
  BY Zenon DEF FreeCards!Arrays
<1>2. S \in SUBSET Nat /\ IsFiniteSet(S) /\ Cardinality(S) \in Nat
  BY <1>1, FS_Subset, FS_CardinalityType DEF PracticeAssumption
<1> DEFINE m == Cardinality(S)
           c(i) == CHOOSE x \in S : Rank(S, x) = i - 1
<1>3. a = [i \in 1..m |-> c(i)]
  <2>1. a = [i \in 1..FreeCards!Cardinality(S) |-> CHOOSE x \in S : Rank(S, x) = i - 1]
    BY <1>1, Zenon DEF FreeCards!ArrayOf, Rank
  <2>. QED
    BY <2>1, CardCount
<1>4. \A i \in 1..m : c(i) \in S /\ Rank(S, c(i)) = i - 1
  BY <1>2, RankReached
<1> HIDE DEF c
<1>5. a \in [1..m -> Nat]
  BY <1>2, <1>3, <1>4
<1>6. a \in Seq(Nat) /\ Len(a) = m /\ DOMAIN a = 1..m
  BY <1>2, <1>5
<1>7. ASSUME NEW i \in 1..m, NEW j \in 1..m, i < j
      PROVE  a[i] < a[j]
  <2>1. /\ a[i] \in S /\ a[j] \in S /\ Rank(S, a[i]) = i - 1 /\ Rank(S, a[j]) = j - 1
    BY <1>3, <1>4
  <2>2. a[j] < a[i] => Rank(S, a[j]) < Rank(S, a[i])
    BY <1>2, <2>1, RankGrows
  <2>3. i \in Int /\ j \in Int
    BY <1>2
  <2>4. a[i] \in Nat /\ a[j] \in Nat /\ a[i] # a[j]
    <3>1. i - 1 # j - 1
      BY <1>7, <2>3
    <3>2. a[i] # a[j]
      BY <2>1, <3>1, Zenon
    <3>. QED
      BY <1>2, <2>1, <3>2
  <2>. QED
    BY <1>7, <2>1, <2>2, <2>3, <2>4
<1>. QED
  BY <1>2, <1>6, <1>7

LEMMA CardsHold == Spec => [](area = "cards" => CardsInv)
<1>1. Init => (area = "cards" => CardsInv)
  BY DEF Init, FreeCards!Init, CardsInv, FreeCards!TypeOK, FreeCards!VerdictOfThisGame
<1>2. (area = "cards" => CardsInv) /\ [Next]_vars => (area = "cards" => CardsInv)'
  <2>. SUFFICES ASSUME area = "cards" => CardsInv, [Next]_vars, area' = "cards"
                PROVE  CardsInv'
    OBVIOUS
  <2>1. CardsInv /\ [FreeCards!Next]_(FreeCards!vars)
    BY Zenon DEF Next, vars, InCoins, InCircle, InCards, InPancakes, InTurn, InBoxes, InForest,
       InStars, InPlan, InWords, InEngine, cardsV, shared, FreeCards!vars, FreeCards!input,
       FreeCards!page
  <2>2. ASSUME NEW p \in 1..FreeCards!n, FreeCards!handleFlip(p)
        PROVE  CardsInv'
    BY <2>1, <2>2 DEF CardsInv, FreeCards!handleFlip, FreeCards!input, FreeCards!page,
       FreeCards!TypeOK, FreeCards!VerdictOfThisGame, FreeCards!correctAnswer, FreeCards!n
  <2>3. ASSUME NEW p \in 0..FreeCards!n, FreeCards!handleCheckAnswer(p)
        PROVE  CardsInv'
    <3>1. p \in Nat
      OBVIOUS
    <3>2. FreeCards!correctAnswer \in Nat
      <4>1. (\E i \in 1..Len(array) : array[i] = target) =>
              (CHOOSE i \in 1..Len(array) : array[i] = target) \in 1..Len(array)
        OBVIOUS
      <4>2. FreeCards!correctAnswer =
              IF \E i \in 1..Len(array) : array[i] = target
              THEN CHOOSE i \in 1..Len(array) : array[i] = target ELSE 0
        BY Zenon DEF FreeCards!correctAnswer, FreeCards!AnswerIn
      <4>. QED
        BY <4>1, <4>2
    <3>3. [pos |-> p, answer |-> FreeCards!correctAnswer] # None
      BY <3>1, <3>2, PracticeAssumption DEF PracticeAssumption
    <3>4. /\ feedback' = [pos |-> p, answer |-> FreeCards!correctAnswer] /\ showAllCards' = TRUE
          /\ UNCHANGED <<array, target, revealed>>
      BY <2>3 DEF FreeCards!handleCheckAnswer, FreeCards!input
    <3>5. FreeCards!correctAnswer' = FreeCards!correctAnswer
      BY <3>4, Zenon DEF FreeCards!correctAnswer
    <3>. QED
      BY <2>1, <3>3, <3>4, <3>5 DEF CardsInv, FreeCards!TypeOK, FreeCards!VerdictOfThisGame, FreeCards!n
  <2>4. CASE FreeCards!toggleCards
    BY <2>1, <2>4 DEF CardsInv, FreeCards!toggleCards, FreeCards!input, FreeCards!TypeOK,
       FreeCards!VerdictOfThisGame, FreeCards!correctAnswer, FreeCards!n
  <2>5. CASE FreeCards!handleReset
    BY <2>1, <2>5 DEF CardsInv, FreeCards!handleReset, FreeCards!Cleared, FreeCards!input,
       FreeCards!TypeOK, FreeCards!VerdictOfThisGame, FreeCards!n
  <2>6. CASE FreeCards!handleNewProblem
    BY <2>1, <2>6 DEF CardsInv, FreeCards!handleNewProblem, FreeCards!Cleared,
       FreeCards!TypeOK, FreeCards!VerdictOfThisGame, FreeCards!n
  <2>7. CASE UNCHANGED FreeCards!vars
    BY <2>1, <2>7 DEF CardsInv, FreeCards!vars, FreeCards!input, FreeCards!page,
       FreeCards!TypeOK, FreeCards!VerdictOfThisGame, FreeCards!correctAnswer, FreeCards!n
  <2>. QED
    BY <2>1, <2>2, <2>3, <2>4, <2>5, <2>6, <2>7 DEF FreeCards!Next
<1>. QED
  BY <1>1, <1>2, PTL DEF Spec

\* What was turned over leaves the answer: the cards ascend.
LEMMA CardStaysPossible ==
  ASSUME PracticeAssumption, CardsInv
  PROVE  FreeCards!AnswerIsLeft
<1>1. /\ array \in FreeCards!Arrays /\ revealed \subseteq 1..Len(array)
  BY DEF CardsInv, FreeCards!TypeOK, FreeCards!n
<1>2. /\ array \in Seq(Nat) /\ DOMAIN array = 1..Len(array) /\ Len(array) \in Nat
      /\ \A i, j \in 1..Len(array) : i < j => array[i] < array[j]
  BY <1>1, CardsAscend
<1>3. FreeCards!correctAnswer =
        IF \E i \in 1..Len(array) : array[i] = target
        THEN CHOOSE i \in 1..Len(array) : array[i] = target ELSE 0
  BY Zenon DEF FreeCards!correctAnswer, FreeCards!AnswerIn
<1>4. CASE \E i \in 1..Len(array) : array[i] = target
  <2>1. PICK p \in 1..Len(array) : p = FreeCards!correctAnswer /\ array[p] = target
    BY <1>3, <1>4, Zenon
  <2>2. \A q \in revealed : /\ q < p => array[q] < target
                            /\ q > p => array[q] > target
                            /\ q = p => array[q] = target
    <3>1. ASSUME NEW q \in revealed, q > p PROVE array[q] > target
      <4>1. p < q /\ q \in 1..Len(array) /\ array[q] \in Nat /\ target \in Nat
        BY <1>1, <1>2, <2>1, <3>1, ElementOfSeq
      <4>2. target < array[q]
        BY <1>2, <2>1, <4>1
      <4>. QED
        BY <4>1, <4>2
    <3>. QED
      BY <1>1, <1>2, <2>1, <3>1
  <2>. QED
    BY <2>1, <2>2 DEF FreeCards!AnswerIsLeft, FreeCards!Left, FreeCards!n
<1>5. CASE ~ \E i \in 1..Len(array) : array[i] = target
  BY <1>1, <1>3, <1>5 DEF FreeCards!AnswerIsLeft, FreeCards!Seen
<1>. QED
  BY <1>4, <1>5

-----------------------------------------------------------------------------
(* Pancakes.                                                                *)

Stacks(size) == {s \in [1..size -> 1..size] : \A i, j \in 1..size : s[i] = s[j] => i = j}
\* The stacks that the flips make of the first one.
MakesPiles(f, s, flips) ==
  /\ DOMAIN f = 0..Len(flips) /\ f[0] = s
  /\ \A i \in 1..Len(flips) : f[i] = FreePancakes!Turned(f[i - 1], flips[i])
PancakesInv ==
  /\ n \in StackSizes /\ stack \in Stacks(n) /\ initialStack \in FreePancakes!Shuffles(n)
  /\ history \in Seq(1..n)
  /\ \E f : MakesPiles(f, initialStack, history) /\ f[Len(history)] = stack

LEMMA ShufflesAreStacks ==
  ASSUME NEW size \in Nat
  PROVE  /\ FreePancakes!Shuffles(size) \subseteq Stacks(size)
         /\ \A s \in Stacks(size) : s \in FreePancakes!Shuffles(size) \cup {[i \in 1..size |-> i]}
<1>1. ASSUME NEW s \in FreePancakes!Shuffles(size) PROVE s \in Stacks(size)
  BY Zenon DEF FreePancakes!Shuffles, Stacks
<1>2. ASSUME NEW s \in Stacks(size)
      PROVE  s \in FreePancakes!Shuffles(size) \cup {[i \in 1..size |-> i]}
  <2>1. s \in [1..size -> 1..size] /\ DOMAIN s = 1..size /\ Len(s) = size
    BY DEF Stacks
  <2>2. \A i, j \in 1..size : s[i] = s[j] => i = j
    BY <2>1, Zenon DEF Stacks
  <2>3. CASE FreePancakes!Sorted(s)
    <3>1. \A i \in 1..size : s[i] = i
      BY <2>1, <2>3, Zenon DEF FreePancakes!Sorted
    <3>2. s = [i \in 1..size |-> i]
      BY <2>1, <3>1
    <3>. QED
      BY <3>2
  <2>4. CASE ~ FreePancakes!Sorted(s)
    BY <2>1, <2>2, <2>4, Zenon DEF FreePancakes!Shuffles
  <2>. QED
    BY <2>3, <2>4
<1>. QED
  BY <1>1, <1>2

\* A flip gives a stack of the same pancakes.
LEMMA FlipMakesStack ==
  ASSUME NEW size \in Nat, NEW s \in Stacks(size), NEW c \in 1..size
  PROVE  FreePancakes!Turned(s, c) \in Stacks(size)
<1> DEFINE t == FreePancakes!Turned(s, c)
           from(i) == IF i <= c THEN c + 1 - i ELSE i
<1>1. /\ s \in [1..size -> 1..size] /\ Len(s) = size
      /\ \A i, j \in 1..size : s[i] = s[j] => i = j
  BY DEF Stacks
<1>2. \A i \in 1..size : from(i) \in 1..size
  OBVIOUS
<1>3. t = [i \in 1..size |-> s[from(i)]]
  BY <1>1 DEF FreePancakes!Turned
<1> HIDE DEF t
<1>4. t \in [1..size -> 1..size]
  BY <1>1, <1>2, <1>3
<1>5. ASSUME NEW i \in 1..size, NEW j \in 1..size, t[i] = t[j]
      PROVE  i = j
  <2>1. from(i) = from(j)
    BY <1>1, <1>2, <1>3, <1>5
  <2>. QED
    BY <2>1
<1>. QED
  BY <1>4, <1>5 DEF Stacks, t

\* The stacks are determined by the flips.
LEMMA PilesAreOne ==
  ASSUME NEW flips \in Seq(Nat), NEW s, NEW f, NEW g,
         MakesPiles(f, s, flips), MakesPiles(g, s, flips)
  PROVE  \A i \in 0..Len(flips) : f[i] = g[i]
<1> DEFINE S == {i \in Nat : f[i] = g[i]}
           m == Len(flips)
<1>1. m \in Nat
  BY LenProperties
<1>2. 0 \in S
  BY DEF MakesPiles
<1>3. ASSUME NEW i \in 0..m, i \in S, i < m PROVE i + 1 \in S
  <2>1. i + 1 \in 1..m /\ (i + 1) - 1 = i
    BY <1>1, <1>3
  <2>. QED
    BY <1>3, <2>1 DEF MakesPiles
<1> HIDE DEF S
<1>4. \A i \in 0..m : i \in S
  BY <1>1, <1>2, <1>3, InductTo
<1>. QED
  BY <1>4 DEF S

\* One flip more.
LEMMA PilesAppend ==
  ASSUME NEW S, NEW flips \in Seq(S), NEW c \in S, NEW s, NEW f, MakesPiles(f, s, flips)
  PROVE  \E g : MakesPiles(g, s, Append(flips, c))
                /\ g[Len(Append(flips, c))] = FreePancakes!Turned(f[Len(flips)], c)
<1> DEFINE m == Len(flips)
           h == Append(flips, c)
           g == [i \in 0..m + 1 |-> IF i = m + 1 THEN FreePancakes!Turned(f[m], c) ELSE f[i]]
<1>1. /\ m \in Nat /\ Len(h) = m + 1 /\ h[m + 1] = c
      /\ \A i \in 1..m : h[i] = flips[i]
  BY LenProperties, AppendProperties
<1> HIDE DEF m, h
<1>2. DOMAIN g = 0..m + 1 /\ g[0] = s
  BY <1>1 DEF MakesPiles
<1>3. ASSUME NEW i \in 1..m + 1 PROVE g[i] = FreePancakes!Turned(g[i - 1], h[i])
  <2>1. CASE i = m + 1
    <3>1. g[i] = FreePancakes!Turned(f[m], c) /\ i - 1 = m /\ g[m] = f[m]
      BY <1>1, <2>1
    <3>. QED
      BY <1>1, <2>1, <3>1
  <2>2. CASE i # m + 1
    <3>1. i \in 1..m /\ g[i] = f[i] /\ g[i - 1] = f[i - 1]
      BY <1>1, <2>2
    <3>. QED
      BY <1>1, <3>1 DEF MakesPiles, m
  <2>. QED
    BY <2>1, <2>2
<1>4. g[m + 1] = FreePancakes!Turned(f[m], c)
  BY <1>1
<1> HIDE DEF g
<1>5. MakesPiles(g, s, h)
  BY <1>1, <1>2, <1>3 DEF MakesPiles
<1>. QED
  BY <1>1, <1>4, <1>5 DEF h, m

LEMMA FirstPile ==
  ASSUME NEW s
  PROVE  \E f : MakesPiles(f, s, <<>>) /\ f[Len(<<>>)] = s
<1> DEFINE f == [i \in 0..0 |-> s]
<1>1. f[0] = s /\ DOMAIN f = 0..0 /\ Len(<<>>) = 0 /\ 1..0 = {}
  OBVIOUS
<1> HIDE DEF f
<1>2. MakesPiles(f, s, <<>>)
  BY <1>1 DEF MakesPiles
<1>. QED
  BY <1>1, <1>2

LEMMA PancakesHold == Spec => [](area = "pancakes" => PancakesInv)
<1>0. \A size \in StackSizes : size \in Nat
  BY PracticeAssumption DEF PracticeAssumption
<1>1. Init => (area = "pancakes" => PancakesInv)
  <2>. SUFFICES ASSUME FreePancakes!Init PROVE PancakesInv
    BY Zenon DEF Init
  <2>1. /\ n \in StackSizes /\ stack \in FreePancakes!Shuffles(n) /\ initialStack = stack
        /\ history = <<>>
    BY DEF FreePancakes!Init
  <2>. QED
    BY <1>0, <2>1, ShufflesAreStacks, FirstPile DEF PancakesInv
<1>2. (area = "pancakes" => PancakesInv) /\ [Next]_vars => (area = "pancakes" => PancakesInv)'
  <2>. SUFFICES ASSUME area = "pancakes" => PancakesInv, [Next]_vars, area' = "pancakes"
                PROVE  PancakesInv'
    OBVIOUS
  <2>1. PancakesInv /\ [FreePancakes!Next]_(FreePancakes!vars)
    BY Zenon DEF Next, vars, InCoins, InCircle, InCards, InPancakes, InTurn, InBoxes, InForest,
       InStars, InPlan, InWords, InEngine, pancakesV, shared, FreePancakes!vars
  <2>2. ASSUME NEW c \in 1..n, FreePancakes!handleFlip(c)
        PROVE  PancakesInv'
    <3>1. /\ stack' = FreePancakes!Turned(stack, c) /\ history' = Append(history, c)
          /\ n' = n /\ initialStack' = initialStack
      BY <2>2 DEF FreePancakes!handleFlip
    <3>2. stack' \in Stacks(n)
      BY <1>0, <2>1, <3>1, FlipMakesStack DEF PancakesInv
    <3>3. PICK f : MakesPiles(f, initialStack, history) /\ f[Len(history)] = stack
      BY <2>1 DEF PancakesInv
    <3>4. history \in Seq(1..n)
      BY <2>1 DEF PancakesInv
    <3>5. \E g : MakesPiles(g, initialStack, history') /\ g[Len(history')] = stack'
      <4>1. PICK g : /\ MakesPiles(g, initialStack, Append(history, c))
                     /\ g[Len(Append(history, c))] = FreePancakes!Turned(f[Len(history)], c)
        <5>. DEFINE S == 1..n
        <5>1. history \in Seq(S) /\ c \in S
          BY <3>4
        <5>. HIDE DEF S
        <5>. QED
          BY <3>3, <5>1, PilesAppend, Zenon
      <4>. QED
        BY <3>1, <3>3, <4>1
    <3>6. history' \in Seq(1..n)
      BY <3>1, <3>4
    <3>. QED
      BY <2>1, <3>1, <3>2, <3>5, <3>6 DEF PancakesInv
  <2>3. CASE FreePancakes!handleReset
    <3>1. stack' = initialStack /\ history' = <<>> /\ n' = n /\ initialStack' = initialStack
      BY <2>3 DEF FreePancakes!handleReset, FreePancakes!Restarted
    <3>2. n \in StackSizes /\ initialStack \in FreePancakes!Shuffles(n)
      BY <2>1 DEF PancakesInv
    <3>. QED
      BY <1>0, <3>1, <3>2, ShufflesAreStacks, FirstPile DEF PancakesInv
  <2>4. CASE FreePancakes!handleNewProblem
    <3>1. /\ n' \in StackSizes /\ stack' \in FreePancakes!Shuffles(n')
          /\ initialStack' = stack' /\ history' = <<>>
      BY <2>4 DEF FreePancakes!handleNewProblem
    <3>. QED
      BY <1>0, <3>1, ShufflesAreStacks, FirstPile DEF PancakesInv
  <2>5. CASE UNCHANGED FreePancakes!vars
    BY <2>1, <2>5 DEF PancakesInv, FreePancakes!vars
  <2>. QED
    BY <2>1, <2>2, <2>3, <2>4, <2>5 DEF FreePancakes!Next
<1>. QED
  BY <1>1, <1>2, PTL DEF Spec

LEMMA FlipsExplain ==
  ASSUME PracticeAssumption, PancakesInv
  PROVE  FreePancakes!TypeOK /\ FreePancakes!HistoryExplains
<1>1. n \in StackSizes /\ n \in Nat /\ stack \in Stacks(n) /\ initialStack \in FreePancakes!Shuffles(n)
  BY DEF PancakesInv, PracticeAssumption
<1>2. FreePancakes!TypeOK
  BY <1>1, ShufflesAreStacks DEF FreePancakes!TypeOK
<1> DEFINE Is(p) == p = [i \in 0..Len(history) |->
                           IF i = 0 THEN initialStack
                           ELSE FreePancakes!Turned(p[i - 1], history[i])]
           pile == CHOOSE p : Is(p)
<1>3. history \in Seq(Nat) /\ Len(history) \in Nat
  BY <1>1 DEF PancakesInv
<1>4. PICK f : MakesPiles(f, initialStack, history) /\ f[Len(history)] = stack
  BY DEF PancakesInv
<1> DEFINE g == [i \in 0..Len(history) |-> f[i]]
<1>5. MakesPiles(g, initialStack, history) /\ g[Len(history)] = stack
  BY <1>3, <1>4 DEF MakesPiles
<1>0. g = [i \in 0..Len(history) |-> g[i]]
  OBVIOUS
<1> HIDE DEF g
<1>6. \A i \in 0..Len(history) : g[i] = IF i = 0 THEN initialStack
                                        ELSE FreePancakes!Turned(g[i - 1], history[i])
  BY <1>3, <1>5 DEF MakesPiles
<1>7. Is(g)
  BY <1>0, <1>6
<1>8. Is(pile)
  BY <1>7, Zenon
<1> HIDE DEF pile
<1>9. MakesPiles(pile, initialStack, history)
  <2>1. /\ DOMAIN pile = 0..Len(history)
        /\ \A i \in 0..Len(history) :
             pile[i] = IF i = 0 THEN initialStack
                       ELSE FreePancakes!Turned(pile[i - 1], history[i])
    BY <1>8, Zenon
  <2>2. 0 \in 0..Len(history) /\ \A i \in 1..Len(history) : i \in 0..Len(history) /\ i # 0
    BY <1>3
  <2>. QED
    BY <2>1, <2>2, Zenon DEF MakesPiles
<1>10. pile[Len(history)] = stack
  BY <1>3, <1>4, <1>9, PilesAreOne
<1>11. FreePancakes!HistoryExplains
  BY <1>10, Zenon DEF FreePancakes!HistoryExplains, pile
<1>. QED
  BY <1>2, <1>11

-----------------------------------------------------------------------------
(* Turn.                                                                    *)

LEMMA TurnCount == \A S : FreeTurn!Cardinality(S) = Cardinality(S)
  BY DEF FreeTurn!Cardinality, Cardinality

\* What holds as long as each action is the rule's: the cards right of the
\* marker showed their faces and were turned down, those left of it lie as before.
ByRule ==
  ruled =>
    /\ \A i \in index + 1..TurnCards : initial[i] = TRUE /\ cards[i] = FALSE
    /\ \A i \in 1..index - 1 : cards[i] = initial[i]
    /\ index # 0 /\ checked = None => cards[index] = initial[index]
    /\ index # 0 /\ checked # None => checked = initial[index]
    /\ finished /\ index # 0 => initial[index] = FALSE /\ cards[index] = TRUE
TurnInv ==
  /\ FreeTurn!TypeOK /\ FreeTurn!LogExplains /\ ruled \in BOOLEAN
  /\ log \in Seq([action : {"check", "flip", "left", "finish"}, at : 0..TurnCards])
  /\ ByRule

\* One action more is one turning more, if it turns the card.
LEMMA TurnedMore ==
  ASSUME NEW S, NEW l \in Seq(S), NEW h \in S, NEW i
  PROVE  LET c == FreeTurn!Turned(l, i)
         IN  /\ c \in Nat
             /\ FreeTurn!Turned(Append(l, h), i) =
                  IF h.action = "flip" /\ h.at = i THEN c + 1 ELSE c
<1> DEFINE m == Len(l)
           Is(g) == g.action = "flip" /\ g.at = i
           A == {j \in 1..m : Is(l[j])}
           l2 == Append(l, h)
           B == {j \in 1..Len(l2) : Is(l2[j])}
<1>1. /\ m \in Nat /\ Len(l2) = m + 1 /\ l2[m + 1] = h
      /\ \A j \in 1..m : l2[j] = l[j]
  BY LenProperties, AppendProperties
<1>2. FreeTurn!Turned(l, i) = Cardinality(A) /\ FreeTurn!Turned(l2, i) = Cardinality(B)
  BY TurnCount DEF FreeTurn!Turned
<1> HIDE DEF m, l2, Is
<1>3. B = IF Is(h) THEN A \cup {m + 1} ELSE A
  <2>1. \A j : j \in B <=> j \in A \/ (j = m + 1 /\ Is(h))
    BY <1>1
  <2>. QED
    BY <2>1
<1>4. m + 1 \notin A
  BY <1>1
<1>5. IsFiniteSet(A)
  <2>1. IsFiniteSet(1..m)
    BY <1>1, FS_Interval
  <2>. QED
    BY <2>1, FS_Subset
<1> HIDE DEF A, B
<1>6. Cardinality(A) \in Nat /\ Cardinality(A \cup {m + 1}) = Cardinality(A) + 1
  BY <1>4, <1>5, FS_CardinalityType, FS_AddElement
<1>. QED
  BY <1>2, <1>3, <1>6 DEF Is, l2

LEMMA DealtHolds ==
  ASSUME PracticeAssumption, NEW c \in [1..TurnCards -> BOOLEAN],
         initial' = c, cards' = c, index' = TurnCards, checked' = None, finished' = FALSE,
         log' = <<>>, ruled' = TRUE
  PROVE  TurnInv'
<1>1. TurnCards \in Nat
  BY DEF PracticeAssumption
<1>2. FreeTurn!TypeOK'
  <2>1. checked' \in BOOLEAN \cup {None}
    BY Zenon
  <2>2. index' \in 0..TurnCards
    BY <1>1
  <2>. QED
    BY <2>1, <2>2, Zenon DEF FreeTurn!TypeOK, FreeTurn!Layouts
<1>3. FreeTurn!LogExplains'
  <2>1. \A i : FreeTurn!Turned(<<>>, i) = 0
    BY TurnCount, FS_EmptySet DEF FreeTurn!Turned
  <2>2. 0 % 2 # 1
    OBVIOUS
  <2>. QED
    BY <2>1, <2>2 DEF FreeTurn!LogExplains
<1>4. ByRule'
  BY <1>1 DEF ByRule
<1>. QED
  BY <1>2, <1>3, <1>4 DEF TurnInv

\* Each action keeps what is shown explained by what is recorded.
LEMMA ActionExplains ==
  ASSUME PracticeAssumption, TurnInv, NEW a \in {"check", "flip", "left", "finish"}, FreeTurn!act(a)
  PROVE  /\ FreeTurn!TypeOK' /\ FreeTurn!LogExplains'
         /\ log' \in Seq([action : {"check", "flip", "left", "finish"}, at : 0..TurnCards])
<1> DEFINE S == [action : {"check", "flip", "left", "finish"}, at : 0..TurnCards]
           h == [action |-> a, at |-> index]
<1>1. /\ TurnCards \in Nat /\ index \in 0..TurnCards
      /\ initial \in [1..TurnCards -> BOOLEAN] /\ cards \in [1..TurnCards -> BOOLEAN]
      /\ checked \in BOOLEAN \cup {None} /\ finished \in BOOLEAN
      /\ checked # None => \E i \in 1..Len(log) : log[i] = [action |-> "check", at |-> index]
  BY DEF PracticeAssumption, TurnInv, FreeTurn!TypeOK, FreeTurn!Layouts
<1>2. /\ ~ finished /\ (index = 0 => a = "finish") /\ log' = Append(log, h)
      /\ initial' = initial
  BY DEF FreeTurn!act
<1>3. h \in S /\ h.action = a /\ h.at = index /\ log \in Seq(S)
  BY <1>1 DEF TurnInv
<1> HIDE DEF S, h
<1>4. /\ log' \in Seq(S) /\ Len(log') = Len(log) + 1 /\ Len(log) \in Nat
      /\ \A i \in 1..Len(log) : log'[i] = log[i]
      /\ log'[Len(log) + 1] = h
  BY <1>2, <1>3, LenProperties, AppendProperties
<1>5. \A i : /\ FreeTurn!Turned(log, i) \in Nat
             /\ FreeTurn!Turned(log', i) =
                  IF a = "flip" /\ index = i THEN FreeTurn!Turned(log, i) + 1
                  ELSE FreeTurn!Turned(log, i)
  BY <1>2, <1>3, TurnedMore
<1>6. \A i \in 1..TurnCards : cards[i] = (initial[i] # (FreeTurn!Turned(log, i) % 2 = 1))
  BY DEF TurnInv, FreeTurn!LogExplains
<1>7. \A i \in 1..Len(log) : log[i] = [action |-> "check", at |-> index]
        => i \in 1..Len(log') /\ log'[i] = [action |-> "check", at |-> index]
  BY <1>4
<1>0. ASSUME a # "flip", cards' = cards PROVE FreeTurn!LogExplains'
  <2>1. \A i : FreeTurn!Turned(log', i) = FreeTurn!Turned(log, i)
    BY <1>0, <1>5, Zenon
  <2>2. \A i \in 1..TurnCards : cards'[i] = (initial'[i] # (FreeTurn!Turned(log', i) % 2 = 1))
    <3>1. ASSUME NEW i \in 1..TurnCards
          PROVE  cards'[i] = (initial'[i] # (FreeTurn!Turned(log', i) % 2 = 1))
      <4>1. /\ initial'[i] = initial[i] /\ cards'[i] = cards[i]
            /\ FreeTurn!Turned(log', i) = FreeTurn!Turned(log, i)
        BY <1>0, <1>2, <2>1, Zenon
      <4>. QED
        BY <1>6, <4>1, Zenon
    <3>. QED
      BY <3>1, Zenon
  <2>. QED
    BY <2>2, Zenon DEF FreeTurn!LogExplains
<1>8. CASE a = "check" /\ FreeTurn!check
  <2>1. checked' = cards[index] /\ cards' = cards /\ index' = index /\ finished' = finished
    BY <1>8 DEF FreeTurn!check
  <2>2. index \in 1..TurnCards
    BY <1>1, <1>2, <1>8
  <2>3. checked' \in BOOLEAN \cup {None}
    BY <1>1, <2>1, <2>2, Zenon
  <2>4. Len(log) + 1 \in 1..Len(log') /\ log'[Len(log) + 1] = [action |-> "check", at |-> index]
    BY <1>4, <1>8 DEF h
  <2>5. FreeTurn!TypeOK'
    BY <1>1, <1>2, <2>1, <2>3, <2>4, Zenon DEF FreeTurn!TypeOK, FreeTurn!Layouts
  <2>6. a # "flip"
    BY <1>8
  <2>7. FreeTurn!LogExplains'
    BY <1>0, <2>1, <2>6, Zenon
  <2>. QED
    BY <1>4, <2>5, <2>7 DEF S
<1>9. CASE a = "flip" /\ FreeTurn!flip
  <2>1. /\ cards' = [cards EXCEPT ![index] = ~ cards[index]]
        /\ index' = index /\ checked' = checked /\ finished' = finished
    BY <1>9 DEF FreeTurn!flip
  <2>2. index \in 1..TurnCards
    BY <1>1, <1>2, <1>9
  <2>3. /\ cards' \in [1..TurnCards -> BOOLEAN]
        /\ cards'[index] = ~ cards[index]
        /\ \A i \in 1..TurnCards : i # index => cards'[i] = cards[i]
    BY <1>1, <2>1, <2>2
  <2>4. FreeTurn!TypeOK'
    BY <1>1, <1>2, <1>7, <2>1, <2>3, Zenon DEF FreeTurn!TypeOK, FreeTurn!Layouts
  <2>5. ASSUME NEW i \in 1..TurnCards
        PROVE  cards'[i] = (initial'[i] # (FreeTurn!Turned(log', i) % 2 = 1))
    <3>1. CASE i = index
      <4>1. FreeTurn!Turned(log', i) % 2 = 1 <=> ~ (FreeTurn!Turned(log, i) % 2 = 1)
        <5>1. \A c \in Nat : (c + 1) % 2 = 1 <=> ~ (c % 2 = 1)
          OBVIOUS
        <5>. QED
          BY <1>5, <1>9, <3>1, <5>1
      <4>2. initial[i] \in BOOLEAN /\ cards[i] \in BOOLEAN
        BY <1>1
      <4>. QED
        BY <1>2, <1>6, <2>3, <3>1, <4>1, <4>2
    <3>2. CASE i # index
      <4>1. /\ initial'[i] = initial[i] /\ cards'[i] = cards[i]
            /\ FreeTurn!Turned(log', i) = FreeTurn!Turned(log, i)
        BY <1>2, <1>5, <2>3, <3>2, Zenon
      <4>. QED
        BY <1>6, <4>1, Zenon
    <3>. QED
      BY <3>1, <3>2
  <2>6. FreeTurn!LogExplains'
    BY <2>5, Zenon DEF FreeTurn!LogExplains
  <2>. QED
    BY <1>4, <2>4, <2>6 DEF S
<1>10. CASE a = "left" /\ FreeTurn!left
  <2>1. cards' = cards /\ index' = index - 1 /\ checked' = None /\ finished' = finished
    BY <1>10 DEF FreeTurn!left
  <2>2. index' \in 0..TurnCards
    BY <1>1, <1>2, <1>10, <2>1
  <2>3. FreeTurn!TypeOK'
    BY <1>1, <1>2, <2>1, <2>2, Zenon DEF FreeTurn!TypeOK, FreeTurn!Layouts
  <2>4. a # "flip"
    BY <1>10
  <2>5. FreeTurn!LogExplains'
    BY <1>0, <2>1, <2>4, Zenon
  <2>. QED
    BY <1>4, <2>3, <2>5 DEF S
<1>11. CASE a = "finish" /\ FreeTurn!finish
  <2>1. cards' = cards /\ index' = index /\ checked' = checked /\ finished' = TRUE
    BY <1>11 DEF FreeTurn!finish
  <2>2. FreeTurn!TypeOK'
    BY <1>1, <1>2, <1>7, <2>1, Zenon DEF FreeTurn!TypeOK, FreeTurn!Layouts
  <2>3. a # "flip"
    BY <1>11
  <2>4. FreeTurn!LogExplains'
    BY <1>0, <2>1, <2>3, Zenon
  <2>. QED
    BY <1>4, <2>2, <2>4 DEF S
<1>. QED
  BY <1>8, <1>9, <1>10, <1>11 DEF FreeTurn!act

\* The rule keeps what it keeps.
LEMMA RuleKeeps ==
  ASSUME PracticeAssumption, TurnInv, NEW a \in {"check", "flip", "left", "finish"}, FreeTurn!act(a)
  PROVE  ByRule' /\ ruled' \in BOOLEAN
<1>1. /\ TurnCards \in Nat /\ index \in 0..TurnCards
      /\ initial \in [1..TurnCards -> BOOLEAN] /\ cards \in [1..TurnCards -> BOOLEAN]
      /\ checked \in BOOLEAN \cup {None} /\ None \notin BOOLEAN /\ ruled \in BOOLEAN
  BY DEF PracticeAssumption, TurnInv, FreeTurn!TypeOK, FreeTurn!Layouts
<1>2. /\ ~ finished /\ (index = 0 => a = "finish") /\ initial' = initial
      /\ ruled' = (ruled /\ a = FreeTurn!RuleAction)
  BY DEF FreeTurn!act
<1>3. ruled' \in BOOLEAN
  BY <1>1, <1>2, Zenon
<1>. SUFFICES ASSUME ruled' = TRUE PROVE ByRule'
  BY <1>3, Zenon DEF ByRule
<1>4. ruled /\ a = FreeTurn!RuleAction
  BY <1>2, Zenon
<1>5. /\ \A i \in index + 1..TurnCards : initial[i] = TRUE /\ cards[i] = FALSE
      /\ \A i \in 1..index - 1 : cards[i] = initial[i]
      /\ index # 0 /\ checked = None => cards[index] = initial[index]
      /\ index # 0 /\ checked # None => checked = initial[index]
  BY <1>4, Zenon DEF TurnInv, ByRule
<1>6. /\ index = 0 => a = "finish"
      /\ index # 0 /\ checked = None => a = "check"
      /\ index # 0 /\ checked # None /\ cards[index] = checked => a = "flip"
      /\ index # 0 /\ checked # None /\ cards[index] # checked /\ checked = TRUE => a = "left"
      /\ index # 0 /\ checked # None /\ cards[index] # checked /\ checked = FALSE => a = "finish"
  <2>1. CASE index = 0
    BY <1>2, <2>1
  <2>2. CASE index # 0 /\ checked = None
    BY <1>4, <2>2, Zenon DEF FreeTurn!RuleAction
  <2>3. CASE index # 0 /\ checked # None /\ cards[index] = checked
    BY <1>4, <2>3, Zenon DEF FreeTurn!RuleAction
  <2>4. CASE index # 0 /\ checked # None /\ cards[index] # checked
    <3>1. CASE checked = TRUE
      BY <1>4, <2>4, <3>1, Zenon DEF FreeTurn!RuleAction
    <3>2. CASE checked = FALSE
      BY <1>4, <2>4, <3>2, Zenon DEF FreeTurn!RuleAction
    <3>. QED
      BY <1>1, <2>4, <3>1, <3>2, Zenon
  <2>. QED
    BY <2>1, <2>2, <2>3, <2>4, Zenon
<1>7. CASE a = "check" /\ FreeTurn!check
  <2>1. checked' = cards[index] /\ cards' = cards /\ index' = index /\ finished' = finished
    BY <1>7 DEF FreeTurn!check
  <2>2. index # 0 /\ checked = None
    BY <1>2, <1>6, <1>7, <1>1
  <2>3. cards[index] = initial[index]
    BY <1>5, <2>2, Zenon
  <2>. QED
    BY <1>2, <1>5, <2>1, <2>2, <2>3, Zenon DEF ByRule
<1>8. CASE a = "flip" /\ FreeTurn!flip
  <2>1. /\ cards' = [cards EXCEPT ![index] = ~ cards[index]]
        /\ index' = index /\ checked' = checked /\ finished' = finished
    BY <1>8 DEF FreeTurn!flip
  <2>2. index # 0 /\ checked # None
    BY <1>2, <1>6, <1>8, <1>1
  <2>3. /\ \A i \in index + 1..TurnCards : cards'[i] = cards[i]
        /\ \A i \in 1..index - 1 : cards'[i] = cards[i]
    BY <1>1, <2>1
  <2>. QED
    BY <1>2, <1>5, <2>1, <2>2, <2>3, Zenon DEF ByRule
<1>9. CASE a = "left" /\ FreeTurn!left
  <2>1. cards' = cards /\ index' = index - 1 /\ checked' = None /\ finished' = finished
    BY <1>9 DEF FreeTurn!left
  <2>2. index # 0 /\ checked # None /\ cards[index] # checked /\ checked = TRUE
    BY <1>1, <1>2, <1>6, <1>9
  <2>3. index \in 1..TurnCards /\ initial[index] = TRUE
    <3>1. initial[index] = TRUE
      BY <1>5, <2>2, Zenon
    <3>. QED
      BY <1>1, <2>2, <3>1
  <2>4. cards[index] = FALSE
    BY <1>1, <2>2, <2>3
  <2>5. \A i \in (index - 1) + 1..TurnCards : initial[i] = TRUE /\ cards[i] = FALSE
    <3>1. \A i \in (index - 1) + 1..TurnCards : i = index \/ i \in index + 1..TurnCards
      BY <1>1
    <3>. QED
      BY <1>5, <2>3, <2>4, <3>1, Zenon
  <2>6. \A i \in 1..(index - 1) - 1 : cards[i] = initial[i]
    <3>1. \A i \in 1..(index - 1) - 1 : i \in 1..index - 1
      BY <1>1
    <3>. QED
      BY <1>5, <3>1, Zenon
  <2>7. index - 1 # 0 => cards[index - 1] = initial[index - 1]
    <3>1. index - 1 # 0 => index - 1 \in 1..index - 1
      BY <2>3, <1>1
    <3>. QED
      BY <1>5, <3>1, Zenon
  <2>. QED
    BY <1>2, <2>1, <2>5, <2>6, <2>7, Zenon DEF ByRule
<1>10. CASE a = "finish" /\ FreeTurn!finish
  <2>1. cards' = cards /\ index' = index /\ checked' = checked /\ finished' = TRUE
    BY <1>10 DEF FreeTurn!finish
  <2>2. index # 0 => checked # None /\ cards[index] # checked /\ checked = FALSE
    BY <1>1, <1>6, <1>10
  <2>3. index # 0 => initial[index] = FALSE
    BY <1>5, <2>2, Zenon
  <2>4. index # 0 => cards[index] = TRUE
    <3>1. index # 0 => cards[index] \in BOOLEAN
      BY <1>1
    <3>. QED
      BY <2>2, <3>1, Zenon
  <2>. QED
    BY <1>2, <1>5, <2>1, <2>3, <2>4, Zenon DEF ByRule
<1>. QED
  BY <1>7, <1>8, <1>9, <1>10 DEF FreeTurn!act

LEMMA TurnHolds == Spec => [](area = "turn" => TurnInv)
<1>1. Init => (area = "turn" => TurnInv)
  <2>. SUFFICES ASSUME FreeTurn!Init PROVE TurnInv
    BY Zenon DEF Init
  <2>1. /\ initial \in [1..TurnCards -> BOOLEAN] /\ cards = initial /\ index = TurnCards
        /\ checked = None /\ finished = FALSE /\ log = <<>> /\ ruled = TRUE
    BY DEF FreeTurn!Init, FreeTurn!Dealt, FreeTurn!Layouts
  <2>2. TurnCards \in Nat
    BY PracticeAssumption DEF PracticeAssumption
  <2>3. FreeTurn!TypeOK
    <3>1. checked \in BOOLEAN \cup {None}
      BY <2>1, Zenon
    <3>2. index \in 0..TurnCards
      BY <2>1, <2>2
    <3>. QED
      BY <2>1, <3>1, <3>2, Zenon DEF FreeTurn!TypeOK, FreeTurn!Layouts
  <2>4. FreeTurn!LogExplains
    <3>1. \A i : FreeTurn!Turned(<<>>, i) = 0
      BY TurnCount, FS_EmptySet DEF FreeTurn!Turned
    <3>2. 0 % 2 # 1
      OBVIOUS
    <3>. QED
      BY <2>1, <3>1, <3>2 DEF FreeTurn!LogExplains
  <2>5. ByRule
    BY <2>1, <2>2 DEF ByRule
  <2>6. ruled \in BOOLEAN
    BY <2>1, Zenon
  <2>. QED
    BY <2>1, <2>3, <2>4, <2>5, <2>6 DEF TurnInv
<1>2. (area = "turn" => TurnInv) /\ [Next]_vars => (area = "turn" => TurnInv)'
  <2>. SUFFICES ASSUME area = "turn" => TurnInv, [Next]_vars, area' = "turn"
                PROVE  TurnInv'
    OBVIOUS
  <2>1. TurnInv /\ [FreeTurn!Next]_(FreeTurn!vars)
    BY Zenon DEF Next, vars, InCoins, InCircle, InCards, InPancakes, InTurn, InBoxes, InForest,
       InStars, InPlan, InWords, InEngine, turnV, shared, FreeTurn!vars, FreeTurn!state
  <2>2. ASSUME NEW a \in {"check", "flip", "left", "finish"}, FreeTurn!act(a)
        PROVE  TurnInv'
    BY <2>1, <2>2, PracticeAssumption, ActionExplains, RuleKeeps, Zenon DEF TurnInv
  <2>3. CASE FreeTurn!Reset
    BY <2>1, <2>3, PracticeAssumption, DealtHolds
    DEF FreeTurn!Reset, FreeTurn!DealtAgain, TurnInv, FreeTurn!TypeOK, FreeTurn!Layouts
  <2>4. CASE FreeTurn!Fresh
    BY <2>4, PracticeAssumption, DealtHolds
    DEF FreeTurn!Fresh, FreeTurn!DealtAgain, FreeTurn!Layouts
  <2>5. CASE UNCHANGED FreeTurn!vars
    BY <2>1, <2>5 DEF TurnInv, FreeTurn!vars, FreeTurn!state, FreeTurn!TypeOK,
       FreeTurn!LogExplains, ByRule
  <2>. QED
    BY <2>1, <2>2, <2>3, <2>4, <2>5 DEF FreeTurn!Next, FreeTurn!reset
<1>. QED
  BY <1>1, <1>2, PTL DEF Spec

\* Whoever followed the rule ends with the expected cards.
LEMMA TurnIsRight ==
  ASSUME PracticeAssumption, TurnInv
  PROVE  FreeTurn!RuleIsRight
<1>. SUFFICES ASSUME ruled, finished PROVE cards = FreeTurn!Expected(initial)
  BY DEF FreeTurn!RuleIsRight, FreeTurn!correct
<1>1. /\ TurnCards \in Nat /\ index \in 0..TurnCards
      /\ initial \in [1..TurnCards -> BOOLEAN] /\ cards \in [1..TurnCards -> BOOLEAN]
  BY DEF PracticeAssumption, TurnInv, FreeTurn!TypeOK, FreeTurn!Layouts
<1>2. /\ \A i \in index + 1..TurnCards : initial[i] = TRUE /\ cards[i] = FALSE
      /\ \A i \in 1..index - 1 : cards[i] = initial[i]
      /\ index # 0 => initial[index] = FALSE /\ cards[index] = TRUE
  BY Zenon DEF TurnInv, ByRule
<1> DEFINE D == {i \in 1..TurnCards : ~ initial[i]}
<1>3. FreeTurn!LastDown(initial) = index
  <2>1. \A i \in D : i <= index
    <3>1. \A i \in 1..TurnCards : i <= index \/ i \in index + 1..TurnCards
      BY <1>1
    <3>. QED
      BY <1>2, <3>1, Zenon
  <2>2. CASE index = 0
    <3>1. \A i \in 1..TurnCards : initial[i]
      <4>1. \A i \in 1..TurnCards : i \in index + 1..TurnCards
        BY <1>1, <2>2
      <4>. QED
        BY <1>2, <4>1, Zenon
    <3>. QED
      BY <2>2, <3>1, Zenon DEF FreeTurn!LastDown
  <2>3. CASE index # 0
    <3>1. index \in 1..TurnCards
      BY <1>1, <2>3
    <3>2. ~ initial[index] /\ \A j \in index + 1..TurnCards : initial[j]
      BY <1>2, <2>3, Zenon
    <3>3. ASSUME NEW x \in 1..TurnCards, ~ initial[x], \A j \in x + 1..TurnCards : initial[j]
          PROVE  x = index
      <4>1. x <= index /\ index \notin x + 1..TurnCards
        BY <2>1, <3>2, <3>3, Zenon
      <4>. QED
        BY <1>1, <3>1, <4>1
    <3>. QED
      BY <3>1, <3>2, <3>3, Zenon DEF FreeTurn!LastDown
  <2>. QED
    BY <2>2, <2>3
<1>4. FreeTurn!Expected(initial) = [i \in 1..TurnCards |-> IF i >= index THEN ~ initial[i] ELSE initial[i]]
  BY <1>3, Zenon DEF FreeTurn!Expected
<1>5. ASSUME NEW i \in 1..TurnCards
      PROVE  cards[i] = IF i >= index THEN ~ initial[i] ELSE initial[i]
  <2>1. CASE i < index
    <3>1. i \in 1..index - 1 /\ ~ (i >= index)
      BY <1>1, <2>1
    <3>. QED
      BY <1>2, <3>1, Zenon
  <2>2. CASE i = index
    <3>1. i >= index /\ index # 0
      BY <1>1, <2>2
    <3>. QED
      BY <1>2, <2>2, <3>1, Zenon
  <2>3. CASE i > index
    <3>1. i \in index + 1..TurnCards /\ i >= index
      BY <1>1, <2>3
    <3>. QED
      BY <1>2, <3>1, Zenon
  <2>. QED
    BY <1>1, <2>1, <2>2, <2>3
<1>6. cards = [i \in 1..TurnCards |-> cards[i]]
  BY <1>1
<1>. QED
  BY <1>4, <1>5, <1>6, Zenon

-----------------------------------------------------------------------------
(* Boxes.                                                                   *)

Opened(v) == v = None \/ \E i \in 1..Len(log) : log[i].value = v
\* What holds as long as each press is the rule's: a box is opened once, and the
\* memo has the greatest count of the boxes that were left.
ByScan ==
  ruled =>
    /\ Len(log) = IF st.value = None THEN st.index - 1 ELSE st.index
    /\ st.memo = None => st.index = 1
    /\ st.memo # None => /\ \E j \in 1..st.index : st.memo = counts[j]
                         /\ \A j \in 1..st.index - 1 : counts[j] <= st.memo
    /\ st.output # None => /\ st.index = Len(counts) /\ st.value # None
                           /\ st.memo = st.output /\ counts[st.index] <= st.memo
BoxesInv ==
  /\ counts \in FreeBoxes!Layouts /\ numbers = counts /\ ruled \in BOOLEAN
  /\ st \in [index : 1..Len(counts), value : BoxApples \cup {None}, memo : BoxApples \cup {None},
             output : BoxApples \cup {None}]
  /\ st.value # None => st.value = counts[st.index]
  /\ log \in Seq([position : 1..Len(counts), value : BoxApples])
  /\ Opened(st.value) /\ Opened(st.memo) /\ Opened(st.output)
  /\ ByScan

LEMMA LayoutOfBoxes ==
  ASSUME PracticeAssumption, NEW c \in FreeBoxes!Layouts
  PROVE  /\ Len(c) \in Nat \ {0} /\ DOMAIN c = 1..Len(c)
         /\ \A i \in 1..Len(c) : c[i] \in BoxApples
         /\ BoxApples \subseteq Nat /\ None \notin BoxApples
<1>1. BoxApples \subseteq Nat /\ None \notin BoxApples
  BY DEF PracticeAssumption
<1>2. PICK size \in BoxSizes : c \in [1..size -> BoxApples]
  BY Zenon DEF FreeBoxes!Layouts
<1>3. size \in Nat \ {0}
  BY DEF PracticeAssumption
<1>. QED
  BY <1>1, <1>2, <1>3

LEMMA FreshBoxesHold ==
  ASSUME PracticeAssumption, NEW c \in FreeBoxes!Layouts,
         counts' = c, numbers' = c, st' = FreeBoxes!initialState, log' = <<>>, ruled' = TRUE
  PROVE  BoxesInv'
<1>1. Len(c) \in Nat \ {0}
  BY LayoutOfBoxes
<1>2. st' = [index |-> 1, value |-> None, memo |-> None, output |-> None]
  BY DEF FreeBoxes!initialState
<1>3. Len(log') = 0 /\ log' \in Seq([position : 1..Len(c), value : BoxApples])
  OBVIOUS
<1>4. ruled' \in BOOLEAN
  BY Zenon
<1>. QED
  BY <1>1, <1>2, <1>3, <1>4 DEF BoxesInv, ByScan, Opened

\* What a press does to the executor's state, and to the record.
LEMMA PressHolds ==
  ASSUME PracticeAssumption, BoxesInv, NEW a \in FreeBoxes!Playable, FreeBoxes!handlePress(a)
  PROVE  BoxesInv'
<1> DEFINE m == Len(counts)
           Value == BoxApples \cup {None}
           S == [position : 1..m, value : BoxApples]
<1>1. /\ m \in Nat \ {0} /\ \A i \in 1..m : counts[i] \in BoxApples
      /\ BoxApples \subseteq Nat /\ None \notin BoxApples
  BY LayoutOfBoxes DEF BoxesInv
<1>2. /\ st \in [index : 1..m, value : Value, memo : Value, output : Value]
      /\ st.value # None => st.value = counts[st.index]
      /\ log \in Seq(S) /\ numbers = counts /\ ruled \in BOOLEAN /\ ByScan
      /\ Opened(st.value) /\ Opened(st.memo) /\ Opened(st.output)
  BY DEF BoxesInv
<1>3. /\ UNCHANGED <<counts, numbers>> /\ ~ FreeBoxes!solved
      /\ FreeBoxes!appliesWhen(a, numbers, st)
      /\ st' = FreeBoxes!applyProblemAction(a, numbers, st)
      /\ ruled' = (ruled /\ a = FreeBoxes!RulePress)
      /\ IF a = "CHECK_SELECTED_BOX" THEN log' = Append(log, FreeBoxes!opened) ELSE log' = log
  BY DEF FreeBoxes!handlePress, FreeBoxes!candidates
<1>4. ruled' \in BOOLEAN
  BY <1>2, <1>3, Zenon
\* The record only grows.
<1>5. /\ log' \in Seq(S) /\ Len(log) \in Nat
      /\ a = "CHECK_SELECTED_BOX" => /\ Len(log') = Len(log) + 1
                                     /\ log'[Len(log) + 1] = FreeBoxes!opened
      /\ a # "CHECK_SELECTED_BOX" => log' = log
      /\ \A i \in 1..Len(log) : i \in 1..Len(log') /\ log'[i] = log[i]
  <2>1. FreeBoxes!opened = [position |-> st.index, value |-> counts[st.index]]
    BY DEF FreeBoxes!opened
  <2>2. FreeBoxes!opened \in S
    BY <1>1, <1>2, <2>1
  <2>. HIDE DEF S
  <2>3. CASE a = "CHECK_SELECTED_BOX"
    BY <1>2, <1>3, <2>2, <2>3, LenProperties, AppendProperties
  <2>4. CASE a # "CHECK_SELECTED_BOX"
    BY <1>2, <1>3, <2>4, LenProperties
  <2>. QED
    BY <2>3, <2>4
<1>6. \A v : Opened(v) => Opened(v)'
  BY <1>5, Zenon DEF Opened
<1>7. ruled' => ruled /\ a = FreeBoxes!RulePress
  BY <1>2, <1>3, Zenon
<1>. USE DEF FreeBoxes!Playable
<1>8. CASE a = "CHECK_SELECTED_BOX"
  <2>1. st' = [st EXCEPT !.value = counts[st.index]]
    BY <1>2, <1>3, <1>8 DEF FreeBoxes!applyProblemAction
  <2>2. /\ st' \in [index : 1..m, value : Value, memo : Value, output : Value]
        /\ st'.value = counts[st.index] /\ st'.index = st.index
        /\ st'.memo = st.memo /\ st'.output = st.output /\ st'.value # None
    BY <1>1, <1>2, <2>1
  <2>3. Opened(st.value)'
    <3>1. /\ Len(log) + 1 \in 1..Len(log')
          /\ log'[Len(log) + 1].value = counts[st.index]
      BY <1>5, <1>8 DEF FreeBoxes!opened
    <3>. QED
      BY <2>2, <3>1 DEF Opened
  <2>4. ASSUME ruled' PROVE ByScan'
    <3>1. ruled /\ st.value = None
      BY <1>1, <1>2, <1>7, <1>8, <2>4 DEF FreeBoxes!RulePress
    <3>2. /\ Len(log) = st.index - 1
          /\ st.memo = None => st.index = 1
          /\ st.memo # None => /\ \E j \in 1..st.index : st.memo = counts[j]
                               /\ \A j \in 1..st.index - 1 : counts[j] <= st.memo
          /\ st.output = None
      BY <1>2, <3>1 DEF ByScan
    <3>3. Len(log') = st.index /\ counts' = counts
      BY <1>2, <1>3, <1>5, <1>8, <3>2
    <3>. QED
      BY <2>2, <3>2, <3>3, Zenon DEF ByScan
  <2>5. ByScan'
    BY <1>4, <2>4, Zenon DEF ByScan
  <2>. QED
    BY <1>2, <1>3, <1>4, <1>5, <1>6, <2>2, <2>3, <2>5 DEF BoxesInv
<1>9. CASE a = "WRITE_MEMO"
  <2>1. st' = [st EXCEPT !.memo = st.value] /\ st.value # None /\ log' = log
    BY <1>2, <1>3, <1>5, <1>9 DEF FreeBoxes!applyProblemAction, FreeBoxes!appliesWhen
  <2>2. /\ st' \in [index : 1..m, value : Value, memo : Value, output : Value]
        /\ st'.value = st.value /\ st'.index = st.index
        /\ st'.memo = st.value /\ st'.output = st.output
    BY <1>1, <1>2, <2>1
  <2>4. ASSUME ruled' PROVE ByScan'
    <3>1. ruled /\ (st.memo = None \/ st.value > st.memo)
      BY <1>1, <1>2, <1>7, <1>9, <2>4, <2>1 DEF FreeBoxes!RulePress
    <3>2. /\ Len(log) = st.index
          /\ st.memo = None => st.index = 1
          /\ st.memo # None => \A j \in 1..st.index - 1 : counts[j] <= st.memo
          /\ st.output # None => /\ st.index = m /\ st.memo = st.output /\ counts[st.index] <= st.memo
      BY <1>2, <2>1, <3>1 DEF ByScan
    <3>3. st.output = None
      <4>1. ASSUME st.output # None PROVE FALSE
        <5>1. st.memo # None /\ st.memo \in Nat /\ st.value \in Nat /\ st.value <= st.memo
          BY <1>1, <1>2, <2>1, <3>2, <4>1
        <5>. QED
          BY <3>1, <5>1
      <4>. QED
        BY <4>1
    <3>4. st.value = counts[st.index] /\ st.index \in 1..st.index
      BY <1>2, <2>1
    <3>5. \A j \in 1..st.index - 1 : counts[j] <= st.value
      <4>1. CASE st.memo = None
        BY <3>2, <4>1
      <4>2. CASE st.memo # None
        <5>1. st.memo \in Nat /\ st.value \in Nat /\ st.value > st.memo
          BY <1>1, <1>2, <2>1, <3>1, <4>2
        <5>2. \A j \in 1..st.index - 1 : counts[j] \in Nat /\ counts[j] <= st.memo
          <6>1. \A j \in 1..st.index - 1 : j \in 1..m
            BY <1>1, <1>2
          <6>. QED
            BY <1>1, <3>2, <4>2, <6>1
        <5>. QED
          BY <5>1, <5>2
      <4>. QED
        BY <4>1, <4>2
    <3>. QED
      BY <1>3, <2>1, <2>2, <3>2, <3>3, <3>4, <3>5 DEF ByScan
  <2>5. ByScan'
    BY <1>4, <2>4, Zenon DEF ByScan
  <2>. QED
    BY <1>2, <1>3, <1>4, <1>5, <1>6, <2>2, <2>5 DEF BoxesInv
<1>10. CASE a = "MOVE_LEFT_BOX"
  <2>1. st' = [st EXCEPT !.index = st.index - 1, !.value = None] /\ st.index > 1 /\ log' = log
    BY <1>2, <1>3, <1>5, <1>10 DEF FreeBoxes!applyProblemAction, FreeBoxes!appliesWhen, FreeBoxes!moved
  <2>2. /\ st' \in [index : 1..m, value : Value, memo : Value, output : Value]
        /\ st'.value = None /\ st'.memo = st.memo /\ st'.output = st.output
    <3>1. st.index - 1 \in 1..m /\ None \in Value
      BY <1>1, <1>2, <2>1
    <3>2. st' = [index |-> st.index - 1, value |-> None, memo |-> st.memo, output |-> st.output]
      BY <1>2, <2>1
    <3>. HIDE DEF m, Value
    <3>. QED
      BY <1>2, <3>1, <3>2
  <2>3. ~ ruled'
    BY <1>7, <1>10 DEF FreeBoxes!RulePress
  <2>4. Opened(None)'
    BY DEF Opened
  <2>5. ByScan'
    BY <2>3, Zenon DEF ByScan
  <2>. QED
    BY <1>2, <1>3, <1>4, <1>5, <1>6, <2>2, <2>4, <2>5 DEF BoxesInv
<1>11. CASE a = "MOVE_RIGHT_BOX"
  <2>1. st' = [st EXCEPT !.index = st.index + 1, !.value = None] /\ st.index < m /\ log' = log
    BY <1>2, <1>3, <1>5, <1>11 DEF FreeBoxes!applyProblemAction, FreeBoxes!appliesWhen, FreeBoxes!moved
  <2>2. /\ st' \in [index : 1..m, value : Value, memo : Value, output : Value]
        /\ st'.value = None /\ st'.memo = st.memo /\ st'.output = st.output
        /\ st'.index = st.index + 1
    <3>1. st.index + 1 \in 1..m /\ None \in Value
      BY <1>1, <1>2, <2>1
    <3>2. st' = [index |-> st.index + 1, value |-> None, memo |-> st.memo, output |-> st.output]
      BY <1>2, <2>1
    <3>. HIDE DEF m, Value
    <3>. QED
      BY <1>2, <3>1, <3>2
  <2>3. Opened(None)'
    BY DEF Opened
  <2>4. ASSUME ruled' PROVE ByScan'
    <3>1. ruled /\ st.value # None /\ st.memo # None /\ ~ (st.value > st.memo)
      BY <1>1, <1>2, <1>7, <1>11, <2>4 DEF FreeBoxes!RulePress
    <3>2. /\ Len(log) = st.index /\ \E j \in 1..st.index : st.memo = counts[j]
          /\ \A j \in 1..st.index - 1 : counts[j] <= st.memo
          /\ st.output # None => st.index = m
      BY <1>2, <3>1 DEF ByScan
    <3>3. st.memo \in Nat /\ st.value \in Nat /\ st.value = counts[st.index] /\ st.index \in 1..m
      BY <1>1, <1>2, <3>1
    <3>4. counts[st.index] <= st.memo
      BY <3>1, <3>3
    <3>5. \A j \in 1..(st.index + 1) - 1 : counts[j] <= st.memo
      <4>1. \A j \in 1..(st.index + 1) - 1 : j = st.index \/ j \in 1..st.index - 1
        BY <3>3
      <4>. QED
        BY <3>2, <3>4, <4>1
    <3>6. \E j \in 1..st.index + 1 : st.memo = counts[j]
      <4>1. \A j \in 1..st.index : j \in 1..st.index + 1
        BY <3>3
      <4>. QED
        BY <3>2, <4>1
    <3>7. st.output = None
      BY <2>1, <3>2, <3>3, <1>1
    <3>. QED
      BY <1>3, <2>1, <2>2, <3>1, <3>2, <3>3, <3>5, <3>6, <3>7 DEF ByScan
  <2>5. ByScan'
    BY <1>4, <2>4, Zenon DEF ByScan
  <2>. QED
    BY <1>2, <1>3, <1>4, <1>5, <1>6, <2>2, <2>3, <2>5 DEF BoxesInv
<1>12. CASE a = "SUBMIT_ANSWER"
  <2>1. st' = [st EXCEPT !.output = st.memo] /\ st.memo # None /\ log' = log
    BY <1>2, <1>3, <1>5, <1>12 DEF FreeBoxes!applyProblemAction, FreeBoxes!appliesWhen
  <2>2. /\ st' \in [index : 1..m, value : Value, memo : Value, output : Value]
        /\ st'.value = st.value /\ st'.index = st.index
        /\ st'.memo = st.memo /\ st'.output = st.memo
    BY <1>1, <1>2, <2>1
  <2>4. ASSUME ruled' PROVE ByScan'
    <3>1. ruled /\ st.value # None /\ ~ (st.value > st.memo) /\ ~ (st.index < m)
      BY <1>1, <1>2, <1>7, <1>12, <2>4 DEF FreeBoxes!RulePress
    <3>2. /\ Len(log) = st.index /\ \E j \in 1..st.index : st.memo = counts[j]
          /\ \A j \in 1..st.index - 1 : counts[j] <= st.memo
      BY <1>2, <2>1, <3>1 DEF ByScan
    <3>3. st.memo \in Nat /\ st.value \in Nat /\ st.value = counts[st.index] /\ st.index = m
      BY <1>1, <1>2, <2>1, <3>1
    <3>4. counts[st.index] <= st.memo
      BY <3>1, <3>3
    <3>. QED
      BY <1>3, <2>1, <2>2, <3>1, <3>2, <3>3, <3>4 DEF ByScan
  <2>5. ByScan'
    BY <1>4, <2>4, Zenon DEF ByScan
  <2>. QED
    BY <1>2, <1>3, <1>4, <1>5, <1>6, <2>2, <2>5 DEF BoxesInv
<1>. QED
  BY <1>8, <1>9, <1>10, <1>11, <1>12

LEMMA BoxesHold == Spec => [](area = "boxes" => BoxesInv)
<1>1. Init => (area = "boxes" => BoxesInv)
  <2>. SUFFICES ASSUME FreeBoxes!Init PROVE BoxesInv
    BY Zenon DEF Init
  <2>1. /\ counts \in FreeBoxes!Layouts /\ numbers = counts /\ log = <<>> /\ ruled = TRUE
        /\ st = [index |-> 1, value |-> None, memo |-> None, output |-> None]
    BY DEF FreeBoxes!Init, FreeBoxes!initialState
  <2>2. Len(counts) \in Nat \ {0}
    BY <2>1, LayoutOfBoxes, PracticeAssumption
  <2>3. Len(log) = 0 /\ log \in Seq([position : 1..Len(counts), value : BoxApples])
    BY <2>1
  <2>. QED
    BY <2>1, <2>2, <2>3 DEF BoxesInv, ByScan, Opened
<1>2. (area = "boxes" => BoxesInv) /\ [Next]_vars => (area = "boxes" => BoxesInv)'
  <2>. SUFFICES ASSUME area = "boxes" => BoxesInv, [Next]_vars, area' = "boxes"
                PROVE  BoxesInv'
    OBVIOUS
  <2>1. BoxesInv /\ [FreeBoxes!Next]_(FreeBoxes!vars)
    BY Zenon DEF Next, vars, InCoins, InCircle, InCards, InPancakes, InTurn, InBoxes, InForest,
       InStars, InPlan, InWords, InEngine, boxesV, shared, FreeBoxes!vars
  <2>2. ASSUME NEW a \in FreeBoxes!Playable, FreeBoxes!handlePress(a)
        PROVE  BoxesInv'
    BY <2>1, <2>2, PracticeAssumption, PressHolds
  <2>3. CASE FreeBoxes!handleReset
    BY <2>1, <2>3, PracticeAssumption, FreshBoxesHold
    DEF FreeBoxes!handleReset, FreeBoxes!freshAlgState, BoxesInv
  <2>4. CASE FreeBoxes!handleNewGame
    BY <2>4, PracticeAssumption, FreshBoxesHold
    DEF FreeBoxes!handleNewGame, FreeBoxes!NewBoxes, FreeBoxes!freshAlgState
  <2>5. CASE UNCHANGED FreeBoxes!vars
    BY <2>1, <2>5 DEF BoxesInv, FreeBoxes!vars, ByScan, Opened
  <2>. QED
    BY <2>1, <2>2, <2>3, <2>4, <2>5 DEF FreeBoxes!Next
<1>. QED
  BY <1>1, <1>2, PTL DEF Spec

\* Whoever followed the rule submitted the greatest count, with one opening per box.
LEMMA BoxesExplain ==
  ASSUME PracticeAssumption, BoxesInv
  PROVE  FreeBoxes!TypeOK /\ FreeBoxes!OnlyOpenedIsKnown /\ FreeBoxes!RuleIsRight
<1>1. /\ Len(counts) \in Nat \ {0} /\ DOMAIN counts = 1..Len(counts)
      /\ \A i \in 1..Len(counts) : counts[i] \in Nat
  BY LayoutOfBoxes DEF BoxesInv
<1>2. FreeBoxes!TypeOK
  BY DEF BoxesInv, FreeBoxes!TypeOK
<1>3. FreeBoxes!OnlyOpenedIsKnown
  BY Zenon DEF BoxesInv, Opened, FreeBoxes!OnlyOpenedIsKnown
<1>4. ASSUME ruled, st.output # None
      PROVE  FreeBoxes!solved /\ Len(log) = Len(counts)
  <2>1. /\ st.index = Len(counts) /\ st.value # None /\ st.memo = st.output
        /\ counts[st.index] <= st.memo /\ Len(log) = st.index /\ st.memo # None
    BY <1>4 DEF BoxesInv, ByScan
  <2>2. /\ \E j \in 1..st.index : st.memo = counts[j]
        /\ \A j \in 1..st.index - 1 : counts[j] <= st.memo
    BY <1>4, <2>1 DEF BoxesInv, ByScan
  <2>3. \A j \in 1..Len(counts) : counts[j] <= st.memo
    <3>0. \A m \in Nat \ {0} : \A j \in 1..m : j = m \/ j \in 1..m - 1
      OBVIOUS
    <3>1. \A j \in 1..Len(counts) : j = Len(counts) \/ j \in 1..Len(counts) - 1
      BY <1>1, <3>0, Zenon
    <3>. QED
      BY <2>1, <2>2, <3>1
  <2> DEFINE T == {counts[j] : j \in 1..Len(counts)}
  <2>4. \A x : x \in T <=> \E j \in 1..Len(counts) : x = counts[j]
    BY Zenon
  <2>. HIDE DEF T
  <2>5. st.memo \in T /\ \A j \in 1..Len(counts) : counts[j] <= st.memo
    BY <1>1, <2>1, <2>2, <2>3, <2>4
  <2>6. \A x \in T : (\A j \in 1..Len(counts) : counts[j] <= x) => x = st.memo
    BY <1>1, <2>4, <2>5
  <2>7. (CHOOSE m \in T : \A j \in 1..Len(counts) : counts[j] <= m) = st.memo
    BY <2>5, <2>6, Zenon
  <2>. QED
    BY <1>4, <2>1, <2>7 DEF FreeBoxes!solved, FreeBoxes!correctAnswer, T
<1>. QED
  BY <1>2, <1>3, <1>4 DEF FreeBoxes!RuleIsRight

-----------------------------------------------------------------------------
(* Sums over finite sets, as the folds compute them.                        *)

\* Induction over the subsets of a finite set.
LEMMA InductSets ==
  ASSUME NEW S, IsFiniteSet(S), NEW P, {} \in P,
         \A s \in SUBSET S : s # {} /\ (\A x \in s : s \ {x} \in P) => s \in P
  PROVE  \A s \in SUBSET S : s \in P
<1> DEFINE T == {m \in Nat : \A s \in SUBSET S : Cardinality(s) = m => s \in P}
<1>1. \A s \in SUBSET S : IsFiniteSet(s) /\ Cardinality(s) \in Nat
  BY FS_Subset, FS_CardinalityType
<1>2. 0 \in T
  BY <1>1, FS_EmptySet
<1>3. ASSUME NEW m \in Nat, m \in T PROVE m + 1 \in T
  <2>1. ASSUME NEW s \in SUBSET S, Cardinality(s) = m + 1 PROVE s \in P
    <3>1. s # {}
      BY <2>1, FS_EmptySet
    <3>2. ASSUME NEW x \in s PROVE s \ {x} \in P
      <4>1. Cardinality(s \ {x}) = m
        BY <1>1, <2>1, FS_RemoveElement
      <4>. QED
        BY <1>3, <4>1
    <3>. QED
      BY <3>1, <3>2
  <2>. QED
    BY <2>1
<1> HIDE DEF T
<1>4. \A m \in Nat : m \in T
  BY <1>2, <1>3, Induct
<1>. QED
  BY <1>1, <1>4 DEF T

\* The element a fold takes next.
Any(s) == CHOOSE x \in s : TRUE
\* The sums of the weights over the subsets of a set.
SumsUp(g, S, w) ==
  g = [s \in SUBSET S |-> IF s = {} THEN 0 ELSE g[s \ {Any(s)}] + w[Any(s)]]

LEMMA SumsExist ==
  ASSUME NEW S, IsFiniteSet(S), NEW w \in [S -> Int]
  PROVE  \E g \in [SUBSET S -> Int] : SumsUp(g, S, w)
<1> DEFINE D(m) == {s \in SUBSET S : Cardinality(s) <= m}
           Next1(g, s) == IF s = {} THEN 0 ELSE g[s \ {Any(s)}] + w[Any(s)]
           T == {m \in Nat : \E g \in [D(m) -> Int] : \A s \in D(m) : g[s] = Next1(g, s)}
<1>1. \A s \in SUBSET S : IsFiniteSet(s) /\ Cardinality(s) \in Nat
  BY FS_Subset, FS_CardinalityType
<1>2. \A s \in SUBSET S : s # {} => Any(s) \in s /\ w[Any(s)] \in Int
  BY DEF Any
<1>3. 0 \in T
  <2>1. \A s \in D(0) : s = {}
    BY <1>1, FS_EmptySet
  <2> DEFINE g == [s \in D(0) |-> 0]
  <2>2. g \in [D(0) -> Int] /\ \A s \in D(0) : g[s] = 0
    OBVIOUS
  <2>. HIDE DEF g
  <2>3. \A s \in D(0) : g[s] = Next1(g, s)
    BY <2>1, <2>2
  <2>. QED
    BY <2>2, <2>3
<1>4. ASSUME NEW m \in Nat, m \in T PROVE m + 1 \in T
  <2>1. PICK g \in [D(m) -> Int] : \A s \in D(m) : g[s] = Next1(g, s)
    BY <1>4
  <2> DEFINE h == [s \in D(m + 1) |-> Next1(g, s)]
  <2>2. \A s \in D(m + 1) : s # {} => s \ {Any(s)} \in D(m)
    <3>1. ASSUME NEW s \in D(m + 1), s # {} PROVE s \ {Any(s)} \in D(m)
      <4>1. Cardinality(s \ {Any(s)}) = Cardinality(s) - 1
        BY <1>1, <1>2, <3>1, FS_RemoveElement
      <4>2. s \in SUBSET S /\ Cardinality(s) <= m + 1 /\ Cardinality(s) \in Nat
        BY <1>1
      <4>. QED
        BY <4>1, <4>2
    <3>. QED
      BY <3>1
  <2>3. \A s \in D(m) : s \in D(m + 1)
    BY <1>1
  <2>4. \A s \in D(m + 1) : s \in SUBSET S
    OBVIOUS
  <2>. HIDE DEF D
  <2>5. h \in [D(m + 1) -> Int]
    BY <1>2, <2>1, <2>2, <2>4
  <2>6. \A s \in D(m) : h[s] = g[s]
    BY <2>1, <2>3
  <2>7. \A s \in D(m + 1) : h[s] = Next1(h, s)
    BY <2>2, <2>6
  <2>. HIDE DEF h
  <2>8. \E k1 \in [D(m + 1) -> Int] : \A s \in D(m + 1) : k1[s] = Next1(k1, s)
    BY <2>5, <2>7
  <2>9. m + 1 \in Nat
    OBVIOUS
  <2>. QED
    BY <2>8, <2>9, Zenon
<1>5. \A m \in Nat : m \in T
  <2>. HIDE DEF T
  <2>. QED
    BY <1>3, <1>4, Induct
<1>6. Cardinality(S) \in Nat /\ D(Cardinality(S)) = SUBSET S
  <2>1. \A s \in SUBSET S : Cardinality(s) <= Cardinality(S)
    BY FS_Subset
  <2>. QED
    BY <2>1, FS_CardinalityType
<1>7. PICK g \in [SUBSET S -> Int] : \A s \in SUBSET S : g[s] = Next1(g, s)
  <2>1. \E g \in [D(Cardinality(S)) -> Int] : \A s \in D(Cardinality(S)) : g[s] = Next1(g, s)
    BY <1>5, <1>6
  <2>. HIDE DEF D
  <2>. QED
    BY <1>6, <2>1
<1>8. SumsUp(g, S, w)
  <2>1. g = [s \in SUBSET S |-> g[s]]
    OBVIOUS
  <2>. QED
    BY <1>7, <2>1 DEF SumsUp
<1>. QED
  BY <1>8

\* What the sums are, whichever element is taken first.
LEMMA SumTakesAny ==
  ASSUME NEW S, IsFiniteSet(S), NEW w \in [S -> Int], NEW g, SumsUp(g, S, w)
  PROVE  /\ g[{}] = 0
         /\ \A s \in SUBSET S : g[s] \in Int
         /\ \A s \in SUBSET S : \A x \in s : g[s] = g[s \ {x}] + w[x]
<1> DEFINE Q == {s \in SUBSET S : g[s] \in Int}
           P == {s \in SUBSET S : \A x \in s : g[s] = g[s \ {x}] + w[x]}
<1>1. \A s \in SUBSET S : g[s] = IF s = {} THEN 0 ELSE g[s \ {Any(s)}] + w[Any(s)]
  BY DEF SumsUp
<1>2. \A s \in SUBSET S : s # {} => Any(s) \in s
  BY DEF Any
<1>3. \A s \in SUBSET S : g[s] \in Int
  <2>1. {} \in Q
    BY <1>1
  <2>2. ASSUME NEW s \in SUBSET S, s # {}, \A x \in s : s \ {x} \in Q PROVE s \in Q
    <3>1. Any(s) \in s /\ g[s] = g[s \ {Any(s)}] + w[Any(s)] /\ s \ {Any(s)} \in Q
      BY <1>1, <1>2, <2>2
    <3>. QED
      BY <3>1
  <2>. HIDE DEF Q
  <2>3. \A s \in SUBSET S : s \in Q
    BY <2>1, <2>2, InductSets
  <2>. QED
    BY <2>3 DEF Q
<1>4. ASSUME NEW s \in SUBSET S, s # {}, \A x \in s : s \ {x} \in P
      PROVE  s \in P
  <2> DEFINE p == Any(s)
  <2>1. p \in s /\ g[s] = g[s \ {p}] + w[p] /\ s \ {p} \in P
    BY <1>1, <1>2, <1>4
  <2>. HIDE DEF p
  <2>2. ASSUME NEW x \in s PROVE g[s] = g[s \ {x}] + w[x]
    <3>1. CASE x = p
      BY <2>1, <3>1
    <3>2. CASE x # p
      <4> DEFINE a == g[(s \ {p}) \ {x}]
                 b == g[s \ {p}]
                 c == g[s \ {x}]
      <4>1. b = a + w[x]
        BY <2>1, <3>2
      <4>2. c = a + w[p]
        <5>1. c = g[(s \ {x}) \ {p}] + w[p]
          BY <1>4, <2>1, <3>2
        <5>2. (s \ {p}) \ {x} = (s \ {x}) \ {p}
          OBVIOUS
        <5>. QED
          BY <5>1, <5>2
      <4>3. a \in Int
        BY <1>3
      <4>4. w[x] \in Int /\ w[p] \in Int
        BY <2>1
      <4>5. g[s] = b + w[p]
        BY <2>1
      <4>. HIDE DEF a, b, c
      <4>6. g[s] = c + w[x]
        BY <4>1, <4>2, <4>3, <4>4, <4>5
      <4>. QED
        BY <4>6 DEF c
    <3>. QED
      BY <3>1, <3>2
  <2>. QED
    BY <2>2
<1>5. \A s \in SUBSET S : s \in P
  <2>1. {} \in P
    OBVIOUS
  <2>. HIDE DEF P
  <2>. QED
    BY <1>4, <2>1, InductSets
<1>6. g[{}] = 0
  BY <1>1
<1>. QED
  BY <1>3, <1>5, <1>6

Taken(g, S, w) ==
  /\ g[{}] = 0 /\ \A s \in SUBSET S : g[s] \in Int
  /\ \A s \in SUBSET S : \A x \in s : g[s] = g[s \ {x}] + w[x]

LEMMA SumIsTaken ==
  ASSUME NEW S, IsFiniteSet(S), NEW w \in [S -> Int], NEW g, SumsUp(g, S, w)
  PROVE  Taken(g, S, w)
  BY SumTakesAny DEF Taken

\* Smaller weights have smaller sums, and one that is less makes the sum less.
LEMMA SumsCompare ==
  ASSUME NEW S, IsFiniteSet(S), NEW w \in [S -> Int], NEW v \in [S -> Int],
         NEW g, NEW f, SumsUp(g, S, w), SumsUp(f, S, v), \A x \in S : w[x] <= v[x]
  PROVE  /\ g[S] \in Int /\ f[S] \in Int /\ g[S] <= f[S]
         /\ \A x \in S : w[x] < v[x] => g[S] < f[S]
<1> DEFINE P == {s \in SUBSET S : g[s] <= f[s]}
<1>1. /\ g[{}] = 0 /\ \A s \in SUBSET S : g[s] \in Int
      /\ \A s \in SUBSET S : \A x \in s : g[s] = g[s \ {x}] + w[x]
  BY SumTakesAny
<1>2. /\ f[{}] = 0 /\ \A s \in SUBSET S : f[s] \in Int
      /\ \A s \in SUBSET S : \A x \in s : f[s] = f[s \ {x}] + v[x]
  BY SumTakesAny
<1>3. {} \in P
  BY <1>1, <1>2
<1>4. ASSUME NEW s \in SUBSET S, s # {}, \A x \in s : s \ {x} \in P
      PROVE  s \in P
  <2>1. PICK x \in s : TRUE
    BY <1>4
  <2>2. /\ g[s] = g[s \ {x}] + w[x] /\ f[s] = f[s \ {x}] + v[x]
        /\ g[s \ {x}] \in Int /\ f[s \ {x}] \in Int /\ w[x] \in Int /\ v[x] \in Int
        /\ g[s \ {x}] <= f[s \ {x}] /\ w[x] <= v[x]
    BY <1>1, <1>2, <1>4, <2>1
  <2>3. g[s] <= f[s]
    BY <2>2
  <2>. QED
    BY <2>3
<1>5. \A s \in SUBSET S : s \in P
  <2>. HIDE DEF P
  <2>. QED
    BY <1>3, <1>4, InductSets
<1>6. ASSUME NEW x \in S, w[x] < v[x] PROVE g[S] < f[S]
  <2>1. /\ g[S] = g[S \ {x}] + w[x] /\ f[S] = f[S \ {x}] + v[x]
        /\ g[S \ {x}] \in Int /\ f[S \ {x}] \in Int /\ w[x] \in Int /\ v[x] \in Int
        /\ g[S \ {x}] <= f[S \ {x}]
    BY <1>1, <1>2, <1>5
  <2>. QED
    BY <1>6, <2>1
<1>. QED
  BY <1>1, <1>2, <1>5, <1>6

-----------------------------------------------------------------------------
(* Forest.                                                                  *)

Weights(s, height) == [h \in s |-> IF h > height THEN h - height ELSE 0]

LEMMA WoodIsSum ==
  ASSUME NEW s \in SUBSET Nat, IsFiniteSet(s), NEW height \in Nat
  PROVE  \E g : SumsUp(g, s, Weights(s, height)) /\ Forest!totalWood(s, height) = g[s]
<1> DEFINE w == Weights(s, height)
           Is(g) == g = [t \in SUBSET s |->
                           IF t = {} THEN 0
                           ELSE g[t \ {Any(t)}] + (IF Any(t) > height THEN Any(t) - height ELSE 0)]
           iter == CHOOSE g : Is(g)
<1>1. w \in [s -> Int]
  BY DEF Weights
<1>2. \A t \in SUBSET s : t # {} => w[Any(t)] = IF Any(t) > height THEN Any(t) - height ELSE 0
  BY DEF Weights, Any
<1>3. \A g : SumsUp(g, s, w) <=> Is(g)
  <2>. HIDE DEF w
  <2>. QED
    BY <1>2 DEF SumsUp
<1>4. \E g : Is(g)
  BY <1>1, <1>3, SumsExist
<1>5. Is(iter)
  <2>. HIDE DEF Is
  <2>. QED
    BY <1>4, Zenon
<1>6. Forest!totalWood(s, height) = iter[s]
  BY Zenon DEF Forest!totalWood, Forest!FoldSet, Forest!MapThenFoldSet, Any
<1>. QED
  BY <1>3, <1>5, <1>6

LEMMA ForestCount == \A S : Forest!Cardinality(S) = Cardinality(S)
  BY DEF Forest!Cardinality, Cardinality

\* The greatest of two numbers.
LEMMA GreaterOfTwo ==
  ASSUME NEW a \in Int, NEW b \in Int
  PROVE  /\ Forest!Max({a, b}) = IF a >= b THEN a ELSE b
         /\ Forest!Min({a, b}) = IF a <= b THEN a ELSE b
<1>1. PICK m \in {a, b} : m = IF a >= b THEN a ELSE b
  OBVIOUS
<1>2. (\A y \in {a, b} : m >= y) /\ \A x \in {a, b} : (\A y \in {a, b} : x >= y) => x = m
  BY <1>1
<1>3. Forest!Max({a, b}) = m
  BY <1>2, Zenon DEF Forest!Max
<1>4. PICK k1 \in {a, b} : k1 = IF a <= b THEN a ELSE b
  OBVIOUS
<1>5. (\A y \in {a, b} : k1 <= y) /\ \A x \in {a, b} : (\A y \in {a, b} : x <= y) => x = k1
  BY <1>4
<1>6. Forest!Min({a, b}) = k1
  BY <1>5, Zenon DEF Forest!Min
<1>. QED
  BY <1>1, <1>3, <1>4, <1>6

\* A forest has a tallest tree, and the answer is below its top.
LEMMA AnswerBelowTop ==
  ASSUME PracticeAssumption, NEW f \in Forest!Forests, NEW a \in Forest!Answers(f)
  PROVE  /\ f \in SUBSET Nat /\ IsFiniteSet(f) /\ a \in 1..MaxHeight /\ MaxHeight \in Nat
         /\ \E top \in f : a < top
<1>1. /\ MaxHeight \in Nat /\ Trees \in Nat \ {0, 1}
  BY DEF PracticeAssumption
<1>2. f \in SUBSET (1..MaxHeight) /\ Cardinality(f) = Trees
  BY ForestCount, Zenon DEF Forest!Forests, Forest!kSubset
<1>3. IsFiniteSet(1..MaxHeight)
  BY <1>1, FS_Interval
<1>4. f \in SUBSET Nat /\ IsFiniteSet(f)
  <2>1. IsFiniteSet(f)
    BY <1>2, <1>3, FS_Subset, Zenon
  <2>. QED
    BY <1>1, <1>2, <2>1
<1>5. f # {} /\ ~ (f \subseteq {1})
  <2>1. Cardinality({}) = 0 /\ IsFiniteSet({1}) /\ Cardinality({1}) = 1
    BY FS_EmptySet, FS_Singleton
  <2>2. f \subseteq {1} => Cardinality(f) <= 1
    <3> DEFINE S == {1}
    <3>1. IsFiniteSet(S) /\ Cardinality(S) = 1
      BY <2>1
    <3>. HIDE DEF S
    <3>2. f \in SUBSET S => Cardinality(f) <= 1
      BY <3>1, FS_Subset
    <3>. QED
      BY <3>2 DEF S
  <2>. QED
    BY <1>1, <1>2, <2>1, <2>2
<1> DEFINE T == {m \in Nat : \A h \in f : h <= m}
<1>6. PICK m \in T : \A x \in T : m <= x
  <2>1. MaxHeight \in T
    BY <1>1, <1>2
  <2>. QED
    BY <2>1, Least
<1>7. m \in f
  <2>1. SUFFICES ASSUME m \notin f PROVE FALSE
    OBVIOUS
  <2>2. m \in Nat /\ \A h \in f : h \in Nat /\ h <= m /\ h # m /\ h <= m - 1
    BY <1>4, <1>6, <2>1
  <2>3. m - 1 \in Nat
    BY <1>5, <2>2
  <2>4. m - 1 \in T
    BY <2>2, <2>3
  <2>. QED
    BY <1>6, <2>2, <2>4
<1>8. m \in Nat /\ \A h \in f : m >= h
  BY <1>4, <1>6
<1>9. Forest!Max(f) = m
  <2>1. \A x \in f : (\A y \in f : x >= y) => x = m
    BY <1>4, <1>7, <1>8
  <2>. QED
    BY <1>7, <1>8, <2>1, Zenon DEF Forest!Max
<1>10. m >= 2 /\ m <= MaxHeight
  <2>1. PICK h \in f : h # 1
    BY <1>5
  <2>2. h \in 1..MaxHeight /\ m >= h /\ m \in 1..MaxHeight
    BY <1>2, <1>7, <1>8, <2>1
  <2>. QED
    BY <2>1, <2>2
<1> DEFINE lo == Forest!Max({1, m \div 10})
           hi == Forest!Max({lo, (9 * m) \div 10})
<1>11. a \in lo..hi
  BY <1>9, Zenon DEF Forest!Answers
<1>12. /\ m \div 10 \in Int /\ (9 * m) \div 10 \in Int
       /\ m \div 10 < m /\ (9 * m) \div 10 < m
  BY <1>8, <1>10
<1>13. lo \in Int /\ lo = IF 1 >= m \div 10 THEN 1 ELSE m \div 10
  BY <1>12, GreaterOfTwo
<1>14. hi \in Int /\ hi = IF lo >= (9 * m) \div 10 THEN lo ELSE (9 * m) \div 10
  BY <1>12, <1>13, GreaterOfTwo
<1> HIDE DEF lo, hi
<1>15. 1 <= lo /\ lo < m /\ hi < m
  BY <1>8, <1>10, <1>12, <1>13, <1>14
<1>16. a \in Int /\ 1 <= a /\ a < m
  BY <1>8, <1>11, <1>13, <1>14, <1>15
<1>. QED
  BY <1>1, <1>4, <1>7, <1>8, <1>10, <1>16

\* The answer is the highest height that collects its wood.
LEMMA HighestCollects ==
  ASSUME PracticeAssumption, NEW f \in Forest!Forests, NEW a \in Forest!Answers(f),
         NEW h \in 0..MaxHeight
  PROVE  /\ Forest!totalWood(f, h) \in Nat
         /\ Forest!totalWood(f, h) >= Forest!totalWood(f, a) <=> h <= a
<1>1. /\ f \in SUBSET Nat /\ IsFiniteSet(f) /\ a \in 1..MaxHeight /\ MaxHeight \in Nat
  BY AnswerBelowTop
<1>2. PICK top \in f : a < top
  BY AnswerBelowTop
<1>3. h \in Nat /\ a \in Nat
  BY <1>1
<1> DEFINE w == Weights(f, h)
           v == Weights(f, a)
           z == [x \in f |-> 0]
<1>4. /\ w \in [f -> Nat] /\ v \in [f -> Nat]
      /\ w \in [f -> Int] /\ v \in [f -> Int] /\ z \in [f -> Int]
  BY <1>1, <1>3 DEF Weights
<1>5. PICK g : SumsUp(g, f, w) /\ Forest!totalWood(f, h) = g[f]
  BY <1>1, <1>3, WoodIsSum
<1>6. PICK k1 : SumsUp(k1, f, v) /\ Forest!totalWood(f, a) = k1[f]
  BY <1>1, <1>3, WoodIsSum
<1>7. /\ \A x \in f : w[x] = IF x > h THEN x - h ELSE 0
      /\ \A x \in f : v[x] = IF x > a THEN x - a ELSE 0
  BY DEF Weights
<1>8. g[f] \in Int /\ k1[f] \in Int
  BY <1>1, <1>4, <1>5, <1>6, SumTakesAny
<1>9. g[f] >= 0
  <2>1. PICK y : SumsUp(y, f, z)
    BY <1>1, <1>4, SumsExist
  <2>2. \A x \in f : z[x] <= w[x]
    BY <1>4
  <2>. HIDE DEF z, w
  <2>3. y[f] \in Int /\ y[f] <= g[f]
    BY <1>1, <1>4, <1>5, <2>1, <2>2, SumsCompare
  <2>4. y[f] = 0
    <3> DEFINE P == {s \in SUBSET f : y[s] = 0}
    <3>0. IsFiniteSet(f) /\ z \in [f -> Int] /\ SumsUp(y, f, z)
      BY <1>1, <1>4, <2>1
    <3>1. y[{}] = 0 /\ \A s \in SUBSET f : \A x \in s : y[s] = y[s \ {x}] + z[x]
      BY <3>0, SumTakesAny
    <3>2. {} \in P
      BY <3>1
    <3>3. ASSUME NEW s \in SUBSET f, s # {}, \A x \in s : s \ {x} \in P PROVE s \in P
      <4>1. PICK x \in s : y[s] = y[s \ {x}] + z[x] /\ y[s \ {x}] = 0
        BY <3>1, <3>3
      <4>2. z[x] = 0
        BY DEF z
      <4>. QED
        BY <4>1, <4>2
    <3>4. \A s \in SUBSET f : s \in P
      <4>. HIDE DEF P
      <4>. QED
        BY <1>1, <3>2, <3>3, InductSets
    <3>. QED
      BY <3>4
  <2>. QED
    BY <1>8, <2>3, <2>4
<1>10. CASE h <= a
  <2>1. \A x \in f : v[x] <= w[x]
    BY <1>1, <1>3, <1>7, <1>10
  <2>. HIDE DEF v, w
  <2>2. k1[f] <= g[f]
    BY <1>1, <1>4, <1>5, <1>6, <2>1, SumsCompare
  <2>. QED
    BY <1>5, <1>6, <1>8, <1>9, <1>10, <2>2
<1>11. CASE ~ (h <= a)
  <2>1. (\A x \in f : w[x] <= v[x]) /\ w[top] < v[top]
    BY <1>1, <1>2, <1>3, <1>7, <1>11
  <2>. HIDE DEF v, w
  <2>2. g[f] < k1[f]
    BY <1>1, <1>2, <1>4, <1>5, <1>6, <2>1, SumsCompare
  <2>. QED
    BY <1>5, <1>6, <1>8, <1>9, <1>11, <2>2
<1>. QED
  BY <1>10, <1>11

ForestInv ==
  /\ forest \in Forest!Forests /\ answer \in Forest!Answers(forest)
  /\ history \in Seq([height : 0..MaxHeight, collected : Nat])
  /\ \A i \in 1..Len(history) :
       history[i].collected = Forest!totalWood(forest, history[i].height)
  /\ queryHeight \in 0..MaxHeight \cup {None}
  /\ feedback.kind \in {"none", "right", "wrong"} /\ Forest!VerdictOfThisForest

LEMMA ForestHolds == Spec => [](area = "forest" => ForestInv)
<1>0. MaxHeight \in Nat
  BY PracticeAssumption DEF PracticeAssumption
<1>. DEFINE S == [height : 0..MaxHeight, collected : Nat]
<1>1. Init => (area = "forest" => ForestInv)
  <2>. SUFFICES ASSUME Forest!Init PROVE ForestInv
    BY Zenon DEF Init
  <2>1. MaxHeight \div 2 \in 0..MaxHeight
    BY <1>0
  <2>. QED
    BY <2>1 DEF Forest!Init, ForestInv, Forest!MID_HEIGHT, Forest!NoFeedback, Forest!VerdictOfThisForest
<1>2. (area = "forest" => ForestInv) /\ [Next]_vars => (area = "forest" => ForestInv)'
  <2>. SUFFICES ASSUME area = "forest" => ForestInv, [Next]_vars, area' = "forest"
                PROVE  ForestInv'
    OBVIOUS
  <2>1. ForestInv /\ [Forest!Next]_(Forest!vars)
    BY Zenon DEF Next, vars, InCoins, InCircle, InCards, InPancakes, InTurn, InBoxes, InForest,
       InStars, InPlan, InWords, InEngine, forestV, shared, Forest!vars
  <2>2. CASE Forest!NewProblem
    <3>1. MaxHeight \div 2 \in 0..MaxHeight
      BY <1>0
    <3>. QED
      BY <2>2, <3>1 DEF Forest!NewProblem, ForestInv, Forest!MID_HEIGHT, Forest!NoFeedback,
         Forest!VerdictOfThisForest
  <2>3. CASE Forest!Reset
    BY <2>1, <2>3 DEF Forest!Reset, ForestInv, Forest!NoFeedback, Forest!VerdictOfThisForest
  <2>4. ASSUME NEW v \in -1..(MaxHeight + 1) \cup {None}, Forest!Slide(v)
        PROVE  ForestInv'
    <3>1. /\ queryHeight' = IF v = None THEN None ELSE Forest!Min({MaxHeight, Forest!Max({0, v})})
          /\ UNCHANGED <<forest, answer, history, feedback>>
      BY <2>4 DEF Forest!Slide
    <3>2. v # None => Forest!Min({MaxHeight, Forest!Max({0, v})}) \in 0..MaxHeight
      <4>1. SUFFICES ASSUME v # None PROVE Forest!Min({MaxHeight, Forest!Max({0, v})}) \in 0..MaxHeight
        OBVIOUS
      <4>2. v \in Int
        BY <4>1, <1>0
      <4>3. Forest!Max({0, v}) = IF 0 >= v THEN 0 ELSE v
        BY <4>2, GreaterOfTwo
      <4>4. Forest!Max({0, v}) \in Nat
        BY <4>2, <4>3
      <4> DEFINE x == Forest!Max({0, v})
      <4>5. x \in Int /\ MaxHeight \in Int /\ x \in Nat
        BY <1>0, <4>4
      <4>. HIDE DEF x
      <4>6. Forest!Min({MaxHeight, x}) = IF MaxHeight <= x THEN MaxHeight ELSE x
        BY <4>5, GreaterOfTwo
      <4>. QED
        BY <1>0, <4>5, <4>6 DEF x
    <3>3. queryHeight' \in 0..MaxHeight \cup {None}
      BY <3>1, <3>2
    <3>. QED
      BY <2>1, <3>1, <3>3 DEF ForestInv, Forest!VerdictOfThisForest
  <2>5. CASE Forest!Cut
    <3> DEFINE h == [height |-> queryHeight, collected |-> Forest!totalWood(forest, queryHeight)]
    <3>1. /\ queryHeight \in 0..MaxHeight /\ history' = Append(history, h)
          /\ UNCHANGED <<forest, answer, queryHeight, feedback>>
      BY <2>5 DEF Forest!Cut
    <3>2. Forest!totalWood(forest, queryHeight) \in Nat
      BY <2>1, <3>1, PracticeAssumption, HighestCollects DEF ForestInv
    <3>3. h \in S /\ h.height = queryHeight
          /\ h.collected = Forest!totalWood(forest, queryHeight)
      BY <3>1, <3>2
    <3>4. history \in Seq(S)
      BY <2>1 DEF ForestInv
    <3>. HIDE DEF S, h
    <3>5. /\ history' \in Seq(S) /\ Len(history') = Len(history) + 1 /\ Len(history) \in Nat
          /\ \A i \in 1..Len(history) : history'[i] = history[i]
          /\ history'[Len(history) + 1] = h
      BY <3>1, <3>3, <3>4, LenProperties, AppendProperties
    <3>6. ASSUME NEW i \in 1..Len(history')
          PROVE  history'[i].collected = Forest!totalWood(forest', history'[i].height)
      <4>1. CASE i = Len(history) + 1
        BY <3>1, <3>3, <3>5, <4>1
      <4>2. CASE i # Len(history) + 1
        <5>1. i \in 1..Len(history) /\ history'[i] = history[i]
          BY <3>5, <4>2
        <5>. QED
          BY <2>1, <3>1, <5>1 DEF ForestInv
      <4>. QED
        BY <4>1, <4>2
    <3>. QED
      BY <2>1, <3>1, <3>5, <3>6 DEF ForestInv, S, Forest!VerdictOfThisForest
  <2>6. ASSUME NEW guess, Forest!CheckAnswer(guess)
        PROVE  ForestInv'
    BY <2>1, <2>6 DEF Forest!CheckAnswer, ForestInv, Forest!VerdictOfThisForest
  <2>7. CASE UNCHANGED Forest!vars
    BY <2>1, <2>7 DEF ForestInv, Forest!vars, Forest!VerdictOfThisForest
  <2>. QED
    BY <2>1, <2>2, <2>3, <2>4, <2>5, <2>6, <2>7 DEF Forest!Next
<1>. QED
  BY <1>1, <1>2, PTL DEF Spec

LEMMA BadgesAreSum ==
  ASSUME NEW s \in SUBSET Nat, IsFiniteSet(s), NEW q \in Nat
  PROVE  \E g : /\ SumsUp(g, s, [h \in s |-> h - q])
                /\ Forest!FoldSet(LAMBDA h, sum : sum + h - q, 0, s) = g[s]
<1> DEFINE w == [h \in s |-> h - q]
           Is(g) == g = [t \in SUBSET s |->
                           IF t = {} THEN 0 ELSE g[t \ {Any(t)}] + Any(t) - q]
           iter == CHOOSE g : Is(g)
<1>1. w \in [s -> Int]
  OBVIOUS
<1>2. \A t \in SUBSET s : t # {} => Any(t) \in Nat /\ w[Any(t)] = Any(t) - q
  BY DEF Any
<1>3. PICK g : SumsUp(g, s, w)
  BY <1>1, SumsExist
<1>4. Is(g)
  <2>1. \A t \in SUBSET s : g[t] \in Int
    BY <1>1, <1>3, SumTakesAny
  <2>2. \A t \in SUBSET s : t # {} =>
          g[t \ {Any(t)}] + w[Any(t)] = g[t \ {Any(t)}] + Any(t) - q
    BY <1>2, <2>1
  <2>. HIDE DEF w
  <2>3. g = [t \in SUBSET s |-> IF t = {} THEN 0 ELSE g[t \ {Any(t)}] + w[Any(t)]]
    BY <1>3 DEF SumsUp
  <2>. QED
    BY <2>2, <2>3
<1>5. Is(iter)
  <2>. HIDE DEF Is
  <2>. QED
    BY <1>4, Zenon
<1>6. Forest!FoldSet(LAMBDA h, sum : sum + h - q, 0, s) = iter[s]
  BY Zenon DEF Forest!FoldSet, Forest!MapThenFoldSet, Any
<1>7. iter[s] = g[s]
  <2> DEFINE P == {t \in SUBSET s : iter[t] = g[t]}
  <2>. HIDE DEF iter
  <2>1. {} \in P
    BY <1>4, <1>5
  <2>2. ASSUME NEW t \in SUBSET s, t # {}, \A x \in t : t \ {x} \in P PROVE t \in P
    <3>1. iter[t \ {Any(t)}] = g[t \ {Any(t)}]
      BY <2>2 DEF Any
    <3>. QED
      BY <1>4, <1>5, <2>2, <3>1
  <2>. HIDE DEF P
  <2>3. \A t \in SUBSET s : t \in P
    BY <2>1, <2>2, InductSets
  <2>. QED
    BY <2>3 DEF P
<1>8. SumsUp(g, s, [h \in s |-> h - q])
  BY <1>3
<1>. QED
  <2>. HIDE DEF iter
  <2>. QED
    BY <1>6, <1>7, <1>8

LEMMA ForestExplains ==
  ASSUME PracticeAssumption, ForestInv
  PROVE  /\ Forest!TypeOK /\ Forest!AnswerIsHighest /\ Forest!VerdictOfThisForest
         /\ Forest!AnswerStaysPossible /\ Forest!BadgesAddUp
<1>1. /\ forest \in SUBSET Nat /\ IsFiniteSet(forest)
      /\ answer \in 1..MaxHeight /\ MaxHeight \in Nat
  BY AnswerBelowTop DEF ForestInv
<1>2. \A h \in 0..MaxHeight :
        /\ Forest!totalWood(forest, h) \in Nat
        /\ Forest!totalWood(forest, h) >= Forest!target <=> h <= answer
  BY HighestCollects DEF ForestInv, Forest!target
<1>3. \A i \in 1..Len(history) :
        /\ i \in DOMAIN history /\ history[i].height \in 0..MaxHeight
        /\ history[i].collected \in Nat
        /\ history[i].collected = Forest!totalWood(forest, history[i].height)
  <2> DEFINE S == [height : 0..MaxHeight, collected : Nat]
  <2>1. history \in Seq(S)
    BY DEF ForestInv
  <2>. HIDE DEF S
  <2>2. DOMAIN history = 1..Len(history) /\ \A i \in 1..Len(history) : history[i] \in S
    BY <2>1, LenProperties, ElementOfSeq
  <2>. QED
    BY <2>2 DEF ForestInv, S
<1>4. DOMAIN history = 1..Len(history) /\ Len(history) \in Nat
  BY LenProperties DEF ForestInv
<1>5. Forest!TypeOK
  BY <1>1, <1>3, <1>4 DEF Forest!TypeOK, ForestInv
<1>6. Forest!AnswerIsHighest
  BY <1>2 DEF Forest!AnswerIsHighest
<1>7. Forest!AnswerStaysPossible
  <2>1. answer \in 0..MaxHeight
    BY <1>1
  <2>. QED
    BY <1>2, <1>3, <2>1 DEF Forest!AnswerStaysPossible, Forest!Possible
<1>8. ASSUME Forest!Badges # {}
      PROVE  Forest!FoldSet(LAMBDA h, sum : sum + h - queryHeight, 0, Forest!Badges)
               = Forest!latest.collected
  <2>1. /\ history # <<>> /\ queryHeight \in 0..MaxHeight
        /\ Forest!latest.height = queryHeight
        /\ Forest!Badges = {h \in forest : h > queryHeight}
    BY <1>8 DEF Forest!Badges, ForestInv
  <2>2. Len(history) \in 1..Len(history)
    BY <1>4, <2>1, EmptySeq DEF ForestInv
  <2>3. Forest!latest.collected = Forest!totalWood(forest, queryHeight)
    BY <1>3, <2>1, <2>2 DEF Forest!latest
  <2> DEFINE q == queryHeight
             w == Weights(forest, q)
             Above(s) == {h \in s : h > q}
             b == [h \in Above(forest) |-> h - q]
  <2>4. q \in Nat /\ Above(forest) \in SUBSET Nat /\ IsFiniteSet(Above(forest))
    <3>1. Above(forest) \in SUBSET forest /\ q \in Nat
      BY <1>1, <2>1
    <3>. HIDE DEF Above
    <3>. QED
      BY <1>1, <3>1, FS_Subset
  <2>5. PICK g : SumsUp(g, forest, w) /\ Forest!totalWood(forest, q) = g[forest]
    BY <1>1, <2>4, WoodIsSum
  <2>6. PICK k1 : /\ SumsUp(k1, Above(forest), b)
                  /\ Forest!FoldSet(LAMBDA h, sum : sum + h - q, 0, Above(forest)) = k1[Above(forest)]
    BY <2>4, BadgesAreSum
  <2>7. w \in [forest -> Int] /\ b \in [Above(forest) -> Int]
    BY <1>1, <2>4 DEF Weights
  <2>8. /\ g[{}] = 0 /\ \A s \in SUBSET forest : g[s] \in Int
        /\ \A s \in SUBSET forest : \A x \in s : g[s] = g[s \ {x}] + w[x]
    <3> DEFINE F == forest
    <3>1. w \in [F -> Int] /\ SumsUp(g, F, w) /\ IsFiniteSet(F)
      BY <1>1, <2>5, <2>7
    <3>. HIDE DEF w, F
    <3>2. Taken(g, F, w)
      BY <3>1, SumIsTaken, Zenon
    <3>. QED
      BY <3>2, Zenon DEF F, Taken
  <2>9. /\ k1[{}] = 0 /\ \A s \in SUBSET Above(forest) : k1[s] \in Int
        /\ \A s \in SUBSET Above(forest) : \A x \in s : k1[s] = k1[s \ {x}] + b[x]
    <3>1. /\ b \in [Above(forest) -> Int] /\ SumsUp(k1, Above(forest), b)
          /\ IsFiniteSet(Above(forest))
      BY <2>4, <2>6, <2>7
    <3>. HIDE DEF b
    <3> DEFINE F == Above(forest)
    <3>2. b \in [F -> Int] /\ SumsUp(k1, F, b) /\ IsFiniteSet(F)
      BY <3>1
    <3>. HIDE DEF F
    <3>3. Taken(k1, F, b)
      BY <3>2, SumIsTaken, Zenon
    <3>. QED
      BY <3>3, Zenon DEF F, Taken
  <2>10. /\ \A x \in forest : w[x] = IF x > q THEN x - q ELSE 0
         /\ \A x \in Above(forest) : b[x] = x - q
    BY DEF Weights
  <2> DEFINE P == {s \in SUBSET forest : g[s] = k1[Above(s)]}
  <2>11. {} \in P
    <3>1. Above({}) = {}
      OBVIOUS
    <3>. QED
      BY <2>8, <2>9, <3>1
  <2>12. ASSUME NEW s \in SUBSET forest, s # {}, \A x \in s : s \ {x} \in P PROVE s \in P
    <3>1. PICK x \in s : TRUE
      BY <2>12
    <3>2. g[s] = g[s \ {x}] + w[x] /\ g[s \ {x}] = k1[Above(s \ {x})]
      BY <2>8, <2>12, <3>1
    <3>3. CASE x > q
      <4>1. Above(s) \in SUBSET Above(forest) /\ x \in Above(s) /\ Above(s \ {x}) = Above(s) \ {x}
        BY <3>1, <3>3
      <4>2. w[x] = x - q /\ b[x] = x - q
        BY <2>10, <3>1, <3>3
      <4>3. k1[Above(s)] = k1[Above(s) \ {x}] + b[x]
        BY <2>9, <4>1
      <4>4. g[s] = k1[Above(s)]
        <5>. HIDE DEF w, b, Above
        <5>. QED
          BY <3>2, <4>1, <4>2, <4>3
      <4>. QED
        BY <4>4
    <3>4. CASE ~ (x > q)
      <4>1. Above(s \ {x}) = Above(s)
        BY <3>1, <3>4
      <4>2. w[x] = 0 /\ g[s \ {x}] \in Int
        BY <2>8, <2>10, <3>1, <3>4
      <4>3. g[s] = k1[Above(s)]
        <5>. HIDE DEF w, b, Above
        <5>. QED
          BY <3>2, <4>1, <4>2
      <4>. QED
        BY <4>3
    <3>. QED
      BY <3>3, <3>4
  <2>13. \A s \in SUBSET forest : s \in P
    <3>. HIDE DEF P
    <3>. QED
      BY <1>1, <2>11, <2>12, InductSets
  <2>14. g[forest] = k1[Above(forest)]
    BY <2>13
  <2>. HIDE DEF w, b, P
  <2>. QED
    BY <2>1, <2>3, <2>5, <2>6, <2>14
<1>9. Forest!BadgesAddUp
  BY <1>8, Zenon DEF Forest!BadgesAddUp
<1>. QED
  BY <1>5, <1>6, <1>7, <1>9 DEF ForestInv
-----------------------------------------------------------------------------
(* What the lines of a map link.                                            *)

Between(D, es) == \A e \in es : e.a \in D /\ e.b \in D
Closed(es, C) == \A e \in es : e.a \in C <=> e.b \in C
More(es, T) == T \cup UNION {{e.a, e.b} : e \in {x \in es : {x.a, x.b} \cap T # {}}}
Closure(es, D, T) == {x \in D : \A C \in SUBSET D : T \subseteq C /\ Closed(es, C) => x \in C}

LEMMA MoreIs ==
  ASSUME NEW es, NEW T
  PROVE  /\ T \subseteq More(es, T)
         /\ \A e \in es : e.a \in T \/ e.b \in T => e.a \in More(es, T) /\ e.b \in More(es, T)
         /\ \A x \in More(es, T) : x \notin T =>
              \E e \in es : (e.a \in T \/ e.b \in T) /\ (x = e.a \/ x = e.b)
  BY Zenon DEF More

LEMMA MoreIsSame ==
  ASSUME NEW es, NEW T
  PROVE  More(es, T) = T <=> Closed(es, T)
<1>1. ASSUME More(es, T) = T, NEW e \in es PROVE e.a \in T <=> e.b \in T
  BY <1>1, MoreIs
<1>2. ASSUME Closed(es, T) PROVE \A x \in More(es, T) : x \in T
  BY <1>2, MoreIs DEF Closed
<1>3. \A x \in T : x \in More(es, T)
  BY MoreIs
<1>. QED
  BY <1>1, <1>2, <1>3, Zenon DEF Closed

\* One step more has the same closure.
LEMMA MoreIsClosed ==
  ASSUME NEW D, NEW es, Between(D, es), NEW T \in SUBSET D
  PROVE  /\ More(es, T) \in SUBSET D
         /\ \A C : T \subseteq C /\ Closed(es, C) => More(es, T) \subseteq C
         /\ Closure(es, D, More(es, T)) = Closure(es, D, T)
         /\ Closed(es, T) => Closure(es, D, T) = T
<1>1. \A x \in More(es, T) : x \in D
  BY MoreIs DEF Between
<1>2. ASSUME NEW C, T \subseteq C, Closed(es, C) PROVE More(es, T) \subseteq C
  BY <1>2, MoreIs DEF Closed
<1>3. T \subseteq More(es, T)
  BY MoreIs
<1>4. \A C \in SUBSET D : Closed(es, C) => (T \subseteq C <=> More(es, T) \subseteq C)
  BY <1>2, <1>3, Zenon
<1>5. Closure(es, D, More(es, T)) = Closure(es, D, T)
  BY <1>4, Zenon DEF Closure
<1>6. Closed(es, T) => Closure(es, D, T) = T
  BY DEF Closure
<1>. QED
  BY <1>1, <1>2, <1>5, <1>6

\* What the recursion of Reach computes.
LEMMA ReachIsClosure ==
  ASSUME NEW D, IsFiniteSet(D), NEW es, Between(D, es), NEW S,
         D = S \cup UNION {{e.a, e.b} : e \in es}
  PROVE  Stars!Reach(S, es) = Closure(es, D, S)
<1> DEFINE g == [T \in SUBSET D |-> Closure(es, D, T)]
           reach == CHOOSE f : f = [T \in SUBSET D |->
             LET more == T \cup UNION {{e.a, e.b} : e \in {x \in es : {x.a, x.b} \cap T # {}}}
             IN IF more = T THEN T ELSE f[more]]
           Is(f) == f = [T \in SUBSET D |-> IF More(es, T) = T THEN T ELSE f[More(es, T)]]
<1>1. Is(g)
  <2>1. ASSUME NEW T \in SUBSET D
        PROVE  g[T] = IF More(es, T) = T THEN T ELSE g[More(es, T)]
    BY MoreIsSame, MoreIsClosed
  <2>2. g = [T \in SUBSET D |-> g[T]]
    OBVIOUS
  <2>. HIDE DEF g
  <2>. QED
    BY <2>1, <2>2
<1>2. Stars!Reach(S, es) = reach[S] /\ S \in SUBSET D
  BY DEF Stars!Reach
<1>3. reach = CHOOSE f : Is(f)
  BY Zenon DEF More
<1>. HIDE DEF g, reach
<1>4. Is(reach)
  <2>. HIDE DEF Is
  <2>. QED
    BY <1>1, <1>3, Zenon
<1>5. \A T \in SUBSET D : reach[T] = IF More(es, T) = T THEN T ELSE reach[More(es, T)]
  BY <1>4
<1>. HIDE DEF Is
<1> DEFINE Rest(T) == Cardinality(D \ T)
           N == {i \in Nat : \A T \in SUBSET D : Rest(T) <= i => reach[T] = Closure(es, D, T)}
<1>6. \A T \in SUBSET D : Rest(T) \in Nat
  BY FS_Difference, FS_CardinalityType
<1>7. ASSUME NEW T \in SUBSET D, More(es, T) # T
      PROVE  More(es, T) \in SUBSET D /\ Rest(More(es, T)) < Rest(T)
  <2>1. More(es, T) \in SUBSET D
    BY MoreIsClosed
  <2>2. T \subseteq More(es, T)
    BY MoreIs
  <2>3. D \ More(es, T) \subseteq D \ T /\ D \ More(es, T) # D \ T
    BY <1>7, <2>1, <2>2
  <2>4. IsFiniteSet(D \ T)
    BY FS_Difference
  <2>5. Rest(More(es, T)) <= Rest(T) /\ Rest(More(es, T)) # Rest(T)
    BY <2>3, <2>4, FS_Subset
  <2>. HIDE DEF Rest
  <2>. QED
    BY <1>6, <2>1, <2>5
<1>. HIDE DEF Rest
<1>8. 0 \in N
  <2>1. ASSUME NEW T \in SUBSET D, Rest(T) <= 0
        PROVE  reach[T] = Closure(es, D, T)
    <3>1. More(es, T) = T
      BY <1>6, <1>7, <2>1
    <3>. QED
      BY <1>5, <3>1, MoreIsSame, MoreIsClosed
  <2>. QED
    BY <2>1
<1>9. ASSUME NEW i \in Nat, i \in N PROVE i + 1 \in N
  <2>1. ASSUME NEW T \in SUBSET D, Rest(T) <= i + 1
        PROVE  reach[T] = Closure(es, D, T)
    <3>1. CASE More(es, T) = T
      BY <1>5, <3>1, MoreIsSame, MoreIsClosed
    <3>2. CASE More(es, T) # T
      <4>1. More(es, T) \in SUBSET D /\ Rest(More(es, T)) <= i
        BY <1>6, <1>7, <2>1, <3>2
      <4>2. reach[More(es, T)] = Closure(es, D, More(es, T))
        BY <1>9, <4>1
      <4>. QED
        BY <1>5, <3>2, <4>2, MoreIsClosed
    <3>. QED
      BY <3>1, <3>2
  <2>. QED
    BY <2>1
<1>. HIDE DEF N
<1>10. \A i \in Nat : i \in N
  BY <1>8, <1>9, Induct, Zenon
<1>11. Rest(S) \in N /\ Rest(S) <= Rest(S)
  BY <1>2, <1>6, <1>10
<1>. QED
  BY <1>2, <1>11 DEF N

\* The stars that are reached are the least set that the lines do not leave.
LEMMA ReachIsLeast ==
  ASSUME NEW D, IsFiniteSet(D), NEW es, Between(D, es), NEW S \in SUBSET D
  PROVE  /\ S \subseteq Stars!Reach(S, es) /\ Stars!Reach(S, es) \subseteq D
         /\ Closed(es, Stars!Reach(S, es))
         /\ \A C : S \subseteq C /\ Closed(es, C) => Stars!Reach(S, es) \subseteq C
<1> DEFINE X == S \cup UNION {{e.a, e.b} : e \in es}
           R == Closure(es, X, S)
<1>1. X \subseteq D /\ S \subseteq X
  BY DEF Between
<1>2. Between(X, es)
  BY DEF Between
<1>3. IsFiniteSet(X)
  BY <1>1, FS_Subset
<1>4. Stars!Reach(S, es) = R
  <2>1. X = S \cup UNION {{e.a, e.b} : e \in es}
    OBVIOUS
  <2>. HIDE DEF X
  <2>. QED
    BY <1>2, <1>3, <2>1, ReachIsClosure
<1>. HIDE DEF X
<1>5. S \subseteq R /\ R \subseteq X
  BY <1>1 DEF Closure
<1>6. Closed(es, R)
  <2>1. ASSUME NEW e \in es PROVE e.a \in R <=> e.b \in R
    <3>1. e.a \in X /\ e.b \in X
      BY <1>2 DEF Between
    <3>2. \A C \in SUBSET X : Closed(es, C) => (e.a \in C <=> e.b \in C)
      BY DEF Closed
    <3>. QED
      BY <3>1, <3>2, Zenon DEF Closure
  <2>. QED
    BY <2>1 DEF Closed
<1>7. ASSUME NEW C, S \subseteq C, Closed(es, C) PROVE R \subseteq C
  <2>1. S \subseteq C \cap X /\ C \cap X \in SUBSET X
    BY <1>1, <1>7
  <2>2. Closed(es, C \cap X)
    BY <1>2, <1>7 DEF Closed, Between
  <2>3. \A x \in R : x \in C \cap X
    BY <2>1, <2>2, Zenon DEF Closure
  <2>. QED
    BY <2>3
<1>. HIDE DEF R
<1>. QED
  BY <1>1, <1>4, <1>5, <1>6, <1>7

\* Being linked is an equivalence, and holds of what every line keeps together.
LEMMA LinksAreEqual ==
  ASSUME NEW D, IsFiniteSet(D), NEW es, Between(D, es)
  PROVE  /\ \A a \in D : Stars!Linked(es, a, a)
         /\ \A a \in D, b \in D : Stars!Linked(es, a, b) => Stars!Linked(es, b, a)
         /\ \A a \in D, b \in D, c \in D :
              Stars!Linked(es, a, b) /\ Stars!Linked(es, b, c) => Stars!Linked(es, a, c)
         /\ \A e \in es : Stars!Linked(es, e.a, e.b)
<1> DEFINE R(a) == Stars!Reach({a}, es)
<1>1. ASSUME NEW a \in D
      PROVE  /\ a \in R(a) /\ R(a) \subseteq D /\ Closed(es, R(a))
             /\ \A C : a \in C /\ Closed(es, C) => R(a) \subseteq C
  <2>1. {a} \in SUBSET D
    OBVIOUS
  <2>2. /\ {a} \subseteq R(a) /\ R(a) \subseteq D /\ Closed(es, R(a))
        /\ \A C : {a} \subseteq C /\ Closed(es, C) => R(a) \subseteq C
    BY <2>1, ReachIsLeast
  <2>. HIDE DEF R
  <2>. QED
    BY <2>2
<1>2. \A a, b : Stars!Linked(es, a, b) <=> b \in R(a)
  BY DEF Stars!Linked
<1>. HIDE DEF R
<1>3. \A a \in D, b \in D : b \in R(a) => R(b) \subseteq R(a)
  BY <1>1
<1>4. \A e \in es : e.a \in D /\ e.b \in D /\ e.b \in R(e.a) /\ e.a \in R(e.b)
  BY <1>1 DEF Between, Closed
<1>5. ASSUME NEW a \in D, NEW b \in D, b \in R(a) PROVE a \in R(b)
  <2> DEFINE C == {x \in D : a \in R(x)}
  <2>1. a \in C
    BY <1>1
  <2>2. Closed(es, C)
    BY <1>3, <1>4 DEF Closed
  <2>3. R(a) \subseteq C
    <3>. HIDE DEF C
    <3>. QED
      BY <1>1, <2>1, <2>2
  <2>. QED
    BY <1>5, <2>3
<1>. QED
  BY <1>1, <1>2, <1>3, <1>4, <1>5

\* What lines that are all among others link, the others do.
LEMMA MoreLinks ==
  ASSUME NEW D, IsFiniteSet(D), NEW es, Between(D, es), NEW fs \in SUBSET es, NEW a \in D, NEW b
  PROVE  Stars!Linked(fs, a, b) => Stars!Linked(es, a, b)
<1>1. Between(D, fs) /\ {a} \in SUBSET D
  BY DEF Between
<1>2. {a} \subseteq Stars!Reach({a}, es) /\ Closed(es, Stars!Reach({a}, es))
  BY <1>1, ReachIsLeast
<1>3. Closed(fs, Stars!Reach({a}, es))
  BY <1>2 DEF Closed
<1>4. Stars!Reach({a}, fs) \subseteq Stars!Reach({a}, es)
  BY <1>1, <1>2, <1>3, ReachIsLeast
<1>. QED
  BY <1>4 DEF Stars!Linked

\* A line more links what it ends link.
Through(es, e, a, b) ==
  \/ Stars!Linked(es, a, b)
  \/ Stars!Linked(es, a, e.a) /\ Stars!Linked(es, e.b, b)
  \/ Stars!Linked(es, a, e.b) /\ Stars!Linked(es, e.a, b)

LEMMA LineLinks ==
  ASSUME NEW D, IsFiniteSet(D), NEW es, Between(D, es), NEW e, e.a \in D, e.b \in D,
         NEW a \in D, NEW b \in D
  PROVE  Stars!Linked(es \cup {e}, a, b) <=> Through(es, e, a, b)
<1> DEFINE es2 == es \cup {e}
           K(x, y) == Stars!Linked(es, x, y)
           K2(x, y) == Stars!Linked(es2, x, y)
<1>1. Between(D, es2) /\ es \in SUBSET es2 /\ e \in es2
  BY DEF Between
<1>2. /\ \A x \in D : K(x, x)
      /\ \A x \in D, y \in D : K(x, y) => K(y, x)
      /\ \A x \in D, y \in D, z \in D : K(x, y) /\ K(y, z) => K(x, z)
      /\ \A f \in es : K(f.a, f.b)
  BY LinksAreEqual
<1>3. /\ \A x \in D, y \in D : K2(x, y) => K2(y, x)
      /\ \A x \in D, y \in D, z \in D : K2(x, y) /\ K2(y, z) => K2(x, z)
      /\ \A f \in es2 : K2(f.a, f.b)
  <2>. HIDE DEF es2
  <2>. QED
    BY <1>1, LinksAreEqual
<1>4. \A x \in D, y \in D : K(x, y) => K2(x, y)
  <2>. HIDE DEF es2
  <2>. QED
    BY <1>1, MoreLinks
<1>5. \A f \in es : f.a \in D /\ f.b \in D
  BY DEF Between
<1> DEFINE Thr(y) == K(a, y) \/ (K(a, e.a) /\ K(e.b, y)) \/ (K(a, e.b) /\ K(e.a, y))
           C == {y \in D : Thr(y)}
<1>6. Through(es, e, a, b) <=> Thr(b)
  BY Zenon DEF Through
<1>7. ASSUME Thr(b) PROVE K2(a, b)
  <2>1. K2(e.a, e.b) /\ K2(e.b, e.a)
    BY <1>1, <1>3
  <2>. HIDE DEF K, K2, es2
  <2>. QED
    BY <1>3, <1>4, <1>7, <2>1, Zenon
<1>8. ASSUME K2(a, b) PROVE Thr(b)
  <2>1. Closed(es2, C)
    <3>1. ASSUME NEW f \in es PROVE f.a \in C <=> f.b \in C
      <4>1. f.a \in D /\ f.b \in D /\ K(f.a, f.b) /\ K(f.b, f.a)
        BY <1>2, <1>5
      <4>2. \A x \in D : K(x, f.a) <=> K(x, f.b)
        <5>. HIDE DEF K
        <5>. QED
          BY <1>2, <4>1, Zenon
      <4>. HIDE DEF K
      <4>. QED
        BY <4>1, <4>2
    <3>2. e.a \in C <=> e.b \in C
      <4>1. K(e.a, e.a) /\ K(e.b, e.b)
        BY <1>2
      <4>. HIDE DEF K
      <4>. QED
        BY <4>1
    <3>. QED
      BY <3>1, <3>2 DEF Closed
  <2>2. a \in C
    <3>1. K(a, a)
      BY <1>2
    <3>. HIDE DEF K
    <3>. QED
      BY <3>1
  <2>3. {a} \in SUBSET D /\ {a} \subseteq C
    BY <2>2
  <2>4. Stars!Reach({a}, es2) \subseteq C
    <3>. HIDE DEF es2, C
    <3>. QED
      BY <1>1, <2>1, <2>3, ReachIsLeast
  <2>. QED
    BY <1>8, <2>4 DEF Stars!Linked
<1>. QED
  BY <1>6, <1>7, <1>8
-----------------------------------------------------------------------------
(* Stars.                                                                   *)

\* The square of a distance on the page, and its rounded root.
LEMMA SquareOnPage ==
  ASSUME NEW x \in -100..100, NEW y \in -100..100
  PROVE  4 * (x * x + y * y) \in Nat /\ 4 * (x * x + y * y) <= 8 * (100 * 100)
<1>1. \A z \in -100..100 : z * z \in Nat /\ z * z <= 100 * 100
  <2>1. ASSUME NEW z \in -100..100 PROVE z * z \in Nat /\ z * z <= 100 * 100
    <3>1. z \in Int /\ 100 - z \in Nat /\ 100 + z \in Nat
      OBVIOUS
    <3>2. \A i, j \in Nat : i * j \in Nat
      OBVIOUS
    <3>3. (100 - z) * (100 + z) = 100 * 100 - z * z
      BY <3>1
    <3>4. (100 - z) * (100 + z) \in Nat
      BY <3>1, <3>2
    <3>5. z * z \in Nat
      BY <3>1
    <3>. QED
      BY <3>3, <3>4, <3>5
  <2>. QED
    BY <2>1
<1>2. x * x \in Nat /\ x * x <= 100 * 100 /\ y * y \in Nat /\ y * y <= 100 * 100
  BY <1>1
<1>3. \A i, j \in Nat : i <= 100 * 100 /\ j <= 100 * 100 => 4 * (i + j) \in Nat /\ 4 * (i + j) <= 8 * (100 * 100)
  OBVIOUS
<1>. QED
  BY <1>2, <1>3, Zenon

LEMMA RootIsRounded ==
  ASSUME NEW d \in Nat, d <= 8 * (100 * 100)
  PROVE  \E r \in 0..200 : d < (2 * r + 1) * (2 * r + 1)
                           /\ (r = 0 \/ (2 * r - 1) * (2 * r - 1) <= d)
<1> DEFINE T == {r \in Nat : d < (2 * r + 1) * (2 * r + 1)}
<1>1. 200 \in T
  OBVIOUS
<1>2. PICK m \in T : \A r \in T : m <= r
  BY <1>1, Least
<1>3. m \in 0..200 /\ d < (2 * m + 1) * (2 * m + 1)
  BY <1>1, <1>2
<1>4. m = 0 \/ (2 * m - 1) * (2 * m - 1) <= d
  <2>1. SUFFICES ASSUME m # 0 PROVE (2 * m - 1) * (2 * m - 1) <= d
    OBVIOUS
  <2>2. m - 1 \in Nat /\ m - 1 \notin T /\ 2 * (m - 1) + 1 = 2 * m - 1
    BY <1>2, <1>3, <2>1
  <2>3. (2 * m - 1) * (2 * m - 1) \in Int
    BY <1>3
  <2>. QED
    BY <2>2, <2>3
<1>. QED
  BY <1>3, <1>4

LEMMA DistanceIsRounded ==
  ASSUME NEW L, NEW a, NEW b, L[a] \in (0..100) \X (0..100), L[b] \in (0..100) \X (0..100)
  PROVE  Stars!starDistance(L, a, b) \in Nat
<1> DEFINE x == L[a][1] - L[b][1]
           y == L[a][2] - L[b][2]
<1>1. x \in -100..100 /\ y \in -100..100
  <2>1. L[a][1] \in 0..100 /\ L[a][2] \in 0..100 /\ L[b][1] \in 0..100 /\ L[b][2] \in 0..100
    BY Zenon
  <2>2. \A i, j \in 0..100 : i - j \in -100..100
    OBVIOUS
  <2>. QED
    BY <2>1, <2>2, Zenon
<1> DEFINE d2 == 4 * (x * x + y * y)
           R(r) == d2 < (2 * r + 1) * (2 * r + 1) /\ (r = 0 \/ (2 * r - 1) * (2 * r - 1) <= d2)
<1>2. Stars!starDistance(L, a, b) = CHOOSE r \in 0..200 : R(r)
  BY Zenon DEF Stars!starDistance
<1>. HIDE DEF x, y
<1>3. d2 \in Nat /\ d2 <= 8 * (100 * 100)
  BY <1>1, SquareOnPage
<1>. HIDE DEF d2
<1>4. \E r \in 0..200 : R(r)
  BY <1>3, RootIsRounded
<1>5. Stars!starDistance(L, a, b) \in 0..200
  <2>. HIDE DEF R
  <2>. QED
    BY <1>2, <1>4, Zenon
<1>. QED
  BY <1>5

LEMMA StarPair ==
  ASSUME NEW a \in Nat, NEW b \in Nat
  PROVE  /\ Stars!Min({a, b}) \in {a, b} /\ Stars!Max({a, b}) \in {a, b}
         /\ a # b => Stars!Min({a, b}) # Stars!Max({a, b})
<1>1. \E m \in {a, b} : \A y \in {a, b} : m <= y
  OBVIOUS
<1>2. \E m \in {a, b} : \A y \in {a, b} : m >= y
  OBVIOUS
<1>3. /\ Stars!Min({a, b}) \in {a, b} /\ \A y \in {a, b} : Stars!Min({a, b}) <= y
      /\ Stars!Max({a, b}) \in {a, b} /\ \A y \in {a, b} : Stars!Max({a, b}) >= y
  BY <1>1, <1>2, Zenon DEF Stars!Min, Stars!Max
<1>. QED
  BY <1>3

Lines(L) == [a : 1..Len(L), b : 1..Len(L), dist : Nat]

\* A walk that follows T from x until it is in H.
Walk(X, H, T, x, k1, s) ==
  /\ k1 \in Nat /\ s \in [0..k1 -> X] /\ s[0] = x /\ s[k1] \in H
  /\ \A i \in 0..k1 - 1 : s[i] \notin H /\ s[i + 1] = T[s[i]]

\* There is one walk at most, and it ends in one place.
LEMMA WalksEndAlike ==
  ASSUME NEW X, NEW H, NEW T, NEW x, NEW k1, NEW s, NEW k2, NEW t,
         Walk(X, H, T, x, k1, s), Walk(X, H, T, x, k2, t)
  PROVE  s[k1] = t[k2]
<1>1. k1 \in Nat /\ k2 \in Nat
  BY DEF Walk
<1> DEFINE S == {i \in Nat : i <= k1 /\ i <= k2 => s[i] = t[i]}
<1>2. 0 \in S
  BY DEF Walk
<1>3. \A i \in Nat : i \in S => i + 1 \in S
  <2>1. SUFFICES ASSUME NEW i \in Nat, i \in S, i + 1 <= k1, i + 1 <= k2 PROVE s[i + 1] = t[i + 1]
    OBVIOUS
  <2>2. s[i] = t[i] /\ i \in 0..k1 - 1 /\ i \in 0..k2 - 1
    BY <1>1, <2>1
  <2>. QED
    BY <2>2 DEF Walk
<1>. HIDE DEF S
<1>4. \A i \in Nat : i \in S
  BY <1>2, <1>3, Induct
<1>5. \A i \in Nat : i <= k1 /\ i <= k2 => s[i] = t[i]
  BY <1>4 DEF S
<1>6. ~ (k1 < k2) /\ ~ (k2 < k1)
  <2>1. ASSUME k1 < k2 PROVE FALSE
    <3>1. k1 \in 0..k2 - 1 /\ s[k1] = t[k1]
      BY <1>1, <1>5, <2>1
    <3>. QED
      BY <3>1 DEF Walk
  <2>2. ASSUME k2 < k1 PROVE FALSE
    <3>1. k2 \in 0..k1 - 1 /\ s[k2] = t[k2]
      BY <1>1, <1>5, <2>2
    <3>. QED
      BY <3>1 DEF Walk
  <2>. QED
    BY <2>1, <2>2
<1>. QED
  BY <1>1, <1>5, <1>6

\* So what is defined by such walks is a function, whether they end or not.
Follows(X, H, T, B, f) ==
  /\ f = [x \in X |-> f[x]]
  /\ \A x \in X : f[x] = IF x \in H THEN B[x] ELSE f[T[x]]

LEMMA WalksDefine ==
  ASSUME NEW X, NEW H, NEW T \in [X -> X], NEW B
  PROVE  \E f : Follows(X, H, T, B, f)
<1> DEFINE ends(x) == \E k1, s : Walk(X, H, T, x, k1, s)
           end(x) == CHOOSE h : \E k1, s : Walk(X, H, T, x, k1, s) /\ h = s[k1]
           f == [x \in X |-> IF ends(x) THEN B[end(x)] ELSE B]
<1>1. ASSUME NEW x, NEW k1, NEW s, Walk(X, H, T, x, k1, s)
      PROVE  end(x) = s[k1]
  <2>1. \E k2, t : Walk(X, H, T, x, k2, t) /\ end(x) = t[k2]
    BY <1>1, Zenon
  <2>. QED
    BY <1>1, <2>1, WalksEndAlike
<1>2. ASSUME NEW x \in X, x \in H PROVE f[x] = B[x]
  <2>1. Walk(X, H, T, x, 0, [i \in 0..0 |-> x])
    BY <1>2 DEF Walk
  <2>2. end(x) = x /\ ends(x)
    BY <1>1, <2>1
  <2>. HIDE DEF end, ends
  <2>. QED
    BY <2>2
<1>3. ASSUME NEW x \in X, x \notin H PROVE f[x] = f[T[x]]
  <2>1. T[x] \in X
    OBVIOUS
  <2>2. ASSUME NEW k1, NEW s, Walk(X, H, T, T[x], k1, s)
        PROVE  ends(x) /\ end(x) = end(T[x])
    <3> DEFINE t == [i \in 0..k1 + 1 |-> IF i = 0 THEN x ELSE s[i - 1]]
    <3>1. k1 \in Nat /\ s \in [0..k1 -> X] /\ s[0] = T[x] /\ s[k1] \in H
          /\ \A i \in 0..k1 - 1 : s[i] \notin H /\ s[i + 1] = T[s[i]]
      BY <2>2 DEF Walk
    <3>2. k1 + 1 \in Nat /\ t[0] = x /\ t[k1 + 1] = s[k1]
      BY <3>1
    <3>3. t \in [0..k1 + 1 -> X]
      BY <3>1
    <3>4. ASSUME NEW i \in 0..(k1 + 1) - 1 PROVE t[i] \notin H /\ t[i + 1] = T[t[i]]
      <4>1. CASE i = 0
        BY <1>3, <3>1, <4>1
      <4>2. CASE i # 0
        <5>1. i - 1 \in 0..k1 - 1 /\ t[i] = s[i - 1] /\ t[i + 1] = s[(i - 1) + 1]
          BY <3>1, <4>2
        <5>. QED
          BY <3>1, <5>1
      <4>. QED
        BY <4>1, <4>2
    <3>5. Walk(X, H, T, x, k1 + 1, t)
      <4>. HIDE DEF t
      <4>. QED
        BY <3>1, <3>2, <3>3, <3>4 DEF Walk
    <3>6. end(x) = t[k1 + 1] /\ end(T[x]) = s[k1]
      BY <1>1, <2>2, <3>5
    <3>. QED
      BY <3>2, <3>5, <3>6
  <2>3. ASSUME NEW k1, NEW s, Walk(X, H, T, x, k1, s)
        PROVE  ends(T[x])
    <3>1. k1 \in Nat /\ s \in [0..k1 -> X] /\ s[0] = x /\ s[k1] \in H
          /\ \A i \in 0..k1 - 1 : s[i] \notin H /\ s[i + 1] = T[s[i]]
      BY <2>3 DEF Walk
    <3>2. k1 - 1 \in Nat
      BY <1>3, <3>1
    <3> DEFINE t == [i \in 0..k1 - 1 |-> s[i + 1]]
    <3>3. t[0] = T[x] /\ t[k1 - 1] = s[k1] /\ t \in [0..k1 - 1 -> X]
      BY <3>1, <3>2
    <3>4. ASSUME NEW i \in 0..(k1 - 1) - 1 PROVE t[i] \notin H /\ t[i + 1] = T[t[i]]
      <4>1. i + 1 \in 0..k1 - 1 /\ t[i] = s[i + 1] /\ t[i + 1] = s[(i + 1) + 1]
        BY <3>1
      <4>. QED
        BY <3>1, <4>1
    <3>. HIDE DEF t
    <3>5. Walk(X, H, T, T[x], k1 - 1, t)
      BY <3>1, <3>2, <3>3, <3>4 DEF Walk
    <3>. QED
      BY <3>5
  <2>4. (ends(x) <=> ends(T[x])) /\ (ends(x) => end(x) = end(T[x]))
    BY <2>2, <2>3, Zenon
  <2>. HIDE DEF ends, end
  <2>. QED
    BY <2>1, <2>4
<1>4. Follows(X, H, T, B, f)
  <2>1. f = [x \in X |-> f[x]]
    OBVIOUS
  <2>. HIDE DEF f
  <2>2. \A x \in X : f[x] = IF x \in H THEN B[x] ELSE f[T[x]]
    BY <1>2, <1>3
  <2>. QED
    BY <2>1, <2>2 DEF Follows
<1>. QED
  BY <1>4

\* Each star leads to the root of its group in so many steps.
Fits(D, p, rank, cls) ==
  /\ p \in [D -> D] /\ rank \in [D -> Nat] /\ cls \in [D -> D]
  /\ \A y \in D : /\ p[cls[y]] = cls[y]
                  /\ p[y] = y => cls[y] = y
                  /\ p[y] # y => rank[p[y]] < rank[y] /\ cls[p[y]] = cls[y]

Roots(D, cls) == {y \in D : cls[y] = y}

\* A path that is halved leads to the same root.
LEMMA HalvedFits ==
  ASSUME NEW D, NEW p, NEW rank, NEW cls, Fits(D, p, rank, cls), NEW y \in D, p[y] # y,
         NEW up, up = p[p[y]]
  PROVE  /\ up \in D /\ rank[up] < rank[y] /\ cls[up] = cls[y]
         /\ Fits(D, [p EXCEPT ![y] = up], rank, cls)
<1>1. /\ p \in [D -> D] /\ rank \in [D -> Nat] /\ cls \in [D -> D]
      /\ \A z \in D : /\ p[cls[z]] = cls[z]
                      /\ p[z] = z => cls[z] = z
                      /\ p[z] # z => rank[p[z]] < rank[z] /\ cls[p[z]] = cls[z]
  BY DEF Fits
<1>2. p[y] \in D /\ up \in D /\ rank[y] \in Nat /\ rank[p[y]] \in Nat /\ rank[up] \in Nat
  BY <1>1
<1>3. rank[p[y]] < rank[y] /\ cls[p[y]] = cls[y]
  BY <1>1
<1>4. rank[up] < rank[y] /\ cls[up] = cls[y]
  <2>1. CASE p[p[y]] = p[y]
    BY <1>3, <2>1
  <2>2. CASE p[p[y]] # p[y]
    BY <1>1, <1>2, <1>3, <2>2
  <2>. QED
    BY <2>1, <2>2
<1>5. up # y
  BY <1>2, <1>4
<1> DEFINE q == [p EXCEPT ![y] = up]
<1>6. q \in [D -> D] /\ q[y] = up /\ \A z \in D : z # y => q[z] = p[z]
  BY <1>1, <1>2
<1>. HIDE DEF q
<1>7. ASSUME NEW z \in D
      PROVE  /\ q[cls[z]] = cls[z]
             /\ q[z] = z => cls[z] = z
             /\ q[z] # z => rank[q[z]] < rank[z] /\ cls[q[z]] = cls[z]
  <2>1. cls[z] \in D /\ p[cls[z]] = cls[z]
    BY <1>1
  <2>2. q[cls[z]] = cls[z]
    BY <1>6, <2>1
  <2>3. CASE z = y
    BY <1>4, <1>5, <1>6, <2>2, <2>3
  <2>4. CASE z # y
    BY <1>1, <1>6, <2>2, <2>4
  <2>. QED
    BY <2>3, <2>4
<1>. QED
  BY <1>1, <1>2, <1>4, <1>6, <1>7 DEF Fits, q

\* findRoot finds it, and leaves the groups as they are.
LEMMA RootIsFound ==
  ASSUME NEW D, NEW p, NEW rank, NEW cls, Fits(D, p, rank, cls), NEW x \in D
  PROVE  /\ Stars!findRoot(p, x).root = cls[x]
         /\ Fits(D, Stars!findRoot(p, x).parent, rank, cls)
<1> DEFINE M == [D -> D]
           X == M \X D
           H == {c \in X : c[1][c[2]] = c[2]}
           T == [c \in X |-> IF c \in H THEN c
                             ELSE <<[c[1] EXCEPT ![c[2]] = c[1][c[1][c[2]]]], c[1][c[1][c[2]]]>>]
           B == [c \in X |-> [root |-> c[2], parent |-> c[1]]]
<1>1. T \in [X -> X]
  OBVIOUS
<1>2. PICK f : Follows(X, H, T, B, f)
  <2>. HIDE DEF X, H, T, B
  <2>. QED
    BY <1>1, WalksDefine, Zenon
<1>3. ASSUME NEW q \in M, NEW y \in D
      PROVE  f[<<q, y>>] = IF q[y] = y THEN [root |-> y, parent |-> q]
                           ELSE f[<<[q EXCEPT ![y] = q[q[y]]], q[q[y]]>>]
  <2> DEFINE c == <<q, y>>
  <2>1. c \in X /\ c[1] = q /\ c[2] = y
    OBVIOUS
  <2>2. f[c] = IF c \in H THEN B[c] ELSE f[T[c]]
    <3>. HIDE DEF X, H, T, B, c
    <3>. QED
      BY <1>2, <2>1 DEF Follows
  <2>3. c \in H <=> q[y] = y
    BY <2>1
  <2>4. B[c] = [root |-> y, parent |-> q]
    BY <2>1
  <2>5. c \notin H => T[c] = <<[q EXCEPT ![y] = q[q[y]]], q[q[y]]>>
    BY <2>1
  <2>. HIDE DEF X, H, T, B
  <2>. QED
    BY <2>2, <2>3, <2>4, <2>5
<1> DEFINE find == CHOOSE g : g = [c \in [DOMAIN p -> DOMAIN p] \X DOMAIN p |->
             LET q == c[1]
                 y == c[2]
                 up == q[q[y]]
             IN IF q[y] = y THEN [root |-> y, parent |-> q] ELSE g[<<[q EXCEPT ![y] = up], up>>]]
<1>4. /\ Stars!findRoot(p, x) = find[<<p, x>>]
      /\ \A q \in M, y \in D :
           find[<<q, y>>] = IF q[y] = y THEN [root |-> y, parent |-> q]
                            ELSE find[<<[q EXCEPT ![y] = q[q[y]]], q[q[y]]>>]
  <2>1. DOMAIN p = D
    BY DEF Fits
  <2>2. f = [c \in M \X D |->
               LET q == c[1]
                   y == c[2]
                   up == q[q[y]]
               IN IF q[y] = y THEN [root |-> y, parent |-> q]
                  ELSE f[<<[q EXCEPT ![y] = up], up>>]]
    <3>1. f = [c \in M \X D |-> f[c]]
      BY <1>2 DEF Follows
    <3>2. ASSUME NEW c \in M \X D
          PROVE  f[c] = IF c[1][c[2]] = c[2] THEN [root |-> c[2], parent |-> c[1]]
                        ELSE f[<<[c[1] EXCEPT ![c[2]] = c[1][c[1][c[2]]]], c[1][c[1][c[2]]]>>]
      <4>1. c[1] \in M /\ c[2] \in D /\ c = <<c[1], c[2]>>
        OBVIOUS
      <4>. HIDE DEF M
      <4>2. f[<<c[1], c[2]>>] = IF c[1][c[2]] = c[2] THEN [root |-> c[2], parent |-> c[1]]
                                ELSE f[<<[c[1] EXCEPT ![c[2]] = c[1][c[1][c[2]]]], c[1][c[1][c[2]]]>>]
        BY <1>3, <4>1, Zenon
      <4>. QED
        BY <4>1, <4>2
    <3>. HIDE DEF M
    <3>. QED
      BY <3>1, <3>2
  <2>3. find = [c \in M \X D |->
               LET q == c[1]
                   y == c[2]
                   up == q[q[y]]
               IN IF q[y] = y THEN [root |-> y, parent |-> q]
                  ELSE find[<<[q EXCEPT ![y] = up], up>>]]
    BY <2>1, <2>2
  <2>4. Stars!findRoot(p, x) = find[<<p, x>>]
    BY DEF Stars!findRoot
  <2>. HIDE DEF find
  <2>5. ASSUME NEW q \in M, NEW y \in D
        PROVE  find[<<q, y>>] = IF q[y] = y THEN [root |-> y, parent |-> q]
                                ELSE find[<<[q EXCEPT ![y] = q[q[y]]], q[q[y]]>>]
    <3> DEFINE c == <<q, y>>
    <3>1. c \in M \X D /\ c[1] = q /\ c[2] = y
      OBVIOUS
    <3>. HIDE DEF M, c
    <3>2. find[c] = IF q[y] = y THEN [root |-> y, parent |-> q]
                    ELSE find[<<[q EXCEPT ![y] = q[q[y]]], q[q[y]]>>]
      BY <2>3, <3>1
    <3>. QED
      BY <3>2 DEF c
  <2>. QED
    BY <2>4, <2>5
<1>. HIDE DEF find, X, H, T, B
<1> DEFINE found(q, y) == /\ find[<<q, y>>].root = cls[y]
                          /\ Fits(D, find[<<q, y>>].parent, rank, cls)
           S == {i \in Nat : \A q \in M, y \in D :
                    Fits(D, q, rank, cls) /\ rank[y] < i => found(q, y)}
<1>5. 0 \in S
  BY DEF Fits
<1>6. \A i \in Nat : i \in S => i + 1 \in S
  <2>1. SUFFICES ASSUME NEW i \in Nat, i \in S, NEW q \in M, NEW y \in D, Fits(D, q, rank, cls),
                        rank[y] < i + 1
                 PROVE  found(q, y)
    OBVIOUS
  <2>2. CASE q[y] = y
    <3>1. find[<<q, y>>] = [root |-> y, parent |-> q]
      BY <1>4, <2>2
    <3>2. cls[y] = y
      BY <2>1, <2>2 DEF Fits
    <3>. QED
      BY <2>1, <3>1, <3>2
  <2>3. CASE q[y] # y
    <3> DEFINE up == q[q[y]]
               q2 == [q EXCEPT ![y] = up]
    <3>1. find[<<q, y>>] = find[<<q2, up>>]
      BY <1>4, <2>3
    <3>2. up \in D /\ rank[up] < rank[y] /\ cls[up] = cls[y] /\ Fits(D, q2, rank, cls)
      BY <2>1, <2>3, HalvedFits
    <3>. HIDE DEF up, q2
    <3>3. q2 \in M /\ rank[up] < i
      BY <2>1, <3>2 DEF Fits
    <3>4. found(q2, up)
      BY <2>1, <3>2, <3>3
    <3>. QED
      BY <3>1, <3>2, <3>4
  <2>. QED
    BY <2>2, <2>3
<1>. HIDE DEF S
<1>7. \A i \in Nat : i \in S
  BY <1>5, <1>6, Induct
<1>8. p \in M /\ rank[x] + 1 \in Nat /\ rank[x] < rank[x] + 1
  BY DEF Fits
<1>9. found(p, x)
  BY <1>7, <1>8 DEF S
<1>. QED
  BY <1>4, <1>9

\* The union of two groups: one root less.
LEMMA GroupsAreJoined ==
  ASSUME NEW D, NEW p, NEW rank, NEW cls, Fits(D, p, rank, cls), NEW e, e.a \in D, e.b \in D,
         cls[e.a] # cls[e.b]
  PROVE  \E rank2, cls2 :
           /\ Fits(D, Stars!Join(p, e), rank2, cls2)
           /\ Roots(D, cls2) = Roots(D, cls) \ {cls[e.a]}
           /\ cls[cls[e.a]] = cls[e.a]
           /\ \A y \in D : cls2[y] = IF cls[y] = cls[e.a] THEN cls[e.b] ELSE cls[y]
<1> DEFINE ra == Stars!findRoot(p, e.a)
           rb == Stars!findRoot(ra.parent, e.b)
           a == cls[e.a]
           b == cls[e.b]
           q == rb.parent
<1>1. ra.root = a /\ Fits(D, ra.parent, rank, cls)
  BY RootIsFound
<1>2. rb.root = b /\ Fits(D, q, rank, cls)
  BY <1>1, RootIsFound
<1>3. Stars!Join(p, e) = [q EXCEPT ![a] = b]
  BY <1>1, <1>2 DEF Stars!Join
<1>. HIDE DEF ra, rb, q
<1>4. /\ q \in [D -> D] /\ rank \in [D -> Nat] /\ cls \in [D -> D]
      /\ \A z \in D : /\ q[cls[z]] = cls[z]
                      /\ q[z] = z => cls[z] = z
                      /\ q[z] # z => rank[q[z]] < rank[z] /\ cls[q[z]] = cls[z]
  BY <1>2 DEF Fits
<1>5. /\ a \in D /\ b \in D /\ a # b /\ q[a] = a /\ q[b] = b
      /\ cls[a] = a /\ cls[b] = b
  <2>1. a \in D /\ b \in D /\ q[a] = a /\ q[b] = b
    BY <1>4
  <2>. QED
    BY <1>4, <2>1
<1> DEFINE q2 == [q EXCEPT ![a] = b]
           rank2 == [y \in D |-> IF cls[y] = a THEN rank[y] + rank[b] + 1 ELSE rank[y]]
           cls2 == [y \in D |-> IF cls[y] = a THEN b ELSE cls[y]]
<1>. HIDE DEF a, b
<1>6. /\ q2 \in [D -> D] /\ q2[a] = b /\ \A y \in D : y # a => q2[y] = q[y]
  BY <1>4, <1>5
<1>7. /\ rank2 \in [D -> Nat] /\ cls2 \in [D -> D]
      /\ \A y \in D : rank2[y] = IF cls[y] = a THEN rank[y] + rank[b] + 1 ELSE rank[y]
      /\ \A y \in D : cls2[y] = IF cls[y] = a THEN b ELSE cls[y]
  BY <1>4, <1>5
<1>8. rank[b] \in Nat /\ \A y \in D : rank[y] \in Nat
  BY <1>4, <1>5
<1>. HIDE DEF q2, rank2, cls2
<1>9. ASSUME NEW y \in D
      PROVE  /\ q2[cls2[y]] = cls2[y]
             /\ q2[y] = y => cls2[y] = y
             /\ q2[y] # y => rank2[q2[y]] < rank2[y] /\ cls2[q2[y]] = cls2[y]
  <2>1. cls[y] \in D /\ q[y] \in D /\ q[cls[y]] = cls[y]
    BY <1>4
  <2>2. q2[cls2[y]] = cls2[y]
    <3>1. CASE cls[y] = a
      BY <1>5, <1>6, <1>7, <3>1
    <3>2. CASE cls[y] # a
      BY <1>6, <1>7, <2>1, <3>2
    <3>. QED
      BY <3>1, <3>2
  <2>3. CASE y = a
    <3>1. q2[y] = b /\ rank2[b] = rank[b] /\ cls2[b] = b /\ cls2[y] = b
          /\ rank2[y] = rank[y] + rank[b] + 1
      BY <1>5, <1>6, <1>7, <2>3
    <3>. QED
      BY <1>5, <1>8, <2>2, <2>3, <3>1
  <2>4. CASE y # a
    <3>1. q2[y] = q[y]
      BY <1>6, <2>4
    <3>2. q2[y] = y => cls2[y] = y
      <4>1. SUFFICES ASSUME q[y] = y PROVE cls2[y] = y
        BY <3>1
      <4>2. cls[y] = y
        BY <1>4, <4>1
      <4>. QED
        BY <1>7, <2>4, <4>2
    <3>3. q2[y] # y => rank2[q2[y]] < rank2[y] /\ cls2[q2[y]] = cls2[y]
      <4>1. SUFFICES ASSUME q[y] # y PROVE rank2[q[y]] < rank2[y] /\ cls2[q[y]] = cls2[y]
        BY <3>1
      <4>2. rank[q[y]] < rank[y] /\ cls[q[y]] = cls[y]
        BY <1>4, <4>1
      <4>3. rank[q[y]] \in Nat /\ rank[y] \in Nat
        BY <1>8, <2>1
      <4>4. CASE cls[y] = a
        <5>1. /\ rank2[q[y]] = rank[q[y]] + rank[b] + 1 /\ rank2[y] = rank[y] + rank[b] + 1
              /\ cls2[q[y]] = b /\ cls2[y] = b
          BY <1>7, <2>1, <4>2, <4>4
        <5>. QED
          BY <1>8, <4>2, <4>3, <5>1
      <4>5. CASE cls[y] # a
        BY <1>7, <2>1, <4>2, <4>5
      <4>. QED
        BY <4>4, <4>5
    <3>. QED
      BY <2>2, <3>2, <3>3
  <2>. QED
    BY <2>3, <2>4
<1>10. Fits(D, q2, rank2, cls2)
  BY <1>6, <1>7, <1>9 DEF Fits
<1>11. Roots(D, cls2) = Roots(D, cls) \ {a}
  BY <1>5, <1>7 DEF Roots
<1>12. Stars!Join(p, e) = q2
  BY <1>3 DEF q2
<1>. QED
  BY <1>5, <1>7, <1>10, <1>11, <1>12 DEF a, b

\* What a fold from the left computes, of the first so many elements.
Folded(base, es, k1, g) ==
  /\ g = [s \in SUBSET (1..k1) |-> g[s]]
  /\ \A s \in SUBSET (1..k1) :
       g[s] = IF s = {} THEN base ELSE Stars!Join(g[s \ {Stars!Max(s)}], es[Stars!Max(s)])

LEMMA LastIsGreatest ==
  ASSUME NEW k1 \in Nat, NEW s \in SUBSET (1..k1 + 1), k1 + 1 \in s
  PROVE  Stars!Max(s) = k1 + 1 /\ s \ {k1 + 1} \in SUBSET (1..k1)
<1>1. k1 + 1 \in s /\ \A y \in s : k1 + 1 >= y
  OBVIOUS
<1>2. Stars!Max(s) \in s /\ \A y \in s : Stars!Max(s) >= y
  BY <1>1, Zenon DEF Stars!Max
<1>3. Stars!Max(s) = k1 + 1
  <2> DEFINE m == Stars!Max(s)
  <2>1. m \in 1..k1 + 1 /\ m >= k1 + 1
    BY <1>1, <1>2
  <2>. HIDE DEF m
  <2>2. m = k1 + 1
    BY <2>1
  <2>. QED
    BY <2>2 DEF m
<1>. QED
  BY <1>3

LEMMA FoldsExist ==
  ASSUME NEW base, NEW es
  PROVE  \A k1 \in Nat : \E g : Folded(base, es, k1, g)
<1> DEFINE S == {k1 \in Nat : \E g : Folded(base, es, k1, g)}
<1>1. 0 \in S
  <2> DEFINE g == [s \in SUBSET (1..0) |-> base]
  <2>1. \A s \in SUBSET (1..0) : s = {}
    OBVIOUS
  <2>2. Folded(base, es, 0, g)
    BY <2>1 DEF Folded
  <2>. QED
    BY <2>2
<1>2. \A k1 \in Nat : k1 \in S => k1 + 1 \in S
  <2>1. SUFFICES ASSUME NEW k1 \in Nat, NEW g, Folded(base, es, k1, g)
                 PROVE  \E h : Folded(base, es, k1 + 1, h)
    OBVIOUS
  <2> DEFINE h == [s \in SUBSET (1..k1 + 1) |->
                     IF k1 + 1 \in s THEN Stars!Join(g[s \ {k1 + 1}], es[k1 + 1]) ELSE g[s]]
  <2>2. \A s \in SUBSET (1..k1) : s \in SUBSET (1..k1 + 1) /\ k1 + 1 \notin s /\ h[s] = g[s]
    OBVIOUS
  <2>3. ASSUME NEW s \in SUBSET (1..k1 + 1)
        PROVE  h[s] = IF s = {} THEN base ELSE Stars!Join(h[s \ {Stars!Max(s)}], es[Stars!Max(s)])
    <3>1. CASE k1 + 1 \in s
      <4>1. Stars!Max(s) = k1 + 1 /\ s \ {k1 + 1} \in SUBSET (1..k1) /\ s # {}
        BY <3>1, LastIsGreatest
      <4>2. h[s \ {k1 + 1}] = g[s \ {k1 + 1}] /\ h[s] = Stars!Join(g[s \ {k1 + 1}], es[k1 + 1])
        BY <2>2, <3>1, <4>1
      <4>. QED
        BY <4>1, <4>2
    <3>2. CASE k1 + 1 \notin s
      <4>1. s \in SUBSET (1..k1)
        BY <3>2
      <4>2. h[s] = g[s] /\ h[s \ {Stars!Max(s)}] = g[s \ {Stars!Max(s)}]
        BY <2>2, <4>1
      <4>3. g[s] = IF s = {} THEN base ELSE Stars!Join(g[s \ {Stars!Max(s)}], es[Stars!Max(s)])
        BY <2>1, <4>1 DEF Folded
      <4>. QED
        BY <4>2, <4>3
    <3>. QED
      BY <3>1, <3>2
  <2>4. h = [s \in SUBSET (1..k1 + 1) |-> h[s]]
    OBVIOUS
  <2>. HIDE DEF h
  <2>. QED
    BY <2>3, <2>4 DEF Folded
<1>. HIDE DEF S
<1>3. \A k1 \in Nat : k1 \in S
  BY <1>1, <1>2, Induct
<1>. QED
  BY <1>3 DEF S

\* One more element.
FoldOf(base, es, k1) ==
  CHOOSE g : g = [s \in SUBSET (1..k1) |->
    IF s = {} THEN base ELSE Stars!Join(g[s \ {Stars!Max(s)}], es[Stars!Max(s)])]

LEMMA FoldIs ==
  ASSUME NEW base, NEW es, NEW k1 \in Nat
  PROVE  Folded(base, es, k1, FoldOf(base, es, k1))
<1>1. PICK g : Folded(base, es, k1, g)
  BY FoldsExist
<1>2. g = [s \in SUBSET (1..k1) |->
             IF s = {} THEN base ELSE Stars!Join(g[s \ {Stars!Max(s)}], es[Stars!Max(s)])]
  BY <1>1 DEF Folded
<1> DEFINE f == FoldOf(base, es, k1)
<1>3. f = [s \in SUBSET (1..k1) |->
             IF s = {} THEN base ELSE Stars!Join(f[s \ {Stars!Max(s)}], es[Stars!Max(s)])]
  BY <1>2 DEF FoldOf
<1>. HIDE DEF f
<1>4. Folded(base, es, k1, f)
  BY <1>3 DEF Folded
<1>. QED
  BY <1>4 DEF f

LEMMA FoldsAgree ==
  ASSUME NEW base, NEW es, NEW es2, NEW k1 \in Nat, NEW k2 \in Nat, k1 <= k2,
         \A i \in 1..k1 : es[i] = es2[i], NEW g, NEW h, Folded(base, es, k1, g), Folded(base, es2, k2, h)
  PROVE  g[1..k1] = h[1..k1]
<1> DEFINE S == {j \in 0..k1 : g[1..j] = h[1..j]}
<1>1. 0 \in S
  <2>1. 1..0 = {} /\ {} \in SUBSET (1..k1) /\ {} \in SUBSET (1..k2)
    OBVIOUS
  <2>2. g[{}] = base /\ h[{}] = base
    BY <2>1 DEF Folded
  <2>. QED
    BY <2>1, <2>2
<1>2. \A j \in 0..k1 : j \in S /\ j < k1 => j + 1 \in S
  <2>1. SUFFICES ASSUME NEW j \in 0..k1, g[1..j] = h[1..j], j < k1
                 PROVE  g[1..j + 1] = h[1..j + 1]
    OBVIOUS
  <2> DEFINE s == 1..j + 1
  <2>2. /\ j \in Nat /\ s \in SUBSET (1..j + 1) /\ j + 1 \in s /\ s \ {j + 1} = 1..j /\ s # {}
        /\ s \in SUBSET (1..k1) /\ s \in SUBSET (1..k2) /\ j + 1 \in 1..k1
    <3>1. j \in Nat /\ j + 1 <= k1 /\ j + 1 <= k2 /\ j + 1 \in 1..k1
      BY <2>1
    <3>2. \A i \in s : i \in 1..k1 /\ i \in 1..k2 /\ i \in 1..j + 1 /\ (i # j + 1 => i \in 1..j)
      BY <3>1
    <3>3. j + 1 \in s /\ \A i \in 1..j : i \in s /\ i # j + 1
      BY <3>1
    <3>. HIDE DEF s
    <3>. QED
      BY <3>1, <3>2, <3>3
  <2>3. Stars!Max(s) = j + 1
    BY <2>2, LastIsGreatest
  <2>. HIDE DEF s
  <2>4. g[s] = Stars!Join(g[1..j], es[j + 1]) /\ h[s] = Stars!Join(h[1..j], es2[j + 1])
    BY <2>2, <2>3 DEF Folded
  <2>5. es[j + 1] = es2[j + 1]
    BY <2>2
  <2>. QED
    BY <2>1, <2>4, <2>5 DEF s
<1>. HIDE DEF S
<1>3. \A j \in 0..k1 : j \in S
  BY <1>1, <1>2, InductTo
<1>. QED
  BY <1>3 DEF S

LEMMA GroupsGrow ==
  ASSUME NEW L, NEW V, NEW es \in Seq(V), NEW e \in V
  PROVE  /\ Stars!Groups(L, <<>>) = Stars!Alone(L)
         /\ Stars!Groups(L, Append(es, e)) = Stars!Join(Stars!Groups(L, es), e)
<1> DEFINE base == Stars!Alone(L)
           es2 == Append(es, e)
<1>1. ASSUME NEW ss \in Seq(V)
      PROVE  Stars!Groups(L, ss) = FoldOf(base, ss, Len(ss))[1..Len(ss)]
  <2>1. DOMAIN ss = 1..Len(ss)
    BY LenProperties
  <2>. QED
    BY <2>1 DEF Stars!Groups, Stars!FoldLeft, Stars!MapThenFoldSet, FoldOf
<1>2. /\ Len(es) \in Nat /\ es2 \in Seq(V) /\ Len(es2) = Len(es) + 1
      /\ \A i \in 1..Len(es) : es[i] = es2[i]
      /\ es2[Len(es) + 1] = e
  BY LenProperties, AppendProperties
<1>. HIDE DEF es2, base
<1> DEFINE f == FoldOf(base, es, Len(es))
           f2 == FoldOf(base, es2, Len(es) + 1)
           k1 == Len(es)
<1>3. Folded(base, es, Len(es), f) /\ Folded(base, es2, Len(es) + 1, f2) /\ Len(es) + 1 \in Nat
      /\ Len(es) <= Len(es) + 1
  BY <1>2, FoldIs
<1>4. Stars!Groups(L, es) = f[1..Len(es)] /\ Stars!Groups(L, es2) = f2[1..Len(es) + 1]
  BY <1>1, <1>2
<1>. HIDE DEF f, f2
<1>5. f[1..Len(es)] = f2[1..Len(es)]
  BY <1>2, <1>3, FoldsAgree
<1>6. f2[1..Len(es) + 1] = Stars!Join(f2[1..Len(es)], es2[Len(es) + 1])
  <2> DEFINE s == 1..k1 + 1
  <2>1. k1 \in Nat /\ s \in SUBSET (1..k1 + 1) /\ k1 + 1 \in s /\ s \ {k1 + 1} = 1..k1 /\ s # {}
    BY <1>2
  <2>2. Stars!Max(s) = k1 + 1
    BY <2>1, LastIsGreatest
  <2>. HIDE DEF s
  <2>3. f2[s] = Stars!Join(f2[1..k1], es2[k1 + 1])
    BY <1>3, <2>1, <2>2 DEF Folded
  <2>. QED
    BY <2>3 DEF s
<1>7. Stars!Groups(L, es2) = Stars!Join(Stars!Groups(L, es), e)
  BY <1>2, <1>4, <1>5, <1>6
<1>8. Stars!Groups(L, <<>>) = base
  <2>1. <<>> \in Seq(V) /\ Len(<<>>) = 0 /\ 0 \in Nat
    BY EmptySeq
  <2>2. Stars!Groups(L, <<>>) = FoldOf(base, <<>>, 0)[1..0] /\ Folded(base, <<>>, 0, FoldOf(base, <<>>, 0))
    BY <1>1, <2>1, FoldIs
  <2>3. 1..0 = {} /\ {} \in SUBSET (1..0)
    OBVIOUS
  <2>. QED
    BY <2>2, <2>3 DEF Folded
<1>. QED
  BY <1>7, <1>8 DEF es2, base

LEMMA LinesAreBetween ==
  ASSUME NEW L, Len(L) \in Nat, NEW es \in Seq(Lines(L))
  PROVE  /\ IsFiniteSet(Stars!Ids(L)) /\ Between(Stars!Ids(L), Stars!Range(es))
         /\ \A e : Stars!Range(Append(es, e)) = Stars!Range(es) \cup {e}
         /\ Stars!Range(<<>>) = {}
<1>1. IsFiniteSet(Stars!Ids(L))
  BY FS_Interval DEF Stars!Ids
<1>2. /\ Len(es) \in Nat /\ DOMAIN es = 1..Len(es)
      /\ \A i \in 1..Len(es) : es[i] \in Lines(L)
  BY ElementOfSeq, LenProperties
<1>3. Between(Stars!Ids(L), Stars!Range(es))
  BY <1>2 DEF Between, Lines, Stars!Ids, Stars!Range
<1>4. ASSUME NEW e PROVE Stars!Range(Append(es, e)) = Stars!Range(es) \cup {e}
  <2> DEFINE es2 == Append(es, e)
  <2>1. /\ DOMAIN es2 = 1..Len(es) + 1
        /\ \A i \in 1..Len(es) : es2[i] = es[i]
        /\ es2[Len(es) + 1] = e
    BY <1>2
  <2>. HIDE DEF es2
  <2>2. \A i : i \in 1..Len(es) + 1 <=> i \in 1..Len(es) \/ i = Len(es) + 1
    BY <1>2
  <2>3. Stars!Range(es2) = Stars!Range(es) \cup {e}
    BY <1>2, <2>1, <2>2 DEF Stars!Range
  <2>. QED
    BY <2>3 DEF es2
<1>5. Stars!Range(<<>>) = {}
  BY DEF Stars!Range
<1>. QED
  BY <1>1, <1>3, <1>4, <1>5

\* The accepted lines leave one group less each, and the groups are what they link.
Grouped(L, es) ==
  \E rank, cls :
    /\ Fits(Stars!Ids(L), Stars!Groups(L, es), rank, cls)
    /\ Cardinality(Roots(Stars!Ids(L), cls)) = Len(L) - Len(es)
    /\ \A a, b \in Stars!Ids(L) : cls[a] = cls[b] <=> Stars!Linked(Stars!Range(es), a, b)

LEMMA NoneIsGrouped ==
  ASSUME NEW L, Len(L) \in Nat
  PROVE  Grouped(L, <<>>)
<1> DEFINE D == Stars!Ids(L)
           rank == [y \in D |-> 0]
           cls == [y \in D |-> y]
<1>1. Stars!Groups(L, <<>>) = [y \in D |-> y]
  <2>1. <<>> \in Seq(Nat) /\ 0 \in Nat
    BY EmptySeq
  <2>. QED
    BY <2>1, GroupsGrow, Zenon DEF Stars!Alone
<1>2. Fits(D, [y \in D |-> y], rank, cls)
  BY DEF Fits
<1>3. Roots(D, cls) = 1..Len(L)
  BY DEF Stars!Ids, Roots
<1>4. Cardinality(1..Len(L)) = Len(L) - Len(<<>>)
  <2>1. Len(L) \in Nat /\ Len(<<>>) = 0
    BY EmptySeq
  <2>2. 1 \in Int /\ Len(L) \in Int
    BY <2>1
  <2>3. Cardinality(1..Len(L)) = IF 1 > Len(L) THEN 0 ELSE Len(L) - 1 + 1
    BY <2>2, FS_Interval, Zenon
  <2>. QED
    BY <2>1, <2>3
<1>6. \A a, b \in D : cls[a] = cls[b] <=> Stars!Linked(Stars!Range(<<>>), a, b)
  <2>1. <<>> \in Seq(Lines(L))
    BY EmptySeq
  <2>2. IsFiniteSet(D) /\ Stars!Range(<<>>) = {} /\ Between(D, {})
    BY <2>1, LinesAreBetween DEF Between
  <2>3. ASSUME NEW a \in D PROVE Stars!Reach({a}, {}) = {a}
    <3>1. {a} \in SUBSET D /\ Closed({}, {a})
      BY DEF Closed
    <3>. QED
      BY <2>2, <3>1, ReachIsLeast
  <2>. QED
    BY <2>2, <2>3 DEF Stars!Linked
<1>. HIDE DEF D, rank, cls
<1>5. Cardinality(Roots(D, cls)) = Len(L) - Len(<<>>)
  BY <1>3, <1>4
<1>. QED
  BY <1>1, <1>2, <1>5, <1>6 DEF Grouped, D

\* A line that is accepted takes one root; so n - 1 lines leave none to take.
LEMMA LineIsGrouped ==
  ASSUME NEW L, Len(L) \in Nat, NEW es \in Seq(Lines(L)), Grouped(L, es),
         NEW e \in Lines(L), NEW a \in Stars!Ids(L), NEW b \in Stars!Ids(L),
         e.a \in {a, b}, e.b \in {a, b}, e.a # e.b, Stars!Apart(Stars!Groups(L, es), a, b)
  PROVE  Grouped(L, Append(es, e)) /\ Len(es) # Len(L) - 1
<1> DEFINE D == Stars!Ids(L)
           p == Stars!Groups(L, es)
<1>1. PICK rank, cls :
        /\ Fits(D, p, rank, cls) /\ Cardinality(Roots(D, cls)) = Len(L) - Len(es)
        /\ \A x, y \in D : cls[x] = cls[y] <=> Stars!Linked(Stars!Range(es), x, y)
  BY DEF Grouped
<1>2. e.a \in D /\ e.b \in D /\ IsFiniteSet(D)
  BY FS_Interval DEF Lines, Stars!Ids
<1>. HIDE DEF D, p
<1>3. cls[a] # cls[b]
  BY <1>1, RootIsFound DEF Stars!Apart, D, p
<1>4. cls[e.a] # cls[e.b]
  BY <1>3
<1>5. PICK rank2, cls2 :
        /\ Fits(D, Stars!Join(p, e), rank2, cls2)
        /\ Roots(D, cls2) = Roots(D, cls) \ {cls[e.a]}
        /\ cls[cls[e.a]] = cls[e.a]
        /\ \A y \in D : cls2[y] = IF cls[y] = cls[e.a] THEN cls[e.b] ELSE cls[y]
  <2>1. Fits(D, p, rank, cls) /\ e.a \in D /\ e.b \in D /\ cls[e.a] # cls[e.b]
    BY <1>1, <1>2, <1>4
  <2>. QED
    BY <2>1, GroupsAreJoined
<1>6. Stars!Groups(L, Append(es, e)) = Stars!Join(p, e)
  BY GroupsGrow DEF p
<1>7. Len(Append(es, e)) = Len(es) + 1 /\ Len(es) \in Nat
  BY AppendProperties, LenProperties
<1> DEFINE R == Roots(D, cls)
           R2 == Roots(D, cls2)
<1>8. IsFiniteSet(R) /\ IsFiniteSet(R2)
  <2>1. R \subseteq D /\ R2 \subseteq D
    BY DEF Roots
  <2>. QED
    BY <1>2, <2>1, FS_Subset
<1>9. cls[e.a] \in R
  BY <1>1, <1>2, <1>5 DEF Fits, Roots
<1>10. Cardinality(R2) = Cardinality(R) - 1
  <2>. HIDE DEF R, R2
  <2>1. R2 = R \ {cls[e.a]}
    BY <1>5 DEF R, R2
  <2>. QED
    BY <1>8, <1>9, <2>1, FS_RemoveElement
<1>11. Cardinality(R2) = Len(L) - Len(Append(es, e))
  <2>. HIDE DEF R, R2
  <2>1. Cardinality(R) = Len(L) - Len(es)
    BY <1>1 DEF R
  <2>. QED
    BY <1>7, <1>10, <2>1
<1>15. \A x, y \in D : cls2[x] = cls2[y] <=> Stars!Linked(Stars!Range(Append(es, e)), x, y)
  <2> DEFINE E == Stars!Range(es)
  <2>1. Between(D, E) /\ Stars!Range(Append(es, e)) = E \cup {e}
    BY LinesAreBetween DEF D
  <2>. HIDE DEF E
  <2>2. ASSUME NEW x \in D, NEW y \in D
        PROVE  cls2[x] = cls2[y] <=> Through(E, e, x, y)
    <3>1. /\ Stars!Linked(E, x, y) <=> cls[x] = cls[y]
          /\ Stars!Linked(E, x, e.a) <=> cls[x] = cls[e.a]
          /\ Stars!Linked(E, x, e.b) <=> cls[x] = cls[e.b]
          /\ Stars!Linked(E, e.a, y) <=> cls[e.a] = cls[y]
          /\ Stars!Linked(E, e.b, y) <=> cls[e.b] = cls[y]
      BY <1>1, <1>2 DEF E
    <3>2. /\ cls2[x] = IF cls[x] = cls[e.a] THEN cls[e.b] ELSE cls[x]
          /\ cls2[y] = IF cls[y] = cls[e.a] THEN cls[e.b] ELSE cls[y]
      BY <1>5
    <3>. QED
      BY <3>1, <3>2 DEF Through
  <2>3. ASSUME NEW x \in D, NEW y \in D
        PROVE  Stars!Linked(E \cup {e}, x, y) <=> Through(E, e, x, y)
    BY <1>2, <2>1, LineLinks
  <2>4. ASSUME NEW x \in D, NEW y \in D
        PROVE  cls2[x] = cls2[y] <=> Stars!Linked(E \cup {e}, x, y)
    BY <2>2, <2>3, Zenon
  <2>. QED
    BY <2>1, <2>4, Zenon
<1>12. Grouped(L, Append(es, e))
  <2>1. Fits(D, Stars!Groups(L, Append(es, e)), rank2, cls2)
    BY <1>5, <1>6
  <2>. QED
    BY <1>11, <1>15, <2>1, Zenon DEF Grouped, D
<1>13. Cardinality(R2) \in Nat \ {0}
  <2>1. cls2[cls2[e.b]] = cls2[e.b] /\ cls2[e.b] \in D
    BY <1>2, <1>5 DEF Fits
  <2>2. cls2[e.b] \in R2
    BY <2>1 DEF Roots
  <2>. HIDE DEF R2
  <2>. QED
    BY <1>8, <2>2, FS_CardinalityType, FS_EmptySet
<1>14. Len(es) # Len(L) - 1
  <2>. HIDE DEF R2
  <2>. QED
    BY <1>7, <1>11, <1>13
<1>. QED
  BY <1>12, <1>14

\* Two stars are apart for findRoot if the lines do not link them.
LEMMA ApartIsUnlinked ==
  ASSUME NEW L, NEW es, Grouped(L, es), NEW a \in Stars!Ids(L), NEW b \in Stars!Ids(L)
  PROVE  Stars!Apart(Stars!Groups(L, es), a, b) <=> ~ Stars!Linked(Stars!Range(es), a, b)
<1> DEFINE D == Stars!Ids(L)
           p == Stars!Groups(L, es)
<1>1. PICK rank, cls :
        /\ Fits(D, p, rank, cls)
        /\ \A x, y \in D : cls[x] = cls[y] <=> Stars!Linked(Stars!Range(es), x, y)
  BY DEF Grouped
<1>. HIDE DEF D, p
<1>2. Stars!findRoot(p, a).root = cls[a] /\ Stars!findRoot(p, b).root = cls[b]
  BY <1>1, RootIsFound DEF D
<1>. QED
  BY <1>1, <1>2 DEF Stars!Apart, D, p

\* One line less than stars: all of them hang together.
LEMMA FinishedIsWhole ==
  ASSUME NEW L, Len(L) \in Nat, NEW es \in Seq(Lines(L)), Grouped(L, es)
  PROVE  Len(es) = Len(L) - 1 <=> Stars!Reach({1}, Stars!Range(es)) = Stars!Ids(L)
<1> DEFINE D == Stars!Ids(L)
           E == Stars!Range(es)
<1>1. PICK rank, cls :
        /\ Fits(D, Stars!Groups(L, es), rank, cls)
        /\ Cardinality(Roots(D, cls)) = Len(L) - Len(es)
        /\ \A x, y \in D : cls[x] = cls[y] <=> Stars!Linked(E, x, y)
  BY DEF Grouped
<1>2. IsFiniteSet(D) /\ Between(D, E) /\ Len(es) \in Nat
  BY LinesAreBetween, LenProperties
<1>3. D = 1..Len(L)
  BY DEF Stars!Ids
<1>. HIDE DEF D, E
<1>4. /\ \A y \in D : cls[y] \in D /\ cls[cls[y]] = cls[y]
      /\ \A y \in D : cls[y] \in Roots(D, cls)
  <2>1. \A y \in D : cls[y] \in D /\ cls[cls[y]] = cls[y]
    BY <1>1 DEF Fits
  <2>. QED
    BY <2>1 DEF Roots
<1> DEFINE R == Stars!Reach({1}, E)
<1>5. 1 \in R /\ (1 \in D => R \subseteq D)
  <2>1. IsFiniteSet(D \cup {1}) /\ Between(D \cup {1}, E) /\ {1} \in SUBSET (D \cup {1})
    BY <1>2, FS_AddElement DEF Between
  <2>2. {1} \subseteq R /\ R \subseteq D \cup {1}
    BY <2>1, ReachIsLeast
  <2>. QED
    BY <2>2
<1>6. \A y : y \in R <=> Stars!Linked(E, 1, y)
  BY DEF Stars!Linked
<1>. HIDE DEF R
<1>7. CASE 1 \notin D
  <2>1. Len(L) = 0
    BY <1>3, <1>7
  <2>. QED
    BY <1>2, <1>5, <1>7, <2>1 DEF R, D, E
<1>8. CASE 1 \in D
  <2>1. Len(es) = Len(L) - 1 <=> Cardinality(Roots(D, cls)) = 1
    <3> DEFINE c == Cardinality(Roots(D, cls))
    <3>1. c = Len(L) - Len(es)
      BY <1>1
    <3>. HIDE DEF c
    <3>2. Len(es) = Len(L) - 1 <=> c = 1
      BY <1>2, <3>1
    <3>. QED
      BY <3>2 DEF c
  <2>2. R = D <=> \A y \in D : cls[y] = cls[1]
    BY <1>1, <1>5, <1>6, <1>8
  <2>3. ASSUME \A y \in D : cls[y] = cls[1] PROVE Cardinality(Roots(D, cls)) = 1
    <3>1. Roots(D, cls) = {cls[1]}
      BY <1>4, <1>8, <2>3 DEF Roots
    <3>. QED
      BY <3>1, FS_Singleton
  <2>4. ASSUME Cardinality(Roots(D, cls)) = 1 PROVE \A y \in D : cls[y] = cls[1]
    <3>1. IsFiniteSet(Roots(D, cls))
      BY <1>2, FS_Subset DEF Roots
    <3>2. PICK r : Roots(D, cls) = {r}
      BY <2>4, <3>1, FS_Singleton
    <3>. QED
      BY <1>4, <1>8, <3>2
  <2>. QED
    BY <2>1, <2>2, <2>3, <2>4 DEF R, D, E
<1>. QED
  BY <1>7, <1>8

\* A line between two stars that are not linked closes no ring.
Ringless(es) ==
  \A i \in DOMAIN es : ~ Stars!Linked(Stars!Range(es) \ {es[i]}, es[i].a, es[i].b)

LEMMA LineClosesNoRing ==
  ASSUME NEW L, Len(L) \in Nat, NEW es \in Seq(Lines(L)), Ringless(es), NEW e \in Lines(L),
         ~ Stars!Linked(Stars!Range(es), e.a, e.b)
  PROVE  Ringless(Append(es, e))
<1> DEFINE D == Stars!Ids(L)
           E == Stars!Range(es)
           es2 == Append(es, e)
<1>1. IsFiniteSet(D) /\ Between(D, E) /\ Stars!Range(es2) = E \cup {e} /\ e.a \in D /\ e.b \in D
  BY LinesAreBetween DEF Lines, Stars!Ids
<1>2. /\ Len(es) \in Nat /\ DOMAIN es = 1..Len(es) /\ DOMAIN es2 = 1..Len(es) + 1
      /\ \A i \in 1..Len(es) : es2[i] = es[i] /\ es[i] \in E
      /\ es2[Len(es) + 1] = e
  BY LenProperties DEF Stars!Range
<1>3. \A i \in DOMAIN es : ~ Stars!Linked(E \ {es[i]}, es[i].a, es[i].b)
  BY DEF Ringless
<1>. HIDE DEF D, E, es2
<1>4. e \notin E
  BY <1>1, LinksAreEqual DEF E
<1>5. ASSUME NEW f \in E, ~ Stars!Linked(E \ {f}, f.a, f.b)
      PROVE  ~ Stars!Linked((E \cup {e}) \ {f}, f.a, f.b)
  <2> DEFINE F == E \ {f}
             K(x, y) == Stars!Linked(F, x, y)
  <2>1. Between(D, F) /\ F \in SUBSET E /\ f.a \in D /\ f.b \in D
    BY <1>1 DEF Between
  <2>2. (E \cup {e}) \ {f} = F \cup {e}
    BY <1>4
  <2>. HIDE DEF F
  <2>3. /\ \A x \in D, y \in D : K(x, y) => K(y, x)
        /\ \A x \in D, y \in D, z \in D : K(x, y) /\ K(y, z) => K(x, z)
    BY <1>1, <2>1, LinksAreEqual
  <2>4. /\ \A x \in D, y \in D : Stars!Linked(E, x, y) => Stars!Linked(E, y, x)
        /\ \A x \in D, y \in D, z \in D : Stars!Linked(E, x, y) /\ Stars!Linked(E, y, z) => Stars!Linked(E, x, z)
        /\ Stars!Linked(E, f.a, f.b)
    BY <1>1, LinksAreEqual
  <2>5. \A x \in D, y \in D : K(x, y) => Stars!Linked(E, x, y)
    BY <1>1, <2>1, MoreLinks
  <2>6. SUFFICES ASSUME Stars!Linked(F \cup {e}, f.a, f.b) PROVE FALSE
    BY <2>2
  <2>7. Through(F, e, f.a, f.b)
    BY <1>1, <2>1, <2>6, LineLinks
  <2>8. \/ K(f.a, e.a) /\ K(e.b, f.b)
        \/ K(f.a, e.b) /\ K(e.a, f.b)
    BY <1>5, <2>7, Zenon DEF Through, F
  <2>9. \/ Stars!Linked(E, f.a, e.a) /\ Stars!Linked(E, e.b, f.b)
        \/ Stars!Linked(E, f.a, e.b) /\ Stars!Linked(E, e.a, f.b)
    <3>. HIDE DEF K
    <3>. QED
      BY <1>1, <2>1, <2>5, <2>8, Zenon
  <2>10. Stars!Linked(E, e.a, e.b)
    BY <1>1, <2>1, <2>4, <2>9
  <2>. QED
    BY <2>10 DEF E
<1>6. ASSUME NEW i \in DOMAIN es2
      PROVE  ~ Stars!Linked((E \cup {e}) \ {es2[i]}, es2[i].a, es2[i].b)
  <2>1. CASE i \in 1..Len(es)
    BY <1>2, <1>3, <1>5, <2>1
  <2>2. CASE i \notin 1..Len(es)
    <3>1. es2[i] = e
      <4>1. i = Len(es) + 1
        BY <1>2, <1>6, <2>2
      <4>. QED
        BY <1>2, <4>1
    <3>2. (E \cup {e}) \ {e} = E
      BY <1>4
    <3>. QED
      BY <3>1, <3>2 DEF E
  <2>. QED
    BY <2>1, <2>2
<1>. QED
  BY <1>1, <1>6 DEF Ringless, es2

LEMMA LineIsTyped ==
  ASSUME NEW L \in Seq((0..100) \X (0..100)), NEW a \in 1..Len(L), NEW b \in 1..Len(L)
  PROVE  LET e == Stars!Edge(L, Stars!Min({a, b}), Stars!Max({a, b})) IN
         /\ e \in Lines(L) /\ e.a \in {a, b} /\ e.b \in {a, b}
         /\ a # b => e.a # e.b
<1>1. \A i \in 1..Len(L) : i \in Nat /\ L[i] \in (0..100) \X (0..100)
  BY ElementOfSeq, LenProperties
<1> DEFINE lo == Stars!Min({a, b})
           hi == Stars!Max({a, b})
<1>2. lo \in {a, b} /\ hi \in {a, b} /\ (a # b => lo # hi)
  BY <1>1, StarPair
<1>. HIDE DEF lo, hi
<1>3. Stars!starDistance(L, lo, hi) \in Nat
  BY <1>1, <1>2, DistanceIsRounded
<1> DEFINE e == Stars!Edge(L, lo, hi)
<1>4. e \in Lines(L) /\ e.a = lo /\ e.b = hi
  BY <1>2, <1>3 DEF Stars!Edge, Lines
<1>. HIDE DEF e
<1>5. e \in Lines(L) /\ e.a \in {a, b} /\ e.b \in {a, b} /\ (a # b => e.a # e.b)
  BY <1>2, <1>4
<1>. QED
  BY <1>5 DEF e, lo, hi

StarsInv ==
  /\ lay \in StarMaps
  /\ edges \in Seq(Lines(lay))
  /\ attempts \in Seq([e : Lines(lay), accepted : BOOLEAN])
  /\ first \in Stars!Ids(lay) \cup {None} /\ second \in Stars!Ids(lay) \cup {None}
  /\ (first = None => second = None) /\ (first # None => first # second)
  /\ timers \subseteq Stars!Timers /\ connecting \in BOOLEAN
  /\ toast \in {"none", "success", "error"}
  /\ Stars!FlashIsRefused /\ Stars!ButtonIsReleased

LEMMA StarsHold == Spec => [](area = "stars" => StarsInv)
<1>0. StarMaps \subseteq Seq((0..100) \X (0..100)) /\ None \notin Nat
  BY PracticeAssumption, Zenon DEF PracticeAssumption
<1>1. Init => (area = "stars" => StarsInv)
  <2>. SUFFICES ASSUME Stars!Init PROVE StarsInv
    BY Zenon DEF Init
  <2>. QED
    BY EmptySeq DEF Stars!Init, StarsInv, Stars!FlashIsRefused, Stars!ButtonIsReleased
<1>2. (area = "stars" => StarsInv) /\ [Next]_vars => (area = "stars" => StarsInv)'
  <2>. SUFFICES ASSUME area = "stars" => StarsInv, [Next]_vars, area' = "stars"
                PROVE  StarsInv'
    OBVIOUS
  <2>1. StarsInv /\ [Stars!Next]_(Stars!vars)
    BY Zenon DEF Next, vars, InCoins, InCircle, InCards, InPancakes, InTurn, InBoxes, InForest,
       InStars, InPlan, InWords, InEngine, starsV, shared, Stars!vars
  <2>2. CASE Stars!NewProblem
    BY <2>2, EmptySeq DEF Stars!NewProblem, Stars!resetTransientUi, StarsInv, Stars!FlashIsRefused,
       Stars!ButtonIsReleased
  <2>3. CASE Stars!Reset
    BY <2>1, <2>3, EmptySeq DEF Stars!Reset, Stars!resetTransientUi, StarsInv, Stars!FlashIsRefused,
       Stars!ButtonIsReleased
  <2>4. ASSUME NEW id \in Stars!Ids(lay), Stars!StarClick(id)
        PROVE  StarsInv'
    <3>1. id # None
      BY <1>0 DEF Stars!Ids
    <3>2. /\ first' \in Stars!Ids(lay) \cup {None} /\ second' \in Stars!Ids(lay) \cup {None}
          /\ (first' = None => second' = None) /\ (first' # None => first' # second')
      BY <2>1, <2>4, <3>1 DEF Stars!StarClick, StarsInv
    <3>. QED
      BY <2>1, <2>4, <3>2 DEF Stars!StarClick, StarsInv, Stars!FlashIsRefused, Stars!ButtonIsReleased
  <2>5. CASE Stars!Connect
    <3> DEFINE e == Stars!Edge(lay, Stars!Min({first, second}), Stars!Max({first, second}))
               acc == Stars!Accepts(first, second)
    <3>1. /\ first \in 1..Len(lay) /\ second \in 1..Len(lay)
          /\ attempts' = Append(attempts, [e |-> e, accepted |-> acc])
          /\ edges' = IF acc THEN Append(edges, e) ELSE edges
          /\ toast' = IF acc THEN "success" ELSE "error"
          /\ flash' = IF acc THEN flash ELSE e
          /\ timers' = timers \cup {"connecting", "toast"} \cup (IF acc THEN {} ELSE {"flash"})
          /\ connecting' = TRUE /\ first' = None /\ second' = None /\ UNCHANGED lay
      BY <2>1, <2>5, Zenon DEF Stars!Connect, Stars!canConnect, Stars!bothSelected, StarsInv, Stars!Ids
    <3>2. e \in Lines(lay)
      BY <1>0, <2>1, <3>1, LineIsTyped DEF StarsInv
    <3>3. acc \in BOOLEAN
      BY DEF Stars!Accepts, Stars!Apart
    <3>. HIDE DEF e, acc
    <3> DEFINE A == [e : Lines(lay), accepted : BOOLEAN]
               t == [e |-> e, accepted |-> acc]
    <3>4. attempts \in Seq(A) /\ t \in A /\ t.e = e /\ t.accepted = acc
      BY <2>1, <3>2, <3>3 DEF StarsInv
    <3>5. edges' \in Seq(Lines(lay))
      BY <2>1, <3>1, <3>2, AppendProperties DEF StarsInv
    <3>6. /\ attempts' = Append(attempts, t) /\ attempts' \in Seq(A)
          /\ \A i \in DOMAIN attempts : i \in DOMAIN attempts' /\ attempts'[i] = attempts[i]
          /\ \E i \in DOMAIN attempts' : attempts'[i] = t
      <4>. HIDE DEF A, t
      <4>1. attempts' = Append(attempts, t)
        BY <3>1 DEF t
      <4>2. /\ attempts' \in Seq(A) /\ Len(attempts') = Len(attempts) + 1
            /\ \A i \in 1..Len(attempts) : attempts'[i] = attempts[i]
            /\ attempts'[Len(attempts) + 1] = t
        BY <3>4, <4>1, AppendProperties
      <4>3. /\ DOMAIN attempts = 1..Len(attempts) /\ DOMAIN attempts' = 1..Len(attempts')
            /\ Len(attempts) \in Nat
        BY <3>4, <4>2, LenProperties
      <4>. QED
        BY <4>1, <4>2, <4>3
    <3>7. Stars!FlashIsRefused'
      <4>1. CASE acc
        BY <2>1, <3>1, <3>6, <4>1 DEF StarsInv, Stars!FlashIsRefused
      <4>2. CASE ~ acc
        BY <3>1, <3>4, <3>6, <4>2 DEF Stars!FlashIsRefused
      <4>. QED
        BY <4>1, <4>2
    <3>8. timers' \subseteq Stars!Timers /\ "connecting" \in timers' /\ toast' \in {"none", "success", "error"}
      BY <2>1, <3>1 DEF StarsInv, Stars!Timers
    <3>. QED
      BY <2>1, <3>1, <3>5, <3>6, <3>7, <3>8 DEF StarsInv, Stars!ButtonIsReleased
  <2>6. ASSUME NEW guess, Stars!CheckAnswer(guess)
        PROVE  StarsInv'
    BY <2>1, <2>6 DEF Stars!CheckAnswer, StarsInv, Stars!FlashIsRefused, Stars!ButtonIsReleased
  <2>7. ASSUME NEW t \in Stars!Timers, Stars!Fire(t)
        PROVE  StarsInv'
    BY <2>1, <2>7 DEF Stars!Fire, StarsInv, Stars!FlashIsRefused, Stars!ButtonIsReleased
  <2>8. CASE UNCHANGED Stars!vars
    BY <2>1, <2>8 DEF StarsInv, Stars!vars, Stars!FlashIsRefused, Stars!ButtonIsReleased
  <2>. QED
    BY <2>1, <2>2, <2>3, <2>4, <2>5, <2>6, <2>7, <2>8 DEF Stars!Next
<1>. QED
  BY <1>1, <1>2, PTL DEF Spec

\* Every line that is accepted joins two groups, and a map that has been checked
\* stays finished: no line can be accepted any more.
StarsJoined == Grouped(lay, edges) /\ Stars!AnswerAfterCheck

LEMMA StarsJoin == Spec => [](area = "stars" => StarsJoined)
<1>0. StarMaps \subseteq Seq((0..100) \X (0..100))
  BY PracticeAssumption, Zenon DEF PracticeAssumption
<1>1. Init => (area = "stars" => StarsJoined)
  <2>. SUFFICES ASSUME Stars!Init PROVE StarsJoined
    BY Zenon DEF Init
  <2>1. lay \in StarMaps /\ edges = <<>> /\ overlay = FALSE
    BY Zenon DEF Stars!Init
  <2>2. Len(lay) \in Nat
    BY <1>0, <2>1, LenProperties
  <2>. QED
    BY <2>1, <2>2, NoneIsGrouped DEF StarsJoined, Stars!AnswerAfterCheck
<1>2. /\ area = "stars" => StarsInv
      /\ area = "stars" => StarsJoined
      /\ [Next]_vars
      => (area = "stars" => StarsJoined)'
  <2>. SUFFICES ASSUME area = "stars" => StarsInv, area = "stars" => StarsJoined, [Next]_vars,
                       area' = "stars"
                PROVE  StarsJoined'
    OBVIOUS
  <2>1. StarsInv /\ StarsJoined /\ [Stars!Next]_(Stars!vars)
    BY Zenon DEF Next, vars, InCoins, InCircle, InCards, InPancakes, InTurn, InBoxes, InForest,
       InStars, InPlan, InWords, InEngine, starsV, shared, Stars!vars
  <2>2. Len(lay) \in Nat /\ \A L \in StarMaps : Len(L) \in Nat
    BY <1>0, <2>1, LenProperties DEF StarsInv
  <2>3. CASE Stars!NewProblem
    <3>1. lay' \in StarMaps /\ edges' = <<>> /\ overlay' = FALSE
      BY <2>3, Zenon DEF Stars!NewProblem, Stars!resetTransientUi
    <3>2. Grouped(lay', <<>>)
      <4> DEFINE L == lay'
      <4>1. Len(L) \in Nat
        BY <2>2, <3>1
      <4>. HIDE DEF L
      <4>2. Grouped(L, <<>>)
        BY <4>1, NoneIsGrouped
      <4>. QED
        BY <4>2 DEF L
    <3>. QED
      BY <3>1, <3>2 DEF StarsJoined, Stars!AnswerAfterCheck
  <2>4. CASE Stars!Reset
    <3>1. lay' = lay /\ edges' = <<>> /\ overlay' = FALSE
      BY <2>4, Zenon DEF Stars!Reset, Stars!resetTransientUi
    <3>. QED
      BY <2>2, <3>1, NoneIsGrouped DEF StarsJoined, Stars!AnswerAfterCheck
  <2>5. CASE Stars!Connect
    <3> DEFINE e == Stars!Edge(lay, Stars!Min({first, second}), Stars!Max({first, second}))
               acc == Stars!Accepts(first, second)
    <3>1. /\ first \in 1..Len(lay) /\ second \in 1..Len(lay) /\ first # second
          /\ edges' = IF acc THEN Append(edges, e) ELSE edges
          /\ UNCHANGED <<lay, feedback, overlay>>
      BY <2>1, <2>5, Zenon DEF Stars!Connect, Stars!canConnect, Stars!bothSelected, StarsInv, Stars!Ids
    <3>2. e \in Lines(lay) /\ e.a \in {first, second} /\ e.b \in {first, second} /\ e.a # e.b
      BY <1>0, <2>1, <3>1, LineIsTyped DEF StarsInv
    <3>3. edges \in Seq(Lines(lay)) /\ Grouped(lay, edges)
      BY <2>1 DEF StarsInv, StarsJoined
    <3>4. acc <=> Stars!Apart(Stars!Groups(lay, edges), first, second)
      BY DEF Stars!Accepts
    <3>. HIDE DEF e, acc
    <3>5. CASE acc
      <4>1. Grouped(lay, Append(edges, e)) /\ Len(edges) # Len(lay) - 1
        BY <2>2, <3>1, <3>2, <3>3, <3>4, <3>5, LineIsGrouped DEF Stars!Ids
      <4>2. ~ overlay
        BY <2>1, <4>1 DEF StarsJoined, Stars!AnswerAfterCheck, Stars!spanningTreeDone, Stars!n
      <4>. QED
        BY <3>1, <3>5, <4>1, <4>2 DEF StarsJoined, Stars!AnswerAfterCheck
    <3>6. CASE ~ acc
      BY <2>1, <3>1, <3>6 DEF StarsJoined, Stars!AnswerAfterCheck, Stars!spanningTreeDone, Stars!n
    <3>. QED
      BY <3>5, <3>6
  <2>6. ASSUME NEW guess, Stars!CheckAnswer(guess)
        PROVE  StarsJoined'
    <3>1. /\ Stars!spanningTreeDone /\ feedback' \in {"right", "wrong"} /\ UNCHANGED <<lay, edges>>
      BY <2>6, Zenon DEF Stars!CheckAnswer
    <3>. QED
      BY <2>1, <3>1 DEF StarsJoined, Stars!AnswerAfterCheck, Stars!spanningTreeDone, Stars!n
  <2>7. CASE UNCHANGED <<lay, edges, feedback, overlay>>
    BY <2>1, <2>7 DEF StarsJoined, Stars!AnswerAfterCheck, Stars!spanningTreeDone, Stars!n
  <2>8. ASSUME NEW id, Stars!StarClick(id) PROVE UNCHANGED <<lay, edges, feedback, overlay>>
    BY <2>8, Zenon DEF Stars!StarClick
  <2>9. ASSUME NEW t, Stars!Fire(t) PROVE UNCHANGED <<lay, edges, feedback, overlay>>
    BY <2>9, Zenon DEF Stars!Fire
  <2>10. CASE UNCHANGED Stars!vars
    BY <2>7, <2>10, Zenon DEF Stars!vars
  <2>. QED
    BY <2>1, <2>3, <2>4, <2>5, <2>6, <2>7, <2>8, <2>9, <2>10 DEF Stars!Next
<1>. QED
  BY <1>1, <1>2, StarsHold, PTL DEF Spec

\* The accepted attempts are the lines; they close no ring, and every attempt was
\* judged by those before it.
StarsJudged ==
  /\ Ringless(edges) /\ Stars!JudgedRightly
  /\ Stars!Range(edges) = {attempts[j].e : j \in {k1 \in DOMAIN attempts : attempts[k1].accepted}}

LEMMA StarsAreJudged == Spec => [](area = "stars" => StarsJudged)
<1>0. StarMaps \subseteq Seq((0..100) \X (0..100))
  BY PracticeAssumption, Zenon DEF PracticeAssumption
<1>1. ASSUME NEW es, NEW ats, es = <<>>, ats = <<>>
      PROVE  /\ Ringless(es)
             /\ Stars!Range(es) = {ats[j].e : j \in {k1 \in DOMAIN ats : ats[k1].accepted}}
             /\ \A i \in DOMAIN ats : FALSE
  BY <1>1 DEF Ringless, Stars!Range
<1>2. Init => (area = "stars" => StarsJudged)
  <2>. SUFFICES ASSUME Stars!Init PROVE StarsJudged
    BY Zenon DEF Init
  <2>1. edges = <<>> /\ attempts = <<>>
    BY Zenon DEF Stars!Init
  <2>. QED
    BY <1>1, <2>1 DEF StarsJudged, Stars!JudgedRightly
<1>3. /\ area = "stars" => StarsInv
      /\ area = "stars" => StarsJoined
      /\ area = "stars" => StarsJudged
      /\ [Next]_vars
      => (area = "stars" => StarsJudged)'
  <2>. SUFFICES ASSUME area = "stars" => StarsInv, area = "stars" => StarsJoined,
                       area = "stars" => StarsJudged, [Next]_vars, area' = "stars"
                PROVE  StarsJudged'
    OBVIOUS
  <2>1. StarsInv /\ StarsJoined /\ StarsJudged /\ [Stars!Next]_(Stars!vars)
    BY Zenon DEF Next, vars, InCoins, InCircle, InCards, InPancakes, InTurn, InBoxes, InForest,
       InStars, InPlan, InWords, InEngine, starsV, shared, Stars!vars
  <2>2. Len(lay) \in Nat
    BY <1>0, <2>1, LenProperties DEF StarsInv
  <2>3. CASE edges' = <<>> /\ attempts' = <<>>
    BY <1>1, <2>3 DEF StarsJudged, Stars!JudgedRightly
  <2>4. CASE UNCHANGED <<edges, attempts>>
    BY <2>1, <2>4 DEF StarsJudged, Stars!JudgedRightly, Ringless
  <2>5. CASE Stars!Connect
    <3> DEFINE e == Stars!Edge(lay, Stars!Min({first, second}), Stars!Max({first, second}))
               acc == Stars!Accepts(first, second)
    <3>1. /\ first \in Stars!Ids(lay) /\ second \in Stars!Ids(lay) /\ first # second
          /\ edges' = IF acc THEN Append(edges, e) ELSE edges
          /\ attempts' = Append(attempts, [e |-> e, accepted |-> acc])
      BY <2>1, <2>5, Zenon DEF Stars!Connect, Stars!canConnect, Stars!bothSelected, StarsInv
    <3>2. e \in Lines(lay) /\ e.a \in {first, second} /\ e.b \in {first, second} /\ e.a # e.b
      BY <1>0, <2>1, <3>1, LineIsTyped DEF StarsInv, Stars!Ids
    <3>3. acc <=> Stars!Apart(Stars!Groups(lay, edges), first, second)
      BY DEF Stars!Accepts
    <3>4. acc \in BOOLEAN
      BY DEF Stars!Accepts, Stars!Apart
    <3>. HIDE DEF e, acc
    <3> DEFINE E == Stars!Range(edges)
    <3>5. edges \in Seq(Lines(lay)) /\ attempts \in Seq([e : Lines(lay), accepted : BOOLEAN])
          /\ Grouped(lay, edges) /\ Ringless(edges)
      BY <2>1 DEF StarsInv, StarsJoined, StarsJudged
    <3>6. IsFiniteSet(Stars!Ids(lay)) /\ Between(Stars!Ids(lay), E)
          /\ Stars!Range(Append(edges, e)) = E \cup {e}
      BY <2>2, <3>5, LinesAreBetween
    <3>7. acc <=> ~ Stars!Linked(E, e.a, e.b)
      <4>1. acc <=> ~ Stars!Linked(E, first, second)
        BY <3>1, <3>3, <3>5, ApartIsUnlinked
      <4>2. Stars!Linked(E, first, second) <=> Stars!Linked(E, second, first)
        BY <3>1, <3>6, LinksAreEqual
      <4>. HIDE DEF E
      <4>. QED
        BY <3>2, <4>1, <4>2
    <3>8. Ringless(edges')
      <4>1. CASE acc
        BY <2>2, <3>1, <3>2, <3>5, <3>7, <4>1, LineClosesNoRing
      <4>2. CASE ~ acc
        BY <3>1, <3>5, <4>2
      <4>. QED
        BY <4>1, <4>2
    <3> DEFINE m == Len(attempts)
               new == [e |-> e, accepted |-> acc]
               Taken1(ats, K1) == {ats[j].e : j \in {k1 \in K1 : ats[k1].accepted}}
    <3>9. /\ m \in Nat /\ DOMAIN attempts = 1..m /\ DOMAIN attempts' = 1..m + 1
          /\ \A j \in 1..m : attempts'[j] = attempts[j]
          /\ attempts'[m + 1] = new
      BY <3>1, <3>5, LenProperties, AppendProperties
    <3>10. new.e = e /\ new.accepted = acc
      OBVIOUS
    <3>11. E = Taken1(attempts, 1..m)
      BY <2>1, <3>9 DEF StarsJudged
    <3>. HIDE DEF m, new
    <3>12. \A i \in 1..m + 1 : /\ 1..(i - 1) \subseteq 1..m
                                /\ Taken1(attempts', 1..(i - 1)) = Taken1(attempts, 1..(i - 1))
      BY <3>9
    <3>13. Stars!Range(edges)' = Taken1(attempts', 1..m + 1)
      <4>1. \A j : j \in 1..m + 1 <=> j \in 1..m \/ j = m + 1
        BY <3>9
      <4>2. Taken1(attempts', 1..m + 1) = IF acc THEN E \cup {e} ELSE E
        <5>. HIDE DEF E
        <5>. QED
          BY <3>9, <3>10, <3>11, <4>1
      <4>. QED
        BY <3>1, <3>6, <4>2
    <3>14. \A i \in 1..m : attempts[i].accepted <=>
             ~ Stars!Linked(Taken1(attempts, 1..(i - 1)), attempts[i].e.a, attempts[i].e.b)
      BY <2>1, <3>9 DEF StarsJudged, Stars!JudgedRightly
    <3>15. ASSUME NEW i \in 1..m + 1
           PROVE  attempts'[i].accepted <=>
             ~ Stars!Linked(Taken1(attempts', 1..(i - 1)), attempts'[i].e.a, attempts'[i].e.b)
      <4>1. Taken1(attempts', 1..(i - 1)) = Taken1(attempts, 1..(i - 1))
        BY <3>12
      <4>. HIDE DEF Taken1
      <4>2. CASE i \in 1..m
        BY <3>9, <3>14, <4>1, <4>2
      <4>3. CASE i \notin 1..m
        <5>1. i = m + 1 /\ 1..(i - 1) = 1..m
          BY <3>9, <4>3
        <5>. QED
          BY <3>7, <3>9, <3>10, <3>11, <4>1, <5>1
      <4>. QED
        BY <4>2, <4>3
    <3>16. Stars!JudgedRightly'
      BY <3>9, <3>15 DEF Stars!JudgedRightly
    <3>. QED
      BY <3>8, <3>9, <3>13, <3>16 DEF StarsJudged
  <2>6. ASSUME Stars!NewProblem \/ Stars!Reset PROVE edges' = <<>> /\ attempts' = <<>>
    BY <2>6, Zenon DEF Stars!NewProblem, Stars!Reset
  <2>7. ASSUME NEW guess, Stars!CheckAnswer(guess) PROVE UNCHANGED <<edges, attempts>>
    BY <2>7, Zenon DEF Stars!CheckAnswer
  <2>8. ASSUME NEW id, Stars!StarClick(id) PROVE UNCHANGED <<edges, attempts>>
    BY <2>8, Zenon DEF Stars!StarClick
  <2>9. ASSUME NEW t, Stars!Fire(t) PROVE UNCHANGED <<edges, attempts>>
    BY <2>9, Zenon DEF Stars!Fire
  <2>10. CASE UNCHANGED Stars!vars
    BY <2>4, <2>10, Zenon DEF Stars!vars
  <2>. QED
    BY <2>1, <2>3, <2>4, <2>5, <2>6, <2>7, <2>8, <2>9, <2>10 DEF Stars!Next
<1>. QED
  BY <1>2, <1>3, StarsHold, StarsJoin, PTL DEF Spec

LEMMA StarsExplain ==
  ASSUME StarsInv, StarsJoined, StarsJudged
  PROVE  /\ Stars!TypeOK /\ Stars!FlashIsRefused /\ Stars!ButtonIsReleased
         /\ Stars!AnswerAfterCheck /\ Stars!JudgedRightly /\ Stars!Tree
<1>0. StarMaps \subseteq Seq((0..100) \X (0..100))
  BY PracticeAssumption, Zenon DEF PracticeAssumption
<1>1. \A i \in DOMAIN edges : edges[i] \in Lines(lay)
  BY ElementOfSeq, LenProperties DEF StarsInv
<1>2. Lines(lay) \subseteq Stars!EdgeType
  BY DEF Lines, Stars!EdgeType
<1>3. Stars!Tree
  <2>1. Len(lay) \in Nat /\ edges \in Seq(Lines(lay)) /\ Grouped(lay, edges)
    BY <1>0, LenProperties DEF StarsInv, StarsJoined
  <2>2. Stars!spanningTreeDone <=> Stars!Reach({1}, Stars!Range(edges)) = Stars!Ids(lay)
    BY <2>1, FinishedIsWhole DEF Stars!spanningTreeDone, Stars!n
  <2>. QED
    BY <2>2 DEF Stars!Tree, StarsJudged, Ringless
<1>. QED
  BY <1>1, <1>2, <1>3 DEF StarsInv, StarsJoined, StarsJudged, Stars!TypeOK

\* The three parts of the map's invariant, together.
LEMMA StarsStand == Spec => [](area = "stars" => StarsInv /\ StarsJoined /\ StarsJudged)
<1>1. /\ area = "stars" => StarsInv
      /\ area = "stars" => StarsJoined
      /\ area = "stars" => StarsJudged
      => (area = "stars" => StarsInv /\ StarsJoined /\ StarsJudged)
  OBVIOUS
<1>. QED
  BY <1>1, StarsHold, StarsJoin, StarsAreJudged, PTL

-----------------------------------------------------------------------------
(* The programs of the activities.                                          *)

Clauses(actions) == [step : Nat, action : actions, sure : BOOLEAN, named : Nat, cond : BOOLEAN]

LEMMA AnswersTyped ==
  ASSUME NEW actions, {"LOOP", "LOOP_MOVE"} \subseteq actions, NEW number \in Nat
  PROVE  /\ \A a \in Even!Answers(actions, number) :
              a \in Clauses(actions \cup {"NONE"}) /\ a.step = number
         /\ \A a \in Truck!Answers(actions, number) :
              a \in Clauses(actions \cup {"NONE"}) /\ a.step = number
<1> DEFINE C(b, s, m, c) ==
             [step |-> number, action |-> b, sure |-> s, named |-> m, cond |-> c]
<1>1. \A b \in actions \cup {"NONE"}, s \in BOOLEAN, m \in Nat, c \in BOOLEAN :
        C(b, s, m, c) \in Clauses(actions \cup {"NONE"}) /\ C(b, s, m, c).step = number
  BY DEF Clauses
<1>2. ASSUME NEW x \in Even!Answers(actions, number)
      PROVE  x \in Clauses(actions \cup {"NONE"}) /\ x.step = number
  <2> DEFINE S1 == {[step |-> number, action |-> a, sure |-> TRUE, named |-> 0, cond |-> FALSE]
                    : a \in actions \ Even!Loops}
             S2 == {[step |-> number, action |-> a, sure |-> TRUE, named |-> k_1, cond |-> TRUE]
                    : a \in Even!Loops, k_1 \in 1..number}
             S3 == {[step |-> number, action |-> a, sure |-> s, named |-> 1, cond |-> FALSE]
                    : a \in {"NONE", "LOOP"}, s \in BOOLEAN}
  <2>1. x \in S1 \cup S2 \cup S3
    BY SMT DEF Even!Answers
  <2>2. \E b \in actions \cup {"NONE"}, s \in BOOLEAN, m \in Nat, c \in BOOLEAN : x = C(b, s, m, c)
    <3>1. CASE x \in S1
      BY <3>1
    <3>2. CASE x \in S2
      <4>1. PICK b \in Even!Loops, m \in 1..number : x = C(b, TRUE, m, TRUE)
        BY <3>2
      <4>2. b \in actions \cup {"NONE"} /\ m \in Nat
        BY DEF Even!Loops
      <4>. QED
        BY <4>1, <4>2
    <3>3. CASE x \in S3
      <4>1. PICK b \in {"NONE", "LOOP"}, s \in BOOLEAN : x = C(b, s, 1, FALSE)
        BY <3>3
      <4>2. b \in actions \cup {"NONE"} /\ 1 \in Nat
        OBVIOUS
      <4>. QED
        BY <4>1, <4>2
    <3>. HIDE DEF S1, S2, S3, C
    <3>. QED
      BY <2>1, <3>1, <3>2, <3>3
  <2>. QED
    BY <1>1, <2>2
<1>3. ASSUME NEW x \in Truck!Answers(actions, number)
      PROVE  x \in Clauses(actions \cup {"NONE"}) /\ x.step = number
  <2> DEFINE S1 == {[step |-> number, action |-> a, sure |-> TRUE, named |-> 0, cond |-> FALSE]
                    : a \in actions \ Truck!Loops}
             S2 == {[step |-> number, action |-> a, sure |-> TRUE, named |-> k_1, cond |-> TRUE]
                    : a \in Truck!Loops, k_1 \in 1..number}
             S3 == {[step |-> number, action |-> a, sure |-> s, named |-> 1, cond |-> FALSE]
                    : a \in {"NONE", "LOOP"}, s \in BOOLEAN}
  <2>1. x \in S1 \cup S2 \cup S3
    BY SMT DEF Truck!Answers
  <2>2. \E b \in actions \cup {"NONE"}, s \in BOOLEAN, m \in Nat, c \in BOOLEAN : x = C(b, s, m, c)
    <3>1. CASE x \in S1
      BY <3>1
    <3>2. CASE x \in S2
      <4>1. PICK b \in Truck!Loops, m \in 1..number : x = C(b, TRUE, m, TRUE)
        BY <3>2
      <4>2. b \in actions \cup {"NONE"} /\ m \in Nat
        BY DEF Truck!Loops
      <4>. QED
        BY <4>1, <4>2
    <3>3. CASE x \in S3
      <4>1. PICK b \in {"NONE", "LOOP"}, s \in BOOLEAN : x = C(b, s, 1, FALSE)
        BY <3>3
      <4>2. b \in actions \cup {"NONE"} /\ 1 \in Nat
        OBVIOUS
      <4>. QED
        BY <4>1, <4>2
    <3>. HIDE DEF S1, S2, S3, C
    <3>. QED
      BY <2>1, <3>1, <3>2, <3>3
  <2>. QED
    BY <1>1, <2>2
<1>. QED
  BY <1>2, <1>3

\* A sequence grows by one element.
LEMMA AppendIs ==
  ASSUME NEW S, NEW s \in Seq(S), NEW x \in S
  PROVE  /\ Append(s, x) \in Seq(S) /\ Len(s) \in Nat /\ Len(Append(s, x)) = Len(s) + 1
         /\ \A i \in 1..Len(s) : Append(s, x)[i] = s[i]
         /\ Append(s, x)[Len(s) + 1] = x
BY LenProperties, AppendProperties

\* The sentences of the two activities.
EvenWords == Even!EVEN_ACTIONS \cup {"NONE"}
TruckWords == Truck!TRUCK_ACTIONS \cup {"NONE"}

EvenInv ==
  answers \in Seq(Clauses(EvenWords)) /\ \A i \in 1..Len(answers) : answers[i].step \in 1..i
TruckInv ==
  answers \in Seq(Clauses(TruckWords)) /\ \A i \in 1..Len(answers) : answers[i].step = i

LEMMA EvenHolds == Spec => [](area = "even" => EvenInv)
<1>1. Init => (area = "even" => EvenInv)
  <2>. SUFFICES ASSUME Even!Init PROVE EvenInv
    BY Zenon DEF Init
  <2>. QED
    BY EmptySeq DEF Even!Init, EvenInv
<1>2. (area = "even" => EvenInv) /\ [Next]_vars => (area = "even" => EvenInv)'
  <2>. SUFFICES ASSUME area = "even" => EvenInv, [Next]_vars, area' = "even"
                PROVE  EvenInv'
    OBVIOUS
  <2>1. EvenInv /\ (Even!Next \/ UNCHANGED answers)
    BY Zenon DEF Next, vars, InCoins, InCircle, InCards, InPancakes, InTurn, InBoxes, InForest,
       InStars, InPlan, InWords, InEngine, planV, shared
  <2>2. ASSUME NEW number \in 1..(Len(answers) + 1), Even!Interpret(number)
        PROVE  EvenInv'
    <3>1. PICK a \in Even!Answers(Even!EVEN_ACTIONS, number) : answers' = Append(answers, a)
      BY <2>2, Zenon DEF Even!Interpret
    <3>2. answers \in Seq(Clauses(EvenWords)) /\ Len(answers) \in Nat
      BY <2>1, LenProperties DEF EvenInv
    <3>3. a \in Clauses(EvenWords) /\ a.step = number
      <4>1. {"LOOP", "LOOP_MOVE"} \subseteq Even!EVEN_ACTIONS /\ number \in Nat
        BY <3>2 DEF Even!EVEN_ACTIONS
      <4>. QED
        BY <3>1, <4>1, AnswersTyped DEF EvenWords
    <3>4. /\ answers' \in Seq(Clauses(EvenWords)) /\ Len(answers') = Len(answers) + 1
          /\ \A i \in 1..Len(answers) : answers'[i] = answers[i]
          /\ answers'[Len(answers) + 1] = a
      BY <3>1, <3>2, <3>3, AppendIs
    <3>5. ASSUME NEW i \in 1..Len(answers') PROVE answers'[i].step \in 1..i
      <4>1. CASE i = Len(answers) + 1
        BY <3>2, <3>3, <3>4, <4>1
      <4>2. CASE i # Len(answers) + 1
        <5>1. i \in 1..Len(answers)
          BY <3>2, <3>4, <4>2
        <5>. QED
          BY <2>1, <3>4, <5>1 DEF EvenInv
      <4>. QED
        BY <4>1, <4>2
    <3>. QED
      BY <3>4, <3>5 DEF EvenInv
  <2>3. answers # <<>> => /\ Len(answers) \in 1..Len(answers)
                          /\ answers[Len(answers)].step \in 1..Len(answers)
    <3>1. answers \in Seq(Clauses(EvenWords)) /\ Len(answers) \in Nat
      BY <2>1, LenProperties DEF EvenInv
    <3>2. answers # <<>> => Len(answers) \in 1..Len(answers)
      BY <3>1, EmptySeq
    <3>. QED
      BY <2>1, <3>2 DEF EvenInv
  <2>4. Len(answers) \in Nat
    BY <2>1, LenProperties DEF EvenInv
  <2>5. CASE answers # <<>> /\ Even!Interpret(answers[Len(answers)].step)
    BY <2>2, <2>3, <2>4, <2>5
  <2>6. CASE Even!Interpret(IF answers = <<>> THEN 1 ELSE answers[Len(answers)].step + 1)
    <3> DEFINE number == IF answers = <<>> THEN 1 ELSE answers[Len(answers)].step + 1
    <3>1. number \in 1..(Len(answers) + 1)
      BY <2>3, <2>4
    <3>2. Even!Interpret(number)
      BY <2>6
    <3>. HIDE DEF number
    <3>. QED
      BY <2>2, <3>1, <3>2
  <2>7. CASE Even!Rewrite
    BY <2>7, EmptySeq DEF Even!Rewrite, EvenInv
  <2>8. CASE UNCHANGED answers
    BY <2>1, <2>8 DEF EvenInv
  <2>. QED
    BY <2>1, <2>5, <2>6, <2>7, <2>8 DEF Even!Next
<1>. QED
  BY <1>1, <1>2, PTL DEF Spec

LEMMA EvenIsGraded ==
  ASSUME EvenInv
  PROVE  Even!TypeOK /\ Even!NoneWithheldGraded
<1>1. \A i \in DOMAIN answers : i \in 1..Len(answers) /\ answers[i] \in Clauses(EvenWords)
  BY LenProperties, ElementOfSeq DEF EvenInv
<1>2. Even!TypeOK
  <2>1. \A a \in Clauses(EvenWords) : a.action \in EvenWords
    BY DEF Clauses
  <2>. QED
    BY <1>1, <2>1 DEF Even!TypeOK, EvenInv, EvenWords
<1>3. Even!NoneWithheldGraded
  BY Zenon DEF Even!NoneWithheldGraded, Even!Graded, Even!Plan
<1>. QED
  BY <1>2, <1>3

LEMMA TruckHolds == Spec => [](area = "truck" => TruckInv)
<1>. DEFINE acts == {"CHECK", "LOAD", "LOAD_IF_FITS", "DEPART_IF_OVER", "DEPART_LOAD_IF_OVER",
              "LOAD_OR_DEPART_LOAD", "CHECK_TRUCK_COUNT", "DEPART", "ADD_TRUCK", "MOVE",
              "LOOP_MOVE", "LOOP", "OUTPUT"}
<1>1. Init => (area = "truck" => TruckInv)
  <2>. SUFFICES ASSUME Truck!Init PROVE TruckInv
    BY Zenon DEF Init
  <2>. QED
    BY EmptySeq DEF Truck!Init, TruckInv
<1>2. (area = "truck" => TruckInv) /\ [Next]_vars => (area = "truck" => TruckInv)'
  <2>. SUFFICES ASSUME area = "truck" => TruckInv, [Next]_vars, area' = "truck"
                PROVE  TruckInv'
    OBVIOUS
  <2>1. TruckInv /\ (Truck!Next \/ UNCHANGED answers)
    BY Zenon DEF Next, vars, InCoins, InCircle, InCards, InPancakes, InTurn, InBoxes, InForest,
       InStars, InPlan, InWords, InEngine, planV, shared
  <2>2. answers \in Seq(Clauses(TruckWords)) /\ Len(answers) \in Nat
    BY <2>1, LenProperties DEF TruckInv
  <2>3. CASE Truck!Interpret(IF answers = <<>> THEN 1 ELSE answers[Len(answers)].step + 1)
    <3> DEFINE number == IF answers = <<>> THEN 1 ELSE answers[Len(answers)].step + 1
    <3>1. number = Len(answers) + 1
      <4>1. answers = <<>> => Len(answers) = 0
        BY EmptySeq
      <4>2. answers # <<>> => Len(answers) \in 1..Len(answers)
        BY <2>2, EmptySeq
      <4>. QED
        BY <2>1, <2>2, <4>1, <4>2 DEF TruckInv
    <3>2. Truck!Interpret(number)
      BY <2>3
    <3>. HIDE DEF number
    <3>3. PICK a \in Truck!Answers(acts, number) : answers' = Append(answers, a)
      BY <3>2, Zenon DEF Truck!Interpret
    <3>4. a \in Clauses(TruckWords) /\ a.step = number
      <4>1. {"LOOP", "LOOP_MOVE"} \subseteq acts /\ number \in Nat /\ Truck!TRUCK_ACTIONS = acts
        BY <2>2, <3>1 DEF Truck!TRUCK_ACTIONS
      <4>. HIDE DEF acts
      <4>. QED
        BY <3>3, <4>1, AnswersTyped DEF TruckWords
    <3>5. /\ answers' \in Seq(Clauses(TruckWords)) /\ Len(answers') = Len(answers) + 1
          /\ \A i \in 1..Len(answers) : answers'[i] = answers[i]
          /\ answers'[Len(answers) + 1] = a
      BY <2>2, <3>3, <3>4, AppendIs
    <3>6. ASSUME NEW i \in 1..Len(answers') PROVE answers'[i].step = i
      <4>1. CASE i = Len(answers) + 1
        BY <3>1, <3>4, <3>5, <4>1
      <4>2. CASE i # Len(answers) + 1
        <5>1. i \in 1..Len(answers)
          BY <2>2, <3>5, <4>2
        <5>. QED
          BY <2>1, <3>5, <5>1 DEF TruckInv
      <4>. QED
        BY <4>1, <4>2
    <3>. QED
      BY <3>5, <3>6 DEF TruckInv
  <2>4. CASE Truck!Rewrite
    BY <2>4, EmptySeq DEF Truck!Rewrite, TruckInv
  <2>5. CASE UNCHANGED answers
    BY <2>1, <2>5 DEF TruckInv
  <2>. QED
    BY <2>1, <2>3, <2>4, <2>5 DEF Truck!Next
<1>. QED
  BY <1>1, <1>2, PTL DEF Spec

LEMMA TruckIsTyped ==
  ASSUME TruckInv
  PROVE  Truck!TypeOK
<1>1. \A i \in DOMAIN answers : i \in 1..Len(answers) /\ answers[i] \in Clauses(TruckWords)
  BY LenProperties, ElementOfSeq DEF TruckInv
<1>2. \A a \in Clauses(TruckWords) : a.action \in TruckWords
  BY DEF Clauses
<1>. QED
  BY <1>1, <1>2 DEF Truck!TypeOK, TruckInv, TruckWords
-----------------------------------------------------------------------------
(* The engine.                                                              *)

ScanLoops == [step : Nat, start : Nat, seen : SUBSET Engine!States, before : Engine!States]
Reasons == {"unclear", "impossible", "loop", "budget", "endless", "error"}
Results == [executable : BOOLEAN, correct : BOOLEAN \cup {None},
            failedStep : Nat \cup {None},
            reason : {"unclear", "impossible", "loop", "budget", "endless", "error",
                      "NO_OUTPUT", None}]
Entries == [step : Nat, ok : BOOLEAN, before : Engine!States, after : Engine!States,
            closes : BOOLEAN, round : BOOLEAN]

\* The state an entry begins with, and the entry after which the rounds before
\* it began.
After(tr, i) == IF i = 0 THEN Engine!initialState ELSE tr[i].after
RoundsOnly(tr, i, j) == \A m \in j + 1..i - 1 : tr[m].round
Entered(tr, i) == LET rounds == {j \in 0..i - 1 : RoundsOnly(tr, i, j)}
                  IN CHOOSE j \in rounds : \A other \in rounds : j <= other

LEMMA EnteredIsFirst ==
  ASSUME NEW tr, NEW i \in Nat \ {0}
  PROVE  /\ Entered(tr, i) \in 0..i - 1 /\ RoundsOnly(tr, i, Entered(tr, i))
         /\ \A j \in 0..i - 1 : RoundsOnly(tr, i, j) => Entered(tr, i) <= j
<1> DEFINE T == {j \in 0..i - 1 : RoundsOnly(tr, i, j)}
<1>1. T \subseteq Nat /\ i - 1 \in T
  BY DEF RoundsOnly
<1>. HIDE DEF T
<1>2. \E m \in T : \A y \in T : m <= y
  BY <1>1, Least
<1>3. Entered(tr, i) = CHOOSE j \in T : \A other \in T : j <= other
  BY Zenon DEF Entered, T
<1>4. Entered(tr, i) \in T /\ \A y \in T : Entered(tr, i) <= y
  BY <1>2, <1>3, Zenon
<1>. QED
  BY <1>4 DEF T

LEMMA EnteredIs ==
  ASSUME NEW tr, NEW i \in Nat \ {0}, NEW k1 \in 0..i - 1, RoundsOnly(tr, i, k1),
         \A j \in 0..i - 1 : RoundsOnly(tr, i, j) => k1 <= j
  PROVE  Entered(tr, i) = k1
<1>1. /\ Entered(tr, i) \in 0..i - 1 /\ RoundsOnly(tr, i, Entered(tr, i))
      /\ \A j \in 0..i - 1 : RoundsOnly(tr, i, j) => Entered(tr, i) <= j
  BY EnteredIsFirst
<1>2. Entered(tr, i) <= k1 /\ k1 <= Entered(tr, i)
  BY <1>1
<1>. QED
  BY <1>1, <1>2

\* One entry more.
Added(tr, e, t2) ==
  /\ t2 \in Seq(Entries) /\ Len(tr) \in Nat /\ Len(t2) = Len(tr) + 1
  /\ \A i \in 1..Len(tr) : t2[i] = tr[i]
  /\ t2[Len(tr) + 1] = e
  /\ \A i \in 0..Len(tr) : After(t2, i) = After(tr, i)
  /\ \A i \in 1..Len(tr) + 1 : Entered(t2, i) = Entered(tr, i)
  /\ Entered(t2, Len(tr) + 2) =
       IF e.round THEN Entered(tr, Len(tr) + 1) ELSE Len(tr) + 1

LEMMA EntryIsAdded ==
  ASSUME NEW tr \in Seq(Entries), NEW e \in Entries, NEW t2, t2 = Append(tr, e)
  PROVE  Added(tr, e, t2)
<1> DEFINE L == Len(tr)
<1>1. /\ t2 \in Seq(Entries) /\ L \in Nat /\ Len(t2) = L + 1
      /\ \A i \in 1..L : t2[i] = tr[i] /\ t2[L + 1] = e
  BY LenProperties, AppendProperties
<1>. HIDE DEF L
<1>2. \A i \in 0..L : After(t2, i) = After(tr, i)
  BY <1>1 DEF After
<1>3. ASSUME NEW i \in 1..L + 1 PROVE Entered(t2, i) = Entered(tr, i)
  <2>1. \A j \in 0..i - 1 : RoundsOnly(t2, i, j) <=> RoundsOnly(tr, i, j)
    BY <1>1 DEF RoundsOnly
  <2>2. i \in Nat \ {0}
    BY <1>1
  <2>. QED
    BY <2>1, <2>2, EnteredIsFirst, EnteredIs
<1>4. t2[L + 1] = e
  BY AppendProperties DEF L
<1>5. L + 2 \in Nat \ {0} /\ L + 1 \in Nat \ {0} /\ (L + 2) - 1 = L + 1 /\ (L + 1) - 1 = L
  BY <1>1
<1>6. CASE e.round
  <2> DEFINE k1 == Entered(tr, L + 1)
  <2>1. /\ k1 \in 0..L /\ RoundsOnly(tr, L + 1, k1)
        /\ \A j \in 0..L : RoundsOnly(tr, L + 1, j) => k1 <= j
    <3>1. /\ k1 \in 0..(L + 1) - 1 /\ RoundsOnly(tr, L + 1, k1)
          /\ \A j \in 0..(L + 1) - 1 : RoundsOnly(tr, L + 1, j) => k1 <= j
      BY <1>5, EnteredIsFirst
    <3>. QED
      BY <1>5, <3>1
  <2>. HIDE DEF k1
  <2>2. RoundsOnly(t2, L + 2, k1)
    BY <1>1, <1>4, <1>6, <2>1 DEF RoundsOnly
  <2>3. \A j \in 0..L + 1 : RoundsOnly(t2, L + 2, j) => k1 <= j
    <3>1. \A j \in 0..L : RoundsOnly(t2, L + 2, j) => RoundsOnly(tr, L + 1, j)
      BY <1>1 DEF RoundsOnly
    <3>. QED
      BY <1>1, <2>1, <3>1
  <2>4. k1 \in 0..(L + 2) - 1 /\ \A j \in 0..(L + 2) - 1 : RoundsOnly(t2, L + 2, j) => k1 <= j
    BY <1>1, <1>5, <2>1, <2>3
  <2>5. Entered(t2, L + 2) = k1
    BY <1>5, <2>2, <2>4, EnteredIs
  <2>. QED
    BY <1>1, <1>2, <1>3, <1>4, <1>6, <2>5 DEF Added, L, k1
<1>7. CASE ~ e.round
  <2>1. RoundsOnly(t2, L + 2, L + 1)
    BY <1>1 DEF RoundsOnly
  <2>2. \A j \in 0..L + 1 : RoundsOnly(t2, L + 2, j) => L + 1 <= j
    BY <1>1, <1>4, <1>7 DEF RoundsOnly
  <2>3. L + 1 \in 0..(L + 2) - 1 /\ \A j \in 0..(L + 2) - 1 : RoundsOnly(t2, L + 2, j) => L + 1 <= j
    BY <1>1, <1>5, <2>2
  <2>4. Entered(t2, L + 2) = L + 1
    BY <1>5, <2>1, <2>3, EnteredIs
  <2>. QED
    BY <1>1, <1>2, <1>3, <1>4, <1>7, <2>4 DEF Added, L
<1>. QED
  BY <1>6, <1>7

\* What the engine is given, and where it is.
EngineAt ==
  /\ program \in EnginePrograms /\ service \in {"mock", "jev"} /\ numbers \in EngineBoxes
  /\ at \in {"clause", "head", "end"} /\ result \in Results \cup {None} /\ (at = "end") = (result # None)
  /\ step \in 1..Len(program) /\ clause \in 1..Len(Engine!texts)
  /\ st \in Engine!States /\ st.index \in 1..Len(numbers)
  /\ loop \in ScanLoops \cup {None}
  /\ loop # None => /\ loop.step \in 1..Len(program) /\ loop.start \in 1..loop.step - 1
                    /\ step \in loop.start..loop.step
                    /\ at = "clause" => step # loop.step
  /\ at = "head" => loop # None /\ step = loop.step

\* The record so far.
EngineLog ==
  /\ trace \in Seq(Entries) /\ st = After(trace, Len(trace))
  /\ \A i \in 1..Len(trace) :
       IF trace[i].closes
         THEN trace[i].before = After(trace, Entered(trace, i)) /\ trace[i].after = After(trace, i - 1)
         ELSE trace[i].before = After(trace, i - 1) /\ (trace[i].ok \/ trace[i].after = trace[i].before)
  /\ at # "end" =>
       /\ \A i \in 1..Len(trace) : trace[i].ok
       /\ loop = None => Entered(trace, Len(trace) + 1) = Len(trace)
       /\ loop # None => loop.before = After(trace, Entered(trace, Len(trace) + 1))

\* Nothing is noted or submitted but what was read.
Read(tr, v) == v # None => \E i \in 1..Len(tr) : tr[i].ok /\ tr[i].after.value = v
Submitted(tr) == \E i \in 1..Len(tr) : tr[i].after.output # tr[i].before.output
EngineKnows ==
  /\ at # "end" => Read(trace, st.value)
  /\ Read(trace, st.memo) /\ Read(trace, st.output)
  /\ st.output # None => Submitted(trace)

\* What was spent.
EngineCosts ==
  /\ calls \in Nat /\ evaluations \in 0..EngineBudget /\ calls <= EngineBudget + 1
  /\ at # "end" => calls <= evaluations

\* The verdict is that of the end.
EngineEnds ==
  /\ Engine!VerdictIsRecorded
  /\ Engine!Verdict /\ result.executable => st.output # None /\ result.correct = (st.output = Engine!trueMax)

EngineInv == EngineAt /\ EngineLog /\ EngineKnows /\ EngineCosts /\ EngineEnds

LEMMA EngineGiven ==
  ASSUME PracticeAssumption
  PROVE  /\ None \notin Nat /\ None \notin BOOLEAN /\ None \notin Results /\ None \notin ScanLoops
         /\ EngineBudget \in Nat
         /\ \A boxes \in EngineBoxes :
              Len(boxes) \in Nat \ {0} /\ \A i \in 1..Len(boxes) : boxes[i] \in Nat
         /\ \A prog \in EnginePrograms :
              /\ Len(prog) \in Nat \ {0}
              /\ \A i \in 1..Len(prog) : Len(prog[i].texts) \in Nat \ {0}
<1> DEFINE S == [texts : Seq(STRING) \ {<<>>},
                 loop : [counted : BOOLEAN, refs : Seq(Nat), ends : BOOLEAN]]
<1>1. /\ None \notin Nat /\ None \notin BOOLEAN /\ None \notin Results /\ None \notin ScanLoops
      /\ EngineBudget \in Nat /\ EngineBoxes \subseteq Seq(Nat) \ {<<>>}
      /\ EnginePrograms \subseteq Seq(S) \ {<<>>}
  BY Zenon DEF PracticeAssumption, Results, ScanLoops
<1>2. \A T : \A s \in Seq(T) \ {<<>>} : Len(s) \in Nat \ {0} /\ \A i \in 1..Len(s) : s[i] \in T
  BY EmptySeq, LenProperties, ElementOfSeq
<1>3. ASSUME NEW boxes \in EngineBoxes
      PROVE  Len(boxes) \in Nat \ {0} /\ \A i \in 1..Len(boxes) : boxes[i] \in Nat
  BY <1>1, <1>2
<1>4. ASSUME NEW prog \in EnginePrograms
      PROVE  Len(prog) \in Nat \ {0} /\ \A i \in 1..Len(prog) : Len(prog[i].texts) \in Nat \ {0}
  <2>1. prog \in Seq(S) \ {<<>>}
    BY <1>1
  <2>2. \A s \in S : s.texts \in Seq(STRING) \ {<<>>}
    OBVIOUS
  <2>. HIDE DEF S
  <2>3. Len(prog) \in Nat \ {0} /\ \A i \in 1..Len(prog) : prog[i] \in S
    BY <1>2, <2>1
  <2>. QED
    BY <1>2, <2>2, <2>3
<1>. QED
  BY <1>1, <1>3, <1>4

\* An action keeps the state of the boxes typed, and what it does to it.
LEMMA ActionIsApplied ==
  ASSUME PracticeAssumption, EngineAt, NEW a, Engine!appliesWhen(a, numbers, st),
         a # "REPEAT_STUDENT_STEPS", NEW to, to = Engine!applyProblemAction(a, numbers, st)
  PROVE  /\ to \in Engine!States /\ to.index \in 1..Len(numbers)
         /\ to.memo \in {st.memo, st.value} /\ to.output \in {st.output, st.memo}
         /\ to.memo # st.memo => st.value # None
         /\ to.value \in {None, st.value} \/ a = "CHECK_SELECTED_BOX"
<1>1. None \notin Nat /\ Len(numbers) \in Nat /\ \A i \in 1..Len(numbers) : numbers[i] \in Nat
  BY EngineGiven DEF EngineAt
<1>2. PICK i0 \in 1..Len(numbers), v0 \in Nat \cup {None}, m0 \in Nat \cup {None}, o0 \in Nat \cup {None} :
        st = [index |-> i0, value |-> v0, memo |-> m0, output |-> o0]
  BY DEF EngineAt, Engine!States
<1>3. CASE a = "MOVE_LEFT_BOX"
  <2>1. to = [st EXCEPT !.index = st.index - 1, !.value = None] /\ st.index > 1
    BY <1>3, Zenon DEF Engine!applyProblemAction, Engine!moved, Engine!appliesWhen
  <2> DEFINE j == i0 - 1
  <2>2. st.index = i0 /\ j \in 1..Len(numbers) /\ j \in Nat
    BY <1>1, <1>2, <2>1
  <2>3. to = [st EXCEPT !.index = j, !.value = None]
    BY <2>1, <2>2
  <2>. HIDE DEF j
  <2>4. to = [index |-> j, value |-> None, memo |-> m0, output |-> o0]
    BY <1>2, <2>3
  <2>. QED
    BY <1>2, <2>2, <2>4 DEF Engine!States
<1>4. CASE a = "MOVE_RIGHT_BOX"
  <2>1. to = [st EXCEPT !.index = st.index + 1, !.value = None] /\ st.index < Len(numbers)
    BY <1>4, Zenon DEF Engine!applyProblemAction, Engine!moved, Engine!appliesWhen
  <2> DEFINE j == i0 + 1
  <2>2. st.index = i0 /\ j \in 1..Len(numbers) /\ j \in Nat
    BY <1>1, <1>2, <2>1
  <2>3. to = [st EXCEPT !.index = j, !.value = None]
    BY <2>1, <2>2
  <2>. HIDE DEF j
  <2>4. to = [index |-> j, value |-> None, memo |-> m0, output |-> o0]
    BY <1>2, <2>3
  <2>. QED
    BY <1>2, <2>2, <2>4 DEF Engine!States
<1>5. CASE a = "CHECK_SELECTED_BOX"
  <2>1. to = [st EXCEPT !.value = numbers[st.index]]
    BY <1>5, Zenon DEF Engine!applyProblemAction
  <2>2. to = [index |-> i0, value |-> numbers[i0], memo |-> m0, output |-> o0] /\ numbers[i0] \in Nat
    BY <1>1, <1>2, <2>1
  <2>. QED
    BY <1>2, <1>5, <2>2 DEF Engine!States
<1>6. CASE a = "WRITE_MEMO"
  <2>1. to = [st EXCEPT !.memo = st.value] /\ st.value # None
    BY <1>6, Zenon DEF Engine!applyProblemAction, Engine!appliesWhen
  <2>2. to = [index |-> i0, value |-> v0, memo |-> v0, output |-> o0] /\ v0 # None
    BY <1>1, <1>2, <2>1
  <2>. QED
    BY <1>2, <2>2 DEF Engine!States
<1>7. CASE a = "UPDATE_MEMO_IF_GREATER"
  <2>1. /\ to = IF st.value > st.memo THEN [st EXCEPT !.memo = st.value] ELSE st
        /\ st.value # None
    BY <1>7, Zenon DEF Engine!applyProblemAction, Engine!appliesWhen
  <2>2. CASE st.value > st.memo
    <3>1. to = [index |-> i0, value |-> v0, memo |-> v0, output |-> o0] /\ v0 # None
      BY <1>2, <2>1, <2>2
    <3>. QED
      BY <1>2, <3>1 DEF Engine!States
  <2>3. CASE ~ (st.value > st.memo)
    BY <1>2, <2>1, <2>3 DEF Engine!States
  <2>. QED
    BY <2>2, <2>3
<1>8. CASE a = "SUBMIT_ANSWER"
  <2>1. to = [st EXCEPT !.output = st.memo]
    BY <1>8, Zenon DEF Engine!applyProblemAction
  <2>2. to = [index |-> i0, value |-> v0, memo |-> m0, output |-> m0]
    BY <1>1, <1>2, <2>1
  <2>. QED
    BY <1>2, <2>2 DEF Engine!States
<1>. QED
  BY <1>3, <1>4, <1>5, <1>6, <1>7, <1>8, Zenon DEF Engine!appliesWhen

\* What a step that writes an entry adds to the record.
Pushed(ok, before, closes) ==
  /\ trace' \in Seq(Entries) /\ Len(trace) \in Nat /\ Len(trace') = Len(trace) + 1
  /\ \A i \in 1..Len(trace) : trace'[i] = trace[i]
  /\ trace'[Len(trace) + 1].step = step /\ trace'[Len(trace) + 1].ok = ok
  /\ trace'[Len(trace) + 1].before = before /\ trace'[Len(trace) + 1].after = st'
  /\ trace'[Len(trace) + 1].closes = closes
  /\ \A i \in 0..Len(trace) : After(trace', i) = After(trace, i)
  /\ After(trace', Len(trace) + 1) = st'
  /\ \A i \in 1..Len(trace) + 1 : Entered(trace', i) = Entered(trace, i)
  /\ Entered(trace', Len(trace) + 2) =
       IF loop # None /\ step # loop.step THEN Entered(trace, Len(trace) + 1)
       ELSE Len(trace) + 1
  /\ Entered(trace, Len(trace) + 1) \in 0..Len(trace)

LEMMA EntryIsPushed ==
  ASSUME PracticeAssumption, EngineAt, EngineLog, NEW ok \in BOOLEAN, NEW closes \in BOOLEAN,
         NEW before \in Engine!States, st' \in Engine!States, Engine!pushTrace(ok, before, closes)
  PROVE  Pushed(ok, before, closes)
<1> DEFINE r == IF loop = None THEN FALSE ELSE step # loop.step
           e == [step |-> step, ok |-> ok, before |-> before, after |-> st', closes |-> closes,
                 round |-> r]
<1>1. trace' = Append(trace, e)
  BY DEF Engine!pushTrace, Engine!Entry
<1>2. trace \in Seq(Entries)
  BY DEF EngineLog
<1>3. step \in Nat
  BY EngineGiven DEF EngineAt
<1>4. r \in BOOLEAN /\ (r <=> loop # None /\ step # loop.step)
  OBVIOUS
<1>. HIDE DEF r
<1>5. /\ e \in Entries /\ e.step = step /\ e.ok = ok /\ e.before = before /\ e.after = st'
      /\ e.closes = closes /\ e.round = r
  BY <1>3, <1>4 DEF Entries
<1>. HIDE DEF e
<1>6. /\ trace' \in Seq(Entries) /\ Len(trace) \in Nat /\ Len(trace') = Len(trace) + 1
      /\ \A i \in 1..Len(trace) : trace'[i] = trace[i]
      /\ trace'[Len(trace) + 1] = e
      /\ \A i \in 0..Len(trace) : After(trace', i) = After(trace, i)
      /\ \A i \in 1..Len(trace) + 1 : Entered(trace', i) = Entered(trace, i)
      /\ Entered(trace', Len(trace) + 2) =
           IF e.round THEN Entered(trace, Len(trace) + 1) ELSE Len(trace) + 1
  <2>1. trace \in Seq(Entries) /\ e \in Entries /\ trace' = Append(trace, e)
    BY <1>1, <1>2, <1>5
  <2>2. Added(trace, e, trace')
    BY <2>1, EntryIsAdded, Zenon
  <2>. QED
    BY <2>2 DEF Added
<1>7. After(trace', Len(trace) + 1) = st'
  BY <1>5, <1>6 DEF After
<1>8. Entered(trace, Len(trace) + 1) \in 0..Len(trace)
  <2>1. Len(trace) + 1 \in Nat \ {0} /\ (Len(trace) + 1) - 1 = Len(trace)
    BY <1>6
  <2>2. Entered(trace, Len(trace) + 1) \in 0..(Len(trace) + 1) - 1
    BY <2>1, EnteredIsFirst
  <2>. QED
    BY <2>1, <2>2
<1>9. Entered(trace', Len(trace) + 2) =
        IF loop # None /\ step # loop.step THEN Entered(trace, Len(trace) + 1) ELSE Len(trace) + 1
  BY <1>4, <1>5, <1>6
<1>. QED
  BY <1>5, <1>6, <1>7, <1>8, <1>9 DEF Pushed

\* The record stays explained when the entry that is added is.
LEMMA LogIsKept ==
  ASSUME PracticeAssumption, EngineAt, EngineLog, NEW ok \in BOOLEAN, NEW closes \in BOOLEAN,
         NEW before \in Engine!States, st' \in Engine!States, Engine!pushTrace(ok, before, closes),
         at # "end",
         IF closes THEN loop # None /\ before = loop.before /\ st' = st
                   ELSE before = st /\ (ok \/ st' = st)
  PROVE  /\ trace' \in Seq(Entries) /\ st' = After(trace', Len(trace'))
         /\ \A i \in 1..Len(trace') :
              IF trace'[i].closes
                THEN trace'[i].before = After(trace', Entered(trace', i))
                     /\ trace'[i].after = After(trace', i - 1)
                ELSE trace'[i].before = After(trace', i - 1)
                     /\ (trace'[i].ok \/ trace'[i].after = trace'[i].before)
         /\ ok => \A i \in 1..Len(trace') : trace'[i].ok
<1> DEFINE L == Len(trace)
<1>1. /\ trace' \in Seq(Entries) /\ L \in Nat /\ Len(trace') = L + 1
      /\ \A i \in 1..L : trace'[i] = trace[i]
      /\ trace'[L + 1].ok = ok /\ trace'[L + 1].before = before /\ trace'[L + 1].after = st'
      /\ trace'[L + 1].closes = closes
      /\ \A i \in 0..L : After(trace', i) = After(trace, i)
      /\ After(trace', L + 1) = st'
      /\ \A i \in 1..L + 1 : Entered(trace', i) = Entered(trace, i)
      /\ Entered(trace, L + 1) \in 0..L
  <2>1. Pushed(ok, before, closes)
    BY EntryIsPushed, Zenon
  <2>. QED
    BY <2>1 DEF Pushed
<1>2. /\ st = After(trace, L)
      /\ \A i \in 1..L :
           IF trace[i].closes
             THEN trace[i].before = After(trace, Entered(trace, i)) /\ trace[i].after = After(trace, i - 1)
             ELSE trace[i].before = After(trace, i - 1) /\ (trace[i].ok \/ trace[i].after = trace[i].before)
      /\ \A i \in 1..L : trace[i].ok
      /\ loop # None => loop.before = After(trace, Entered(trace, L + 1))
  BY DEF EngineLog
<1>3. \A i \in 1..L : Entered(trace, i) \in 0..L /\ i - 1 \in 0..L
  <2>1. \A i \in 1..L : i \in Nat \ {0} /\ 0..i - 1 \subseteq 0..L
    BY <1>1
  <2>. QED
    BY <2>1, EnteredIsFirst
<1>. HIDE DEF L
<1>4. ASSUME NEW i \in 1..L + 1
      PROVE  IF trace'[i].closes
               THEN trace'[i].before = After(trace', Entered(trace', i))
                    /\ trace'[i].after = After(trace', i - 1)
               ELSE trace'[i].before = After(trace', i - 1)
                    /\ (trace'[i].ok \/ trace'[i].after = trace'[i].before)
  <2>1. CASE i = L + 1
    <3>1. i - 1 = L /\ L \in 0..L
      BY <1>1, <2>1
    <3>2. CASE closes
      <4>1. /\ trace'[i].closes /\ trace'[i].before = before /\ trace'[i].after = st'
            /\ Entered(trace', i) = Entered(trace, L + 1)
            /\ After(trace', Entered(trace, L + 1)) = After(trace, Entered(trace, L + 1))
        BY <1>1, <2>1, <3>2, Zenon
      <4>2. before = loop.before /\ loop.before = After(trace, Entered(trace, L + 1)) /\ st' = st
        BY <1>2, <3>2, Zenon
      <4>3. After(trace', i - 1) = After(trace, L) /\ st = After(trace, L)
        BY <1>1, <1>2, <3>1, Zenon
      <4>. QED
        BY <4>1, <4>2, <4>3, Zenon
    <3>3. CASE ~ closes
      BY <1>1, <1>2, <2>1, <3>1, <3>3
    <3>. QED
      BY <3>2, <3>3
  <2>2. CASE i # L + 1
    <3>1. i \in 1..L
      BY <1>1, <2>2
    <3>2. trace'[i] = trace[i] /\ Entered(trace', i) = Entered(trace, i)
          /\ After(trace', Entered(trace, i)) = After(trace, Entered(trace, i))
          /\ After(trace', i - 1) = After(trace, i - 1)
      BY <1>1, <1>3, <3>1
    <3>. QED
      BY <1>2, <3>1, <3>2
  <2>. QED
    BY <2>1, <2>2
<1>5. ok => \A i \in 1..L + 1 : trace'[i].ok
  <2>1. ASSUME ok, NEW i \in 1..L + 1 PROVE trace'[i].ok
    <3>1. i \in 1..L \/ i = L + 1
      BY <1>1
    <3>2. i \in 1..L => trace'[i].ok
      BY <1>1, <1>2, Zenon
    <3>3. trace'[L + 1].ok
      BY <1>1, <2>1, Zenon
    <3>. QED
      BY <3>1, <3>2, <3>3, Zenon
  <2>. QED
    BY <2>1, Zenon
<1>. QED
  BY <1>1, <1>4, <1>5

\* What was read stays read, and so stays what is known of it.
LEMMA ReadIsKept ==
  ASSUME PracticeAssumption, EngineAt, EngineLog, NEW ok \in BOOLEAN, NEW closes \in BOOLEAN,
         NEW before \in Engine!States, st' \in Engine!States, Engine!pushTrace(ok, before, closes)
  PROVE  /\ \A v : Read(trace, v) => Read(trace', v)
         /\ Submitted(trace) => Submitted(trace')
         /\ ok => Read(trace', st'.value)
         /\ st'.output # before.output => Submitted(trace')
<1>1. /\ Len(trace) \in Nat /\ Len(trace') = Len(trace) + 1
      /\ \A i \in 1..Len(trace) : trace'[i] = trace[i]
      /\ trace'[Len(trace) + 1].ok = ok /\ trace'[Len(trace) + 1].before = before
      /\ trace'[Len(trace) + 1].after = st'
  <2>1. Pushed(ok, before, closes)
    BY EntryIsPushed, Zenon
  <2>. QED
    BY <2>1 DEF Pushed
<1>2. /\ \A i \in 1..Len(trace) : i \in 1..Len(trace') /\ trace'[i] = trace[i]
      /\ Len(trace) + 1 \in 1..Len(trace')
  BY <1>1
<1>3. \A v : Read(trace, v) => Read(trace', v)
  BY <1>2, Zenon DEF Read
<1>4. ok => Read(trace', st'.value)
  <2>1. ok => trace'[Len(trace) + 1].ok /\ trace'[Len(trace) + 1].after.value = st'.value
    BY <1>1, Zenon
  <2>. QED
    BY <1>2, <2>1, Zenon DEF Read
<1>5. Submitted(trace) => Submitted(trace')
  BY <1>2, Zenon DEF Submitted
<1>6. st'.output # before.output => Submitted(trace')
  BY <1>1, <1>2, Zenon DEF Submitted
<1>. QED
  BY <1>3, <1>4, <1>5, <1>6

\* A step that fails ends the run with the entry of the failure.
EngineRuns == EngineAt /\ EngineLog /\ EngineKnows /\ EngineEnds

LEMMA EngineFails ==
  ASSUME PracticeAssumption, EngineRuns, at # "end", NEW reason \in Reasons,
         Engine!Fails(reason), UNCHANGED <<program, service, numbers>>
  PROVE  EngineRuns'
<1>1. EngineAt /\ EngineLog /\ EngineKnows
  BY DEF EngineRuns
<1>2. /\ st' = st /\ loop' = loop /\ at' = "end" /\ step' = step /\ clause' = clause
      /\ Engine!pushTrace(FALSE, st, FALSE)
      /\ result' = [executable |-> FALSE, correct |-> None, failedStep |-> step, reason |-> reason]
  BY Zenon DEF Engine!Fails, Engine!failure, Engine!Settle
<1>3. st \in Engine!States /\ st' \in Engine!States /\ step \in Nat /\ None \notin Results /\ None \notin Nat
  <2>1. None \notin Results /\ None \notin Nat /\ Len(program) \in Nat
    BY <1>1, EngineGiven, Zenon DEF EngineAt
  <2>2. step \in 1..Len(program) /\ st \in Engine!States
    BY <1>1 DEF EngineAt
  <2>. QED
    BY <1>2, <2>1, <2>2
<1>4. /\ result' \in Results /\ result' # None /\ result'.executable = FALSE
      /\ result'.failedStep = step /\ step # None
  <2>1. result' \in Results
    BY <1>2, <1>3 DEF Results, Reasons
  <2>. QED
    BY <1>2, <1>3, <2>1
<1>5. EngineAt'
  BY <1>1, <1>2, <1>3, <1>4 DEF EngineAt, Engine!texts
<1>6. EngineLog'
  <2>1. /\ trace' \in Seq(Entries) /\ st' = After(trace', Len(trace'))
        /\ \A i \in 1..Len(trace') :
             IF trace'[i].closes
               THEN trace'[i].before = After(trace', Entered(trace', i))
                    /\ trace'[i].after = After(trace', i - 1)
               ELSE trace'[i].before = After(trace', i - 1)
                    /\ (trace'[i].ok \/ trace'[i].after = trace'[i].before)
    BY <1>1, <1>2, <1>3, LogIsKept
  <2>. QED
    BY <1>2, <2>1 DEF EngineLog
<1>7. EngineKnows'
  <2>1. /\ \A v : Read(trace, v) => Read(trace', v)
        /\ Submitted(trace) => Submitted(trace')
    <3>1. FALSE \in BOOLEAN
      OBVIOUS
    <3>. QED
      BY <1>1, <1>2, <1>3, <3>1, ReadIsKept, Zenon
  <2>. QED
    BY <1>1, <1>2, <2>1, Zenon DEF EngineKnows
<1>8. EngineEnds'
  <2>1. Pushed(FALSE, st, FALSE)
    <3>1. FALSE \in BOOLEAN
      OBVIOUS
    <3>. QED
      BY <1>1, <1>2, <1>3, <3>1, EntryIsPushed, Zenon
  <2>2. /\ Len(trace) \in Nat /\ Len(trace') = Len(trace) + 1
        /\ trace' # <<>> /\ Len(trace') - 1 = Len(trace)
        /\ trace'[Len(trace')] = trace'[Len(trace) + 1]
    BY <2>1, EmptySeq DEF Pushed
  <2>3. \A i \in 1..Len(trace) : trace'[i].ok
    <3>1. \A i \in 1..Len(trace) : trace'[i] = trace[i]
      BY <2>1 DEF Pushed
    <3>2. \A i \in 1..Len(trace) : trace[i].ok
      BY <1>1 DEF EngineLog
    <3>. QED
      BY <3>1, <3>2, Zenon
  <2>4. trace'[Len(trace) + 1].ok = FALSE /\ trace'[Len(trace) + 1].step = step
    BY <2>1 DEF Pushed
  <2>5. Engine!VerdictIsRecorded'
    BY <1>4, <2>2, <2>3, <2>4 DEF Engine!VerdictIsRecorded
  <2>. QED
    BY <1>4, <2>5 DEF EngineEnds
<1>. QED
  BY <1>5, <1>6, <1>7, <1>8 DEF EngineRuns

\* A run that is graded has no failure in its record.
LEMMA EngineGrades ==
  ASSUME PracticeAssumption, NEW s \in Engine!States, st' = s, result' = Engine!Grade(s),
         UNCHANGED numbers, \A i \in 1..Len(trace') : trace'[i].ok, Len(trace') \in Nat
  PROVE  result' \in Results /\ result' # None /\ EngineEnds'
<1>1. None \notin Results /\ s.output \in Nat \cup {None}
  BY EngineGiven DEF Engine!States
<1>2. result' = [executable |-> s.output # None,
                 correct |-> IF s.output = None THEN None ELSE s.output = Engine!trueMax,
                 failedStep |-> None, reason |-> IF s.output = None THEN "NO_OUTPUT" ELSE None]
  BY Zenon DEF Engine!Grade
<1> DEFINE x == s.output # None
           c == IF s.output = None THEN None ELSE s.output = Engine!trueMax
           why == IF s.output = None THEN "NO_OUTPUT" ELSE None
<1>3. /\ result' \in Results /\ result'.failedStep = None
      /\ (result'.executable <=> s.output # None)
      /\ s.output # None => result'.correct = (s.output = Engine!trueMax)
  <2>1. /\ x \in BOOLEAN /\ c \in BOOLEAN \cup {None}
        /\ s.output # None => c = (s.output = Engine!trueMax)
    OBVIOUS
  <2>2. why \in {"NO_OUTPUT", None}
    OBVIOUS
  <2>3. result' = [executable |-> x, correct |-> c, failedStep |-> None, reason |-> why]
    BY <1>2
  <2>. HIDE DEF x, c, why
  <2>4. /\ result' \in Results /\ result'.failedStep = None
        /\ result'.executable = x /\ result'.correct = c
    BY <2>1, <2>2, <2>3 DEF Results
  <2>. QED
    BY <2>1, <2>4, Zenon DEF x
<1>4. result' \in Results
  BY <1>3
<1>5. Engine!VerdictIsRecorded'
  <2>1. \A i \in 1..Len(trace') - 1 : i \in 1..Len(trace')
    OBVIOUS
  <2>. QED
    BY <1>3, <2>1, Zenon DEF Engine!VerdictIsRecorded
<1>6. Engine!trueMax' = Engine!trueMax
  BY DEF Engine!trueMax
<1>. QED
  BY <1>1, <1>3, <1>4, <1>5, <1>6, Zenon DEF EngineEnds

\* A step that is carried out adds its entry, and no other.
LEMMA EngineActs ==
  ASSUME PracticeAssumption, EngineRuns, at = "clause", st' \in Engine!States,
         st'.memo \in {st.memo, st.value}, st'.output \in {st.output, st.memo},
         Engine!pushTrace(TRUE, st, FALSE), loop' = loop
  PROVE  /\ EngineLog' /\ EngineKnows'
         /\ Len(trace') \in Nat /\ \A i \in 1..Len(trace') : trace'[i].ok
<1>1. EngineAt /\ EngineLog /\ EngineKnows /\ st \in Engine!States
  BY DEF EngineRuns, EngineAt
<1>2. TRUE \in BOOLEAN /\ FALSE \in BOOLEAN
  OBVIOUS
<1>3. Pushed(TRUE, st, FALSE)
  BY <1>1, <1>2, EntryIsPushed, Zenon
<1>4. /\ trace' \in Seq(Entries) /\ st' = After(trace', Len(trace'))
      /\ \A i \in 1..Len(trace') :
           IF trace'[i].closes
             THEN trace'[i].before = After(trace', Entered(trace', i))
                  /\ trace'[i].after = After(trace', i - 1)
             ELSE trace'[i].before = After(trace', i - 1)
                  /\ (trace'[i].ok \/ trace'[i].after = trace'[i].before)
      /\ \A i \in 1..Len(trace') : trace'[i].ok
  BY <1>1, LogIsKept
<1>5. EngineLog'
  <2>1. loop = None => Entered(trace', Len(trace') + 1) = Len(trace')
    BY <1>3 DEF Pushed
  <2>2. loop # None => loop.before = After(trace', Entered(trace', Len(trace') + 1))
    <3>1. SUFFICES ASSUME loop # None
                   PROVE  loop.before = After(trace', Entered(trace', Len(trace') + 1))
      OBVIOUS
    <3>2. step # loop.step /\ loop.before = After(trace, Entered(trace, Len(trace) + 1))
      BY <1>1, <3>1 DEF EngineAt, EngineLog
    <3>3. /\ Entered(trace', Len(trace') + 1) = Entered(trace, Len(trace) + 1)
          /\ After(trace', Entered(trace, Len(trace) + 1)) = After(trace, Entered(trace, Len(trace) + 1))
      BY <1>3, <3>1, <3>2 DEF Pushed
    <3>. QED
      BY <3>2, <3>3
  <2>. QED
    BY <1>4, <2>1, <2>2, Zenon DEF EngineLog
<1>6. EngineKnows'
  <2>1. /\ \A v : Read(trace, v) => Read(trace', v)
        /\ Submitted(trace) => Submitted(trace')
        /\ TRUE => Read(trace', st'.value)
        /\ st'.output # st.output => Submitted(trace')
    BY <1>1, <1>2, ReadIsKept, Zenon
  <2>2. /\ Read(trace, st.value) /\ Read(trace, st.memo) /\ Read(trace, st.output)
        /\ st.output # None => Submitted(trace)
    BY <1>1 DEF EngineKnows
  <2>3. Read(trace', st'.memo) /\ Read(trace', st'.output)
    BY <2>1, <2>2, Zenon
  <2>4. st'.output # None => Submitted(trace')
    BY <2>1, <2>2, Zenon
  <2>. QED
    BY <2>1, <2>3, <2>4, Zenon DEF EngineKnows
<1>7. Len(trace') \in Nat
  BY <1>3 DEF Pushed
<1>. QED
  BY <1>4, <1>5, <1>6, <1>7, Zenon

\* Where a run is, in numbers.
LEMMA EngineSteps ==
  ASSUME PracticeAssumption, EngineAt
  PROVE  /\ None \notin Results /\ None \notin ScanLoops /\ None \notin Nat
         /\ Len(program) \in Nat /\ \A i \in 1..Len(program) : Len(program[i].texts) \in Nat \ {0}
         /\ step \in 1..Len(program) /\ step \in Nat /\ clause \in Nat
         /\ clause \in 1..Len(program[step].texts)
         /\ Len(program[step].texts) \in Nat \ {0}
<1>1. /\ None \notin Results /\ None \notin ScanLoops /\ None \notin Nat
      /\ Len(program) \in Nat /\ \A i \in 1..Len(program) : Len(program[i].texts) \in Nat \ {0}
  BY EngineGiven DEF EngineAt
<1>2. step \in 1..Len(program) /\ clause \in 1..Len(program[step].texts)
  BY DEF EngineAt, Engine!texts
<1>. QED
  BY <1>1, <1>2

LEMMA EngineApplies ==
  ASSUME PracticeAssumption, EngineRuns, at = "clause", NEW a, Engine!appliesWhen(a, numbers, st),
         a # "REPEAT_STUDENT_STEPS", Engine!Apply(a), UNCHANGED <<program, service, numbers>>
  PROVE  EngineRuns'
<1>1. EngineAt /\ EngineEnds /\ st \in Engine!States /\ result = None
  BY DEF EngineRuns, EngineAt
<1>2. /\ st' = Engine!applyProblemAction(a, numbers, st) /\ loop' = loop
      /\ Engine!pushTrace(TRUE, st, FALSE) /\ Engine!Advance
  BY Zenon DEF Engine!Apply, Engine!Advance
<1>3. /\ st' \in Engine!States /\ st'.index \in 1..Len(numbers)
      /\ st'.memo \in {st.memo, st.value} /\ st'.output \in {st.output, st.memo}
  <2> DEFINE to == st'
  <2>1. to = Engine!applyProblemAction(a, numbers, st)
    BY <1>2
  <2>. HIDE DEF to
  <2>2. /\ to \in Engine!States /\ to.index \in 1..Len(numbers)
        /\ to.memo \in {st.memo, st.value} /\ to.output \in {st.output, st.memo}
    BY <1>1, <2>1, ActionIsApplied
  <2>. QED
    BY <2>2 DEF to
<1>4. /\ EngineLog' /\ EngineKnows'
      /\ Len(trace') \in Nat /\ \A i \in 1..Len(trace') : trace'[i].ok
  BY <1>2, <1>3, EngineActs, Zenon
<1>5. /\ None \notin Results /\ None \notin ScanLoops /\ None \notin Nat
      /\ Len(program) \in Nat /\ \A i \in 1..Len(program) : Len(program[i].texts) \in Nat \ {0}
      /\ step \in 1..Len(program) /\ step \in Nat /\ clause \in Nat
      /\ clause \in 1..Len(program[step].texts)
      /\ Len(program[step].texts) \in Nat \ {0}
  BY <1>1, EngineSteps
<1>6. /\ loop \in ScanLoops \cup {None}
      /\ loop # None => /\ loop.step \in 1..Len(program) /\ loop.start \in 1..loop.step - 1
                        /\ step \in loop.start..loop.step /\ step # loop.step
                        /\ loop.step \in Nat /\ loop.start \in Nat
  <2>1. loop \in ScanLoops => loop.step \in Nat /\ loop.start \in Nat
    BY DEF ScanLoops
  <2>. QED
    BY <1>1, <2>1 DEF EngineAt
<1>7. /\ program \in EnginePrograms /\ service \in {"mock", "jev"} /\ numbers \in EngineBoxes
  BY <1>1 DEF EngineAt
<1>8. ASSUME result' = None PROVE EngineEnds'
  BY <1>8, Zenon DEF EngineEnds, Engine!VerdictIsRecorded, Engine!Verdict
<1>9. CASE /\ clause < Len(Engine!texts) /\ clause' = clause + 1 /\ UNCHANGED <<at, step, result>>
  <2>1. clause' \in 1..Len(program[step].texts)
    BY <1>5, <1>9 DEF Engine!texts
  <2>2. EngineAt'
    BY <1>1, <1>2, <1>3, <1>5, <1>6, <1>7, <1>9, <2>1 DEF EngineAt, Engine!texts
  <2>. QED
    BY <1>1, <1>4, <1>8, <1>9, <2>2 DEF EngineRuns
<1>10. CASE /\ clause = Len(Engine!texts) /\ Engine!lastOfLoop
            /\ at' = "head" /\ step' = step + 1 /\ clause' = 1 /\ UNCHANGED result
  <2>1. loop # None /\ step + 1 = loop.step
    BY <1>10 DEF Engine!lastOfLoop
  <2>2. step' \in 1..Len(program) /\ clause' \in 1..Len(program[step'].texts)
        /\ step' \in loop.start..loop.step /\ step' = loop.step
    BY <1>5, <1>6, <1>10, <2>1
  <2>3. EngineAt'
    BY <1>1, <1>2, <1>3, <1>6, <1>7, <1>10, <2>1, <2>2 DEF EngineAt, Engine!texts
  <2>. QED
    BY <1>1, <1>4, <1>8, <1>10, <2>3 DEF EngineRuns
<1>11. CASE /\ clause = Len(Engine!texts) /\ ~ Engine!lastOfLoop /\ step < Len(program)
            /\ step' = step + 1 /\ clause' = 1 /\ UNCHANGED <<at, result>>
  <2>1. loop # None => step + 1 # loop.step
    BY <1>11 DEF Engine!lastOfLoop
  <2>2. step' \in 1..Len(program) /\ clause' \in 1..Len(program[step'].texts)
    BY <1>5, <1>11
  <2>3. loop # None => step' \in loop.start..loop.step /\ step' # loop.step
    BY <1>5, <1>6, <1>11, <2>1
  <2>4. EngineAt'
    BY <1>1, <1>2, <1>3, <1>6, <1>7, <1>11, <2>2, <2>3 DEF EngineAt, Engine!texts
  <2>. QED
    BY <1>1, <1>4, <1>8, <1>11, <2>4 DEF EngineRuns
<1>12. CASE clause = Len(Engine!texts) /\ step = Len(program) /\ Engine!Settle(Engine!Grade(st'))
  <2>1. at' = "end" /\ result' = Engine!Grade(st') /\ UNCHANGED <<step, clause>>
    BY <1>12, Zenon DEF Engine!Settle
  <2>2. result' \in Results /\ result' # None /\ EngineEnds'
    <3> DEFINE s == st'
    <3>1. s \in Engine!States /\ st' = s /\ result' = Engine!Grade(s) /\ UNCHANGED numbers
      BY <1>3, <2>1
    <3>. HIDE DEF s
    <3>. QED
      BY <1>4, <3>1, EngineGrades, Zenon
  <2>3. EngineAt'
    BY <1>1, <1>2, <1>3, <1>5, <1>6, <1>7, <2>1, <2>2 DEF EngineAt, Engine!texts
  <2>. QED
    BY <1>4, <2>2, <2>3 DEF EngineRuns
<1>. QED
  BY <1>2, <1>9, <1>10, <1>11, <1>12, Zenon DEF Engine!Advance

LEMMA EngineStops ==
  ASSUME PracticeAssumption, EngineRuns, at = "clause", Engine!Stop,
         UNCHANGED <<program, service, numbers>>
  PROVE  EngineRuns'
<1>1. EngineAt /\ st \in Engine!States
  BY DEF EngineRuns, EngineAt
<1>2. /\ st' = st /\ loop' = loop /\ Engine!pushTrace(TRUE, st, FALSE)
      /\ at' = "end" /\ result' = Engine!Grade(st) /\ step' = step /\ clause' = clause
  BY Zenon DEF Engine!Stop, Engine!Settle
<1>3. /\ EngineLog' /\ EngineKnows'
      /\ Len(trace') \in Nat /\ \A i \in 1..Len(trace') : trace'[i].ok
  <2>1. st' \in Engine!States /\ st'.memo \in {st.memo, st.value} /\ st'.output \in {st.output, st.memo}
    BY <1>1, <1>2
  <2>. QED
    BY <1>2, <2>1, EngineActs, Zenon
<1>4. result' \in Results /\ result' # None /\ EngineEnds'
  BY <1>1, <1>2, <1>3, EngineGrades, Zenon
<1>5. EngineAt'
  BY <1>1, <1>2, <1>4 DEF EngineAt, Engine!texts
<1>. QED
  BY <1>3, <1>4, <1>5 DEF EngineRuns

LEMMA EngineEnters ==
  ASSUME PracticeAssumption, EngineRuns, at = "clause", Engine!EnterLoop,
         UNCHANGED <<program, service, numbers>>
  PROVE  EngineRuns'
<1> DEFINE start == Engine!parseForwardScanLoop(program[step].loop, step)
<1>1. /\ EngineAt /\ EngineLog /\ EngineKnows /\ st \in Engine!States /\ result = None
  BY DEF EngineRuns, EngineAt
<1>2. /\ loop = None /\ start # 0
      /\ loop' = [step |-> step, start |-> start, seen |-> {}, before |-> st]
      /\ at' = "head" /\ UNCHANGED <<st, step, clause, trace, result>>
  BY Zenon DEF Engine!EnterLoop, Engine!mayRepeat
<1>3. start \in 1..step - 1
  BY <1>2, Zenon DEF Engine!parseForwardScanLoop
<1>4. step \in 1..Len(program) /\ step \in Nat /\ None \notin ScanLoops
  BY <1>1, EngineSteps
<1>. HIDE DEF start
<1>5. loop' \in ScanLoops /\ loop' # None
  <2>1. loop' \in ScanLoops
    BY <1>1, <1>2, <1>3, <1>4 DEF ScanLoops
  <2>. QED
    BY <1>4, <2>1
<1>6. /\ loop'.step = step /\ loop'.start = start /\ loop'.before = st
  BY <1>2
<1>7. EngineAt'
  BY <1>1, <1>2, <1>3, <1>4, <1>5, <1>6 DEF EngineAt, Engine!texts
<1>8. EngineLog'
  <2>1. Entered(trace, Len(trace) + 1) = Len(trace) /\ st = After(trace, Len(trace))
    BY <1>1, <1>2 DEF EngineLog
  <2>2. loop'.before = After(trace', Entered(trace', Len(trace') + 1))
    BY <1>2, <1>6, <2>1
  <2>. QED
    BY <1>1, <1>2, <1>5, <2>2 DEF EngineLog
<1>9. EngineKnows'
  BY <1>1, <1>2 DEF EngineKnows
<1>10. EngineEnds'
  BY <1>1, <1>2, Zenon DEF EngineEnds, Engine!VerdictIsRecorded, Engine!Verdict
<1>. QED
  BY <1>7, <1>8, <1>9, <1>10 DEF EngineRuns

LEMMA EngineBreaks ==
  ASSUME PracticeAssumption, EngineRuns, at = "clause", Engine!Outage
  PROVE  EngineRuns'
<1> DEFINE r == [executable |-> FALSE, correct |-> None, failedStep |-> None, reason |-> "error"]
<1>1. /\ EngineAt /\ EngineLog /\ EngineKnows
  BY DEF EngineRuns
<1>2. /\ at' = "end" /\ result' = r
      /\ UNCHANGED <<program, service, numbers, loop, st, trace, step, clause>>
  BY Zenon DEF Engine!Outage, Engine!Settle, Engine!given
<1>3. /\ r \in Results /\ r.executable = FALSE /\ r.reason = "error" /\ r # None
  <2>1. r \in Results
    BY DEF Results
  <2>2. None \notin Results
    BY <1>1, EngineSteps
  <2>. QED
    BY <2>1, <2>2
<1>. HIDE DEF r
<1>4. EngineAt'
  BY <1>1, <1>2, <1>3 DEF EngineAt, Engine!texts
<1>5. EngineLog'
  BY <1>1, <1>2 DEF EngineLog
<1>6. EngineKnows'
  BY <1>1, <1>2 DEF EngineKnows
<1>7. EngineEnds'
  <2>1. ~ Engine!Verdict'
    BY <1>2, <1>3 DEF Engine!Verdict
  <2>. QED
    BY <2>1, Zenon DEF EngineEnds, Engine!VerdictIsRecorded
<1>. QED
  BY <1>4, <1>5, <1>6, <1>7 DEF EngineRuns

LEMMA EngineRepeats ==
  ASSUME PracticeAssumption, EngineRuns, Engine!runLoop
  PROVE  EngineRuns'
<1>1. /\ EngineAt /\ EngineLog /\ EngineKnows /\ EngineEnds /\ at = "head"
      /\ UNCHANGED <<program, service, numbers, st>>
  BY Zenon DEF EngineRuns, Engine!runLoop, Engine!given
<1>2. /\ st \in Engine!States /\ result = None /\ loop # None /\ step = loop.step /\ loop \in ScanLoops
      /\ loop.step \in 1..Len(program) /\ loop.start \in 1..loop.step - 1
      /\ program \in EnginePrograms /\ service \in {"mock", "jev"} /\ numbers \in EngineBoxes
      /\ st.index \in 1..Len(numbers)
  BY <1>1 DEF EngineAt
<1>3. /\ None \notin Results /\ None \notin ScanLoops
      /\ Len(program) \in Nat /\ \A i \in 1..Len(program) : Len(program[i].texts) \in Nat \ {0}
      /\ step \in 1..Len(program) /\ step \in Nat
  BY <1>1, EngineSteps
<1>4. ASSUME result' = None PROVE EngineEnds'
  BY <1>4, Zenon DEF EngineEnds, Engine!VerdictIsRecorded, Engine!Verdict
<1>5. CASE /\ Engine!until /\ loop' = None /\ Engine!pushTrace(TRUE, Engine!stateBefore, TRUE)
           /\ \/ step < Len(program) /\ step' = step + 1 /\ at' = "clause" /\ clause' = 1 /\ UNCHANGED result
              \/ step = Len(program) /\ Engine!Settle(Engine!Grade(st))
  <2> DEFINE b == loop.before
  <2>1. b \in Engine!States /\ TRUE \in BOOLEAN /\ st' \in Engine!States /\ st' = st
        /\ Engine!pushTrace(TRUE, b, TRUE)
    BY <1>1, <1>2, <1>5 DEF ScanLoops, Engine!stateBefore
  <2>2. /\ trace' \in Seq(Entries) /\ st' = After(trace', Len(trace'))
        /\ \A i \in 1..Len(trace') :
             IF trace'[i].closes
               THEN trace'[i].before = After(trace', Entered(trace', i))
                    /\ trace'[i].after = After(trace', i - 1)
               ELSE trace'[i].before = After(trace', i - 1)
                    /\ (trace'[i].ok \/ trace'[i].after = trace'[i].before)
        /\ \A i \in 1..Len(trace') : trace'[i].ok
    BY <1>1, <1>2, <2>1, LogIsKept
  <2>3. Pushed(TRUE, b, TRUE)
    BY <1>1, <2>1, EntryIsPushed, Zenon
  <2>4. EngineLog'
    <3>1. Entered(trace', Len(trace') + 1) = Len(trace')
      BY <1>2, <2>3 DEF Pushed
    <3>. QED
      BY <1>5, <2>2, <3>1, Zenon DEF EngineLog
  <2>5. EngineKnows'
    <3>1. /\ \A v : Read(trace, v) => Read(trace', v)
          /\ Submitted(trace) => Submitted(trace')
      BY <1>1, <2>1, ReadIsKept, Zenon
    <3>2. /\ Read(trace, st.value) /\ Read(trace, st.memo) /\ Read(trace, st.output)
          /\ st.output # None => Submitted(trace)
      BY <1>1 DEF EngineKnows
    <3>. QED
      BY <2>1, <3>1, <3>2, Zenon DEF EngineKnows
  <2>6. CASE step < Len(program) /\ step' = step + 1 /\ at' = "clause" /\ clause' = 1 /\ UNCHANGED result
    <3>1. step' \in 1..Len(program) /\ clause' \in 1..Len(program[step'].texts)
      BY <1>3, <2>6
    <3>2. EngineAt'
      BY <1>1, <1>2, <1>5, <2>6, <3>1 DEF EngineAt, Engine!texts
    <3>. QED
      BY <1>2, <1>4, <2>4, <2>5, <2>6, <3>2 DEF EngineRuns
  <2>7. CASE step = Len(program) /\ Engine!Settle(Engine!Grade(st))
    <3>1. at' = "end" /\ result' = Engine!Grade(st) /\ UNCHANGED <<step, clause>>
      BY <2>7, Zenon DEF Engine!Settle
    <3>2. result' \in Results /\ result' # None /\ EngineEnds'
      <4>1. Len(trace') \in Nat /\ UNCHANGED numbers
        BY <1>1, <2>2, LenProperties
      <4>. QED
        BY <1>2, <2>1, <2>2, <3>1, <4>1, EngineGrades, Zenon
    <3>3. EngineAt'
      BY <1>1, <1>2, <1>5, <3>1, <3>2 DEF EngineAt, Engine!texts
    <3>. QED
      BY <2>4, <2>5, <3>2, <3>3 DEF EngineRuns
  <2>. QED
    BY <1>5, <2>6, <2>7
<1>6. CASE UNCHANGED loop /\ Engine!pushTrace(FALSE, st, FALSE) /\ Engine!failure("endless")
  <2>1. Engine!Fails("endless") /\ "endless" \in Reasons /\ at # "end"
        /\ UNCHANGED <<program, service, numbers>>
    BY <1>1, <1>6 DEF Engine!Fails, Reasons
  <2>. QED
    BY <2>1, EngineFails
<1>7. CASE /\ loop' = [loop EXCEPT !.seen = @ \cup {Engine!key(st)}]
           /\ at' = "clause" /\ step' = loop.start /\ clause' = 1 /\ UNCHANGED <<trace, result>>
  <2>1. PICK o \in Nat, s \in Nat, seen \in SUBSET Engine!States, b \in Engine!States :
          loop = [step |-> o, start |-> s, seen |-> seen, before |-> b]
    BY <1>2 DEF ScanLoops
  <2>2. loop' = [step |-> o, start |-> s, seen |-> seen \cup {Engine!key(st)}, before |-> b]
    BY <1>7, <2>1
  <2>3. Engine!key(st) \in Engine!States
    BY <1>2 DEF Engine!key
  <2>4. loop' \in ScanLoops /\ loop'.step = loop.step /\ loop'.start = loop.start /\ loop'.before = loop.before
    BY <2>1, <2>2, <2>3 DEF ScanLoops
  <2>5. step' \in 1..Len(program) /\ clause' \in 1..Len(program[step'].texts)
        /\ step' \in loop.start..loop.step /\ step' # loop.step /\ loop' # None
    <3>1. loop.step = o /\ loop.start = s /\ step' = s /\ clause' = 1
      BY <1>7, <2>1
    <3>2. o \in 1..Len(program) /\ s \in 1..o - 1
      BY <1>2, <3>1
    <3>3. s \in 1..Len(program) /\ s \in s..o /\ s # o
      BY <1>3, <3>2
    <3>4. Len(program[s].texts) \in Nat \ {0}
      BY <1>3, <3>3
    <3>5. 1 \in 1..Len(program[s].texts)
      BY <3>4
    <3>6. loop' # None
      BY <1>3, <2>4
    <3>. QED
      BY <3>1, <3>3, <3>5, <3>6
  <2>6. EngineAt'
    BY <1>1, <1>2, <1>7, <2>4, <2>5 DEF EngineAt, Engine!texts
  <2>7. EngineLog'
    BY <1>1, <1>2, <1>7, <2>4, <2>5 DEF EngineLog
  <2>8. EngineKnows'
    BY <1>1, <1>7 DEF EngineKnows
  <2>. QED
    BY <1>2, <1>4, <1>7, <2>6, <2>7, <2>8 DEF EngineRuns
<1>. QED
  BY <1>5, <1>6, <1>7, Zenon DEF Engine!runLoop

\* What the service answers: a refusal names no action, and only a refusal is
\* asked about twice.
LEMMA EngineAnswers ==
  ASSUME EngineAt, NEW e \in Engine!evaluateStep
  PROVE  /\ e.asked \in 0..2 /\ (e.executable <=> e.action # "NONE")
         /\ e.asked = 2 => ~ e.executable
<1>1. service \in {"mock", "jev"}
  BY DEF EngineAt
<1>2. ASSUME NEW a, NEW q, e = Engine!Answer(a, q)
      PROVE  e.asked = q /\ (e.executable <=> e.action # "NONE")
  BY <1>2 DEF Engine!Answer
<1>3. CASE service = "mock"
  <2>1. PICK a : e = Engine!Answer(a, 0)
    BY <1>3, Zenon DEF Engine!evaluateStep
  <2>2. e.asked = 0 /\ (e.executable <=> e.action # "NONE")
    BY <1>2, <2>1
  <2>3. e.asked \in 0..2 /\ e.asked # 2
    BY <2>2
  <2>. QED
    BY <2>2, <2>3, Zenon
<1>4. CASE service = "jev"
  <2> DEFINE C == Engine!candidateActions
  <2>1. \/ \E a \in C \cup {"NONE"} : e = Engine!Answer(a, 1)
        \/ \E a \in Engine!Actions \ C : e = Engine!Answer("NONE", 2)
    BY <1>4 DEF Engine!evaluateStep
  <2>2. CASE e = Engine!Answer("NONE", 2)
    <3>1. e.asked = 2 /\ (e.executable <=> e.action # "NONE") /\ e.action = "NONE"
      BY <1>2, <2>2 DEF Engine!Answer
    <3>2. e.asked \in 0..2
      BY <3>1
    <3>. QED
      BY <3>1, <3>2, Zenon
  <2>3. ASSUME NEW a, e = Engine!Answer(a, 1)
        PROVE  /\ e.asked \in 0..2 /\ (e.executable <=> e.action # "NONE")
               /\ e.asked = 2 => ~ e.executable
    <3>1. e.asked = 1 /\ (e.executable <=> e.action # "NONE")
      BY <1>2, <2>3
    <3>2. e.asked \in 0..2 /\ e.asked # 2
      BY <3>1
    <3>. QED
      BY <3>1, <3>2, Zenon
  <2>. QED
    BY <2>1, <2>2, <2>3
<1>. QED
  BY <1>1, <1>3, <1>4

\* A refusal ends the run; no run costs more than its evaluations and one more.
LEMMA EngineSpends ==
  ASSUME PracticeAssumption, EngineAt, EngineCosts, Engine!Next
  PROVE  EngineCosts'
<1>1. EngineBudget \in Nat /\ calls \in Nat /\ evaluations \in 0..EngineBudget
      /\ calls <= EngineBudget + 1 /\ (at # "end" => calls <= evaluations)
  BY EngineGiven, Zenon DEF EngineCosts
<1>2. CASE Engine!Evaluate
  <2>1. /\ at = "clause" /\ ~ (evaluations >= EngineBudget) /\ evaluations' = evaluations + 1
        /\ \E e \in Engine!evaluateStep : Engine!Plan(e) /\ calls' = calls + e.asked
    BY <1>2, Zenon DEF Engine!Evaluate, Engine!budgetExhausted
  <2>2. PICK e \in Engine!evaluateStep : Engine!Plan(e) /\ calls' = calls + e.asked
    BY <2>1
  <2>3. /\ e.asked \in 0..2 /\ (e.executable <=> e.action # "NONE")
        /\ e.asked = 2 => ~ e.executable
    BY EngineAnswers
  <2>4. ~ e.executable => at' = "end"
    <3>1. SUFFICES ASSUME ~ e.executable PROVE Engine!Fails("unclear")
      BY Zenon DEF Engine!Fails, Engine!failure, Engine!Settle
    <3>2. e.action = "NONE"
      BY <2>3, <3>1
    <3>. QED
      BY <2>2, <3>1, <3>2 DEF Engine!Plan, Engine!resolves
  <2>5. at' # "end" => e.asked \in 0..1
    BY <2>3, <2>4
  <2>. QED
    BY <1>1, <2>1, <2>2, <2>3, <2>5 DEF EngineCosts
<1>3. CASE Engine!Budget
  <2>1. UNCHANGED <<evaluations, calls>> /\ at = "clause"
    BY <1>3, Zenon DEF Engine!Budget
  <2>. QED
    BY <1>1, <2>1 DEF EngineCosts
<1>4. CASE Engine!Outage
  <2>1. at = "clause" /\ at' = "end" /\ calls' = calls + 1 /\ UNCHANGED evaluations
    BY <1>4, Zenon DEF Engine!Outage, Engine!Settle
  <2>. QED
    BY <1>1, <2>1 DEF EngineCosts
<1>5. CASE Engine!runLoop
  <2>1. UNCHANGED <<evaluations, calls>> /\ at = "head"
    BY <1>5, Zenon DEF Engine!runLoop
  <2>. QED
    BY <1>1, <2>1 DEF EngineCosts
<1>. QED
  BY <1>2, <1>3, <1>4, <1>5 DEF Engine!Next

\* Whatever the service answers, and whatever the run does then.
LEMMA EngineGoesOn ==
  ASSUME PracticeAssumption, EngineRuns, Engine!Next
  PROVE  EngineRuns'
<1>1. "unclear" \in Reasons /\ "impossible" \in Reasons /\ "loop" \in Reasons /\ "budget" \in Reasons
  BY DEF Reasons
<1>2. CASE Engine!Evaluate
  <2>1. PICK e \in Engine!evaluateStep : Engine!Plan(e)
    BY <1>2, Zenon DEF Engine!Evaluate
  <2>2. at = "clause" /\ at # "end" /\ UNCHANGED <<program, service, numbers>>
    BY <1>2, Zenon DEF Engine!Evaluate, Engine!given
  <2>3. CASE Engine!Fails("unclear") \/ Engine!Fails("impossible") \/ Engine!Fails("loop")
    BY <1>1, <2>2, <2>3, EngineFails, Zenon
  <2>4. CASE Engine!Stop
    BY <2>2, <2>4, EngineStops
  <2>5. CASE Engine!EnterLoop
    BY <2>2, <2>5, EngineEnters
  <2>6. CASE /\ e.action \notin {"STOP", "REPEAT_STUDENT_STEPS"}
             /\ Engine!resolves(e) /\ Engine!Apply(e.action)
    <3>1. Engine!appliesWhen(e.action, numbers, st) /\ e.action # "REPEAT_STUDENT_STEPS"
      BY <2>6, Zenon DEF Engine!resolves
    <3>. QED
      BY <2>2, <2>6, <3>1, EngineApplies
  <2>. QED
    BY <2>1, <2>3, <2>4, <2>5, <2>6, Zenon DEF Engine!Plan
<1>3. CASE Engine!Budget
  <2>1. at # "end" /\ Engine!Fails("budget") /\ UNCHANGED <<program, service, numbers>>
    BY <1>3, Zenon DEF Engine!Budget, Engine!given
  <2>. QED
    BY <1>1, <2>1, EngineFails
<1>4. CASE Engine!Outage
  <2>1. at = "clause"
    BY <1>4, Zenon DEF Engine!Outage
  <2>. QED
    BY <1>4, <2>1, EngineBreaks
<1>5. CASE Engine!runLoop
  BY <1>5, EngineRepeats
<1>. QED
  BY <1>2, <1>3, <1>4, <1>5, Zenon DEF Engine!Next

LEMMA EngineHolds == Spec => [](area = "engine" => EngineInv)
<1>1. Init => (area = "engine" => EngineInv)
  <2>. SUFFICES ASSUME Engine!Init PROVE EngineInv
    BY Zenon DEF Init
  <2>1. /\ program \in EnginePrograms /\ service \in {"mock", "jev"} /\ numbers \in EngineBoxes
        /\ at = "clause" /\ step = 1 /\ clause = 1 /\ loop = None
        /\ st = [index |-> 1, value |-> None, memo |-> None, output |-> None]
        /\ evaluations = 0 /\ calls = 0 /\ trace = <<>> /\ result = None
    BY Zenon DEF Engine!Init, Engine!initialState
  <2>2. /\ Len(numbers) \in Nat \ {0} /\ Len(program) \in Nat \ {0}
        /\ \A i \in 1..Len(program) : Len(program[i].texts) \in Nat \ {0}
        /\ EngineBudget \in Nat
    BY <2>1, PracticeAssumption, EngineGiven
  <2>3. 1 \in 1..Len(program) /\ 1 \in 1..Len(program[1].texts) /\ 1 \in 1..Len(numbers)
    BY <2>2
  <2>4. EngineAt
    BY <2>1, <2>2, <2>3 DEF EngineAt, Engine!texts, Engine!States
  <2>5. trace \in Seq(Entries) /\ Len(trace) = 0
    BY <2>1, EmptySeq
  <2>6. EngineLog
    <3>1. Entered(trace, 1) = 0
      <4>1. Entered(trace, 1) \in 0..1 - 1
        BY EnteredIsFirst
      <4>. QED
        BY <4>1
    <3>. QED
      BY <2>1, <2>5, <3>1 DEF EngineLog, After, Engine!initialState
  <2>7. EngineKnows /\ EngineCosts
    BY <2>1, <2>2 DEF EngineKnows, EngineCosts, Read
  <2>8. EngineEnds
    BY <2>1, Zenon DEF EngineEnds, Engine!VerdictIsRecorded, Engine!Verdict
  <2>. QED
    BY <2>4, <2>6, <2>7, <2>8 DEF EngineInv
<1>2. (area = "engine" => EngineInv) /\ [Next]_vars => (area = "engine" => EngineInv)'
  <2>. SUFFICES ASSUME area = "engine" => EngineInv, [Next]_vars, area' = "engine"
                PROVE  EngineInv'
    OBVIOUS
  <2>1. EngineInv /\ [Engine!Next]_(Engine!vars)
    BY Zenon DEF Next, vars, InCoins, InCircle, InCards, InPancakes, InTurn, InBoxes, InForest,
       InStars, InPlan, InWords, InEngine, engineV, shared, Engine!vars, Engine!given
  <2>2. CASE Engine!Next
    <3>1. EngineRuns /\ EngineCosts /\ EngineAt
      BY <2>1 DEF EngineInv, EngineRuns
    <3>2. EngineRuns'
      BY <2>2, <3>1, PracticeAssumption, EngineGoesOn
    <3>3. EngineCosts'
      BY <2>2, <3>1, PracticeAssumption, EngineSpends
    <3>. QED
      BY <3>2, <3>3 DEF EngineInv, EngineRuns
  <2>3. CASE UNCHANGED Engine!vars
    BY <2>1, <2>3 DEF EngineInv, EngineAt, EngineLog, EngineKnows, EngineCosts, EngineEnds,
       Engine!vars, Engine!given, Engine!texts, Engine!VerdictIsRecorded, Engine!Verdict,
       Engine!trueMax
  <2>. QED
    BY <2>1, <2>2, <2>3
<1>. QED
  BY <1>1, <1>2, PTL DEF Spec

\* What the invariant says of a run.
LEMMA EngineExplains ==
  ASSUME PracticeAssumption, EngineInv
  PROVE  /\ Engine!TypeOK /\ Engine!TraceExplains /\ Engine!VerdictIsRecorded
         /\ Engine!AnswerWasOpened /\ Engine!CallsBounded
<1>1. EngineAt /\ EngineLog /\ EngineKnows /\ EngineCosts /\ EngineEnds
  BY DEF EngineInv
<1>2. Engine!TypeOK
  BY <1>1 DEF EngineAt, Engine!TypeOK
<1>3. Engine!TraceExplains
  <2>1. \A i : Engine!Before(i) = After(trace, i)
    BY Zenon DEF Engine!Before, After
  <2>2. \A i : Entered(trace, i) =
           LET rounds == {j \in 0..i - 1 : \A m \in j + 1..i - 1 : trace[m].round}
           IN CHOOSE j \in rounds : \A other \in rounds : j <= other
    BY Zenon DEF Entered, RoundsOnly
  <2>. QED
    BY <1>1, <2>1, <2>2 DEF Engine!TraceExplains, EngineLog
<1>4. Engine!AnswerWasOpened
  <2>. SUFFICES ASSUME Engine!Verdict, result.executable
                PROVE  /\ result.correct = (st.output = Engine!trueMax)
                       /\ \E i \in 1..Len(trace) : trace[i].ok /\ trace[i].after.value = st.output
                       /\ \E i \in 1..Len(trace) : trace[i].after.output # trace[i].before.output
    BY Zenon DEF Engine!AnswerWasOpened
  <2>1. st.output # None /\ result.correct = (st.output = Engine!trueMax)
    BY <1>1, Zenon DEF EngineEnds
  <2>2. Read(trace, st.output) /\ Submitted(trace)
    BY <1>1, <2>1, Zenon DEF EngineKnows
  <2>. QED
    BY <2>1, <2>2, Zenon DEF Read, Submitted
<1>5. Engine!CallsBounded
  BY <1>1, Zenon DEF EngineCosts, Engine!CallsBounded
<1>6. Engine!VerdictIsRecorded
  BY <1>1, Zenon DEF EngineEnds
<1>. QED
  BY <1>2, <1>3, <1>4, <1>5, <1>6
-----------------------------------------------------------------------------
(* The theorems.                                                            *)

\* Every problem's state has its type, however it is played: a chosen pair of
\* stars is two stars, the balance holds no coin twice, an index is one of a box
\* that is there, a step of a program is one that was written (lib/problems, the
\* sandboxes, lib/jev/executionEngine.ts).
THEOREM TypesHold == Spec => []TypeOK
<1>1. /\ area = "coins" => CoinsInv
      /\ area = "circle" => CircleInv
      /\ area = "cards" => CardsInv
      /\ area = "pancakes" => PancakesInv
      /\ area = "turn" => TurnInv
      /\ area = "boxes" => BoxesInv
      /\ area = "forest" => ForestInv
      /\ area = "stars" => StarsInv /\ StarsJoined /\ StarsJudged
      /\ area = "even" => EvenInv
      /\ area = "truck" => TruckInv
      /\ area = "engine" => EngineInv
      => TypeOK
  BY PracticeAssumption, CircleExplains, FlipsExplain, BoxesExplain, ForestExplains,
     StarsExplain, EvenIsGraded, TruckIsTyped, EngineExplains, Zenon
  DEF TypeOK, CoinsInv, CardsInv, TurnInv
<1>. QED
  BY <1>1, CoinsHold, CircleHolds, CardsHold, PancakesHold, TurnHolds, BoxesHold, ForestHolds,
     StarsStand, EvenHolds, TruckHolds, EngineHolds, PTL

\* A verdict is about the problem on the screen and what was submitted for it:
\* whatever was played and generated before, no feedback is shown for an answer
\* that was changed or for another map, whoever follows the rule of a game gets
\* the answer that is graded (in the circle, the one of the recurrence, which
\* simulateJosephus computes), a line is refused exactly if it closes a ring with
\* those accepted before it, so that a finished map joins all its stars, its answer
\* is drawn only after a check, and an answer the engine grades was read and
\* submitted (handleCheck of the sandboxes, union-find of constellation.ts, binary
\* search of woodcut.ts, runAlgorithm of executionEngine.ts).
THEOREM VerdictsHold == Spec => []VerdictsAreRight
<1>1. /\ area = "coins" => CoinsInv
      /\ area = "circle" => CircleInv
      /\ area = "circle" => CircleRuled
      /\ area = "cards" => CardsInv
      /\ area = "turn" => TurnInv
      /\ area = "boxes" => BoxesInv
      /\ area = "forest" => ForestInv
      /\ area = "stars" => StarsInv /\ StarsJoined /\ StarsJudged
      /\ area = "even" => EvenInv
      /\ area = "engine" => EngineInv
      => VerdictsAreRight
  BY PracticeAssumption, CircleIsRight, TurnIsRight, BoxesExplain, ForestExplains, StarsExplain, EvenIsGraded,
     EngineExplains, Zenon
  DEF VerdictsAreRight, CoinsInv, CardsInv
<1>. QED
  BY <1>1, CoinsHold, CircleHolds, CircleRules, CardsHold, TurnHolds, BoxesHold, ForestHolds,
     StarsStand, EvenHolds, EngineHolds, PTL

\* What is recorded explains what is shown, after any number of actions: no
\* record of weighings, cards or cuts rules out the answer, everyone leaves the
\* circle once, the flips give the stack, an opened box is one that was opened,
\* and each entry of the engine's trace begins where the one before it ended, a
\* loop's where its first round did.
THEOREM LogsHold == Spec => []LogsExplain
<1>1. /\ area = "coins" => CoinsInv
      /\ area = "circle" => CircleInv
      /\ area = "cards" => CardsInv
      /\ area = "pancakes" => PancakesInv
      /\ area = "turn" => TurnInv
      /\ area = "boxes" => BoxesInv
      /\ area = "forest" => ForestInv
      /\ area = "stars" => StarsInv /\ StarsJoined /\ StarsJudged
      /\ area = "engine" => EngineInv
      => LogsExplain
  BY PracticeAssumption, CoinStaysPossible, CircleExplains, CardStaysPossible, FlipsExplain,
     BoxesExplain, ForestExplains, StarsExplain, EngineExplains, Zenon
  DEF LogsExplain, TurnInv
<1>. QED
  BY <1>1, CoinsHold, CircleHolds, CardsHold, PancakesHold, TurnHolds, BoxesHold, ForestHolds,
     StarsStand, EngineHolds, PTL
=============================================================================
