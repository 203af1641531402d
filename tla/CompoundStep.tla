----------------------------- MODULE CompoundStep -----------------------------
(* One step of a student's algorithm cut into the clauses that are judged one *)
(* by one (lib/jev/compoundStep.ts). A word is the kind the code tells it     *)
(* apart by: "go" ends in a verb's -go, "nieun" in a modifier's -n, "seq" is  *)
(* after/next, "end" ends a sentence, "and", "naseo" and "iss" are words of   *)
(* their own, "again" speaks of repetition, "x" is any other word and "short" *)
(* one of a single letter.                                                    *)
EXTENDS Naturals, Sequences

CONSTANTS Kinds, MaxWords     \* the kinds used, and a bound on a step's words
VARIABLE step

Joined(w, i) == i > 1 /\ w[i] = "naseo" /\ w[i - 1] = "go"
isGoConnective(w, i) == i < Len(w) /\ w[i] = "go" /\ w[i + 1] \notin {"iss", "naseo"}
\* Slip: a sentence's end is overlooked after the first.
CutAfterFirst(w, i) == i < Len(w) /\ w[i] = "end" /\ \A j \in 1..i - 1 : w[j] # "end"
CutAfter(w, i) ==
  \/ isGoConnective(w, i) \/ Joined(w, i)
  \/ i \in 2..Len(w) - 1 /\ w[i] = "seq" /\ w[i - 1] = "nieun"
  \/ i < Len(w) /\ w[i] = "end"
\* Slip: the word that was joined is dropped.
DroppedJoined(w, i) == w[i] = "and" \/ Joined(w, i)
Dropped(w, i) == w[i] = "and"

\* The clauses, as the words from one cut or dropped word to the next.
Clauses(w) ==
  LET Take(clauses, i) ==
        LET kept == IF Dropped(w, i) THEN clauses
                    ELSE [clauses EXCEPT ![Len(clauses)] = Append(@, w[i])]
        IN IF Dropped(w, i) \/ CutAfter(w, i) THEN Append(kept, <<>>) ELSE kept
      upTo[i \in 0..Len(w)] == IF i = 0 THEN << <<>> >> ELSE Take(upTo[i - 1], i)
  IN SelectSeq(upTo[Len(w)], LAMBDA c : c # <<>>)
TooShort(c) == Len(c) = 1 /\ c[1] \in {"short", "seq"}
splitCompoundStep(w) ==
  LET parts == Clauses(w) IN
  IF \/ \E i \in 1..Len(w) : w[i] = "again"
     \/ Len(parts) < 2
     \/ \E i \in 1..Len(parts) : TooShort(parts[i])
  THEN <<w>> ELSE parts
-----------------------------------------------------------------------------
Init == step \in {<<k>> : k \in Kinds}
Next == Len(step) < MaxWords /\ \E k \in Kinds : step' = Append(step, k)
Spec == Init /\ [][Next]_step
-----------------------------------------------------------------------------
\* The clauses are the student's words, in her order: only "and" between two
\* clauses goes, and nothing does from a step that is left whole.
NothingIsLost ==
  LET parts == splitCompoundStep(step)
      joined[i \in 0..Len(parts)] == IF i = 0 THEN <<>> ELSE joined[i - 1] \o parts[i]
  IN joined[Len(parts)]
       = IF Len(parts) = 1 THEN step ELSE SelectSeq(step, LAMBDA k : k # "and")

\* A clause stands by itself: it names one action, so that judging it would not
\* cut it again.
ClausesStand ==
  LET parts == splitCompoundStep(step) IN
  \A i \in 1..Len(parts) : splitCompoundStep(parts[i]) = <<parts[i]>>
=============================================================================
