---------------------------- MODULE CallLimiter -----------------------------
(***************************************************************************)
(* What the trial slots promise to whoever pays for the AI calls: a fixed  *)
(* number of lines, at most one call on a line at a time, and a call ends  *)
(* before its line carries another one.  Several may end at once.          *)
(***************************************************************************)
CONSTANTS Lines, Callers, Nobody

VARIABLE line   \* who is talking on each line

TypeOK == line \in [Lines -> Callers \cup {Nobody}]

Init == line = [l \in Lines |-> Nobody]

Start(l, c) ==
  /\ line[l] = Nobody
  /\ \A k \in Lines : line[k] # c
  /\ line' = [line EXCEPT ![l] = c]

Hangup(L) ==
  /\ \A l \in L : line[l] # Nobody
  /\ line' = [l \in Lines |-> IF l \in L THEN Nobody ELSE line[l]]

Next == \/ \E L \in SUBSET Lines : Hangup(L)
        \/ \E l \in Lines, c \in Callers : Start(l, c)

Spec == Init /\ [][Next]_line
=============================================================================
