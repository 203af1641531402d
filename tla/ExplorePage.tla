----------------------------- MODULE ExplorePage -----------------------------
(* The board of ideas (app/write/explore/page.tsx): it shows the peers'       *)
(* algorithms a student has to review, with vote buttons, and unlocks the     *)
(* practice sandbox when all are reviewed. The board is loaded again after    *)
(* every poll and after every vote, so several loads are under way at once.   *)
(* The hook behind the page is StudentTab's; here its answers come at once.   *)
EXTENDS Integers, FiniteSets

CONSTANTS
  Students, Entries, None,
  MaxWire,     \* bound on requests under way
  MaxFaults    \* bound on requests that get lost

VARIABLES
  open, review,          \* the round is open, its review has begun
  votes, done,           \* what each student voted for and has reviewed
  who, round,            \* the page: who is logged in, the round it shows
  due,                   \* the effect is about to load the board
  board, boardLoading, boardError, pending,
  wire, faults

server == <<open, review, votes, done>>
hook == <<who, round, due>>
page == <<board, boardLoading, boardError, pending>>
vars == <<server, hook, page, wire, faults>>

Boards == [votes : SUBSET Entries, done : SUBSET Entries]
View == IF ~ open THEN "none" ELSE IF review THEN "review" ELSE "waiting"
Request(kind, e) == [kind |-> kind, as |-> who, entry |-> e, done |-> FALSE, board |-> None]
Room == Cardinality(wire) < MaxWire

Shown == who # None /\ round = "review"
allEvaluated == board # None /\ Entries # {} /\ board.done = Entries
\* lib/warmupEvaluation.ts: what the teacher's page calls fully evaluated.
fullyEvaluated(s) == Entries # {} /\ votes[s] = Entries
\* Slip: a vote is enough.
PracticeByVotes == Shown /\ board # None /\ board.done \cup board.votes = Entries
Practice == Shown /\ allEvaluated
-----------------------------------------------------------------------------
Init ==
  /\ open = TRUE /\ review = FALSE
  /\ votes = [s \in Students |-> {}] /\ done = [s \in Students |-> {}]
  /\ who = None /\ round = "none" /\ due = FALSE
  /\ board = None /\ boardLoading = FALSE /\ boardError = FALSE /\ pending = {}
  /\ wire = {} /\ faults = 0

OpenReview == /\ open /\ ~ review /\ review' = TRUE
              /\ UNCHANGED <<open, votes, done, hook, page, wire, faults>>
CloseRound == /\ open /\ open' = FALSE
              /\ UNCHANGED <<review, votes, done, hook, page, wire, faults>>
\* A review that is completed on the page ExecutePage models.
Review(s, e) ==
  /\ open /\ review /\ e \notin done[s] /\ done' = [done EXCEPT ![s] = @ \cup {e}]
  /\ UNCHANGED <<open, review, votes, hook, page, wire, faults>>

\* The hook's answers: a new submission object, so the effect loads the board.
Sees == round' = View /\ due' = (View = "review")
Enter(s) == /\ who = None /\ who' = s /\ Sees
            /\ UNCHANGED <<server, page, wire, faults>>
\* Slip: only a change of the round loads the board.
PollQuietly == /\ who # None /\ round' = View
               /\ due' = (View = "review" /\ (due \/ round # "review"))
               /\ UNCHANGED <<server, who, page, wire, faults>>
Poll == /\ who # None /\ Sees
        /\ UNCHANGED <<server, who, page, wire, faults>>
Leave == /\ who # None /\ who' = None /\ round' = "none" /\ due' = FALSE
         /\ UNCHANGED <<server, page, wire, faults>>

StartLoad(w) == /\ boardLoading' = TRUE /\ boardError' = FALSE
                /\ wire' = w
LoadBoard == /\ due /\ Room /\ due' = FALSE
             /\ StartLoad(wire \cup {Request("board", None)})
             /\ UNCHANGED <<server, who, round, board, pending, faults>>
\* The refresh and retry buttons.
Refresh == /\ Shown /\ Room /\ (boardError \/ (board # None /\ ~ boardLoading))
           /\ StartLoad(wire \cup {Request("board", None)})
           /\ UNCHANGED <<server, hook, board, pending, faults>>
handleVote(e) ==
  /\ Shown /\ board # None /\ e \notin pending /\ Room
  /\ pending' = pending \cup {e} /\ wire' = wire \cup {Request("vote", e)}
  /\ UNCHANGED <<server, hook, board, boardLoading, boardError, faults>>
-----------------------------------------------------------------------------
Toggle(S, e) == IF e \in S THEN S \ {e} ELSE S \cup {e}
Serve(q) ==
  /\ q \in wire /\ ~ q.done
  /\ LET ok == q.as # None /\ open /\ review
         answer == IF ok THEN [votes |-> votes[q.as], done |-> done[q.as]] ELSE None
     IN /\ votes' = IF ok /\ q.kind = "vote" THEN [votes EXCEPT ![q.as] = Toggle(@, q.entry)]
                    ELSE votes
        /\ wire' = (wire \ {q}) \cup {[q EXCEPT !.done = TRUE, !.board = answer]}
  /\ UNCHANGED <<open, review, done, hook, page, faults>>

\* Slip: the button stays disabled when the board could not be loaded again.
UnlockButton(q, ok) == pending' = IF ok THEN pending \ {q.entry} ELSE pending
Unlock(q, ok) == pending' = pending \ {q.entry}
GotBoard(q) ==
  /\ q.kind = "board" /\ wire' = wire \ {q}
  /\ boardLoading' = FALSE /\ Unlock(q, q.board # None)
  /\ IF q.board # None THEN board' = q.board /\ UNCHANGED boardError
                       ELSE boardError' = TRUE /\ UNCHANGED board
\* A stored vote loads the board again before the button is released.
GotVote(q) ==
  /\ q.kind = "vote" /\ UNCHANGED board
  /\ IF q.board # None
       THEN StartLoad((wire \ {q}) \cup {Request("board", q.entry)}) /\ UNCHANGED pending
       ELSE wire' = wire \ {q} /\ Unlock(q, TRUE) /\ UNCHANGED <<boardLoading, boardError>>
Got(q) == /\ q \in wire /\ q.done /\ (GotBoard(q) \/ GotVote(q))
          /\ UNCHANGED <<server, hook, faults>>
Lose(q) ==
  /\ q \in wire /\ faults < MaxFaults /\ faults' = faults + 1 /\ wire' = wire \ {q}
  /\ Unlock(q, FALSE)
  /\ IF q.kind = "board" THEN boardLoading' = FALSE /\ boardError' = TRUE
                         ELSE UNCHANGED <<boardLoading, boardError>>
  /\ UNCHANGED <<server, hook, board>>

Next ==
  \/ OpenReview \/ CloseRound \/ Poll \/ Leave \/ LoadBoard \/ Refresh
  \/ \E s \in Students : Enter(s) \/ \E e \in Entries : Review(s, e)
  \/ \E e \in Entries : handleVote(e)
  \/ \E q \in wire : Serve(q) \/ Got(q) \/ Lose(q)
Spec == Init /\ [][Next]_vars

-----------------------------------------------------------------------------
TypeOK ==
  /\ votes \in [Students -> SUBSET Entries] /\ done \in [Students -> SUBSET Entries]
  /\ board \in Boards \cup {None} /\ pending \subseteq Entries
  /\ Cardinality(wire) <= MaxWire
  /\ due => Shown
  \* A disabled button waits for a request that will enable it.
  /\ \A e \in pending : \E q \in wire : q.entry = e

\* "Locked until every peer algorithm has been evaluated": the practice opens
\* on a board that may be old, and still only after all reviews are done.
PracticeEarned == Practice => done[who] = Entries

\* The page does not show the votes as they are stored.
Stale == who # None /\ open /\ review /\ (board = None \/ board.votes # votes[who])

\* "A closed round must never leave a student stuck behind an unfinishable
\* requirement": who was reviewing gets the practice when the round is closed.
ClosedUnlocks == (who # None /\ ~ open /\ round = "none" /\ board # None) => Practice
\* "The same definition the teacher's roster/round views use server-side".
SameAsTeacher == (Shown /\ ~ due /\ allEvaluated /\ wire = {}) => fullyEvaluated(who)
=============================================================================
