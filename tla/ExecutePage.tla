----------------------------- MODULE ExecutePage -----------------------------
(* The page on which a student tries out and reviews a peer's algorithm       *)
(* (app/execute/page.tsx) with the routes it calls. Opened with a submission  *)
(* it loads that one; opened without, it lists the peers to choose from.      *)
(* Students share the computer: one logs out, the next one logs in.           *)
EXTENDS Integers, FiniteSets

CONSTANTS
  Students, None,
  Chosen,      \* BOOLEAN: the page was opened with a submissionId
  MaxLogins,   \* bound on logins
  MaxWire      \* bound on requests under way

VARIABLES
  open, stored,                    \* the round is open; the review each student completed
  session, logins, owner,          \* the cookie's token (0: none), tokens given, their students
  checking, loggedIn, label, begun, loading,
  submission, loadError, form, submitted,
  thanked,                         \* history: for whose review the page thanked
  list, listing, listError,        \* the chooser: whose list it is
  wire

server == <<open, stored>>
cookie == <<session, logins, owner>>
gate == <<checking, loggedIn, label>>
review == <<submission, loadError, form, submitted, thanked>>
chooser == <<list, listing, listError>>
vars == <<server, cookie, gate, begun, loading, review, chooser, wire>>

Maybe(S) == S \cup {None}
Reviews == [by : Students]
Errors == {"none", "session", "closed", "network"}
Kinds == {"me", "data", "list", "login", "logout", "post"}
Tokens == 1..MaxLogins
Who(tok) == IF tok \in Tokens THEN owner[tok] ELSE None
\* Requests carry the cookie; a list request knows whether its effect still runs.
Request(kind) ==
  [kind |-> kind, as |-> session, sub |-> "none", exp |-> "none", who |-> None, old |-> None,
   new |-> None, text |-> None, set |-> 0, stale |-> FALSE]
Send(q) == Cardinality(wire) < MaxWire /\ wire' = wire \cup {q}
-----------------------------------------------------------------------------
Init ==
  /\ open = TRUE /\ stored = [s \in Students |-> None]
  /\ session = 0 /\ logins = 0 /\ owner = [t \in Tokens |-> None]
  /\ checking = TRUE /\ loggedIn = FALSE /\ label = None /\ begun = FALSE /\ loading = FALSE
  /\ submission = FALSE /\ loadError = "none" /\ form = None /\ submitted = FALSE
  /\ thanked = None
  /\ list = None /\ listing = FALSE /\ listError = FALSE
  /\ wire = {Request("me")}

CloseRound == open /\ open' = FALSE
              /\ UNCHANGED <<stored, cookie, gate, begun, loading, review, chooser, wire>>
Expire(t) == owner[t] # None /\ owner' = [owner EXCEPT ![t] = None]
             /\ UNCHANGED <<server, session, logins, gate, begun, loading, review, chooser, wire>>

\* The routes: who asks is read from the cookie, and nothing of a closed round
\* is given out, the student's own review included.
Verdict(s) == CASE s = None -> "session" [] s # None /\ ~ open -> "closed" [] OTHER -> "ok"
Answered(q, r) == wire' = (wire \ {q}) \cup {r}
ServeRead(q) ==
  /\ LET s == Who(q.as) IN
     \/ q.kind \in {"me", "data", "list"} /\ q.sub = "none"
        /\ Answered(q, [q EXCEPT !.sub = IF q.kind = "me" /\ s # None THEN "ok"
                                         ELSE Verdict(s),
                                 !.who = IF q.kind = "data" THEN @ ELSE s])
     \/ q.kind = "data" /\ q.exp = "none"
        /\ Answered(q, [q EXCEPT !.exp = Verdict(s), !.who = s,
                                 !.old = IF Verdict(s) = "ok" THEN stored[s] ELSE None])
  /\ UNCHANGED <<server, cookie>>
\* A review is completed once.
ServePost(q) ==
  /\ q.kind = "post" /\ q.sub = "none"
  /\ LET s == Who(q.as) IN
     IF Verdict(s) = "ok" /\ stored[s] = None
       THEN /\ stored' = [stored EXCEPT ![s] = q.text]
            /\ Answered(q, [q EXCEPT !.sub = "ok", !.who = s])
       ELSE UNCHANGED stored /\ Answered(q, [q EXCEPT !.sub = "refused"])
  /\ UNCHANGED <<open, cookie>>
ServeGate(q) ==
  /\ q.kind \in {"login", "logout"} /\ q.sub = "none"
  /\ IF q.kind = "login"
       THEN /\ logins < MaxLogins /\ logins' = logins + 1
            /\ owner' = [owner EXCEPT ![logins + 1] = q.new]
       ELSE /\ owner' = [t \in Tokens |-> IF t = q.as THEN None ELSE owner[t]]
            /\ UNCHANGED logins
  /\ Answered(q, [q EXCEPT !.sub = "ok", !.set = IF q.kind = "login" THEN logins' ELSE 0])
  /\ UNCHANGED <<server, session>>
Serve(q) == (ServeRead(q) \/ ServePost(q) \/ ServeGate(q))
            /\ UNCHANGED <<gate, begun, loading, review, chooser>>
-----------------------------------------------------------------------------
\* Slip: the answer for an effect that has been cleaned up is kept.
CleanupKeeps(w) == w
Cleanup(w) == {[q EXCEPT !.stale = q.stale \/ q.kind = "list"] : q \in w}

Login(s) ==
  /\ ~ checking /\ ~ loggedIn /\ ~ loading /\ logins < MaxLogins
  /\ Send([Request("login") EXCEPT !.new = s]) /\ loading' = TRUE
  /\ UNCHANGED <<server, cookie, gate, begun, review, chooser>>
\* Slip: the effect of being logged in is not cleaned up.
LogoutButBegun ==
  /\ ~ checking /\ loggedIn /\ Send(Request("logout"))
  /\ loggedIn' = FALSE /\ begun' = begun /\ submission' = FALSE
  /\ UNCHANGED <<server, cookie, checking, label, loading, loadError, form,
                 submitted, thanked, chooser>>
\* The page forgets the submission it shows; the rest of the form stays.
Logout ==
  /\ ~ checking /\ loggedIn /\ Cardinality(wire) < MaxWire
  /\ wire' = Cleanup(wire) \cup {Request("logout")}
  /\ loggedIn' = FALSE /\ begun' = FALSE /\ submission' = FALSE
  /\ UNCHANGED <<server, cookie, checking, label, loading, loadError, form,
                 submitted, thanked, chooser>>
\* The effect of being logged in.
Begin ==
  /\ loggedIn /\ ~ begun /\ begun' = TRUE
  /\ IF Chosen THEN /\ Send(Request("data")) /\ loadError' = "none"
                    /\ UNCHANGED chooser
               ELSE /\ Send(Request("list")) /\ listing' = TRUE /\ listError' = FALSE
                    /\ UNCHANGED <<loadError, list>>
  /\ UNCHANGED <<server, cookie, gate, loading, submission, form, submitted, thanked>>

FormShown == ~ checking /\ loggedIn /\ Chosen /\ loadError = "none" /\ submission
Fill ==
  /\ FormShown /\ ~ submitted /\ form' = [by |-> label]
  /\ UNCHANGED <<server, cookie, gate, begun, loading, submission, loadError, submitted,
                 thanked, chooser, wire>>
\* Slip: the page thanks before the answer is there.
SubmitHopeful ==
  /\ FormShown /\ ~ submitted /\ form # None /\ ~ loading
  /\ Send([Request("post") EXCEPT !.text = form]) /\ loading' = TRUE /\ submitted' = TRUE
  /\ UNCHANGED <<server, cookie, gate, begun, submission, loadError, form, thanked, chooser>>
Submit ==
  /\ FormShown /\ ~ submitted /\ form # None /\ ~ loading
  /\ Send([Request("post") EXCEPT !.text = form]) /\ loading' = TRUE
  /\ UNCHANGED <<server, cookie, gate, begun, review, chooser>>
-----------------------------------------------------------------------------
Drop(q) == wire' = wire \ {q}
GotMe(q) ==
  /\ q.kind = "me" /\ q.sub # "none" /\ Drop(q)
  /\ checking' = FALSE /\ loggedIn' = (q.sub = "ok")
  /\ label' = IF q.sub = "ok" THEN q.who ELSE label
  /\ UNCHANGED <<session, begun, loading, review, chooser>>
\* Both answers; applied whoever is logged in by now.
GotData(q) ==
  /\ q.kind = "data" /\ q.sub # "none" /\ q.exp # "none" /\ Drop(q)
  /\ IF q.sub # "ok" THEN loadError' = q.sub /\ UNCHANGED <<submission, form, submitted, thanked>>
     ELSE /\ submission' = TRUE /\ UNCHANGED loadError
          /\ IF q.old = None THEN UNCHANGED <<form, submitted, thanked>>
                             ELSE form' = q.old /\ submitted' = TRUE /\ thanked' = q.who
  /\ UNCHANGED <<session, gate, begun, loading, chooser>>
GotList(q) ==
  /\ q.kind = "list" /\ q.sub # "none" /\ Drop(q)
  /\ IF q.stale THEN UNCHANGED chooser
     ELSE /\ listing' = FALSE /\ listError' = (q.sub # "ok")
          /\ list' = IF q.sub = "ok" THEN q.who ELSE None
  /\ UNCHANGED <<session, gate, begun, loading, review>>
\* The answers that set the cookie.
GotLogin(q) ==
  /\ q.kind = "login" /\ q.sub = "ok" /\ Drop(q)
  /\ loggedIn' = TRUE /\ label' = q.new /\ loading' = FALSE /\ session' = q.set
  /\ UNCHANGED <<checking, begun, review, chooser>>
GotLogout(q) == q.kind = "logout" /\ q.sub = "ok" /\ Drop(q) /\ session' = 0
                /\ UNCHANGED <<gate, begun, loading, review, chooser>>
GotPost(q) ==
  /\ q.kind = "post" /\ q.sub # "none" /\ Drop(q)
  /\ loading' = FALSE /\ submitted' = (submitted \/ q.sub = "ok")
  /\ thanked' = IF q.sub = "ok" THEN q.who ELSE thanked
  /\ UNCHANGED <<session, gate, begun, submission, loadError, form, chooser>>
Got(q) == /\ GotMe(q) \/ GotData(q) \/ GotList(q) \/ GotLogin(q) \/ GotLogout(q) \/ GotPost(q)
          /\ UNCHANGED <<server, logins, owner>>

\* Slip: a load that fails is not reported.
LoseUnseen(q) ==
  /\ Drop(q)
  /\ checking' = (checking /\ q.kind # "me")
  /\ loading' = (loading /\ q.kind \notin {"login", "post"})
  /\ IF q.kind = "list" /\ ~ q.stale THEN listing' = FALSE /\ listError' = TRUE
                                     ELSE UNCHANGED <<listing, listError>>
  /\ UNCHANGED <<server, cookie, loggedIn, label, begun, submission, form, submitted, thanked,
                 list, loadError>>
\* The catch and finally blocks.
Lose(q) ==
  /\ Drop(q)
  /\ checking' = (checking /\ q.kind # "me")
  /\ loading' = (loading /\ q.kind \notin {"login", "post"})
  /\ loadError' = IF q.kind = "data" THEN "network" ELSE loadError
  /\ IF q.kind = "list" /\ ~ q.stale THEN listing' = FALSE /\ listError' = TRUE
                                     ELSE UNCHANGED <<listing, listError>>
  /\ UNCHANGED <<server, cookie, loggedIn, label, begun, submission, form, submitted, thanked,
                 list>>

Next ==
  \/ CloseRound \/ Logout \/ Begin \/ Fill \/ Submit
  \/ \E s \in Students : Login(s)
  \/ \E t \in Tokens : Expire(t)
  \/ \E q \in wire : Serve(q) \/ Got(q) \/ Lose(q)
Spec == Init /\ [][Next]_vars
-----------------------------------------------------------------------------
TypeOK ==
  /\ stored \in [Students -> Maybe(Reviews)] /\ session \in 0..logins
  /\ label \in Maybe(Students) /\ list \in Maybe(Students) /\ thanked \in Maybe(Students)
  /\ form \in Maybe(Reviews)
  /\ loadError \in Errors /\ Cardinality(wire) <= MaxWire
  /\ loggedIn => label # None
  /\ begun => loggedIn
  /\ submitted => form # None

\* The list a student is offered was made for that student, though lists asked
\* for by the one before may arrive later (the effect's "ignore").
ListIsOwn ==
  (loggedIn /\ begun /\ ~ listing /\ ~ listError /\ list # None) => list = label
\* The page thanks for a review only when the student it thanks has one stored, though
\* answers come late, sessions end and others log in.  (Whom it shows the thanks to
\* may be the next student by then: Logout does not take it back.)
SubmittedIsStored == submitted => (thanked # None /\ stored[thanked] # None)
\* A stored review was written by the student it is stored for.
StoredIsOwn == \A s \in Students : stored[s] # None => stored[s].by = s
\* After the round was closed a student still reads the feedback given before.
ClosedShowsFeedback ==
  (loggedIn /\ Chosen /\ loadError = "closed") => stored[label] = None
=============================================================================
