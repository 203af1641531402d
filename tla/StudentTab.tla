----------------------------- MODULE StudentTab -----------------------------
(* One browser tab of a student: the session behind its cookie, the pages of *)
(* the first two steps (app/write/page.tsx, app/write/algorithm/page.tsx),    *)
(* their hook useWarmupSession, the draft in sessionStorage and the requests  *)
(* that are under way while the student clicks on and others log in.         *)
EXTENDS Integers, FiniteSets

CONSTANTS
  Students, None,
  Rounds,      \* rounds the teacher publishes one after the other: 1..k
  Versions,    \* the texts a student may type
  MaxLogins,   \* bound: sessions that are created
  MaxWire      \* bound: requests under way at once

VARIABLES
  open, last, saved, revise,           \* the open round (0: none), submissions, right to revise
  live, logins, cookie,                \* sessions by token, tokens given out, the tab's cookie
  page, checking, loggedIn, label, round, mine, canRevise, loading, nav,
  ctx, text, draft, submitting, result,
  seat,                                \* who logged in last on this computer
  work,                                \* history: the text last written for a round while
                                       \* no submit of it was under way, until it is stored
  wire                                 \* requests and answers under way

server == <<open, last, saved, revise, live, logins>>
hook == <<checking, loggedIn, label, round, mine, canRevise, loading, nav>>
editor == <<ctx, text, draft, submitting, result>>
vars == <<server, cookie, page, hook, editor, seat, work, wire>>

Maybe(S) == S \cup {None}
Tokens == 1..MaxLogins
Texts == [by : Students, round : Rounds, v : SUBSET Versions]
Key == IF round # 0 /\ label # None THEN <<label, round>> ELSE None
isOpen == Key # None /\ ctx = Key /\ (mine = None \/ canRevise)
Shown(p) == loggedIn /\ ~ checking /\ page = p
Who(tok) == IF tok \in Tokens THEN live[tok] ELSE None

\* One request: its kind, the cookie it carries and, once served, its answer.
Request(kind, tok) ==
  [kind |-> kind, tok |-> tok, done |-> FALSE, ok |-> FALSE, who |-> None, round |-> 0,
   mine |-> None, text |-> None, canRevise |-> FALSE, new |-> 0]
RoundKinds == {"mount", "poll", "loginRound"}
Kinds == RoundKinds \cup {"login", "navLogout", "logout", "submit", "result"}
Send(q) == Cardinality(wire) < MaxWire /\ wire' = wire \cup {q}
-----------------------------------------------------------------------------
Init ==
  /\ open = 1 /\ last = 1 /\ revise = FALSE
  /\ saved = [r \in Rounds |-> [s \in Students |-> None]]
  /\ live = [t \in Tokens |-> None] /\ logins = 0 /\ cookie = 0
  /\ page = "algorithm" /\ checking = TRUE /\ loggedIn = FALSE /\ label = None
  /\ round = 0 /\ mine = None /\ canRevise = FALSE /\ loading = FALSE /\ nav = "none"
  /\ ctx = None /\ text = None /\ draft = [r \in Rounds |-> None]
  /\ submitting = FALSE /\ result = None
  /\ seat = None /\ work = [r \in Rounds |-> None]
  /\ wire = {Request("mount", 0)}

-----------------------------------------------------------------------------
\* The teacher and the clock.
CloseRound ==
  /\ open # 0 /\ open' = 0
  /\ UNCHANGED <<last, saved, revise, live, logins, cookie, page, hook, editor, seat, work, wire>>
PublishRound ==
  /\ open = 0 /\ last + 1 \in Rounds
  /\ open' = last + 1 /\ last' = last + 1
  /\ UNCHANGED <<saved, revise, live, logins, cookie, page, hook, editor, seat, work, wire>>
OpenRevision ==
  /\ ~ revise /\ revise' = TRUE
  /\ UNCHANGED <<open, last, saved, live, logins, cookie, page, hook, editor, seat, work, wire>>
Expire(t) ==
  /\ live[t] # None /\ live' = [live EXCEPT ![t] = None]
  /\ UNCHANGED <<open, last, saved, revise, logins, cookie, page, hook, editor, seat, work, wire>>

-----------------------------------------------------------------------------
\* The routes. Each reads the session behind the cookie the request was sent with.
Mine(s) == IF open # 0 /\ s # None THEN saved[open][s] ELSE None
Answer(q, r) == wire' = (wire \ {q}) \cup {[r EXCEPT !.done = TRUE]}

ServeRound(q) ==
  /\ q.kind \in RoundKinds
  /\ LET s == Who(q.tok)
     IN Answer(q, [q EXCEPT !.ok = (s # None), !.who = s, !.round = IF s = None THEN 0 ELSE open,
                           !.mine = Mine(s), !.canRevise = (revise /\ Mine(s) # None)])
  /\ UNCHANGED server
ServeLogin(q) ==
  /\ q.kind = "login" /\ logins < MaxLogins
  /\ logins' = logins + 1 /\ live' = [live EXCEPT ![logins + 1] = q.who]
  /\ Answer(q, [q EXCEPT !.ok = TRUE, !.new = logins + 1])
  /\ UNCHANGED <<open, last, saved, revise>>
ServeLogout(q) ==
  /\ q.kind \in {"navLogout", "logout"}
  /\ live' = IF q.tok \in Tokens THEN [live EXCEPT ![q.tok] = None] ELSE live
  /\ Answer(q, [q EXCEPT !.ok = TRUE])
  /\ UNCHANGED <<open, last, saved, revise, logins>>

\* Whether the open round takes the text of this student.
Takes(s) == s # None /\ open # 0 /\ (saved[open][s] = None \/ revise)
\* The text goes to the round that is open when the request arrives.
ServeSubmit(q) ==
  /\ q.kind = "submit"
  /\ LET s == Who(q.tok) IN
     /\ saved' = IF Takes(s) THEN [saved EXCEPT ![open][s] = q.text] ELSE saved
     /\ work' = [work EXCEPT ![q.round] = IF Takes(s) /\ @ = q.text THEN None ELSE @]
     /\ Answer(q, IF Takes(s) THEN [q EXCEPT !.ok = TRUE, !.mine = q.text] ELSE q)
  /\ UNCHANGED <<open, last, revise, live, logins>>
\* The student's newest result; whose it is stands for it.
ServeResult(q) ==
  /\ q.kind = "result" /\ Answer(q, [q EXCEPT !.ok = TRUE, !.mine = Who(q.tok)])
  /\ UNCHANGED server
Serve(q) ==
  /\ q \in wire /\ ~ q.done
  /\ \/ ServeSubmit(q)
     \/ (ServeRound(q) \/ ServeLogin(q) \/ ServeLogout(q) \/ ServeResult(q)) /\ UNCHANGED work
  /\ UNCHANGED <<cookie, page, hook, editor, seat>>
-----------------------------------------------------------------------------
\* What the student does.
Poll ==
  /\ ~ checking /\ loggedIn /\ (round = 0 \/ mine # None)
  /\ Send(Request("poll", cookie))
  /\ UNCHANGED <<server, cookie, page, hook, editor, seat, work>>

Login(s) ==
  /\ ~ checking /\ ~ loggedIn /\ ~ loading /\ logins < MaxLogins
  /\ Send([Request("login", cookie) EXCEPT !.who = s])
  /\ loading' = TRUE
  /\ UNCHANGED <<server, cookie, page, checking, loggedIn, label, round, mine, canRevise,
                 nav, editor, seat, work>>

\* The navigation bar asks to confirm, waits for its own logout and then calls
\* the page's, which sends a second one.
ConfirmLogout ==
  /\ ~ checking /\ loggedIn /\ label # None /\ nav = "none"
  /\ Send(Request("navLogout", cookie)) /\ nav' = "busy"
  /\ UNCHANGED <<server, cookie, page, checking, loggedIn, label, round, mine, canRevise,
                 loading, editor, seat, work>>

\* Slip: a poll's answer restores the editor again.
RestoreAgain ==
  /\ Key # None /\ (ctx # Key \/ text = draft[round]) /\ page = "algorithm"
  /\ ctx' = Key /\ text' = mine
  /\ UNCHANGED <<server, cookie, page, hook, draft, submitting, result, seat, work, wire>>
Restore ==
  /\ Key # None /\ ctx # Key /\ page = "algorithm"
  /\ ctx' = Key
  /\ text' = IF draft[round] # None THEN draft[round] ELSE mine
  /\ UNCHANGED <<server, cookie, page, hook, draft, submitting, result, seat, work, wire>>

Written(v) == [by |-> seat, round |-> round, v |-> {v}]
\* What is written while a submit of the round is under way is not promised to be
\* kept: the answer removes the draft.
Submitting == \E q \in wire : q.kind = "submit" /\ q.round = round
Note(t) == work' = [work EXCEPT ![round] = IF Submitting THEN None ELSE t]

\* Slip: the text is kept in the page alone.
TypeUnkept(v) ==
  /\ Shown("algorithm") /\ isOpen
  /\ text' = Written(v) /\ Note(text')
  /\ UNCHANGED <<server, cookie, page, hook, ctx, draft, submitting, result, seat, wire>>
Type(v) ==
  /\ Shown("algorithm") /\ isOpen
  /\ text' = Written(v) /\ draft' = [draft EXCEPT ![round] = text'] /\ Note(text')
  /\ UNCHANGED <<server, cookie, page, hook, ctx, submitting, result, seat, wire>>
\* All steps emptied: there is no draft any more.
Erase ==
  /\ Shown("algorithm") /\ isOpen
  /\ text' = None /\ draft' = [draft EXCEPT ![round] = None] /\ Note(None)
  /\ UNCHANGED <<server, cookie, page, hook, ctx, submitting, result, seat, wire>>

\* "Copy the log" of the sandbox on the first page: appended, after a question, to
\* the draft or else to the stored text.
CopyHistory(v) ==
  /\ Shown("write") /\ round # 0
  /\ LET existing == IF draft[round] # None THEN draft[round] ELSE mine
         copied == IF existing = None THEN Written(v) ELSE [existing EXCEPT !.v = @ \cup {v}]
     IN draft' = [draft EXCEPT ![round] = copied] /\ Note(copied)
  /\ UNCHANGED <<server, cookie, page, hook, ctx, text, submitting, result, seat, wire>>

Submit ==
  /\ Shown("algorithm") /\ isOpen /\ ~ submitting /\ text # None
  /\ Send([Request("submit", cookie) EXCEPT !.text = text, !.round = round]) /\ submitting' = TRUE
  /\ UNCHANGED <<server, cookie, page, hook, ctx, text, draft, result, seat, work>>

\* Slip: the text outlives the document it was typed into.
FreshButText ==
  /\ checking' = TRUE /\ loggedIn' = FALSE /\ label' = None /\ round' = 0 /\ mine' = None
  /\ canRevise' = FALSE /\ loading' = FALSE /\ nav' = "none"
  /\ ctx' = None /\ text' = text /\ submitting' = FALSE /\ result' = None
  /\ wire' = {Request("mount", cookie')}
\* Native links load the document anew; answers under way are dropped.
Fresh ==
  /\ checking' = TRUE /\ loggedIn' = FALSE /\ label' = None /\ round' = 0 /\ mine' = None
  /\ canRevise' = FALSE /\ loading' = FALSE /\ nav' = "none"
  /\ ctx' = None /\ text' = None /\ submitting' = FALSE /\ result' = None
  /\ wire' = {Request("mount", cookie')}
Navigate(p) ==
  /\ UNCHANGED <<server, cookie, draft, seat, work>>
  /\ Fresh /\ page' = p

\* The first page asks for the newest JEV result of the student it shows.
AskResult ==
  /\ Shown("write") /\ label # None
  /\ ~ \E q \in wire : q.kind = "result"
  /\ Send([Request("result", cookie) EXCEPT !.who = label])
  /\ UNCHANGED <<server, cookie, page, hook, editor, seat, work>>
-----------------------------------------------------------------------------
\* The answers.
Taken(q) == q \in wire /\ q.done
GotRound(q) ==
  /\ Taken(q) /\ q.kind \in RoundKinds /\ wire' = wire \ {q}
  /\ checking' = (checking /\ q.kind # "mount")
  /\ loading' = (loading /\ q.kind # "loginRound")
  /\ loggedIn' = q.ok
  /\ IF q.ok THEN /\ label' = q.who /\ round' = q.round /\ mine' = q.mine
                  /\ canRevise' = q.canRevise
             ELSE UNCHANGED <<label, round, mine, canRevise>>
  /\ UNCHANGED <<server, cookie, page, nav, editor, seat, work>>
\* The cookie is set, and the round is read with it.
GotLogin(q) ==
  /\ Taken(q) /\ q.kind = "login"
  /\ cookie' = q.new /\ label' = q.who /\ seat' = q.who
  /\ wire' = (wire \ {q}) \cup {Request("loginRound", q.new)}
  /\ UNCHANGED <<server, page, checking, loggedIn, round, mine, canRevise, loading, nav,
                 editor, work>>
Leave == round' = 0 /\ mine' = None /\ loggedIn' = FALSE
GotNavLogout(q) ==
  /\ Taken(q) /\ q.kind = "navLogout"
  /\ cookie' = 0 /\ nav' = "none" /\ Leave
  /\ wire' = (wire \ {q}) \cup {Request("logout", 0)}
  /\ UNCHANGED <<server, page, checking, label, canRevise, loading, editor, seat, work>>
GotLogout(q) ==
  /\ Taken(q) /\ q.kind = "logout"
  /\ cookie' = 0 /\ wire' = wire \ {q}
  /\ UNCHANGED <<server, page, hook, editor, seat, work>>
\* A stored text removes the draft and leaves for the board.
GotSubmit(q) ==
  /\ Taken(q) /\ q.kind = "submit"
  /\ IF q.ok
       THEN /\ draft' = [draft EXCEPT ![q.round] = None]
            /\ UNCHANGED cookie /\ Fresh /\ page' = "explore"
       ELSE /\ submitting' = FALSE /\ wire' = wire \ {q}
            /\ UNCHANGED <<cookie, page, hook, ctx, text, draft, result>>
  /\ UNCHANGED <<server, seat, work>>
\* The effect that asked is gone when the student it asked for is.
Wanted(q) == Shown("write") /\ label = q.who
GotResult(q) ==
  /\ Taken(q) /\ q.kind = "result" /\ wire' = wire \ {q}
  /\ result' = IF Wanted(q) THEN [owner |-> q.who, of |-> q.mine] ELSE result
  /\ UNCHANGED <<server, cookie, page, hook, ctx, text, draft, submitting, seat, work>>
\* What the page shows of it: nothing that was asked for another student.
jevResult == IF loggedIn /\ result # None /\ result.owner = label THEN result.of ELSE None

Got(q) == \/ GotRound(q) \/ GotLogin(q) \/ GotNavLogout(q) \/ GotLogout(q)
          \/ GotSubmit(q) \/ GotResult(q)

\* Slip: the submit button waits for an answer that will not come.
FailsSilently(q) ==
  /\ checking' = (checking /\ q.kind # "mount")
  /\ loading' = (loading /\ q.kind \notin {"login", "loginRound"})
  /\ UNCHANGED submitting
\* The catch and finally blocks after a network error.
Fails(q) ==
  /\ checking' = (checking /\ q.kind # "mount")
  /\ loading' = (loading /\ q.kind \notin {"login", "loginRound"})
  /\ submitting' = (submitting /\ q.kind # "submit")
Lose(q) ==
  /\ q \in wire /\ q.kind # "logout"
  /\ Fails(q)
  /\ IF q.kind = "navLogout"
       THEN /\ Leave /\ nav' = "none"
            /\ wire' = (wire \ {q}) \cup {Request("logout", cookie)}
       ELSE /\ wire' = wire \ {q} /\ UNCHANGED <<loggedIn, round, mine, nav>>
  /\ UNCHANGED <<server, cookie, page, label, canRevise, ctx, text, draft, result, seat, work>>

Next ==
  \/ CloseRound \/ PublishRound \/ OpenRevision
  \/ \E t \in Tokens : Expire(t)
  \/ Poll \/ ConfirmLogout \/ \E s \in Students : Login(s)
  \/ Restore \/ Erase \/ Submit \/ AskResult
  \/ \E v \in Versions : Type(v) \/ CopyHistory(v)
  \/ \E p \in {"write", "algorithm"} : Navigate(p)
  \/ \E q \in wire : Serve(q) \/ Got(q) \/ Lose(q)
Spec == Init /\ [][Next]_vars

-----------------------------------------------------------------------------
TypeOK ==
  /\ open \in Rounds \cup {0} /\ last \in Rounds /\ open \in {0, last}
  /\ saved \in [Rounds -> [Students -> Maybe(Texts)]]
  /\ live \in [Tokens -> Maybe(Students)] /\ cookie \in 0..logins
  /\ label \in Maybe(Students) /\ round \in Rounds \cup {0}
  /\ mine \in Maybe(Texts) /\ text \in Maybe(Texts)
  /\ draft \in [Rounds -> Maybe(Texts)] /\ work \in [Rounds -> Maybe(Texts)]
  /\ ctx \in Maybe(Students \X Rounds) /\ (text # None => ctx # None)
  /\ loggedIn => label # None
  /\ Cardinality(wire) <= MaxWire

\* "Restore the editor only when entering a different student/round, never on a
\* poll response": while the context stays, the text changes by typing alone.
OnlyTypingChanges ==
  (ctx' = ctx /\ text' # text) =>
    (isOpen /\ (text' = None \/ \E v \in Versions : text' = Written(v)))

\* What was written last for a round survives reloads, failed submits, expired
\* sessions, other students and lost answers until it is stored: it is the round's
\* draft, and the editor of the round shows it.  Excused is what was written while a
\* submit of the round was under way: its answer removes the draft unseen.
WorkKept ==
  \A r \in Rounds : work[r] # None =>
     draft[r] = work[r] /\ (ctx # None /\ ctx[2] = r => text = work[r])

\* What is stored under a student's name was typed by that student.
SavedIsOwn ==
  \A r \in Rounds, s \in Students : saved[r][s] # None => saved[r][s].by = s
\* A text is stored for the round it was written for.
SavedInItsRound ==
  \A r \in Rounds, s \in Students : saved[r][s] # None => saved[r][s].round = r
\* The result on the page is that of the student the page names.
ResultIsOwn == (Shown("write") /\ jevResult # None) => jevResult = label
\* Text that nobody drafted on this tab is the stored submission of the student
\* the editor was restored for.
EditorIsOwn ==
  (ctx # None /\ text # None /\ draft[ctx[2]] = None) => saved[ctx[2]][ctx[1]] # None
=============================================================================
