------------------------------ MODULE Attempts ------------------------------
(***************************************************************************)
(* Stage 2 (lib/store.ts and the routes under api/write and api/execute):  *)
(* students write the algorithms of two types and execute others' of the   *)
(* other two.  A request reads a row and writes it back a statement later, *)
(* and a student may have several tabs, each with a request under way.     *)
(*                                                                         *)
(* ops counts the requests and is their clock: a request is named by its   *)
(* number, and it began before something happened iff its number is not    *)
(* above ops as it was then.                                               *)
(***************************************************************************)
EXTENDS Naturals, Sequences, FiniteSets

CONSTANTS
  Students,    \* students, named by their roster row's sort order, a number
  Tabs,        \* tabs of one student
  MaxVersions, \* bound on the revisions of one submission
  MaxOps,      \* bound on the requests of all
  None

VARIABLES
  stage2,
  subs,    \* [author, type] -> version of the submission, 0 if there is none
  att,     \* the attempts in the order of their creation
  req,     \* the requests of the tabs
  ops,
  acked,   \* history: per attempt, the actions that were answered with success
  marked   \* history: per attempt, when its first answer was graded

vars == <<stage2, subs, att, req, ops, acked, marked>>

-----------------------------------------------------------------------------
(* lib/assignments.ts: which two types a student writes and which two they *)
(* execute, from the order of their roster row alone.                      *)

\* The four types of the write/execute flow.
Types == {"12coins", "card", "josephus", "pancake"}

\* The two types that are written; the other two are executed.
COMBOS == <<{"12coins", "card"}, {"12coins", "josephus"}, {"12coins", "pancake"},
            {"card", "josephus"}, {"card", "pancake"}, {"josephus", "pancake"}>>

\* Two consecutive orders share a pair.
comboForSortOrder(order) == COMBOS[((order \div 2) % 6) + 1]

WriteTypes(order) == comboForSortOrder(order)
ExecuteTypes(order) == Types \ comboForSortOrder(order)

-----------------------------------------------------------------------------
Works == {w \in Students \X Types : w[2] \in WriteTypes(w[1])}
Statuses == <<"in_progress", "submitted", "evaluated">>
Rank(st) == CHOOSE i \in 1..3 : Statuses[i] = st
Idle == [pc |-> "idle"]

TypeOK ==
  /\ stage2 \in BOOLEAN
  /\ subs \in [Works -> 0..MaxVersions]
  /\ \A a \in 1..Len(att) :
       /\ att[a].who \in Students /\ <<att[a].author, att[a].type>> \in Works
       /\ att[a].status \in {"in_progress", "submitted", "evaluated"}
       /\ att[a].log \subseteq 1..MaxOps
       /\ att[a].asked \in 1..MaxOps /\ att[a].made \in 1..MaxOps
       /\ (att[a].status = "in_progress") <=> (att[a].answer = None)
  /\ \A t \in DOMAIN req : req[t].pc \in {"idle", "done", "pick", "insert", "action", "answer", "evaluate"}

\* The page of a tab waits for an answer before it sends the next request.
Start(t) == req[t].pc = "idle" /\ ops < MaxOps /\ ops' = ops + 1
Go(t, r) == req' = [req EXCEPT ![t] = r]

-----------------------------------------------------------------------------
\* Page 1: a submission is inserted or, at any time, revised.
Write(s, type) ==
  /\ type \in WriteTypes(s) /\ subs[<<s, type>>] < MaxVersions
  /\ subs' = [subs EXCEPT ![<<s, type>>] = @ + 1]
  /\ UNCHANGED <<stage2, att, req, ops, acked, marked>>

ActivateStage2 ==
  /\ ~stage2 /\ stage2' = TRUE
  /\ UNCHANGED <<subs, att, req, ops, acked, marked>>

\* findInProgressAttempt
InProgress(s) == {a \in 1..Len(att) : att[a].who = s /\ att[a].status = "in_progress"}

\* Slip: only evaluated attempts count.
CompletedEvaluated(s) ==
  {att[a].type : a \in {b \in 1..Len(att) : att[b].who = s /\ att[b].status = "evaluated"}}

\* completedExecuteTypes
Completed(s) ==
  {att[a].type : a \in {b \in 1..Len(att) : att[b].who = s /\ att[b].status # "in_progress"}}

\* assignExecuteAttempt: an attempt in progress is resumed,
Ask(t) ==
  /\ Start(t) /\ stage2 /\ InProgress(t[1]) = {}
  /\ Go(t, [pc |-> "done", tag |-> ops'])
  /\ UNCHANGED <<stage2, subs, att, acked, marked>>

\* Slip: a student executes the first combination's types.
RemainingAny(s) == {"josephus", "pancake"} \ Completed(s)

Remaining(s) == ExecuteTypes(s) \ Completed(s)

ReadDone(t) ==
  /\ req[t].pc = "done"
  /\ Go(t, IF Remaining(t[1]) = {} THEN Idle 
                                         ELSE [pc |-> "pick", tag |-> req[t].tag, todo |-> Remaining(t[1])])
  /\ UNCHANGED <<stage2, subs, att, ops, acked, marked>>

\* otherwise a random submission of a type that is left is taken, if any,
Pick(t) ==
  /\ req[t].pc = "pick"
  /\ \/ \E w \in Works :
          /\ subs[w] > 0 /\ w[2] \in req[t].todo
          /\ Go(t, [pc |-> "insert", tag |-> req[t].tag, work |-> w])
     \/ (\A w \in Works : w[2] \in req[t].todo => subs[w] = 0) /\ Go(t, Idle)
  /\ UNCHANGED <<stage2, subs, att, ops, acked, marked>>

\* and an attempt at it begins.  asked and made: which request it is from, and
\* when it was made.
Insert(t) ==
  LET w == req[t].work IN
  /\ req[t].pc = "insert"
  /\ att' = Append(att, [who |-> t[1], type |-> w[2], author |-> w[1], version |-> subs[w],
                         status |-> "in_progress", log |-> {}, answer |-> None,
                         asked |-> req[t].tag, made |-> ops])
  /\ acked' = Append(acked, {}) /\ marked' = Append(marked, None)
  /\ Go(t, Idle)
  /\ UNCHANGED <<stage2, subs, ops>>

-----------------------------------------------------------------------------
\* getOwnedAttempt and the status each operation asks for.
Reads(t, a, status, pc) ==
  /\ Start(t) /\ att[a].who = t[1] /\ att[a].status = status
  /\ Go(t, [pc |-> pc, id |-> a, log |-> att[a].log, tag |-> ops'])
  /\ UNCHANGED <<stage2, subs, att, acked, marked>>

\* Slip: an action, or an answer, does not ask for the status.
StartActionLate(t, a) == Reads(t, a, att[a].status, "action")
StartAnswerLate(t, a) == Reads(t, a, att[a].status, "answer")

StartAction(t, a) == Reads(t, a, "in_progress", "action")
StartAnswer(t, a) == Reads(t, a, "in_progress", "answer")
StartEvaluate(t, a) == Reads(t, a, "submitted", "evaluate")

\* Slip: the log is the new entry.
ExtendedNew(t) == {req[t].tag}

Extended(t) == req[t].log \cup {req[t].tag}

\* applyActionAndPersist and recordUnexecutable: the state and the log, as
\* they were read, with the new entry.
WriteAction(t) ==
  LET a == req[t].id IN
  /\ req[t].pc = "action"
  /\ att' = [att EXCEPT ![a].log = Extended(t)]
  /\ acked' = [acked EXCEPT ![a] = @ \cup {[tag |-> req[t].tag, end |-> ops]}]
  /\ Go(t, Idle)
  /\ UNCHANGED <<stage2, subs, ops, marked>>

\* Slip: the answer is graded and not stored.
GradedOnly(t) == None

Graded(t) == req[t].tag

\* submitFinalAnswer
WriteAnswer(t) ==
  LET a == req[t].id IN
  /\ req[t].pc = "answer"
  /\ att' = [att EXCEPT ![a].status = "submitted", ![a].answer = Graded(t)]
  /\ marked' = [marked EXCEPT ![a] = IF @ = None THEN ops ELSE @]
  /\ Go(t, Idle)
  /\ UNCHANGED <<stage2, subs, ops, acked>>

\* submitEvaluation
WriteEvaluation(t) ==
  /\ req[t].pc = "evaluate"
  /\ att' = [att EXCEPT ![req[t].id].status = "evaluated"]
  /\ Go(t, Idle)
  /\ UNCHANGED <<stage2, subs, ops, acked, marked>>

-----------------------------------------------------------------------------
Init ==
  /\ stage2 = FALSE /\ subs = [w \in Works |-> 0]
  /\ att = <<>> /\ acked = <<>> /\ marked = <<>>
  /\ req = [t \in Students \X Tabs |-> Idle] /\ ops = 0

Next ==
  \/ ActivateStage2
  \/ \E s \in Students, type \in Types : Write(s, type)
  \/ \E t \in Students \X Tabs :
       \/ Ask(t) \/ ReadDone(t) \/ Pick(t) \/ Insert(t)
       \/ \E a \in 1..Len(att) : StartAction(t, a) \/ StartAnswer(t, a) \/ StartEvaluate(t, a)
       \/ WriteAction(t) \/ WriteAnswer(t) \/ WriteEvaluation(t)

Spec == Init /\ [][Next]_vars

-----------------------------------------------------------------------------
(* Properties.                                                             *)

\* A student executes one algorithm at a time, and each type once: a second
\* attempt at the same time or at the same type is from a request that was under
\* way, in another tab, when the first was made.
OneAtATime ==
  \A b \in 1..Len(att) : \A a \in 1..(b - 1) :
    /\ att[a].who = att[b].who
    /\ \/ att[a].type = att[b].type
       \/ {att[a].status, att[b].status} = {"in_progress"}
    => att[b].asked <= att[a].made

\* Nobody executes their own algorithm, although the draw is over everyone's.
OthersOnly == \A a \in 1..Len(att) : att[a].author # att[a].who

\* An action that was answered with success stays in the log, unless another
\* that had been read before it was written was written after it.
Overwritten(a, x) ==
  \E y \in acked[a] : y.tag # x.tag /\ y.tag <= x.end /\ x.end <= y.end
ActionsKept ==
  \A a \in 1..Len(att) : \A x \in acked[a] : x.tag \in att[a].log \/ Overwritten(a, x)

\* Once an answer is graded there is one on record, and whatever is on record,
\* the answer and the actions, is from requests that had begun by then.
AnswerIsFinal ==
  \A a \in 1..Len(att) :
    marked[a] # None =>
      /\ att[a].answer # None
      /\ \A n \in {att[a].answer} \cup att[a].log : n <= marked[a]

\* An answered attempt is never in progress again, and only a request that had
\* begun when the answer was graded takes its evaluation back or changes its
\* answer or its log.
NothingAfterAnswer ==
  \A a \in 1..Len(att) :
    att[a].status # "in_progress" =>
      /\ att'[a].status # "in_progress"
      /\ \/ Rank(att'[a].status) < Rank(att[a].status)
         \/ <<att'[a].answer, att'[a].log>> # <<att[a].answer, att[a].log>>
         => \E t \in DOMAIN req :
              /\ req[t].pc \in {"action", "answer"} /\ req'[t] = Idle
              /\ req[t].id = a /\ req[t].tag <= marked[a]

\* The text that is executed is not revised under the executor's hands.
TextStays ==
  \A a \in 1..Len(att) :
    att[a].status = "in_progress" => subs[<<att[a].author, att[a].type>>] = att[a].version

=============================================================================
