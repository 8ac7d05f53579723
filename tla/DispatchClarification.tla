------------------------- MODULE DispatchClarification -------------------------
(***************************************************************************)
(* Questions of agents and the answers to them, over the dispatch queue:   *)
(* /agent-needs-input pauses a dispatch on a question, /agent-resume (or   *)
(* the reconciler of stale questions, or the dirty-worktree policy) takes  *)
(* the answer, requeues the dispatch and tells the agent in a /talk.       *)
(*                                                                         *)
(* Unlike the operations of DispatchQueue these are not compare-and-set:   *)
(* each reads the row, checks what it read, and then updates whatever the  *)
(* row has become.  The read and the write are two steps here, and the     *)
(* scheduler, closeouts and other answers run between them.                *)
(***************************************************************************)
EXTENDS DispatchQueue

CONSTANTS
    Questions,   \* clarification_id values, each minted at most once
    Answerers,   \* the callers that may be answering at the same time
    Nobody       \* no question, no asker

ASSUME QuestionsAssumption == IsFiniteSet(Questions) /\ Nobody \notin Questions \cup Queries

VARIABLES
    open,     \* open[d]: the row's clarification_id and active_clarification_json
    asker,    \* asker[c]: the query whose agent asked c
    ask,      \* ask[q]: where the agent's /agent-needs-input has got to
    answer    \* answer[a]: where a's resume of a dispatch has got to

cvars == <<row, query, call, tick, open, asker, ask, answer>>
clarificationVars == <<open, asker, ask, answer>>

--------------------------------------------------------------------------------
(* State *)

AskSteps == {"none", "writing"}

\* writing: the row was read and checked.  telling: the row is queued again and
\* the agent is being called.  told, unheard: the call ended, the outcome is not
\* recorded yet.
AnswerSteps == {"none", "writing", "telling", "told", "unheard"}

Answers == [step  : AnswerSteps,
            of    : Dispatches \cup {None},
            about : Questions \cup {Nobody},
            qid   : Queries \cup {None}]

NoAnswer == [step |-> "none", of |-> None, about |-> Nobody, qid |-> None]

ClarificationInit ==
    /\ Init
    /\ open   = [d \in Dispatches |-> Nobody]
    /\ asker  = [c \in Questions |-> Nobody]
    /\ ask    = [q \in Queries |-> "none"]
    /\ answer = [a \in Answerers |-> NoAnswer]

--------------------------------------------------------------------------------
(* POST /agent-needs-input *)

Unasked == {c \in Questions : asker[c] = Nobody}

OpenQuestionOf(q) == /\ row[query[q].of].status = "needs_clarification"
                     /\ open[query[q].of] # Nobody
                     /\ asker[open[query[q].of]] = q

\* The checks of markNeedsClarification; the call may be late.  A settled dispatch
\* rejects the question; the one that is open is not asked again within five minutes.
ReadForQuestion(q) ==
    /\ query[q].state # "unused"
    /\ ask[q] = "none"
    /\ Unasked # {}
    /\ row[query[q].of].status \notin Terminal
    /\ ~OpenQuestionOf(q)
    /\ ask' = [ask EXCEPT ![q] = "writing"]
    /\ UNCHANGED <<vars, open, asker, answer>>

\* Mutant of Paused: the attempt is given back.
PausedUncounting(r) == [r EXCEPT !.status = "needs_clarification", !.age = "fresh",
                                 !.attempts = IF @ = 0 THEN 0 ELSE @ - 1]

\* The UPDATE of markNeedsClarification looks at no status.
Paused(r) == [r EXCEPT !.status = "needs_clarification", !.age = "fresh"]

MarkNeedsClarification(q) ==
    /\ ask[q] = "writing"
    /\ LET d == query[q].of IN
         \E c \in Unasked :
            /\ row'   = [row EXCEPT ![d] = Paused(@)]
            /\ open'  = [open EXCEPT ![d] = c]
            /\ asker' = [asker EXCEPT ![c] = q]
    /\ ask' = [ask EXCEPT ![q] = "none"]
    /\ UNCHANGED <<query, call, tick, answer>>

--------------------------------------------------------------------------------
(* The answer *)

\* The checks of resumeAfterClarification.  The caller names the question that
\* is open, or none.
ReadForResume(a, d) ==
    /\ answer[a].step = "none"
    /\ row[d].status = "needs_clarification"
    /\ open[d] # Nobody
    /\ answer' = [answer EXCEPT ![a] = [NoAnswer EXCEPT !.step = "writing", !.of = d,
                                                        !.about = open[d]]]
    /\ UNCHANGED <<vars, open, asker, ask>>

\* Mutant of Requeued: the budget starts again with the answer.
RequeuedAfresh(r) == [r EXCEPT !.status = "queued", !.due = TRUE, !.age = "fresh",
                               !.attempts = 0]

\* The UPDATE of resumeAfterClarification looks at no status either.
Requeued(r) == [r EXCEPT !.status = "queued", !.due = TRUE, !.age = "fresh"]

ResumeAfterClarification(a) ==
    /\ answer[a].step = "writing"
    /\ row'  = [row EXCEPT ![answer[a].of] = Requeued(@)]
    /\ open' = [open EXCEPT ![answer[a].of] = Nobody]
    /\ answer' = [answer EXCEPT ![a].step = "telling"]
    /\ UNCHANGED <<query, call, tick, asker, ask>>

\* The agent takes the answer as a new query; the caller learns its id, learns of
\* no id, or sees the call fail although the agent took it.
TellAgent(a) ==
    /\ answer[a].step = "telling"
    /\ \E q \in Unused, heard \in {"id", "noid", "lost"} :
         /\ query' = [query EXCEPT ![q] = NewQuery(answer[a].of, "resume",
                                                   row[answer[a].of].attempts)]
         /\ answer' = [answer EXCEPT
                         ![a].step = IF heard = "lost" THEN "unheard" ELSE "told",
                         ![a].qid  = IF heard = "id" THEN q ELSE None]
    /\ UNCHANGED <<row, call, tick, open, asker, ask>>

\* No endpoint, an error status, or no connection.
AgentUnreachable(a) ==
    /\ answer[a].step = "telling"
    /\ answer' = [answer EXCEPT ![a].step = "unheard"]
    /\ UNCHANGED <<vars, open, asker, ask>>

Delivered(r, q) == IF q = None THEN r ELSE [r EXCEPT !.link = q]

MarkResumeDelivered(a) ==
    /\ answer[a].step = "told"
    /\ row' = [row EXCEPT ![answer[a].of] = Delivered(@, answer[a].qid)]
    /\ answer' = [answer EXCEPT ![a] = NoAnswer]
    /\ UNCHANGED <<query, call, tick, open, asker, ask>>

\* Mutant of MarkResumeDeliveryFailed: the dispatch waits for its answer again.
PauseAgain(a) ==
    /\ answer[a].step = "unheard"
    /\ row' = [row EXCEPT ![answer[a].of].status = "needs_clarification",
                          ![answer[a].of].age = "fresh"]
    /\ answer' = [answer EXCEPT ![a] = NoAnswer]
    /\ UNCHANGED <<query, call, tick, open, asker, ask>>

\* Moves the row to the blocked state whatever happened to it since the resume.
Undelivered(r) == [r EXCEPT !.status = "resume_delivery_failed", !.age = "fresh"]

MarkResumeDeliveryFailed(a) ==
    /\ answer[a].step = "unheard"
    /\ row' = [row EXCEPT ![answer[a].of] = Undelivered(@)]
    /\ answer' = [answer EXCEPT ![a] = NoAnswer]
    /\ UNCHANGED <<query, call, tick, open, asker, ask>>

--------------------------------------------------------------------------------

RestartWithQuestions ==
    /\ ManagerRestart
    /\ ask' = [q \in Queries |-> IF ask[q] = "writing" THEN "none" ELSE ask[q]]
    /\ answer' = [a \in Answerers |-> NoAnswer]
    /\ UNCHANGED <<open, asker>>

QuestionStep(q) == ReadForQuestion(q) \/ MarkNeedsClarification(q)

AnswerStep(a) == \/ ResumeAfterClarification(a) \/ TellAgent(a) \/ AgentUnreachable(a)
                 \/ MarkResumeDelivered(a) \/ MarkResumeDeliveryFailed(a)

ClarificationNext ==
    \/ (QueueStep \/ \E d \in Dispatches : Enqueue(d)) /\ UNCHANGED clarificationVars
    \/ \E q \in Queries : QuestionStep(q)
    \/ \E a \in Answerers : AnswerStep(a) \/ \E d \in Dispatches : ReadForResume(a, d)
    \/ RestartWithQuestions

ClarificationSpec == ClarificationInit /\ [][ClarificationNext]_cvars

--------------------------------------------------------------------------------
(* Properties *)

\* The clarification columns and the handlers have their types, and so has the
\* queue.
ClarificationTypeOK == /\ TypeOK
                       /\ open \in [Dispatches -> Questions \cup {Nobody}]
                       /\ asker \in [Questions -> Queries \cup {Nobody}]
                       /\ ask \in [Queries -> AskSteps]
                       /\ answer \in [Answerers -> Answers]

\* A paused dispatch can be answered: the question it waits for is on the row, was
\* asked by an agent working for that dispatch, and no other row waits for it.  A
\* paused row without its question would reject every answer for ever.
PausedIsAnswerable ==
    /\ \A d \in Dispatches :
         row[d].status = "needs_clarification" =>
            /\ open[d] # Nobody
            /\ asker[open[d]] # Nobody
            /\ query[asker[open[d]]].of = d
    /\ \A d, e \in Dispatches : open[d] = open[e] /\ open[d] # Nobody => d = e

\* A question or an answer that is under way may reopen a dispatch that was settled
\* after its handler had read the row, for those updates look at no status.  That
\* is the whole damage: no claim, bounce, requeue or accept ever does, and once no
\* such handler is left the settled dispatch stays settled.
UnderWay(d) == \/ \E q \in Queries : query[q].of = d /\ ask[q] = "writing"
               \/ \E a \in Answerers : answer[a].of = d /\ answer[a].step # "none"

ReopenedByHandlersUnderWay ==
    [][\A d \in Dispatches :
         row[d].status \in Terminal /\ row'[d].status # row[d].status => UnderWay(d)]_cvars

--------------------------------------------------------------------------------
(* The inductive invariant behind PausedIsAnswerable *)

\* A question was asked by an agent working for the dispatch, also while nobody waits
\* for it any more.
AskedFor(c, d) == asker[c] # Nobody /\ IssuedFor(asker[c], d)

\* What a handler that has read the row goes by.
HandlersInv ==
    /\ \A q \in Queries : ask[q] = "writing" => query[q].state # "unused"
    /\ \A a \in Answerers : answer[a].step # "none" =>
         /\ answer[a].of \in Dispatches
         /\ answer[a].step = "told" /\ answer[a].qid # None
              => IssuedFor(answer[a].qid, answer[a].of)

ClarificationIInv ==
    /\ ClarificationTypeOK /\ Sound /\ HandlersInv
    /\ \A d \in Dispatches : open[d] # Nobody => AskedFor(open[d], d)
    /\ \A d \in Dispatches : row[d].status = "needs_clarification" => open[d] # Nobody

\* The invariant behind OneTalkPerAttempt.  Questions and answers requeue rows under the
\* tick, and an off-process caller counts attempts beside it, so a claim may write an
\* older count; but only the tick sends, and nothing was sent for the count it writes.
Sends(q, d) == query[q].state # "unused" /\ query[q].by = "scheduler" /\ query[q].of = d

\* The tick holds a row once, and no message is ahead of the count of its row.
CountsInv ==
    /\ \A d \in Dispatches : row[d].status = "absent" => row[d].attempts = 0
    /\ \A d \in Dispatches, q \in Queries : Sends(q, d) => query[q].attempt <= row[d].attempts
    /\ \A s, t \in Held : s.id = t.id => s = t
    /\ tick.todo \cap tick.won = {}

Fresh(s) == s.attempts <= row[s.id].attempts /\ ~SentFor(s)

BatchInv ==
    /\ tick.phase # "claim" => tick.won = {}
    /\ tick.phase = "claim" =>
         /\ \A s \in tick.todo, q \in Queries : Sends(q, s.id) => query[q].attempt <= s.attempts
         /\ \A s \in tick.won : Fresh(s)
    /\ tick.phase = "start" => \A s \in tick.todo : Fresh(s)

TalkIInv == ClarificationIInv /\ CountsInv /\ BatchInv /\ OneTalkPerAttempt

\* Without off-process callers what was selected is still the count of the row.
CurrentInv == /\ Direct = {}
              /\ \A q \in Queries : query[q].state # "unused" => query[q].by # "direct"
              /\ tick.phase = "claim" =>
                   \A s \in tick.todo : s.attempts = row[s.id].attempts

CurrentIInv == TalkIInv /\ CurrentInv

================================================================================
