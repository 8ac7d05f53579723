----------------------------- MODULE DispatchQueue -----------------------------
(***************************************************************************)
(* The dispatch queue of the manager: the rows of                          *)
(* dispatch_scheduler_queue, the reactor operations that change them, the  *)
(* scheduler tick, the agents that receive /talk, and the /agent-done      *)
(* handler.                                                                *)
(*                                                                         *)
(* What interleaves.  Every reactor operation ends in one guarded UPDATE,  *)
(* so an operation is one step whose guard is the UPDATE's.  Between two   *)
(* operations other handlers run, and the code keeps using the rows it     *)
(* listed before: the tick works from snapshots (tick.todo), a closeout    *)
(* handler from the status it read first (call[q]).                        *)
(*                                                                         *)
(* Time.  A deadline is a flag that a step of its own raises when it       *)
(* passes (due, age, out), so every order of deadlines is explored.        *)
(***************************************************************************)
EXTENDS Naturals, FiniteSets

CONSTANTS
    Dispatches,    \* dispatch_phid values
    Queries,       \* agent-side query ids, each used at most once
    None,          \* SQL NULL
    NumLanes,      \* provider lanes, numbered in the order the tick drains them
    Cap,           \* max_in_flight of each lane
    MaxAttempts,   \* policy.rate_limit_max_attempts
    StartBudget,   \* REASON_RULES max_attempts of the start-error table
    AttemptBound,  \* bound of the model: no row is claimed more often
    Direct,        \* dispatches an off-process caller also delivers itself
    AgentOutcomes, \* the ways an agent's query may end
    LookupMayFail  \* whether reading the evidence of a query may fail

Lanes == 1..NumLanes

Endings == {"completed", "waiting", "limited", "failed"}

ASSUME FiniteAssumption   == IsFiniteSet(Dispatches)
ASSUME NoneAssumption     == None \notin Dispatches \cup Queries
ASSUME LanesAssumption    == NumLanes \in Nat \ {0} /\ Cap \in [Lanes -> Nat]
ASSUME BudgetAssumption   == MaxAttempts \in Nat /\ StartBudget \in Nat
                             /\ AttemptBound \in Nat
ASSUME OutcomesAssumption == AgentOutcomes \subseteq Endings
                             /\ LookupMayFail \in BOOLEAN

VARIABLES
    row,    \* row[d]: the queue row of dispatch d
    query,  \* query[q]: the agent-side work q stands for
    call,   \* call[q]: where the worker's /agent-done for q has got to
    tick    \* the scheduler's control state, lost when the manager stops

vars == <<row, query, call, tick>>

--------------------------------------------------------------------------------
(* Rows *)

Statuses == {"absent", "queued", "in_flight", "bounced", "done", "failed",
             "cancelled", "needs_clarification", "resume_delivery_failed"}

Terminal == {"done", "failed", "cancelled"}

\* failure_kind, with what failure_detail tells apart: query_ended is an
\* agent_error whose detail is "linked query terminated ...".
FailureKinds == {"none", "agent_error", "query_ended", "failed_verification",
                 "auth_required", "exhausted", "scheduler_wedged"}

\* age: not yet starting_timeout_ms since started_at, past it, or past the TTL.
Ages == {"fresh", "aged", "stale"}

Rows == [status   : Statuses,
         lane     : Lanes,
         attempts : Nat,
         link     : Queries \cup {None},      \* agent_query_id
         due      : BOOLEAN,                  \* not_before_at <= now
         age      : Ages,
         kind     : FailureKinds]

NoRow == [status |-> "absent", lane |-> 1, attempts |-> 0, link |-> None,
          due |-> FALSE, age |-> "fresh", kind |-> "none"]

\* The reactor operations, as what they make of a row.  An operation whose
\* guard does not hold reports a conflict and leaves the row alone.  started_at
\* is read only while a row is in flight, so a row that leaves goes back to the
\* youngest age.

\* Mutant of MarkFailed: a failure overwrites a row that is done.
MarkFailedAnyRow(r, kind) ==
    IF r.status = "absent" THEN r
    ELSE [r EXCEPT !.status = "failed", !.kind = kind, !.age = "fresh"]

MarkFailed(r, kind) ==
    IF r.status \in {"absent", "done", "cancelled"} THEN r
    ELSE [r EXCEPT !.status = "failed", !.kind = kind, !.age = "fresh"]

MarkRetryExhausted(r) ==
    IF r.status \in {"absent"} \cup Terminal THEN r
    ELSE [r EXCEPT !.status = "failed", !.kind = "exhausted", !.age = "fresh"]

\* Mutant of MarkBounced: a late bounce reopens a settled row.
MarkBouncedAnyRow(r, due, lane) ==
    IF r.status = "absent" THEN r
    ELSE [r EXCEPT !.status = "bounced", !.due = due, !.lane = lane, !.age = "fresh"]

MarkBounced(r, due, lane) ==
    IF r.status \in {"absent"} \cup Terminal THEN r
    ELSE [r EXCEPT !.status = "bounced", !.due = due, !.lane = lane,
                   !.age = "fresh"]

RequeueAfterBounce(r) ==
    IF r.status = "bounced" /\ r.due THEN [r EXCEPT !.status = "queued"] ELSE r

\* Mutant of ClaimRow: the claim does not count the attempt.
ClaimRowUncounted(r, attempts) ==
    IF r.status = "queued"
    THEN [r EXCEPT !.status = "in_flight", !.age = "fresh"]
    ELSE r

ClaimRow(r, attempts) ==
    IF r.status = "queued"
    THEN [r EXCEPT !.status = "in_flight", !.attempts = attempts + 1,
                   !.age = "fresh"]
    ELSE r

\* Mutant of AcceptDispatchStart: every accept counts an attempt.
AcceptCountingRelinks(r, q) ==
    IF r.status = "queued" \/ (r.status = "in_flight" /\ r.link \in {None, q})
    THEN [r EXCEPT !.status = "in_flight", !.attempts = @ + 1, !.link = q]
    ELSE r

AcceptDispatchStart(r, q) ==
    CASE r.status = "queued" ->
           [r EXCEPT !.status = "in_flight", !.attempts = @ + 1,
                     !.age = "fresh", !.link = q]
      [] r.status = "in_flight" /\ r.link \in {None, q} ->
           [r EXCEPT !.link = q]
      [] OTHER -> r

MarkDoneFrom(r, status) ==
    IF r.status = status THEN [r EXCEPT !.status = "done", !.age = "fresh"] ELSE r

InFlight(l) == {d \in Dispatches : row[d].status = "in_flight" /\ row[d].lane = l}

--------------------------------------------------------------------------------
(* Agent-side queries and the tick *)

QueryRecords == [of      : Dispatches \cup {None},
                 by      : {"scheduler", "direct", "resume"},
                 attempt : Nat,
                 state   : {"unused", "processing"} \cup Endings,
                 out     : {"none", "recent", "quiet"}]  \* last_output_at

NoQuery == [of |-> None, by |-> "scheduler", attempt |-> 0,
            state |-> "unused", out |-> "none"]

Unused == {q \in Queries : query[q].state = "unused"}

NewQuery(d, by, attempt) ==
    [of |-> d, by |-> by, attempt |-> attempt,
     state |-> "processing", out |-> "none"]

\* What the closeout handler keeps of the status it read.
SeenAs(status) == CASE status \in Terminal -> "settled"
                    [] status = "queued"   -> "queued"
                    [] OTHER               -> "open"

CallStates == {"none", "sent", "settled", "queued", "open"}

Phases == {"idle", "evidence", "reap", "stale", "sweep", "claim", "start"}

\* What a step of the tick keeps of a row it listed.
Snapshots == [id : Dispatches, link : Queries \cup {None}, attempts : Nat]

Snap(d) == [id |-> d, link |-> row[d].link, attempts |-> row[d].attempts]

Replies == {"none", "reaped", "started", "noid", "garbled", "lost",
            "refused", "throttled", "auth", "error"}

\* The agent took the message in the first four; the manager learns its query
\* id only in the first.
Accepting == {"started", "noid", "garbled", "lost"}
Rejecting == {"refused", "throttled", "auth", "error"}

\* todo: the rows listed for this phase; won: the rows claimed so far;
\* reply: an answer about row `about` that the tick has yet to act on.
Ticks == [phase : Phases, lane : Lanes, todo : SUBSET Snapshots,
          won : SUBSET Snapshots, reply : Replies,
          about : Dispatches \cup {None}, attempts : Nat,
          qid : Queries \cup {None}]

Idle(l) == [phase |-> "idle", lane |-> l, todo |-> {}, won |-> {},
            reply |-> "none", about |-> None, attempts |-> 0, qid |-> None]

Init == /\ row   = [d \in Dispatches |-> NoRow]
        /\ query = [q \in Queries |-> NoQuery]
        /\ call  = [q \in Queries |-> "none"]
        /\ tick  = Idle(NumLanes)

--------------------------------------------------------------------------------
(* Producers and clocks *)

Enqueue(d) ==
    /\ row[d].status = "absent"
    /\ \E l \in Lanes, due \in BOOLEAN :
         row' = [row EXCEPT ![d] = [NoRow EXCEPT !.status = "queued",
                                                 !.lane = l, !.due = due]]
    /\ UNCHANGED <<query, call, tick>>

NotBeforePasses(d) ==
    /\ row[d].status \in {"queued", "bounced"}
    /\ ~row[d].due
    /\ row' = [row EXCEPT ![d].due = TRUE]
    /\ UNCHANGED <<query, call, tick>>

ClaimAges(d) ==
    /\ row[d].status = "in_flight"
    /\ row[d].age # "stale"
    /\ row' = [row EXCEPT ![d].age = IF @ = "fresh" THEN "aged" ELSE "stale"]
    /\ UNCHANGED <<query, call, tick>>

--------------------------------------------------------------------------------
(* The tick: safeTick runs one tick at a time, and a tick drains the lanes in *)
(* order through the same six phases.                                         *)

BeginPhase(phase, l, ds) ==
    /\ tick.todo = {}
    /\ tick.reply = "none"
    /\ tick' = [Idle(l) EXCEPT !.phase = phase, !.todo = {Snap(d) : d \in ds}]
    /\ UNCHANGED <<row, query, call>>

\* Mutant of NextLane: the last lane is not followed by the first.
NextLaneUnwrapped(l) == l + 1

NextLane(l) == IF l = NumLanes THEN 1 ELSE l + 1

BeginEvidence ==
    LET l == NextLane(tick.lane) IN
    /\ tick.phase = "idle"
    /\ BeginPhase("evidence", l, {d \in InFlight(l) : row[d].link # None})

\* Mutant of BeginReap: an exact comparison misses a claim that aged further.
BeginReapJustAged ==
    /\ tick.phase = "evidence"
    /\ BeginPhase("reap", tick.lane,
                  {d \in InFlight(tick.lane) : row[d].link = None
                                               /\ row[d].age = "aged"})

BeginReap ==
    /\ tick.phase = "evidence"
    /\ BeginPhase("reap", tick.lane,
                  {d \in InFlight(tick.lane) : row[d].link = None
                                               /\ row[d].age # "fresh"})

BeginStale ==
    /\ tick.phase = "reap"
    /\ BeginPhase("stale", tick.lane,
                  {d \in InFlight(tick.lane) : row[d].link # None
                                               /\ row[d].age = "stale"})

BeginSweep ==
    /\ tick.phase = "stale"
    /\ BeginPhase("sweep", tick.lane,
                  {d \in Dispatches : row[d].status = "bounced"
                                      /\ row[d].lane = tick.lane /\ row[d].due})

Eligible(l) == {d \in Dispatches : row[d].status = "queued" /\ row[d].lane = l
                                   /\ row[d].due
                                   /\ row[d].attempts < AttemptBound}

\* Mutant of Headroom: room for one row is taken for room for the batch.
HeadroomForOne(l, ds) == Cardinality(InFlight(l)) < Cap[l]

Headroom(l, ds) == Cardinality(InFlight(l)) + Cardinality(ds) <= Cap[l]

\* runClaim: as many of the eligible rows as the lane has headroom for.  The
\* batch limit, the priority order, the usage and admission gates and the graph
\* filter only choose which.
SelectClaims ==
    /\ tick.phase = "sweep"
    /\ \E ds \in SUBSET Eligible(tick.lane) :
         /\ ds = {} \/ Headroom(tick.lane, ds)
         /\ BeginPhase("claim", tick.lane, ds)

BeginStart ==
    /\ tick.phase = "claim"
    /\ tick.todo = {}
    /\ tick' = [Idle(tick.lane) EXCEPT !.phase = "start", !.todo = tick.won]
    /\ UNCHANGED <<row, query, call>>

EndLane ==
    /\ tick.phase = "start"
    /\ BeginPhase("idle", tick.lane, {})

\* Take one listed row, and what the code does with it.
Take(phase, s) ==
    /\ tick.phase = phase
    /\ tick.reply = "none"
    /\ s \in tick.todo

Change(s, r) ==
    /\ row' = [row EXCEPT ![s.id] = r]
    /\ tick' = [tick EXCEPT !.todo = @ \ {s}]
    /\ UNCHANGED <<query, call>>

Evidence(s, status) == query[s.link].state = status

\* Mutant of EvidenceDone: any ended query counts as success.
EvidenceEnded(s) ==
    /\ Take("evidence", s)
    /\ query[s.link].state \in Endings
    /\ Change(s, MarkDoneFrom(row[s.id], "in_flight"))

EvidenceDone(s) ==
    /\ Take("evidence", s)
    /\ query[s.link].state \in {"completed", "limited"}
    /\ Change(s, MarkDoneFrom(row[s.id], "in_flight"))

EvidenceWaiting(s) ==
    /\ Take("evidence", s)
    /\ Evidence(s, "waiting")
    /\ Change(s, MarkFailed(row[s.id], "failed_verification"))

EvidenceFailed(s) ==
    /\ Take("evidence", s)
    /\ Evidence(s, "failed")
    /\ Change(s, MarkFailed(row[s.id], "query_ended"))

EvidenceSilent(s) ==
    /\ Take("evidence", s)
    /\ Evidence(s, "processing")
    /\ query[s.link].out = "quiet"
    /\ Change(s, IF s.attempts >= MaxAttempts
                 THEN MarkRetryExhausted(row[s.id])
                 ELSE MarkBounced(row[s.id], FALSE, row[s.id].lane))

EvidenceKeep(s) ==
    /\ Take("evidence", s)
    /\ \/ LookupMayFail
       \/ Evidence(s, "processing") /\ query[s.link].out # "quiet"
    /\ Change(s, row[s.id])

\* reapWedgedInFlight bounces with no backoff and requeues, in two operations.
ReapBounce(s) ==
    /\ Take("reap", s)
    /\ row' = [row EXCEPT ![s.id] = MarkBounced(@, TRUE, @.lane)]
    /\ tick' = [tick EXCEPT !.todo = @ \ {s}, !.about = s.id,
                            !.reply = IF row[s.id].status \in Terminal
                                      THEN "none" ELSE "reaped"]
    /\ UNCHANGED <<query, call>>

ReapRequeue ==
    /\ tick.reply = "reaped"
    /\ row' = [row EXCEPT ![tick.about] = RequeueAfterBounce(@)]
    /\ tick' = [tick EXCEPT !.reply = "none", !.about = None]
    /\ UNCHANGED <<query, call>>

\* failStaleInFlight measures the silence of the query, or the age of the claim
\* when there was no output or the lookup failed.
StaleFail(s) ==
    /\ Take("stale", s)
    /\ LookupMayFail \/ query[s.link].out # "recent"
    /\ Change(s, MarkFailed(row[s.id], "scheduler_wedged"))

StaleKeep(s) ==
    /\ Take("stale", s)
    /\ query[s.link].out # "none"
    /\ Change(s, row[s.id])

SweepOne(s) ==
    /\ Take("sweep", s)
    /\ Change(s, IF s.attempts >= MaxAttempts
                 THEN MarkRetryExhausted(row[s.id])
                 ELSE RequeueAfterBounce(row[s.id]))

\* The guarded UPDATE of one selected row.  The rows that were won are started
\* only after all of them have been tried.
ClaimOne(s) ==
    /\ Take("claim", s)
    /\ row' = [row EXCEPT ![s.id] = ClaimRow(@, s.attempts)]
    /\ tick' = [tick EXCEPT
                  !.todo = @ \ {s},
                  !.won  = IF row[s.id].status = "queued"
                           THEN @ \cup {[s EXCEPT !.attempts = @ + 1]} ELSE @]
    /\ UNCHANGED <<query, call>>

--------------------------------------------------------------------------------
(* startOne: POST /talk, then act on the answer *)

\* The agent has the message and works on it under the new query id q, whatever
\* becomes of the answer.
SendAccepted(s, q, reply) ==
    /\ Take("start", s)
    /\ q \in Unused
    /\ query' = [query EXCEPT ![q] = NewQuery(s.id, "scheduler", s.attempts)]
    /\ tick' = [tick EXCEPT !.todo = @ \ {s}, !.reply = reply, !.about = s.id,
                            !.attempts = s.attempts, !.qid = q]
    /\ UNCHANGED <<row, call>>

SendRejected(s, reply) ==
    /\ Take("start", s)
    /\ tick' = [tick EXCEPT !.todo = @ \ {s}, !.reply = reply, !.about = s.id,
                            !.attempts = s.attempts]
    /\ UNCHANGED <<row, query, call>>

Answered(reply) == tick.phase = "start" /\ tick.reply = reply

ActOnAnswer(r) ==
    /\ row' = [row EXCEPT ![tick.about] = r]
    /\ tick' = [tick EXCEPT !.reply = "none", !.about = None, !.attempts = 0,
                            !.qid = None]
    /\ UNCHANGED <<query, call>>

\* recordAgentStart; a conflict is only logged.
RecordAgentStart ==
    /\ Answered("started")
    /\ ActOnAnswer(AcceptDispatchStart(row[tick.about], tick.qid))

\* Left in flight for reapWedgedInFlight.
StartMissingQueryId ==
    /\ Answered("noid")
    /\ ActOnAnswer(row[tick.about])

\* A throttle or a transport error backs off; only a throttle may move the row
\* to a fallback lane.
StartBounced ==
    /\ \E reply \in {"lost", "refused", "throttled"} : Answered(reply)
    /\ tick.attempts < StartBudget
    /\ \E l \in Lanes :
         /\ tick.reply = "throttled" \/ l = row[tick.about].lane
         /\ ActOnAnswer(MarkBounced(row[tick.about], FALSE, l))

StartExhausted ==
    /\ \E reply \in {"lost", "refused", "throttled"} : Answered(reply)
    /\ tick.attempts >= StartBudget
    /\ ActOnAnswer(MarkRetryExhausted(row[tick.about]))

StartFailed ==
    \/ /\ Answered("auth")
       /\ ActOnAnswer(MarkFailed(row[tick.about], "auth_required"))
    \/ /\ \E reply \in {"garbled", "error"} : Answered(reply)
       /\ ActOnAnswer(MarkFailed(row[tick.about], "agent_error"))

--------------------------------------------------------------------------------
(* The agents *)

AgentOutput(q) ==
    /\ query[q].state = "processing"
    /\ query[q].out # "recent"
    /\ query' = [query EXCEPT ![q].out = "recent"]
    /\ UNCHANGED <<row, call, tick>>

AgentQuiet(q) ==
    /\ query[q].state = "processing"
    /\ query[q].out = "recent"
    /\ query' = [query EXCEPT ![q].out = "quiet"]
    /\ UNCHANGED <<row, call, tick>>

AgentFinish(q) ==
    /\ query[q].state = "processing"
    /\ \E o \in AgentOutcomes : query' = [query EXCEPT ![q].state = o]
    /\ call' = [call EXCEPT ![q] = "sent"]
    /\ UNCHANGED <<row, tick>>

--------------------------------------------------------------------------------
(* POST /agent-done: handleAgentDone reads the row, then closes it.  The call  *)
(* names the dispatch, never the attempt the worker was started for.           *)

ReadForCloseout(q) ==
    /\ call[q] = "sent"
    /\ call' = [call EXCEPT ![q] = SeenAs(row[query[q].of].status)]
    /\ UNCHANGED <<row, query, tick>>

Closing(q) == call[q] \in {"settled", "queued", "open"}

CloseWith(q, r) ==
    /\ row' = [row EXCEPT ![query[q].of] = r]
    /\ call' = [call EXCEPT ![q] = "none"]
    /\ UNCHANGED <<query, tick>>

CloseSuccess(q) ==
    /\ Closing(q)
    /\ query[q].state \in {"completed", "waiting"}
    /\ CloseWith(q, LET r == row[query[q].of] IN
                    IF call[q] = "settled" THEN r
                    ELSE MarkDoneFrom(r, IF call[q] = "queued" THEN "queued"
                                         ELSE "in_flight"))

CloseFailure(q) ==
    /\ Closing(q)
    /\ query[q].state = "failed"
    /\ CloseWith(q, LET r == row[query[q].of] IN
                    IF call[q] = "settled" THEN r
                    ELSE MarkFailed(r, "agent_error"))

\* A session limit reported as a success is bounced, perhaps to another lane.
CloseLimited(q) ==
    /\ Closing(q)
    /\ query[q].state = "limited"
    /\ \E l \in Lanes :
         CloseWith(q, LET r == row[query[q].of] IN
                      IF call[q] = "settled" THEN r
                      ELSE MarkBounced(r, FALSE, l))

\* verifyDoneClaims rejects the claimed deliverable.
CloseUnverified(q) ==
    /\ Closing(q)
    /\ query[q].state \in {"completed", "waiting"}
    /\ CloseWith(q, MarkFailed(row[query[q].of], "failed_verification"))

LoseCall(q) ==
    /\ call[q] = "sent"
    /\ call' = [call EXCEPT ![q] = "none"]
    /\ UNCHANGED <<row, query, tick>>

\* The worker repeats its call, whether or not an earlier one arrived.
RepeatCall(q) ==
    /\ query[q].state \in Endings
    /\ call[q] = "none"
    /\ call' = [call EXCEPT ![q] = "sent"]
    /\ UNCHANGED <<row, query, tick>>

--------------------------------------------------------------------------------
(* Off-process delivery: the caller sends /talk itself and reports the outcome *)
(* on /dispatches/:id/accept, /markFailed or /markBounced.                     *)

DirectTalk(d, q) ==
    /\ d \in Direct
    /\ row[d].status # "absent"
    /\ q \in Unused
    /\ query' = [query EXCEPT ![q] = NewQuery(d, "direct", row[d].attempts)]
    /\ UNCHANGED <<row, call, tick>>

DirectAccept(q) ==
    /\ query[q].by = "direct"
    /\ LET d == query[q].of IN
         /\ row[d].attempts < AttemptBound
         /\ row' = [row EXCEPT ![d] = AcceptDispatchStart(@, q)]
    /\ UNCHANGED <<query, call, tick>>

DirectFailed(d) ==
    /\ d \in Direct
    /\ \/ row' = [row EXCEPT ![d] = MarkFailed(@, "agent_error")]
       \/ \E due \in BOOLEAN : row' = [row EXCEPT ![d] = MarkBounced(@, due, @.lane)]
    /\ UNCHANGED <<query, call, tick>>

--------------------------------------------------------------------------------
(* The manager stops: rows and queries are on disk, the tick and the handlers  *)
(* that were running are gone.                                                 *)

ManagerRestart ==
    /\ tick' = Idle(NumLanes)
    /\ call' = [q \in Queries |-> IF Closing(q) THEN "none" ELSE call[q]]
    /\ UNCHANGED <<row, query>>

--------------------------------------------------------------------------------

ListedStep(s) ==
    \/ EvidenceDone(s) \/ EvidenceWaiting(s) \/ EvidenceFailed(s)
    \/ EvidenceSilent(s) \/ EvidenceKeep(s)
    \/ ReapBounce(s)
    \/ StaleFail(s) \/ StaleKeep(s)
    \/ SweepOne(s)
    \/ ClaimOne(s)
    \/ \E q \in Queries, reply \in Accepting : SendAccepted(s, q, reply)
    \/ \E reply \in Rejecting : SendRejected(s, reply)

TickStep ==
    \/ BeginEvidence \/ BeginReap \/ BeginStale \/ BeginSweep
    \/ SelectClaims \/ BeginStart \/ EndLane
    \/ \E s \in tick.todo : ListedStep(s)
    \/ ReapRequeue
    \/ RecordAgentStart \/ StartMissingQueryId \/ StartBounced
    \/ StartExhausted \/ StartFailed

CloseoutStep(q) ==
    \/ ReadForCloseout(q)
    \/ CloseSuccess(q) \/ CloseFailure(q) \/ CloseLimited(q) \/ CloseUnverified(q)

QueueStep ==
    \/ TickStep
    \/ \E d \in Dispatches : NotBeforePasses(d) \/ ClaimAges(d) \/ DirectFailed(d)
    \/ \E q \in Queries : \/ AgentOutput(q) \/ AgentQuiet(q) \/ AgentFinish(q)
                          \/ CloseoutStep(q) \/ LoseCall(q) \/ RepeatCall(q)
                          \/ DirectAccept(q)
    \/ \E d \in Dispatches, q \in Queries : DirectTalk(d, q)

Next == (\E d \in Dispatches : Enqueue(d)) \/ QueueStep \/ ManagerRestart

Spec == Init /\ [][Next]_vars

--------------------------------------------------------------------------------
(* Properties *)

\* Every variable has its type: the columns of the queue row, the agent-side
\* queries, the closeout calls and the tick's control state.
TypeOK == /\ row \in [Dispatches -> Rows]
          /\ query \in [Queries -> QueryRecords]
          /\ call \in [Queries -> CallStates]
          /\ tick \in Ticks

DirectlyStarted(d) == row[d].link # None /\ query[row[d].link].by = "direct"

ClaimedInFlight(l) == {d \in InFlight(l) : ~DirectlyStarted(d)}

\* The dispatches a lane has claimed never exceed its cap, whatever happens
\* between the headroom count, the UPDATEs of the batch and the starts.  Rows an
\* off-process caller put in flight by /accept are not counted: nothing checks
\* the cap for them.
SlotsBounded == \A l \in Lanes : Cardinality(ClaimedInFlight(l)) <= Cap[l]

\* Each claim pays for one /talk: two messages the scheduler sent for the same
\* dispatch were sent for different attempts, across bounces, reaps, lost
\* answers and restarts.  A second send on one attempt would escape the budget.
OneTalkPerAttempt ==
    \A q1, q2 \in Queries :
        /\ query[q1].of = query[q2].of /\ query[q1].attempt = query[q2].attempt
        /\ query[q1].state # "unused" /\ query[q2].state # "unused"
        /\ query[q1].by = "scheduler" /\ query[q2].by = "scheduler"
        => q1 = q2

\* The evidence sweep judges a row by its agent_query_id: that query was really
\* issued for this dispatch, on this attempt or an earlier one.
LinkIsOwn ==
    \A d \in Dispatches : row[d].link # None =>
        /\ query[row[d].link].of = d
        /\ query[row[d].link].state # "unused"
        /\ query[row[d].link].attempt <= row[d].attempts

\* A dispatch is done only if an agent finished some query of it without
\* reporting failure, however closeouts, evidence and retries interleave.
DoneIsEarned ==
    \A d \in Dispatches : row[d].status = "done" =>
        \E q \in Queries : /\ query[q].of = d
                          /\ query[q].state \in {"completed", "waiting", "limited"}

\* No late bounce, requeue, claim, accept or failure reopens or rewrites a row
\* that is done, and no operation of the queue reopens a failed one: the
\* compare-and-set guards are enough although every caller acts on stale reads.
SettledStays ==
    [][\A d \in Dispatches :
         row[d].status \in Terminal => row'[d].status = row[d].status]_vars

\* attempt_count moves only when a queued row goes in flight, one step at a time,
\* although a claim writes the count it selected before other rows were claimed:
\* no increment is lost and none is counted twice.
AttemptsMoveWithClaims ==
    [][\A d \in Dispatches :
         row'[d].attempts # row[d].attempts =>
            /\ row[d].status = "queued" /\ row'[d].status = "in_flight"
            /\ row'[d].attempts = row[d].attempts + 1]_vars

--------------------------------------------------------------------------------
(* The inductive invariant behind the safety properties *)

\* A row is inserted once, with every column at its default.
AbsentInv == \A d \in Dispatches : row[d].status = "absent" => row[d] = NoRow

\* What a snapshot the tick still holds says of the row it was taken from.
Held == tick.todo \cup tick.won

SentFor(s) == \E q \in Queries : /\ query[q].state # "unused"
                                /\ query[q].by = "scheduler"
                                /\ query[q].of = s.id
                                /\ query[q].attempt = s.attempts

QueriesInv ==
    \A q \in Queries :
        \/ query[q] = NoQuery
        \/ /\ query[q].state # "unused"
           /\ query[q].of \in Dispatches
           /\ row[query[q].of].status # "absent"
           /\ query[q].attempt <= row[query[q].of].attempts

SnapshotsInv ==
    /\ \A s \in Held : /\ row[s.id].status # "absent"
                       /\ s.attempts <= row[s.id].attempts
                       /\ s.link # None => /\ query[s.link].of = s.id
                                           /\ query[s.link].state # "unused"
    /\ \A s, t \in Held : s.id = t.id => s = t
    /\ tick.phase = "evidence" => \A s \in tick.todo : s.link # None

\* While a batch is being claimed: a selected row that is still queued has not
\* changed since it was selected.
ClaimInv ==
    /\ tick.phase # "claim" => tick.won = {}
    /\ tick.phase = "claim" =>
         /\ \A s \in tick.todo : row[s.id].status = "queued" =>
                /\ row[s.id].attempts = s.attempts
                /\ row[s.id].lane = tick.lane
         /\ \A s \in tick.won : row[s.id].status # "queued" /\ ~SentFor(s)

\* While a batch is being started: nothing puts its rows back in the queue.
StartInv ==
    /\ tick.phase = "start" =>
         \A s \in tick.todo : row[s.id].status # "queued" /\ ~SentFor(s)
    /\ tick.reply = "reaped" => tick.phase = "reap"
    /\ tick.reply # "none" =>
         /\ tick.about \in Dispatches
         /\ row[tick.about].status # "absent"
    /\ tick.reply \notin {"none", "reaped"} =>
         /\ tick.phase = "start"
         /\ row[tick.about].status # "queued"
    /\ tick.reply = "started" =>
         /\ tick.qid \in Queries
         /\ query[tick.qid].of = tick.about
         /\ query[tick.qid].state # "unused"
         /\ query[tick.qid].by = "scheduler"

\* The selected rows and those already in flight fit under the cap together.
SlotsInv ==
    tick.phase = "claim" /\ tick.todo # {} =>
        Cardinality(ClaimedInFlight(tick.lane) \cup {s.id : s \in tick.todo})
            <= Cap[tick.lane]

IInv == /\ TypeOK
        /\ AbsentInv /\ QueriesInv /\ LinkIsOwn /\ SnapshotsInv
        /\ ClaimInv /\ StartInv /\ OneTalkPerAttempt

\* What of this holds however rows are moved by others: every query stands for a
\* dispatch, and every link, snapshot and answer goes with a query of its own dispatch.
IssuedFor(q, d) == query[q].of = d /\ query[q].state # "unused"

Sound == /\ TypeOK
         /\ \A q \in Queries :
              query[q] # NoQuery => query[q].state # "unused" /\ query[q].of \in Dispatches
         /\ \A d \in Dispatches : row[d].link # None => IssuedFor(row[d].link, d)
         /\ \A s \in Held : s.link # None => IssuedFor(s.link, s.id)
         /\ tick.phase = "evidence" => \A s \in tick.todo : s.link # None
         /\ tick.reply # "none" => tick.about \in Dispatches
         /\ tick.reply = "started" => tick.qid \in Queries /\ IssuedFor(tick.qid, tick.about)

\* IInv holds without it, and it needs IInv.
SlotsIInv == SlotsBounded /\ SlotsInv

--------------------------------------------------------------------------------
(* Liveness *)

\* The interval timer keeps ticking, clocks advance, and an agent that stops
\* writing is noticed.  Nothing is asked of the agents themselves.
Fairness ==
    /\ WF_vars(TickStep)
    /\ \A d \in Dispatches : WF_vars(NotBeforePasses(d)) /\ WF_vars(ClaimAges(d))

\* The manager stops restarting, and a worker stops repeating its closeout.
Settling ==
    /\ <>[][~ManagerRestart]_vars
    /\ \A q \in Queries : <>[][~RepeatCall(q)]_vars

LiveSpec == Spec /\ Fairness /\ Settling

Producing(d) == /\ row[d].link # None
                /\ query[row[d].link].state = "processing"
                /\ query[row[d].link].out = "recent"

\* No dispatch holds a slot for ever and none is forgotten, whatever answer or
\* closeout was lost: an in-flight row is closed, bounced, reaped or expired unless
\* the query it is linked to keeps producing output, and the backoff of a bounced row
\* passes and the sweep requeues it or declares its retries exhausted.
ClaimsResolve ==
    \A d \in Dispatches :
        []<>(/\ row[d].status # "bounced"
             /\ row[d].status = "in_flight" => Producing(d))

================================================================================
