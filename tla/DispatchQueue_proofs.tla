-------------------------- MODULE DispatchQueue_proofs --------------------------
(* Theorems about the dispatch queue, for every number of dispatches, queries,  *)
(* lanes, slots and attempts: its invariant, what a step may do to a row, the   *)
(* slots of the lanes, and that the queue implements DispatchPromise.           *)
EXTENDS DispatchRefinement, FiniteSetTheorems, TLAPS

--------------------------------------------------------------------------------
(* The row operations *)

\* What closing, bouncing or leaving a row alone never does: it claims and
\* queues nothing, counts no attempt, relinks no query, reopens no settled row, and
\* changes the lane only of a row that is bounced.
Settles(r, s) ==
    /\ s \in Rows
    /\ s.attempts = r.attempts
    /\ s.link = r.link
    /\ IF r.status = "absent" THEN s = r ELSE s.status # "absent"
    /\ r.status \in Terminal => s.status = r.status
    /\ s.status \in {"queued", "in_flight", "needs_clarification"} => s.status = r.status
    /\ s.status # "bounced" => s.lane = r.lane

\* The operations that close or bounce a row settle it, and only markDone makes
\* a row done.
LEMMA RowOpsSettle ==
    ASSUME NEW r \in Rows
    PROVE  /\ Settles(r, r)
           /\ \A kind \in FailureKinds :
                /\ Settles(r, MarkFailed(r, kind))
                /\ MarkFailed(r, kind).status = "done" => r.status = "done"
           /\ Settles(r, MarkRetryExhausted(r))
           /\ MarkRetryExhausted(r).status = "done" => r.status = "done"
           /\ \A due \in BOOLEAN, l \in Lanes :
                /\ Settles(r, MarkBounced(r, due, l))
                /\ MarkBounced(r, due, l).status = "done" => r.status = "done"
           /\ \A st \in {"queued", "in_flight"} : Settles(r, MarkDoneFrom(r, st))
<1>1. ASSUME NEW kind \in FailureKinds
      PROVE  /\ Settles(r, MarkFailed(r, kind))
             /\ MarkFailed(r, kind).status = "done" => r.status = "done"
  BY DEF MarkFailed, Settles, Rows, Statuses, Ages, Terminal
<1>2. /\ Settles(r, MarkRetryExhausted(r))
      /\ MarkRetryExhausted(r).status = "done" => r.status = "done"
  BY DEF MarkRetryExhausted, Settles, Rows, Statuses, Ages, FailureKinds, Terminal
<1>3. ASSUME NEW due \in BOOLEAN, NEW l \in Lanes
      PROVE  /\ Settles(r, MarkBounced(r, due, l))
             /\ MarkBounced(r, due, l).status = "done" => r.status = "done"
  BY DEF MarkBounced, Settles, Rows, Statuses, Ages, Terminal
<1>4. ASSUME NEW st \in {"queued", "in_flight"} PROVE Settles(r, MarkDoneFrom(r, st))
  <2>1. CASE r.status = st
    <3> DEFINE s == [r EXCEPT !.status = "done", !.age = "fresh"]
    <3>1. /\ s \in Rows
          /\ s.status = "done" /\ s.attempts = r.attempts /\ s.link = r.link
      BY DEF Rows, Statuses, Ages
    <3>2. r.status \notin {"absent"} \cup Terminal
      BY <2>1 DEF Terminal
    <3>3. MarkDoneFrom(r, st) = s
      BY <2>1 DEF MarkDoneFrom
    <3> QED
      BY <3>1, <3>2, <3>3 DEF Settles
  <2>2. CASE r.status # st
    BY <2>2 DEF MarkDoneFrom, Settles
  <2> QED
    BY <2>1, <2>2
<1>5. Settles(r, r)
  BY DEF Settles
<1> QED
  BY <1>1, <1>2, <1>3, <1>4, <1>5

\* requeueAfterBounce moves a bounced row and nothing else.
LEMMA RequeueEffect ==
    ASSUME NEW r \in Rows
    PROVE  /\ RequeueAfterBounce(r) \in Rows
           /\ RequeueAfterBounce(r).attempts = r.attempts
           /\ RequeueAfterBounce(r).link = r.link
           /\ RequeueAfterBounce(r).lane = r.lane
           /\ \/ RequeueAfterBounce(r).status = r.status
              \/ r.status = "bounced" /\ RequeueAfterBounce(r).status = "queued"
  BY DEF RequeueAfterBounce, Rows, Statuses

\* A claim counts one attempt more than the count that was selected.
LEMMA ClaimEffect ==
    ASSUME NEW r \in Rows, NEW n \in Nat
    PROVE  /\ ClaimRow(r, n) \in Rows
           /\ r.status # "queued" => ClaimRow(r, n) = r
           /\ r.status = "queued" =>
                /\ ClaimRow(r, n).status = "in_flight"
                /\ ClaimRow(r, n).attempts = n + 1
                /\ ClaimRow(r, n).link = r.link
                /\ ClaimRow(r, n).lane = r.lane
<1>1. n + 1 \in Nat
  OBVIOUS
<1> QED
  BY <1>1 DEF ClaimRow, Rows, Statuses, Ages

\* acceptDispatchStart links the query; on a queued row it is also the claim.
LEMMA AcceptEffect ==
    ASSUME NEW r \in Rows, NEW q \in Queries
    PROVE  /\ AcceptDispatchStart(r, q) \in Rows
           /\ \/ AcceptDispatchStart(r, q) = r
              \/ /\ r.status = "in_flight" /\ r.link \in {None, q}
                 /\ AcceptDispatchStart(r, q).status = "in_flight"
                 /\ AcceptDispatchStart(r, q).attempts = r.attempts
                 /\ AcceptDispatchStart(r, q).link = q
                 /\ AcceptDispatchStart(r, q).lane = r.lane
              \/ /\ r.status = "queued"
                 /\ AcceptDispatchStart(r, q).status = "in_flight"
                 /\ AcceptDispatchStart(r, q).attempts = r.attempts + 1
                 /\ AcceptDispatchStart(r, q).link = q
                 /\ AcceptDispatchStart(r, q).lane = r.lane
<1>1. CASE r.status = "queued"
  <2>1. r.attempts \in Nat
    BY DEF Rows
  <2>2. r.attempts + 1 \in Nat
    BY <2>1
  <2>3. AcceptDispatchStart(r, q) =
          [r EXCEPT !.status = "in_flight", !.attempts = r.attempts + 1,
                    !.age = "fresh", !.link = q]
    BY <1>1 DEF AcceptDispatchStart, Rows
  <2> QED
    BY <1>1, <2>2, <2>3 DEF Rows, Statuses, Ages
<1>2. CASE r.status # "queued"
  BY <1>2 DEF AcceptDispatchStart, Rows
<1> QED
  BY <1>1, <1>2

--------------------------------------------------------------------------------
(* What a step may do to the rows, the queries and the tick's list, and which   *)
(* parts of the invariant that is enough for.                                   *)

RowsSettle == \A d \in Dispatches : Settles(row[d], row'[d])

\* True of every step.
RowsGrow ==
    \A d \in Dispatches :
        /\ row'[d] \in Rows
        /\ row[d].attempts <= row'[d].attempts
        /\ row[d].status # "absent" => row'[d].status # "absent"
        /\ row'[d].status = "absent" => row'[d] = row[d]

LinksKeep == \A d \in Dispatches : row'[d].link = row[d].link

\* True of every step outside the reap and sweep phases.
NothingRequeued ==
    \A d \in Dispatches : row[d].status # "absent" /\ row'[d].status = "queued" =>
        /\ row[d].status = "queued"
        /\ row'[d].attempts = row[d].attempts
        /\ row'[d].lane = row[d].lane

\* A row that becomes done has a query that ended well.
Earns(d) ==
    row'[d].status = "done" =>
        \/ row[d].status = "done"
        \/ \E q \in Queries : /\ query[q].of = d
                             /\ query[q].state \in {"completed", "waiting", "limited"}

EarnsDone == \A d \in Dispatches : Earns(d)

\* True of every step.
QueriesGrow ==
    \A q \in Queries :
        /\ query[q].state # "unused" => /\ query'[q].state # "unused"
                                        /\ query'[q].of = query[q].of
                                        /\ query'[q].by = query[q].by
                                        /\ query'[q].attempt = query[q].attempt
        /\ query[q].state \in Endings => query'[q].state = query[q].state

NoNewQuery == \A q \in Queries : query[q].state = "unused" => query'[q] = query[q]

NoNewSend == \A q \in Queries :
    query[q].state = "unused" => \/ query'[q].state = "unused"
                                 \/ query'[q].by = "direct"

TodoKeeps ==
    /\ tick'.phase = tick.phase
    /\ tick'.lane = tick.lane
    /\ tick'.todo \subseteq tick.todo
    /\ tick'.won = tick.won

ReplyKeeps ==
    \/ tick'.reply = "none"
    \/ tick'.reply = tick.reply /\ tick'.about = tick.about /\ tick'.qid = tick.qid

\* Rows that settle grow, keep their link and are not put back in the queue.
LEMMA SettleIsGrowth ==
    ASSUME TypeOK, RowsSettle PROVE RowsGrow /\ LinksKeep /\ NothingRequeued
<1> SUFFICES ASSUME NEW d \in Dispatches
             PROVE  /\ row'[d] \in Rows
                    /\ row'[d].link = row[d].link
                    /\ row[d].attempts <= row'[d].attempts
                    /\ row[d].status # "absent" => row'[d].status # "absent"
                    /\ row'[d].status = "absent" => row'[d] = row[d]
                    /\ row'[d].status = "queued" => /\ row[d].status = "queued"
                                                    /\ row'[d].attempts = row[d].attempts
                                                    /\ row'[d].lane = row[d].lane
  BY DEF RowsGrow, LinksKeep, NothingRequeued
<1>1. Settles(row[d], row'[d])
  BY DEF RowsSettle
<1>2. row[d] \in Rows /\ row[d].attempts \in Nat
  BY DEF TypeOK, Rows
<1> QED
  BY <1>1, <1>2 DEF Settles

\* Attempt counts are numbers.
LEMMA Counts ==
    ASSUME TypeOK
    PROVE  /\ \A d \in Dispatches : row[d] \in Rows /\ row[d].attempts \in Nat
           /\ \A q \in Queries : query[q].attempt \in Nat
           /\ \A s \in Held : /\ s \in Snapshots /\ s.attempts \in Nat
                              /\ s.id \in Dispatches
                              /\ s.link \in Queries \cup {None}
  BY DEF TypeOK, Rows, QueryRecords, Held, Ticks, Snapshots

\* A row stays absent only untouched.
LEMMA AbsentStep == ASSUME AbsentInv, RowsGrow PROVE AbsentInv'
  BY DEF AbsentInv, RowsGrow

\* A query in use goes on naming an existing row, at an attempt it has reached.
LEMMA QueriesStep ==
    ASSUME IInv, TypeOK', RowsGrow, QueriesGrow, NEW q \in Queries,
           query[q].state # "unused"
    PROVE  /\ query'[q].state # "unused"
           /\ query'[q].of \in Dispatches
           /\ row'[query'[q].of].status # "absent"
           /\ query'[q].attempt <= row'[query'[q].of].attempts
<1>1. query[q] # NoQuery
  BY DEF NoQuery
<1>2. /\ query[q].of \in Dispatches
      /\ row[query[q].of].status # "absent"
      /\ query[q].attempt <= row[query[q].of].attempts
  BY <1>1 DEF QueriesInv, IInv
<1>3. /\ query[q].attempt \in Nat
      /\ row[query[q].of].attempts \in Nat
      /\ row'[query[q].of].attempts \in Nat
  BY <1>2, Counts DEF IInv, RowsGrow, Rows
<1> QED
  BY <1>2, <1>3 DEF QueriesGrow, RowsGrow

\* So the invariant on queries needs care only when a query is issued.
LEMMA QueriesKept ==
    ASSUME IInv, TypeOK', RowsGrow, QueriesGrow, NoNewQuery PROVE QueriesInv'
<1> SUFFICES ASSUME NEW q \in Queries, query'[q] # NoQuery
             PROVE  /\ query'[q].state # "unused"
                    /\ query'[q].of \in Dispatches
                    /\ row'[query'[q].of].status # "absent"
                    /\ query'[q].attempt <= row'[query'[q].of].attempts
  BY DEF QueriesInv
<1>1. query[q].state # "unused"
  BY DEF NoNewQuery, QueriesInv, IInv
<1> QED
  BY <1>1, QueriesStep

\* A link once right stays right.
LEMMA LinkStep ==
    ASSUME IInv, TypeOK', RowsGrow, QueriesGrow, NEW d \in Dispatches,
           row'[d].link = row[d].link, row'[d].link # None
    PROVE  /\ query'[row'[d].link].of = d
           /\ query'[row'[d].link].state # "unused"
           /\ query'[row'[d].link].attempt <= row'[d].attempts
<1>1. row[d].link \in Queries
  BY DEF IInv, TypeOK, Rows
<1>2. /\ query[row[d].link].attempt \in Nat
      /\ row[d].attempts \in Nat /\ row'[d].attempts \in Nat
  BY <1>1, Counts DEF IInv, RowsGrow, Rows
<1> QED
  BY <1>1, <1>2 DEF LinkIsOwn, QueriesGrow, RowsGrow, IInv

\* Every row keeps its link, so every link stays right.
LEMMA LinksKept ==
    ASSUME IInv, TypeOK', RowsGrow, LinksKeep, QueriesGrow PROVE LinkIsOwn'
  BY LinkStep DEF LinkIsOwn, LinksKeep

\* Only a new send can make two for the same attempt.
LEMMA TalksKept ==
    ASSUME OneTalkPerAttempt, QueriesGrow, NoNewSend PROVE OneTalkPerAttempt'
  BY DEF OneTalkPerAttempt, QueriesGrow, NoNewSend

\* An ending that earned a done stays.
LEMMA EarnedKept ==
    ASSUME DoneIsEarned, QueriesGrow, EarnsDone PROVE DoneIsEarned'
<1> SUFFICES ASSUME NEW d \in Dispatches, row'[d].status = "done"
             PROVE  \E q \in Queries : /\ query'[q].of = d
                                      /\ query'[q].state \in {"completed", "waiting", "limited"}
  BY DEF DoneIsEarned
<1>1. PICK q \in Queries : /\ query[q].of = d
                           /\ query[q].state \in {"completed", "waiting", "limited"}
  BY DEF DoneIsEarned, EarnsDone, Earns
<1> QED
  BY <1>1 DEF QueriesGrow, Endings

\* What holds of a snapshot goes on holding.
LEMMA SnapshotStep ==
    ASSUME IInv, RowsGrow, QueriesGrow, NEW s \in Held
    PROVE  /\ row'[s.id].status # "absent"
           /\ s.attempts <= row'[s.id].attempts
           /\ s.link # None => /\ query'[s.link].of = s.id
                               /\ query'[s.link].state # "unused"
<1>1. /\ s.id \in Dispatches /\ s.attempts \in Nat
      /\ s.link \in Queries \cup {None}
  BY Counts DEF IInv
<1>2. row[s.id].attempts \in Nat /\ row'[s.id].attempts \in Nat
  BY <1>1, Counts DEF IInv, RowsGrow, Rows
<1>3. /\ row[s.id].status # "absent" /\ s.attempts <= row[s.id].attempts
      /\ s.link # None => /\ query[s.link].of = s.id
                          /\ query[s.link].state # "unused"
  BY DEF SnapshotsInv, IInv
<1> QED
  BY <1>1, <1>2, <1>3 DEF RowsGrow, QueriesGrow

\* A list that only shrinks keeps what holds of its snapshots.
LEMMA SnapshotsKept ==
    ASSUME IInv, RowsGrow, QueriesGrow, TodoKeeps PROVE SnapshotsInv'
<1>1. Held' \subseteq Held
  BY DEF Held, TodoKeeps
<1>2. \A s \in Held' : /\ row'[s.id].status # "absent"
                       /\ s.attempts <= row'[s.id].attempts
                       /\ s.link # None => /\ query'[s.link].of = s.id
                                           /\ query'[s.link].state # "unused"
  BY <1>1, SnapshotStep
<1>3. \A s, t \in Held' : s.id = t.id => s = t
  BY <1>1 DEF SnapshotsInv, IInv
<1>4. tick'.phase = "evidence" => \A s \in tick'.todo : s.link # None
  BY DEF TodoKeeps, SnapshotsInv, IInv
<1> QED
  BY <1>2, <1>3, <1>4 DEF SnapshotsInv

\* A batch being claimed or started is disturbed only by a requeue or a send.
LEMMA ClaimKept ==
    ASSUME IInv, RowsGrow, NothingRequeued, QueriesGrow, NoNewSend, TodoKeeps
    PROVE  /\ ClaimInv'
           /\ tick'.phase = "start" =>
                \A s \in tick'.todo : row'[s.id].status # "queued" /\ ~SentFor(s)'
<1>1. \A s \in Held : s.id \in Dispatches /\ row[s.id].status # "absent"
  BY Counts DEF IInv, SnapshotsInv
<1>2. \A s \in Held : ~SentFor(s) => ~SentFor(s)'
  BY DEF SentFor, QueriesGrow, NoNewSend
<1> QED
  BY <1>1, <1>2 DEF IInv, ClaimInv, StartInv, Held, TodoKeeps, NothingRequeued

\* An answer the tick has yet to act on is about a row that is not queued.
LEMMA ReplyKept ==
    ASSUME IInv, RowsGrow, NothingRequeued, QueriesGrow, ReplyKeeps,
           tick'.phase = tick.phase
    PROVE  /\ tick'.reply = "reaped" => tick'.phase = "reap"
           /\ tick'.reply # "none" => /\ tick'.about \in Dispatches
                                      /\ row'[tick'.about].status # "absent"
           /\ tick'.reply \notin {"none", "reaped"} =>
                /\ tick'.phase = "start"
                /\ row'[tick'.about].status # "queued"
           /\ tick'.reply = "started" => /\ tick'.qid \in Queries
                                         /\ query'[tick'.qid].of = tick'.about
                                         /\ query'[tick'.qid].state # "unused"
                                         /\ query'[tick'.qid].by = "scheduler"
  BY DEF IInv, StartInv, ReplyKeeps, RowsGrow, NothingRequeued, QueriesGrow

--------------------------------------------------------------------------------
(* The steps that only settle rows                                              *)

Calm == /\ TypeOK'
        /\ RowsSettle /\ EarnsDone
        /\ QueriesGrow /\ NoNewQuery
        /\ TodoKeeps /\ ReplyKeeps

\* A calm step keeps the whole invariant.
LEMMA CalmStep == ASSUME IInv, Calm PROVE IInv'
<1>1. TypeOK /\ TypeOK'
  BY DEF IInv, Calm
<1>2. RowsGrow /\ LinksKeep /\ NothingRequeued
  BY <1>1, SettleIsGrowth DEF Calm
<1>3. QueriesGrow /\ NoNewQuery /\ NoNewSend
  BY DEF Calm, NoNewQuery, NoNewSend
<1>4. AbsentInv' /\ QueriesInv' /\ LinkIsOwn'
  BY <1>1, <1>2, <1>3, AbsentStep, QueriesKept, LinksKept DEF IInv
<1>5. OneTalkPerAttempt'
  BY <1>3, TalksKept DEF IInv
<1>6. SnapshotsInv' /\ ClaimInv' /\ StartInv'
  BY <1>2, <1>3, SnapshotsKept, ClaimKept, ReplyKept DEF Calm, StartInv, TodoKeeps
<1> QED
  BY <1>1, <1>4, <1>5, <1>6 DEF IInv

\* One row replaced by one that settles it.
LEMMA OneRow ==
    ASSUME TypeOK, NEW d \in Dispatches, NEW r, Settles(row[d], r),
           row' = [row EXCEPT ![d] = r],
           r.status = "done" =>
             \/ row[d].status = "done"
             \/ \E q \in Queries : /\ query[q].of = d
                                  /\ query[q].state \in {"completed", "waiting", "limited"}
    PROVE  row' \in [Dispatches -> Rows] /\ RowsSettle /\ EarnsDone
<1>1. row \in [Dispatches -> Rows] /\ r \in Rows
  BY DEF TypeOK, Settles
<1>2. row' \in [Dispatches -> Rows]
  BY <1>1
<1>3. \A e \in Dispatches : row'[e] = IF e = d THEN r ELSE row[e]
  BY <1>1
<1>4. RowsSettle
  BY <1>1, <1>3 DEF RowsSettle, Settles
<1>5. EarnsDone
  BY <1>3 DEF EarnsDone, Earns
<1> QED
  BY <1>2, <1>4, <1>5

\* The invariant says all that is sound whoever moves the rows.
LEMMA IInvIsSound == IInv => Sound
<1> SUFFICES ASSUME IInv PROVE Sound
  OBVIOUS
<1>1. \A q \in Queries :
        query[q] # NoQuery => query[q].state # "unused" /\ query[q].of \in Dispatches
  BY DEF IInv, QueriesInv
<1>2. \A d \in Dispatches : row[d].link # None => IssuedFor(row[d].link, d)
  BY DEF IInv, LinkIsOwn, IssuedFor
<1>3. \A s \in Held : s.link # None => IssuedFor(s.link, s.id)
  BY DEF IInv, SnapshotsInv, IssuedFor
<1>4. /\ tick.phase = "evidence" => \A s \in tick.todo : s.link # None
      /\ tick.reply # "none" => tick.about \in Dispatches
      /\ tick.reply = "started" => tick.qid \in Queries /\ IssuedFor(tick.qid, tick.about)
  BY DEF IInv, SnapshotsInv, StartInv, IssuedFor
<1>5. TypeOK
  BY DEF IInv
<1> QED
  BY <1>1, <1>2, <1>3, <1>4, <1>5 DEF Sound

\* Rows, queries or the tick left alone.
LEMMA Unchanged ==
    ASSUME TypeOK
    PROVE  /\ UNCHANGED row => /\ row' \in [Dispatches -> Rows]
                               /\ RowsSettle /\ EarnsDone
           /\ UNCHANGED query => /\ query' \in [Queries -> QueryRecords]
                                 /\ QueriesGrow /\ NoNewQuery
           /\ UNCHANGED tick => tick' \in Ticks /\ TodoKeeps /\ ReplyKeeps
<1>1. UNCHANGED row => RowsSettle
  BY DEF TypeOK, RowsSettle, Settles
<1> QED
  BY <1>1 DEF TypeOK, EarnsDone, Earns, QueriesGrow, NoNewQuery, TodoKeeps, ReplyKeeps

\* A listed row that is settled and crossed off the list.
LEMMA ChangeIsCalm ==
    ASSUME Sound, NEW s \in tick.todo, NEW r, Change(s, r), Settles(row[s.id], r),
           tick.reply = "none",
           r.status = "done" =>
             \/ row[s.id].status = "done"
             \/ \E q \in Queries : /\ query[q].of = s.id
                                  /\ query[q].state \in {"completed", "waiting", "limited"}
    PROVE  Calm
<1>1. TypeOK /\ s.id \in Dispatches
  BY Counts DEF Sound, Held
<1>2. row' \in [Dispatches -> Rows] /\ RowsSettle /\ EarnsDone
  BY <1>1, OneRow DEF Change
<1>3. query' \in [Queries -> QueryRecords] /\ QueriesGrow /\ NoNewQuery
  BY <1>1, Unchanged DEF Change
<1>4. tick' \in Ticks /\ TodoKeeps /\ ReplyKeeps
  BY <1>1 DEF Change, TypeOK, Ticks, TodoKeeps, ReplyKeeps
<1>5. call' \in [Queries -> CallStates]
  BY <1>1 DEF Change, TypeOK
<1> QED
  BY <1>2, <1>3, <1>4, <1>5 DEF Calm, TypeOK

\* An answer acted on by settling its row.
LEMMA AnswerIsCalm ==
    ASSUME Sound, NEW r, ActOnAnswer(r), tick.about \in Dispatches,
           Settles(row[tick.about], r),
           r.status = "done" => row[tick.about].status = "done"
    PROVE  Calm
<1>1. TypeOK
  BY DEF Sound
<1>2. row' \in [Dispatches -> Rows] /\ RowsSettle /\ EarnsDone
  BY <1>1, OneRow DEF ActOnAnswer
<1>3. query' \in [Queries -> QueryRecords] /\ QueriesGrow /\ NoNewQuery
  BY <1>1, Unchanged DEF ActOnAnswer
<1>4. tick' \in Ticks /\ TodoKeeps /\ ReplyKeeps
  BY <1>1 DEF ActOnAnswer, TypeOK, Ticks, Replies, TodoKeeps, ReplyKeeps
<1>5. call' \in [Queries -> CallStates]
  BY <1>1 DEF ActOnAnswer, TypeOK
<1> QED
  BY <1>2, <1>3, <1>4, <1>5 DEF Calm, TypeOK

\* A closeout that settles the row of its query.
LEMMA CloseIsCalm ==
    ASSUME Sound, NEW q \in Queries, NEW r, CloseWith(q, r),
           query[q].state # "unused", Settles(row[query[q].of], r),
           r.status = "done" =>
             \/ row[query[q].of].status = "done"
             \/ query[q].state \in {"completed", "waiting", "limited"}
    PROVE  Calm
<1>1. TypeOK /\ query[q].of \in Dispatches
  BY DEF Sound, NoQuery
<1>2. row' \in [Dispatches -> Rows] /\ RowsSettle /\ EarnsDone
  BY <1>1, OneRow DEF CloseWith
<1>3. /\ query' \in [Queries -> QueryRecords] /\ QueriesGrow /\ NoNewQuery
      /\ tick' \in Ticks /\ TodoKeeps /\ ReplyKeeps
  BY <1>1, Unchanged DEF CloseWith
<1>4. call' \in [Queries -> CallStates]
  BY <1>1 DEF CloseWith, TypeOK, CallStates
<1> QED
  BY <1>2, <1>3, <1>4 DEF Calm, TypeOK

\* The phases that act on listed rows, except the claims, the sends and the steps
\* that requeue.
LEMMA ListedIsCalm ==
    ASSUME Sound, NEW s \in tick.todo,
           \/ EvidenceDone(s) \/ EvidenceWaiting(s) \/ EvidenceFailed(s)
           \/ EvidenceSilent(s) \/ EvidenceKeep(s)
           \/ StaleFail(s) \/ StaleKeep(s)
    PROVE  Calm
<1>1. /\ s.id \in Dispatches /\ row[s.id] \in Rows
      /\ row[s.id].lane \in Lanes
  BY Counts DEF Sound, Held, Rows
<1>2. {"failed_verification", "query_ended", "scheduler_wedged"} \subseteq FailureKinds
  BY DEF FailureKinds
<1>3. CASE EvidenceDone(s)
  <2>1. tick.phase = "evidence" /\ tick.reply = "none"
    BY <1>3 DEF EvidenceDone, Take
  <2>2. s.link \in Queries /\ query[s.link].of = s.id
    BY <2>1, Counts DEF Sound, IssuedFor, Held
  <2>3. query[s.link].state \in {"completed", "waiting", "limited"}
    BY <1>3 DEF EvidenceDone
  <2> QED
    BY <1>1, <1>3, <2>1, <2>2, <2>3, RowOpsSettle, ChangeIsCalm DEF EvidenceDone
<1>4. CASE EvidenceWaiting(s)
  BY <1>1, <1>2, <1>4, RowOpsSettle, ChangeIsCalm DEF EvidenceWaiting, Take
<1>5. CASE EvidenceFailed(s)
  BY <1>1, <1>2, <1>5, RowOpsSettle, ChangeIsCalm DEF EvidenceFailed, Take
<1>6. CASE EvidenceSilent(s)
  <2>1. CASE s.attempts >= MaxAttempts
    BY <1>1, <1>6, <2>1, RowOpsSettle, ChangeIsCalm DEF EvidenceSilent, Take
  <2>2. CASE ~(s.attempts >= MaxAttempts)
    BY <1>1, <1>6, <2>2, RowOpsSettle, ChangeIsCalm DEF EvidenceSilent, Take
  <2> QED
    BY <2>1, <2>2
<1>7. CASE EvidenceKeep(s)
  BY <1>1, <1>7, RowOpsSettle, ChangeIsCalm DEF EvidenceKeep, Take
<1>8. CASE StaleFail(s)
  BY <1>1, <1>2, <1>8, RowOpsSettle, ChangeIsCalm DEF StaleFail, Take
<1>9. CASE StaleKeep(s)
  BY <1>1, <1>9, RowOpsSettle, ChangeIsCalm DEF StaleKeep, Take
<1> QED
  BY <1>3, <1>4, <1>5, <1>6, <1>7, <1>8, <1>9

\* The answers to /talk that end or back off the attempt.
LEMMA AnsweredIsCalm ==
    ASSUME Sound,
           StartMissingQueryId \/ StartBounced \/ StartExhausted \/ StartFailed
    PROVE  Calm
<1>1. tick.reply # "none"
  BY DEF StartMissingQueryId, StartBounced, StartExhausted, StartFailed, Answered
<1>2. tick.about \in Dispatches
  BY <1>1 DEF Sound
<1>3. row[tick.about] \in Rows
  BY <1>2, Counts DEF Sound
<1>4. {"auth_required", "agent_error"} \subseteq FailureKinds
  BY DEF FailureKinds
<1>5. CASE StartMissingQueryId
  BY <1>2, <1>3, <1>5, RowOpsSettle, AnswerIsCalm DEF StartMissingQueryId
<1>6. CASE StartBounced
  <2>1. PICK l \in Lanes : ActOnAnswer(MarkBounced(row[tick.about], FALSE, l))
    BY <1>6 DEF StartBounced
  <2> QED
    BY <1>2, <1>3, <2>1, RowOpsSettle, AnswerIsCalm
<1>7. CASE StartExhausted
  BY <1>2, <1>3, <1>7, RowOpsSettle, AnswerIsCalm DEF StartExhausted
<1>8. CASE StartFailed
  BY <1>2, <1>3, <1>4, <1>8, RowOpsSettle, AnswerIsCalm DEF StartFailed
<1> QED
  BY <1>5, <1>6, <1>7, <1>8

\* The closeouts.
LEMMA ClosesAreCalm ==
    ASSUME Sound, NEW q \in Queries,
           CloseSuccess(q) \/ CloseFailure(q) \/ CloseLimited(q) \/ CloseUnverified(q)
    PROVE  Calm
<1>1. query[q].state \in {"completed", "waiting", "limited", "failed"}
  BY DEF CloseSuccess, CloseFailure, CloseLimited, CloseUnverified
<1>2. query[q].state # "unused" /\ query[q].of \in Dispatches
  BY <1>1 DEF Sound, NoQuery
<1>3. row[query[q].of] \in Rows
  BY <1>2, Counts DEF Sound
<1>4. {"failed_verification", "agent_error"} \subseteq FailureKinds
  BY DEF FailureKinds
<1>5. CASE CloseSuccess(q)
  <2> DEFINE r == row[query[q].of]
             st == IF call[q] = "queued" THEN "queued" ELSE "in_flight"
             c == IF call[q] = "settled" THEN r ELSE MarkDoneFrom(r, st)
  <2>1. Settles(r, c)
    BY <1>3, RowOpsSettle
  <2>2. CloseWith(q, c) /\ query[q].state \in {"completed", "waiting", "limited"}
    BY <1>5 DEF CloseSuccess
  <2> QED
    BY <1>2, <2>1, <2>2, CloseIsCalm
<1>6. CASE CloseFailure(q)
  <2> DEFINE r == row[query[q].of]
             c == IF call[q] = "settled" THEN r ELSE MarkFailed(r, "agent_error")
  <2>1. Settles(r, c) /\ (c.status = "done" => r.status = "done")
    BY <1>3, <1>4, RowOpsSettle
  <2>2. CloseWith(q, c)
    BY <1>6 DEF CloseFailure
  <2> QED
    BY <1>2, <2>1, <2>2, CloseIsCalm
<1>7. CASE CloseLimited(q)
  <2>1. PICK l \in Lanes :
          CloseWith(q, IF call[q] = "settled" THEN row[query[q].of]
                       ELSE MarkBounced(row[query[q].of], FALSE, l))
    BY <1>7 DEF CloseLimited
  <2> DEFINE r == row[query[q].of]
             c == IF call[q] = "settled" THEN r ELSE MarkBounced(r, FALSE, l)
  <2>2. Settles(r, c) /\ (c.status = "done" => r.status = "done")
    BY <1>3, RowOpsSettle
  <2>3. CloseWith(q, c)
    BY <2>1
  <2> QED
    BY <1>2, <2>2, <2>3, CloseIsCalm
<1>8. CASE CloseUnverified(q)
  BY <1>2, <1>3, <1>4, <1>8, RowOpsSettle, CloseIsCalm DEF CloseUnverified
<1> QED
  BY <1>5, <1>6, <1>7, <1>8

\* Deadlines that pass, and failures an off-process caller reports.
LEMMA RowClocksAreCalm ==
    ASSUME Sound, NEW d \in Dispatches,
           NotBeforePasses(d) \/ ClaimAges(d) \/ DirectFailed(d)
    PROVE  Calm
<1>1. TypeOK /\ row[d] \in Rows /\ row[d].lane \in Lanes
  BY Counts DEF Sound, Rows
<1>2. UNCHANGED <<query, call, tick>>
  BY DEF NotBeforePasses, ClaimAges, DirectFailed
<1>3. PICK r : /\ row' = [row EXCEPT ![d] = r]
               /\ Settles(row[d], r)
               /\ r.status = "done" => row[d].status = "done"
  <2>1. CASE NotBeforePasses(d)
    <3> DEFINE r == [row[d] EXCEPT !.due = TRUE]
    <3>1. row' = [row EXCEPT ![d] = r] /\ row[d].status # "absent"
      BY <1>1, <2>1 DEF NotBeforePasses
    <3>2. Settles(row[d], r) /\ (r.status = "done" => row[d].status = "done")
      BY <1>1, <3>1 DEF Settles, Rows
    <3> QED
      BY <3>1, <3>2
  <2>2. CASE ClaimAges(d)
    <3>1. PICK a \in Ages : /\ row' = [row EXCEPT ![d] = [row[d] EXCEPT !.age = a]]
                            /\ row[d].status # "absent"
      BY <1>1, <2>2 DEF ClaimAges, Ages
    <3> DEFINE r == [row[d] EXCEPT !.age = a]
    <3>2. Settles(row[d], r) /\ (r.status = "done" => row[d].status = "done")
      BY <1>1, <3>1 DEF Settles, Rows
    <3> QED
      BY <3>1, <3>2
  <2>3. CASE DirectFailed(d)
    <3>1. CASE row' = [row EXCEPT ![d] = MarkFailed(row[d], "agent_error")]
      BY <1>1, <3>1, RowOpsSettle DEF FailureKinds
    <3>2. CASE \E due \in BOOLEAN :
                 row' = [row EXCEPT ![d] = MarkBounced(row[d], due, row[d].lane)]
      BY <1>1, <3>2, RowOpsSettle
    <3> QED
      BY <2>3, <3>1, <3>2, <1>1 DEF DirectFailed, TypeOK
  <2> QED
    BY <2>1, <2>2, <2>3
<1>4. row' \in [Dispatches -> Rows] /\ RowsSettle /\ EarnsDone
  BY <1>1, <1>3, OneRow
<1>5. /\ query' \in [Queries -> QueryRecords] /\ QueriesGrow /\ NoNewQuery
      /\ tick' \in Ticks /\ TodoKeeps /\ ReplyKeeps
  BY <1>1, <1>2, Unchanged
<1>6. call' \in [Queries -> CallStates]
  BY <1>1, <1>2 DEF TypeOK
<1> QED
  BY <1>4, <1>5, <1>6 DEF Calm, TypeOK

\* The agents' own steps and the travels of their closeout calls.
LEMMA AgentsAreCalm ==
    ASSUME Sound, NEW q \in Queries,
           \/ AgentOutput(q) \/ AgentQuiet(q) \/ AgentFinish(q)
           \/ ReadForCloseout(q) \/ LoseCall(q) \/ RepeatCall(q)
    PROVE  Calm
<1>1. TypeOK /\ query[q] \in QueryRecords
  BY DEF Sound, TypeOK
<1>2. UNCHANGED <<row, tick>>
  BY DEF AgentOutput, AgentQuiet, AgentFinish, ReadForCloseout, LoseCall, RepeatCall
<1>3. /\ row' \in [Dispatches -> Rows] /\ RowsSettle /\ EarnsDone
      /\ tick' \in Ticks /\ TodoKeeps /\ ReplyKeeps
  BY <1>1, <1>2, Unchanged
<1>4. call' \in [Queries -> CallStates]
  BY <1>1 DEF TypeOK, CallStates, SeenAs, AgentOutput, AgentQuiet, AgentFinish,
              ReadForCloseout, LoseCall, RepeatCall
<1>5. query' \in [Queries -> QueryRecords] /\ QueriesGrow /\ NoNewQuery
  <2>1. CASE UNCHANGED query
    BY <1>1, <2>1, Unchanged
  <2>2. ASSUME NEW r \in QueryRecords, query' = [query EXCEPT ![q] = r],
               query[q].state = "processing", r.state # "unused",
               r.of = query[q].of, r.by = query[q].by, r.attempt = query[q].attempt
        PROVE  query' \in [Queries -> QueryRecords] /\ QueriesGrow /\ NoNewQuery
    BY <1>1, <2>2 DEF TypeOK, QueriesGrow, NoNewQuery, Endings
  <2>3. CASE AgentOutput(q)
    <3> DEFINE r == [query[q] EXCEPT !.out = "recent"]
    <3>1. /\ r \in QueryRecords /\ r.state = query[q].state
          /\ r.of = query[q].of /\ r.by = query[q].by /\ r.attempt = query[q].attempt
      BY <1>1 DEF QueryRecords
    <3>2. query' = [query EXCEPT ![q] = r] /\ query[q].state = "processing"
      BY <2>3 DEF AgentOutput
    <3> QED
      BY <2>2, <3>1, <3>2
  <2>4. CASE AgentQuiet(q)
    <3> DEFINE r == [query[q] EXCEPT !.out = "quiet"]
    <3>1. /\ r \in QueryRecords /\ r.state = query[q].state
          /\ r.of = query[q].of /\ r.by = query[q].by /\ r.attempt = query[q].attempt
      BY <1>1 DEF QueryRecords
    <3>2. query' = [query EXCEPT ![q] = r] /\ query[q].state = "processing"
      BY <2>4 DEF AgentQuiet
    <3> QED
      BY <2>2, <3>1, <3>2
  <2>5. CASE AgentFinish(q)
    <3>1. PICK o \in Endings : /\ query[q].state = "processing"
                               /\ query' = [query EXCEPT ![q].state = o]
      BY <2>5, OutcomesAssumption DEF AgentFinish
    <3> DEFINE r == [query[q] EXCEPT !.state = o]
    <3>2. /\ r \in QueryRecords /\ r.state # "unused"
          /\ r.of = query[q].of /\ r.by = query[q].by /\ r.attempt = query[q].attempt
      BY <1>1 DEF QueryRecords, Endings
    <3> QED
      BY <2>2, <3>1, <3>2
  <2> QED
    BY <2>1, <2>3, <2>4, <2>5 DEF ReadForCloseout, LoseCall, RepeatCall
<1> QED
  BY <1>3, <1>4, <1>5 DEF Calm, TypeOK

--------------------------------------------------------------------------------
(* The steps that queue, claim, send and link, one lemma each                   *)

\* The parts that speak of rows and queries only, when no query is issued and no
\* row relinked.
LEMMA MovesKeep ==
    ASSUME IInv, TypeOK', RowsGrow, LinksKeep, QueriesGrow, NoNewQuery
    PROVE  AbsentInv' /\ QueriesInv' /\ LinkIsOwn' /\ OneTalkPerAttempt'
<1>1. NoNewSend
  BY DEF NoNewQuery, NoNewSend
<1> QED
  BY <1>1, AbsentStep, QueriesKept, LinksKept, TalksKept DEF IInv

\* One row replaced by one that has grown.
LEMMA OneRowGrows ==
    ASSUME TypeOK, NEW d \in Dispatches, NEW r \in Rows,
           row' = [row EXCEPT ![d] = r],
           r.status \notin {"absent", "done"}, row[d].attempts <= r.attempts
    PROVE  /\ row' \in [Dispatches -> Rows] /\ RowsGrow
           /\ r.link = row[d].link => LinksKeep
           /\ row'[d] = r /\ \A e \in Dispatches \ {d} : row'[e] = row[e]
<1>1. \A e \in Dispatches : row'[e] = IF e = d THEN r ELSE row[e]
  BY DEF TypeOK
<1>2. \A e \in Dispatches : row[e].attempts \in Nat
  BY Counts
<1> QED
  BY <1>1, <1>2 DEF TypeOK, RowsGrow, LinksKeep

\* enqueue: the new row is in no list, and no query stands for it yet.
LEMMA EnqueueStep == ASSUME IInv, NEW d \in Dispatches, Enqueue(d) PROVE IInv'
<1>1. TypeOK /\ row[d] = NoRow
  BY DEF IInv, AbsentInv, Enqueue
<1>2. PICK l \in Lanes, due \in BOOLEAN :
        row' = [row EXCEPT ![d] = [NoRow EXCEPT !.status = "queued",
                                                !.lane = l, !.due = due]]
  BY DEF Enqueue
<1> DEFINE r == [NoRow EXCEPT !.status = "queued", !.lane = l, !.due = due]
<1>3. r \in Rows /\ r.status = "queued" /\ r.attempts = 0 /\ r.link = None
  BY LanesAssumption DEF NoRow, Rows, Statuses, Ages, FailureKinds, Lanes
<1>4. row[d].attempts = 0 /\ row[d].link = None /\ row[d].status = "absent"
  BY <1>1 DEF NoRow
<1> row' = [row EXCEPT ![d] = r] /\ row[d].attempts <= r.attempts
  BY <1>2, <1>3, <1>4
<1> HIDE DEF r
<1>5. /\ row' \in [Dispatches -> Rows] /\ RowsGrow /\ LinksKeep
      /\ \A e \in Dispatches \ {d} : row'[e] = row[e]
  <2>1. TypeOK /\ r \in Rows /\ r.status \notin {"absent", "done"} /\ r.link = row[d].link
    BY <1>1, <1>3, <1>4
  <2> QED
    BY <2>1, OneRowGrows
<1>6. NothingRequeued
  BY <1>4, <1>5 DEF NothingRequeued
<1>7. /\ query' \in [Queries -> QueryRecords] /\ QueriesGrow /\ NoNewQuery
      /\ tick' \in Ticks /\ TodoKeeps /\ ReplyKeeps
  BY <1>1, Unchanged DEF Enqueue
<1>8. TypeOK' /\ NoNewSend
  BY <1>1, <1>5, <1>7 DEF TypeOK, Enqueue, NoNewQuery, NoNewSend
<1>9. SnapshotsInv' /\ ClaimInv' /\ StartInv'
  BY <1>5, <1>6, <1>7, <1>8, SnapshotsKept, ClaimKept, ReplyKept DEF StartInv, TodoKeeps
<1> QED
  BY <1>5, <1>7, <1>8, <1>9, MovesKeep DEF IInv

\* The first half of a reap bounces the row.
LEMMA ReapBounceStep ==
    ASSUME IInv, NEW s \in tick.todo, ReapBounce(s) PROVE IInv'
<1>1. /\ TypeOK /\ s.id \in Dispatches /\ row[s.id] \in Rows
      /\ row[s.id].lane \in Lanes /\ row[s.id].status # "absent"
  BY Counts DEF IInv, Held, Rows, SnapshotsInv
<1>2. row' \in [Dispatches -> Rows] /\ RowsSettle /\ EarnsDone
  BY <1>1, RowOpsSettle, OneRow DEF ReapBounce
<1>3. query' \in [Queries -> QueryRecords] /\ QueriesGrow /\ NoNewQuery
  BY <1>1, Unchanged DEF ReapBounce
<1>4. /\ tick' \in Ticks /\ TodoKeeps /\ tick.phase = "reap"
      /\ tick'.reply \in {"none", "reaped"} /\ tick'.about = s.id
  BY <1>1 DEF ReapBounce, Take, TypeOK, Ticks, Replies, TodoKeeps
<1>5. TypeOK' /\ NoNewSend
  BY <1>1, <1>2, <1>3, <1>4 DEF TypeOK, ReapBounce, NoNewQuery, NoNewSend
<1>6. RowsGrow /\ LinksKeep /\ NothingRequeued
  BY <1>1, <1>2, SettleIsGrowth
<1>7. SnapshotsInv' /\ ClaimInv'
  BY <1>3, <1>4, <1>5, <1>6, SnapshotsKept, ClaimKept
<1>8. StartInv'
  BY <1>1, <1>4, <1>6 DEF StartInv, TodoKeeps, RowsGrow
<1> QED
  BY <1>2, <1>3, <1>5, <1>6, <1>7, <1>8, MovesKeep DEF IInv

\* Requeueing happens only while the tick claims and starts nothing.
LEMMA RequeueKeeps ==
    ASSUME IInv, NEW d \in Dispatches, row[d].status # "absent",
           row' = [row EXCEPT ![d] = RequeueAfterBounce(row[d])],
           UNCHANGED <<query, call>>, tick' \in Ticks, TodoKeeps,
           tick.phase \in {"reap", "sweep"}, tick'.reply = "none"
    PROVE  IInv'
<1>1. TypeOK /\ row[d] \in Rows /\ row[d].attempts \in Nat
  BY Counts DEF IInv
<1>2. /\ row' \in [Dispatches -> Rows] /\ RowsGrow /\ LinksKeep
  <2>1. CASE RequeueAfterBounce(row[d]).status = "done"
    <3>1. row[d].status = "done"
      BY <1>1, <2>1, RequeueEffect
    <3>2. RequeueAfterBounce(row[d]) = row[d]
      BY <3>1 DEF RequeueAfterBounce
    <3> QED
      BY <1>1, <3>2, RowOpsSettle, OneRow, SettleIsGrowth
  <2>2. CASE RequeueAfterBounce(row[d]).status # "done"
    <3> DEFINE r == RequeueAfterBounce(row[d])
    <3>1. /\ r \in Rows /\ r.attempts = row[d].attempts /\ r.link = row[d].link
          /\ r.status \notin {"absent", "done"}
      BY <1>1, <2>2, RequeueEffect
    <3>2. row[d].attempts <= r.attempts
      BY <1>1, <3>1
    <3> row' = [row EXCEPT ![d] = r]
      OBVIOUS
    <3> HIDE DEF r
    <3> QED
      BY <1>1, <3>1, <3>2, OneRowGrows
  <2> QED
    BY <2>1, <2>2
<1>3. query' \in [Queries -> QueryRecords] /\ QueriesGrow /\ NoNewQuery
  BY <1>1, Unchanged
<1>4. TypeOK'
  BY <1>1, <1>2, <1>3 DEF TypeOK
<1>5. SnapshotsInv'
  BY <1>2, <1>3, SnapshotsKept
<1>6. ClaimInv' /\ StartInv'
  BY DEF ClaimInv, StartInv, TodoKeeps, IInv
<1> QED
  BY <1>2, <1>3, <1>4, <1>5, <1>6, MovesKeep DEF IInv

\* The second half of a reap, and the sweep of the bounced rows.
LEMMA RequeueStep ==
    ASSUME IInv, ReapRequeue \/ \E s \in tick.todo : SweepOne(s) PROVE IInv'
<1>1. CASE ReapRequeue
  <2>1. tick.phase = "reap" /\ tick.about \in Dispatches /\ row[tick.about].status # "absent"
    BY <1>1 DEF ReapRequeue, IInv, StartInv
  <2>2. tick' \in Ticks /\ TodoKeeps /\ tick'.reply = "none"
    BY <1>1 DEF ReapRequeue, IInv, TypeOK, Ticks, Replies, TodoKeeps
  <2> QED
    BY <1>1, <2>1, <2>2, RequeueKeeps DEF ReapRequeue
<1>2. ASSUME NEW s \in tick.todo, SweepOne(s) PROVE IInv'
  <2>1. /\ tick.phase = "sweep" /\ tick.reply = "none" /\ s.id \in Dispatches
        /\ row[s.id].status # "absent" /\ row[s.id] \in Rows
    BY <1>2, Counts DEF SweepOne, Take, IInv, SnapshotsInv, Held
  <2>2. CASE s.attempts >= MaxAttempts
    <3>1. Change(s, MarkRetryExhausted(row[s.id]))
      BY <1>2, <2>2 DEF SweepOne
    <3> QED
      BY <2>1, <3>1, RowOpsSettle, IInvIsSound, ChangeIsCalm, CalmStep
  <2>3. CASE ~(s.attempts >= MaxAttempts)
    <3>1. Change(s, RequeueAfterBounce(row[s.id]))
      BY <1>2, <2>3 DEF SweepOne
    <3>2. tick' \in Ticks /\ TodoKeeps /\ tick'.reply = "none"
      BY <2>1, <3>1 DEF Change, IInv, TypeOK, Ticks, TodoKeeps
    <3> QED
      BY <2>1, <3>1, <3>2, RequeueKeeps DEF Change
  <2> QED
    BY <2>2, <2>3
<1> QED
  BY <1>1, <1>2

\* Steps that leave rows and queries alone.
LEMMA StillStep ==
    ASSUME IInv, UNCHANGED <<row, query>>, tick' \in Ticks,
           call' \in [Queries -> CallStates]
    PROVE  /\ TypeOK' /\ AbsentInv' /\ QueriesInv' /\ LinkIsOwn'
           /\ OneTalkPerAttempt'
           /\ RowsGrow /\ NothingRequeued /\ QueriesGrow /\ NoNewSend
<1>1. TypeOK
  BY DEF IInv
<1>2. /\ row' \in [Dispatches -> Rows] /\ RowsSettle /\ EarnsDone
      /\ query' \in [Queries -> QueryRecords] /\ QueriesGrow /\ NoNewQuery
  BY <1>1, Unchanged
<1>3. TypeOK' /\ RowsGrow /\ LinksKeep /\ NothingRequeued /\ NoNewSend
  BY <1>1, <1>2, SettleIsGrowth DEF TypeOK, NoNewQuery, NoNewSend
<1> QED
  BY <1>2, <1>3, MovesKeep

\* A fresh list of existing rows.
LEMMA BeginKeeps ==
    ASSUME IInv, NEW phase \in Phases \ {"start"}, NEW l \in Lanes,
           NEW ds \in SUBSET Dispatches, BeginPhase(phase, l, ds),
           \A d \in ds : row[d].status # "absent",
           phase = "evidence" => \A d \in ds : row[d].link # None,
           phase = "claim" => \A d \in ds : row[d].lane = l
    PROVE  IInv'
<1>1. /\ tick'.phase = phase /\ tick'.lane = l /\ tick'.won = {}
      /\ tick'.todo = {Snap(d) : d \in ds} /\ tick'.reply = "none"
  BY DEF BeginPhase, Idle
<1>2. \A d \in ds : /\ Snap(d) \in Snapshots /\ Snap(d).id = d
                    /\ Snap(d).link = row[d].link
                    /\ Snap(d).attempts = row[d].attempts
                    /\ row[d].attempts \in Nat
  BY DEF IInv, TypeOK, Rows, Snap, Snapshots
<1>3. tick' \in Ticks
  <2>1. tick' = [phase |-> phase, lane |-> l, todo |-> {Snap(d) : d \in ds},
                 won |-> {}, reply |-> "none", about |-> None, attempts |-> 0,
                 qid |-> None]
    BY DEF BeginPhase, Idle
  <2>2. {Snap(d) : d \in ds} \in SUBSET Snapshots
    BY <1>2
  <2> QED
    BY <2>1, <2>2 DEF Ticks, Replies
<1>4. call' \in [Queries -> CallStates]
  BY DEF BeginPhase, IInv, TypeOK
<1>5. UNCHANGED <<row, query>>
  BY DEF BeginPhase
<1>6. SnapshotsInv'
  <2>1. Held' = {Snap(d) : d \in ds}
    BY <1>1 DEF Held
  <2>2. ASSUME NEW d \in ds, row[d].link # None
        PROVE  query[row[d].link].of = d /\ query[row[d].link].state # "unused"
    BY <2>2 DEF IInv, LinkIsOwn
  <2> QED
    BY <1>1, <1>2, <1>5, <2>1, <2>2 DEF SnapshotsInv
<1>7. ClaimInv'
  BY <1>1, <1>2, <1>5 DEF ClaimInv
<1>8. StartInv'
  BY <1>1 DEF StartInv
<1> QED
  BY <1>3, <1>4, <1>5, <1>6, <1>7, <1>8, StillStep DEF IInv

\* The phases of the tick, in their order.
LEMMA BeginStep ==
    ASSUME IInv, \/ BeginEvidence \/ BeginReap \/ BeginStale \/ BeginSweep
                 \/ SelectClaims \/ EndLane
    PROVE  IInv'
<1> USE DEF Phases
<1>1. tick.lane \in Lanes /\ NextLane(tick.lane) \in Lanes
  BY LanesAssumption DEF IInv, TypeOK, Ticks, NextLane, Lanes
<1>2. CASE BeginEvidence
  BY <1>1, <1>2, BeginKeeps DEF BeginEvidence, InFlight
<1>3. CASE BeginReap
  BY <1>1, <1>3, BeginKeeps DEF BeginReap, InFlight
<1>4. CASE BeginStale
  BY <1>1, <1>4, BeginKeeps DEF BeginStale, InFlight
<1>5. CASE BeginSweep
  BY <1>1, <1>5, BeginKeeps DEF BeginSweep
<1>6. CASE SelectClaims
  <2>1. PICK ds \in SUBSET Eligible(tick.lane) : BeginPhase("claim", tick.lane, ds)
    BY <1>6 DEF SelectClaims
  <2> QED
    BY <1>1, <2>1, BeginKeeps DEF Eligible
<1>7. CASE EndLane
  BY <1>1, <1>7, BeginKeeps DEF EndLane
<1> QED
  BY <1>2, <1>3, <1>4, <1>5, <1>6, <1>7

\* The rows that were won are the ones to start.
LEMMA BeginStartStep == ASSUME IInv, BeginStart PROVE IInv'
<1>1. /\ tick.phase = "claim" /\ UNCHANGED <<row, query, call>>
      /\ tick'.phase = "start" /\ tick'.todo = tick.won /\ tick'.won = {}
      /\ tick'.reply = "none"
  BY DEF BeginStart, Idle
<1>2. tick' \in Ticks /\ call' \in [Queries -> CallStates]
  BY DEF BeginStart, Idle, IInv, TypeOK, Ticks, Replies, Phases
<1>3. SnapshotsInv'
  BY <1>1 DEF IInv, SnapshotsInv, Held
<1>4. ClaimInv' /\ StartInv'
  BY <1>1 DEF IInv, ClaimInv, StartInv, SentFor
<1> QED
  BY <1>1, <1>2, <1>3, <1>4, StillStep DEF IInv

\* A restart forgets every list.
LEMMA RestartStep == ASSUME IInv, ManagerRestart PROVE IInv'
<1>1. UNCHANGED <<row, query>> /\ tick' = Idle(NumLanes)
  BY DEF ManagerRestart
<1>2. NumLanes \in Lanes
  BY LanesAssumption DEF Lanes
<1>3. tick' \in Ticks
  BY <1>1, <1>2 DEF Idle, Ticks, Replies, Phases
<1>4. call' \in [Queries -> CallStates]
  BY DEF ManagerRestart, IInv, TypeOK, CallStates
<1>5. SnapshotsInv' /\ ClaimInv' /\ StartInv'
  BY <1>1 DEF Idle, SnapshotsInv, ClaimInv, StartInv, Held
<1> QED
  BY <1>1, <1>3, <1>4, <1>5, StillStep DEF IInv

\* A claim: the row still has the attempt count it was selected with, so no
\* message was sent yet for the attempt it starts.
LEMMA ClaimOneStep ==
    ASSUME IInv, NEW s \in tick.todo, ClaimOne(s) PROVE IInv'
<1>1. /\ TypeOK /\ s \in Snapshots /\ s.id \in Dispatches /\ s.attempts \in Nat
      /\ row[s.id] \in Rows /\ row[s.id].attempts \in Nat
      /\ row[s.id].status # "absent"
      /\ tick.phase = "claim" /\ tick.reply = "none"
  BY Counts DEF IInv, Held, ClaimOne, Take, SnapshotsInv
<1>2. CASE row[s.id].status # "queued"
  <2>1. Change(s, row[s.id])
    BY <1>1, <1>2, ClaimEffect DEF ClaimOne, Change, IInv, TypeOK, Ticks
  <2> QED
    BY <1>1, <2>1, RowOpsSettle, IInvIsSound, ChangeIsCalm, CalmStep
<1>3. CASE row[s.id].status = "queued"
  <2> DEFINE r == ClaimRow(row[s.id], s.attempts)
             w == [s EXCEPT !.attempts = s.attempts + 1]
  <2>1. row[s.id].attempts = s.attempts /\ row[s.id].lane = tick.lane
    BY <1>1, <1>3 DEF IInv, ClaimInv
  <2>2. /\ r \in Rows /\ r.status = "in_flight" /\ r.attempts = s.attempts + 1
        /\ r.link = row[s.id].link /\ r.lane = row[s.id].lane
    BY <1>1, <1>3, ClaimEffect
  <2>3. s.attempts + 1 \in Nat /\ s.attempts <= s.attempts + 1
    BY <1>1
  <2>4. /\ w \in Snapshots /\ w.id = s.id /\ w.attempts = s.attempts + 1
        /\ w.link = s.link
    BY <1>1, <2>3 DEF Snapshots
  <2>5. row' = [row EXCEPT ![s.id] = r]
    BY DEF ClaimOne
  <2>6. /\ tick' = [tick EXCEPT !.todo = tick.todo \ {s}, !.won = tick.won \cup {w}]
        /\ UNCHANGED <<query, call>>
    BY <1>3 DEF ClaimOne
  <2> HIDE DEF r, w
  <2>7. /\ row' \in [Dispatches -> Rows] /\ RowsGrow /\ LinksKeep
        /\ row'[s.id] = r /\ \A e \in Dispatches \ {s.id} : row'[e] = row[e]
    <3>1. row[s.id].attempts <= r.attempts
      BY <2>1, <2>2, <2>3
    <3> QED
      BY <1>1, <2>2, <2>5, <3>1, OneRowGrows
  <2>8. /\ tick'.phase = "claim" /\ tick'.lane = tick.lane /\ tick'.reply = "none"
        /\ tick'.todo = tick.todo \ {s} /\ tick'.won = tick.won \cup {w}
        /\ tick' \in Ticks
    BY <1>1, <2>4, <2>6 DEF TypeOK, Ticks
  <2>9. query' \in [Queries -> QueryRecords] /\ QueriesGrow /\ NoNewQuery
    BY <1>1, <2>6, Unchanged
  <2>10. TypeOK'
    BY <1>1, <2>6, <2>7, <2>8, <2>9 DEF TypeOK
  <2>11. \A t \in Held : t \in tick.todo \ {s} \/ t \in tick.won => t.id # s.id
    <3>1. s \in Held /\ \A t, u \in Held : t.id = u.id => t = u
      BY DEF IInv, SnapshotsInv, Held
    <3>2. s \notin tick.won
      BY <1>1, <1>3 DEF IInv, ClaimInv
    <3> QED
      BY <3>1, <3>2
  <2>12. SnapshotsInv'
    <3>1. Held' = (Held \ {s}) \cup {w}
      <4>1. s \notin tick.won
        BY <1>1, <1>3 DEF IInv, ClaimInv
      <4> QED
        BY <2>8, <4>1 DEF Held
    <3>2. ASSUME NEW t \in Held \ {s}
          PROVE  /\ row'[t.id].status # "absent" /\ t.attempts <= row'[t.id].attempts
                 /\ t.link # None => /\ query'[t.link].of = t.id
                                     /\ query'[t.link].state # "unused"
      BY <2>7, <2>9, SnapshotStep
    <3>3. s \in Held
      BY DEF Held
    <3>4. /\ row'[w.id].status # "absent" /\ w.attempts <= row'[w.id].attempts
          /\ w.link # None => /\ query'[w.link].of = w.id
                              /\ query'[w.link].state # "unused"
      <4>1. w.link # None => /\ query'[w.link].of = w.id
                             /\ query'[w.link].state # "unused"
        BY <2>4, <2>7, <2>9, <3>3, SnapshotStep
      <4> QED
        BY <2>2, <2>3, <2>4, <2>7, <4>1
    <3>5. \A t, u \in Held' : t.id = u.id => t = u
      BY <2>4, <2>11, <3>1 DEF IInv, SnapshotsInv, Held
    <3> QED
      BY <2>8, <3>1, <3>2, <3>4, <3>5 DEF SnapshotsInv
  <2>13. ~SentFor(w)
    <3> SUFFICES ASSUME NEW q \in Queries, query[q].state # "unused",
                        query[q].of = s.id, query[q].attempt = s.attempts + 1
                 PROVE  FALSE
      BY <2>4 DEF SentFor
    <3>1. query[q].attempt <= row[s.id].attempts
      BY DEF IInv, QueriesInv, NoQuery
    <3> QED
      BY <1>1, <2>1, <3>1
  <2>14. ClaimInv'
    <3>1. \A t \in tick.todo \cup tick.won : t.id \in Dispatches
      BY <1>1, Counts DEF Held
    <3>2. \A t : SentFor(t)' <=> SentFor(t)
      BY <2>6 DEF SentFor
    <3>3. \A t \in tick'.todo : row'[t.id].status = "queued" =>
             row'[t.id].attempts = t.attempts /\ row'[t.id].lane = tick'.lane
      BY <1>1, <2>7, <2>8, <2>11, <3>1 DEF IInv, ClaimInv, Held
    <3>4. \A t \in tick'.won : row'[t.id].status # "queued" /\ ~SentFor(t)'
      BY <1>1, <2>2, <2>4, <2>7, <2>8, <2>11, <2>13, <3>1, <3>2 DEF IInv, ClaimInv, Held
    <3> QED
      BY <2>8, <3>3, <3>4 DEF ClaimInv
  <2>15. StartInv'
    BY <2>8 DEF StartInv
  <2> QED
    BY <2>7, <2>9, <2>10, <2>12, <2>14, <2>15, MovesKeep DEF IInv
<1> QED
  BY <1>2, <1>3

\* A query issued for an existing row, at an attempt the row has reached.
LEMMA NewQueryKeeps ==
    ASSUME IInv, NEW q \in Unused, NEW d \in Dispatches,
           NEW by \in {"scheduler", "direct"}, NEW n \in Nat,
           row[d].status # "absent", n <= row[d].attempts, UNCHANGED row,
           query' = [query EXCEPT ![q] = NewQuery(d, by, n)],
           tick' \in Ticks, call' \in [Queries -> CallStates]
    PROVE  /\ TypeOK' /\ AbsentInv' /\ QueriesInv' /\ LinkIsOwn'
           /\ RowsGrow /\ NothingRequeued /\ QueriesGrow
           /\ \A p \in Queries : query'[p] = IF p = q THEN NewQuery(d, by, n) ELSE query[p]
<1>1. /\ TypeOK /\ q \in Queries /\ query[q].state = "unused"
      /\ \A p \in Queries : query'[p] = IF p = q THEN NewQuery(d, by, n) ELSE query[p]
  BY DEF IInv, TypeOK, Unused
<1>2. /\ NewQuery(d, by, n) \in QueryRecords
      /\ NewQuery(d, by, n).state = "processing" /\ NewQuery(d, by, n).of = d
      /\ NewQuery(d, by, n).attempt = n
  BY DEF NewQuery, QueryRecords
<1>3. row' \in [Dispatches -> Rows] /\ RowsSettle /\ EarnsDone
  BY <1>1, Unchanged
<1>4. RowsGrow /\ LinksKeep /\ NothingRequeued
  BY <1>1, <1>3, SettleIsGrowth
<1>5. QueriesGrow
  BY <1>1 DEF QueriesGrow, Endings
<1>6. TypeOK'
  BY <1>1, <1>2, <1>3 DEF TypeOK
<1>7. QueriesInv'
  <2> SUFFICES ASSUME NEW p \in Queries, query'[p] # NoQuery
               PROVE  /\ query'[p].state # "unused"
                      /\ query'[p].of \in Dispatches
                      /\ row'[query'[p].of].status # "absent"
                      /\ query'[p].attempt <= row'[query'[p].of].attempts
    BY DEF QueriesInv
  <2>1. CASE p = q
    BY <1>1, <1>2, <2>1
  <2>2. CASE p # q
    <3>1. query[p].state # "unused"
      BY <1>1, <2>2 DEF IInv, QueriesInv
    <3> QED
      BY <1>4, <1>5, <1>6, <3>1, QueriesStep
  <2> QED
    BY <2>1, <2>2
<1> QED
  BY <1>1, <1>3, <1>4, <1>5, <1>6, <1>7, AbsentStep, LinksKept DEF IInv

\* A /talk the agent takes: no other message was sent for this attempt.
LEMMA SendAcceptedStep ==
    ASSUME IInv, NEW s \in tick.todo, NEW q \in Queries, NEW reply \in Accepting,
           SendAccepted(s, q, reply)
    PROVE  IInv'
<1>1. /\ TypeOK /\ s \in Held /\ s.id \in Dispatches /\ s.attempts \in Nat
      /\ tick.phase = "start" /\ q \in Unused
      /\ row[s.id].status \notin {"absent", "queued"} /\ ~SentFor(s)
      /\ s.attempts <= row[s.id].attempts
  BY Counts DEF IInv, Held, SendAccepted, Take, SnapshotsInv, StartInv
<1>2. /\ tick'.phase = "start" /\ tick'.todo = tick.todo \ {s}
      /\ tick'.lane = tick.lane /\ tick'.won = tick.won /\ tick.won = {}
      /\ tick'.reply = reply /\ tick'.about = s.id /\ tick'.qid = q
      /\ tick' \in Ticks
  BY <1>1 DEF SendAccepted, IInv, TypeOK, Ticks, Replies, Accepting, ClaimInv
<1>3. /\ UNCHANGED row /\ call' \in [Queries -> CallStates]
      /\ query' = [query EXCEPT ![q] = NewQuery(s.id, "scheduler", s.attempts)]
  BY <1>1 DEF SendAccepted, TypeOK
<1>4. /\ TypeOK' /\ AbsentInv' /\ QueriesInv' /\ LinkIsOwn'
      /\ RowsGrow /\ NothingRequeued /\ QueriesGrow
      /\ \A p \in Queries : query'[p] = IF p = q THEN NewQuery(s.id, "scheduler", s.attempts)
                                        ELSE query[p]
  BY <1>1, <1>2, <1>3, NewQueryKeeps
<1>5. /\ query'[q].of = s.id /\ query'[q].by = "scheduler"
      /\ query'[q].attempt = s.attempts /\ query'[q].state = "processing"
  BY <1>4 DEF NewQuery
<1>6. OneTalkPerAttempt'
  BY <1>1, <1>4, <1>5 DEF IInv, OneTalkPerAttempt, SentFor
<1>7. SnapshotsInv' /\ ClaimInv'
  <2>1. TodoKeeps
    BY <1>1, <1>2 DEF TodoKeeps
  <2>2. ClaimInv'
    BY <1>2 DEF ClaimInv
  <2>3. SnapshotsInv'
    BY <1>4, <2>1, SnapshotsKept
  <2> QED
    BY <2>2, <2>3
<1>8. \A t \in tick'.todo : row'[t.id].status # "queued" /\ ~SentFor(t)'
  <2> SUFFICES ASSUME NEW t \in tick.todo, t # s
               PROVE  row[t.id].status # "queued" /\ ~SentFor(t)'
    BY <1>2, <1>3
  <2>1. t.id # s.id
    BY DEF IInv, SnapshotsInv, Held
  <2>2. row[t.id].status # "queued" /\ ~SentFor(t)
    BY <1>1 DEF IInv, StartInv
  <2> QED
    BY <1>4, <1>5, <2>1, <2>2 DEF SentFor
<1>9. StartInv'
  BY <1>1, <1>2, <1>3, <1>5, <1>8 DEF StartInv, Accepting
<1> QED
  BY <1>4, <1>6, <1>7, <1>9 DEF IInv

\* A /talk that fails before the agent takes it.
LEMMA SendRejectedStep ==
    ASSUME IInv, NEW s \in tick.todo, NEW reply \in Rejecting, SendRejected(s, reply)
    PROVE  IInv'
<1>1. /\ TypeOK /\ s.id \in Dispatches /\ tick.phase = "start"
      /\ row[s.id].status \notin {"absent", "queued"}
  BY Counts DEF IInv, Held, SendRejected, Take, SnapshotsInv, StartInv
<1>2. /\ tick'.phase = "start" /\ tick'.todo = tick.todo \ {s}
      /\ tick'.lane = tick.lane /\ tick'.won = tick.won
      /\ tick'.reply = reply /\ tick'.about = s.id
  BY <1>1 DEF SendRejected, IInv, TypeOK, Ticks
<1>3. tick' \in Ticks
  <2>1. s.attempts \in Nat /\ reply \in Replies
    BY Counts DEF IInv, Held, Replies, Rejecting
  <2> QED
    BY <1>1, <2>1 DEF SendRejected, TypeOK, Ticks
<1>4. UNCHANGED <<row, query>> /\ call' \in [Queries -> CallStates]
  BY <1>1 DEF SendRejected, TypeOK
<1>5. /\ SnapshotsInv' /\ ClaimInv'
      /\ \A t \in tick'.todo : row'[t.id].status # "queued" /\ ~SentFor(t)'
  <2>1. TodoKeeps
    BY <1>1, <1>2 DEF TodoKeeps
  <2>2. RowsGrow /\ NothingRequeued /\ QueriesGrow /\ NoNewSend
    BY <1>3, <1>4, StillStep
  <2>3. SnapshotsInv'
    BY <2>1, <2>2, SnapshotsKept
  <2> QED
    BY <1>2, <2>1, <2>2, <2>3, ClaimKept
<1>6. StartInv'
  BY <1>1, <1>2, <1>4, <1>5 DEF StartInv, Rejecting
<1> QED
  BY <1>3, <1>4, <1>5, <1>6, StillStep DEF IInv

\* An off-process /talk is no send of the scheduler.
LEMMA DirectTalkStep ==
    ASSUME IInv, NEW d \in Dispatches, NEW q \in Queries, DirectTalk(d, q) PROVE IInv'
<1>1. /\ TypeOK /\ q \in Unused /\ row[d].status # "absent"
      /\ row[d].attempts \in Nat /\ row[d].attempts <= row[d].attempts
      /\ query' = [query EXCEPT ![q] = NewQuery(d, "direct", row[d].attempts)]
      /\ UNCHANGED <<row, call, tick>>
  BY Counts DEF IInv, DirectTalk
<1>2. /\ tick' \in Ticks /\ call' \in [Queries -> CallStates]
      /\ TodoKeeps /\ ReplyKeeps
  BY <1>1 DEF TypeOK, TodoKeeps, ReplyKeeps
<1>3. /\ TypeOK' /\ AbsentInv' /\ QueriesInv' /\ LinkIsOwn'
      /\ RowsGrow /\ NothingRequeued /\ QueriesGrow
      /\ \A p \in Queries : query'[p] = IF p = q THEN NewQuery(d, "direct", row[d].attempts)
                                        ELSE query[p]
  BY <1>1, <1>2, NewQueryKeeps
<1>4. NoNewSend
  BY <1>3 DEF NoNewSend, NewQuery
<1> QED
  BY <1>2, <1>3, <1>4, TalksKept, SnapshotsKept, ClaimKept, ReplyKept
  DEF IInv, StartInv, TodoKeeps

\* A row is linked only to a query issued for it.
LEMMA AcceptKeeps ==
    ASSUME IInv, NEW q \in Queries, query[q].state # "unused",
           row' = [row EXCEPT ![query[q].of] = AcceptDispatchStart(row[query[q].of], q)],
           UNCHANGED <<query, call>>, tick' \in Ticks, TodoKeeps, ReplyKeeps
    PROVE  IInv'
<1> DEFINE d == query[q].of
           r == AcceptDispatchStart(row[d], q)
<1>1. /\ TypeOK /\ d \in Dispatches /\ row[d].status # "absent"
      /\ query[q].attempt <= row[d].attempts
  BY DEF IInv, QueriesInv, NoQuery
<1>2. row[d] \in Rows /\ row[d].attempts \in Nat /\ query[q].attempt \in Nat
  BY <1>1, Counts
<1>3. query' \in [Queries -> QueryRecords] /\ QueriesGrow /\ NoNewQuery
  BY <1>1, Unchanged
<1>4. CASE r = row[d]
  <2>1. row' \in [Dispatches -> Rows] /\ RowsSettle /\ EarnsDone
    BY <1>1, <1>2, <1>4, RowOpsSettle, OneRow
  <2> QED
    BY <1>1, <1>3, <2>1, CalmStep DEF Calm, TypeOK
<1>5. CASE r # row[d]
  <2>1. /\ r \in Rows /\ r.status = "in_flight" /\ r.link = q
        /\ row[d].attempts <= r.attempts
    <3>1. /\ r \in Rows /\ r.status = "in_flight" /\ r.link = q
          /\ r.attempts \in {row[d].attempts, row[d].attempts + 1}
      BY <1>2, <1>5, AcceptEffect
    <3> QED
      BY <1>2, <3>1
  <2> row' = [row EXCEPT ![d] = r]
    OBVIOUS
  <2> HIDE DEF d, r
  <2>2. /\ row' \in [Dispatches -> Rows] /\ RowsGrow
        /\ row'[d] = r /\ \A e \in Dispatches \ {d} : row'[e] = row[e]
    BY <1>1, <2>1, OneRowGrows
  <2>3. NothingRequeued
    BY <2>1, <2>2 DEF NothingRequeued
  <2>4. TypeOK' /\ NoNewSend
    BY <1>1, <1>3, <2>2 DEF TypeOK, NoNewQuery, NoNewSend
  <2>5. LinkIsOwn'
    <3> SUFFICES ASSUME NEW e \in Dispatches, row'[e].link # None
                 PROVE  /\ query'[row'[e].link].of = e
                        /\ query'[row'[e].link].state # "unused"
                        /\ query'[row'[e].link].attempt <= row'[e].attempts
      BY DEF LinkIsOwn
    <3>1. CASE e = d
      <4>1. query[q].attempt <= r.attempts
        BY <1>1, <1>2, <2>1 DEF Rows
      <4> QED
        BY <2>1, <2>2, <3>1, <4>1 DEF d
    <3>2. CASE e # d
      BY <1>3, <2>2, <2>4, <3>2, LinkStep
    <3> QED
      BY <3>1, <3>2
  <2> QED
    BY <1>3, <2>2, <2>3, <2>4, <2>5, AbsentStep, QueriesKept, TalksKept,
       SnapshotsKept, ClaimKept, ReplyKept DEF IInv, StartInv, TodoKeeps
<1> QED
  BY <1>4, <1>5

\* recordAgentStart after a /talk, and the same operation on /accept.
LEMMA LinkStepKeeps ==
    ASSUME IInv, RecordAgentStart \/ \E q \in Queries : DirectAccept(q) PROVE IInv'
<1>1. TypeOK
  BY DEF IInv
<1>2. CASE RecordAgentStart
  <2>1. /\ tick.qid \in Queries /\ query[tick.qid].of = tick.about
        /\ query[tick.qid].state # "unused"
    BY <1>2 DEF RecordAgentStart, Answered, IInv, StartInv
  <2>2. tick' \in Ticks /\ TodoKeeps /\ ReplyKeeps
    BY <1>1, <1>2 DEF RecordAgentStart, ActOnAnswer, TypeOK, Ticks, Replies,
                      TodoKeeps, ReplyKeeps
  <2> QED
    BY <1>2, <2>1, <2>2, AcceptKeeps DEF RecordAgentStart, ActOnAnswer
<1>3. ASSUME NEW q \in Queries, DirectAccept(q) PROVE IInv'
  <2>1. query[q].state # "unused"
    BY <1>3 DEF DirectAccept, IInv, QueriesInv, NoQuery
  <2>2. tick' \in Ticks /\ TodoKeeps /\ ReplyKeeps
    BY <1>1, <1>3 DEF DirectAccept, TypeOK, TodoKeeps, ReplyKeeps
  <2> QED
    BY <1>3, <2>1, <2>2, AcceptKeeps DEF DirectAccept
<1> QED
  BY <1>2, <1>3

--------------------------------------------------------------------------------
(* The inductive invariant                                                      *)

\* It holds at the start.
LEMMA IInvInit == ASSUME Init PROVE IInv
<1>1. NumLanes \in Lanes
  BY LanesAssumption DEF Lanes
<1>2. NoRow \in Rows
  BY LanesAssumption DEF NoRow, Rows, Statuses, Ages, FailureKinds, Lanes
<1>3. NoQuery \in QueryRecords
  BY DEF NoQuery, QueryRecords
<1>4. Idle(NumLanes) \in Ticks
  BY <1>1 DEF Idle, Ticks, Replies, Phases
<1>5. TypeOK
  BY <1>2, <1>3, <1>4 DEF Init, TypeOK, CallStates
<1>6. AbsentInv /\ QueriesInv /\ LinkIsOwn /\ OneTalkPerAttempt
  BY DEF Init, AbsentInv, QueriesInv, LinkIsOwn, OneTalkPerAttempt,
         NoRow, NoQuery
<1>7. SnapshotsInv /\ ClaimInv /\ StartInv
  BY DEF Init, Idle, SnapshotsInv, ClaimInv, StartInv, Held
<1> QED
  BY <1>5, <1>6, <1>7 DEF IInv

\* Every action keeps it.
LEMMA IInvNext == ASSUME IInv, [Next]_vars PROVE IInv'
<1>1. CASE TickStep
  <2>1. ASSUME NEW s \in tick.todo, ListedStep(s) PROVE IInv'
    BY <2>1, IInvIsSound, ListedIsCalm, CalmStep, ReapBounceStep, RequeueStep, ClaimOneStep,
       SendAcceptedStep, SendRejectedStep DEF ListedStep
  <2>2. CASE \/ BeginEvidence \/ BeginReap \/ BeginStale \/ BeginSweep
             \/ SelectClaims \/ EndLane
    BY <2>2, BeginStep
  <2>3. CASE BeginStart \/ ReapRequeue \/ RecordAgentStart
    BY <2>3, BeginStartStep, RequeueStep, LinkStepKeeps
  <2>4. CASE StartMissingQueryId \/ StartBounced \/ StartExhausted \/ StartFailed
    BY <2>4, IInvIsSound, AnsweredIsCalm, CalmStep
  <2> QED
    BY <1>1, <2>1, <2>2, <2>3, <2>4 DEF TickStep
<1>2. ASSUME NEW d \in Dispatches,
             Enqueue(d) \/ NotBeforePasses(d) \/ ClaimAges(d) \/ DirectFailed(d)
      PROVE  IInv'
  BY <1>2, EnqueueStep, IInvIsSound, RowClocksAreCalm, CalmStep
<1>3. ASSUME NEW q \in Queries,
             \/ AgentOutput(q) \/ AgentQuiet(q) \/ AgentFinish(q)
             \/ CloseoutStep(q) \/ LoseCall(q) \/ RepeatCall(q) \/ DirectAccept(q)
      PROVE  IInv'
  BY <1>3, IInvIsSound, AgentsAreCalm, ClosesAreCalm, CalmStep, LinkStepKeeps DEF CloseoutStep
<1>4. ASSUME NEW d \in Dispatches, NEW q \in Queries, DirectTalk(d, q) PROVE IInv'
  BY <1>4, DirectTalkStep
<1>5. CASE ManagerRestart
  BY <1>5, RestartStep
<1>6. CASE UNCHANGED vars
  <2>1. TypeOK /\ UNCHANGED <<row, query, call, tick>>
    BY <1>6 DEF IInv, vars
  <2> QED
    BY <2>1, Unchanged, CalmStep DEF Calm, TypeOK
<1> QED
  BY <1>1, <1>2, <1>3, <1>4, <1>5, <1>6 DEF Next, QueueStep

\* Every reachable state satisfies the inductive invariant.
THEOREM Invariance == Spec => []IInv
<1>1. Init => IInv
  BY IInvInit
<1>2. IInv /\ [Next]_vars => IInv'
  BY IInvNext
<1> QED
  BY <1>1, <1>2, PTL DEF Spec

\* Every variable keeps its type.
THEOREM TypeCorrect == Spec => []TypeOK
<1>1. IInv => TypeOK
  BY DEF IInv
<1> QED
  BY <1>1, Invariance, PTL

\* The scheduler never sends two messages for one attempt of a dispatch.
THEOREM OneTalk == Spec => []OneTalkPerAttempt
<1>1. IInv => OneTalkPerAttempt
  BY DEF IInv
<1> QED
  BY <1>1, Invariance, PTL

\* A row is judged only by a query issued for its own dispatch.
THEOREM LinksAreOwn == Spec => []LinkIsOwn
<1>1. IInv => LinkIsOwn
  BY DEF IInv
<1> QED
  BY <1>1, Invariance, PTL

--------------------------------------------------------------------------------
(* What one step does to one row                                                *)

\* Link q to a row that is in flight, or claim it for q.
Accepts(d, q) ==
    /\ query[q].of = d /\ query[q].state # "unused" /\ UNCHANGED query
    /\ row'[d].status = "in_flight" /\ row'[d].link = q
    /\ row'[d].lane = row[d].lane
    /\ \/ /\ row[d].status = "in_flight" /\ row'[d].attempts = row[d].attempts
          /\ row[d].link \in {None, q}
       \/ /\ row[d].status = "queued" /\ row'[d].attempts = row[d].attempts + 1
          /\ query[q].by = "direct"

\* The whole of what a row may become once it is there.
RowMoves(d) ==
    \/ Settles(row[d], row'[d]) /\ Earns(d)
    \/ /\ row[d].status = "bounced" /\ row'[d].status = "queued"
       /\ row'[d].attempts = row[d].attempts
    \/ /\ row[d].status = "queued" /\ row'[d].status = "in_flight"
       /\ row'[d].attempts = row[d].attempts + 1
       /\ \E s \in tick.todo : s.id = d /\ ClaimOne(s)
    \/ \E q \in Queries : Accepts(d, q)

RowStep(d) ==
    \/ RowMoves(d)
    \/ /\ row[d].status = "absent" /\ row'[d].status = "queued"
       /\ row'[d].attempts = row[d].attempts

\* A change of one row, seen from every dispatch.
LEMMA OtherRows ==
    ASSUME TypeOK, NEW d \in Dispatches, NEW r, row' = [row EXCEPT ![d] = r],
           row'[d] = r => RowMoves(d)
    PROVE  \A e \in Dispatches : RowMoves(e)
<1>1. row'[d] = r /\ \A e \in Dispatches \ {d} : row'[e] = row[e]
  BY DEF TypeOK
<1>2. \A e \in Dispatches \ {d} : Settles(row[e], row'[e])
  BY <1>1, RowOpsSettle DEF TypeOK
<1> QED
  BY <1>1, <1>2 DEF RowMoves, Earns

\* acceptDispatchStart, seen from every dispatch.
LEMMA AcceptRows ==
    ASSUME IInv, NEW q \in Queries, query[q].state # "unused", UNCHANGED query,
           row[query[q].of].status = "queued" => query[q].by = "direct",
           row' = [row EXCEPT ![query[q].of] = AcceptDispatchStart(row[query[q].of], q)]
    PROVE  \A e \in Dispatches : RowMoves(e)
<1> DEFINE d == query[q].of
           r == AcceptDispatchStart(row[d], q)
<1>1. TypeOK /\ d \in Dispatches /\ row[d] \in Rows
  BY Counts DEF IInv, QueriesInv, NoQuery
<1>2. ASSUME row'[d] = r PROVE RowMoves(d)
  <2>1. CASE r = row[d]
    BY <1>1, <1>2, <2>1, RowOpsSettle DEF RowMoves, Earns
  <2>2. CASE r # row[d]
    <3>1. Accepts(d, q)
      BY <1>1, <1>2, <2>2, AcceptEffect DEF Accepts
    <3> QED
      BY <3>1 DEF RowMoves, Earns
  <2> QED
    BY <2>1, <2>2
<1> QED
  BY <1>1, <1>2, OtherRows

\* Every step but an enqueue moves every row so.
LEMMA QueueRows ==
    ASSUME IInv, QueueStep \/ ManagerRestart \/ UNCHANGED vars
    PROVE  \A d \in Dispatches : RowMoves(d)
<1>1. TypeOK
  BY DEF IInv
<1>2. Calm => \A d \in Dispatches : RowMoves(d)
  BY DEF Calm, RowsSettle, EarnsDone, RowMoves
<1>3. UNCHANGED row => \A d \in Dispatches : RowMoves(d)
  BY <1>1, Unchanged DEF RowsSettle, EarnsDone, RowMoves
<1>4. CASE TickStep
  <2>1. ASSUME NEW s \in tick.todo, ListedStep(s) PROVE \A d \in Dispatches : RowMoves(d)
    <3>1. /\ s.id \in Dispatches /\ row[s.id] \in Rows /\ row[s.id].lane \in Lanes
          /\ s.attempts \in Nat
      BY <1>1, Counts DEF Held, Rows
    <3>2. CASE ReapBounce(s)
      <4> DEFINE r == MarkBounced(row[s.id], TRUE, row[s.id].lane)
      <4>1. Settles(row[s.id], r) /\ (r.status = "done" => row[s.id].status = "done")
        BY <3>1, RowOpsSettle
      <4>2. row' = [row EXCEPT ![s.id] = r]
        BY <3>2 DEF ReapBounce
      <4> HIDE DEF r
      <4> QED
        BY <1>1, <3>1, <4>1, <4>2, OtherRows DEF RowMoves, Earns
    <3>3. CASE SweepOne(s)
      <4>1. CASE s.attempts >= MaxAttempts
        BY <1>1, <3>1, <3>3, <4>1, RowOpsSettle, OtherRows DEF SweepOne, Change, RowMoves, Earns
      <4>2. CASE ~(s.attempts >= MaxAttempts)
        <5>1. row' = [row EXCEPT ![s.id] = RequeueAfterBounce(row[s.id])]
          BY <3>3, <4>2 DEF SweepOne, Change
        <5>2. RequeueAfterBounce(row[s.id]) = row[s.id]
              \/ /\ row[s.id].status = "bounced"
                 /\ RequeueAfterBounce(row[s.id]).status = "queued"
                 /\ RequeueAfterBounce(row[s.id]).attempts = row[s.id].attempts
          BY <3>1 DEF RequeueAfterBounce, Rows
        <5> QED
          BY <1>1, <3>1, <5>1, <5>2, RowOpsSettle, OtherRows DEF RowMoves, Earns
      <4> QED
        BY <4>1, <4>2
    <3>4. CASE ClaimOne(s)
      <4>1. row' = [row EXCEPT ![s.id] = ClaimRow(row[s.id], s.attempts)]
        BY <3>4 DEF ClaimOne
      <4>2. row[s.id].status = "queued" => row[s.id].attempts = s.attempts
        BY <3>4 DEF ClaimOne, Take, IInv, ClaimInv
      <4>3. ClaimRow(row[s.id], s.attempts) = row[s.id]
            \/ /\ row[s.id].status = "queued"
               /\ ClaimRow(row[s.id], s.attempts).status = "in_flight"
               /\ ClaimRow(row[s.id], s.attempts).attempts = row[s.id].attempts + 1
        BY <3>1, <4>2, ClaimEffect
      <4> QED
        BY <1>1, <3>1, <3>4, <4>1, <4>3, RowOpsSettle, OtherRows DEF RowMoves, Earns
    <3>5. CASE \/ \E q \in Queries, reply \in Accepting : SendAccepted(s, q, reply)
               \/ \E reply \in Rejecting : SendRejected(s, reply)
      BY <1>3, <3>5 DEF SendAccepted, SendRejected
    <3> QED
      BY <1>2, <2>1, <3>2, <3>3, <3>4, <3>5, IInvIsSound, ListedIsCalm DEF ListedStep
  <2>2. CASE \/ BeginEvidence \/ BeginReap \/ BeginStale \/ BeginSweep
             \/ SelectClaims \/ EndLane \/ BeginStart
    BY <1>3, <2>2 DEF BeginEvidence, BeginReap, BeginStale, BeginSweep, SelectClaims,
                      EndLane, BeginStart, BeginPhase
  <2>3. CASE ReapRequeue
    <3>1. tick.about \in Dispatches /\ row[tick.about] \in Rows
      BY <1>1, <2>3, Counts DEF ReapRequeue, IInv, StartInv
    <3>2. RequeueAfterBounce(row[tick.about]) = row[tick.about]
          \/ /\ row[tick.about].status = "bounced"
             /\ RequeueAfterBounce(row[tick.about]).status = "queued"
             /\ RequeueAfterBounce(row[tick.about]).attempts = row[tick.about].attempts
      BY <3>1 DEF RequeueAfterBounce, Rows
    <3> QED
      BY <1>1, <2>3, <3>1, <3>2, RowOpsSettle, OtherRows DEF ReapRequeue, RowMoves, Earns
  <2>4. CASE RecordAgentStart
    <3>1. /\ tick.qid \in Queries /\ query[tick.qid].of = tick.about
          /\ query[tick.qid].state # "unused" /\ row[tick.about].status # "queued"
      BY <2>4 DEF RecordAgentStart, Answered, IInv, StartInv
    <3> QED
      BY <2>4, <3>1, AcceptRows DEF RecordAgentStart, ActOnAnswer
  <2>5. CASE StartMissingQueryId \/ StartBounced \/ StartExhausted \/ StartFailed
    BY <1>2, <2>5, IInvIsSound, AnsweredIsCalm
  <2> QED
    BY <1>4, <2>1, <2>2, <2>3, <2>4, <2>5 DEF TickStep
<1>5. ASSUME NEW d \in Dispatches, NotBeforePasses(d) \/ ClaimAges(d) \/ DirectFailed(d)
      PROVE  \A e \in Dispatches : RowMoves(e)
  BY <1>2, <1>5, IInvIsSound, RowClocksAreCalm
<1>6. ASSUME NEW q \in Queries,
             \/ AgentOutput(q) \/ AgentQuiet(q) \/ AgentFinish(q)
             \/ CloseoutStep(q) \/ LoseCall(q) \/ RepeatCall(q)
      PROVE  \A e \in Dispatches : RowMoves(e)
  BY <1>2, <1>6, IInvIsSound, AgentsAreCalm, ClosesAreCalm DEF CloseoutStep
<1>7. ASSUME NEW q \in Queries, DirectAccept(q) PROVE \A e \in Dispatches : RowMoves(e)
  <2>1. query[q].state # "unused"
    BY <1>7 DEF DirectAccept, IInv, QueriesInv, NoQuery
  <2> QED
    BY <1>7, <2>1, AcceptRows DEF DirectAccept
<1>8. CASE ManagerRestart \/ (\E d \in Dispatches, q \in Queries : DirectTalk(d, q))
           \/ UNCHANGED vars
  BY <1>3, <1>8 DEF ManagerRestart, DirectTalk, vars
<1> QED
  BY <1>4, <1>5, <1>5, <1>6, <1>7, <1>8 DEF Next, QueueStep

\* Every step is a step of every row.
LEMMA RowSteps == ASSUME IInv, [Next]_vars PROVE \A d \in Dispatches : RowStep(d)
<1>1. TypeOK
  BY DEF IInv
<1>2. ASSUME NEW d \in Dispatches, Enqueue(d) PROVE \A e \in Dispatches : RowStep(e)
  <2>1. PICK l \in Lanes, due \in BOOLEAN :
          row' = [row EXCEPT ![d] = [NoRow EXCEPT !.status = "queued",
                                                  !.lane = l, !.due = due]]
    BY <1>2 DEF Enqueue
  <2> DEFINE r == [NoRow EXCEPT !.status = "queued", !.lane = l, !.due = due]
  <2>2. r.status = "queued" /\ r.attempts = NoRow.attempts
    BY DEF NoRow
  <2>3. row[d] = NoRow /\ row[d].status = "absent"
    BY <1>2 DEF Enqueue, IInv, AbsentInv
  <2>4. row' = [row EXCEPT ![d] = r]
    BY <2>1
  <2> HIDE DEF r
  <2>5. row'[d] = r /\ \A e \in Dispatches \ {d} : row'[e] = row[e]
    BY <1>1, <2>4 DEF TypeOK
  <2>6. \A e \in Dispatches \ {d} : Settles(row[e], row'[e])
    BY <1>1, <2>5, RowOpsSettle DEF TypeOK
  <2> QED
    BY <2>2, <2>3, <2>5, <2>6 DEF RowStep, RowMoves, Earns
<1> QED
  BY <1>2, QueueRows DEF Next, RowStep

\* No step changes what a used query was issued for.
LEMMA QueriesGrowAlways == ASSUME IInv, [Next]_vars PROVE QueriesGrow
<1>1. TypeOK
  BY DEF IInv
<1>2. Calm => QueriesGrow
  BY DEF Calm
<1>3. UNCHANGED query => QueriesGrow
  BY <1>1, Unchanged
<1>4. ASSUME NEW q \in Unused, NEW d, NEW by, NEW n,
             query' = [query EXCEPT ![q] = NewQuery(d, by, n)]
      PROVE  QueriesGrow
  BY <1>1, <1>4 DEF TypeOK, Unused, QueriesGrow, Endings
<1>5. CASE TickStep
  <2>1. ASSUME NEW s \in tick.todo, ListedStep(s) PROVE QueriesGrow
    <3>1. ASSUME NEW q \in Queries, NEW reply \in Accepting, SendAccepted(s, q, reply)
          PROVE  QueriesGrow
      BY <1>4, <3>1 DEF SendAccepted
    <3> QED
      BY <1>3, <2>1, <3>1
      DEF ListedStep, EvidenceDone, EvidenceWaiting, EvidenceFailed, EvidenceSilent,
          EvidenceKeep, StaleFail, StaleKeep, SweepOne, Change, ReapBounce, ClaimOne,
          SendRejected
  <2> QED
    BY <1>3, <1>5, <2>1
    DEF TickStep, BeginEvidence, BeginReap, BeginStale, BeginSweep, SelectClaims,
        BeginStart, EndLane, BeginPhase, ReapRequeue, RecordAgentStart,
        StartMissingQueryId, StartBounced, StartExhausted, StartFailed, ActOnAnswer
<1>6. ASSUME NEW d \in Dispatches,
             Enqueue(d) \/ NotBeforePasses(d) \/ ClaimAges(d) \/ DirectFailed(d)
      PROVE  QueriesGrow
  BY <1>3, <1>6 DEF Enqueue, NotBeforePasses, ClaimAges, DirectFailed
<1>7. ASSUME NEW q \in Queries,
             \/ AgentOutput(q) \/ AgentQuiet(q) \/ AgentFinish(q)
             \/ CloseoutStep(q) \/ LoseCall(q) \/ RepeatCall(q)
      PROVE  QueriesGrow
  BY <1>2, <1>7, IInvIsSound, AgentsAreCalm, ClosesAreCalm DEF CloseoutStep
<1>8. ASSUME NEW d \in Dispatches, NEW q \in Queries, DirectTalk(d, q)
      PROVE  QueriesGrow
  BY <1>4, <1>8 DEF DirectTalk
<1>9. CASE ManagerRestart \/ (\E q \in Queries : DirectAccept(q)) \/ UNCHANGED vars
  BY <1>3, <1>9 DEF ManagerRestart, DirectAccept, vars
<1> QED
  BY <1>5, <1>6, <1>7, <1>8, <1>9 DEF Next, QueueStep

\* Nothing is done that no agent finished.
THEOREM DoneEarned == Spec => []DoneIsEarned
<1>1. Init => DoneIsEarned
  BY DEF Init, DoneIsEarned, NoRow
<1>2. IInv /\ DoneIsEarned /\ [Next]_vars => DoneIsEarned'
  <2> SUFFICES ASSUME IInv, DoneIsEarned, [Next]_vars PROVE DoneIsEarned'
    OBVIOUS
  <2>1. QueriesGrow /\ \A d \in Dispatches : RowStep(d)
    BY QueriesGrowAlways, RowSteps
  <2>2. EarnsDone
    BY <2>1 DEF RowStep, RowMoves, EarnsDone, Earns, Accepts
  <2> QED
    BY <2>1, <2>2, EarnedKept
<1> QED
  BY <1>1, <1>2, Invariance, PTL DEF Spec

\* No operation of the queue reopens or rewrites a settled row, from whatever
\* stale read its caller acts.
THEOREM SettledForGood == Spec => SettledStays
<1>1. IInv /\ [Next]_vars =>
        [\A d \in Dispatches :
           row[d].status \in Terminal => row'[d].status = row[d].status]_vars
  <2> SUFFICES ASSUME IInv, [Next]_vars, NEW d \in Dispatches, row[d].status \in Terminal
               PROVE  row'[d].status = row[d].status
    OBVIOUS
  <2>1. RowStep(d)
    BY RowSteps
  <2> QED
    BY <2>1 DEF RowStep, RowMoves, Settles, Accepts, Terminal
<1> QED
  BY <1>1, Invariance, PTL DEF Spec, SettledStays

\* attempt_count counts exactly the claims.
THEOREM AttemptsCountClaims == Spec => AttemptsMoveWithClaims
<1>1. IInv /\ [Next]_vars =>
        [\A d \in Dispatches :
           row'[d].attempts # row[d].attempts =>
              /\ row[d].status = "queued" /\ row'[d].status = "in_flight"
              /\ row'[d].attempts = row[d].attempts + 1]_vars
  <2> SUFFICES ASSUME IInv, [Next]_vars, NEW d \in Dispatches,
                      row'[d].attempts # row[d].attempts
               PROVE  /\ row[d].status = "queued" /\ row'[d].status = "in_flight"
                      /\ row'[d].attempts = row[d].attempts + 1
    OBVIOUS
  <2>1. RowStep(d)
    BY RowSteps
  <2> QED
    BY <2>1 DEF RowStep, RowMoves, Settles, Accepts
<1> QED
  BY <1>1, Invariance, PTL DEF Spec, AttemptsMoveWithClaims

--------------------------------------------------------------------------------
(* Slots: the headroom counted before a batch of claims is still there when its *)
(* last row is claimed, because every other step only frees slots.              *)

Ids(snaps) == {s.id : s \in snaps}

\* The rows a lane has claimed and the selected ones it is about to claim.
Spoken(l) == ClaimedInFlight(l) \cup Ids(tick.todo)

\* A subset of the dispatches is finite and no larger than its supersets.
LEMMA SmallerSet ==
    ASSUME NEW S \in SUBSET Dispatches, NEW T \in SUBSET S
    PROVE  /\ IsFiniteSet(S) /\ IsFiniteSet(T)
           /\ Cardinality(S) \in Nat /\ Cardinality(T) \in Nat
           /\ Cardinality(T) <= Cardinality(S)
<1>1. IsFiniteSet(S)
  BY FiniteAssumption, FS_Subset
<1>2. IsFiniteSet(T) /\ Cardinality(T) <= Cardinality(S)
  BY <1>1, FS_Subset
<1> QED
  BY <1>1, <1>2, FS_CardinalityType

LEMMA LargerUnion ==
    ASSUME NEW S \in SUBSET Dispatches, NEW T \in SUBSET Dispatches
    PROVE  Cardinality(S \cup T) <= Cardinality(S) + Cardinality(T)
<1>1. IsFiniteSet(S) /\ IsFiniteSet(T) /\ IsFiniteSet(S \cap T)
  BY SmallerSet
<1>2. Cardinality(S \cup T) = Cardinality(S) + Cardinality(T) - Cardinality(S \cap T)
  BY <1>1, FS_Union
<1>3. Cardinality(S) \in Nat /\ Cardinality(T) \in Nat /\ Cardinality(S \cap T) \in Nat
  BY <1>1, FS_CardinalityType
<1> QED
  BY <1>2, <1>3

\* A row that a lane has claimed was claimed before, or is being claimed now.
LEMMA ClaimedBefore ==
    ASSUME IInv, [Next]_vars, NEW l \in Lanes, NEW d \in ClaimedInFlight(l)'
    PROVE  \/ d \in ClaimedInFlight(l)
           \/ \E s \in tick.todo : s.id = d /\ ClaimOne(s)
<1>1. /\ d \in Dispatches /\ row'[d].status = "in_flight" /\ row'[d].lane = l
      /\ row'[d].link # None => query'[row'[d].link].by # "direct"
  BY DEF ClaimedInFlight, InFlight, DirectlyStarted
<1>2. RowStep(d) /\ QueriesGrow
  BY <1>1, RowSteps, QueriesGrowAlways
<1>3. row[d].link # None => /\ row[d].link \in Queries
                            /\ query[row[d].link].state # "unused"
  BY <1>1 DEF IInv, TypeOK, Rows, LinkIsOwn
<1>4. ASSUME row[d].status = "in_flight", row[d].lane = l, row'[d].link = row[d].link
      PROVE  d \in ClaimedInFlight(l)
  BY <1>1, <1>2, <1>3, <1>4 DEF ClaimedInFlight, InFlight, DirectlyStarted, QueriesGrow
<1>5. CASE Settles(row[d], row'[d])
  BY <1>1, <1>4, <1>5 DEF Settles
<1>6. CASE \E q \in Queries : Accepts(d, q)
  <2>1. PICK q \in Queries : Accepts(d, q)
    BY <1>6
  <2>2. q # None /\ query[q].by # "direct"
    BY <1>1, <2>1, NoneAssumption DEF Accepts
  <2>3. row[d].status = "in_flight" /\ row[d].lane = l /\ row[d].link \in {None, q}
    BY <1>1, <2>1, <2>2 DEF Accepts
  <2> QED
    BY <1>1, <2>2, <2>3 DEF ClaimedInFlight, InFlight, DirectlyStarted
<1> QED
  BY <1>1, <1>2, <1>5, <1>6 DEF RowStep, RowMoves

\* Outside a selection, the list of a batch being claimed only gets shorter.
LEMMA BatchShrinks ==
    ASSUME IInv, [Next]_vars, ~SelectClaims, tick'.phase = "claim"
    PROVE  tick.phase = "claim" /\ tick'.lane = tick.lane /\ tick'.todo \subseteq tick.todo
<1>1. TypeOK
  BY DEF IInv
<1>2. Calm => TodoKeeps
  BY DEF Calm
<1>3. UNCHANGED tick => TodoKeeps
  BY DEF TodoKeeps
<1>4. TodoKeeps => /\ tick.phase = "claim" /\ tick'.lane = tick.lane
                   /\ tick'.todo \subseteq tick.todo
  BY DEF TodoKeeps
<1>5. ASSUME NEW s \in tick.todo, ListedStep(s)
      PROVE  /\ tick'.phase = tick.phase /\ tick'.lane = tick.lane
             /\ tick'.todo \subseteq tick.todo
  BY <1>1, <1>5
  DEF ListedStep, EvidenceDone, EvidenceWaiting, EvidenceFailed, EvidenceSilent,
      EvidenceKeep, StaleFail, StaleKeep, SweepOne, Change, ReapBounce, ClaimOne,
      SendAccepted, SendRejected, TypeOK, Ticks
<1>6. CASE TickStep
  <2>1. CASE BeginEvidence \/ BeginReap \/ BeginStale \/ BeginSweep \/ EndLane \/ BeginStart
    BY <2>1 DEF BeginEvidence, BeginReap, BeginStale, BeginSweep, EndLane, BeginStart,
                BeginPhase, Idle
  <2>2. CASE ReapRequeue
    BY <1>1, <1>4, <2>2 DEF ReapRequeue, TodoKeeps, TypeOK, Ticks
  <2>3. CASE RecordAgentStart
    BY <1>1, <1>4, <2>3 DEF RecordAgentStart, ActOnAnswer, TodoKeeps, TypeOK, Ticks
  <2>4. CASE StartMissingQueryId \/ StartBounced \/ StartExhausted \/ StartFailed
    BY <1>2, <1>4, <2>4, IInvIsSound, AnsweredIsCalm
  <2> QED
    BY <1>5, <1>6, <2>1, <2>2, <2>3, <2>4 DEF TickStep
<1>7. ASSUME NEW d \in Dispatches,
             Enqueue(d) \/ NotBeforePasses(d) \/ ClaimAges(d) \/ DirectFailed(d)
      PROVE  TodoKeeps
  BY <1>3, <1>7 DEF Enqueue, NotBeforePasses, ClaimAges, DirectFailed
<1>8. ASSUME NEW q \in Queries,
             \/ AgentOutput(q) \/ AgentQuiet(q) \/ AgentFinish(q)
             \/ CloseoutStep(q) \/ LoseCall(q) \/ RepeatCall(q) \/ DirectAccept(q)
      PROVE  TodoKeeps
  BY <1>2, <1>3, <1>8, IInvIsSound, AgentsAreCalm, ClosesAreCalm DEF CloseoutStep, DirectAccept
<1>9. ASSUME NEW d \in Dispatches, NEW q \in Queries, DirectTalk(d, q) PROVE TodoKeeps
  BY <1>3, <1>9 DEF DirectTalk
<1>10. CASE ManagerRestart
  BY <1>10 DEF ManagerRestart, Idle
<1>11. CASE UNCHANGED vars
  BY <1>3, <1>4, <1>11 DEF vars
<1> QED
  BY <1>4, <1>6, <1>7, <1>8, <1>9, <1>10, <1>11 DEF Next, QueueStep

\* The rows spoken for are dispatches.
LEMMA SpokenSets ==
    ASSUME IInv, NEW l \in Lanes
    PROVE  /\ ClaimedInFlight(l) \in SUBSET Dispatches
           /\ Ids(tick.todo) \in SUBSET Dispatches
           /\ Spoken(l) \in SUBSET Dispatches
<1>1. \A s \in tick.todo : s.id \in Dispatches
  BY Counts DEF IInv, Held
<1> QED
  BY <1>1 DEF ClaimedInFlight, InFlight, Ids, Spoken

\* The bound on the slots and the one on the batch together are inductive.
LEMMA SlotsNext ==
    ASSUME IInv, SlotsIInv, [Next]_vars PROVE SlotsIInv'
<1>1. tick.lane \in Lanes /\ \A l \in Lanes : Cap[l] \in Nat
  BY LanesAssumption DEF IInv, TypeOK, Ticks
<1>2. IInv'
  BY IInvNext
<1>3. SlotsBounded'
  <2> SUFFICES ASSUME NEW l \in Lanes
               PROVE  Cardinality(ClaimedInFlight(l)') <= Cap[l]
    BY DEF SlotsBounded
  <2>1. CASE ClaimedInFlight(l)' \subseteq ClaimedInFlight(l)
    <3>1. /\ Cardinality(ClaimedInFlight(l)') <= Cardinality(ClaimedInFlight(l))
          /\ Cardinality(ClaimedInFlight(l)') \in Nat
          /\ Cardinality(ClaimedInFlight(l)) \in Nat
      BY <2>1, SpokenSets, SmallerSet
    <3> QED
      BY <1>1, <3>1 DEF SlotsIInv, SlotsBounded
  <2>2. CASE ~(ClaimedInFlight(l)' \subseteq ClaimedInFlight(l))
    <3>1. PICK s \in tick.todo : /\ ClaimOne(s) /\ s.id \in ClaimedInFlight(l)'
                                 /\ s.id \notin ClaimedInFlight(l)
      BY <2>2, ClaimedBefore
    <3>2. tick.phase = "claim"
      BY <3>1 DEF ClaimOne, Take
    <3>3. l = tick.lane
      <4>1. /\ TypeOK /\ s.id \in Dispatches /\ s.attempts \in Nat /\ row[s.id] \in Rows
            /\ row' = [row EXCEPT ![s.id] = ClaimRow(row[s.id], s.attempts)]
            /\ query' = query
        BY <3>1, Counts DEF IInv, Held, ClaimOne
      <4>2. row'[s.id] = ClaimRow(row[s.id], s.attempts)
        BY <4>1 DEF TypeOK
      <4>3. row'[s.id].lane = l
        BY <3>1 DEF ClaimedInFlight, InFlight
      <4>4. CASE row[s.id].status = "queued"
        <5>1. row[s.id].lane = tick.lane
          BY <3>2, <4>4 DEF IInv, ClaimInv
        <5>2. ClaimRow(row[s.id], s.attempts).lane = row[s.id].lane
          BY <4>1, <4>4, ClaimEffect
        <5> QED
          BY <4>2, <4>3, <5>1, <5>2
      <4>5. CASE row[s.id].status # "queued"
        <5>1. row'[s.id] = row[s.id]
          BY <4>1, <4>2, <4>5, ClaimEffect
        <5>2. /\ row'[s.id].status = "in_flight" /\ row'[s.id].lane = l
              /\ ~DirectlyStarted(s.id)'
          BY <3>1 DEF ClaimedInFlight, InFlight
        <5>3. ~DirectlyStarted(s.id)
          BY <4>1, <5>1, <5>2 DEF DirectlyStarted
        <5>4. s.id \in ClaimedInFlight(l)
          BY <4>1, <5>1, <5>2, <5>3 DEF ClaimedInFlight, InFlight
        <5> QED
          BY <3>1, <5>4
      <4> QED
        BY <4>4, <4>5
    <3>4. ClaimedInFlight(l)' \subseteq Spoken(l)
      BY ClaimedBefore DEF Spoken, Ids
    <3>5. Cardinality(Spoken(l)) <= Cap[l]
      BY <3>1, <3>2, <3>3 DEF SlotsIInv, SlotsInv, Spoken, Ids
    <3>6. /\ Cardinality(ClaimedInFlight(l)') <= Cardinality(Spoken(l))
          /\ Cardinality(ClaimedInFlight(l)') \in Nat
          /\ Cardinality(Spoken(l)) \in Nat
      BY <3>4, SpokenSets, SmallerSet
    <3> QED
      BY <1>1, <3>5, <3>6
  <2> QED
    BY <2>1, <2>2
<1>4. SlotsInv'
  <2> SUFFICES ASSUME tick'.phase = "claim", tick'.todo # {}, NEW l \in Lanes,
                      l = tick'.lane
               PROVE  Cardinality(ClaimedInFlight(l)' \cup Ids(tick'.todo)) <= Cap[l]
    BY <1>2 DEF SlotsInv, Ids, IInv, TypeOK, Ticks
  <2> DEFINE U == ClaimedInFlight(l)' \cup Ids(tick'.todo)
  <2>1. CASE SelectClaims
    <3>1. PICK ds \in SUBSET Eligible(tick.lane) :
            /\ ds = {} \/ Headroom(tick.lane, ds)
            /\ BeginPhase("claim", tick.lane, ds)
      BY <2>1 DEF SelectClaims
    <3>2. /\ l = tick.lane /\ tick'.todo = {Snap(d) : d \in ds}
          /\ UNCHANGED <<row, query>>
      BY <3>1 DEF BeginPhase, Idle
    <3>3. Ids(tick'.todo) = ds
      <4>1. \A d \in ds : Snap(d).id = d
        BY DEF Snap
      <4> QED
        BY <3>2, <4>1 DEF Ids
    <3>4. ClaimedInFlight(l)' \subseteq InFlight(l)
      BY <3>2 DEF ClaimedInFlight, InFlight
    <3>5. /\ ds \in SUBSET Dispatches /\ InFlight(l) \in SUBSET Dispatches
          /\ U \in SUBSET (InFlight(l) \cup ds)
      BY <3>3, <3>4 DEF Eligible, InFlight
    <3>6. /\ Cardinality(U) <= Cardinality(InFlight(l) \cup ds)
          /\ Cardinality(U) \in Nat /\ Cardinality(InFlight(l) \cup ds) \in Nat
          /\ Cardinality(InFlight(l)) \in Nat /\ Cardinality(ds) \in Nat
      BY <3>5, SmallerSet
    <3>7. Cardinality(InFlight(l) \cup ds) <= Cardinality(InFlight(l)) + Cardinality(ds)
      BY <3>5, LargerUnion
    <3>8. Cardinality(InFlight(l)) + Cardinality(ds) <= Cap[l]
      <4>1. ds # {}
        BY <3>2
      <4> QED
        BY <3>1, <3>2, <4>1 DEF Headroom
    <3> HIDE DEF U
    <3>9. Cardinality(U) <= Cap[l]
      BY <1>1, <3>6, <3>7, <3>8
    <3> QED
      BY <3>9 DEF U
  <2>2. CASE ~SelectClaims
    <3>1. /\ tick.phase = "claim" /\ tick.lane = l
          /\ tick'.todo \subseteq tick.todo
      BY <2>2, BatchShrinks
    <3>2. Ids(tick'.todo) \subseteq Ids(tick.todo) /\ tick.todo # {}
      BY <3>1 DEF Ids
    <3>3. ClaimedInFlight(l)' \subseteq Spoken(l)
      BY ClaimedBefore DEF Spoken, Ids
    <3>4. U \subseteq Spoken(l) /\ Spoken(l) \in SUBSET Dispatches
      BY <3>2, <3>3, SpokenSets DEF Spoken
    <3>5. Cardinality(Spoken(l)) <= Cap[l]
      BY <3>1, <3>2 DEF SlotsIInv, SlotsInv, Spoken, Ids
    <3> HIDE DEF U
    <3>6. /\ Cardinality(U) <= Cardinality(Spoken(l))
          /\ Cardinality(U) \in Nat /\ Cardinality(Spoken(l)) \in Nat
      BY <3>4, SmallerSet
    <3>7. Cardinality(U) <= Cap[l]
      BY <1>1, <3>5, <3>6
    <3> QED
      BY <3>7 DEF U
  <2> QED
    BY <2>1, <2>2
<1> QED
  BY <1>3, <1>4 DEF SlotsIInv

\* An empty queue holds no slot.
LEMMA SlotsInit == ASSUME Init PROVE SlotsIInv
<1>1. \A l \in Lanes : ClaimedInFlight(l) = {}
  BY DEF Init, NoRow, ClaimedInFlight, InFlight
<1>2. \A l \in Lanes : Cap[l] \in Nat
  BY LanesAssumption
<1>3. SlotsBounded
  BY <1>1, <1>2, FS_EmptySet DEF SlotsBounded
<1>4. SlotsInv
  BY DEF Init, Idle, SlotsInv
<1> QED
  BY <1>3, <1>4 DEF SlotsIInv

\* A lane never has more dispatches claimed than its cap.
THEOREM SlotsAreBounded == Spec => []SlotsBounded
<1>1. Init => SlotsIInv
  BY SlotsInit
<1>2. IInv /\ SlotsIInv /\ [Next]_vars => SlotsIInv'
  BY SlotsNext
<1>3. SlotsIInv => SlotsBounded
  BY DEF SlotsIInv
<1> QED
  BY <1>1, <1>2, <1>3, Invariance, PTL DEF Spec

--------------------------------------------------------------------------------
(* The promise *)

StageMap == [d \in Dispatches |-> StageOf(d)]
LaneMap  == [d \in Dispatches |-> row[d].lane]
CountMap == [d \in Dispatches |-> row[d].attempts]

\* What a producer sees of a row in each state.
SeenAsStage(d) ==
    /\ StageOf(d) = "absent" <=> row[d].status = "absent"
    /\ StageOf(d) = "waiting" <=> row[d].status \in Waiting
    /\ StageOf(d) = "running" <=> row[d].status = "in_flight" /\ ~DirectlyStarted(d)
    /\ StageOf(d) = "lent" <=> row[d].status = "in_flight" /\ DirectlyStarted(d)
    /\ StageOf(d) = "done" <=> row[d].status = "done"
    /\ StageOf(d) = "failed" <=> row[d].status \in {"failed", "cancelled"}
    /\ StageOf(d) \in {"absent", "waiting", "running", "lent", "done", "failed"}

\* A stage tells the statuses it stands for.
LEMMA Stages == TypeOK => \A d \in Dispatches : SeenAsStage(d)
<1> SUFFICES ASSUME TypeOK, NEW d \in Dispatches
             PROVE  SeenAsStage(d)
  OBVIOUS
<1>1. CASE row[d].status = "absent"
  BY <1>1 DEF SeenAsStage, StageOf, Waiting
<1>2. CASE row[d].status \in Waiting
  BY <1>2 DEF SeenAsStage, StageOf, Waiting
<1>3. CASE row[d].status = "in_flight"
  BY <1>3 DEF SeenAsStage, StageOf, Waiting
<1>4. CASE row[d].status = "done"
  BY <1>4 DEF SeenAsStage, StageOf, Waiting
<1>5. CASE row[d].status \in {"failed", "cancelled"}
  BY <1>5 DEF SeenAsStage, StageOf, Waiting
<1> QED
  BY <1>1, <1>2, <1>3, <1>4, <1>5 DEF TypeOK, Rows, Statuses, Waiting

\* The same after a step.
LEMMA StagesAfter == TypeOK' => (\A d \in Dispatches : SeenAsStage(d))'
  BY Stages, PTL

\* The lane's running dispatches are the rows it has claimed.
LEMMA RunningIsClaimed ==
    ASSUME TypeOK, NEW l \in Lanes
    PROVE  Promise!Running(l) = ClaimedInFlight(l)
<1>1. \A d \in Dispatches : StageOf(d) = "running" <=> row[d].status = "in_flight"
                                                       /\ ~DirectlyStarted(d)
  BY Stages DEF SeenAsStage
<1> QED
  BY <1>1 DEF Promise!Running, ClaimedInFlight, InFlight

\* A step changes one row at most.
LEMMA OneAtATime ==
    ASSUME IInv, [Next]_vars
    PROVE  \E d : \A e \in Dispatches \ {d} : row'[e] = row[e]
<1>1. TypeOK
  BY DEF IInv
<1>2. ASSUME NEW d, NEW r, row' = [row EXCEPT ![d] = r]
      PROVE  \A e \in Dispatches \ {d} : row'[e] = row[e]
  BY <1>1, <1>2 DEF TypeOK
<1>3. ASSUME UNCHANGED row
      PROVE  \E d : \A e \in Dispatches \ {d} : row'[e] = row[e]
  BY <1>3
<1>4. CASE TickStep
  <2>1. ASSUME NEW s \in tick.todo, ListedStep(s)
        PROVE  \E d : \A e \in Dispatches \ {d} : row'[e] = row[e]
    <3>1. UNCHANGED row \/ \E r : row' = [row EXCEPT ![s.id] = r]
      BY <2>1
      DEF ListedStep, EvidenceDone, EvidenceWaiting, EvidenceFailed, EvidenceSilent,
          EvidenceKeep, StaleFail, StaleKeep, SweepOne, Change, ReapBounce, ClaimOne,
          SendAccepted, SendRejected
    <3> QED
      BY <1>2, <1>3, <3>1
  <2>2. UNCHANGED row \/ (\E r : row' = [row EXCEPT ![tick.about] = r])
        \/ \E s \in tick.todo : ListedStep(s)
    BY <1>4
    DEF TickStep, BeginEvidence, BeginReap, BeginStale, BeginSweep, SelectClaims,
        BeginStart, EndLane, BeginPhase, ReapRequeue, RecordAgentStart,
        StartMissingQueryId, StartBounced, StartExhausted, StartFailed, ActOnAnswer
  <2> QED
    BY <1>2, <1>3, <2>1, <2>2
<1>5. ASSUME NEW d \in Dispatches,
             Enqueue(d) \/ NotBeforePasses(d) \/ ClaimAges(d) \/ DirectFailed(d)
      PROVE  \A e \in Dispatches \ {d} : row'[e] = row[e]
  BY <1>1, <1>5 DEF Enqueue, NotBeforePasses, ClaimAges, DirectFailed, TypeOK
<1>6. ASSUME NEW q \in Queries,
             \/ AgentOutput(q) \/ AgentQuiet(q) \/ AgentFinish(q)
             \/ CloseoutStep(q) \/ LoseCall(q) \/ RepeatCall(q) \/ DirectAccept(q)
      PROVE  UNCHANGED row \/ \E r : row' = [row EXCEPT ![query[q].of] = r]
  BY <1>6
  DEF AgentOutput, AgentQuiet, AgentFinish, CloseoutStep, ReadForCloseout, CloseSuccess,
      CloseFailure, CloseLimited, CloseUnverified, CloseWith, LoseCall, RepeatCall,
      DirectAccept
<1>7. CASE ManagerRestart \/ (\E d \in Dispatches, q \in Queries : DirectTalk(d, q))
           \/ UNCHANGED vars
  BY <1>3, <1>7 DEF ManagerRestart, DirectTalk, vars
<1> QED
  BY <1>2, <1>3, <1>4, <1>5, <1>6, <1>7 DEF Next, QueueStep

--------------------------------------------------------------------------------
(* The steps of the promise: each step starts, puts back or closes one dispatch *)
(* as DispatchPromise does, or changes nothing that a producer sees.            *)

\* What a producer sees of dispatch d becomes st, ln and n; the others stay.
Becomes(d, st, ln, n) ==
    /\ StageMap' = [StageMap EXCEPT ![d] = st]
    /\ LaneMap'  = [LaneMap EXCEPT ![d] = ln]
    /\ CountMap' = [CountMap EXCEPT ![d] = n]

Unsettled(d) == StageOf(d) \in {"waiting", "running", "lent"}

HasRoom(l) == Cardinality(Promise!Running(l)) < Cap[l]

Stutter == UNCHANGED <<StageMap, LaneMap, CountMap>>

\* Cardinality means the same to both modules.
LEMMA SameCardinality == ASSUME NEW S PROVE Promise!Cardinality(S) = Cardinality(S)
  BY DEF Promise!Cardinality, Cardinality

\* The actions of the promise, in terms of the row that becomes something.
LEMMA PromiseSteps ==
    ASSUME TypeOK, NEW d \in Dispatches
    PROVE  /\ Stutter => UNCHANGED Promise!vars
           /\ \A l \in Lanes :
                StageOf(d) = "absent" /\ Becomes(d, "waiting", l, row[d].attempts)
                   => Promise!Submit(d, l)
           /\ \A l \in Lanes :
                Unsettled(d) /\ Becomes(d, "waiting", l, row[d].attempts)
                   => Promise!PutBack(d, l)
           /\ \A outcome \in {"done", "failed"} :
                Unsettled(d) /\ Becomes(d, outcome, row[d].lane, row[d].attempts)
                   => Promise!Close(d, outcome)
           /\ \A to \in {"running", "lent"} :
                (/\ StageOf(d) = "waiting" /\ HasRoom(row[d].lane)
                 /\ Becomes(d, to, row[d].lane, row[d].attempts + 1))
                   => Promise!Start(d, to)
           /\ StageOf(d) = "waiting" /\ Becomes(d, "lent", row[d].lane, row[d].attempts + 1)
                   => Promise!Lend(d)
           /\ StageOf(d) = "running" /\ Becomes(d, "lent", row[d].lane, row[d].attempts)
                   => Promise!Lend(d)
<1>1. StageMap[d] = StageOf(d) /\ LaneMap[d] = row[d].lane /\ CountMap[d] = row[d].attempts
  BY DEF StageMap, LaneMap, CountMap
<1>2. /\ LaneMap = [LaneMap EXCEPT ![d] = row[d].lane]
      /\ CountMap = [CountMap EXCEPT ![d] = row[d].attempts]
  BY DEF LaneMap, CountMap
<1>3. Stutter => UNCHANGED Promise!vars
  BY DEF Stutter, Promise!vars, StageMap, LaneMap, CountMap
<1>4. ASSUME NEW l \in Lanes, StageOf(d) = "absent", Becomes(d, "waiting", l, row[d].attempts)
      PROVE  Promise!Submit(d, l)
  BY <1>1, <1>2, <1>4 DEF Becomes, Promise!Submit, StageMap, LaneMap, CountMap
<1>5. ASSUME NEW l \in Lanes, Unsettled(d), Becomes(d, "waiting", l, row[d].attempts)
      PROVE  Promise!PutBack(d, l)
  BY <1>1, <1>2, <1>5 DEF Becomes, Unsettled, Promise!PutBack, StageMap, LaneMap, CountMap
<1>6. ASSUME NEW outcome \in {"done", "failed"}, Unsettled(d),
             Becomes(d, outcome, row[d].lane, row[d].attempts)
      PROVE  Promise!Close(d, outcome)
  BY <1>1, <1>2, <1>6 DEF Becomes, Unsettled, Promise!Close, StageMap, LaneMap, CountMap
<1>7. ASSUME NEW to \in {"running", "lent"}, StageOf(d) = "waiting", HasRoom(row[d].lane),
             Becomes(d, to, row[d].lane, row[d].attempts + 1)
      PROVE  Promise!Start(d, to)
  <2>1. Promise!Cardinality(Promise!Running(LaneMap[d])) < Cap[LaneMap[d]]
    BY <1>1, <1>7, SameCardinality DEF HasRoom
  <2>2. /\ StageMap[d] = "waiting" /\ StageMap' = [StageMap EXCEPT ![d] = to]
        /\ CountMap' = [CountMap EXCEPT ![d] = @ + 1] /\ LaneMap' = LaneMap
    BY <1>1, <1>2, <1>7 DEF Becomes
  <2> QED
    BY <2>1, <2>2 DEF Promise!Start, StageMap, LaneMap, CountMap
<1>8. ASSUME StageOf(d) = "waiting", Becomes(d, "lent", row[d].lane, row[d].attempts + 1)
      PROVE  Promise!Lend(d)
  BY <1>1, <1>2, <1>8 DEF Becomes, Promise!Lend, StageMap, LaneMap, CountMap
<1>9. ASSUME StageOf(d) = "running", Becomes(d, "lent", row[d].lane, row[d].attempts)
      PROVE  Promise!Lend(d)
  BY <1>1, <1>2, <1>9 DEF Becomes, Promise!Lend, StageMap, LaneMap, CountMap
<1> QED
  BY <1>3, <1>4, <1>5, <1>6, <1>7, <1>8, <1>9

\* A step that leaves a row alone leaves its stage alone: who a query was issued for does
\* not change.
LEMMA SameStage ==
    ASSUME IInv, IInv', QueriesGrow, NEW e \in Dispatches,
           row'[e].status = row[e].status, row'[e].link = row[e].link
    PROVE  StageOf(e)' = StageOf(e)
<1>1. DirectlyStarted(e)' <=> DirectlyStarted(e)
  BY DEF IInv, LinkIsOwn, TypeOK, Rows, QueriesGrow, DirectlyStarted
<1> QED
  BY <1>1 DEF StageOf

\* The step of the row that changes is the step of the whole.
LEMMA Changes ==
    ASSUME IInv, IInv', QueriesGrow, NEW d \in Dispatches,
           \A e \in Dispatches \ {d} : row'[e] = row[e],
           NEW st, st = StageOf(d)', NEW l, l = row'[d].lane, NEW n, n = row'[d].attempts
    PROVE  Becomes(d, st, l, n)
<1>1. \A e \in Dispatches \ {d} : StageOf(e)' = StageOf(e)
  BY SameStage
<1>2. StageMap' = [StageMap EXCEPT ![d] = st]
  BY <1>1 DEF StageMap
<1>3. LaneMap' = [LaneMap EXCEPT ![d] = l]
  BY DEF LaneMap
<1>4. CountMap' = [CountMap EXCEPT ![d] = n]
  BY DEF CountMap
<1> QED
  BY <1>2, <1>3, <1>4 DEF Becomes

\* The row that is claimed is not among those its lane has claimed, and both fit under
\* the cap.
LEMMA RoomForClaim ==
    ASSUME IInv, SlotsIInv, NEW s \in tick.todo, ClaimOne(s), row[s.id].status = "queued"
    PROVE  /\ row[s.id].lane \in Lanes
           /\ HasRoom(row[s.id].lane)
<1> DEFINE l == row[s.id].lane
           C == ClaimedInFlight(l)
<1>1. TypeOK /\ s.id \in Dispatches /\ tick.phase = "claim" /\ l = tick.lane /\ l \in Lanes
  BY Counts DEF IInv, ClaimInv, ClaimOne, Take, Held, Rows
<1>2. s.id \notin C /\ C \in SUBSET Dispatches /\ Spoken(l) \in SUBSET Dispatches
  BY <1>1, SpokenSets DEF ClaimedInFlight, InFlight
<1>3. C \cup {s.id} \in SUBSET Spoken(l)
  BY DEF Spoken, Ids
<1>4. /\ Cardinality(C \cup {s.id}) <= Cardinality(Spoken(l)) /\ IsFiniteSet(C)
      /\ Cardinality(Spoken(l)) \in Nat /\ Cardinality(C) \in Nat
  BY <1>2, <1>3, SmallerSet
<1>5. Cardinality(C \cup {s.id}) = Cardinality(C) + 1
  BY <1>2, <1>4, FS_AddElement
<1>6. Cardinality(Spoken(l)) <= Cap[l] /\ Cap[l] \in Nat
  BY <1>1, LanesAssumption DEF SlotsIInv, SlotsInv, Spoken, Ids
<1> HIDE DEF C
<1>7. Cardinality(C) < Cap[l]
  BY <1>4, <1>5, <1>6
<1>8. Promise!Running(l) = C
  BY <1>1, RunningIsClaimed DEF C
<1> QED
  BY <1>1, <1>7, <1>8 DEF HasRoom

\* One row moves as the promise allows, or is seen to stay.
LEMMA RowKeepsPromise ==
    ASSUME IInv, IInv', SlotsIInv, QueriesGrow, NEW d \in Dispatches, RowStep(d),
           \A e \in Dispatches \ {d} : row'[e] = row[e]
    PROVE  [Promise!Next]_(Promise!vars)
<1> PICK st : st = StageOf(d)'
  OBVIOUS
<1> PICK l, n : l = row'[d].lane /\ n = row'[d].attempts
  OBVIOUS
<1>1. /\ TypeOK /\ TypeOK' /\ row[d] \in Rows /\ row'[d] \in Rows
      /\ row[d].attempts \in Nat /\ row[d].lane \in Lanes /\ l \in Lanes
  BY DEF IInv, TypeOK, Rows
<1>2. Becomes(d, st, l, n)
  BY Changes
<1>3. SeenAsStage(d) /\ SeenAsStage(d)'
  BY <1>1, Stages, StagesAfter
<1>4. CASE st = StageOf(d) /\ l = row[d].lane
           /\ n = row[d].attempts
  <2>1. Stutter
    <3>1. /\ StageMap' = [StageMap EXCEPT ![d] = StageMap[d]]
          /\ LaneMap' = [LaneMap EXCEPT ![d] = LaneMap[d]]
          /\ CountMap' = [CountMap EXCEPT ![d] = CountMap[d]]
      BY <1>2, <1>4 DEF Becomes, StageMap, LaneMap, CountMap
    <3>2. /\ StageMap = [StageMap EXCEPT ![d] = StageMap[d]]
          /\ LaneMap = [LaneMap EXCEPT ![d] = LaneMap[d]]
          /\ CountMap = [CountMap EXCEPT ![d] = CountMap[d]]
      BY DEF StageMap, LaneMap, CountMap
    <3> QED
      BY <3>1, <3>2 DEF Stutter
  <2> QED
    BY <1>1, <2>1, PromiseSteps
<1>5. CASE StageOf(d) = "absent" /\ st = "waiting"
           /\ n = row[d].attempts
  <2>1. Promise!Submit(d, l)
    BY <1>1, <1>2, <1>5, PromiseSteps
  <2> QED
    BY <1>1, <2>1 DEF Promise!Next
<1>6. CASE Unsettled(d) /\ st = "waiting" /\ n = row[d].attempts
  <2>1. Promise!PutBack(d, l)
    BY <1>1, <1>2, <1>6, PromiseSteps
  <2> QED
    BY <1>1, <2>1 DEF Promise!Next
<1>7. CASE Unsettled(d) /\ st \in {"done", "failed"}
           /\ l = row[d].lane /\ n = row[d].attempts
  <2>1. Promise!Close(d, st)
    BY <1>1, <1>2, <1>7, PromiseSteps
  <2> QED
    BY <1>1, <1>7, <2>1 DEF Promise!Next
<1>8. CASE StageOf(d) = "waiting" /\ HasRoom(row[d].lane) /\ st \in {"running", "lent"}
           /\ l = row[d].lane /\ n = row[d].attempts + 1
  <2>1. Promise!Start(d, st)
    BY <1>1, <1>2, <1>8, PromiseSteps
  <2> QED
    BY <1>1, <1>8, <2>1 DEF Promise!Next
<1>9. CASE /\ st = "lent" /\ l = row[d].lane
           /\ \/ StageOf(d) = "waiting" /\ n = row[d].attempts + 1
              \/ StageOf(d) = "running" /\ n = row[d].attempts
  <2>1. Promise!Lend(d)
    BY <1>1, <1>2, <1>9, PromiseSteps
  <2> QED
    BY <1>1, <2>1 DEF Promise!Next
<1>10. CASE Settles(row[d], row'[d])
  <2>1. CASE row[d].status \in {"absent"} \cup Terminal
    <3>1. /\ row'[d].status = row[d].status /\ row'[d].link = row[d].link
          /\ row'[d].lane = row[d].lane /\ row'[d].attempts = row[d].attempts
      BY <1>10, <2>1 DEF Settles, Terminal
    <3>2. st = StageOf(d)
      BY <3>1, SameStage
    <3> QED
      BY <1>4, <3>1, <3>2
  <2>2. CASE row[d].status \in Waiting \cup {"in_flight"}
    <3>1. Unsettled(d) /\ row'[d].attempts = row[d].attempts /\ row'[d].status # "absent"
      BY <1>3, <1>10, <2>2 DEF Settles, SeenAsStage, Unsettled, Waiting
    <3>2. CASE row'[d].status = "in_flight"
      <4>1. /\ row'[d].status = row[d].status /\ row'[d].link = row[d].link
            /\ row'[d].lane = row[d].lane
        BY <1>10, <3>2 DEF Settles
      <4>2. st = StageOf(d)
        BY <4>1, SameStage
      <4> QED
        BY <1>4, <3>1, <4>1, <4>2
    <3>3. CASE row'[d].status \in Waiting
      BY <1>3, <1>6, <3>1, <3>3 DEF SeenAsStage
    <3>4. CASE row'[d].status \in Terminal
      <4>1. row'[d].lane = row[d].lane
        BY <1>10, <3>4 DEF Settles, Terminal
      <4>2. st \in {"done", "failed"}
        BY <1>3, <3>4 DEF SeenAsStage, Terminal
      <4> QED
        BY <1>7, <3>1, <4>1, <4>2
    <3> QED
      BY <1>1, <3>1, <3>2, <3>3, <3>4 DEF Rows, Statuses, Waiting, Terminal
  <2> QED
    BY <1>1, <2>1, <2>2 DEF Rows, Statuses, Waiting, Terminal
<1>11. CASE \E s \in tick.todo : s.id = d /\ ClaimOne(s) /\ row[d].status = "queued"
  <2>1. PICK s \in tick.todo : s.id = d /\ ClaimOne(s) /\ row[d].status = "queued"
    BY <1>11
  <2>2. HasRoom(row[d].lane)
    BY <2>1, RoomForClaim
  <2>3. s.attempts = row[d].attempts
    <3>1. ClaimInv
      BY DEF IInv
    <3>2. tick.phase = "claim"
      BY <2>1 DEF ClaimOne, Take
    <3> QED
      BY <2>1, <3>1, <3>2 DEF ClaimInv
  <2>4. row'[d] = ClaimRow(row[d], row[d].attempts)
    <3>1. row' = [row EXCEPT ![d] = ClaimRow(row[d], s.attempts)]
      BY <2>1 DEF ClaimOne
    <3>2. row \in [Dispatches -> Rows]
      BY <1>1 DEF TypeOK
    <3>3. row'[d] = ClaimRow(row[d], s.attempts)
      BY <3>1, <3>2
    <3> QED
      BY <2>3, <3>3
  <2>5. /\ row'[d].status = "in_flight" /\ row'[d].lane = row[d].lane
        /\ row'[d].attempts = row[d].attempts + 1
    <3> DEFINE r == row[d]
               k == row[d].attempts
    <3>1. r \in Rows /\ k \in Nat /\ r.status = "queued"
      BY <1>1, <2>1
    <3>2. row'[d] = ClaimRow(r, k)
      BY <2>4
    <3> HIDE DEF r, k
    <3>3. /\ ClaimRow(r, k).status = "in_flight" /\ ClaimRow(r, k).lane = r.lane
          /\ ClaimRow(r, k).attempts = k + 1
      BY <3>1, ClaimEffect
    <3> QED
      BY <3>2, <3>3 DEF r, k
  <2>6. StageOf(d) = "waiting" /\ st \in {"running", "lent"}
    BY <1>3, <2>1, <2>5 DEF SeenAsStage, Waiting
  <2> QED
    BY <1>8, <2>2, <2>5, <2>6
<1>12. CASE \E q \in Queries : Accepts(d, q)
  <2>1. PICK q \in Queries : Accepts(d, q)
    BY <1>12
  <2>2. DirectlyStarted(d)' <=> query[q].by = "direct"
    BY <2>1, NoneAssumption DEF Accepts, DirectlyStarted
  <2>3. st = IF query[q].by = "direct" THEN "lent" ELSE "running"
    BY <1>3, <2>1, <2>2 DEF Accepts, SeenAsStage
  <2>4. CASE row[d].status = "queued"
    BY <1>3, <1>9, <2>1, <2>3, <2>4 DEF Accepts, SeenAsStage, Waiting
  <2>5. CASE row[d].status = "in_flight"
    <3>1. row[d].link \in {None, q} /\ row'[d].lane = row[d].lane
          /\ row'[d].attempts = row[d].attempts
      BY <2>1, <2>5 DEF Accepts
    <3>2. DirectlyStarted(d) => query[q].by = "direct"
      BY <3>1 DEF DirectlyStarted
    <3>3. StageOf(d) = IF DirectlyStarted(d) THEN "lent" ELSE "running"
      BY <1>3, <2>5 DEF SeenAsStage
    <3> QED
      BY <1>4, <1>9, <2>3, <3>1, <3>2, <3>3
  <2> QED
    BY <2>1, <2>4, <2>5 DEF Accepts
<1>13. CASE row[d].status = "bounced" /\ row'[d].status = "queued"
            /\ row'[d].attempts = row[d].attempts
  BY <1>3, <1>6, <1>13 DEF SeenAsStage, Unsettled, Waiting
<1>14. CASE row[d].status = "absent" /\ row'[d].status = "queued"
            /\ row'[d].attempts = row[d].attempts
  BY <1>3, <1>5, <1>14 DEF SeenAsStage, Waiting
<1> QED
  BY <1>10, <1>11, <1>12, <1>13, <1>14 DEF RowStep, RowMoves

\* Every step of the queue is a step of the promise, or is not seen.
LEMMA StepsKeepPromise ==
    ASSUME IInv, SlotsIInv, [Next]_vars
    PROVE  [Promise!Next]_(Promise!vars)
<1>1. IInv' /\ QueriesGrow /\ \A d \in Dispatches : RowStep(d)
  BY IInvNext, QueriesGrowAlways, RowSteps
<1>2. PICK d : \A e \in Dispatches \ {d} : row'[e] = row[e]
  BY OneAtATime
<1>3. CASE d \in Dispatches
  BY <1>1, <1>2, <1>3, RowKeepsPromise
<1>4. CASE d \notin Dispatches
  <2>1. \A e \in Dispatches : row'[e] = row[e] /\ StageOf(e)' = StageOf(e)
    BY <1>1, <1>2, <1>4, SameStage
  <2> QED
    BY <2>1 DEF Promise!vars
<1> QED
  BY <1>3, <1>4

\* The queue admits what one atomic check-and-start per dispatch would admit, for every
\* number of dispatches, queries, lanes and slots.
THEOREM PromiseIsKept == Spec => KeepsPromise
<1>1. Init => Promise!Init
  <2> SUFFICES ASSUME Init
               PROVE  Promise!Init
    OBVIOUS
  <2>1. \A d \in Dispatches : row[d] = NoRow
    BY DEF Init
  <2>2. \A d \in Dispatches : StageOf(d) = "absent"
    <3>1. TypeOK
      BY IInvInit DEF IInv
    <3> QED
      BY <2>1, <3>1, Stages DEF SeenAsStage, NoRow
  <2>3. 1 \in Lanes
    BY LanesAssumption DEF Lanes
  <2> QED
    BY <2>1, <2>2, <2>3 DEF Promise!Init, NoRow
<1>2. IInv /\ SlotsIInv /\ [Next]_vars => [Promise!Next]_(Promise!vars)
  BY StepsKeepPromise
<1>3. Init => SlotsIInv
  BY SlotsInit
<1>4. IInv /\ SlotsIInv /\ [Next]_vars => SlotsIInv'
  BY SlotsNext
<1> QED
  BY <1>1, <1>2, <1>3, <1>4, Invariance, PTL DEF Spec, KeepsPromise, Promise!Spec

================================================================================
