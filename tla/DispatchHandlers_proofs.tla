------------------------- MODULE DispatchHandlers_proofs -------------------------
(* Theorems about the two components that write rows of the queue beside the    *)
(* scheduler, recovery and clarification, for every number of dispatches,       *)
(* queries, recoveries, questions and callers that answer.                      *)
(*                                                                              *)
(* A step of recovery either is a step of the queue or revives failed rows, so  *)
(* the invariant of the queue is shown again for the second kind only.  The     *)
(* updates of clarification look at no status, and little of that invariant     *)
(* survives them; what does is Sound, and it is enough to tell whose question   *)
(* a row waits for.  That an attempt still pays for one message has an          *)
(* invariant of its own.                                                        *)
EXTENDS DispatchRecovery, DispatchClarification, DispatchQueue_proofs

--------------------------------------------------------------------------------
(* Rows that are revived                                                        *)

\* What recovery makes of a row.
Revives(r, s) ==
    \/ s = r
    \/ r.status = "failed" /\ s \in {Recovered(r), [r EXCEPT !.status = "done"]}

Revival == /\ row' \in [Dispatches -> Rows]
           /\ \A d \in Dispatches : Revives(row[d], row'[d])
           /\ UNCHANGED <<query, call, tick>>

\* A revived row is a row; it is not queued, counts no attempt and is linked to
\* its old query or to none.
LEMMA RevivesEffect ==
    ASSUME NEW r \in Rows, NEW s, Revives(r, s)
    PROVE  /\ s \in Rows
           /\ s.attempts = r.attempts
           /\ s.link \in {r.link, None}
           /\ s.status = "absent" <=> r.status = "absent"
           /\ s.status = "absent" => s = r
           /\ s.status = "queued" => s = r
  BY DEF Revives, Recovered, Rows, Statuses, FailureKinds

\* One row revived.
LEMMA OneRevived ==
    ASSUME TypeOK, NEW d \in Dispatches, NEW s, Revives(row[d], s),
           row' = [row EXCEPT ![d] = s], UNCHANGED <<query, call, tick>>
    PROVE  Revival
<1>1. s \in Rows
  BY RevivesEffect DEF TypeOK
<1>2. \A e \in Dispatches : row'[e] = IF e = d THEN s ELSE row[e]
  BY DEF TypeOK
<1> QED
  BY <1>1, <1>2 DEF TypeOK, Revival, Revives

\* A revival keeps the invariant of the queue: the row starts no attempt, and
\* the query it forgets is judged no more.
LEMMA RevivalKeeps == ASSUME IInv, Revival PROVE IInv'
<1>1. TypeOK /\ TypeOK'
  BY DEF IInv, TypeOK, Revival
<1>2. \A d \in Dispatches :
        /\ row[d] \in Rows /\ row[d].attempts \in Nat
        /\ row'[d] \in Rows
        /\ row'[d].attempts = row[d].attempts
        /\ row'[d].link \in {row[d].link, None}
        /\ row'[d].status = "absent" <=> row[d].status = "absent"
        /\ row'[d].status = "absent" => row'[d] = row[d]
        /\ row'[d].status = "queued" => row'[d] = row[d]
  BY <1>1, Counts, RevivesEffect DEF Revival
<1>3. RowsGrow /\ NothingRequeued
  BY <1>2 DEF RowsGrow, NothingRequeued
<1>4. QueriesGrow /\ NoNewQuery /\ NoNewSend /\ TodoKeeps /\ ReplyKeeps
  BY <1>1, Unchanged DEF Revival, NoNewQuery, NoNewSend
<1>5. AbsentInv' /\ QueriesInv' /\ OneTalkPerAttempt'
  BY <1>1, <1>3, <1>4, AbsentStep, QueriesKept, TalksKept DEF IInv
<1>6. LinkIsOwn'
  <2> SUFFICES ASSUME NEW d \in Dispatches, row'[d].link # None
               PROVE  /\ query'[row'[d].link].of = d
                      /\ query'[row'[d].link].state # "unused"
                      /\ query'[row'[d].link].attempt <= row'[d].attempts
    BY DEF LinkIsOwn
  <2>1. row'[d].link = row[d].link
    BY <1>2
  <2> QED
    BY <1>1, <1>3, <1>4, <2>1, LinkStep
<1>7. SnapshotsInv' /\ ClaimInv' /\ StartInv'
  BY <1>3, <1>4, SnapshotsKept, ClaimKept, ReplyKept DEF StartInv, TodoKeeps
<1> QED
  BY <1>1, <1>5, <1>6, <1>7 DEF IInv

--------------------------------------------------------------------------------
(* The steps of recovery                                                        *)

\* The steps the queue takes leave the recovery columns alone, and keep or lose
\* the pass.
QueueOnly == [Next]_vars /\ UNCHANGED rec /\ pass' \in {pass, NoPass}

\* One casualty acted on.
LEMMA CasualtySteps ==
    ASSUME TypeOK, pass \in Passes, NEW c \in pass.todo, CasualtyStep(c)
    PROVE  /\ Revival
           /\ \/ UNCHANGED row
              \/ /\ row[c.id].status = "failed"
                 /\ row' = [row EXCEPT ![c.id] = Recovered(row[c.id])]
                 /\ RequeueForRecovery(c)
<1>1. c.id \in Dispatches
  BY DEF Passes, Casualties
<1>2. CASE RequeueForRecovery(c)
  <2>1. /\ row[c.id].status = "failed"
        /\ row' = [row EXCEPT ![c.id] = Recovered(row[c.id])]
        /\ UNCHANGED <<query, call, tick>>
    BY <1>2 DEF RequeueForRecovery, Requeueable, CasualtyStep
  <2>2. Revives(row[c.id], Recovered(row[c.id]))
    BY <2>1 DEF Revives
  <2> QED
    BY <1>1, <1>2, <2>1, <2>2, OneRevived
<1>3. CASE UNCHANGED <<row, query, call, tick>>
  BY <1>3 DEF Revival, Revives, TypeOK
<1> QED
  BY <1>2, <1>3 DEF CasualtyStep, RequeueLost, RequeueRejected, Defer,
                    RecordRecoveryOutcome

\* Every step is the queue's or a revival.
LEMMA RecoverySteps ==
    ASSUME TypeOK, pass \in Passes, [RecoveryNext]_rvars
    PROVE  QueueOnly \/ Revival
<1>1. CASE \/ \E d \in Dispatches : EnqueueDeduped(d)
           \/ QueueStep /\ UNCHANGED <<rec, pass>>
           \/ RestartManager \/ UNCHANGED rvars
  BY <1>1 DEF EnqueueDeduped, RestartManager, QueueOnly, Next, rvars, vars
<1>2. CASE PassStep \/ \E d \in Dispatches : Moot(d)
  <2>1. CASE UNCHANGED <<row, query, call, tick>>
    BY <2>1 DEF Revival, Revives, TypeOK
  <2> QED
    BY <1>2, <2>1, CasualtySteps DEF PassStep, BeginPass, EndPass, Moot
<1>3. ASSUME NEW d \in Dispatches, Reconcile(d) PROVE Revival
  <2>1. /\ row' = [row EXCEPT ![d] = [row[d] EXCEPT !.status = "done"]]
        /\ UNCHANGED <<query, call, tick>>
    BY <1>3 DEF Reconcile
  <2>2. Revives(row[d], [row[d] EXCEPT !.status = "done"])
    BY <1>3 DEF Reconcile, Revives
  <2> QED
    BY <2>1, <2>2, OneRevived
<1> QED
  BY <1>1, <1>2, <1>3 DEF RecoveryNext

--------------------------------------------------------------------------------
(* The recovery columns and the pass                                            *)

Columns == rec \in [Dispatches -> RecoveryColumns] /\ pass \in Passes

\* What the steps that count no recovery do to the columns and the pass.
CountsNothing ==
    /\ \A d \in Dispatches : rec'[d].attempts = rec[d].attempts
    /\ pass'.todo \subseteq pass.todo

\* A pass that shrinks while nothing is counted stays right.
LEMMA PassKept ==
    ASSUME Columns, PassInv, RecoveryBounded, CountsNothing
    PROVE  PassInv' /\ RecoveryBounded'
<1>1. \A c \in pass.todo : c.id \in Dispatches
  BY DEF Columns, Passes, Casualties
<1> QED
  BY <1>1 DEF PassInv, RecoveryBounded, CountsNothing

\* The columns of one row written, its count kept.
LEMMA StatusWritten ==
    ASSUME Columns, NEW d \in Dispatches, NEW status \in RecoveryStatuses,
           rec' = [rec EXCEPT ![d].status = status]
    PROVE  /\ rec' \in [Dispatches -> RecoveryColumns]
           /\ \A e \in Dispatches : rec'[e].attempts = rec[e].attempts
<1>1. rec \in [Dispatches -> RecoveryColumns]
  BY DEF Columns
<1>2. \A e \in Dispatches :
        rec'[e] = IF e = d THEN [rec[d] EXCEPT !.status = status] ELSE rec[e]
  BY <1>1
<1>3. /\ [rec[d] EXCEPT !.status = status] \in RecoveryColumns
      /\ [rec[d] EXCEPT !.status = status].attempts = rec[d].attempts
  BY <1>1 DEF RecoveryColumns
<1> QED
  BY <1>1, <1>2, <1>3

\* A list that loses one casualty.
LEMMA Dropped ==
    ASSUME Columns, NEW c \in pass.todo
    PROVE  /\ Drop(c) \in Passes /\ Drop(c).todo = pass.todo \ {c}
           /\ [Drop(c) EXCEPT !.retried = @ + 1] \in Passes
           /\ [Drop(c) EXCEPT !.retried = @ + 1].todo = pass.todo \ {c}
<1>1. /\ pass \in Passes /\ pass.retried \in Nat /\ pass.retried + 1 \in Nat
  BY DEF Columns, Passes
<1>2. Drop(c) \in Passes /\ Drop(c).todo = pass.todo \ {c}
      /\ Drop(c).retried = pass.retried
  BY <1>1 DEF Drop, Passes
<1> QED
  BY <1>1, <1>2 DEF Passes

\* A new pass lists each failed row once, with its count.
LEMMA BeginPassKeeps ==
    ASSUME TypeOK, Columns, RecoveryBounded, BeginPass
    PROVE  Columns' /\ PassInv' /\ RecoveryBounded'
<1> DEFINE T == {Casualty(d) : d \in ListedForRecovery}
<1>1. \A d \in Dispatches : /\ Casualty(d) \in Casualties /\ Casualty(d).id = d
                            /\ Casualty(d).attempts = rec[d].attempts
  BY DEF Casualty, Casualties, TypeOK, Rows, Columns, RecoveryColumns
<1>2. \A c \in T : c.id \in Dispatches /\ c = Casualty(c.id)
  BY <1>1 DEF ListedForRecovery
<1>3. pass' = [on |-> TRUE, todo |-> T, retried |-> 0] /\ UNCHANGED rec
  BY DEF BeginPass, NoPass
<1> HIDE DEF T
<1>4. T \subseteq Casualties
  BY <1>1, <1>2
<1>5. pass' \in Passes /\ pass'.todo = T
  BY <1>3, <1>4 DEF Passes
<1>6. PassInv'
  BY <1>1, <1>2, <1>3, <1>5 DEF PassInv
<1> QED
  BY <1>3, <1>5, <1>6 DEF Columns, RecoveryBounded

\* The retry that is counted is one the budget of the row allows, because nothing
\* has counted one since the row was listed.
LEMMA RequeueCounts ==
    ASSUME Columns, PassInv, RecoveryBounded, NEW c \in pass.todo,
           RequeueForRecovery(c)
    PROVE  /\ Columns' /\ PassInv' /\ RecoveryBounded'
           /\ rec'[c.id].attempts = rec[c.id].attempts + 1
<1> DEFINE d == c.id
           s == [status |-> "recovering", attempts |-> rec[d].attempts + 1]
<1>1. /\ d \in Dispatches /\ rec \in [Dispatches -> RecoveryColumns]
      /\ rec[d].attempts \in Nat
  BY DEF Columns, Passes, Casualties, RecoveryColumns
<1>2. s \in RecoveryColumns /\ s.attempts = rec[d].attempts + 1
  BY <1>1 DEF RecoveryColumns, RecoveryStatuses
<1>3. rec' = [rec EXCEPT ![d] = s]
  BY DEF RequeueForRecovery
<1>4. rec[d].attempts < MaxRecoveries
  BY DEF RequeueForRecovery, MayRetry, PassInv
<1>5. s.attempts <= MaxRecoveries
  BY <1>1, <1>2, <1>4, RecoveryAssumption
<1>6. pass' \in Passes /\ pass'.todo = pass.todo \ {c}
  BY Dropped DEF RequeueForRecovery
<1> HIDE DEF s
<1>7. \A e \in Dispatches : rec'[e] = IF e = d THEN s ELSE rec[e]
  BY <1>1, <1>3
<1>8. Columns' /\ RecoveryBounded'
  <2>1. rec' \in [Dispatches -> RecoveryColumns]
    BY <1>1, <1>2, <1>3
  <2>2. RecoveryBounded'
    BY <1>5, <1>7 DEF RecoveryBounded
  <2> QED
    BY <1>6, <2>1, <2>2 DEF Columns
<1>9. PassInv'
  <2>1. \A e \in pass'.todo : e.id \in Dispatches /\ e.id # d
    BY <1>6 DEF PassInv, Columns, Passes, Casualties
  <2> QED
    BY <1>6, <1>7, <2>1 DEF PassInv
<1> QED
  BY <1>1, <1>2, <1>7, <1>8, <1>9

\* Every step keeps the columns and the pass right.
LEMMA ColumnsNext ==
    ASSUME TypeOK, Columns, PassInv, RecoveryBounded, [RecoveryNext]_rvars
    PROVE  Columns' /\ PassInv' /\ RecoveryBounded'
<1>1. NoPass \in Passes /\ NoPass.todo = {}
  BY DEF NoPass, Passes
<1>2. CASE UNCHANGED rec /\ pass' \in {pass, NoPass}
  BY <1>1, <1>2, PassKept DEF Columns, CountsNothing
<1>3. CASE BeginPass
  BY <1>3, BeginPassKeeps
<1>4. ASSUME NEW c \in pass.todo, CasualtyStep(c)
      PROVE  Columns' /\ PassInv' /\ RecoveryBounded'
  <2>1. CASE RequeueForRecovery(c)
    BY <2>1, RequeueCounts
  <2>2. CASE UNCHANGED rec /\ pass' \in {Drop(c), [Drop(c) EXCEPT !.retried = @ + 1]}
    BY <2>2, Dropped, PassKept DEF Columns, CountsNothing
  <2>3. CASE RecordRecoveryOutcome(c)
    <3>1. c.id \in Dispatches
      BY DEF Columns, Passes, Casualties
    <3>2. /\ rec' \in [Dispatches -> RecoveryColumns]
          /\ \A e \in Dispatches : rec'[e].attempts = rec[e].attempts
      BY <2>3, <3>1, StatusWritten DEF RecordRecoveryOutcome, RecoveryStatuses
    <3> QED
      BY <2>3, <3>2, Dropped, PassKept DEF RecordRecoveryOutcome, Columns, CountsNothing
  <2> QED
    BY <1>4, <2>1, <2>2, <2>3 DEF CasualtyStep, RequeueLost, RequeueRejected, Defer
<1>5. ASSUME NEW d \in Dispatches, Moot(d) \/ Reconcile(d)
      PROVE  Columns' /\ PassInv' /\ RecoveryBounded'
  <2>1. /\ rec' \in [Dispatches -> RecoveryColumns]
        /\ \A e \in Dispatches : rec'[e].attempts = rec[e].attempts
    BY <1>5, StatusWritten DEF Moot, Reconcile, RecoveryStatuses
  <2>2. UNCHANGED pass
    BY <1>5 DEF Moot, Reconcile
  <2> QED
    BY <2>1, <2>2, PassKept DEF Columns, CountsNothing
<1> QED
  BY <1>2, <1>3, <1>4, <1>5
  DEF RecoveryNext, EnqueueDeduped, PassStep, EndPass, RestartManager, rvars

--------------------------------------------------------------------------------
(* One active dispatch per key                                                  *)

\* A row the pass listed leaves failed only to be done, until the pass acts on it.
LEMMA ListedNext ==
    ASSUME IInv, Columns, PassInv, ListedInv, [RecoveryNext]_rvars
    PROVE  ListedInv'
<1>1. TypeOK /\ \A c \in pass.todo : c.id \in Dispatches
  BY DEF IInv, Columns, Passes, Casualties
<1>2. CASE QueueOnly
  <2>1. \A d \in Dispatches :
          row[d].status \in {"failed", "done"} => row'[d].status = row[d].status
    BY <1>2, RowSteps DEF QueueOnly, RowStep, RowMoves, Settles, Accepts, Terminal
  <2> QED
    BY <1>1, <1>2, <2>1 DEF QueueOnly, ListedInv, NoPass
<1>3. CASE BeginPass
  <2>1. \A d \in Dispatches : Casualty(d).id = d
    BY DEF Casualty
  <2>2. pass'.todo = {Casualty(d) : d \in ListedForRecovery} /\ UNCHANGED row
    BY <1>3 DEF BeginPass, NoPass
  <2> QED
    BY <2>1, <2>2 DEF ListedInv, ListedForRecovery, Recoverable
<1>4. ASSUME NEW c \in pass.todo, CasualtyStep(c) PROVE ListedInv'
  <2>1. pass'.todo = pass.todo \ {c}
    BY <1>4, Dropped DEF CasualtyStep, RequeueForRecovery, RequeueLost,
                         RequeueRejected, Defer, RecordRecoveryOutcome
  <2>2. \A e \in pass'.todo : e.id # c.id /\ row'[e.id] = row[e.id]
    BY <1>1, <1>4, <2>1, CasualtySteps DEF PassInv, Columns, TypeOK
  <2> QED
    BY <2>1, <2>2 DEF ListedInv
<1>5. ASSUME NEW d \in Dispatches, Reconcile(d) PROVE ListedInv'
  <2>1. /\ row'[d].status = "done" /\ UNCHANGED pass
        /\ \A e \in Dispatches \ {d} : row'[e] = row[e]
    BY <1>1, <1>5 DEF Reconcile, TypeOK, Rows
  <2> QED
    BY <1>1, <2>1 DEF ListedInv
<1>6. CASE EndPass \/ \E d \in Dispatches : Moot(d)
  BY <1>6 DEF EndPass, Moot, NoPass, ListedInv
<1>7. CASE \/ \E d \in Dispatches : EnqueueDeduped(d)
           \/ QueueStep /\ UNCHANGED <<rec, pass>>
           \/ RestartManager \/ UNCHANGED rvars
  BY <1>2, <1>7 DEF EnqueueDeduped, RestartManager, QueueOnly, Next, rvars, vars
<1> QED
  BY <1>3, <1>4, <1>5, <1>6, <1>7 DEF RecoveryNext, PassStep

\* A row enters the index only where none of its key is, and alone.
LEMMA IndexNext ==
    ASSUME IInv, Columns, ListedInv, [RecoveryNext]_rvars
    PROVE  \/ \A d \in Dispatches : Indexed(d)' => Indexed(d)
           \/ \E d \in Dispatches :
                ~ActiveTwin(d) /\ \A e \in Dispatches \ {d} : Indexed(e)' => Indexed(e)
<1> DEFINE NoneEnters == \A d \in Dispatches : Indexed(d)' => Indexed(d)
<1>1. TypeOK /\ \A c \in pass.todo : c.id \in Dispatches
  BY DEF IInv, Columns, Passes, Casualties
<1>2. ASSUME UNCHANGED rec, \A d \in Dispatches : RowMoves(d) PROVE NoneEnters
  <2> SUFFICES ASSUME NEW d \in Dispatches, row'[d].status \in Active
               PROVE  row[d].status \in Active
    BY <1>2 DEF Indexed
  <2>1. RowMoves(d) /\ row[d].status \in Statuses
    BY <1>1, <1>2 DEF TypeOK, Rows
  <2> QED
    BY <2>1 DEF RowMoves, Settles, Accepts, Active, Statuses, Terminal
<1>3. CASE (QueueStep /\ UNCHANGED <<rec, pass>>) \/ RestartManager \/ UNCHANGED rvars
  BY <1>2, <1>3, QueueRows DEF RestartManager, rvars, vars
<1>4. ASSUME NEW d \in Dispatches, EnqueueDeduped(d)
      PROVE  ~ActiveTwin(d) /\ \A e \in Dispatches \ {d} : Indexed(e)' => Indexed(e)
  <2>1. ~ActiveTwin(d) /\ UNCHANGED rec /\ \A e \in Dispatches \ {d} : row'[e] = row[e]
    BY <1>1, <1>4 DEF EnqueueDeduped, Enqueue, TypeOK
  <2> QED
    BY <2>1 DEF Indexed
<1>5. ASSUME NEW c \in pass.todo, RequeueForRecovery(c)
      PROVE  ~ActiveTwin(c.id) /\ \A e \in Dispatches \ {c.id} : Indexed(e)' => Indexed(e)
  <2>1. /\ ~ActiveTwin(c.id)
        /\ \A e \in Dispatches \ {c.id} : row'[e] = row[e] /\ rec'[e] = rec[e]
    BY <1>1, <1>5 DEF RequeueForRecovery, Requeueable, TypeOK, Columns
  <2> QED
    BY <2>1 DEF Indexed
<1>6. ASSUME NEW c \in pass.todo, CasualtyStep(c), ~RequeueForRecovery(c)
      PROVE  NoneEnters
  <2>1. UNCHANGED row /\ \A e \in Dispatches \ {c.id} : rec'[e] = rec[e]
    BY <1>1, <1>6 DEF CasualtyStep, RequeueLost, RequeueRejected, Defer,
                      RecordRecoveryOutcome, Columns
  <2>2. ~Indexed(c.id)'
    BY <2>1 DEF ListedInv, Indexed, Active, Terminal
  <2> QED
    BY <2>1, <2>2 DEF Indexed
<1>7. ASSUME NEW d \in Dispatches, Moot(d) \/ Reconcile(d) PROVE NoneEnters
  <2>1. /\ rec'[d].status \in {"moot", "landed"}
        /\ \A e \in Dispatches \ {d} : row'[e] = row[e] /\ rec'[e] = rec[e]
    BY <1>1, <1>7 DEF Moot, Reconcile, TypeOK, Columns, RecoveryColumns
  <2> QED
    BY <2>1 DEF Indexed
<1>8. CASE BeginPass \/ EndPass
  BY <1>8 DEF BeginPass, EndPass, Indexed
<1> QED
  BY <1>1, <1>3, <1>4, <1>5, <1>6, <1>7, <1>8 DEF RecoveryNext, PassStep

\* So it never holds two rows of one key.
LEMMA OneActiveNext ==
    ASSUME IInv, Columns, ListedInv, OneActivePerKey, [RecoveryNext]_rvars
    PROVE  OneActivePerKey'
<1> SUFFICES ASSUME NEW d \in Dispatches, NEW e \in Dispatches,
                    KeyOf[d] = KeyOf[e], Indexed(d)', Indexed(e)', d # e
             PROVE  FALSE
  BY DEF OneActivePerKey
<1>1. ~(Indexed(d) /\ Indexed(e))
  BY DEF OneActivePerKey
<1> QED
  BY <1>1, IndexNext DEF ActiveTwin

--------------------------------------------------------------------------------
(* The theorems                                                                 *)

LEMMA RecoveryIInvInit == ASSUME RecoveryInit PROVE RecoveryIInv
<1>1. IInv /\ TypeOK
  BY IInvInit DEF RecoveryInit, IInv
<1>2. rec \in [Dispatches -> RecoveryColumns] /\ pass \in Passes
  BY DEF RecoveryInit, RecoveryColumns, RecoveryStatuses, NoPass, Passes
<1>3. PassInv /\ ListedInv /\ RecoveryBounded
  BY RecoveryAssumption DEF RecoveryInit, NoPass, PassInv, ListedInv, RecoveryBounded
<1>4. OneActivePerKey
  BY DEF RecoveryInit, Init, NoRow, OneActivePerKey, Indexed, Active
<1> QED
  BY <1>1, <1>2, <1>3, <1>4 DEF RecoveryIInv, RecoveryTypeOK

LEMMA RecoveryIInvNext ==
    ASSUME RecoveryIInv, [RecoveryNext]_rvars PROVE RecoveryIInv'
<1>1. IInv /\ TypeOK /\ Columns /\ PassInv /\ RecoveryBounded
  BY DEF RecoveryIInv, RecoveryTypeOK, Columns
<1>2. IInv'
  BY <1>1, RecoverySteps, RevivalKeeps, IInvNext DEF QueueOnly, Columns
<1>3. Columns' /\ PassInv' /\ RecoveryBounded'
  BY <1>1, ColumnsNext
<1>4. ListedInv' /\ OneActivePerKey'
  BY <1>1, ListedNext, OneActiveNext DEF RecoveryIInv
<1> QED
  BY <1>2, <1>3, <1>4 DEF RecoveryIInv, RecoveryTypeOK, Columns, IInv

\* Every reachable state satisfies the invariant of the queue and of recovery.
THEOREM RecoveryInvariance == RecoverySpec => []RecoveryIInv
<1>1. RecoveryInit => RecoveryIInv
  BY RecoveryIInvInit
<1>2. RecoveryIInv /\ [RecoveryNext]_rvars => RecoveryIInv'
  BY RecoveryIInvNext
<1> QED
  BY <1>1, <1>2, PTL DEF RecoverySpec

\* Every variable of the queue and of recovery keeps its type.
THEOREM RecoveryTypeCorrect == RecoverySpec => []RecoveryTypeOK
<1>1. RecoveryIInv => RecoveryTypeOK
  BY DEF RecoveryIInv
<1> QED
  BY <1>1, RecoveryInvariance, PTL

\* No dispatch is recovered more often than max_attempts.
THEOREM RecoveryIsBounded == RecoverySpec => []RecoveryBounded
<1>1. RecoveryIInv => RecoveryBounded
  BY DEF RecoveryIInv
<1> QED
  BY <1>1, RecoveryInvariance, PTL

\* One logical work has one active dispatch, whoever fires or recovers it.
THEOREM OneActive == RecoverySpec => []OneActivePerKey
<1>1. RecoveryIInv => OneActivePerKey
  BY DEF RecoveryIInv
<1> QED
  BY <1>1, RecoveryInvariance, PTL

\* Recovery keeps attempt_count, so a recovered dispatch is still sent at most
\* once for each attempt.
THEOREM OneTalkUnderRecovery == RecoverySpec => []OneTalkPerAttempt
<1>1. RecoveryIInv => OneTalkPerAttempt
  BY DEF RecoveryIInv, IInv
<1> QED
  BY <1>1, RecoveryInvariance, PTL

\* What is done stays done, whatever a recovery pass listed.
THEOREM DoneForGood == RecoverySpec => DoneStays
<1>1. RecoveryIInv /\ [RecoveryNext]_rvars =>
        [\A d \in Dispatches : row[d].status = "done" => row'[d].status = "done"]_rvars
  <2> SUFFICES ASSUME RecoveryIInv, [RecoveryNext]_rvars,
                      NEW d \in Dispatches, row[d].status = "done"
               PROVE  row'[d].status = "done"
    OBVIOUS
  <2>1. IInv /\ TypeOK /\ pass \in Passes
    BY DEF RecoveryIInv, RecoveryTypeOK
  <2>2. CASE QueueOnly
    <3>1. RowStep(d)
      BY <2>1, <2>2, RowSteps DEF QueueOnly
    <3> QED
      BY <3>1 DEF RowStep, RowMoves, Settles, Accepts, Terminal
  <2>3. CASE Revival
    BY <2>3 DEF Revival, Revives
  <2> QED
    BY <2>1, <2>2, <2>3, RecoverySteps
<1> QED
  BY <1>1, RecoveryInvariance, PTL DEF RecoverySpec, DoneStays

\* Only a counted recovery or landed work takes a row out of failed.
THEOREM RevivalsAreCounted == RecoverySpec => RevivalsCounted
<1>1. RecoveryIInv /\ [RecoveryNext]_rvars =>
        [\A d \in Dispatches :
           row[d].status = "failed" /\ row'[d].status # "failed" =>
              \/ row'[d].status = "bounced" /\ rec'[d].attempts = rec[d].attempts + 1
              \/ row'[d].status = "done" /\ rec'[d].status = "landed"]_rvars
  <2> SUFFICES ASSUME RecoveryIInv, [RecoveryNext]_rvars, NEW d \in Dispatches,
                      row[d].status = "failed", row'[d].status # "failed"
               PROVE  \/ /\ row'[d].status = "bounced"
                         /\ rec'[d].attempts = rec[d].attempts + 1
                      \/ row'[d].status = "done" /\ rec'[d].status = "landed"
    OBVIOUS
  <2>1. IInv /\ TypeOK /\ Columns /\ PassInv /\ RecoveryBounded
    BY DEF RecoveryIInv, RecoveryTypeOK, Columns
  <2>2. ASSUME NEW c \in pass.todo, CasualtyStep(c)
        PROVE  row'[d].status = "bounced" /\ rec'[d].attempts = rec[d].attempts + 1
    <3>1. /\ c.id \in Dispatches /\ RequeueForRecovery(c)
          /\ row' = [row EXCEPT ![c.id] = Recovered(row[c.id])]
      BY <2>1, <2>2, CasualtySteps DEF Columns, Passes, Casualties
    <3>2. c.id = d /\ row'[d] = Recovered(row[d])
      BY <2>1, <3>1 DEF TypeOK
    <3>3. row[d] \in Rows
      BY <2>1 DEF TypeOK
    <3> QED
      BY <2>1, <3>1, <3>2, <3>3, RequeueCounts DEF Recovered, Rows
  <2>3. ASSUME NEW e \in Dispatches, Reconcile(e)
        PROVE  row'[d].status = "done" /\ rec'[d].status = "landed"
    <3>1. e = d
      BY <2>1, <2>3 DEF Reconcile, TypeOK
    <3> QED
      BY <2>1, <2>3, <3>1 DEF Reconcile, TypeOK, Rows, Columns, RecoveryColumns
  <2>4. CASE [Next]_vars
    <3>1. RowStep(d)
      BY <2>1, <2>4, RowSteps
    <3> QED
      BY <3>1 DEF RowStep, RowMoves, Settles, Accepts, Terminal
  <2>5. CASE UNCHANGED row
    BY <2>5
  <2> QED
    BY <2>2, <2>3, <2>4, <2>5
    DEF RecoveryNext, EnqueueDeduped, PassStep, BeginPass, EndPass, Moot,
        RestartManager, Next, rvars
<1> QED
  BY <1>1, RecoveryInvariance, PTL DEF RecoverySpec, RevivalsCounted

--------------------------------------------------------------------------------
(* What is sound stays sound                                                    *)

\* What a step may do to the rows' links, the queries, the lists and the answer.
LinksOwn == \A d \in Dispatches : row'[d].link # None =>
               row'[d].link = row[d].link \/ IssuedFor(row'[d].link, d)

QueriesNamed == \A q \in Queries : query[q].state = "unused" /\ query'[q] # NoQuery =>
                   query'[q].state # "unused" /\ query'[q].of \in Dispatches

HeldOwn == \A s \in Held' : s.link # None =>
              \/ \E t \in Held : t.link = s.link /\ t.id = s.id
              \/ IssuedFor(s.link, s.id)

AnswerNamed ==
    /\ tick'.phase = "evidence" => \A s \in tick'.todo : s.link # None
    /\ tick'.reply # "none" => tick'.about \in Dispatches
    /\ tick'.reply = "started" => /\ tick'.qid \in Queries
                                  /\ query'[tick'.qid].of = tick'.about
                                  /\ query'[tick'.qid].state # "unused"

\* A query goes on standing for its dispatch.
LEMMA IssuedStays ==
    ASSUME QueriesGrow, NEW q \in Queries, NEW d, IssuedFor(q, d)
    PROVE  query'[q].of = d /\ query'[q].state # "unused"
  BY DEF QueriesGrow, IssuedFor

LEMMA SoundStep ==
    ASSUME Sound, TypeOK', QueriesGrow, LinksOwn, QueriesNamed, HeldOwn, AnswerNamed
    PROVE  Sound'
<1>1. \A q \in Queries : query'[q] # NoQuery =>
        query'[q].state # "unused" /\ query'[q].of \in Dispatches
  <2> SUFFICES ASSUME NEW q \in Queries, query'[q] # NoQuery
               PROVE  query'[q].state # "unused" /\ query'[q].of \in Dispatches
    OBVIOUS
  <2>1. CASE query[q].state = "unused"
    BY <2>1 DEF QueriesNamed
  <2>2. CASE query[q].state # "unused"
    BY <2>2 DEF Sound, QueriesGrow, NoQuery
  <2> QED
    BY <2>1, <2>2
<1>2. ASSUME NEW d \in Dispatches, row'[d].link # None
      PROVE  query'[row'[d].link].of = d /\ query'[row'[d].link].state # "unused"
  <2>1. row'[d].link \in Queries
    BY <1>2 DEF TypeOK, Rows
  <2>2. IssuedFor(row'[d].link, d)
    BY <1>2 DEF LinksOwn, Sound
  <2> QED
    BY <2>1, <2>2, IssuedStays
<1>3. ASSUME NEW s \in Held', s.link # None
      PROVE  query'[s.link].of = s.id /\ query'[s.link].state # "unused"
  <2>1. s.link \in Queries
    BY <1>3 DEF TypeOK, Held, Ticks, Snapshots
  <2>2. IssuedFor(s.link, s.id)
    BY <1>3 DEF HeldOwn, Sound
  <2> QED
    BY <2>1, <2>2, IssuedStays
<1> QED
  BY <1>1, <1>2, <1>3 DEF AnswerNamed, Sound, IssuedFor

\* Lists that only shrink and an answer that is kept or acted on.
LEMMA TickKept ==
    ASSUME Sound, QueriesGrow, TodoKeeps, ReplyKeeps PROVE HeldOwn /\ AnswerNamed
<1>1. Held' \subseteq Held
  BY DEF Held, TodoKeeps
<1>2. HeldOwn
  BY <1>1 DEF HeldOwn
<1>3. tick.reply = "started" => /\ query'[tick.qid].of = tick.about
                                /\ query'[tick.qid].state # "unused"
  BY IssuedStays DEF Sound
<1>4. AnswerNamed
  BY <1>3 DEF AnswerNamed, Sound, TodoKeeps, ReplyKeeps
<1> QED
  BY <1>2, <1>4

\* What no step of the queue does to a row: reopen it or make it wait for an answer.
Ordinary == \A d \in Dispatches :
    /\ row[d].status \in Terminal => row'[d].status = row[d].status
    /\ row'[d].status = "needs_clarification" => row[d].status = "needs_clarification"

Keeps == Sound' /\ QueriesGrow /\ Ordinary

LEMMA CalmKeeps == ASSUME Sound, Calm PROVE Keeps
<1>1. TypeOK /\ TypeOK' /\ LinksKeep
  BY SettleIsGrowth DEF Sound, Calm
<1>2. LinksOwn /\ QueriesNamed
  BY <1>1 DEF Calm, LinksKeep, LinksOwn, NoNewQuery, QueriesNamed, Sound
<1>3. Ordinary
  BY DEF Calm, RowsSettle, Settles, Ordinary
<1> QED
  BY <1>1, <1>2, <1>3, TickKept, SoundStep DEF Calm, Keeps

\* One row changed, its link kept, forgotten or given a query of its own dispatch.
LEMMA RowChanged ==
    ASSUME Sound, NEW d \in Dispatches, NEW r \in Rows, row' = [row EXCEPT ![d] = r],
           r.link \in {row[d].link, None} \/ IssuedFor(r.link, d),
           UNCHANGED query, call' \in [Queries -> CallStates],
           tick' \in Ticks, HeldOwn, AnswerNamed
    PROVE  /\ Sound' /\ QueriesGrow
           /\ row'[d] = r /\ \A e \in Dispatches \ {d} : row'[e] = row[e]
<1>1. TypeOK
  BY DEF Sound
<1>2. /\ row' \in [Dispatches -> Rows]
      /\ row'[d] = r /\ \A e \in Dispatches \ {d} : row'[e] = row[e]
  BY <1>1 DEF TypeOK
<1>3. query' \in [Queries -> QueryRecords] /\ QueriesGrow /\ NoNewQuery
  BY <1>1, Unchanged
<1>4. TypeOK'
  BY <1>2, <1>3 DEF TypeOK
<1>5. LinksOwn
  BY <1>2 DEF LinksOwn
<1>6. QueriesNamed
  BY <1>3 DEF NoNewQuery, QueriesNamed, Sound
<1> QED
  BY <1>2, <1>3, <1>4, <1>5, <1>6, SoundStep

\* Such a change is ordinary when the row is neither reopened nor paused.
LEMMA OrdinaryRow ==
    ASSUME NEW d \in Dispatches, \A e \in Dispatches \ {d} : row'[e] = row[e],
           row[d].status \in Terminal => row'[d].status = row[d].status,
           row'[d].status = "needs_clarification" => row[d].status = "needs_clarification"
    PROVE  Ordinary
<1>1. ASSUME NEW e \in Dispatches
      PROVE  /\ row[e].status \in Terminal => row'[e].status = row[e].status
             /\ row'[e].status = "needs_clarification" => row[e].status = "needs_clarification"
  BY <1>1
<1> QED
  BY <1>1 DEF Ordinary

\* Rows and queries left alone.
LEMMA StillKeeps ==
    ASSUME Sound, UNCHANGED <<row, query>>, call' \in [Queries -> CallStates],
           tick' \in Ticks, HeldOwn, AnswerNamed
    PROVE  Keeps
<1>1. TypeOK
  BY DEF Sound
<1>2. /\ row' \in [Dispatches -> Rows] /\ query' \in [Queries -> QueryRecords]
      /\ QueriesGrow /\ NoNewQuery
  BY <1>1, Unchanged
<1>3. TypeOK'
  BY <1>2 DEF TypeOK
<1>4. LinksOwn /\ Ordinary
  BY DEF LinksOwn, Ordinary
<1>5. QueriesNamed
  BY <1>2 DEF QueriesNamed, NoNewQuery, Sound
<1> QED
  BY <1>2, <1>3, <1>4, <1>5, SoundStep DEF Keeps

\* A query is issued.
LEMMA IssueKeeps ==
    ASSUME Sound, NEW q \in Unused, NEW d \in Dispatches,
           NEW by \in {"scheduler", "direct", "resume"}, NEW n \in Nat,
           query' = [query EXCEPT ![q] = NewQuery(d, by, n)],
           UNCHANGED row, call' \in [Queries -> CallStates], tick' \in Ticks,
           HeldOwn, QueriesGrow /\ query'[q].of = d /\ query'[q].state # "unused" => AnswerNamed
    PROVE  Keeps /\ query'[q].of = d /\ query'[q].state # "unused"
<1>1. /\ TypeOK /\ q \in Queries /\ query[q].state = "unused"
      /\ \A p \in Queries : query'[p] = IF p = q THEN NewQuery(d, by, n) ELSE query[p]
  BY DEF Sound, TypeOK, Unused
<1>2. /\ NewQuery(d, by, n) \in QueryRecords
      /\ NewQuery(d, by, n).state = "processing" /\ NewQuery(d, by, n).of = d
  BY DEF NewQuery, QueryRecords
<1>3. QueriesGrow
  BY <1>1 DEF QueriesGrow, Endings
<1>4. row' \in [Dispatches -> Rows]
  BY <1>1 DEF TypeOK
<1>5. TypeOK'
  BY <1>1, <1>2, <1>4 DEF TypeOK
<1>6. QueriesNamed
  BY <1>1, <1>2 DEF QueriesNamed, Sound
<1>7. LinksOwn /\ Ordinary
  BY DEF LinksOwn, Ordinary
<1>8. query'[q].of = d /\ query'[q].state # "unused"
  BY <1>1, <1>2
<1> QED
  BY <1>3, <1>5, <1>6, <1>7, <1>8, SoundStep DEF Keeps

--------------------------------------------------------------------------------
(* The steps of the queue                                                       *)

\* enqueue.
LEMMA EnqueueSound == ASSUME Sound, NEW d \in Dispatches, Enqueue(d) PROVE Keeps
<1>1. PICK l \in Lanes, due \in BOOLEAN :
        row' = [row EXCEPT ![d] = [NoRow EXCEPT !.status = "queued",
                                                !.lane = l, !.due = due]]
  BY DEF Enqueue
<1> DEFINE r == [NoRow EXCEPT !.status = "queued", !.lane = l, !.due = due]
<1>2. r \in Rows /\ r.status = "queued" /\ r.link = None
  BY LanesAssumption DEF NoRow, Rows, Statuses, Ages, FailureKinds, Lanes
<1>3. row' = [row EXCEPT ![d] = r] /\ row[d].status = "absent"
  BY <1>1 DEF Enqueue
<1> HIDE DEF r
<1>4. TypeOK /\ UNCHANGED <<query, call, tick>>
  BY DEF Sound, Enqueue
<1>5. /\ QueriesGrow /\ tick' \in Ticks /\ TodoKeeps /\ ReplyKeeps
      /\ call' \in [Queries -> CallStates]
  BY <1>4, Unchanged DEF TypeOK
<1>6. /\ Sound' /\ QueriesGrow
      /\ row'[d] = r /\ \A e \in Dispatches \ {d} : row'[e] = row[e]
  BY <1>2, <1>3, <1>4, <1>5, TickKept, RowChanged
<1> QED
  BY <1>2, <1>3, <1>6, OrdinaryRow DEF Keeps, Terminal

\* A listed row and what is known of it.
LEMMA Listed ==
    ASSUME Sound, NEW s \in tick.todo
    PROVE  /\ TypeOK /\ s.id \in Dispatches /\ row[s.id] \in Rows /\ row[s.id].lane \in Lanes
           /\ s \in Snapshots /\ s.attempts \in Nat /\ tick.about \in Dispatches \cup {None}
  BY Counts DEF Sound, Held, Rows, TypeOK, Ticks

\* The first half of a reap.
LEMMA ReapBounceSound == ASSUME Sound, NEW s \in tick.todo, ReapBounce(s) PROVE Keeps
<1> DEFINE r == MarkBounced(row[s.id], TRUE, row[s.id].lane)
           reply == IF row[s.id].status \in Terminal THEN "none" ELSE "reaped"
<1>1. /\ TypeOK /\ s.id \in Dispatches /\ row[s.id] \in Rows /\ row[s.id].lane \in Lanes
      /\ tick \in Ticks
  BY Listed DEF TypeOK
<1>2. Settles(row[s.id], r)
  BY <1>1, RowOpsSettle
<1>3. /\ row' = [row EXCEPT ![s.id] = r] /\ UNCHANGED <<query, call>>
      /\ tick.phase = "reap" /\ tick.reply = "none"
  BY DEF ReapBounce, Take
<1>4. tick' = [tick EXCEPT !.todo = @ \ {s}, !.reply = reply, !.about = s.id]
  BY <1>1 DEF ReapBounce, Ticks
<1>5. reply \in Replies \ {"started"}
  BY DEF Replies
<1> HIDE DEF r, reply
<1>6. /\ tick'.todo = tick.todo \ {s} /\ tick'.won = tick.won /\ tick'.reply = reply
      /\ tick'.about = s.id /\ tick'.phase = tick.phase /\ tick' \in Ticks
  BY <1>1, <1>4, <1>5 DEF Ticks
<1>7. HeldOwn /\ AnswerNamed
  BY <1>1, <1>3, <1>5, <1>6 DEF HeldOwn, Held, AnswerNamed
<1>8. r \in Rows /\ r.link = row[s.id].link
  BY <1>2 DEF Settles
<1>9. /\ Sound' /\ QueriesGrow
      /\ row'[s.id] = r /\ \A e \in Dispatches \ {s.id} : row'[e] = row[e]
  BY <1>1, <1>3, <1>6, <1>7, <1>8, RowChanged DEF TypeOK
<1> QED
  BY <1>1, <1>2, <1>9, OrdinaryRow DEF Keeps, Settles

\* A row requeued, if it was bounced and is due.
LEMMA RequeueSound ==
    ASSUME Sound, NEW d \in Dispatches, row' = [row EXCEPT ![d] = RequeueAfterBounce(row[d])],
           UNCHANGED <<query, call>>, tick' \in Ticks, TodoKeeps, ReplyKeeps
    PROVE  Keeps
<1> DEFINE r == RequeueAfterBounce(row[d])
<1>1. TypeOK /\ row[d] \in Rows
  BY Counts DEF Sound
<1>2. /\ r \in Rows /\ r.link = row[d].link
      /\ \/ r.status = row[d].status
         \/ row[d].status = "bounced" /\ r.status = "queued"
  BY <1>1, RequeueEffect
<1>3. row' = [row EXCEPT ![d] = r]
  OBVIOUS
<1> HIDE DEF r
<1>4. QueriesGrow /\ call' \in [Queries -> CallStates]
  BY <1>1, Unchanged DEF TypeOK
<1>5. /\ Sound' /\ QueriesGrow
      /\ row'[d] = r /\ \A e \in Dispatches \ {d} : row'[e] = row[e]
  BY <1>2, <1>3, <1>4, TickKept, RowChanged
<1> QED
  BY <1>2, <1>5, OrdinaryRow DEF Keeps, Terminal

\* The second half of a reap, and the sweep.
LEMMA SweepSound ==
    ASSUME Sound, ReapRequeue \/ \E s \in tick.todo : SweepOne(s) PROVE Keeps
<1>1. CASE ReapRequeue
  <2>1. tick.about \in Dispatches
    BY <1>1 DEF ReapRequeue, Sound
  <2>2. tick' \in Ticks /\ TodoKeeps /\ ReplyKeeps
    BY <1>1 DEF ReapRequeue, Sound, TypeOK, Ticks, Replies, TodoKeeps, ReplyKeeps
  <2> QED
    BY <1>1, <2>1, <2>2, RequeueSound DEF ReapRequeue
<1>2. ASSUME NEW s \in tick.todo, SweepOne(s) PROVE Keeps
  <2>1. s.id \in Dispatches /\ row[s.id] \in Rows /\ tick.reply = "none"
    BY <1>2, Listed DEF SweepOne, Take
  <2>2. CASE s.attempts >= MaxAttempts
    <3>1. Change(s, MarkRetryExhausted(row[s.id]))
      BY <1>2, <2>2 DEF SweepOne
    <3> QED
      BY <2>1, <3>1, RowOpsSettle, ChangeIsCalm, CalmKeeps
  <2>3. CASE ~(s.attempts >= MaxAttempts)
    <3>1. Change(s, RequeueAfterBounce(row[s.id]))
      BY <1>2, <2>3 DEF SweepOne
    <3>2. tick' \in Ticks /\ TodoKeeps /\ ReplyKeeps
      BY <2>1, <3>1 DEF Change, Sound, TypeOK, Ticks, TodoKeeps, ReplyKeeps
    <3> QED
      BY <2>1, <3>1, <3>2, RequeueSound DEF Change
  <2> QED
    BY <2>2, <2>3
<1> QED
  BY <1>1, <1>2

\* A fresh list.
LEMMA BeginSound ==
    ASSUME Sound, NEW phase \in Phases, NEW l \in Lanes,
           NEW ds \in SUBSET Dispatches, BeginPhase(phase, l, ds),
           phase = "evidence" => \A d \in ds : row[d].link # None
    PROVE  Keeps
<1>1. /\ tick'.phase = phase /\ tick'.lane = l /\ tick'.won = {}
      /\ tick'.todo = {Snap(d) : d \in ds} /\ tick'.reply = "none"
      /\ UNCHANGED <<row, query, call>>
  BY DEF BeginPhase, Idle
<1>2. \A d \in ds : /\ Snap(d) \in Snapshots /\ Snap(d).id = d
                    /\ Snap(d).link = row[d].link
  BY DEF Sound, TypeOK, Rows, Snap, Snapshots
<1>3. tick' \in Ticks
  <2>1. tick' = [phase |-> phase, lane |-> l, todo |-> {Snap(d) : d \in ds},
                 won |-> {}, reply |-> "none", about |-> None, attempts |-> 0,
                 qid |-> None]
    BY DEF BeginPhase, Idle
  <2>2. {Snap(d) : d \in ds} \in SUBSET Snapshots
    BY <1>2
  <2> QED
    BY <2>1, <2>2 DEF Ticks, Replies
<1>4. HeldOwn /\ AnswerNamed
  BY <1>1, <1>2 DEF HeldOwn, Held, AnswerNamed, Sound
<1> QED
  BY <1>1, <1>3, <1>4, StillKeeps DEF Sound, TypeOK

\* The phases of the tick, the batch that goes to be started, and a restart.
LEMMA PhasesSound ==
    ASSUME Sound, \/ BeginEvidence \/ BeginReap \/ BeginStale \/ BeginSweep
                  \/ SelectClaims \/ EndLane \/ BeginStart \/ ManagerRestart
    PROVE  Keeps
<1> USE DEF Phases
<1>1. tick.lane \in Lanes /\ NextLane(tick.lane) \in Lanes /\ NumLanes \in Lanes
  BY LanesAssumption DEF Sound, TypeOK, Ticks, NextLane, Lanes
<1>2. CASE BeginEvidence
  BY <1>1, <1>2, BeginSound DEF BeginEvidence, InFlight
<1>3. CASE BeginReap
  BY <1>1, <1>3, BeginSound DEF BeginReap, InFlight
<1>4. CASE BeginStale
  BY <1>1, <1>4, BeginSound DEF BeginStale, InFlight
<1>5. CASE BeginSweep
  BY <1>1, <1>5, BeginSound DEF BeginSweep
<1>6. CASE SelectClaims
  <2>1. PICK ds \in SUBSET Eligible(tick.lane) : BeginPhase("claim", tick.lane, ds)
    BY <1>6 DEF SelectClaims
  <2> QED
    BY <1>1, <2>1, BeginSound DEF Eligible
<1>7. CASE EndLane
  BY <1>1, <1>7, BeginSound DEF EndLane
<1>8. CASE BeginStart
  <2>1. /\ UNCHANGED <<row, query, call>> /\ tick'.phase = "start"
        /\ tick'.todo = tick.won /\ tick'.won = {} /\ tick'.reply = "none"
    BY <1>8 DEF BeginStart, Idle
  <2>2. tick' \in Ticks /\ call' \in [Queries -> CallStates]
    BY <1>8 DEF BeginStart, Idle, Sound, TypeOK, Ticks, Replies
  <2>3. HeldOwn /\ AnswerNamed
    BY <2>1 DEF HeldOwn, Held, AnswerNamed
  <2> QED
    BY <2>1, <2>2, <2>3, StillKeeps
<1>9. CASE ManagerRestart
  <2>1. UNCHANGED <<row, query>> /\ tick' = Idle(NumLanes)
    BY <1>9 DEF ManagerRestart
  <2>2. tick' \in Ticks /\ tick'.todo = {} /\ tick'.won = {} /\ tick'.reply = "none"
    BY <1>1, <2>1 DEF Idle, Ticks, Replies
  <2>3. call' \in [Queries -> CallStates]
    BY <1>9 DEF ManagerRestart, Sound, TypeOK, CallStates
  <2>4. HeldOwn /\ AnswerNamed
    BY <2>2 DEF HeldOwn, Held, AnswerNamed
  <2> QED
    BY <2>1, <2>2, <2>3, <2>4, StillKeeps
<1> QED
  BY <1>2, <1>3, <1>4, <1>5, <1>6, <1>7, <1>8, <1>9

\* A claim.
LEMMA ClaimSound == ASSUME Sound, NEW s \in tick.todo, ClaimOne(s) PROVE Keeps
<1> DEFINE r == ClaimRow(row[s.id], s.attempts)
           w == [s EXCEPT !.attempts = s.attempts + 1]
<1>1. /\ TypeOK /\ s.id \in Dispatches /\ row[s.id] \in Rows
      /\ s \in Snapshots /\ s.attempts \in Nat /\ tick \in Ticks
      /\ tick.phase = "claim" /\ tick.reply = "none"
  BY Listed DEF TypeOK, ClaimOne, Take
<1>2. /\ r \in Rows /\ r.link = row[s.id].link
      /\ \/ r = row[s.id]
         \/ row[s.id].status = "queued" /\ r.status = "in_flight"
  BY <1>1, ClaimEffect
<1>3. w \in Snapshots /\ w.id = s.id /\ w.link = s.link
  <2>1. s.attempts + 1 \in Nat
    BY <1>1
  <2> QED
    BY <1>1, <2>1 DEF Snapshots
<1>4. /\ row' = [row EXCEPT ![s.id] = r] /\ UNCHANGED <<query, call>>
      /\ \/ tick' = [tick EXCEPT !.todo = @ \ {s}, !.won = @ \cup {w}]
         \/ tick' = [tick EXCEPT !.todo = @ \ {s}, !.won = @]
  BY <1>1 DEF ClaimOne
<1> HIDE DEF r, w
<1>5. /\ tick'.todo = tick.todo \ {s} /\ tick'.won \subseteq tick.won \cup {w}
      /\ tick'.reply = "none" /\ tick'.phase = "claim" /\ tick' \in Ticks
  <2>1. PICK won \in SUBSET Snapshots :
          /\ won \subseteq tick.won \cup {w}
          /\ tick' = [tick EXCEPT !.todo = @ \ {s}, !.won = won]
    <3>1. tick.won \cup {w} \in SUBSET Snapshots /\ tick.won \in SUBSET Snapshots
      BY <1>1, <1>3 DEF Ticks
    <3> QED
      BY <1>4, <3>1
  <2> QED
    BY <1>1, <2>1 DEF Ticks
<1>6. HeldOwn /\ AnswerNamed
  BY <1>3, <1>5 DEF HeldOwn, Held, AnswerNamed
<1>7. /\ Sound' /\ QueriesGrow
      /\ row'[s.id] = r /\ \A e \in Dispatches \ {s.id} : row'[e] = row[e]
  BY <1>1, <1>2, <1>4, <1>5, <1>6, RowChanged DEF TypeOK
<1> QED
  BY <1>1, <1>2, <1>7, OrdinaryRow DEF Keeps, Terminal

\* A /talk, taken or not.
LEMMA SendSound ==
    ASSUME Sound, NEW s \in tick.todo,
           \/ \E q \in Queries, reply \in Accepting : SendAccepted(s, q, reply)
           \/ \E reply \in Rejecting : SendRejected(s, reply)
    PROVE  Keeps
<1>1. /\ TypeOK /\ s.id \in Dispatches /\ s.attempts \in Nat /\ tick \in Ticks
      /\ Accepting \subseteq Replies /\ Rejecting \subseteq Replies
  BY Listed DEF TypeOK, Accepting, Rejecting, Replies
<1>2. ASSUME NEW q \in Queries, NEW reply \in Accepting, SendAccepted(s, q, reply)
      PROVE  Keeps
  <2>1. /\ q \in Unused /\ tick.phase = "start"
        /\ query' = [query EXCEPT ![q] = NewQuery(s.id, "scheduler", s.attempts)]
        /\ UNCHANGED <<row, call>>
        /\ tick' = [tick EXCEPT !.todo = @ \ {s}, !.reply = reply, !.about = s.id,
                                !.attempts = s.attempts, !.qid = q]
    BY <1>2 DEF SendAccepted, Take
  <2>2. /\ tick'.todo = tick.todo \ {s} /\ tick'.won = tick.won /\ tick'.phase = "start"
        /\ tick'.about = s.id /\ tick'.qid = q /\ tick' \in Ticks
    BY <1>1, <2>1 DEF Ticks
  <2>3. /\ HeldOwn
        /\ query'[q].of = s.id /\ query'[q].state # "unused" => AnswerNamed
    BY <1>1, <2>2 DEF HeldOwn, Held, AnswerNamed
  <2> QED
    BY <1>1, <2>1, <2>2, <2>3, IssueKeeps DEF TypeOK
<1>3. ASSUME NEW reply \in Rejecting, SendRejected(s, reply) PROVE Keeps
  <2>1. /\ tick.phase = "start" /\ UNCHANGED <<row, query, call>>
        /\ tick' = [tick EXCEPT !.todo = @ \ {s}, !.reply = reply, !.about = s.id,
                                !.attempts = s.attempts]
    BY <1>3 DEF SendRejected, Take
  <2>2. /\ tick'.todo = tick.todo \ {s} /\ tick'.won = tick.won /\ tick'.phase = "start"
        /\ tick'.about = s.id /\ tick'.reply = reply /\ tick' \in Ticks
    BY <1>1, <2>1 DEF Ticks
  <2>3. HeldOwn /\ AnswerNamed
    BY <1>1, <2>2 DEF HeldOwn, Held, AnswerNamed, Rejecting
  <2> QED
    BY <1>1, <2>1, <2>2, <2>3, StillKeeps DEF TypeOK
<1> QED
  BY <1>2, <1>3

\* An off-process /talk.
LEMMA DirectTalkSound ==
    ASSUME Sound, NEW d \in Dispatches, NEW q \in Queries, DirectTalk(d, q) PROVE Keeps
<1>1. /\ TypeOK /\ q \in Unused /\ row[d].attempts \in Nat
      /\ query' = [query EXCEPT ![q] = NewQuery(d, "direct", row[d].attempts)]
      /\ UNCHANGED <<row, call, tick>>
  BY Counts DEF Sound, DirectTalk
<1>2. tick' \in Ticks /\ TodoKeeps /\ ReplyKeeps /\ call' \in [Queries -> CallStates]
  BY <1>1, Unchanged DEF TypeOK
<1>3. HeldOwn
  BY <1>1 DEF HeldOwn, Held
<1>4. QueriesGrow => AnswerNamed
  BY <1>2, TickKept
<1> QED
  BY <1>1, <1>2, <1>3, <1>4, IssueKeeps

\* A row linked to a query issued for it.
LEMMA AcceptSound ==
    ASSUME Sound, NEW q \in Queries, NEW d \in Dispatches, IssuedFor(q, d),
           row' = [row EXCEPT ![d] = AcceptDispatchStart(row[d], q)],
           UNCHANGED <<query, call>>, tick' \in Ticks, TodoKeeps, ReplyKeeps
    PROVE  Keeps
<1> DEFINE r == AcceptDispatchStart(row[d], q)
<1>1. TypeOK /\ row[d] \in Rows
  BY Counts DEF Sound
<1>2. /\ r \in Rows /\ r.link \in {row[d].link, q}
      /\ \/ r = row[d]
         \/ row[d].status \in {"queued", "in_flight"} /\ r.status = "in_flight"
  BY <1>1, AcceptEffect
<1>3. row' = [row EXCEPT ![d] = r]
  OBVIOUS
<1> HIDE DEF r
<1>4. QueriesGrow /\ call' \in [Queries -> CallStates]
  BY <1>1, Unchanged DEF TypeOK
<1>5. /\ Sound' /\ QueriesGrow
      /\ row'[d] = r /\ \A e \in Dispatches \ {d} : row'[e] = row[e]
  BY <1>2, <1>3, <1>4, TickKept, RowChanged
<1> QED
  BY <1>2, <1>5, OrdinaryRow DEF Keeps, Terminal

\* recordAgentStart, and /accept.
LEMMA LinkSound ==
    ASSUME Sound, RecordAgentStart \/ \E q \in Queries : DirectAccept(q) PROVE Keeps
<1>1. TypeOK
  BY DEF Sound
<1>2. CASE RecordAgentStart
  <2>1. tick.qid \in Queries /\ tick.about \in Dispatches /\ IssuedFor(tick.qid, tick.about)
    BY <1>2 DEF RecordAgentStart, Answered, Sound
  <2>2. tick' \in Ticks /\ TodoKeeps /\ ReplyKeeps
    BY <1>1, <1>2 DEF RecordAgentStart, ActOnAnswer, TypeOK, Ticks, Replies,
                      TodoKeeps, ReplyKeeps
  <2> QED
    BY <1>2, <2>1, <2>2, AcceptSound DEF RecordAgentStart, ActOnAnswer
<1>3. ASSUME NEW q \in Queries, DirectAccept(q) PROVE Keeps
  <2>1. query[q].of \in Dispatches /\ IssuedFor(q, query[q].of)
    BY <1>3 DEF DirectAccept, Sound, NoQuery, IssuedFor
  <2>2. tick' \in Ticks /\ TodoKeeps /\ ReplyKeeps
    BY <1>1, <1>3, Unchanged DEF DirectAccept
  <2> QED
    BY <1>3, <2>1, <2>2, AcceptSound DEF DirectAccept
<1> QED
  BY <1>2, <1>3

\* Every step of the queue.
LEMMA QueueKeeps == ASSUME Sound, [Next]_vars PROVE Keeps
<1>1. CASE TickStep
  <2>1. ASSUME NEW s \in tick.todo, ListedStep(s) PROVE Keeps
    BY <2>1, ListedIsCalm, CalmKeeps, ReapBounceSound, SweepSound, ClaimSound, SendSound
    DEF ListedStep
  <2>2. CASE \/ BeginEvidence \/ BeginReap \/ BeginStale \/ BeginSweep
             \/ SelectClaims \/ EndLane \/ BeginStart
    BY <2>2, PhasesSound
  <2>3. CASE ReapRequeue \/ RecordAgentStart
    BY <2>3, SweepSound, LinkSound
  <2>4. CASE StartMissingQueryId \/ StartBounced \/ StartExhausted \/ StartFailed
    BY <2>4, AnsweredIsCalm, CalmKeeps
  <2> QED
    BY <1>1, <2>1, <2>2, <2>3, <2>4 DEF TickStep
<1>2. ASSUME NEW d \in Dispatches,
             Enqueue(d) \/ NotBeforePasses(d) \/ ClaimAges(d) \/ DirectFailed(d)
      PROVE  Keeps
  BY <1>2, EnqueueSound, RowClocksAreCalm, CalmKeeps
<1>3. ASSUME NEW q \in Queries,
             \/ AgentOutput(q) \/ AgentQuiet(q) \/ AgentFinish(q)
             \/ CloseoutStep(q) \/ LoseCall(q) \/ RepeatCall(q) \/ DirectAccept(q)
      PROVE  Keeps
  BY <1>3, AgentsAreCalm, ClosesAreCalm, CalmKeeps, LinkSound DEF CloseoutStep
<1>4. ASSUME NEW d \in Dispatches, NEW q \in Queries, DirectTalk(d, q) PROVE Keeps
  BY <1>4, DirectTalkSound
<1>5. CASE ManagerRestart
  BY <1>5, PhasesSound
<1>6. CASE UNCHANGED vars
  <2>1. TypeOK /\ UNCHANGED <<row, query, call, tick>>
    BY <1>6 DEF Sound, vars
  <2>2. QueriesGrow /\ tick' \in Ticks /\ TodoKeeps /\ ReplyKeeps
        /\ call' \in [Queries -> CallStates]
    BY <2>1, Unchanged DEF TypeOK
  <2> QED
    BY <2>1, <2>2, TickKept, StillKeeps
<1> QED
  BY <1>1, <1>2, <1>3, <1>4, <1>5, <1>6 DEF Next, QueueStep

--------------------------------------------------------------------------------
(* Questions and answers                                                        *)

\* What a step may do to the questions and to the handlers that have read a row.
AskersStay == \A c \in Questions : asker[c] # Nobody => asker'[c] = asker[c]

OpenOwn == \A d \in Dispatches :
    /\ open'[d] # Nobody =>
         \/ open'[d] = open[d]
         \/ /\ asker'[open'[d]] # Nobody
            /\ query'[asker'[open'[d]]].of = d
            /\ query'[asker'[open'[d]]].state # "unused"
    /\ row'[d].status = "needs_clarification" => open'[d] # Nobody

HandlersGoOn ==
    /\ \A q \in Queries : ask'[q] = "writing" => query'[q].state # "unused"
    /\ \A a \in Answerers : answer'[a].step # "none" =>
         /\ answer'[a].of \in Dispatches
         /\ answer'[a].step = "told" /\ answer'[a].qid # None =>
              /\ query'[answer'[a].qid].of = answer'[a].of
              /\ query'[answer'[a].qid].state # "unused"

\* What the handlers make of a row: its columns but status, due and age stay.
LEMMA HandlersMakeRows ==
    ASSUME NEW r \in Rows
    PROVE  /\ Paused(r) \in Rows /\ Paused(r).link = r.link
           /\ Requeued(r) \in Rows /\ Requeued(r).link = r.link
           /\ Requeued(r).status = "queued"
           /\ Undelivered(r) \in Rows /\ Undelivered(r).link = r.link
           /\ Undelivered(r).status = "resume_delivery_failed"
  BY DEF Paused, Requeued, Undelivered, Rows, Statuses, Ages

LEMMA AskedStays ==
    ASSUME ClarificationIInv, QueriesGrow, AskersStay,
           NEW d \in Dispatches, open[d] # Nobody
    PROVE  /\ asker'[open[d]] # Nobody
           /\ query'[asker'[open[d]]].of = d
           /\ query'[asker'[open[d]]].state # "unused"
<1>1. /\ open[d] \in Questions /\ AskedFor(open[d], d)
      /\ asker \in [Questions -> Queries \cup {Nobody}]
  BY DEF ClarificationIInv, ClarificationTypeOK
<1>2. asker[open[d]] \in Queries /\ asker'[open[d]] = asker[open[d]]
  BY <1>1 DEF AskedFor, AskersStay
<1> QED
  BY <1>1, <1>2, IssuedStays DEF AskedFor

LEMMA ClarificationInvStep ==
    ASSUME ClarificationIInv, ClarificationTypeOK', Sound', QueriesGrow, AskersStay,
           OpenOwn, HandlersGoOn
    PROVE  ClarificationIInv'
<1>1. ASSUME NEW d \in Dispatches, open'[d] # Nobody
      PROVE  /\ asker'[open'[d]] # Nobody
             /\ query'[asker'[open'[d]]].of = d
             /\ query'[asker'[open'[d]]].state # "unused"
  BY <1>1, AskedStays DEF OpenOwn
<1>2. HandlersInv'
  BY DEF HandlersGoOn, HandlersInv, IssuedFor
<1>3. \A d \in Dispatches : row'[d].status = "needs_clarification" => open'[d] # Nobody
  BY DEF OpenOwn
<1> QED
  BY <1>1, <1>2, <1>3 DEF ClarificationIInv, AskedFor, IssuedFor

\* The handlers are where they were, or gone.
LEMMA HandlersKept ==
    ASSUME ClarificationIInv, QueriesGrow,
           \A q \in Queries : ask'[q] = "writing" => ask[q] = "writing",
           \A a \in Answerers : answer'[a] = answer[a] \/ answer'[a].step = "none"
    PROVE  HandlersGoOn
<1>1. ASSUME NEW q \in Queries, ask'[q] = "writing" PROVE query'[q].state # "unused"
  BY <1>1 DEF ClarificationIInv, HandlersInv, QueriesGrow
<1>2. ASSUME NEW a \in Answerers, answer'[a].step # "none"
      PROVE  /\ answer'[a].of \in Dispatches
             /\ answer'[a].step = "told" /\ answer'[a].qid # None =>
                  /\ query'[answer'[a].qid].of = answer'[a].of
                  /\ query'[answer'[a].qid].state # "unused"
  <2>1. /\ answer'[a] = answer[a] /\ answer[a].of \in Dispatches
        /\ answer[a].qid \in Queries \cup {None}
        /\ answer[a].step = "told" /\ answer[a].qid # None
             => IssuedFor(answer[a].qid, answer[a].of)
    BY <1>2 DEF ClarificationIInv, ClarificationTypeOK, HandlersInv, Answers
  <2> QED
    BY <2>1, IssuedStays
<1> QED
  BY <1>1, <1>2 DEF HandlersGoOn

\* A step of the queue pauses nothing, so what was paused keeps its question.
LEMMA QueueStepKeeps ==
    ASSUME ClarificationIInv, Keeps, UNCHANGED <<open, asker>>,
           ask' \in [Queries -> AskSteps],
           \A q \in Queries : ask'[q] = "writing" => ask[q] = "writing",
           answer' \in [Answerers -> Answers],
           \A a \in Answerers : answer'[a] = answer[a] \/ answer'[a].step = "none"
    PROVE  ClarificationIInv'
<1>1. Sound' /\ QueriesGrow /\ Ordinary /\ HandlersGoOn
  BY HandlersKept DEF Keeps
<1>2. ClarificationTypeOK'
  BY <1>1 DEF ClarificationIInv, ClarificationTypeOK, Sound
<1>3. AskersStay /\ OpenOwn
  BY <1>1 DEF AskersStay, OpenOwn, Ordinary, ClarificationIInv
<1> QED
  BY <1>1, <1>2, <1>3, ClarificationInvStep

\* The read half of a question.
LEMMA ReadForQuestionKeeps ==
    ASSUME ClarificationIInv, NEW q \in Queries, ReadForQuestion(q)
    PROVE  ClarificationIInv' /\ Ordinary
<1>1. /\ UNCHANGED <<row, query, call, tick, open, asker, answer>>
      /\ query[q].state # "unused"
      /\ ask' = [ask EXCEPT ![q] = "writing"]
  BY DEF ReadForQuestion, vars
<1>2. Keeps
  BY <1>1, QueueKeeps DEF ClarificationIInv, vars
<1>3. Sound' /\ QueriesGrow /\ Ordinary
  BY <1>2 DEF Keeps
<1>4. ask' \in [Queries -> AskSteps] /\ \A p \in Queries \ {q} : ask'[p] = ask[p]
  BY <1>1 DEF ClarificationIInv, ClarificationTypeOK, AskSteps
<1>5. ClarificationTypeOK'
  BY <1>1, <1>3, <1>4 DEF ClarificationIInv, ClarificationTypeOK, Sound
<1>6. HandlersGoOn
  BY <1>1, <1>4 DEF ClarificationIInv, HandlersInv, HandlersGoOn, IssuedFor
<1>7. AskersStay /\ OpenOwn
  BY <1>1, <1>3 DEF AskersStay, OpenOwn, ClarificationIInv
<1> QED
  BY <1>3, <1>5, <1>6, <1>7, ClarificationInvStep

\* The write half: the row waits for a question that nobody had asked before.
LEMMA MarkNeedsClarificationKeeps ==
    ASSUME ClarificationIInv, NEW q \in Queries, MarkNeedsClarification(q)
    PROVE  /\ ClarificationIInv' /\ query[q].of \in Dispatches
           /\ \A e \in Dispatches \ {query[q].of} : row'[e] = row[e]
<1> DEFINE d == query[q].of
           r == Paused(row[d])
<1>1. /\ Sound /\ TypeOK /\ row \in [Dispatches -> Rows]
      /\ open \in [Dispatches -> Questions \cup {Nobody}]
      /\ asker \in [Questions -> Queries \cup {Nobody}]
      /\ ask \in [Queries -> AskSteps] /\ answer \in [Answerers -> Answers]
  BY DEF ClarificationIInv, ClarificationTypeOK, Sound, TypeOK
<1>2. query[q].state # "unused" /\ d \in Dispatches /\ ask[q] = "writing"
  BY DEF MarkNeedsClarification, ClarificationIInv, HandlersInv, Sound, NoQuery
<1>3. PICK c \in Unasked : /\ row' = [row EXCEPT ![d] = r]
                           /\ open' = [open EXCEPT ![d] = c]
                           /\ asker' = [asker EXCEPT ![c] = q]
  BY DEF MarkNeedsClarification, Paused
<1>4. ask' = [ask EXCEPT ![q] = "none"] /\ UNCHANGED <<query, call, tick, answer>>
  BY DEF MarkNeedsClarification
<1>5. r \in Rows /\ r.link = row[d].link
  BY <1>1, <1>2, HandlersMakeRows
<1> HIDE DEF r
<1>6. /\ QueriesGrow /\ tick' \in Ticks /\ TodoKeeps /\ ReplyKeeps
      /\ call' \in [Queries -> CallStates]
  BY <1>1, <1>4, Unchanged DEF TypeOK
<1>7. Sound' /\ \A e \in Dispatches \ {d} : row'[e] = row[e]
  BY <1>1, <1>2, <1>3, <1>4, <1>5, <1>6, TickKept, RowChanged
<1>8. /\ c \in Questions /\ asker[c] = Nobody /\ q # Nobody /\ c # Nobody
      /\ asker'[c] = q /\ asker' \in [Questions -> Queries \cup {Nobody}]
      /\ open'[d] = c /\ open' \in [Dispatches -> Questions \cup {Nobody}]
      /\ \A e \in Dispatches \ {d} : open'[e] = open[e]
  BY <1>1, <1>2, <1>3, QuestionsAssumption DEF Unasked
<1>9. ask' \in [Queries -> AskSteps] /\ \A p \in Queries : ask'[p] = "writing" => ask[p] = "writing"
  BY <1>1, <1>4 DEF AskSteps
<1>10. ClarificationTypeOK' /\ HandlersGoOn
  BY <1>1, <1>4, <1>6, <1>7, <1>8, <1>9, HandlersKept DEF ClarificationTypeOK, Sound
<1>11. AskersStay
  BY <1>1, <1>3, <1>8 DEF AskersStay
<1>12. OpenOwn
  BY <1>2, <1>4, <1>7, <1>8 DEF OpenOwn, ClarificationIInv
<1> QED
  BY <1>2, <1>6, <1>7, <1>10, <1>11, <1>12, ClarificationInvStep

\* The read half of an answer.
LEMMA ReadForResumeKeeps ==
    ASSUME ClarificationIInv, NEW a \in Answerers, NEW d \in Dispatches, ReadForResume(a, d)
    PROVE  ClarificationIInv' /\ Ordinary
<1>1. /\ UNCHANGED <<row, query, call, tick, open, asker, ask>>
      /\ answer' = [answer EXCEPT ![a] = [NoAnswer EXCEPT !.step = "writing", !.of = d,
                                                          !.about = open[d]]]
  BY DEF ReadForResume, vars
<1>2. /\ answer \in [Answerers -> Answers] /\ open[d] \in Questions \cup {Nobody}
  BY DEF ClarificationIInv, ClarificationTypeOK
<1>3. /\ answer'[a] = [step |-> "writing", of |-> d, about |-> open[d], qid |-> None]
      /\ \A b \in Answerers \ {a} : answer'[b] = answer[b]
      /\ answer' \in [Answerers -> Answers]
  BY <1>1, <1>2 DEF NoAnswer, Answers, AnswerSteps
<1>4. Keeps
  BY <1>1, QueueKeeps DEF ClarificationIInv, vars
<1>5. Sound' /\ QueriesGrow /\ Ordinary
  BY <1>4 DEF Keeps
<1>6. ClarificationTypeOK'
  BY <1>1, <1>3, <1>5 DEF ClarificationIInv, ClarificationTypeOK, Sound
<1>7. HandlersGoOn
  BY <1>1, <1>3 DEF ClarificationIInv, HandlersInv, HandlersGoOn, IssuedFor
<1>8. AskersStay /\ OpenOwn
  BY <1>1, <1>5 DEF AskersStay, OpenOwn, ClarificationIInv
<1> QED
  BY <1>5, <1>6, <1>7, <1>8, ClarificationInvStep

\* A write of an answer's handler: it pauses nothing and links the row to nothing
\* but a query of its own.
LEMMA AnswerWrites ==
    ASSUME ClarificationIInv, NEW a \in Answerers, answer[a].step # "none",
           NEW r \in Rows, row' = [row EXCEPT ![answer[a].of] = r],
           r.status = "needs_clarification" =>
               /\ row[answer[a].of].status = "needs_clarification"
               /\ open'[answer[a].of] = open[answer[a].of],
           r.link = row[answer[a].of].link \/ IssuedFor(r.link, answer[a].of),
           open' \in [Dispatches -> Questions \cup {Nobody}],
           open'[answer[a].of] \in {open[answer[a].of], Nobody},
           \A e \in Dispatches \ {answer[a].of} : open'[e] = open[e],
           answer' \in [Answerers -> Answers], HandlersGoOn,
           UNCHANGED <<query, call, tick, asker, ask>>
    PROVE  /\ ClarificationIInv' /\ answer[a].of \in Dispatches
           /\ \A e \in Dispatches \ {answer[a].of} : row'[e] = row[e]
<1> DEFINE d == answer[a].of
<1>1. d \in Dispatches /\ Sound /\ TypeOK
  BY DEF ClarificationIInv, HandlersInv, Sound
<1> HIDE DEF d
<1>2. /\ QueriesGrow /\ tick' \in Ticks /\ TodoKeeps /\ ReplyKeeps
      /\ call' \in [Queries -> CallStates]
  BY <1>1, Unchanged DEF TypeOK
<1>3. Sound' /\ row'[d] = r /\ \A e \in Dispatches \ {d} : row'[e] = row[e]
  BY <1>1, <1>2, TickKept, RowChanged DEF d
<1>4. ClarificationTypeOK'
  BY <1>3 DEF ClarificationIInv, ClarificationTypeOK, Sound
<1>5. AskersStay /\ OpenOwn
  BY <1>1, <1>3 DEF AskersStay, OpenOwn, ClarificationIInv, d
<1> QED
  BY <1>1, <1>2, <1>3, <1>4, <1>5, ClarificationInvStep DEF d

\* The handler's own control state after its write.
LEMMA AnswerMoves ==
    ASSUME ClarificationIInv, NEW a \in Answerers, answer[a].step # "none",
           \/ answer' = [answer EXCEPT ![a] = NoAnswer]
           \/ answer' = [answer EXCEPT ![a].step = "telling"]
           \/ answer' = [answer EXCEPT ![a].step = "unheard"]
    PROVE  /\ answer' \in [Answerers -> Answers]
           /\ \A b \in Answerers \ {a} : answer'[b] = answer[b]
           /\ answer'[a].step \in {"none", "telling", "unheard"}
           /\ answer'[a].of \in Dispatches \/ answer'[a].step = "none"
<1>1. /\ answer \in [Answerers -> Answers] /\ answer[a] \in Answers
      /\ answer[a].of \in Dispatches
  BY DEF ClarificationIInv, ClarificationTypeOK, HandlersInv
<1>2. NoAnswer \in Answers /\ NoAnswer.step = "none"
  BY DEF NoAnswer, Answers, AnswerSteps
<1>3. CASE answer' = [answer EXCEPT ![a] = NoAnswer]
  BY <1>1, <1>2, <1>3
<1>4. CASE answer' = [answer EXCEPT ![a].step = "telling"]
  BY <1>1, <1>4 DEF Answers, AnswerSteps
<1>5. CASE answer' = [answer EXCEPT ![a].step = "unheard"]
  BY <1>1, <1>5 DEF Answers, AnswerSteps
<1> QED
  BY <1>3, <1>4, <1>5

LEMMA AnswerGoesOn ==
    ASSUME ClarificationIInv, NEW a \in Answerers, answer[a].step # "none",
           \/ answer' = [answer EXCEPT ![a] = NoAnswer]
           \/ answer' = [answer EXCEPT ![a].step = "telling"]
           \/ answer' = [answer EXCEPT ![a].step = "unheard"],
           UNCHANGED <<query, ask>>
    PROVE  answer' \in [Answerers -> Answers] /\ HandlersGoOn
<1>1. /\ answer' \in [Answerers -> Answers]
      /\ \A b \in Answerers \ {a} : answer'[b] = answer[b]
      /\ answer'[a].step \in {"none", "telling", "unheard"}
      /\ answer'[a].of \in Dispatches \/ answer'[a].step = "none"
  BY AnswerMoves
<1>2. \A q \in Queries : ask'[q] = "writing" => query'[q].state # "unused"
  BY DEF ClarificationIInv, HandlersInv
<1>3. ASSUME NEW b \in Answerers, answer'[b].step # "none"
      PROVE  /\ answer'[b].of \in Dispatches
             /\ answer'[b].step = "told" /\ answer'[b].qid # None =>
                  /\ query'[answer'[b].qid].of = answer'[b].of
                  /\ query'[answer'[b].qid].state # "unused"
  BY <1>1, <1>3 DEF ClarificationIInv, HandlersInv, IssuedFor
<1> QED
  BY <1>1, <1>2, <1>3 DEF HandlersGoOn

\* The three updates of an answer.
LEMMA AnswerWritesKeep ==
    ASSUME ClarificationIInv, NEW a \in Answerers,
           \/ ResumeAfterClarification(a) \/ MarkResumeDelivered(a)
           \/ MarkResumeDeliveryFailed(a)
    PROVE  /\ ClarificationIInv' /\ answer[a].of \in Dispatches /\ answer[a].step # "none"
           /\ \A e \in Dispatches \ {answer[a].of} : row'[e] = row[e]
<1> DEFINE d == answer[a].of
<1>1. /\ answer[a].step # "none" /\ UNCHANGED <<query, call, tick, asker, ask>>
      /\ \/ answer' = [answer EXCEPT ![a] = NoAnswer]
         \/ answer' = [answer EXCEPT ![a].step = "telling"]
  BY DEF ResumeAfterClarification, MarkResumeDelivered, MarkResumeDeliveryFailed
<1>2. answer' \in [Answerers -> Answers] /\ HandlersGoOn
  BY <1>1, AnswerGoesOn
<1>3. /\ d \in Dispatches /\ row[d] \in Rows
      /\ open \in [Dispatches -> Questions \cup {Nobody}]
  BY <1>1 DEF ClarificationIInv, ClarificationTypeOK, TypeOK, HandlersInv
<1>4. CASE ResumeAfterClarification(a)
  <2>1. row' = [row EXCEPT ![d] = Requeued(row[d])]
    BY <1>4 DEF ResumeAfterClarification, Requeued
  <2>2. /\ open' \in [Dispatches -> Questions \cup {Nobody}] /\ open'[d] = Nobody
        /\ \A e \in Dispatches \ {d} : open'[e] = open[e]
    BY <1>3, <1>4 DEF ResumeAfterClarification
  <2>3. /\ Requeued(row[d]) \in Rows /\ Requeued(row[d]).link = row[d].link
        /\ Requeued(row[d]).status # "needs_clarification"
    BY <1>3, HandlersMakeRows
  <2> QED
    BY <1>1, <1>2, <2>1, <2>2, <2>3, AnswerWrites
<1>5. CASE MarkResumeDelivered(a)
  <2> DEFINE r == Delivered(row[d], answer[a].qid)
  <2>1. row' = [row EXCEPT ![d] = r] /\ UNCHANGED open /\ answer[a].step = "told"
    BY <1>5 DEF MarkResumeDelivered
  <2>2. /\ answer[a].qid \in Queries \cup {None}
        /\ answer[a].qid # None => IssuedFor(answer[a].qid, d)
    BY <2>1 DEF ClarificationIInv, ClarificationTypeOK, HandlersInv, Answers
  <2>3. /\ r \in Rows /\ r.status = row[d].status
        /\ r.link = row[d].link \/ IssuedFor(r.link, d)
    BY <1>3, <2>2 DEF Delivered, Rows
  <2> HIDE DEF r
  <2> QED
    BY <1>1, <1>2, <1>3, <2>1, <2>3, AnswerWrites
<1>6. CASE MarkResumeDeliveryFailed(a)
  <2>1. row' = [row EXCEPT ![d] = Undelivered(row[d])] /\ UNCHANGED open
    BY <1>3, <1>6 DEF MarkResumeDeliveryFailed, Undelivered
  <2>2. /\ Undelivered(row[d]) \in Rows /\ Undelivered(row[d]).link = row[d].link
        /\ Undelivered(row[d]).status # "needs_clarification"
    BY <1>3, HandlersMakeRows
  <2> QED
    BY <1>1, <1>2, <1>3, <2>1, <2>2, AnswerWrites
<1> QED
  BY <1>1, <1>3, <1>4, <1>5, <1>6

\* The agent is told, and its query stands for the dispatch whose answer it has.
LEMMA TellAgentKeeps ==
    ASSUME ClarificationIInv, NEW a \in Answerers, TellAgent(a)
    PROVE  ClarificationIInv' /\ Ordinary
<1> DEFINE d == answer[a].of
           n == row[d].attempts
<1>1. /\ answer[a].step = "telling" /\ UNCHANGED <<row, call, tick, open, asker, ask>>
      /\ d \in Dispatches /\ answer \in [Answerers -> Answers] /\ answer[a] \in Answers
      /\ Sound /\ TypeOK
  BY DEF TellAgent, ClarificationIInv, ClarificationTypeOK, HandlersInv, Sound
<1>2. PICK q \in Unused, heard \in {"id", "noid", "lost"} :
        /\ query' = [query EXCEPT ![q] = NewQuery(d, "resume", n)]
        /\ answer' = [answer EXCEPT
                        ![a].step = IF heard = "lost" THEN "unheard" ELSE "told",
                        ![a].qid  = IF heard = "id" THEN q ELSE None]
  BY DEF TellAgent
<1>3. n \in Nat
  BY <1>1, Counts
<1> HIDE DEF d, n
<1>4. /\ tick' \in Ticks /\ TodoKeeps /\ ReplyKeeps /\ call' \in [Queries -> CallStates]
  BY <1>1, Unchanged DEF TypeOK
<1>5. HeldOwn
  BY <1>1 DEF HeldOwn, Held
<1>6. QueriesGrow => AnswerNamed
  BY <1>1, <1>4, TickKept
<1>7. Keeps /\ query'[q].of = d /\ query'[q].state # "unused"
  BY <1>1, <1>2, <1>3, <1>4, <1>5, <1>6, IssueKeeps
<1>8. Sound' /\ QueriesGrow /\ Ordinary
  BY <1>7 DEF Keeps
<1>9. q \in Queries
  BY DEF Unused
<1>10. /\ answer'[a].of = d
       /\ answer'[a].qid # None => answer'[a].qid = q
       /\ \A b \in Answerers \ {a} : answer'[b] = answer[b]
       /\ answer' \in [Answerers -> Answers]
  BY <1>1, <1>2, <1>9 DEF Answers, AnswerSteps, d
<1>11. ClarificationTypeOK'
  BY <1>1, <1>8, <1>10 DEF ClarificationIInv, ClarificationTypeOK, Sound
<1>12. ASSUME NEW b \in Answerers, answer'[b].step # "none"
       PROVE  /\ answer'[b].of \in Dispatches
              /\ answer'[b].step = "told" /\ answer'[b].qid # None =>
                   /\ query'[answer'[b].qid].of = answer'[b].of
                   /\ query'[answer'[b].qid].state # "unused"
  <2>1. CASE b = a
    BY <1>1, <1>7, <1>10, <2>1
  <2>2. CASE b # a
    <3>1. /\ answer'[b] = answer[b] /\ answer[b].of \in Dispatches
          /\ answer[b].qid \in Queries \cup {None}
          /\ answer[b].step = "told" /\ answer[b].qid # None
               => IssuedFor(answer[b].qid, answer[b].of)
      BY <1>10, <1>12, <2>2 DEF ClarificationIInv, ClarificationTypeOK, HandlersInv, Answers
    <3> QED
      BY <1>8, <3>1, IssuedStays
  <2> QED
    BY <2>1, <2>2
<1>13. HandlersGoOn
  BY <1>1, <1>8, <1>12 DEF HandlersGoOn, ClarificationIInv, HandlersInv, QueriesGrow
<1>14. AskersStay /\ OpenOwn
  BY <1>1, <1>8 DEF AskersStay, OpenOwn, ClarificationIInv
<1> QED
  BY <1>8, <1>11, <1>13, <1>14, ClarificationInvStep

\* The agent could not be called.
LEMMA AgentUnreachableKeeps ==
    ASSUME ClarificationIInv, NEW a \in Answerers, AgentUnreachable(a)
    PROVE  ClarificationIInv' /\ Ordinary
<1>1. /\ UNCHANGED <<row, query, call, tick, open, asker, ask>>
      /\ answer[a].step # "none" /\ answer' = [answer EXCEPT ![a].step = "unheard"]
  BY DEF AgentUnreachable, vars
<1>2. Keeps
  BY <1>1, QueueKeeps DEF ClarificationIInv, vars
<1>3. Sound' /\ QueriesGrow /\ Ordinary
  BY <1>2 DEF Keeps
<1>4. answer' \in [Answerers -> Answers] /\ HandlersGoOn
  BY <1>1, AnswerGoesOn
<1>5. ClarificationTypeOK'
  BY <1>1, <1>3, <1>4 DEF ClarificationIInv, ClarificationTypeOK, Sound
<1>6. AskersStay /\ OpenOwn
  BY <1>1, <1>3 DEF AskersStay, OpenOwn, ClarificationIInv
<1> QED
  BY <1>3, <1>4, <1>5, <1>6, ClarificationInvStep

--------------------------------------------------------------------------------
(* The theorems                                                                 *)

LEMMA ClarificationIInvInit == ClarificationInit => ClarificationIInv
<1> SUFFICES ASSUME ClarificationInit PROVE ClarificationIInv
  OBVIOUS
<1>1. Sound
  BY IInvInit, IInvIsSound DEF ClarificationInit
<1>2. \A d \in Dispatches : row[d].status = "absent"
  BY DEF ClarificationInit, Init, NoRow
<1>3. NoAnswer \in Answers
  BY DEF NoAnswer, Answers, AnswerSteps
<1>4. ClarificationTypeOK
  BY <1>1, <1>3 DEF ClarificationInit, ClarificationTypeOK, Sound, AskSteps
<1>5. HandlersInv
  BY DEF ClarificationInit, HandlersInv, NoAnswer
<1> QED
  BY <1>1, <1>2, <1>4, <1>5 DEF ClarificationIInv, ClarificationInit

\* A step of the queue, a restart of the manager, or no step.
LEMMA OrdinaryKeeps ==
    ASSUME ClarificationIInv,
           \/ (QueueStep \/ \E d \in Dispatches : Enqueue(d)) /\ UNCHANGED clarificationVars
           \/ RestartWithQuestions
           \/ UNCHANGED cvars
    PROVE  ClarificationIInv' /\ Ordinary
<1>1. /\ open \in [Dispatches -> Questions \cup {Nobody}]
      /\ asker \in [Questions -> Queries \cup {Nobody}]
      /\ ask \in [Queries -> AskSteps] /\ answer \in [Answerers -> Answers]
  BY DEF ClarificationIInv, ClarificationTypeOK
<1>2. [Next]_vars /\ UNCHANGED <<open, asker>>
  BY DEF Next, RestartWithQuestions, clarificationVars, cvars, vars
<1>3. Keeps
  BY <1>2, QueueKeeps DEF ClarificationIInv
<1>4. /\ ask' \in [Queries -> AskSteps]
      /\ \A q \in Queries : ask'[q] = "writing" => ask[q] = "writing"
  BY <1>1 DEF RestartWithQuestions, clarificationVars, cvars, AskSteps
<1>5. /\ answer' \in [Answerers -> Answers]
      /\ \A a \in Answerers : answer'[a] = answer[a] \/ answer'[a].step = "none"
  <2>1. NoAnswer \in Answers /\ NoAnswer.step = "none"
    BY DEF NoAnswer, Answers, AnswerSteps
  <2> QED
    BY <1>1, <2>1 DEF RestartWithQuestions, clarificationVars, cvars
<1> QED
  BY <1>2, <1>3, <1>4, <1>5, QueueStepKeeps DEF Keeps

\* What reopens a dispatch was under way for it.
ReopensUnderWay ==
    \A d \in Dispatches :
        row[d].status \in Terminal /\ row'[d].status # row[d].status => UnderWay(d)

LEMMA ClarificationIInvStep ==
    ASSUME ClarificationIInv, [ClarificationNext]_cvars
    PROVE  ClarificationIInv' /\ ReopensUnderWay
<1>1. Ordinary => ReopensUnderWay
  BY DEF Ordinary, ReopensUnderWay
<1>2. CASE \/ (QueueStep \/ \E d \in Dispatches : Enqueue(d)) /\ UNCHANGED clarificationVars
           \/ RestartWithQuestions
           \/ UNCHANGED cvars
  BY <1>1, <1>2, OrdinaryKeeps
<1>3. ASSUME NEW q \in Queries, QuestionStep(q)
      PROVE  ClarificationIInv' /\ ReopensUnderWay
  <2>1. CASE ReadForQuestion(q)
    BY <1>1, <2>1, ReadForQuestionKeeps
  <2>2. CASE MarkNeedsClarification(q)
    <3>1. ask[q] = "writing"
      BY <2>2 DEF MarkNeedsClarification
    <3> QED
      BY <2>2, <3>1, MarkNeedsClarificationKeeps DEF ReopensUnderWay, UnderWay
  <2> QED
    BY <1>3, <2>1, <2>2 DEF QuestionStep
<1>4. ASSUME NEW a \in Answerers, AnswerStep(a)
      PROVE  ClarificationIInv' /\ ReopensUnderWay
  <2>1. CASE TellAgent(a) \/ AgentUnreachable(a)
    BY <1>1, <2>1, TellAgentKeeps, AgentUnreachableKeeps
  <2>2. CASE \/ ResumeAfterClarification(a) \/ MarkResumeDelivered(a)
             \/ MarkResumeDeliveryFailed(a)
    BY <2>2, AnswerWritesKeep DEF ReopensUnderWay, UnderWay
  <2> QED
    BY <1>4, <2>1, <2>2 DEF AnswerStep
<1>5. ASSUME NEW a \in Answerers, NEW d \in Dispatches, ReadForResume(a, d)
      PROVE  ClarificationIInv' /\ ReopensUnderWay
  BY <1>1, <1>5, ReadForResumeKeeps
<1> QED
  BY <1>2, <1>3, <1>4, <1>5 DEF ClarificationNext

LEMMA ClarificationInvariant == ClarificationSpec => []ClarificationIInv
<1>1. ClarificationIInv /\ [ClarificationNext]_cvars => ClarificationIInv'
  BY ClarificationIInvStep
<1> QED
  BY ClarificationIInvInit, <1>1, PTL DEF ClarificationSpec

\* Every column, query, handler and the tick keep their types while questions and
\* answers write rows whose state they do not look at.
THEOREM ClarificationTypeCorrect == ClarificationSpec => []ClarificationTypeOK
<1>1. ClarificationIInv => ClarificationTypeOK
  BY DEF ClarificationIInv
<1> QED
  BY <1>1, ClarificationInvariant, PTL

\* A paused dispatch carries the question its own agent asked, and no other row
\* waits for that question, so the answer finds the one dispatch it is for.
THEOREM PausedCanBeAnswered == ClarificationSpec => []PausedIsAnswerable
<1>1. ASSUME ClarificationIInv PROVE PausedIsAnswerable
  <2>1. \A d \in Dispatches :
          open[d] # Nobody => asker[open[d]] # Nobody /\ query[asker[open[d]]].of = d
    BY <1>1 DEF ClarificationIInv, AskedFor, IssuedFor
  <2>2. \A d \in Dispatches : row[d].status = "needs_clarification" => open[d] # Nobody
    BY <1>1 DEF ClarificationIInv
  <2>3. \A d, e \in Dispatches : open[d] = open[e] /\ open[d] # Nobody => d = e
    BY <2>1
  <2> QED
    BY <2>1, <2>2, <2>3 DEF PausedIsAnswerable
<1> QED
  BY <1>1, ClarificationInvariant, PTL

\* Only a question or an answer that had read the row before it was settled reopens
\* it; no step of the scheduler, of a closeout or of an off-process caller does.
THEOREM ReopenedOnlyByHandlers == ClarificationSpec => ReopenedByHandlersUnderWay
<1>1. ClarificationIInv /\ [ClarificationNext]_cvars =>
        [\A d \in Dispatches :
           row[d].status \in Terminal /\ row'[d].status # row[d].status => UnderWay(d)]_cvars
  BY ClarificationIInvStep DEF ReopensUnderWay
<1> QED
  BY <1>1, ClarificationInvariant, PTL DEF ClarificationSpec, ReopenedByHandlersUnderWay

--------------------------------------------------------------------------------
(* One message for each attempt, whatever questions and answers do              *)

TalkInv == CountsInv /\ BatchInv /\ OneTalkPerAttempt

CountsGrow == \A d \in Dispatches :
    /\ row[d].attempts <= row'[d].attempts
    /\ row'[d].status = "absent" => /\ row[d].status = "absent"
                                    /\ row'[d].attempts = row[d].attempts

CountsStay == \A d \in Dispatches :
    /\ row'[d].attempts = row[d].attempts
    /\ row'[d].status = "absent" => row[d].status = "absent"

NothingSent == \A q \in Queries :
    query[q].state = "unused" => query'[q].state = "unused" \/ query'[q].by # "scheduler"

NothingDirect == \A q \in Queries :
    query[q].state = "unused" => query'[q].state = "unused" \/ query'[q].by # "direct"

LEMMA SendsKept ==
    ASSUME QueriesGrow, NothingSent, NEW q \in Queries, NEW d, Sends(q, d)'
    PROVE  Sends(q, d) /\ query'[q].attempt = query[q].attempt
  BY DEF Sends, QueriesGrow, NothingSent

LEMMA FreshStays ==
    ASSUME TypeOK, TypeOK', CountsGrow, QueriesGrow, NothingSent,
           NEW s \in Snapshots, Fresh(s)
    PROVE  Fresh(s)'
<1>1. /\ s.id \in Dispatches /\ s.attempts \in Nat
      /\ row[s.id].attempts \in Nat /\ row'[s.id].attempts \in Nat
  BY DEF TypeOK, Rows, Snapshots
<1>2. ~SentFor(s)'
  BY DEF Fresh, SentFor, QueriesGrow, NothingSent
<1>3. s.attempts <= row'[s.id].attempts
  BY <1>1 DEF Fresh, CountsGrow
<1> QED
  BY <1>2, <1>3 DEF Fresh

LEMMA CountsStep ==
    ASSUME TypeOK, TypeOK', CountsInv, CountsGrow, QueriesGrow, NothingSent,
           \A s, t \in Held' : s.id = t.id => s = t, tick'.todo \cap tick'.won = {}
    PROVE  CountsInv'
<1>1. \A d \in Dispatches : row'[d].status = "absent" => row'[d].attempts = 0
  BY DEF CountsInv, CountsGrow
<1>2. ASSUME NEW d \in Dispatches, NEW q \in Queries, Sends(q, d)'
      PROVE  query'[q].attempt <= row'[d].attempts
  <2>1. Sends(q, d) /\ query'[q].attempt = query[q].attempt
    BY <1>2, SendsKept
  <2>2. query[q].attempt <= row[d].attempts /\ row[d].attempts <= row'[d].attempts
    BY <2>1 DEF CountsInv, CountsGrow
  <2>3. query[q].attempt \in Nat /\ row[d].attempts \in Nat /\ row'[d].attempts \in Nat
    BY DEF TypeOK, Rows, QueryRecords
  <2> QED
    BY <2>1, <2>2, <2>3
<1> QED
  BY <1>1, <1>2 DEF CountsInv

LEMMA TalksStay == ASSUME OneTalkPerAttempt, QueriesGrow, NothingSent PROVE OneTalkPerAttempt'
<1> SUFFICES ASSUME NEW q1 \in Queries, NEW q2 \in Queries,
                    query'[q1].of = query'[q2].of, query'[q1].attempt = query'[q2].attempt,
                    query'[q1].state # "unused", query'[q2].state # "unused",
                    query'[q1].by = "scheduler", query'[q2].by = "scheduler"
             PROVE  q1 = q2
  BY DEF OneTalkPerAttempt
<1>1. ASSUME NEW q \in {q1, q2}
      PROVE  /\ query[q].state # "unused" /\ query[q].by = "scheduler"
             /\ query'[q].of = query[q].of /\ query'[q].attempt = query[q].attempt
  BY DEF QueriesGrow, NothingSent
<1> QED
  BY <1>1 DEF OneTalkPerAttempt

\* A step that sends nothing and starts no list.
LEMMA QuietTalks ==
    ASSUME TypeOK, TypeOK', TalkInv, CountsGrow, QueriesGrow, NothingSent, TodoKeeps
    PROVE  TalkInv'
<1>1. CountsInv' /\ OneTalkPerAttempt'
  BY CountsStep, TalksStay DEF TalkInv, TodoKeeps, CountsInv, Held
<1>2. tick.todo \subseteq Snapshots /\ tick.won \subseteq Snapshots
  BY DEF TypeOK, Ticks
<1>3. \A s \in tick.todo \cup tick.won : Fresh(s) => Fresh(s)'
  BY <1>2, FreshStays
<1>4. \A s \in tick.todo, q \in Queries :
        Sends(q, s.id)' => Sends(q, s.id) /\ query'[q].attempt = query[q].attempt
  BY SendsKept
<1>5. BatchInv'
  BY <1>3, <1>4 DEF TalkInv, BatchInv, TodoKeeps
<1> QED
  BY <1>1, <1>5 DEF TalkInv

\* What a step means without off-process callers.
CountsClaims == \A d \in Dispatches :
    row'[d].attempts # row[d].attempts =>
        /\ row[d].status = "queued" /\ row'[d].status = "in_flight"
        /\ row'[d].attempts = row[d].attempts + 1

Exact == CurrentInv => CurrentInv' /\ CountsClaims

LEMMA QuietExact ==
    ASSUME TypeOK, CountsStay, QueriesGrow, NothingDirect, TodoKeeps PROVE Exact
<1>1. \A s \in tick.todo : s.id \in Dispatches
  BY DEF TypeOK, Ticks, Snapshots
<1> QED
  BY <1>1 DEF CountsStay, QueriesGrow, NothingDirect, TodoKeeps, Exact, CurrentInv, CountsClaims

LEMMA StayIsGrowth == ASSUME TypeOK, CountsStay PROVE CountsGrow
  BY DEF TypeOK, Rows, CountsStay, CountsGrow

\* The steps that only settle rows.
LEMMA CalmTalks == ASSUME Sound, TalkInv, Calm PROVE TalkInv' /\ Exact
<1>1. TypeOK /\ TypeOK' /\ QueriesGrow /\ TodoKeeps
  BY DEF Sound, Calm
<1>2. CountsStay
  BY DEF Calm, RowsSettle, Settles, CountsStay
<1>3. NothingSent /\ NothingDirect
  BY DEF Calm, NoNewQuery, NothingSent, NothingDirect
<1> QED
  BY <1>1, <1>2, <1>3, StayIsGrowth, QuietTalks, QuietExact

LEMMA StayTalks ==
    ASSUME TypeOK, TypeOK', TalkInv, CountsStay, QueriesGrow, NothingSent, NothingDirect,
           TodoKeeps
    PROVE  TalkInv' /\ Exact
  BY StayIsGrowth, QuietTalks, QuietExact

\* One row that keeps its count, and no query touched.
LEMMA OneRowStays ==
    ASSUME TypeOK, TypeOK', TalkInv, NEW d \in Dispatches, NEW r,
           row' = [row EXCEPT ![d] = r], r.attempts = row[d].attempts,
           r.status = "absent" => row[d].status = "absent",
           UNCHANGED query, TodoKeeps
    PROVE  TalkInv' /\ Exact
<1>1. CountsStay
  BY DEF TypeOK, CountsStay
<1>2. QueriesGrow /\ NothingSent /\ NothingDirect
  BY DEF QueriesGrow, NothingSent, NothingDirect
<1> QED
  BY <1>1, <1>2, StayTalks

LEMMA EnqueueTalks ==
    ASSUME Sound, Keeps, TalkInv, NEW d \in Dispatches, Enqueue(d) PROVE TalkInv' /\ Exact
<1>1. PICK l \in Lanes, due \in BOOLEAN :
        row' = [row EXCEPT ![d] = [NoRow EXCEPT !.status = "queued",
                                                !.lane = l, !.due = due]]
  BY DEF Enqueue
<1> DEFINE r == [NoRow EXCEPT !.status = "queued", !.lane = l, !.due = due]
<1>2. row' = [row EXCEPT ![d] = r] /\ r.attempts = 0 /\ r.status = "queued"
  BY <1>1 DEF NoRow
<1>3. row[d].attempts = 0 /\ UNCHANGED <<query, tick>>
  BY DEF Enqueue, TalkInv, CountsInv
<1>4. TodoKeeps
  BY <1>3 DEF TodoKeeps
<1> HIDE DEF r
<1> QED
  BY <1>2, <1>3, <1>4, OneRowStays DEF Sound, Keeps

\* The reap and the sweep put rows back with the count they have.
LEMMA RequeueTalks ==
    ASSUME Sound, Keeps, TalkInv,
           ReapRequeue \/ \E s \in tick.todo : ReapBounce(s) \/ SweepOne(s)
    PROVE  TalkInv' /\ Exact
<1>1. TypeOK /\ TypeOK' /\ tick \in Ticks
  BY DEF Sound, Keeps, TypeOK
<1>2. CASE ReapRequeue
  <2>1. tick.about \in Dispatches /\ row[tick.about] \in Rows
    BY <1>1, <1>2 DEF ReapRequeue, Sound, TypeOK
  <2>2. TodoKeeps /\ UNCHANGED query
    BY <1>1, <1>2 DEF ReapRequeue, Ticks, TodoKeeps
  <2>3. row' = [row EXCEPT ![tick.about] = RequeueAfterBounce(row[tick.about])]
    BY <1>2 DEF ReapRequeue
  <2>4. /\ RequeueAfterBounce(row[tick.about]).attempts = row[tick.about].attempts
        /\ RequeueAfterBounce(row[tick.about]).status = "absent"
             => row[tick.about].status = "absent"
    BY <2>1, RequeueEffect
  <2> QED
    BY <1>1, <2>1, <2>2, <2>3, <2>4, OneRowStays
<1>3. ASSUME NEW s \in tick.todo, ReapBounce(s) PROVE TalkInv' /\ Exact
  <2> DEFINE r == MarkBounced(row[s.id], TRUE, row[s.id].lane)
  <2>1. s.id \in Dispatches /\ row[s.id] \in Rows /\ row[s.id].lane \in Lanes
    BY Listed
  <2>2. Settles(row[s.id], r)
    BY <2>1, RowOpsSettle
  <2>3. row' = [row EXCEPT ![s.id] = r] /\ UNCHANGED query /\ TodoKeeps
    BY <1>1, <1>3 DEF ReapBounce, Ticks, TodoKeeps
  <2> HIDE DEF r
  <2>4. r.attempts = row[s.id].attempts /\ (r.status = "absent" => row[s.id].status = "absent")
    BY <2>2 DEF Settles
  <2> QED
    BY <1>1, <2>1, <2>3, <2>4, OneRowStays
<1>4. ASSUME NEW s \in tick.todo, SweepOne(s) PROVE TalkInv' /\ Exact
  <2> DEFINE r == IF s.attempts >= MaxAttempts
                  THEN MarkRetryExhausted(row[s.id])
                  ELSE RequeueAfterBounce(row[s.id])
  <2>1. s.id \in Dispatches /\ row[s.id] \in Rows
    BY Listed
  <2>2. r.attempts = row[s.id].attempts /\ (r.status = "absent" => row[s.id].status = "absent")
    BY <2>1, RowOpsSettle, RequeueEffect DEF Settles
  <2>3. row' = [row EXCEPT ![s.id] = r] /\ UNCHANGED query /\ TodoKeeps
    BY <1>1, <1>4 DEF SweepOne, Change, Ticks, TodoKeeps
  <2> HIDE DEF r
  <2> QED
    BY <1>1, <2>1, <2>2, <2>3, OneRowStays
<1> QED
  BY <1>2, <1>3, <1>4

\* A link: on a queued row it is also the claim, and counts it.
LEMMA AcceptTalks ==
    ASSUME Sound, Keeps, TalkInv, NEW q \in Queries, NEW d \in Dispatches,
           row' = [row EXCEPT ![d] = AcceptDispatchStart(row[d], q)],
           UNCHANGED query, TodoKeeps, CurrentInv => tick.phase # "claim"
    PROVE  TalkInv' /\ Exact
<1> DEFINE r == AcceptDispatchStart(row[d], q)
<1>1. TypeOK /\ TypeOK' /\ row[d] \in Rows /\ row[d].attempts \in Nat
  BY Counts DEF Sound, Keeps
<1>2. \/ r = row[d]
      \/ r.status = "in_flight" /\ r.attempts = row[d].attempts
      \/ /\ row[d].status = "queued" /\ r.status = "in_flight"
         /\ r.attempts = row[d].attempts + 1
  BY <1>1, AcceptEffect
<1>3. row'[d] = r /\ \A e \in Dispatches \ {d} : row'[e] = row[e]
  BY <1>1 DEF TypeOK
<1> HIDE DEF r
<1>4. CountsGrow /\ CountsClaims
  <2> SUFFICES ASSUME NEW e \in Dispatches
               PROVE  /\ row[e].attempts <= row'[e].attempts
                      /\ row'[e].status = "absent" =>
                           row[e].status = "absent" /\ row'[e].attempts = row[e].attempts
                      /\ row'[e].attempts # row[e].attempts =>
                           /\ row[e].status = "queued" /\ row'[e].status = "in_flight"
                           /\ row'[e].attempts = row[e].attempts + 1
    BY DEF CountsGrow, CountsClaims
  <2>1. row[e].attempts \in Nat
    BY <1>1, Counts
  <2> QED
    BY <1>2, <1>3, <2>1
<1>5. QueriesGrow /\ NothingSent
  BY DEF QueriesGrow, NothingSent
<1>6. TalkInv'
  BY <1>1, <1>4, <1>5, QuietTalks
<1>7. Exact
  BY <1>4 DEF Exact, CurrentInv, TodoKeeps
<1> QED
  BY <1>6, <1>7

LEMMA LinkTalks ==
    ASSUME Sound, Keeps, TalkInv, RecordAgentStart \/ \E q \in Queries : DirectAccept(q)
    PROVE  TalkInv' /\ Exact
<1>1. TypeOK
  BY DEF Sound
<1>2. CASE RecordAgentStart
  <2>1. tick.qid \in Queries /\ tick.about \in Dispatches /\ tick.phase = "start"
    BY <1>2 DEF RecordAgentStart, Answered, Sound
  <2>2. TodoKeeps
    BY <1>1, <1>2 DEF RecordAgentStart, ActOnAnswer, TypeOK, Ticks, TodoKeeps
  <2> QED
    BY <1>2, <2>1, <2>2, AcceptTalks DEF RecordAgentStart, ActOnAnswer
<1>3. ASSUME NEW q \in Queries, DirectAccept(q) PROVE TalkInv' /\ Exact
  <2>1. query[q].of \in Dispatches /\ query[q].state # "unused" /\ query[q].by = "direct"
    BY <1>3 DEF DirectAccept, Sound, NoQuery
  <2>2. TodoKeeps
    BY <1>1, <1>3, Unchanged DEF DirectAccept
  <2>3. ~CurrentInv
    BY <2>1 DEF CurrentInv
  <2> QED
    BY <1>3, <2>1, <2>2, <2>3, AcceptTalks DEF DirectAccept
<1> QED
  BY <1>2, <1>3

LEMMA DirectTalkTalks ==
    ASSUME Sound, Keeps, TalkInv, NEW d \in Dispatches, NEW q \in Queries, DirectTalk(d, q)
    PROVE  TalkInv' /\ Exact
<1>1. /\ TypeOK /\ TypeOK' /\ QueriesGrow /\ d \in Direct
      /\ query' = [query EXCEPT ![q] = NewQuery(d, "direct", row[d].attempts)]
      /\ UNCHANGED <<row, call, tick>>
  BY DEF Sound, Keeps, DirectTalk
<1>2. TodoKeeps /\ CountsStay
  BY <1>1 DEF TodoKeeps, CountsStay
<1>3. NothingSent
  BY <1>1 DEF TypeOK, NewQuery, NothingSent
<1>4. ~CurrentInv
  BY <1>1 DEF CurrentInv
<1> QED
  BY <1>1, <1>2, <1>3, <1>4, StayIsGrowth, QuietTalks DEF Exact


\* A fresh list, which has the counts of its rows.
LEMMA BeginTalks ==
    ASSUME Sound, Keeps, TalkInv, NEW phase, phase # "start", NEW l,
           NEW ds \in SUBSET Dispatches, BeginPhase(phase, l, ds)
    PROVE  TalkInv' /\ Exact
<1>1. /\ TypeOK /\ TypeOK' /\ UNCHANGED <<row, query>>
      /\ tick'.todo = {Snap(d) : d \in ds} /\ tick'.won = {} /\ tick'.phase = phase
  BY DEF Sound, Keeps, BeginPhase, Idle
<1>2. \A s \in tick'.todo : /\ s.id \in ds /\ s = Snap(s.id)
                            /\ s.attempts = row[s.id].attempts
  <2>1. \A d \in ds : Snap(d).id = d /\ Snap(d).attempts = row[d].attempts
    BY DEF Snap
  <2> QED
    BY <1>1, <2>1
<1>3. /\ CountsGrow /\ CountsClaims /\ QueriesGrow /\ NothingSent
  BY <1>1, Counts DEF CountsGrow, CountsClaims, QueriesGrow, NothingSent
<1>4. /\ \A s, t \in Held' : s.id = t.id => s = t
      /\ tick'.todo \cap tick'.won = {}
  BY <1>1, <1>2 DEF Held
<1>5. CountsInv' /\ OneTalkPerAttempt'
  BY <1>1, <1>3, <1>4, CountsStep, TalksStay DEF TalkInv
<1>6. ASSUME NEW s \in tick'.todo, NEW q \in Queries, Sends(q, s.id)'
      PROVE  query'[q].attempt <= s.attempts
  <2>1. s.id \in Dispatches
    BY <1>2
  <2>2. query'[q].attempt <= row'[s.id].attempts
    BY <1>5, <1>6, <2>1 DEF CountsInv
  <2> QED
    BY <1>1, <1>2, <2>2
<1>7. BatchInv'
  BY <1>1, <1>6 DEF BatchInv
<1>8. CurrentInv => CurrentInv'
  BY <1>1, <1>2 DEF CurrentInv
<1> QED
  BY <1>3, <1>5, <1>7, <1>8 DEF TalkInv, Exact

LEMMA PhasesTalk ==
    ASSUME Sound, Keeps, TalkInv,
           \/ BeginEvidence \/ BeginReap \/ BeginStale \/ BeginSweep
           \/ SelectClaims \/ EndLane \/ BeginStart \/ ManagerRestart
    PROVE  TalkInv' /\ Exact
<1>0. TypeOK /\ TypeOK'
  BY DEF Sound, Keeps
<1>1. CASE BeginEvidence
  BY <1>1, BeginTalks DEF BeginEvidence, InFlight
<1>2. CASE BeginReap
  BY <1>2, BeginTalks DEF BeginReap, InFlight
<1>3. CASE BeginStale
  BY <1>3, BeginTalks DEF BeginStale, InFlight
<1>4. CASE BeginSweep
  BY <1>4, BeginTalks DEF BeginSweep
<1>5. CASE SelectClaims
  <2>1. PICK ds \in SUBSET Eligible(tick.lane) : BeginPhase("claim", tick.lane, ds)
    BY <1>5 DEF SelectClaims
  <2> QED
    BY <2>1, BeginTalks DEF Eligible
<1>6. CASE EndLane
  BY <1>6, BeginTalks DEF EndLane
<1>7. CASE BeginStart \/ ManagerRestart
  <2>1. /\ UNCHANGED <<row, query>> /\ tick'.won = {}
        /\ \/ tick'.todo = {} /\ tick'.phase = "idle"
           \/ tick'.todo = tick.won /\ tick'.phase = "start" /\ tick.phase = "claim"
    <3>1. BeginStart => /\ tick'.todo = tick.won /\ tick'.won = {}
                        /\ tick'.phase = "start" /\ tick.phase = "claim"
                        /\ UNCHANGED <<row, query>>
      BY DEF BeginStart, Idle
    <3>2. ManagerRestart => /\ tick'.todo = {} /\ tick'.won = {} /\ tick'.phase = "idle"
                            /\ UNCHANGED <<row, query>>
      BY DEF ManagerRestart, Idle
    <3> QED
      BY <1>7, <3>1, <3>2
  <2>2. CountsGrow /\ CountsClaims /\ QueriesGrow /\ NothingSent
    BY <1>0, <2>1, Counts DEF CountsGrow, CountsClaims, QueriesGrow, NothingSent
  <2>3. Held' \subseteq Held /\ tick'.todo \cap tick'.won = {}
    BY <2>1 DEF Held
  <2>4. CountsInv' /\ OneTalkPerAttempt'
    <3>1. \A s, t \in Held' : s.id = t.id => s = t
      BY <2>3 DEF TalkInv, CountsInv
    <3> QED
      BY <1>0, <2>2, <2>3, <3>1, CountsStep, TalksStay DEF TalkInv
  <2>5. tick'.phase = "start" => \A s \in tick'.todo : Fresh(s)'
    BY <2>1 DEF TalkInv, BatchInv, Fresh, SentFor
  <2>6. BatchInv'
    BY <2>1, <2>5 DEF BatchInv
  <2>7. CurrentInv => CurrentInv'
    BY <2>1 DEF CurrentInv
  <2> QED
    BY <2>2, <2>4, <2>6, <2>7 DEF TalkInv, Exact
<1> QED
  BY <1>1, <1>2, <1>3, <1>4, <1>5, <1>6, <1>7

\* A row that was not queued is not claimed.
LEMMA LostClaimTalks ==
    ASSUME Sound, Keeps, TalkInv, NEW s \in tick.todo, ClaimOne(s),
           row[s.id].status # "queued"
    PROVE  TalkInv' /\ Exact
<1>1. /\ TypeOK /\ TypeOK' /\ tick \in Ticks
      /\ s.id \in Dispatches /\ row[s.id] \in Rows
  BY Listed DEF Sound, Keeps, TypeOK
<1>2. row' = [row EXCEPT ![s.id] = row[s.id]] /\ UNCHANGED query
  BY DEF ClaimOne, ClaimRow
<1>3. TodoKeeps
  BY <1>1 DEF ClaimOne, Ticks, TodoKeeps
<1> QED
  BY <1>1, <1>2, <1>3, OneRowStays

\* A row that is claimed gets the next count of those that were selected, for which
\* nothing has been sent, although the row may have counted further meanwhile.
LEMMA WonClaimTalks ==
    ASSUME Sound, Keeps, TalkInv, NEW s \in tick.todo, ClaimOne(s),
           row[s.id].status = "queued"
    PROVE  TalkInv' /\ Exact
<1> DEFINE d == s.id
           n == s.attempts + 1
           w == [s EXCEPT !.attempts = n]
<1>1. /\ TypeOK /\ TypeOK' /\ d \in Dispatches /\ row[d] \in Rows /\ tick \in Ticks
      /\ s \in Snapshots /\ s.attempts \in Nat /\ n \in Nat /\ tick.phase = "claim"
  BY Listed DEF Sound, Keeps, TypeOK, ClaimOne, Take
<1>2. /\ row'[d].status = "in_flight" /\ row'[d].attempts = n
      /\ \A e \in Dispatches \ {d} : row'[e] = row[e]
      /\ UNCHANGED query
  BY <1>1, ClaimEffect DEF TypeOK, ClaimOne
<1>3. w.id = d /\ w.attempts = n
  BY <1>1 DEF Snapshots
<1>4. /\ tick'.todo = tick.todo \ {s} /\ tick'.won = tick.won \cup {w}
      /\ tick'.phase = "claim"
  <2>1. tick' = [tick EXCEPT !.todo = @ \ {s}, !.won = @ \cup {w}]
    BY DEF ClaimOne
  <2> QED
    BY <1>1, <2>1 DEF Ticks
<1> HIDE DEF w
<1>5. \A t \in (tick.todo \ {s}) \cup tick.won :
        /\ t.id # d /\ t.id \in Dispatches /\ row'[t.id] = row[t.id]
  <2> SUFFICES ASSUME NEW t \in (tick.todo \ {s}) \cup tick.won
               PROVE  t.id # d /\ t.id \in Dispatches
    BY <1>2
  <2>1. t \in Held /\ s \in Held /\ t # s
    BY DEF Held, TalkInv, CountsInv
  <2> QED
    BY <1>1, <2>1, Counts DEF TalkInv, CountsInv
<1>6. /\ \A t, u \in Held' : t.id = u.id => t = u
      /\ tick'.todo \cap tick'.won = {}
  <2>1. Held' = (tick.todo \ {s}) \cup tick.won \cup {w}
    BY <1>4 DEF Held
  <2>2. \A t, u \in (tick.todo \ {s}) \cup tick.won : t.id = u.id => t = u
    BY DEF TalkInv, CountsInv, Held
  <2>3. tick'.todo \cap tick'.won = {}
    BY <1>3, <1>4, <1>5 DEF TalkInv, CountsInv
  <2> QED
    BY <1>3, <1>5, <2>1, <2>2, <2>3
<1>7. \A q \in Queries : Sends(q, d) => query[q].attempt < n
  <2>1. \A q \in Queries : Sends(q, d) => query[q].attempt <= s.attempts
    BY <1>1 DEF TalkInv, BatchInv
  <2> QED
    BY <1>1, <2>1, Counts
<1>8. CountsInv'
  <2>1. \A e \in Dispatches : row'[e].status = "absent" => row'[e].attempts = 0
    BY <1>2 DEF TalkInv, CountsInv
  <2>2. ASSUME NEW e \in Dispatches, NEW q \in Queries, Sends(q, e)'
        PROVE  query'[q].attempt <= row'[e].attempts
    <3>1. Sends(q, e) /\ query'[q] = query[q]
      BY <1>2, <2>2 DEF Sends
    <3>2. CASE e = d
      BY <1>1, <1>2, <1>7, <3>1, <3>2, Counts
    <3>3. CASE e # d
      BY <1>2, <3>1, <3>3 DEF TalkInv, CountsInv
    <3> QED
      BY <3>2, <3>3
  <2> QED
    BY <1>6, <2>1, <2>2 DEF CountsInv
<1>9. OneTalkPerAttempt'
  BY <1>2 DEF TalkInv, OneTalkPerAttempt
<1>10. BatchInv'
  <2>1. ASSUME NEW t \in tick'.todo, NEW q \in Queries, Sends(q, t.id)'
        PROVE  query'[q].attempt <= t.attempts
    BY <1>1, <1>2, <1>4, <2>1 DEF Sends, TalkInv, BatchInv
  <2>2. Fresh(w)'
    <3>1. \A q \in Queries : Sends(q, d) => query[q].attempt # n
      BY <1>1, <1>7, Counts
    <3>2. ~SentFor(w)'
      BY <1>2, <1>3, <3>1 DEF SentFor, Sends
    <3> QED
      BY <1>1, <1>2, <1>3, <3>2 DEF Fresh
  <2>3. \A t \in tick.won : Fresh(t)'
    <3>1. \A t \in tick.won : Fresh(t)
      BY <1>1 DEF TalkInv, BatchInv
    <3> QED
      BY <1>2, <1>5, <3>1 DEF Fresh, SentFor
  <2> QED
    BY <1>4, <2>1, <2>2, <2>3 DEF BatchInv
<1>11. CurrentInv => CurrentInv' /\ CountsClaims
  <2> SUFFICES ASSUME CurrentInv PROVE CurrentInv' /\ CountsClaims
    OBVIOUS
  <2>1. s.attempts = row[d].attempts
    BY <1>1 DEF CurrentInv
  <2>2. CountsClaims
    BY <1>2, <2>1 DEF CountsClaims
  <2>3. \A t \in tick'.todo : t.attempts = row'[t.id].attempts
    BY <1>1, <1>4, <1>5 DEF CurrentInv
  <2> QED
    BY <1>2, <2>2, <2>3 DEF CurrentInv
<1> QED
  BY <1>8, <1>9, <1>10, <1>11 DEF TalkInv, Exact

\* The one step that sends: nothing was sent for the count the row was claimed with.
LEMMA SendTalks ==
    ASSUME Sound, Keeps, TalkInv, NEW s \in tick.todo,
           NEW q \in Queries, NEW reply, SendAccepted(s, q, reply)
    PROVE  TalkInv' /\ Exact
<1>1. /\ TypeOK /\ TypeOK' /\ s.id \in Dispatches /\ s.attempts \in Nat
      /\ row[s.id].attempts \in Nat /\ tick \in Ticks /\ QueriesGrow
  BY Listed, Counts DEF Sound, Keeps, TypeOK
<1>2. /\ tick.phase = "start" /\ UNCHANGED row /\ query[q].state = "unused"
      /\ query' = [query EXCEPT ![q] = NewQuery(s.id, "scheduler", s.attempts)]
  BY DEF SendAccepted, Take, Unused
<1>3. /\ query'[q].state # "unused" /\ query'[q].of = s.id /\ query'[q].by = "scheduler"
      /\ query'[q].attempt = s.attempts
      /\ \A p \in Queries \ {q} : query'[p] = query[p]
  BY <1>1, <1>2 DEF TypeOK, NewQuery
<1>4. /\ tick'.todo = tick.todo \ {s} /\ tick'.won = tick.won /\ tick'.phase = "start"
  BY <1>1, <1>2 DEF SendAccepted, Ticks
<1>5. Fresh(s) /\ tick.won = {}
  BY <1>2 DEF TalkInv, BatchInv
<1>6. CountsInv'
  <2>1. ASSUME NEW d \in Dispatches, NEW p \in Queries, Sends(p, d)'
        PROVE  query'[p].attempt <= row'[d].attempts
    <3>1. CASE p = q
      BY <1>2, <1>3, <1>5, <2>1, <3>1 DEF Sends, Fresh
    <3>2. CASE p # q
      BY <1>2, <1>3, <2>1, <3>2 DEF Sends, TalkInv, CountsInv
    <3> QED
      BY <3>1, <3>2
  <2>2. Held' \subseteq Held
    BY <1>4 DEF Held
  <2> QED
    BY <1>2, <1>4, <2>1, <2>2 DEF TalkInv, CountsInv
<1>7. BatchInv'
  <2>1. ASSUME NEW t \in tick'.todo PROVE Fresh(t)'
    <3>1. Fresh(t) /\ t.id # s.id
      BY <1>2, <1>4 DEF TalkInv, BatchInv, CountsInv, Held
    <3> QED
      BY <1>2, <1>3, <3>1 DEF Fresh, SentFor
  <2> QED
    BY <1>4, <1>5, <2>1 DEF BatchInv
<1>8. OneTalkPerAttempt'
  <2> SUFFICES ASSUME NEW p1 \in Queries, NEW p2 \in Queries,
                      query'[p1].of = query'[p2].of,
                      query'[p1].attempt = query'[p2].attempt,
                      query'[p1].state # "unused", query'[p2].state # "unused",
                      query'[p1].by = "scheduler", query'[p2].by = "scheduler"
               PROVE  p1 = p2
    BY DEF OneTalkPerAttempt
  <2>1. ASSUME NEW p \in Queries \ {q}, query'[p].of = s.id,
               query'[p].attempt = s.attempts, query'[p].state # "unused",
               query'[p].by = "scheduler"
        PROVE  FALSE
    BY <1>3, <1>5, <2>1 DEF Fresh, SentFor
  <2>2. CASE p1 = q \/ p2 = q
    BY <1>3, <2>1, <2>2
  <2>3. CASE p1 # q /\ p2 # q
    BY <1>3, <2>3 DEF TalkInv, OneTalkPerAttempt
  <2> QED
    BY <2>2, <2>3
<1>9. CurrentInv => CurrentInv' /\ CountsClaims
  BY <1>2, <1>3, <1>4 DEF CurrentInv, CountsClaims
<1> QED
  BY <1>6, <1>7, <1>8, <1>9 DEF TalkInv, Exact

LEMMA RejectedTalks ==
    ASSUME Sound, Keeps, TalkInv, NEW s \in tick.todo, NEW reply, SendRejected(s, reply)
    PROVE  TalkInv' /\ Exact
<1>1. TypeOK /\ TypeOK' /\ tick \in Ticks /\ UNCHANGED <<row, query>>
  BY DEF Sound, Keeps, TypeOK, SendRejected
<1>2. TodoKeeps
  BY <1>1 DEF SendRejected, Ticks, TodoKeeps
<1>3. CountsStay /\ QueriesGrow /\ NothingSent /\ NothingDirect
  BY <1>1 DEF CountsStay, QueriesGrow, NothingSent, NothingDirect
<1> QED
  BY <1>1, <1>2, <1>3, StayTalks


LEMMA QueueTalks == ASSUME Sound, TalkInv, [Next]_vars PROVE TalkInv' /\ Exact
<1>0. Keeps
  BY QueueKeeps
<1>1. CASE TickStep
  <2>1. ASSUME NEW s \in tick.todo, ListedStep(s) PROVE TalkInv' /\ Exact
    <3>1. CASE ClaimOne(s)
      BY <1>0, <3>1, LostClaimTalks, WonClaimTalks
    <3>2. CASE \/ \E q \in Queries, reply \in Accepting : SendAccepted(s, q, reply)
               \/ \E reply \in Rejecting : SendRejected(s, reply)
      BY <1>0, <3>2, SendTalks, RejectedTalks
    <3> QED
      BY <1>0, <2>1, <3>1, <3>2, ListedIsCalm, CalmTalks, RequeueTalks DEF ListedStep
  <2>2. CASE \/ BeginEvidence \/ BeginReap \/ BeginStale \/ BeginSweep
             \/ SelectClaims \/ EndLane \/ BeginStart
    BY <1>0, <2>2, PhasesTalk
  <2>3. CASE ReapRequeue \/ RecordAgentStart
    BY <1>0, <2>3, RequeueTalks, LinkTalks
  <2>4. CASE StartMissingQueryId \/ StartBounced \/ StartExhausted \/ StartFailed
    BY <2>4, AnsweredIsCalm, CalmTalks
  <2> QED
    BY <1>1, <2>1, <2>2, <2>3, <2>4 DEF TickStep
<1>2. ASSUME NEW d \in Dispatches,
             Enqueue(d) \/ NotBeforePasses(d) \/ ClaimAges(d) \/ DirectFailed(d)
      PROVE  TalkInv' /\ Exact
  BY <1>0, <1>2, EnqueueTalks, RowClocksAreCalm, CalmTalks
<1>3. ASSUME NEW q \in Queries,
             \/ AgentOutput(q) \/ AgentQuiet(q) \/ AgentFinish(q)
             \/ CloseoutStep(q) \/ LoseCall(q) \/ RepeatCall(q) \/ DirectAccept(q)
      PROVE  TalkInv' /\ Exact
  BY <1>0, <1>3, AgentsAreCalm, ClosesAreCalm, CalmTalks, LinkTalks DEF CloseoutStep
<1>4. ASSUME NEW d \in Dispatches, NEW q \in Queries, DirectTalk(d, q)
      PROVE  TalkInv' /\ Exact
  BY <1>0, <1>4, DirectTalkTalks
<1>5. CASE ManagerRestart
  BY <1>0, <1>5, PhasesTalk
<1>6. CASE UNCHANGED vars
  <2>1. TypeOK /\ TypeOK' /\ UNCHANGED <<row, query, call, tick>>
    BY <1>0, <1>6 DEF Keeps, Sound, vars
  <2>2. TodoKeeps /\ CountsStay /\ QueriesGrow /\ NothingSent /\ NothingDirect
    BY <2>1 DEF TodoKeeps, CountsStay, QueriesGrow, NothingSent, NothingDirect
  <2> QED
    BY <2>1, <2>2, StayTalks
<1> QED
  BY <1>1, <1>2, <1>3, <1>4, <1>5, <1>6 DEF Next, QueueStep

\* One row is written, and keeps its count.
Rewritten(d) == \E r : /\ row' = [row EXCEPT ![d] = r] /\ r.attempts = row[d].attempts
                       /\ r.status = "absent" => row[d].status = "absent"

\* Questions and answers put rows back with the count they have.
LEMMA HandlersTalk ==
    ASSUME ClarificationIInv, ClarificationIInv', TalkInv,
           \/ \E q \in Queries : MarkNeedsClarification(q)
           \/ \E a \in Answerers : \/ ResumeAfterClarification(a) \/ MarkResumeDelivered(a)
                                   \/ MarkResumeDeliveryFailed(a)
    PROVE  TalkInv' /\ Exact
<1>1. TypeOK /\ TypeOK' /\ \A d \in Dispatches : row[d] \in Rows
  BY DEF ClarificationIInv, Sound, TypeOK
<1>2. UNCHANGED <<query, tick>> /\ TodoKeeps
  BY DEF MarkNeedsClarification, ResumeAfterClarification, MarkResumeDelivered,
         MarkResumeDeliveryFailed, TodoKeeps
<1>3. PICK d \in Dispatches : Rewritten(d)
  <2>1. ASSUME NEW q \in Queries, MarkNeedsClarification(q)
        PROVE  \E d \in Dispatches : Rewritten(d)
    <3>1. query[q].of \in Dispatches
      BY <2>1 DEF MarkNeedsClarification, ClarificationIInv, HandlersInv, Sound, NoQuery
    <3>2. row' = [row EXCEPT ![query[q].of] = Paused(row[query[q].of])]
      BY <2>1 DEF MarkNeedsClarification
    <3>3. /\ Paused(row[query[q].of]).attempts = row[query[q].of].attempts
          /\ Paused(row[query[q].of]).status # "absent"
      BY <1>1, <3>1 DEF Paused, Rows
    <3> QED
      BY <3>1, <3>2, <3>3 DEF Rewritten
  <2>2. ASSUME NEW a \in Answerers,
               \/ ResumeAfterClarification(a) \/ MarkResumeDelivered(a)
               \/ MarkResumeDeliveryFailed(a)
        PROVE  \E d \in Dispatches : Rewritten(d)
    <3> DEFINE d == answer[a].of
    <3>1. d \in Dispatches /\ row[d] \in Rows
      BY <1>1, <2>2 DEF ResumeAfterClarification, MarkResumeDelivered,
                        MarkResumeDeliveryFailed, ClarificationIInv, HandlersInv
    <3>2. PICK r \in {Requeued(row[d]), Delivered(row[d], answer[a].qid),
                      Undelivered(row[d])} : row' = [row EXCEPT ![d] = r]
      BY <2>2 DEF ResumeAfterClarification, MarkResumeDelivered, MarkResumeDeliveryFailed
    <3>3. r.attempts = row[d].attempts /\ (r.status = "absent" => row[d].status = "absent")
      BY <3>1 DEF Requeued, Delivered, Undelivered, Rows
    <3> QED
      BY <3>1, <3>2, <3>3 DEF Rewritten
  <2> QED
    BY <2>1, <2>2
<1> QED
  BY <1>1, <1>2, <1>3, OneRowStays DEF Rewritten

LEMMA TellAgentTalks ==
    ASSUME ClarificationIInv, ClarificationIInv', TalkInv, NEW a \in Answerers, TellAgent(a)
    PROVE  TalkInv' /\ Exact
<1>1. TypeOK /\ TypeOK' /\ UNCHANGED <<row, tick>>
  BY DEF ClarificationIInv, Sound, TellAgent
<1>2. PICK q \in Unused :
        query' = [query EXCEPT ![q] = NewQuery(answer[a].of, "resume",
                                               row[answer[a].of].attempts)]
  BY DEF TellAgent
<1>3. /\ q \in Queries /\ query[q].state = "unused" /\ query'[q].by = "resume"
      /\ \A p \in Queries \ {q} : query'[p] = query[p]
  BY <1>1, <1>2 DEF TypeOK, NewQuery, Unused
<1>4. QueriesGrow /\ NothingSent /\ NothingDirect
  BY <1>3 DEF QueriesGrow, Endings, NothingSent, NothingDirect
<1>5. CountsStay /\ TodoKeeps
  BY <1>1 DEF CountsStay, TodoKeeps
<1> QED
  BY <1>1, <1>4, <1>5, StayTalks

LEMMA TalkIInvStep ==
    ASSUME TalkIInv, [ClarificationNext]_cvars PROVE TalkIInv' /\ Exact
<1>1. ClarificationIInv /\ ClarificationIInv' /\ Sound /\ TalkInv
  BY ClarificationIInvStep DEF TalkIInv, TalkInv, ClarificationIInv
<1>2. ASSUME [Next]_vars PROVE TalkInv' /\ Exact
  BY <1>1, <1>2, QueueTalks
<1>3. ASSUME \/ \E q \in Queries : MarkNeedsClarification(q)
             \/ \E a \in Answerers : \/ ResumeAfterClarification(a) \/ MarkResumeDelivered(a)
                                     \/ MarkResumeDeliveryFailed(a)
      PROVE  TalkInv' /\ Exact
  BY <1>1, <1>3, HandlersTalk
<1>4. ASSUME NEW a \in Answerers, TellAgent(a) PROVE TalkInv' /\ Exact
  BY <1>1, <1>4, TellAgentTalks
<1>5. TalkInv' /\ Exact
  <2>1. CASE \/ QueueStep \/ \E d \in Dispatches : Enqueue(d)
             \/ RestartWithQuestions \/ UNCHANGED cvars
    BY <1>2, <2>1 DEF Next, RestartWithQuestions, cvars, vars
  <2>2. ASSUME NEW q \in Queries, QuestionStep(q) PROVE TalkInv' /\ Exact
    BY <1>2, <1>3, <2>2 DEF QuestionStep, ReadForQuestion
  <2>3. ASSUME NEW a \in Answerers, AnswerStep(a) PROVE TalkInv' /\ Exact
    BY <1>2, <1>3, <1>4, <2>3 DEF AnswerStep, AgentUnreachable
  <2>4. ASSUME NEW a \in Answerers, NEW d \in Dispatches, ReadForResume(a, d)
        PROVE  TalkInv' /\ Exact
    BY <1>2, <2>4 DEF ReadForResume
  <2> QED
    BY <2>1, <2>2, <2>3, <2>4 DEF ClarificationNext
<1> QED
  BY <1>1, <1>5 DEF TalkIInv, TalkInv

LEMMA TalkIInvInit == ASSUME ClarificationInit PROVE TalkIInv
<1>1. ClarificationIInv
  BY ClarificationIInvInit
<1>2. /\ \A d \in Dispatches : row[d].attempts = 0
      /\ \A q \in Queries : query[q].state = "unused"
      /\ tick.phase = "idle" /\ tick.todo = {} /\ tick.won = {}
  BY DEF ClarificationInit, Init, NoRow, NoQuery, Idle
<1>3. CountsInv
  BY <1>2 DEF CountsInv, Sends, Held
<1>4. BatchInv /\ OneTalkPerAttempt
  BY <1>2 DEF BatchInv, OneTalkPerAttempt
<1> QED
  BY <1>1, <1>3, <1>4 DEF TalkIInv

\* An attempt pays for one /talk also while questions and answers put rows back
\* in the queue under the tick, which no compare-and-set keeps from doing so.
THEOREM OneTalkUnderClarification == ClarificationSpec => []OneTalkPerAttempt
<1>1. TalkIInv /\ [ClarificationNext]_cvars => TalkIInv'
  BY TalkIInvStep
<1>2. TalkIInv => OneTalkPerAttempt
  BY DEF TalkIInv
<1> QED
  BY TalkIInvInit, <1>1, <1>2, PTL DEF ClarificationSpec

LEMMA CurrentIInvStep ==
    ASSUME CurrentIInv, [ClarificationNext]_cvars PROVE CurrentIInv' /\ CountsClaims
  BY TalkIInvStep DEF CurrentIInv, Exact

\* Without callers that deliver off-process the attempt count moves by one, with a
\* claim, although questions and answers requeue rows while a batch is claimed.
THEOREM AttemptsUnderClarification ==
    ASSUME Direct = {}
    PROVE  ClarificationSpec => AttemptsMoveWithClaims
<1>1. ClarificationInit => CurrentIInv
  <2> SUFFICES ASSUME ClarificationInit PROVE CurrentIInv
    OBVIOUS
  <2>1. /\ \A q \in Queries : query[q].state = "unused"
        /\ tick.phase = "idle"
    BY DEF ClarificationInit, Init, NoQuery, Idle
  <2> QED
    BY <2>1, TalkIInvInit DEF CurrentIInv, CurrentInv
<1>2. CurrentIInv /\ [ClarificationNext]_cvars => CurrentIInv'
  BY CurrentIInvStep
<1>3. CurrentIInv /\ [ClarificationNext]_cvars =>
        [\A d \in Dispatches :
           row'[d].attempts # row[d].attempts =>
              /\ row[d].status = "queued" /\ row'[d].status = "in_flight"
              /\ row'[d].attempts = row[d].attempts + 1]_vars
  BY CurrentIInvStep DEF CountsClaims
<1> QED
  BY <1>1, <1>2, <1>3, PTL DEF ClarificationSpec, AttemptsMoveWithClaims

================================================================================
