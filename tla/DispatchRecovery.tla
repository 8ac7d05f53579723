--------------------------- MODULE DispatchRecovery ----------------------------
(***************************************************************************)
(* Automatic recovery of failed dispatches, over the dispatch queue: the   *)
(* recovery columns of the rows, the periodic recovery pass, the operator  *)
(* who moots a failure, the reconciliation scripts that mark landed work   *)
(* done, and the dedup_key that allows one active dispatch per logical     *)
(* work.                                                                   *)
(*                                                                         *)
(* A pass lists the failed rows, classifies each one from what it listed,  *)
(* and acts on them one after another.  The scheduler, the agents, the     *)
(* operator and the scripts run between any two of its steps.              *)
(***************************************************************************)
EXTENDS DispatchQueue

CONSTANTS
    KeyOf,          \* dedup_key of each dispatch
    MaxRecoveries,  \* RecoveryConfig.max_attempts
    LinkedRetries,  \* RecoveryConfig.max_linked_query_retries
    RetryBudget,    \* retries one pass may make
    Landed          \* dispatches whose work the scripts find on the base branch

ASSUME KeysAssumption     == KeyOf \in [Dispatches -> Dispatches]
ASSUME RecoveryAssumption == MaxRecoveries \in Nat /\ LinkedRetries \in Nat
                             /\ RetryBudget \in Nat
ASSUME LandedAssumption   == Landed \subseteq Dispatches

VARIABLES
    rec,    \* rec[d]: the recovery columns of the row of d
    pass    \* the recovery pass, lost when the manager stops

rvars == <<row, query, call, tick, rec, pass>>

--------------------------------------------------------------------------------
(* Recovery columns and the pass *)

\* triaged: needs_operator, exhausted or unsafe_side_effect.
RecoveryStatuses == {"none", "recovering", "landed", "moot", "triaged"}

RecoveryColumns == [status : RecoveryStatuses, attempts : Nat]

\* What the pass keeps of a row it listed.
Casualties == [id : Dispatches, kind : FailureKinds, linked : BOOLEAN, attempts : Nat]

Casualty(d) == [id |-> d, kind |-> row[d].kind, linked |-> row[d].link # None,
                attempts |-> rec[d].attempts]

Passes == [on : BOOLEAN, todo : SUBSET Casualties, retried : Nat]

NoPass == [on |-> FALSE, todo |-> {}, retried |-> 0]

RecoveryInit == /\ Init
                /\ rec = [d \in Dispatches |-> [status |-> "none", attempts |-> 0]]
                /\ pass = NoPass

--------------------------------------------------------------------------------
(* dedup_key *)

Active == Statuses \ ({"absent"} \cup Terminal)

\* The rows the partial unique index covers.
Indexed(d) == row[d].status \in Active /\ rec[d].status \notin {"moot", "landed"}

\* Another row of the same logical work is in the index.
ActiveTwin(d) == \E e \in Dispatches \ {d} : KeyOf[e] = KeyOf[d] /\ Indexed(e)

\* enqueue reuses the active dispatch of the key, and makes no row then.
EnqueueDeduped(d) ==
    /\ ~ActiveTwin(d)
    /\ Enqueue(d)
    /\ UNCHANGED <<rec, pass>>

--------------------------------------------------------------------------------
(* The pass *)

Recoverable(d) == row[d].status = "failed" /\ rec[d].status \in {"none", "recovering"}

\* Mutant of ListedForRecovery: a row that was retried before is not listed.
ListedOnce == {d \in Dispatches : Recoverable(d) /\ rec[d].status = "none"}

\* The lookback window is longer than any behaviour.
ListedForRecovery == {d \in Dispatches : Recoverable(d)}

\* runRecoveryOnce skips a pass while another is running.
BeginPass ==
    /\ ~pass.on
    /\ pass' = [NoPass EXCEPT !.on = TRUE,
                              !.todo = {Casualty(d) : d \in ListedForRecovery}]
    /\ UNCHANGED <<row, query, call, tick, rec>>

EndPass ==
    /\ pass.on
    /\ pass.todo = {}
    /\ pass' = NoPass
    /\ UNCHANGED <<row, query, call, tick, rec>>

\* Mutant of MayRetry: one retry too many.
MayRetryOnceMore(c) == c.attempts <= MaxRecoveries

\* classifyRecovery, as far as the columns decide it: a linked query that ended
\* has a tighter cap than other failures.
MayRetry(c) ==
    /\ c.attempts < MaxRecoveries
    /\ c.linked /\ c.kind = "query_ended" => c.attempts < LinkedRetries

\* A wedged row is always a transient; any other failure is one when its detail
\* holds one of the retryable markers.
MustRetry(c) == MayRetry(c) /\ c.kind = "scheduler_wedged"

\* The guarded UPDATE of requeueForRecovery.  attempt_count is kept.
Recovered(r) == [r EXCEPT !.status = "bounced", !.due = FALSE, !.link = None,
                          !.kind = "none"]

Drop(c) == [pass EXCEPT !.todo = @ \ {c}]

\* Mutant of Requeueable: the UPDATE does not look at the status.
RequeueableAnyway(d) == ~ActiveTwin(d)

\* Mutant of Requeueable: no unique index.
RequeueableTwin(d) == row[d].status = "failed"

Requeueable(d) == row[d].status = "failed" /\ ~ActiveTwin(d)

RequeueForRecovery(c) ==
    /\ MayRetry(c)
    /\ pass.retried < RetryBudget
    /\ Requeueable(c.id)
    /\ row' = [row EXCEPT ![c.id] = Recovered(@)]
    /\ rec' = [rec EXCEPT ![c.id] = [status |-> "recovering", attempts |-> @.attempts + 1]]
    /\ pass' = [Drop(c) EXCEPT !.retried = @ + 1]

\* The row is no longer failed: nothing is written, the retry is counted.
RequeueLost(c) ==
    /\ MayRetry(c)
    /\ pass.retried < RetryBudget
    /\ row[c.id].status # "failed"
    /\ pass' = [Drop(c) EXCEPT !.retried = @ + 1]
    /\ UNCHANGED <<row, rec>>

\* The unique index rejects the UPDATE: the error is logged, the row stays listed
\* for the next pass.
RequeueRejected(c) ==
    /\ MayRetry(c)
    /\ pass.retried < RetryBudget
    /\ row[c.id].status = "failed"
    /\ ActiveTwin(c.id)
    /\ pass' = Drop(c)
    /\ UNCHANGED <<row, rec>>

Defer(c) ==
    /\ MayRetry(c)
    /\ pass.retried >= RetryBudget
    /\ pass' = Drop(c)
    /\ UNCHANGED <<row, rec>>

\* recordRecoveryOutcome writes whatever the row has become.
RecordRecoveryOutcome(c) ==
    /\ ~MustRetry(c)
    /\ rec' = [rec EXCEPT ![c.id].status = "triaged"]
    /\ pass' = Drop(c)
    /\ UNCHANGED row

CasualtyStep(c) ==
    /\ \/ RequeueForRecovery(c) \/ RequeueLost(c) \/ RequeueRejected(c)
       \/ Defer(c) \/ RecordRecoveryOutcome(c)
    /\ UNCHANGED <<query, call, tick>>

PassStep == BeginPass \/ EndPass \/ \E c \in pass.todo : CasualtyStep(c)

--------------------------------------------------------------------------------
(* The operator and the scripts *)

\* markMoot, markSuperseded and the sweep of dead providers.  The operator's
\* retry is an enqueue followed by this.
Moot(d) ==
    /\ row[d].status # "absent"
    /\ rec[d].status # "moot"
    /\ rec' = [rec EXCEPT ![d].status = "moot"]
    /\ UNCHANGED <<row, query, call, tick, pass>>

\* The reconciliation scripts run in a process of their own.
Reconcile(d) ==
    /\ d \in Landed
    /\ row[d].status = "failed"
    /\ row' = [row EXCEPT ![d].status = "done"]
    /\ rec' = [rec EXCEPT ![d].status = "landed"]
    /\ UNCHANGED <<query, call, tick, pass>>

--------------------------------------------------------------------------------

RestartManager ==
    /\ ManagerRestart
    /\ pass' = NoPass
    /\ UNCHANGED rec

RecoveryNext ==
    \/ \E d \in Dispatches : EnqueueDeduped(d) \/ Moot(d) \/ Reconcile(d)
    \/ QueueStep /\ UNCHANGED <<rec, pass>>
    \/ PassStep
    \/ RestartManager

RecoverySpec == RecoveryInit /\ [][RecoveryNext]_rvars

--------------------------------------------------------------------------------
(* Properties *)

\* The recovery columns and the pass have their types, and so has the queue.
RecoveryTypeOK == /\ TypeOK
                  /\ rec \in [Dispatches -> RecoveryColumns]
                  /\ pass \in Passes

\* No dispatch is recovered more often than the budget allows, although a pass
\* decides on the count it listed and the row fails, is mooted and is reconciled
\* meanwhile, and although passes are cut off by restarts.
RecoveryBounded == \A d \in Dispatches : rec[d].attempts <= MaxRecoveries

\* One logical work has one active dispatch: neither a refire of the work after
\* its dispatch failed nor the recovery of that dispatch makes a second one.
OneActivePerKey ==
    \A d, e \in Dispatches :
        KeyOf[d] = KeyOf[e] /\ Indexed(d) /\ Indexed(e) => d = e

\* A dispatch that is done stays done although a pass that listed it while it was
\* failed retries it later.
DoneStays ==
    [][\A d \in Dispatches : row[d].status = "done" => row'[d].status = "done"]_rvars

\* A failed dispatch leaves that status only through a recovery that is counted
\* or through evidence that it landed: no late answer, closeout or bounce of an
\* earlier attempt revives it.
RevivalsCounted ==
    [][\A d \in Dispatches :
         row[d].status = "failed" /\ row'[d].status # "failed" =>
            \/ row'[d].status = "bounced" /\ rec'[d].attempts = rec[d].attempts + 1
            \/ row'[d].status = "done" /\ rec'[d].status = "landed"]_rvars

--------------------------------------------------------------------------------
(* The inductive invariant behind the safety properties *)

\* What the pass listed of a row that it has not acted on yet: only the pass
\* itself counts a recovery, and it has each row once.
PassInv ==
    /\ \A c \in pass.todo : c.attempts = rec[c.id].attempts
    /\ \A c, e \in pass.todo : c.id = e.id => c = e

\* A listed row that was not acted on yet was at most found to have landed.
ListedInv == \A c \in pass.todo : row[c.id].status \in {"failed", "done"}

RecoveryIInv == /\ IInv /\ RecoveryTypeOK
                /\ PassInv /\ ListedInv
                /\ RecoveryBounded /\ OneActivePerKey

--------------------------------------------------------------------------------
(* Liveness *)

\* The recovery interval keeps firing, and a pass that is started is finished.
RecoveryLiveSpec ==
    /\ RecoverySpec
    /\ WF_rvars(PassStep)
    /\ <>[][~RestartManager]_rvars

\* Every failure is looked at: a failed dispatch is retried, reconciled or put
\* before the operator, whatever the budget and the other failures, unless
\* another dispatch of the same work is active.
FailuresTriaged ==
    \A d \in Dispatches : []<>(~Recoverable(d) \/ ActiveTwin(d))

================================================================================
