---------------------------- MODULE DispatchOutbox ----------------------------
(***************************************************************************)
(* The outbox of dispatch operations and the workers that replay it to the *)
(* shadow journal: a worker selects a batch, leases its rows one by one,   *)
(* appends each to the journal and acknowledges it.  Workers may stop or   *)
(* be slow anywhere; the journal may reject an append.                     *)
(*                                                                         *)
(* A lease is compared with datetime(now, '-5 minutes') as text.  The time *)
(* of the lease has a 'T' where datetime() writes a blank, so a lease      *)
(* counts as old only when its day is an earlier one: what matters of a    *)
(* time is how many days (each begun for five minutes) ago it was.         *)
(***************************************************************************)
EXTENDS Naturals

CONSTANTS
    NumOperations,  \* operations, numbered in the order of created_at
    Workers,        \* replayBatch calls that may run at the same time
    MaxAttempts,    \* maxAttempts
    BatchDays       \* the most days a batch may last

Operations == 1..NumOperations

ASSUME NumOperationsAssumption == NumOperations \in Nat
ASSUME OutboxMaxAttemptsAssumption == MaxAttempts \in Nat \ {0}
ASSUME BatchDaysAssumption == BatchDays \in Nat

VARIABLES
    emitted,   \* how many operations have been written to the outbox
    row,       \* row[o]: operation o in dispatch_operation_outbox
    appended,  \* operations the journal has taken
    batch,     \* batch[w]: what worker w is doing
    overrun    \* a batch has lasted into another day

vars == <<emitted, row, appended, batch, overrun>>

--------------------------------------------------------------------------------
(* State *)

\* A lease is the days since claimed_at.  A lease that is older than any batch is worth
\* as much as none.
Unclaimed == BatchDays + 1
Leases == 0..Unclaimed

OutboxRows == [delivered : BOOLEAN, dead : BOOLEAN, available : BOOLEAN,
               lease : Leases, attempts : 0..MaxAttempts]

NewRow == [delivered |-> FALSE, dead |-> FALSE, available |-> TRUE,
           lease |-> Unclaimed, attempts |-> 0]

Steps == {"idle", "claim", "append", "ack", "fail"}

\* The operation in hand, when there is none.
Nothing == 0

\* rows: the operations of the batch not begun yet; on: the one in hand; counts:
\* attempt_count as selected; days: how long ago the batch took the time.
Batches == [at : Steps, rows : SUBSET Operations, on : Operations \cup {Nothing},
            counts : [Operations -> 0..MaxAttempts], days : 0..BatchDays]

NoBatch == [at |-> "idle", rows |-> {}, on |-> Nothing,
            counts |-> [o \in Operations |-> 0], days |-> 0]

Init == /\ emitted  = 0
        /\ row      = [o \in Operations |-> NewRow]
        /\ appended = {}
        /\ batch    = [w \in Workers |-> NoBatch]
        /\ overrun  = FALSE

Present(o) == o <= emitted

--------------------------------------------------------------------------------
(* Operations *)

\* The triggers on the dispatch queue write the operation with the change.
Emit ==
    /\ emitted < NumOperations
    /\ emitted' = emitted + 1
    /\ UNCHANGED <<row, appended, batch, overrun>>

Pending(o) == Present(o) /\ ~row[o].delivered /\ ~row[o].dead

\* Mutant of Leasable: the lease is not looked at.
LeasableAnyway(o, days) == Pending(o)

\* No lease, or one whose day is before that of the batch.
Leasable(o, days) == Pending(o) /\ row[o].lease > days

At(w, step) == batch[w].at = step

SelectBatch(w) ==
    /\ At(w, "idle")
    /\ LET ready == {o \in Operations : Leasable(o, 0) /\ row[o].available}
       IN /\ ready # {}
          /\ batch' = [batch EXCEPT ![w] =
               [at |-> "claim", rows |-> ready, on |-> Nothing,
                counts |-> [o \in Operations |-> row[o].attempts], days |-> 0]]
    /\ UNCHANGED <<emitted, row, appended, overrun>>

\* The oldest operation of the batch that is not begun.
IsNext(w, o) == /\ o \in batch[w].rows
                /\ \A p \in batch[w].rows : o <= p

Goes(w, step) == batch' = [batch EXCEPT ![w].at = step]

\* Mutant of Turn: the end of the batch is missed.
TurnAlways(b, rows) == [b EXCEPT !.at = "claim", !.rows = rows, !.on = Nothing]

\* The batch goes on with rows, or ends.
Turn(b, rows) == IF rows = {} THEN NoBatch
                 ELSE [b EXCEPT !.at = "claim", !.rows = rows, !.on = Nothing]

Taken(b, o) == [at |-> "append", rows |-> b.rows \ {o}, on |-> o,
                counts |-> b.counts, days |-> b.days]

\* Every claim of a batch is made with the time at which the batch was selected.
Claim(w, o) ==
    /\ At(w, "claim") /\ IsNext(w, o)
    /\ Leasable(o, batch[w].days)
    /\ row' = [row EXCEPT ![o].lease = batch[w].days]
    /\ batch' = [batch EXCEPT ![w] = Taken(@, o)]
    /\ UNCHANGED <<emitted, appended, overrun>>

ClaimLost(w, o) ==
    /\ At(w, "claim") /\ IsNext(w, o)
    /\ ~Leasable(o, batch[w].days)
    /\ batch' = [batch EXCEPT ![w] = Turn(@, @.rows \ {o})]
    /\ UNCHANGED <<emitted, row, appended, overrun>>

Current(w) == batch[w].on

\* The journal takes an operation it already has as well.
AppendToJournal(w) ==
    /\ At(w, "append")
    /\ appended' = appended \cup {Current(w)}
    /\ Goes(w, "ack")
    /\ UNCHANGED <<emitted, row, overrun>>

\* Mutant of AppendFails: the error is swallowed.
AppendSwallows(w) ==
    /\ At(w, "append")
    /\ Goes(w, "ack")
    /\ UNCHANGED <<emitted, row, appended, overrun>>

AppendFails(w) ==
    /\ At(w, "append")
    /\ Goes(w, "fail")
    /\ UNCHANGED <<emitted, row, appended, overrun>>

Capped(n) == IF n > MaxAttempts THEN MaxAttempts ELSE n

Delivered(r) == [delivered |-> TRUE, dead |-> r.dead, available |-> r.available,
                 lease |-> Unclaimed, attempts |-> Capped(r.attempts + 1)]

Acknowledge(w) ==
    /\ At(w, "ack")
    /\ row' = [row EXCEPT ![Current(w)] = Delivered(@)]
    /\ batch' = [batch EXCEPT ![w] = Turn(@, @.rows)]
    /\ UNCHANGED <<emitted, appended, overrun>>

\* Mutant of Attempted: the count is not carried on.
AttemptedAfresh(w) == 1

Attempted(w) == batch[w].counts[Current(w)] + 1

\* A row after n attempts without success.
Failed(r, n) == [delivered |-> r.delivered, dead |-> n >= MaxAttempts,
                 available |-> FALSE, lease |-> Unclaimed, attempts |-> Capped(n)]

\* The failure is written whatever has become of the row, from the selected count.
RecordFailure(w) ==
    /\ At(w, "fail")
    /\ row' = [row EXCEPT ![Current(w)] = Failed(@, Attempted(w))]
    /\ batch' = [batch EXCEPT ![w] = Turn(@, @.rows)]
    /\ UNCHANGED <<emitted, appended, overrun>>

WorkerStep(w) == \/ SelectBatch(w) \/ AppendToJournal(w) \/ AppendFails(w)
                 \/ Acknowledge(w) \/ RecordFailure(w)
                 \/ \E o \in Operations : Claim(w, o) \/ ClaimLost(w, o)

\* The worker stops; its lease stays.
Stops(w) ==
    /\ ~At(w, "idle")
    /\ batch' = [batch EXCEPT ![w] = NoBatch]
    /\ UNCHANGED <<emitted, row, appended, overrun>>

--------------------------------------------------------------------------------
(* Time *)

\* available_at is reached.
BackoffEnds(o) ==
    /\ Pending(o) /\ ~row[o].available
    /\ row' = [row EXCEPT ![o].available = TRUE]
    /\ UNCHANGED <<emitted, appended, batch, overrun>>

Older(lease) == IF lease = Unclaimed THEN lease ELSE lease + 1

\* Another day has begun.
NewDay ==
    /\ \A w \in Workers : batch[w].days < BatchDays
    /\ row' = [o \in Operations |-> [row[o] EXCEPT !.lease = Older(@)]]
    /\ batch' = [w \in Workers |->
                   IF At(w, "idle") THEN NoBatch ELSE [batch[w] EXCEPT !.days = @ + 1]]
    /\ overrun' = (overrun \/ \E w \in Workers : ~At(w, "idle"))
    /\ UNCHANGED <<emitted, appended>>

Next == \/ Emit \/ NewDay
        \/ \E o \in Operations : BackoffEnds(o)
        \/ \E w \in Workers : WorkerStep(w) \/ Stops(w)

Spec == Init /\ [][Next]_vars

\* Replays are called again and again, backoffs and days end, and workers stop only
\* so often.
LiveSpec == Spec /\ (\A w \in Workers : WF_vars(WorkerStep(w)))
                 /\ (\A o \in Operations : WF_vars(BackoffEnds(o)))
                 /\ WF_vars(NewDay)
                 /\ <>[][\A w \in Workers : ~Stops(w)]_vars

--------------------------------------------------------------------------------
(* Properties *)

\* Rows and batches have their types; a batch goes on only while rows are left.
OutboxTypeOK ==
    /\ emitted \in 0..NumOperations
    /\ row \in [Operations -> OutboxRows]
    /\ appended \subseteq 1..emitted
    /\ batch \in [Workers -> Batches]
    /\ \A w \in Workers : /\ batch[w].rows \subseteq 1..emitted
                          /\ At(w, "claim") => batch[w].rows # {}
    /\ overrun \in BOOLEAN

\* What is acknowledged is in the journal, whoever appended it.
DeliveredIsAppended == \A o \in Operations : row[o].delivered => o \in appended

AtWork(w) == batch[w].at \in {"append", "ack", "fail"}

\* While no batch has lasted into another day, no two workers have an operation in
\* hand: neither the leases of workers that stopped nor those of older batches.
LeaseExclusive ==
    \A v, w \in Workers :
       v # w /\ AtWork(v) /\ AtWork(w) /\ Current(v) = Current(w) => overrun

\* An operation does not get lost: a worker that stops, a lease nobody gives back and
\* failures that are written late leave it to be delivered or given up.
OperationsResolve ==
    \A o \in Operations : Pending(o) ~> row[o].delivered \/ row[o].dead

--------------------------------------------------------------------------------
(* The inductive invariant behind them *)

\* What a worker has in hand, and what it has done with it.
BatchInv ==
    \A w \in Workers :
       /\ AtWork(w) => Current(w) \in 1..emitted
       /\ At(w, "ack") => Current(w) \in appended

\* While no batch has lasted into another day, what a worker has in hand was leased
\* today.
TodayInv ==
    ~overrun => \A w \in Workers : /\ batch[w].days = 0
                                   /\ AtWork(w) => row[Current(w)].lease = 0

OutboxIInv == OutboxTypeOK /\ BatchInv /\ DeliveredIsAppended /\ TodayInv /\ LeaseExclusive
================================================================================
