------------------------- MODULE DispatchOutbox_proofs -------------------------
(* Theorems about the outbox of dispatch operations, for any number of        *)
(* operations, workers, attempts and days of a batch.  What makes a lease     *)
(* exclusive is that on the day it was taken no other batch of that day finds *)
(* it old; a batch that lasts into another day gives that up.                 *)
EXTENDS DispatchOutbox, TLAPS

--------------------------------------------------------------------------------
(* Steps of one worker                                                        *)

InHand == {"append", "ack", "fail"}

\* What the invariant says of a worker and of the operation it has in hand.
LEMMA AtHand ==
    ASSUME OutboxIInv, NEW w \in Workers
    PROVE  /\ batch[w] \in Batches
           /\ batch[w].rows \subseteq 1..emitted
           /\ 1..emitted \subseteq Operations
           /\ AtWork(w) => /\ Current(w) \in 1..emitted
                           /\ row[Current(w)] \in OutboxRows
                           /\ row[Current(w)].delivered => Current(w) \in appended
                           /\ ~overrun => /\ row[Current(w)].lease = 0
                                          /\ \A v \in Workers \ {w} :
                                                AtWork(v) => Current(v) # Current(w)
<1>1. OutboxTypeOK /\ BatchInv /\ DeliveredIsAppended /\ TodayInv /\ LeaseExclusive
  BY DEF OutboxIInv
<1>2. 1..emitted \subseteq Operations
  BY <1>1, NumOperationsAssumption DEF OutboxTypeOK, Operations
<1>3. /\ batch[w] \in Batches
      /\ batch[w].rows \subseteq 1..emitted
  BY <1>1 DEF OutboxTypeOK
<1>4. ASSUME AtWork(w)
      PROVE  /\ Current(w) \in 1..emitted
             /\ row[Current(w)] \in OutboxRows
             /\ row[Current(w)].delivered => Current(w) \in appended
             /\ ~overrun => row[Current(w)].lease = 0
  BY <1>1, <1>2, <1>4 DEF OutboxTypeOK, BatchInv, DeliveredIsAppended, TodayInv
<1>5. AtWork(w) /\ ~overrun => \A v \in Workers \ {w} : AtWork(v) => Current(v) # Current(w)
  BY <1>1 DEF LeaseExclusive
<1> QED
  BY <1>2, <1>3, <1>4, <1>5

\* A worker w goes on with batch b after it wrote row o as r.
Writes(w, b, o, r) ==
    /\ batch' = [batch EXCEPT ![w] = b]
    /\ row' = [row EXCEPT ![o] = r]
    /\ appended \subseteq appended' /\ appended' \subseteq 1..emitted
    /\ UNCHANGED <<emitted, overrun>>

\* What is said of that worker and that row stays so.
Fits(w, b, o, r) ==
    /\ b.rows \subseteq 1..emitted /\ (b.at = "claim" => b.rows # {})
    /\ b.at \in InHand => b.on \in 1..emitted
    /\ b.at = "ack" => b.on \in appended'
    /\ r.delivered => o \in appended'
    /\ b.days \in {batch[w].days, 0}
    /\ ~overrun => \A v \in Workers \ {w} :
                      AtWork(v) => /\ Current(v) # o \/ r = row[o]
                                   /\ b.at \in InHand => Current(v) # b.on
    /\ ~overrun /\ b.at \in InHand => b.on = o /\ r.lease = 0

LEMMA WorkerKeeps ==
    ASSUME OutboxIInv,
           NEW w \in Workers, NEW b \in Batches, NEW o \in Operations, NEW r \in OutboxRows,
           Writes(w, b, o, r), Fits(w, b, o, r)
    PROVE  OutboxIInv'
<1> USE DEF Writes, Fits
<1>1. OutboxTypeOK /\ BatchInv /\ DeliveredIsAppended /\ TodayInv /\ LeaseExclusive
  BY DEF OutboxIInv
<1>2. /\ batch'[w] = b
      /\ \A v \in Workers \ {w} : batch'[v] = batch[v]
      /\ row'[o] = r
      /\ \A p \in Operations \ {o} : row'[p] = row[p]
  BY <1>1 DEF OutboxTypeOK
<1>3. OutboxTypeOK'
  <2>1. row' \in [Operations -> OutboxRows] /\ batch' \in [Workers -> Batches]
    BY <1>1 DEF OutboxTypeOK
  <2>2. \A v \in Workers : /\ batch'[v].rows \subseteq 1..emitted
                           /\ batch'[v].at = "claim" => batch'[v].rows # {}
    BY <1>1, <1>2 DEF OutboxTypeOK, At
  <2> QED
    BY <1>1, <2>1, <2>2 DEF OutboxTypeOK, At
<1>4. BatchInv'
  BY <1>1, <1>2 DEF BatchInv, AtWork, At, Current, InHand
<1>5. DeliveredIsAppended'
  BY <1>1, <1>2 DEF DeliveredIsAppended
<1>6. \A v \in Workers : AtWork(v) => Current(v) \in Operations
  BY AtHand
<1>7. TodayInv'
  BY <1>1, <1>2, <1>6 DEF TodayInv, AtWork, Current, InHand
<1>8. LeaseExclusive'
  BY <1>1, <1>2 DEF LeaseExclusive, AtWork, Current, InHand
<1> QED
  BY <1>3, <1>4, <1>5, <1>7, <1>8 DEF OutboxIInv

\* The batch that goes on, or has ended, is a batch with nothing in hand.
LEMMA TurnIsFine ==
    ASSUME NEW b \in Batches, NEW rows \in SUBSET Operations
    PROVE  /\ Turn(b, rows) \in Batches
           /\ Turn(b, rows).at \in {"idle", "claim"}
           /\ Turn(b, rows).at = "claim" => Turn(b, rows).rows # {}
           /\ Turn(b, rows).rows = rows
           /\ Turn(b, rows).days \in {b.days, 0}
<1>1. NoBatch \in Batches
  BY OutboxMaxAttemptsAssumption, BatchDaysAssumption DEF NoBatch, Batches, Steps, Nothing
<1>2. CASE rows = {}
  BY <1>1, <1>2 DEF Turn, NoBatch
<1>3. CASE rows # {}
  <2> DEFINE c == [at |-> "claim", rows |-> rows, on |-> Nothing,
                   counts |-> b.counts, days |-> b.days]
  <2>1. Turn(b, rows) = c
    BY <1>3 DEF Turn, Batches
  <2>2. c \in Batches
    BY DEF Batches, Steps, Nothing
  <2> QED
    BY <1>3, <2>1, <2>2
<1> QED
  BY <1>2, <1>3

--------------------------------------------------------------------------------
(* The operations                                                             *)

\* Selecting rows and finding one lost writes nothing.
LEMMA SelectStep == ASSUME OutboxIInv, NEW w \in Workers, SelectBatch(w) PROVE OutboxIInv'
<1> DEFINE ready == {o \in Operations : Leasable(o, 0) /\ row[o].available}
           b == [at |-> "claim", rows |-> ready, on |-> Nothing,
                 counts |-> [o \in Operations |-> row[o].attempts], days |-> 0]
<1>1. PICK o \in ready : TRUE
  BY DEF SelectBatch
<1>2. OutboxTypeOK
  BY DEF OutboxIInv
<1>3. \A p \in Operations : row[p] \in OutboxRows /\ row[p].attempts \in 0..MaxAttempts
  BY <1>2 DEF OutboxTypeOK, OutboxRows
<1>4. b \in Batches
  BY <1>3, BatchDaysAssumption DEF Batches, Steps, Nothing
<1>5. batch' = [batch EXCEPT ![w] = b] /\ UNCHANGED <<emitted, row, appended, overrun>>
  BY DEF SelectBatch
<1>6. row' = [row EXCEPT ![o] = row[o]]
  BY <1>2, <1>5 DEF OutboxTypeOK
<1>7. ready \subseteq 1..emitted
  BY <1>2 DEF Leasable, Pending, Present, Operations, OutboxTypeOK
<1>8. row[o].delivered => o \in appended
  BY DEF OutboxIInv, DeliveredIsAppended
<1>9. b.at = "claim" /\ b.rows # {} /\ b.days = 0 /\ b.rows = ready
  BY <1>1
<1>10. Writes(w, b, o, row[o])
  BY <1>2, <1>5, <1>6 DEF Writes, OutboxTypeOK
<1>11. Fits(w, b, o, row[o])
  BY <1>5, <1>7, <1>8, <1>9 DEF Fits, InHand
<1> HIDE DEF b
<1> QED
  BY <1>3, <1>4, <1>10, <1>11, WorkerKeeps

\* A lease is taken on a row no other worker has in hand today.
LEMMA ClaimStep ==
    ASSUME OutboxIInv, NEW w \in Workers, NEW o \in Operations, Claim(w, o)
    PROVE  OutboxIInv'
<1> DEFINE b == Taken(batch[w], o)
           r == [delivered |-> row[o].delivered, dead |-> row[o].dead,
                 available |-> row[o].available, lease |-> batch[w].days,
                 attempts |-> row[o].attempts]
<1>1. /\ OutboxTypeOK
      /\ row[o] \in OutboxRows /\ batch[w] \in Batches
      /\ o \in batch[w].rows /\ o \in 1..emitted
      /\ ~row[o].delivered /\ row[o].lease > batch[w].days
  BY AtHand DEF OutboxIInv, OutboxTypeOK, Claim, IsNext, Leasable, Pending
<1>2. b \in Batches
  BY <1>1 DEF Taken, Batches, Steps
<1>3. r \in OutboxRows
  BY <1>1, BatchDaysAssumption DEF OutboxRows, Leases, Unclaimed, Batches
<1>4. batch' = [batch EXCEPT ![w] = b]
  BY <1>1 DEF Claim, OutboxTypeOK
<1>5. row' = [row EXCEPT ![o] = r]
  <2>1. [row[o] EXCEPT !.lease = batch[w].days] = r
    BY <1>1 DEF OutboxRows
  <2> QED
    BY <1>1, <2>1 DEF Claim, OutboxTypeOK
<1>6. ~overrun => batch[w].days = 0 /\ \A v \in Workers : AtWork(v) => Current(v) # o
  <2>1. ~overrun => batch[w].days = 0
    BY DEF OutboxIInv, TodayInv
  <2>2. ~overrun => \A v \in Workers : AtWork(v) => row[Current(v)].lease = 0
    BY DEF OutboxIInv, TodayInv
  <2> QED
    BY <1>1, <2>1, <2>2
<1>7. b.at = "append" /\ b.on = o /\ b.days = batch[w].days /\ b.rows \subseteq 1..emitted
  BY <1>1, AtHand DEF Taken
<1>8. ~r.delivered /\ r.lease = batch[w].days
  BY <1>1
<1>9. appended \subseteq 1..emitted /\ UNCHANGED <<emitted, appended, overrun>>
  BY <1>1 DEF OutboxTypeOK, Claim
<1> HIDE DEF b, r
<1>10. Writes(w, b, o, r)
  BY <1>4, <1>5, <1>9 DEF Writes
<1>11. Fits(w, b, o, r)
  BY <1>1, <1>6, <1>7, <1>8, <1>9 DEF Fits, InHand
<1> QED
  BY <1>2, <1>3, <1>10, <1>11, WorkerKeeps

LEMMA ClaimLostStep ==
    ASSUME OutboxIInv, NEW w \in Workers, NEW o \in Operations, ClaimLost(w, o)
    PROVE  OutboxIInv'
<1> DEFINE rows == batch[w].rows \ {o}
<1>1. /\ OutboxTypeOK
      /\ row[o] \in OutboxRows /\ batch[w] \in Batches
      /\ rows \subseteq 1..emitted /\ rows \in SUBSET Operations
      /\ row[o].delivered => o \in appended
  BY AtHand DEF OutboxIInv, OutboxTypeOK, DeliveredIsAppended
<1>2. batch' = [batch EXCEPT ![w] = Turn(batch[w], rows)]
  BY <1>1 DEF ClaimLost, OutboxTypeOK
<1>3. UNCHANGED <<emitted, row, appended, overrun>>
  BY DEF ClaimLost
<1>4. row' = [row EXCEPT ![o] = row[o]] /\ appended \subseteq 1..emitted
  BY <1>1, <1>3 DEF OutboxTypeOK
<1> DEFINE b == Turn(batch[w], rows)
<1>5. Writes(w, b, o, row[o])
  BY <1>2, <1>3, <1>4 DEF Writes
<1>6. /\ b \in Batches /\ b.at \in {"idle", "claim"}
      /\ b.at = "claim" => b.rows # {}
      /\ b.rows = rows /\ b.days \in {batch[w].days, 0}
  BY <1>1, TurnIsFine
<1>7. Fits(w, b, o, row[o])
  BY <1>1, <1>3, <1>6 DEF Fits, InHand
<1> QED
  BY <1>1, <1>5, <1>6, <1>7, WorkerKeeps

\* The journal takes what the worker has in hand, or fails.
LEMMA AppendStep ==
    ASSUME OutboxIInv, NEW w \in Workers, AppendToJournal(w) \/ AppendFails(w)
    PROVE  OutboxIInv'
<1> DEFINE o == Current(w)
           b(step) == [at |-> step, rows |-> batch[w].rows, on |-> o,
                       counts |-> batch[w].counts, days |-> batch[w].days]
<1>1. PICK step \in {"ack", "fail"} :
        /\ Goes(w, step)
        /\ step = "ack" => appended' = appended \cup {o}
        /\ step = "fail" => appended' = appended
  BY DEF AppendToJournal, AppendFails
<1>2. AtWork(w) /\ UNCHANGED <<emitted, row, overrun>>
  BY DEF AppendToJournal, AppendFails, At, AtWork
<1>3. OutboxTypeOK
  BY DEF OutboxIInv
<1>4. /\ o \in 1..emitted /\ o \in Operations
      /\ row[o] \in OutboxRows
      /\ row[o].delivered => o \in appended
      /\ ~overrun => /\ row[o].lease = 0
                     /\ \A v \in Workers \ {w} : AtWork(v) => Current(v) # o
      /\ batch[w] \in Batches /\ batch[w].rows \subseteq 1..emitted
  BY <1>2, AtHand
<1>5. b(step) \in Batches
  BY <1>4 DEF Batches, Steps
<1>6. batch' = [batch EXCEPT ![w] = b(step)]
  <2>1. [batch[w] EXCEPT !.at = step] = b(step)
    BY <1>4 DEF Batches, Current
  <2> QED
    BY <1>1, <1>3, <2>1 DEF Goes, OutboxTypeOK
<1>7. row' = [row EXCEPT ![o] = row[o]]
  BY <1>2, <1>3 DEF OutboxTypeOK
<1>8. /\ appended \subseteq appended' /\ appended' \subseteq 1..emitted
      /\ step = "ack" => o \in appended'
  BY <1>1, <1>3, <1>4 DEF OutboxTypeOK
<1>9. /\ b(step).at = step /\ b(step).on = o /\ b(step).rows = batch[w].rows
      /\ b(step).days = batch[w].days
  OBVIOUS
<1> HIDE DEF b, o
<1>10. Writes(w, b(step), o, row[o])
  BY <1>2, <1>6, <1>7, <1>8 DEF Writes
<1>11. Fits(w, b(step), o, row[o])
  BY <1>4, <1>8, <1>9 DEF Fits, InHand
<1> QED
  BY <1>4, <1>5, <1>10, <1>11, WorkerKeeps

\* The outcome is written, and the worker turns to the next row.
LEMMA OutcomeStep ==
    ASSUME OutboxIInv, NEW w \in Workers, Acknowledge(w) \/ RecordFailure(w)
    PROVE  OutboxIInv'
<1> DEFINE o == Current(w)
<1>1. AtWork(w) /\ UNCHANGED <<emitted, appended, overrun>>
  BY DEF Acknowledge, RecordFailure, At, AtWork
<1>2. OutboxTypeOK
  BY DEF OutboxIInv
<1>3. /\ o \in 1..emitted /\ o \in Operations
      /\ row[o] \in OutboxRows
      /\ row[o].delivered => o \in appended
      /\ ~overrun => \A v \in Workers \ {w} : AtWork(v) => Current(v) # o
      /\ batch[w] \in Batches /\ batch[w].rows \subseteq 1..emitted
      /\ batch[w].rows \in SUBSET Operations
  BY <1>1, AtHand
<1>4. \A n \in Nat : Capped(n) \in 0..MaxAttempts
  BY OutboxMaxAttemptsAssumption DEF Capped
<1>5. PICK r \in OutboxRows : /\ row' = [row EXCEPT ![o] = r]
                              /\ r.delivered => o \in appended
  <2>1. CASE Acknowledge(w)
    <3>1. Delivered(row[o]) \in OutboxRows
      BY <1>3, <1>4, BatchDaysAssumption DEF Delivered, OutboxRows, Leases, Unclaimed
    <3>2. row' = [row EXCEPT ![o] = Delivered(row[o])]
      BY <1>2, <1>3, <2>1 DEF Acknowledge, OutboxTypeOK
    <3>3. o \in appended
      BY <2>1 DEF Acknowledge, OutboxIInv, BatchInv
    <3> QED
      BY <3>1, <3>2, <3>3
  <2>2. CASE RecordFailure(w)
    <3>1. PICK n \in Nat : n = Attempted(w)
      BY <1>3 DEF Attempted, Batches
    <3>2. Failed(row[o], n) \in OutboxRows
      <4>1. (n >= MaxAttempts) \in BOOLEAN
        OBVIOUS
      <4> QED
        BY <1>3, <1>4, <4>1, BatchDaysAssumption DEF Failed, OutboxRows, Leases, Unclaimed
    <3>3. Failed(row[o], n).delivered = row[o].delivered
      BY DEF Failed
    <3>4. row' = [row EXCEPT ![o] = Failed(row[o], n)]
      BY <1>2, <1>3, <2>2, <3>1 DEF RecordFailure, OutboxTypeOK
    <3> QED
      BY <1>3, <3>2, <3>3, <3>4
  <2> QED
    BY <2>1, <2>2
<1>6. batch' = [batch EXCEPT ![w] = Turn(batch[w], batch[w].rows)]
  BY <1>2 DEF Acknowledge, RecordFailure, OutboxTypeOK
<1>7. appended \subseteq 1..emitted
  BY <1>2 DEF OutboxTypeOK
<1> DEFINE b == Turn(batch[w], batch[w].rows)
<1>8. Writes(w, b, o, r)
  BY <1>1, <1>5, <1>6, <1>7 DEF Writes
<1>9. /\ b \in Batches /\ b.at \in {"idle", "claim"}
      /\ b.at = "claim" => b.rows # {}
      /\ b.rows = batch[w].rows /\ b.days \in {batch[w].days, 0}
  BY <1>3, TurnIsFine
<1>10. Fits(w, b, o, r)
  BY <1>1, <1>3, <1>5, <1>9 DEF Fits, InHand
<1> QED
  BY <1>3, <1>5, <1>8, <1>9, <1>10, WorkerKeeps

--------------------------------------------------------------------------------
(* Steps of no worker, and workers that stop                                  *)

\* Another operation is written.
LEMMA EmitStep == ASSUME OutboxIInv, Emit PROVE OutboxIInv'
<1>1. OutboxTypeOK /\ BatchInv /\ DeliveredIsAppended /\ TodayInv /\ LeaseExclusive
  BY DEF OutboxIInv
<1>2. emitted' \in 0..NumOperations /\ 1..emitted \subseteq 1..emitted'
  BY <1>1, NumOperationsAssumption DEF Emit, OutboxTypeOK
<1>3. UNCHANGED <<row, appended, batch, overrun>>
  BY DEF Emit
<1>4. OutboxTypeOK'
  BY <1>1, <1>2, <1>3 DEF OutboxTypeOK, At
<1>5. BatchInv'
  BY <1>1, <1>2, <1>3 DEF BatchInv, AtWork, At, Current
<1>6. DeliveredIsAppended' /\ TodayInv' /\ LeaseExclusive'
  BY <1>1, <1>3 DEF DeliveredIsAppended, TodayInv, LeaseExclusive, AtWork, Current
<1> QED
  BY <1>4, <1>5, <1>6 DEF OutboxIInv

\* A backoff ends; the leases stay.
LEMMA BackoffStep ==
    ASSUME OutboxIInv, NEW o \in Operations, BackoffEnds(o) PROVE OutboxIInv'
<1> DEFINE r == [row[o] EXCEPT !.available = TRUE]
<1>1. OutboxTypeOK /\ BatchInv /\ DeliveredIsAppended /\ TodayInv /\ LeaseExclusive
  BY DEF OutboxIInv
<1>2. /\ row[o] \in OutboxRows
      /\ r \in OutboxRows /\ r.lease = row[o].lease /\ r.delivered = row[o].delivered
  BY <1>1 DEF OutboxTypeOK, OutboxRows
<1>3. row' = [row EXCEPT ![o] = r] /\ UNCHANGED <<emitted, appended, batch, overrun>>
  BY <1>1 DEF BackoffEnds, OutboxTypeOK
<1> HIDE DEF r
<1>4. \A p \in Operations : /\ row'[p] \in OutboxRows
                            /\ row'[p].lease = row[p].lease
                            /\ row'[p].delivered = row[p].delivered
  BY <1>1, <1>2, <1>3 DEF OutboxTypeOK
<1>5. OutboxTypeOK'
  BY <1>1, <1>2, <1>3 DEF OutboxTypeOK, At
<1>6. BatchInv' /\ DeliveredIsAppended' /\ LeaseExclusive'
  BY <1>1, <1>3, <1>4 DEF BatchInv, DeliveredIsAppended, LeaseExclusive, AtWork, At, Current
<1>7. TodayInv'
  BY <1>1, <1>3, <1>4, AtHand DEF TodayInv, AtWork, Current
<1> QED
  BY <1>5, <1>6, <1>7 DEF OutboxIInv

\* A worker that stops has nothing in hand.
LEMMA StopStep == ASSUME OutboxIInv, NEW w \in Workers, Stops(w) PROVE OutboxIInv'
<1>1. OutboxTypeOK /\ BatchInv /\ DeliveredIsAppended /\ TodayInv /\ LeaseExclusive
  BY DEF OutboxIInv
<1>2. /\ NoBatch \in Batches /\ NoBatch.at = "idle" /\ NoBatch.rows = {} /\ NoBatch.days = 0
  BY OutboxMaxAttemptsAssumption, BatchDaysAssumption DEF NoBatch, Batches, Steps, Nothing
<1>3. /\ batch' = [batch EXCEPT ![w] = NoBatch]
      /\ UNCHANGED <<emitted, row, appended, overrun>>
  BY DEF Stops
<1>4. /\ batch'[w] = NoBatch
      /\ \A v \in Workers \ {w} : batch'[v] = batch[v]
  BY <1>1, <1>3 DEF OutboxTypeOK
<1>5. OutboxTypeOK'
  BY <1>1, <1>2, <1>3, <1>4 DEF OutboxTypeOK, At
<1>6. BatchInv' /\ DeliveredIsAppended' /\ TodayInv' /\ LeaseExclusive'
  BY <1>1, <1>2, <1>3, <1>4
     DEF BatchInv, DeliveredIsAppended, TodayInv, LeaseExclusive, AtWork, At, Current
<1> QED
  BY <1>5, <1>6 DEF OutboxIInv

\* A day begins.  A batch that is under way then has lasted into it.
LEMMA NewDayStep == ASSUME OutboxIInv, NewDay PROVE OutboxIInv'
<1>1. OutboxTypeOK /\ BatchInv /\ DeliveredIsAppended /\ TodayInv /\ LeaseExclusive
  BY DEF OutboxIInv
<1>2. \A lease \in Leases : Older(lease) \in Leases
  BY BatchDaysAssumption DEF Older, Leases, Unclaimed
<1>3. \A o \in Operations :
        /\ row'[o] \in OutboxRows
        /\ row'[o].delivered = row[o].delivered
  <2> SUFFICES ASSUME NEW o \in Operations
               PROVE  row'[o] \in OutboxRows /\ row'[o].delivered = row[o].delivered
    OBVIOUS
  <2>1. row[o] \in OutboxRows /\ Older(row[o].lease) \in Leases
    BY <1>1, <1>2 DEF OutboxTypeOK, OutboxRows
  <2>2. row'[o] = [row[o] EXCEPT !.lease = Older(row[o].lease)]
    BY DEF NewDay
  <2> QED
    BY <2>1, <2>2 DEF OutboxRows
<1>4. \A w \in Workers :
        /\ batch'[w] \in Batches
        /\ batch'[w].at = batch[w].at /\ batch'[w].rows \in {batch[w].rows, {}}
        /\ ~At(w, "idle") => batch'[w].rows = batch[w].rows /\ batch'[w].on = batch[w].on
        /\ At(w, "idle") => batch'[w].days = 0
  <2> SUFFICES ASSUME NEW w \in Workers
               PROVE  /\ batch'[w] \in Batches
                      /\ batch'[w].at = batch[w].at /\ batch'[w].rows \in {batch[w].rows, {}}
                      /\ ~At(w, "idle") => /\ batch'[w].rows = batch[w].rows
                                           /\ batch'[w].on = batch[w].on
                      /\ At(w, "idle") => batch'[w].days = 0
    OBVIOUS
  <2>1. batch[w] \in Batches /\ batch[w].days < BatchDays
    BY <1>1 DEF OutboxTypeOK, NewDay
  <2>2. CASE At(w, "idle")
    <3>1. batch'[w] = NoBatch
      BY <2>2 DEF NewDay
    <3> QED
      BY <2>2, <3>1, OutboxMaxAttemptsAssumption, BatchDaysAssumption
         DEF At, NoBatch, Batches, Steps, Nothing
  <2>3. CASE ~At(w, "idle")
    <3>1. batch'[w] = [batch[w] EXCEPT !.days = batch[w].days + 1]
      BY <2>3 DEF NewDay
    <3>2. batch[w].days + 1 \in 0..BatchDays
      BY <2>1, BatchDaysAssumption DEF Batches
    <3> QED
      BY <2>1, <2>3, <3>1, <3>2 DEF Batches
  <2> QED
    BY <2>2, <2>3
<1>5. /\ row' \in [Operations -> OutboxRows] /\ batch' \in [Workers -> Batches]
      /\ UNCHANGED <<emitted, appended>>
      /\ overrun' = (overrun \/ \E w \in Workers : ~At(w, "idle"))
  <2>1. row' \in [Operations -> OutboxRows]
    BY <1>3 DEF NewDay
  <2>2. batch' \in [Workers -> Batches]
    BY <1>4 DEF NewDay
  <2> QED
    BY <2>1, <2>2 DEF NewDay
<1>6. OutboxTypeOK'
  <2>1. overrun' \in BOOLEAN
    BY <1>1, <1>5 DEF OutboxTypeOK
  <2>2. \A w \in Workers : /\ batch'[w].rows \subseteq 1..emitted
                           /\ batch'[w].at = "claim" => batch'[w].rows # {}
    BY <1>1, <1>4 DEF OutboxTypeOK, At
  <2> QED
    BY <1>1, <1>5, <2>1, <2>2 DEF OutboxTypeOK, At
<1>7. BatchInv'
  BY <1>1, <1>4, <1>5 DEF BatchInv, AtWork, At, Current
<1>8. DeliveredIsAppended'
  BY <1>1, <1>3, <1>5 DEF DeliveredIsAppended
<1>9. ~overrun' => \A w \in Workers : batch'[w].at = "idle" /\ batch'[w].days = 0
  BY <1>4, <1>5 DEF At
<1>10. TodayInv' /\ LeaseExclusive'
  BY <1>9 DEF TodayInv, LeaseExclusive, AtWork
<1> QED
  BY <1>6, <1>7, <1>8, <1>10 DEF OutboxIInv

--------------------------------------------------------------------------------
(* Theorems                                                                   *)

\* The invariant holds at first and is kept by every step.
LEMMA InitOutbox == Init => OutboxIInv
<1> SUFFICES ASSUME Init PROVE OutboxIInv
  OBVIOUS
<1>1. NewRow \in OutboxRows /\ ~NewRow.delivered
  BY OutboxMaxAttemptsAssumption, BatchDaysAssumption
     DEF NewRow, OutboxRows, Leases, Unclaimed
<1>2. NoBatch \in Batches /\ NoBatch.at = "idle" /\ NoBatch.rows = {} /\ NoBatch.days = 0
  BY OutboxMaxAttemptsAssumption, BatchDaysAssumption DEF NoBatch, Batches, Steps, Nothing
<1>3. OutboxTypeOK
  <2>1. emitted \in 0..NumOperations /\ appended \subseteq 1..emitted /\ overrun \in BOOLEAN
    <3>1. emitted = 0 /\ appended = {} /\ overrun = FALSE
      BY DEF Init
    <3>2. overrun \in BOOLEAN
      BY <3>1, Zenon
    <3> QED
      BY <3>1, <3>2, NumOperationsAssumption
  <2>2. row \in [Operations -> OutboxRows]
    BY <1>1 DEF Init
  <2>3. \A w \in Workers : batch[w] = NoBatch
    BY DEF Init
  <2>4. batch \in [Workers -> Batches]
    BY <1>2 DEF Init
  <2> QED
    BY <1>2, <2>1, <2>2, <2>3, <2>4 DEF OutboxTypeOK, At
<1>4. BatchInv /\ DeliveredIsAppended /\ TodayInv /\ LeaseExclusive
  BY <1>1, <1>2 DEF Init, BatchInv, DeliveredIsAppended, TodayInv, LeaseExclusive, AtWork, At
<1> QED
  BY <1>3, <1>4 DEF OutboxIInv

LEMMA StepOutbox == OutboxIInv /\ [Next]_vars => OutboxIInv'
<1> SUFFICES ASSUME OutboxIInv, [Next]_vars PROVE OutboxIInv'
  OBVIOUS
<1>1. CASE UNCHANGED vars
  <2>1. OutboxTypeOK' /\ BatchInv' /\ DeliveredIsAppended'
    BY <1>1 DEF vars, OutboxIInv, OutboxTypeOK, BatchInv, DeliveredIsAppended, AtWork, At,
                Current
  <2>2. TodayInv' /\ LeaseExclusive'
    BY <1>1 DEF vars, OutboxIInv, TodayInv, LeaseExclusive, AtWork, Current
  <2> QED
    BY <2>1, <2>2 DEF OutboxIInv
<1>2. ASSUME NEW w \in Workers, WorkerStep(w) PROVE OutboxIInv'
  BY <1>2, SelectStep, ClaimStep, ClaimLostStep, AppendStep, OutcomeStep DEF WorkerStep
<1> QED
  BY <1>1, <1>2, EmitStep, BackoffStep, StopStep, NewDayStep DEF Next

THEOREM OutboxInvariant == Spec => []OutboxIInv
  BY InitOutbox, StepOutbox, PTL DEF Spec

\* Rows, batches and the journal have their types.
THEOREM OutboxTypeCorrect == Spec => []OutboxTypeOK
<1>1. OutboxIInv => OutboxTypeOK
  BY DEF OutboxIInv
<1> QED
  BY <1>1, OutboxInvariant, PTL

\* What the outbox calls delivered is in the journal, however many workers replay it.
THEOREM DeliveriesAreAppended == Spec => []DeliveredIsAppended
<1>1. OutboxIInv => DeliveredIsAppended
  BY DEF OutboxIInv
<1> QED
  BY <1>1, OutboxInvariant, PTL

\* Until a batch lasts into another day no two workers have an operation in hand.
THEOREM LeasesAreExclusive == Spec => []LeaseExclusive
<1>1. OutboxIInv => LeaseExclusive
  BY DEF OutboxIInv
<1> QED
  BY <1>1, OutboxInvariant, PTL

================================================================================
