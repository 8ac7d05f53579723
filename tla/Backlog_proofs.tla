----------------------------- MODULE Backlog_proofs -----------------------------
(* Theorems about the backlog, for any items, scopes, dependencies, limit and  *)
(* number of operators.  The steps are first described by what they may do to  *)
(* rows, dispatches, calls and the tick; the invariants then follow from these *)
(* descriptions and from the six steps in which the tick turns to a new list.  *)
EXTENDS Backlog, TLAPS, FiniteSetTheorems, SequenceTheorems

--------------------------------------------------------------------------------
(* The inductive invariants                                                   *)

Ids(jobs) == {j.id : j \in jobs}

\* Only the daemon records fires, and only while it fires; what else is to be written
\* puts nothing in flight.
WritersInv ==
    /\ \A k \in calls : k.op = "record" => k.by = Daemon /\ tick.at = "fire"
    /\ \A j \in tick.jobs :
          /\ tick.at = "settle" => j.row.state \in {"done", "needs_review"}
          /\ tick.at = "release" => j.row.state \in {"ready", "blocked_dependency"}
          /\ tick.at = "fire" => j.row = Blank

Exclusive(S) == /\ Cardinality(S) <= MaxInFlight
                /\ \A i, n \in S : i # n => Disjoint(i, n)

\* The items in flight and those the daemon is about to put there.
Committed == InFlight \cup Unrecorded
             \cup (IF tick.at = "fire" THEN Ids(tick.jobs) ELSE {})

LanesIInv ==
    /\ WritersInv
    /\ Exclusive(Committed)
    /\ tick.at \in {"promote", "release", "plan"} => InFlight \subseteq tick.held
                                                   /\ Exclusive(tick.held)

\* i was given to the queue.
Given(i) == \E p \in DOMAIN dispatch : dispatch[p].of = i

\* i may be given to it.
Free(i) == i \in past.excused \/ ~Given(i)

\* A row knows of its dispatch, or will, or the loss is on record; what the daemon
\* may fire is free.
RefireIInv ==
    /\ WritersInv
    /\ RefireNeedsApproval
    /\ \A i \in Items : /\ item[i].retry_safe => i \in past.excused
                        /\ item[i].dispatch = None => Free(i) \/ i \in Unrecorded
    /\ \A k \in calls : k.op = "record" => k.row.dispatch # None
    /\ \A j \in tick.jobs :
          /\ tick.at = "plan" /\ (j.row.dispatch # None => j.row.retry_safe) => Free(j.id)
          /\ tick.at = "fire" => Free(j.id)

DoneOf(n) == \E q \in DOMAIN dispatch : dispatch[q].of = n /\ dispatch[q].status = "done"

Landed(n) == n \in past.superseded \/ DoneOf(n)

\* What i no longer waits for has landed.
LandedBut(i, waits) == \A n \in Needs[i] : n \in waits \/ Landed(n)

\* p is a dispatch of i, if it is one.
Own(i, p) == p # None => p \in DOMAIN dispatch /\ dispatch[p].of = i

\* Rows point to their own dispatches and are done by them, and dependencies go only
\* when they have landed, in rows and in what is to be written.
LandedIInv ==
    /\ WritersInv
    /\ DependenciesLanded
    /\ \A i \in Items :
          /\ Own(i, item[i].dispatch)
          /\ LandedBut(i, item[i].waits)
          /\ item[i].state = "done" => DoneOf(i)
          /\ item[i].state = "superseded" /\ i \in Needed => i \in past.superseded
    /\ \A k \in calls : /\ k.op = "record" => Own(k.id, k.row.dispatch)
                        /\ k.op = "clear" => LandedBut(k.id, k.row.waits)
    /\ \A j \in tick.jobs :
          /\ tick.at = "list" => Own(j.id, j.row.dispatch)
          /\ tick.at = "settle" /\ j.row.state = "done" => DoneOf(j.id)
          /\ tick.at \in {"release", "plan"} => LandedBut(j.id, j.row.waits)
          /\ tick.at = "fire" => LandedBut(j.id, {})

--------------------------------------------------------------------------------
(* Rows                                                                       *)

LEMMA RowIs ==
    ASSUME NEW s \in States, NEW p \in 0..DispatchBound, NEW safe \in BOOLEAN,
           NEW w \in SUBSET Items, NEW a \in BOOLEAN
    PROVE  Row(s, p, safe, w, a) \in Rows
BY DEF Row, Rows

LEMMA BlankIs == Blank \in Rows
BY DispatchesAssumption DEF Blank, Row, Rows, States, None

\* The columns of a row.
LEMMA Columns ==
    ASSUME NEW r \in Rows
    PROVE  /\ r.state \in States /\ r.dispatch \in 0..DispatchBound
           /\ r.retry_safe \in BOOLEAN /\ r.waits \in SUBSET Items /\ r.aged \in BOOLEAN
BY DEF Rows

\* What a function that returns writes.
LEMMA WrittenIs ==
    ASSUME BacklogTypeOK, NEW k \in calls
    PROVE  /\ k.id \in Items
           /\ Written(k) \in Rows
           /\ Written(k).state = IF k.op = "record" THEN "in_flight" ELSE "ready"
           /\ Written(k).dispatch = IF k.op = "record" THEN k.row.dispatch
                                                        ELSE item[k.id].dispatch
           /\ Written(k).waits = IF k.op = "clear" THEN k.row.waits ELSE item[k.id].waits
<1>1. k \in Calls /\ item[k.id] \in Rows /\ k.row \in Rows /\ k.op \in Functions
  BY DEF BacklogTypeOK, Calls
<1> QED
  BY <1>1 DEF Written, Promoted, Cleared, Recorded, Rows, Row, Functions, States, Calls

LEMMA VerdictIs ==
    ASSUME NEW r
    PROVE  /\ Verdict(r) \in {"done", "needs_review", "in_flight"}
           /\ Verdict(r) = "done" => Status(r.dispatch) = "done"
BY DEF Verdict

LEMMA UnblockedIs ==
    ASSUME BacklogTypeOK, NEW i \in Items
    PROVE  /\ Unblocked(i) \in Rows
           /\ Unblocked(i).state \in {"ready", "blocked_dependency"}
           /\ Unblocked(i).waits = {n \in item[i].waits : ~Terminal(n)}
<1>1. {n \in item[i].waits : ~Terminal(n)} \in SUBSET Items
  BY Columns DEF BacklogTypeOK
<1> QED
  BY <1>1, DispatchesAssumption DEF Unblocked, Row, Rows, States, None

LEMMA IntoIs ==
    ASSUME NEW r \in Rows, NEW s \in States
    PROVE  /\ Into(r, s) \in Rows
           /\ Into(r, s).state = s
           /\ Into(r, s).dispatch = r.dispatch
           /\ Into(r, s).waits = r.waits
           /\ Into(r, s).retry_safe = r.retry_safe
BY DEF Into, Rows, States, Row

LEMMA JobIs ==
    ASSUME NEW i \in Items, NEW r \in Rows
    PROVE  Job(i, r) \in Jobs /\ Job(i, r).id = i /\ Job(i, r).row = r
BY DEF Job, Jobs

--------------------------------------------------------------------------------
(* What a step does to the rows                                               *)

\* A record of past that grew.
PastGrows == /\ past' \in Histories
             /\ past.excused \subseteq past'.excused
             /\ past.superseded \subseteq past'.superseded

LEMMA ExcuseGrows ==
    ASSUME BacklogTypeOK, NEW ids \in SUBSET Items, past' = Excuse(ids)
    PROVE  PastGrows /\ ids \subseteq past'.excused
BY DEF BacklogTypeOK, Histories, Excuse, PastGrows

\* How the row of i may move in a step.
RowMoves(i) ==
    LET r == item[i]
        s == item'[i]
    IN  /\ s \in Rows
        /\ s.state = "in_flight" =>
              r.state = "in_flight" \/ \E k \in calls : k.op = "record" /\ k.id = i
        /\ \/ s.dispatch = r.dispatch
           \/ \E k \in calls : k.op = "record" /\ k.id = i /\ s.dispatch = k.row.dispatch
        /\ \/ s.waits = r.waits
           \/ \E k \in calls : k.op = "clear" /\ k.id = i /\ s.waits = k.row.waits
           \/ tick.at = "release" /\ \E j \in tick.jobs : j.id = i /\ s.waits = j.row.waits
        /\ s.retry_safe => r.retry_safe \/ i \in past'.excused
        /\ s.state = "done" =>
              \/ r.state = "done"
              \/ r.dispatch # None /\ dispatch[r.dispatch].status = "done"
              \/ /\ tick.at = "settle"
                 /\ \E j \in tick.jobs : j.id = i /\ j.row.state = "done"
        /\ s.state = "superseded" => r.state = "superseded" \/ i \notin Needed
                                     \/ i \in past'.superseded

RowsMove == item' \in [Items -> Rows] /\ (\A i \in Items : RowMoves(i)) /\ PastGrows

LEMMA OthersStay ==
    ASSUME BacklogTypeOK, NEW i \in Items, NEW r \in Rows,
           item' = [item EXCEPT ![i] = r], PastGrows,
           item'[i] = r => RowMoves(i)
    PROVE  RowsMove
<1>1. item' \in [Items -> Rows] /\ item'[i] = r
  BY DEF BacklogTypeOK
<1>2. ASSUME NEW n \in Items, n # i PROVE RowMoves(n)
  <2>1. item'[n] = item[n] /\ item[n] \in Rows
    BY <1>2 DEF BacklogTypeOK
  <2> QED
    BY <2>1 DEF RowMoves
<1> QED
  BY <1>1, <1>2 DEF RowsMove

LEMMA ItemsStay ==
    ASSUME BacklogTypeOK, item' = item, PastGrows
    PROVE  RowsMove
<1>1. ASSUME NEW n \in Items PROVE RowMoves(n)
  <2>1. item'[n] = item[n] /\ item[n] \in Rows
    BY DEF BacklogTypeOK
  <2> QED
    BY <2>1 DEF RowMoves
<1> QED
  BY <1>1 DEF RowsMove, BacklogTypeOK

LEMMA PastStays ==
    ASSUME BacklogTypeOK, past' = past
    PROVE  PastGrows
BY DEF BacklogTypeOK, PastGrows

LEMMA SupersedeMoves ==
    ASSUME BacklogTypeOK, NEW i \in Items, Supersede(i)
    PROVE  RowsMove
<1> DEFINE r == Row("superseded", item[i].dispatch, FALSE, item[i].waits, FALSE)
<1>1. item[i] \in Rows /\ item[i].dispatch \in 0..DispatchBound
      /\ item[i].waits \in SUBSET Items
  BY Columns DEF BacklogTypeOK
<1>2. r \in Rows
  BY <1>1, RowIs DEF States
<1>3. r.state = "superseded" /\ r.dispatch = item[i].dispatch /\ r.waits = item[i].waits
      /\ r.retry_safe = FALSE
  BY DEF Row
<1>4. item' = [item EXCEPT ![i] = r]
  BY DEF Supersede, Write
<1>5. PastGrows /\ (i \in Needed => i \in past'.superseded)
  BY DEF Supersede, BacklogTypeOK, Histories, PastGrows
<1>6. item'[i] = r => RowMoves(i)
  <2> HIDE DEF r
  <2> QED
    BY <1>2, <1>3, <1>5 DEF RowMoves
<1> HIDE DEF r
<1> QED
  BY <1>2, <1>4, <1>5, <1>6, OthersStay

LEMMA CloseStaleMoves ==
    ASSUME BacklogTypeOK, NEW i \in Items, CloseStale(i)
    PROVE  RowsMove
<1>1. CASE Status(item[i].dispatch) = "failed" /\ Supersede(i)
  BY <1>1, SupersedeMoves
<1>2. CASE /\ Status(item[i].dispatch) = "done"
           /\ Write(i, Into(item[i], "done")) /\ UNCHANGED past
  <2> DEFINE r == Into(item[i], "done")
  <2>1. /\ r \in Rows /\ r.state = "done" /\ r.dispatch = item[i].dispatch
        /\ r.waits = item[i].waits /\ r.retry_safe = item[i].retry_safe
    BY IntoIs DEF BacklogTypeOK, States
  <2>2. item[i].dispatch # None /\ dispatch[item[i].dispatch].status = "done"
    BY <1>2 DEF CloseStale, Stale, Status
  <2>3. item' = [item EXCEPT ![i] = r] /\ PastGrows
    BY <1>2, PastStays DEF Write
  <2> HIDE DEF r
  <2>4. item'[i] = r => RowMoves(i)
    BY <2>1, <2>2 DEF RowMoves
  <2> QED
    BY <2>1, <2>3, <2>4, OthersStay
<1> QED
  BY <1>1, <1>2 DEF CloseStale

LEMMA MarkRetrySafeMoves ==
    ASSUME BacklogTypeOK, NEW i \in Items, MarkRetrySafe(i)
    PROVE  RowsMove
<1> DEFINE r == [item[i] EXCEPT !.retry_safe = TRUE]
<1>1. /\ r \in Rows /\ r.state = item[i].state /\ r.dispatch = item[i].dispatch
      /\ r.waits = item[i].waits
  <2>1. item[i] \in Rows
    BY DEF BacklogTypeOK
  <2> QED
    BY <2>1 DEF Rows
<1>2. item' = [item EXCEPT ![i] = r]
  BY DEF MarkRetrySafe, Write
<1>3. PastGrows /\ i \in past'.excused
  BY ExcuseGrows DEF MarkRetrySafe
<1> HIDE DEF r
<1>4. item'[i] = r => RowMoves(i)
  BY <1>1, <1>3 DEF RowMoves
<1> QED
  BY <1>1, <1>2, <1>3, <1>4, OthersStay

LEMMA RejectMoves ==
    ASSUME BacklogTypeOK, NEW i \in Items, Reject(i)
    PROVE  RowsMove
<1> DEFINE r == Into(item[i], "needs_review")
<1>1. /\ r \in Rows /\ r.state = "needs_review" /\ r.dispatch = item[i].dispatch
      /\ r.waits = item[i].waits /\ r.retry_safe = item[i].retry_safe
  BY IntoIs DEF BacklogTypeOK, States
<1>2. item' = [item EXCEPT ![i] = r] /\ PastGrows
  BY PastStays DEF Reject, Write
<1> HIDE DEF r
<1>3. item'[i] = r => RowMoves(i)
  BY <1>1 DEF RowMoves
<1> QED
  BY <1>1, <1>2, <1>3, OthersStay

LEMMA AgeMoves ==
    ASSUME BacklogTypeOK, NEW i \in Items, Age(i)
    PROVE  RowsMove
<1> DEFINE r == [item[i] EXCEPT !.aged = TRUE]
<1>1. /\ r \in Rows /\ r.state = item[i].state /\ r.dispatch = item[i].dispatch
      /\ r.waits = item[i].waits /\ r.retry_safe = item[i].retry_safe
  <2>1. item[i] \in Rows
    BY DEF BacklogTypeOK
  <2> QED
    BY <2>1 DEF Rows
<1>2. item' = [item EXCEPT ![i] = r] /\ PastGrows
  BY PastStays DEF Age
<1> HIDE DEF r
<1>3. item'[i] = r => RowMoves(i)
  BY <1>1 DEF RowMoves
<1> QED
  BY <1>1, <1>2, <1>3, OthersStay

LEMMA ReturnMoves ==
    ASSUME BacklogTypeOK, NEW k \in calls, Return(k)
    PROVE  RowsMove
<1> DEFINE r == Written(k)
<1>1. /\ k.id \in Items /\ r \in Rows
      /\ r.state = IF k.op = "record" THEN "in_flight" ELSE "ready"
      /\ r.dispatch = IF k.op = "record" THEN k.row.dispatch ELSE item[k.id].dispatch
      /\ r.waits = IF k.op = "clear" THEN k.row.waits ELSE item[k.id].waits
  BY WrittenIs
<1>2. item' = [item EXCEPT ![k.id] = r] /\ item'[k.id] = r
  BY <1>1 DEF Return, BacklogTypeOK
<1>3. PastGrows /\ (item'[k.id].retry_safe => k.id \in past'.excused)
  BY <1>1, ExcuseGrows, PastStays DEF Return
<1> HIDE DEF r
<1>4. RowMoves(k.id)
  BY <1>1, <1>2, <1>3 DEF RowMoves
<1> QED
  BY <1>1, <1>2, <1>3, <1>4, OthersStay

LEMMA SettleMoves ==
    ASSUME BacklogTypeOK, WritersInv, NEW j \in tick.jobs, Settle(j)
    PROVE  RowsMove
<1> DEFINE r == Into(item[j.id], j.row.state)
<1>1. j.id \in Items /\ j.row.state \in {"done", "needs_review"} /\ tick.at = "settle"
  BY DEF BacklogTypeOK, Ticks, Jobs, Settle, WritersInv
<1>2. /\ r \in Rows /\ r.state = j.row.state /\ r.dispatch = item[j.id].dispatch
      /\ r.waits = item[j.id].waits /\ r.retry_safe = item[j.id].retry_safe
  BY <1>1, IntoIs DEF BacklogTypeOK, States
<1>3. item' = [item EXCEPT ![j.id] = r] /\ PastGrows
  BY PastStays DEF Settle
<1> HIDE DEF r
<1>4. item'[j.id] = r => RowMoves(j.id)
  BY <1>1, <1>2 DEF RowMoves
<1> QED
  BY <1>1, <1>2, <1>3, <1>4, OthersStay

LEMMA ReleaseMoves ==
    ASSUME BacklogTypeOK, WritersInv, NEW j \in tick.jobs, Release(j)
    PROVE  RowsMove
<1> DEFINE r == Row(j.row.state, item[j.id].dispatch, item[j.id].retry_safe, j.row.waits,
                    FALSE)
<1>1. /\ j.id \in Items /\ j.row \in Rows /\ tick.at = "release"
      /\ j.row.state \in {"ready", "blocked_dependency"}
  BY DEF BacklogTypeOK, Ticks, Jobs, Release, WritersInv
<1>2. PastGrows
  BY PastStays DEF Release
<1>3. CASE item[j.id].state = "blocked_dependency"
  <2>1. item[j.id] \in Rows
    BY <1>1 DEF BacklogTypeOK
  <2>2. r \in Rows
    BY <1>1, <2>1, Columns, RowIs
  <2>3. /\ r.state = j.row.state /\ r.dispatch = item[j.id].dispatch
        /\ r.waits = j.row.waits /\ r.retry_safe = item[j.id].retry_safe
    BY DEF Row
  <2>4. item' = [item EXCEPT ![j.id] = r]
    BY <1>3 DEF Release
  <2> HIDE DEF r
  <2>5. item'[j.id] = r => RowMoves(j.id)
    BY <1>1, <2>2, <2>3 DEF RowMoves
  <2> QED
    BY <1>1, <1>2, <2>2, <2>4, <2>5, OthersStay
<1>4. CASE item[j.id].state # "blocked_dependency"
  BY <1>2, <1>4, ItemsStay DEF Release
<1> QED
  BY <1>3, <1>4

--------------------------------------------------------------------------------
(* What a step does to the dispatches, the calls and the tick                 *)

\* A dispatch keeps its item and stays done; a new one is what the daemon fires, which
\* it is about to record.
DispatchesMove ==
    /\ dispatch' \in Seq(Dispatches) /\ Len(dispatch') <= DispatchBound
    /\ \A p \in DOMAIN dispatch :
          /\ p \in DOMAIN dispatch'
          /\ dispatch'[p].of = dispatch[p].of
          /\ dispatch[p].status = "done" => dispatch'[p].status = "done"
    /\ \A p \in DOMAIN dispatch' \ DOMAIN dispatch :
          /\ \A q \in DOMAIN dispatch' : q = p \/ q \in DOMAIN dispatch
          /\ tick.at = "fire"
          /\ \E j \in tick.jobs : /\ dispatch'[p].of = j.id
                                 /\ tick' = [at |-> "fire", jobs |-> tick.jobs \ {j},
                                             held |-> tick.held]
                                 /\ j.id \in Unrecorded'

\* What a function that begins has read.
Begun(k) ==
    \/ k.op = "promote"
    \/ k.op = "clear" /\ \E n \in item[k.id].waits : /\ Terminal(n)
                                                  /\ k.row.waits = item[k.id].waits \ {n}
    \/ /\ k.op = "record" /\ k.by = Daemon /\ tick.at = "fire" /\ tick'.at = "fire"
       /\ \E j \in tick.jobs : j.id = k.id
       /\ k.row.dispatch # None
       /\ k.row.dispatch \in DOMAIN dispatch' /\ dispatch'[k.row.dispatch].of = k.id

\* A record that ends is in the row, or its loss in the history.
Ended(k) == k.op = "record" => \/ k.id \in past'.excused
                               \/ item'[k.id].dispatch = k.row.dispatch

CallsMove == /\ calls' \subseteq Calls
             /\ \A k \in calls' \ calls : Begun(k)
             /\ \A k \in calls \ calls' : Ended(k)

\* The steps in which the tick turns to what it has just read.
Turns == /\ \/ BeginTick \/ ResolveDispatches \/ ReadInFlight
            \/ ListBlocked \/ ListReady \/ PlanAdmission
         /\ UNCHANGED <<item, dispatch, calls, past>>

TickMoves ==
    /\ tick' \in Ticks
    /\ \/ tick'.at = tick.at /\ tick'.jobs \subseteq tick.jobs /\ tick'.held = tick.held
       \/ tick' = NoTick /\ \A k \in calls' : k.op # "record"
       \/ Turns

Moves == RowsMove /\ DispatchesMove /\ CallsMove /\ TickMoves

LEMMA DispatchesStay ==
    ASSUME BacklogTypeOK, dispatch' = dispatch
    PROVE  DispatchesMove
BY DEF BacklogTypeOK, DispatchesMove

LEMMA CallsStay ==
    ASSUME BacklogTypeOK, calls' = calls
    PROVE  CallsMove
BY DEF BacklogTypeOK, CallsMove

LEMMA TickStays ==
    ASSUME BacklogTypeOK, tick' = tick
    PROVE  TickMoves
BY DEF BacklogTypeOK, TickMoves

\* A step that takes a job and nothing else from the tick.
LEMMA JobTaken ==
    ASSUME BacklogTypeOK, NEW j \in tick.jobs, tick' = [tick EXCEPT !.jobs = @ \ {j}]
    PROVE  /\ TickMoves
           /\ tick' = [at |-> tick.at, jobs |-> tick.jobs \ {j}, held |-> tick.held]
<1>1. tick \in Ticks
  BY DEF BacklogTypeOK
<1>2. tick' = [at |-> tick.at, jobs |-> tick.jobs \ {j}, held |-> tick.held]
  BY <1>1 DEF Ticks
<1> QED
  BY <1>1, <1>2 DEF TickMoves, Ticks

LEMMA QueueMoves ==
    ASSUME BacklogTypeOK, QueueStep
    PROVE  Moves
<1>1. PICK p \in DOMAIN dispatch : EndDispatch(p) \/ Revive(p) \/ Land(p)
  BY DEF QueueStep
<1>2. PICK s \in {"active", "done", "failed"} : dispatch[p].status # "done" /\ Turn(p, s)
  BY <1>1 DEF EndDispatch, Revive, Land
<1>3. dispatch \in Seq(Dispatches) /\ Len(dispatch) <= DispatchBound
  BY DEF BacklogTypeOK
<1>4. dispatch[p] \in Dispatches
  BY <1>1, <1>3, ElementOfSeq
<1> DEFINE new == [dispatch[p] EXCEPT !.status = s]
<1>5. new \in Dispatches /\ new.of = dispatch[p].of
  BY <1>2, <1>4 DEF Dispatches
<1>6. dispatch' = [dispatch EXCEPT ![p] = new]
  BY <1>2 DEF Turn
<1> HIDE DEF new
<1>7. /\ dispatch' \in Seq(Dispatches) /\ Len(dispatch') = Len(dispatch)
      /\ \A q \in DOMAIN dispatch : dispatch'[q] = IF q = p THEN new ELSE dispatch[q]
      /\ DOMAIN dispatch' = DOMAIN dispatch
  BY <1>1, <1>3, <1>5, <1>6, ExceptSeq
<1>8. DispatchesMove
  BY <1>2, <1>3, <1>5, <1>7 DEF DispatchesMove
<1> QED
  BY <1>2, <1>8, PastStays, ItemsStay, CallsStay, TickStays DEF Turn, Moves

LEMMA TouchMoves ==
    ASSUME BacklogTypeOK, NEW i \in Items,
           CloseStale(i) \/ MarkRetrySafe(i) \/ SupersedeOffline(i) \/ Reject(i) \/ Age(i)
    PROVE  Moves
<1>1. RowsMove
  BY CloseStaleMoves, MarkRetrySafeMoves, SupersedeMoves, RejectMoves, AgeMoves
     DEF SupersedeOffline
<1>2. UNCHANGED <<dispatch, tick, calls>>
  BY DEF CloseStale, MarkRetrySafe, SupersedeOffline, Supersede, Reject, Age, Write
<1> QED
  BY <1>1, <1>2, DispatchesStay, CallsStay, TickStays DEF Moves

\* A function that reads a row and changes nothing else.
LEMMA CallMoves ==
    ASSUME BacklogTypeOK, NEW c \in Operators \cup {Daemon}, NEW op \in Functions,
           NEW i \in Items, NEW r \in Rows, Call(c, op, i, r),
           Begun([by |-> c, op |-> op, id |-> i, row |-> r])
    PROVE  CallsMove
<1> DEFINE k == [by |-> c, op |-> op, id |-> i, row |-> r]
<1>1. k \in Calls
  BY DEF Calls
<1>2. calls' = calls \cup {k} /\ Begun(k)
  BY DEF Call
<1> HIDE DEF k
<1> QED
  BY <1>1, <1>2 DEF CallsMove, BacklogTypeOK

LEMMA HandlerMoves ==
    ASSUME BacklogTypeOK, NEW c \in Operators, NEW i \in Items, Handler(c, i)
    PROVE  Moves
<1>1. CASE Promote(c, i)
  <2>1. PICK safe \in BOOLEAN : Call(c, "promote", i, [Blank EXCEPT !.retry_safe = safe])
    BY <1>1 DEF Promote
  <2>2. [Blank EXCEPT !.retry_safe = safe] \in Rows
    BY BlankIs DEF Rows
  <2>3. CallsMove
    BY <2>1, <2>2, CallMoves DEF Functions, Begun
  <2> QED
    BY <2>3, PastStays, ItemsStay, DispatchesStay, TickStays DEF Handler, Moves
<1>2. CASE Flesh(c, i)
  <2>1. CallsMove
    BY <1>2, BlankIs, CallMoves DEF Flesh, Functions, Begun
  <2> QED
    BY <2>1, PastStays, ItemsStay, DispatchesStay, TickStays DEF Handler, Moves
<1>3. CASE ClearBlocker(c, i)
  <2>1. PICK n \in item[i].waits :
           Terminal(n) /\ Call(c, "clear", i, [Blank EXCEPT !.waits = item[i].waits \ {n}])
    BY <1>3 DEF ClearBlocker
  <2> DEFINE r == [Blank EXCEPT !.waits = item[i].waits \ {n}]
  <2>2. r \in Rows /\ r.waits = item[i].waits \ {n}
    <3>1. item[i].waits \ {n} \in SUBSET Items
      BY Columns DEF BacklogTypeOK
    <3> QED
      BY <3>1, BlankIs DEF Rows
  <2>3. Call(c, "clear", i, r)
    BY <2>1
  <2> HIDE DEF r
  <2>4. Begun([by |-> c, op |-> "clear", id |-> i, row |-> r])
    BY <2>1, <2>2 DEF Begun
  <2>5. CallsMove
    BY <2>2, <2>3, <2>4, CallMoves DEF Functions
  <2> QED
    BY <2>5, PastStays, ItemsStay, DispatchesStay, TickStays DEF Handler, Moves
<1> QED
  BY <1>1, <1>2, <1>3 DEF Handler

LEMMA ReturnMovesAll ==
    ASSUME BacklogTypeOK, NEW k \in calls, Return(k)
    PROVE  Moves
<1>1. CallsMove
  <2>1. Ended(k)
    <3>1. k.op = "record" => Written(k).dispatch = k.row.dispatch
      BY WrittenIs
    <3>2. item'[k.id] = Written(k)
      BY WrittenIs DEF Return, BacklogTypeOK
    <3> QED
      BY <3>1, <3>2 DEF Ended
  <2> QED
    BY <2>1 DEF Return, CallsMove, BacklogTypeOK
<1>2. UNCHANGED <<dispatch, tick>>
  BY DEF Return
<1> QED
  BY <1>1, <1>2, ReturnMoves, DispatchesStay, TickStays DEF Moves

LEMMA RecordFailsMoves ==
    ASSUME BacklogTypeOK, NEW k \in calls, RecordFails(k)
    PROVE  Moves
<1>1. k.id \in Items
  BY DEF BacklogTypeOK, Calls
<1>2. PastGrows /\ k.id \in past'.excused
  BY <1>1, ExcuseGrows DEF RecordFails
<1>3. CallsMove
  BY <1>2 DEF RecordFails, CallsMove, Ended, BacklogTypeOK
<1> QED
  BY <1>2, <1>3, ItemsStay, DispatchesStay, TickStays DEF RecordFails, Moves

LEMMA RestartMoves ==
    ASSUME BacklogTypeOK, RestartManager
    PROVE  Moves
<1>1. Unrecorded \in SUBSET Items
  BY DEF Unrecorded, BacklogTypeOK, Calls
<1>2. PastGrows /\ Unrecorded \subseteq past'.excused
  BY <1>1, ExcuseGrows DEF RestartManager
<1>3. CallsMove
  BY <1>2 DEF RestartManager, CallsMove, Ended, Unrecorded
<1>4. TickMoves
  BY DEF RestartManager, TickMoves, NoTick, Ticks, Steps
<1> QED
  BY <1>2, <1>3, <1>4, ItemsStay, DispatchesStay DEF RestartManager, Moves

LEMMA SettleReleaseMoves ==
    ASSUME BacklogTypeOK, WritersInv, NEW j \in tick.jobs, Settle(j) \/ Release(j)
    PROVE  Moves
<1>1. RowsMove
  BY SettleMoves, ReleaseMoves
<1>2. TickMoves
  BY JobTaken DEF Settle, Release
<1> QED
  BY <1>1, <1>2, DispatchesStay, CallsStay DEF Settle, Release, Moves

LEMMA AutoPromoteMoves ==
    ASSUME BacklogTypeOK, NEW j \in tick.jobs, AutoPromote(j) \/ EnqueueFails(j)
    PROVE  Moves
<1>1. TickMoves
  BY JobTaken DEF AutoPromote, EnqueueFails
<1>2. CallsMove
  <2>1. CASE Call(Daemon, "promote", j.id, Blank)
    <3>1. j.id \in Items
      BY DEF BacklogTypeOK, Ticks, Jobs
    <3> QED
      BY <2>1, <3>1, BlankIs, CallMoves DEF Functions, Begun
  <2>2. CASE UNCHANGED calls
    BY <2>2, CallsStay
  <2> QED
    BY <2>1, <2>2 DEF AutoPromote, EnqueueFails
<1> QED
  BY <1>1, <1>2, PastStays, ItemsStay, DispatchesStay DEF AutoPromote, EnqueueFails, Moves

LEMMA FireMoves ==
    ASSUME BacklogTypeOK, NEW j \in tick.jobs, Fire(j)
    PROVE  Moves
<1>1. /\ TickMoves /\ tick.at = "fire"
      /\ tick' = [at |-> "fire", jobs |-> tick.jobs \ {j}, held |-> tick.held]
      /\ j.id \in Items
  BY JobTaken DEF Fire, BacklogTypeOK, Ticks, Jobs
<1>2. PICK p \in 1..DispatchBound :
         /\ Enqueued(j.id, p)
         /\ Call(Daemon, "record", j.id, [Blank EXCEPT !.dispatch = p])
  BY DEF Fire
<1> DEFINE r == [Blank EXCEPT !.dispatch = p]
<1>3. r \in Rows /\ r.dispatch = p
  <2>1. p \in 0..DispatchBound
    BY DispatchesAssumption
  <2> QED
    BY <2>1, BlankIs DEF Rows
<1>4. Call(Daemon, "record", j.id, r)
  BY <1>2
<1> HIDE DEF r
<1>5. dispatch \in Seq(Dispatches) /\ Len(dispatch) \in Nat
      /\ Len(dispatch) <= DispatchBound /\ DOMAIN dispatch = 1..Len(dispatch)
  BY DEF BacklogTypeOK
<1>6. j.id \in Unrecorded'
  <2> DEFINE k == [by |-> Daemon, op |-> "record", id |-> j.id, row |-> r]
  <2>1. k \in calls' /\ k.op = "record" /\ k.id = j.id
    BY <1>4 DEF Call
  <2> HIDE DEF k
  <2> QED
    BY <2>1 DEF Unrecorded
<1>7. /\ DispatchesMove
      /\ p \in DOMAIN dispatch' /\ dispatch'[p].of = j.id
  <2>1. CASE p \in Active(j.id) /\ UNCHANGED dispatch
    BY <2>1, DispatchesStay DEF Active
  <2>2. CASE /\ Len(dispatch) < DispatchBound
             /\ p = Len(dispatch) + 1
             /\ dispatch' = Append(dispatch, [of |-> j.id, status |-> "active"])
    <3> DEFINE new == [of |-> j.id, status |-> "active"]
    <3>1. new \in Dispatches /\ new.of = j.id
      BY <1>1 DEF Dispatches
    <3> HIDE DEF new
    <3>2. dispatch' = Append(dispatch, new)
      BY <2>2 DEF new
    <3>3. /\ dispatch' \in Seq(Dispatches) /\ Len(dispatch') = Len(dispatch) + 1
          /\ \A q \in 1..Len(dispatch) : dispatch'[q] = dispatch[q]
          /\ dispatch'[Len(dispatch) + 1] = new
      BY <1>5, <3>1, <3>2, AppendProperties
    <3>4. DOMAIN dispatch' = 1..(Len(dispatch) + 1)
      BY <3>3
    <3>5. dispatch'[p].of = j.id /\ p \in DOMAIN dispatch'
      BY <1>5, <2>2, <3>1, <3>3, <3>4
    <3>6. ASSUME NEW q \in DOMAIN dispatch' \ DOMAIN dispatch
          PROVE  q = p /\ \A s \in DOMAIN dispatch' : s = q \/ s \in DOMAIN dispatch
      BY <1>5, <2>2, <3>4
    <3>7. \A q \in DOMAIN dispatch :
             /\ q \in DOMAIN dispatch'
             /\ dispatch'[q] = dispatch[q]
      BY <1>5, <3>3, <3>4
    <3>8. Len(dispatch') <= DispatchBound
      BY <1>5, <2>2, <3>3, DispatchesAssumption
    <3>9. DispatchesMove
      BY <1>1, <1>6, <3>3, <3>5, <3>6, <3>7, <3>8 DEF DispatchesMove
    <3> QED
      BY <3>5, <3>9
  <2> QED
    BY <1>2, <2>1, <2>2 DEF Enqueued
<1>8. p # None
  BY DispatchesAssumption DEF None
<1>9. Begun([by |-> Daemon, op |-> "record", id |-> j.id, row |-> r])
  BY <1>1, <1>3, <1>7, <1>8 DEF Begun
<1>10. CallsMove
  BY <1>1, <1>3, <1>4, <1>9, CallMoves DEF Functions
<1> QED
  BY <1>1, <1>7, <1>10, PastStays, ItemsStay DEF Fire, Moves

LEMMA EndTickMoves ==
    ASSUME BacklogTypeOK, WritersInv, EndTick
    PROVE  Moves
<1>1. TickMoves
  BY DEF EndTick, Idle, WritersInv, TickMoves, NoTick, Ticks, Steps
<1> QED
  BY <1>1, PastStays, ItemsStay, DispatchesStay, CallsStay DEF EndTick, Moves

LEMMA TurnMoves ==
    ASSUME BacklogTypeOK, Turns
    PROVE  Moves
<1>1. item \in [Items -> Rows] /\ InFlight \in SUBSET Items /\ tick \in Ticks
  BY DEF BacklogTypeOK, InFlight
<1>2. tick' \in Ticks
  <2>1. CASE BeginTick
    <3>1. \A i \in InFlight : Job(i, Listed(item[i])) \in Jobs
      <4> TAKE i \in InFlight
      <4>1. item[i].dispatch \in 0..DispatchBound /\ item[i].aged \in BOOLEAN
        BY <1>1, Columns
      <4>2. Listed(item[i]) \in Rows
        BY <4>1, RowIs DEF Listed, States
      <4> QED
        BY <1>1, <4>2, JobIs
    <3> QED
      BY <2>1, <3>1 DEF BeginTick, Ticks, Steps
  <2>2. CASE ResolveDispatches
    <3>1. \A j \in tick.jobs : Job(j.id, Into(Blank, Verdict(j.row))) \in Jobs
      <4> TAKE j \in tick.jobs
      <4>1. j.id \in Items
        BY <1>1 DEF Ticks, Jobs
      <4>2. Into(Blank, Verdict(j.row)) \in Rows
        BY BlankIs, IntoIs, VerdictIs DEF States
      <4> QED
        BY <4>1, <4>2, JobIs
    <3> QED
      BY <2>2, <3>1 DEF ResolveDispatches, Ticks, Steps
  <2>3. CASE ReadInFlight
    <3>1. \A i \in Items : Job(i, Blank) \in Jobs
      BY BlankIs, JobIs
    <3> QED
      BY <1>1, <2>3, <3>1 DEF ReadInFlight, Ticks, Steps
  <2>4. CASE ListBlocked
    <3>1. \A i \in Items : Job(i, Unblocked(i)) \in Jobs
      BY UnblockedIs, JobIs
    <3> QED
      BY <1>1, <2>4, <3>1 DEF ListBlocked, Ticks, Steps
  <2>5. CASE ListReady
    <3>1. \A i \in Items : Job(i, item[i]) \in Jobs
      BY <1>1, JobIs
    <3> QED
      BY <1>1, <2>5, <3>1 DEF ListReady, Ticks, Steps
  <2>6. CASE PlanAdmission
    <3>1. \A i \in Items : Job(i, Blank) \in Jobs
      BY BlankIs, JobIs
    <3>2. \A j \in tick.jobs : j.id \in Items
      BY <1>1 DEF Ticks, Jobs
    <3> QED
      BY <2>6, <3>1, <3>2 DEF PlanAdmission, Ticks, Steps
  <2> QED
    BY <2>1, <2>2, <2>3, <2>4, <2>5, <2>6 DEF Turns
<1> QED
  BY <1>2, PastStays, ItemsStay, DispatchesStay, CallsStay DEF Turns, TickMoves, Moves

\* Every step of the backlog, and a stutter.
LEMMA NextMoves ==
    ASSUME BacklogTypeOK, WritersInv, [Next]_vars
    PROVE  Moves
<1>1. CASE QueueStep
  BY <1>1, QueueMoves
<1>2. CASE TickStep
  <2>1. CASE \E j \in tick.jobs : JobStep(j)
    BY <2>1, SettleReleaseMoves, AutoPromoteMoves, FireMoves DEF JobStep
  <2>2. CASE \E k \in calls : AutoReturns(k)
    BY <2>2, ReturnMovesAll, RecordFailsMoves DEF AutoReturns
  <2>3. CASE EndTick
    BY <2>3, EndTickMoves
  <2>4. CASE \/ BeginTick \/ ResolveDispatches \/ ReadInFlight
             \/ ListBlocked \/ ListReady \/ PlanAdmission
    <3>1. Turns
      BY <2>4 DEF Turns, BeginTick, ResolveDispatches, ReadInFlight, ListBlocked,
                  ListReady, PlanAdmission
    <3> QED
      BY <3>1, TurnMoves
  <2> QED
    BY <1>2, <2>1, <2>2, <2>3, <2>4 DEF TickStep
<1>3. CASE OperatorStep
  BY <1>3, HandlerMoves, ReturnMovesAll, TouchMoves DEF OperatorStep, OperatorReturns
<1>4. CASE \E i \in Items : Age(i)
  BY <1>4, TouchMoves
<1>5. CASE RestartManager
  BY <1>5, RestartMoves
<1>6. CASE UNCHANGED vars
  BY <1>6, PastStays, ItemsStay, DispatchesStay, CallsStay, TickStays DEF vars, Moves
<1> QED
  BY <1>1, <1>2, <1>3, <1>4, <1>5, <1>6 DEF Next

--------------------------------------------------------------------------------
(* Types and writers                                                          *)

LEMMA TypeInit == ASSUME Init PROVE BacklogTypeOK
<1>1. item \in [Items -> Rows]
  BY NeedsAssumption, DispatchesAssumption DEF Init, NewRow, Row, Rows, States, None
<1>2. dispatch \in Seq(Dispatches) /\ Len(dispatch) <= DispatchBound
  BY DispatchesAssumption DEF Init
<1> QED
  BY <1>1, <1>2 DEF Init, BacklogTypeOK, NoTick, Ticks, Steps, Histories

LEMMA TypeKeeps ==
    ASSUME BacklogTypeOK, Moves
    PROVE  BacklogTypeOK'
BY DEF BacklogTypeOK, Moves, RowsMove, PastGrows, DispatchesMove, CallsMove, TickMoves

LEMMA WritersInit == ASSUME Init PROVE WritersInv
BY DEF Init, WritersInv, NoTick

LEMMA WritersKeep ==
    ASSUME BacklogTypeOK, WritersInv, Moves
    PROVE  WritersInv'
<1>1. ASSUME NEW k \in calls', k.op = "record"
      PROVE  k.by = Daemon /\ tick'.at = "fire"
  <2>1. CASE k \notin calls
    BY <1>1, <2>1 DEF Moves, CallsMove, Begun
  <2>2. CASE k \in calls
    <3>1. k.by = Daemon /\ tick.at = "fire"
      BY <1>1, <2>2 DEF WritersInv
    <3>2. ~Turns
      BY <3>1 DEF Turns, BeginTick, ResolveDispatches, ReadInFlight, ListBlocked,
                  ListReady, PlanAdmission
    <3> QED
      BY <1>1, <3>1, <3>2 DEF Moves, TickMoves
  <2> QED
    BY <2>1, <2>2
<1>2. ASSUME NEW j \in tick'.jobs
      PROVE  /\ tick'.at = "settle" => j.row.state \in {"done", "needs_review"}
             /\ tick'.at = "release" => j.row.state \in {"ready", "blocked_dependency"}
             /\ tick'.at = "fire" => j.row = Blank
  <2>1. CASE tick'.at = tick.at /\ tick'.jobs \subseteq tick.jobs
    BY <1>2, <2>1 DEF WritersInv
  <2>2. CASE tick' = NoTick
    BY <1>2, <2>2 DEF NoTick
  <2>3. CASE Turns
    <3>1. CASE ResolveDispatches
      <4>1. PICK l \in tick.jobs : /\ Verdict(l.row) # "in_flight"
                                  /\ j = Job(l.id, Into(Blank, Verdict(l.row)))
        BY <1>2, <3>1 DEF ResolveDispatches
      <4>2. j.row.state = Verdict(l.row)
        BY <4>1, BlankIs, IntoIs, VerdictIs DEF Job, States
      <4> QED
        BY <3>1, <4>1, <4>2, VerdictIs DEF ResolveDispatches
    <3>2. CASE ListBlocked
      <4>1. PICK i \in Items : j = Job(i, Unblocked(i))
        BY <1>2, <3>2 DEF ListBlocked
      <4> QED
        BY <3>2, <4>1, UnblockedIs DEF ListBlocked, Job
    <3>3. CASE PlanAdmission
      BY <1>2, <3>3 DEF PlanAdmission, Job
    <3>4. CASE BeginTick \/ ReadInFlight \/ ListReady
      BY <3>4 DEF BeginTick, ReadInFlight, ListReady
    <3> QED
      BY <2>3, <3>1, <3>2, <3>3, <3>4 DEF Turns
  <2> QED
    BY <2>1, <2>2, <2>3 DEF Moves, TickMoves
<1> QED
  BY <1>1, <1>2 DEF WritersInv

\* Rows, dispatches, the tick and the running functions have their types, whatever the
\* handlers of storage.ts and the daemon do to them.
THEOREM BacklogTypeCorrect == Spec => []BacklogTypeOK
<1>1. Init => BacklogTypeOK /\ WritersInv
  BY TypeInit, WritersInit
<1>2. BacklogTypeOK /\ WritersInv /\ [Next]_vars => (BacklogTypeOK /\ WritersInv)'
  BY NextMoves, TypeKeeps, WritersKeep
<1> QED
  BY <1>1, <1>2, PTL DEF Spec

--------------------------------------------------------------------------------
(* The lanes                                                                  *)

LEMMA IsUnrecorded ==
    ASSUME NEW i
    PROVE  i \in Unrecorded <=> \E k \in calls : k.op = "record" /\ k.id = i
BY DEF Unrecorded

LEMMA ExclusivePart ==
    ASSUME NEW S \in SUBSET Items, NEW T \in SUBSET S, Exclusive(S)
    PROVE  Exclusive(T)
<1>1. IsFiniteSet(S)
  BY ItemsAssumption, FS_Subset
<1>2. IsFiniteSet(T) /\ Cardinality(T) \in Nat /\ Cardinality(S) \in Nat
      /\ Cardinality(T) <= Cardinality(S)
  BY <1>1, FS_Subset, FS_CardinalityType
<1> QED
  BY <1>2, LimitAssumption DEF Exclusive

\* A batch that fits next to what the tick counted.
LEMMA ExclusiveBatch ==
    ASSUME NEW H \in SUBSET Items, NEW batch \in SUBSET Items, Exclusive(H),
           tick.held = H, Fits(batch)
    PROVE  Exclusive(H \cup batch)
<1>1. IsFiniteSet(H) /\ IsFiniteSet(batch)
  BY ItemsAssumption, FS_Subset
<1>2. /\ Cardinality(H) \in Nat /\ Cardinality(batch) \in Nat
      /\ Cardinality(H \cap batch) \in Nat
      /\ Cardinality(H \cup batch)
            = Cardinality(H) + Cardinality(batch) - Cardinality(H \cap batch)
  BY <1>1, FS_Union, FS_CardinalityType, FS_Intersection
<1>3. Cardinality(H \cup batch) <= MaxInFlight
  <2>1. CASE batch = {}
    BY <2>1 DEF Exclusive
  <2>2. CASE batch # {}
    BY <1>2, <2>2, LimitAssumption DEF Fits
  <2> QED
    BY <2>1, <2>2
<1>4. ASSUME NEW i \in H \cup batch, NEW n \in H \cup batch, i # n
      PROVE  Disjoint(i, n)
  <2>1. Disjoint(i, n) <=> Disjoint(n, i)
    BY DEF Disjoint
  <2> QED
    BY <1>4, <2>1 DEF Exclusive, Fits
<1> QED
  BY <1>3, <1>4 DEF Exclusive

LEMMA CommittedIs ==
    ASSUME BacklogTypeOK
    PROVE  Committed \in SUBSET Items /\ InFlight \in SUBSET Items
BY DEF BacklogTypeOK, Committed, InFlight, Unrecorded, Calls, Ids, Ticks, Jobs

\* Nothing is put in flight that was not committed.
LEMMA InFlightMoves ==
    ASSUME BacklogTypeOK, Moves
    PROVE  InFlight' \subseteq InFlight \cup Unrecorded
BY IsUnrecorded DEF Moves, RowsMove, RowMoves, InFlight

LEMMA LanesInit == ASSUME Init PROVE LanesIInv
<1>1. InFlight = {}
  BY DEF Init, NewRow, Row, InFlight
<1>2. Committed = {}
  BY <1>1 DEF Init, NoTick, Committed, Unrecorded
<1>3. Exclusive({})
  BY FS_EmptySet, LimitAssumption DEF Exclusive
<1> QED
  BY <1>2, <1>3, WritersInit DEF LanesIInv, Init, NoTick

LEMMA LanesKeep ==
    ASSUME BacklogTypeOK, LanesIInv, Moves
    PROVE  LanesIInv'
<1>1. WritersInv /\ WritersInv' /\ BacklogTypeOK'
  BY WritersKeep, TypeKeeps DEF LanesIInv
<1>2. Exclusive(Committed) /\ Committed \in SUBSET Items /\ InFlight \in SUBSET Items
  BY CommittedIs DEF LanesIInv
<1>3. tick.at # "fire" => Unrecorded = {}
  BY <1>1 DEF WritersInv, Unrecorded
<1>4. CASE ~Turns
  <2>1. Committed' \subseteq Committed
    <3>1. ASSUME NEW i \in Unrecorded' PROVE i \in Committed
      <4>1. PICK k \in calls' : k.op = "record" /\ k.id = i
        BY DEF Unrecorded
      <4>2. CASE k \in calls
        BY <4>1, <4>2 DEF Unrecorded, Committed
      <4>3. CASE k \notin calls
        BY <4>1, <4>3 DEF Moves, CallsMove, Begun, Committed, Ids
      <4> QED
        BY <4>2, <4>3
    <3>2. ASSUME tick'.at = "fire", NEW i \in Ids(tick'.jobs) PROVE i \in Committed
      BY <1>4, <3>2 DEF Moves, TickMoves, NoTick, Committed, Ids
    <3> QED
      BY <3>1, <3>2, InFlightMoves DEF Committed
  <2>2. Exclusive(Committed')
    BY <1>2, <2>1, ExclusivePart
  <2>3. tick'.at \in {"promote", "release", "plan"} =>
           InFlight' \subseteq tick'.held /\ Exclusive(tick'.held)
    BY <1>3, <1>4, InFlightMoves DEF Moves, TickMoves, NoTick, LanesIInv
  <2> QED
    BY <1>1, <2>2, <2>3 DEF LanesIInv, Exclusive, Disjoint
<1>5. CASE Turns
  <2>1. InFlight' = InFlight /\ Unrecorded' = Unrecorded
    BY <1>5 DEF Turns, InFlight, Unrecorded
  <2>2. tick.at # "fire"
    BY <1>5 DEF Turns, BeginTick, ResolveDispatches, ReadInFlight, ListBlocked,
                ListReady, PlanAdmission
  <2>3. CASE PlanAdmission
    <3>1. PICK batch \in SUBSET {j.id : j \in {k \in tick.jobs : Admissible(k)}} :
             Fits(batch) /\ tick' = [at |-> "fire", held |-> {},
                                     jobs |-> {Job(i, Blank) : i \in batch}]
      BY <2>3 DEF PlanAdmission
    <3>2. batch \in SUBSET Items /\ Ids(tick'.jobs) \subseteq batch
      <4>1. \A j \in tick.jobs : j.id \in Items
        BY DEF BacklogTypeOK, Ticks, Jobs
      <4>2. \A j \in tick'.jobs : j.id \in batch
        BY <3>1 DEF Job
      <4> QED
        BY <3>1, <4>1, <4>2 DEF Ids
    <3>3. tick.held \in SUBSET Items /\ InFlight \subseteq tick.held /\ Exclusive(tick.held)
      BY <2>3 DEF PlanAdmission, LanesIInv, BacklogTypeOK, Ticks
    <3>4. Exclusive(tick.held \cup batch)
      BY <3>1, <3>2, <3>3, ExclusiveBatch
    <3>5. Committed' \subseteq tick.held \cup batch
      BY <1>3, <2>1, <2>2, <3>1, <3>2, <3>3 DEF Committed
    <3>6. Exclusive(Committed')
      BY <3>2, <3>3, <3>4, <3>5, ExclusivePart
    <3> QED
      BY <1>1, <3>1, <3>6 DEF LanesIInv, Exclusive, Disjoint
  <2>4. CASE ~PlanAdmission
    <3>1. tick'.at # "fire"
      BY <1>5, <2>4 DEF Turns, BeginTick, ResolveDispatches, ReadInFlight, ListBlocked,
                        ListReady
    <3>2. Committed' \subseteq Committed
      BY <2>1, <3>1 DEF Committed
    <3>3. Exclusive(Committed') /\ Exclusive(InFlight)
      BY <1>2, <3>2, ExclusivePart DEF Committed
    <3>4. tick'.at \in {"promote", "release", "plan"} =>
             InFlight' \subseteq tick'.held /\ Exclusive(tick'.held)
      BY <1>5, <2>1, <2>4, <3>3 DEF Turns, BeginTick, ResolveDispatches, ReadInFlight,
                                  ListBlocked, ListReady, LanesIInv
    <3> QED
      BY <1>1, <3>3, <3>4 DEF LanesIInv, Exclusive, Disjoint
  <2> QED
    BY <2>3, <2>4
<1> QED
  BY <1>4, <1>5

\* However the handlers interleave with the daemon, and wherever it is stopped between
\* the enqueue and the write of in_flight (daemon.ts), no two items in flight write to
\* the same place and no more than max_in_flight are.
THEOREM LanesAreExclusive == Spec => []LanesExclusive
<1>1. Init => BacklogTypeOK /\ LanesIInv
  BY TypeInit, LanesInit
<1>2. BacklogTypeOK /\ LanesIInv /\ [Next]_vars => (BacklogTypeOK /\ LanesIInv)'
  BY NextMoves, TypeKeeps, LanesKeep DEF LanesIInv
<1>3. BacklogTypeOK /\ LanesIInv => LanesExclusive
  <2> SUFFICES ASSUME BacklogTypeOK, LanesIInv PROVE LanesExclusive
    OBVIOUS
  <2>1. Exclusive(InFlight)
    BY CommittedIs, ExclusivePart DEF LanesIInv, Committed
  <2> QED
    BY <2>1 DEF LanesExclusive, Exclusive
<1> QED
  BY <1>1, <1>2, <1>3, PTL DEF Spec

--------------------------------------------------------------------------------
(* Second fires                                                               *)

\* A dispatch of i is made in this step.
New(i) == \E p \in DOMAIN dispatch' \ DOMAIN dispatch : dispatch'[p].of = i

LEMMA FreeKeeps ==
    ASSUME Moves, NEW i, Free(i), ~New(i)
    PROVE  Free(i)'
BY DEF Moves, RowsMove, PastGrows, DispatchesMove, Free, Given, New

\* What is fired is a job, which goes, and is about to be recorded.
LEMMA NewIs ==
    ASSUME Moves, NEW i, New(i)
    PROVE  /\ tick.at = "fire" /\ tick'.at = "fire" /\ i \in Unrecorded'
           /\ \E j \in tick.jobs : j.id = i /\ tick'.jobs = tick.jobs \ {j}
BY DEF Moves, DispatchesMove, New

LEMMA RefireInit == ASSUME Init PROVE RefireIInv
<1>1. \A i \in Items : item[i].retry_safe = FALSE /\ Free(i)
  BY DEF Init, NewRow, Row, Free, Given
<1>2. RefireNeedsApproval /\ calls = {} /\ tick.jobs = {}
  BY DEF Init, RefireNeedsApproval, NoTick
<1> QED
  BY <1>1, <1>2, WritersInit DEF RefireIInv

LEMMA RefireKeeps ==
    ASSUME BacklogTypeOK, RefireIInv, Moves
    PROVE  RefireIInv'
<1>1. WritersInv /\ WritersInv'
  BY WritersKeep DEF RefireIInv
<1>2. past.excused \subseteq past'.excused
  BY DEF Moves, RowsMove, PastGrows
<1>3. RefireNeedsApproval'
  <2> SUFFICES ASSUME NEW p \in DOMAIN dispatch', NEW q \in DOMAIN dispatch', p # q,
                      dispatch'[p].of = dispatch'[q].of
               PROVE  dispatch'[p].of \in past'.excused
    BY DEF RefireNeedsApproval
  <2>1. CASE p \in DOMAIN dispatch /\ q \in DOMAIN dispatch
    BY <1>2, <2>1 DEF Moves, DispatchesMove, RefireIInv, RefireNeedsApproval
  <2>2. CASE p \notin DOMAIN dispatch \/ q \notin DOMAIN dispatch
    <3> DEFINE i == dispatch'[p].of
    <3>1. New(i)
      BY <2>2 DEF New
    <3>2. Given(i)
      BY <2>2 DEF Moves, DispatchesMove, Given
    <3>3. Free(i)
      BY <3>1, NewIs DEF RefireIInv
    <3> QED
      BY <1>2, <3>2, <3>3 DEF Free
  <2> QED
    BY <2>1, <2>2
<1>4. ASSUME NEW i \in Items
      PROVE  /\ item'[i].retry_safe => i \in past'.excused
             /\ item'[i].dispatch = None => Free(i)' \/ i \in Unrecorded'
  <2>1. RowMoves(i)
    BY DEF Moves, RowsMove
  <2>2. item'[i].retry_safe => i \in past'.excused
    BY <1>2, <2>1 DEF RowMoves, RefireIInv
  <2>3. ASSUME item'[i].dispatch = None PROVE Free(i)' \/ i \in Unrecorded'
    <3>1. item[i].dispatch = None
      BY <2>1, <2>3 DEF RowMoves, RefireIInv
    <3>2. CASE Free(i)
      BY <3>2, FreeKeeps, NewIs
    <3>3. CASE i \in Unrecorded
      <4>1. PICK k \in calls : k.op = "record" /\ k.id = i
        BY <3>3, IsUnrecorded
      <4>2. CASE k \in calls'
        BY <4>1, <4>2 DEF Unrecorded
      <4>3. CASE k \notin calls'
        <5>1. Ended(k) /\ k.row.dispatch # None
          BY <4>1, <4>3 DEF Moves, CallsMove, RefireIInv
        <5> QED
          BY <2>3, <4>1, <5>1 DEF Ended, Free
      <4> QED
        BY <4>2, <4>3
    <3> QED
      BY <3>1, <3>2, <3>3 DEF RefireIInv
  <2> QED
    BY <2>2, <2>3
<1>5. ASSUME NEW k \in calls', k.op = "record"
      PROVE  k.row.dispatch # None
  BY <1>5 DEF Moves, CallsMove, Begun, RefireIInv
<1>6. ASSUME NEW j \in tick'.jobs
      PROVE  /\ tick'.at = "plan" /\ (j.row.dispatch # None => j.row.retry_safe) => Free(j.id)'
             /\ tick'.at = "fire" => Free(j.id)'
  <2>1. CASE tick'.at = tick.at /\ tick'.jobs \subseteq tick.jobs
    <3>1. CASE ~New(j.id)
      BY <1>6, <2>1, <3>1, FreeKeeps DEF RefireIInv
    <3>2. CASE New(j.id)
      <4>1. PICK l \in tick.jobs : l.id = j.id /\ tick'.jobs = tick.jobs \ {l}
        BY <3>2, NewIs
      <4>2. tick.at = "fire"
        BY <3>2, NewIs
      <4>3. j.row = Blank /\ l.row = Blank /\ j \in Jobs /\ l \in Jobs
        BY <1>1, <1>6, <2>1, <4>2 DEF WritersInv, BacklogTypeOK, Ticks
      <4>4. j = l
        BY <4>1, <4>3 DEF Jobs
      <4> QED
        BY <1>6, <4>1, <4>4
    <3> QED
      BY <3>1, <3>2
  <2>2. CASE tick' = NoTick
    BY <1>6, <2>2 DEF NoTick
  <2>3. CASE Turns
    <3>1. \A i : Free(i)' <=> Free(i)
      BY <2>3 DEF Turns, Free, Given
    <3>2. CASE ListReady
      <4>1. PICK i \in Items : j = Job(i, item[i])
        BY <1>6, <3>2 DEF ListReady
      <4>2. j.id = i /\ j.row = item[i] /\ tick'.at = "plan"
        BY <3>2, <4>1 DEF Job, ListReady
      <4>3. i \notin Unrecorded
        BY <1>1, <3>2, IsUnrecorded DEF ListReady, WritersInv
      <4>4. item[i].dispatch = None \/ item[i].retry_safe => Free(i)
        BY <4>3 DEF RefireIInv, Free
      <4> QED
        BY <3>1, <4>2, <4>4
    <3>3. CASE PlanAdmission
      <4>1. PICK l \in tick.jobs : Admissible(l) /\ j.id = l.id
        BY <1>6, <3>3 DEF PlanAdmission, Job
      <4> QED
        BY <3>1, <3>3, <4>1 DEF PlanAdmission, Admissible, RefireIInv
    <3>4. CASE BeginTick \/ ResolveDispatches \/ ReadInFlight \/ ListBlocked
      BY <3>4 DEF BeginTick, ResolveDispatches, ReadInFlight, ListBlocked
    <3> QED
      BY <2>3, <3>2, <3>3, <3>4 DEF Turns
  <2> QED
    BY <2>1, <2>2, <2>3 DEF Moves, TickMoves
<1> QED
  BY <1>1, <1>3, <1>4, <1>5, <1>6 DEF RefireIInv

\* No promotion, cleared blocker, failed or reaped dispatch gives an item to the queue a
\* second time, unless somebody called that safe or the record of the first was lost.
THEOREM RefiresAreApproved == Spec => []RefireNeedsApproval
<1>1. Init => BacklogTypeOK /\ RefireIInv
  BY TypeInit, RefireInit
<1>2. BacklogTypeOK /\ RefireIInv /\ [Next]_vars => (BacklogTypeOK /\ RefireIInv)'
  BY NextMoves, TypeKeeps, RefireKeeps DEF RefireIInv
<1>3. RefireIInv => RefireNeedsApproval
  BY DEF RefireIInv
<1> QED
  BY <1>1, <1>2, <1>3, PTL DEF Spec

--------------------------------------------------------------------------------
(* Dependencies                                                               *)

LEMMA LandedStays ==
    ASSUME Moves, NEW n
    PROVE  (Landed(n) => Landed(n)') /\ (DoneOf(n) => DoneOf(n)')
BY DEF Moves, RowsMove, PastGrows, DispatchesMove, Landed, DoneOf

LEMMA OwnStays ==
    ASSUME Moves, NEW i, NEW p, Own(i, p)
    PROVE  p # None => p \in DOMAIN dispatch' /\ dispatch'[p].of = i
BY DEF Moves, DispatchesMove, Own

LEMMA LandedButStays ==
    ASSUME Moves, NEW i, NEW w, LandedBut(i, w)
    PROVE  \A n \in Needs[i] : n \in w \/ Landed(n)'
BY LandedStays DEF LandedBut

\* A terminal dependency has landed.
LEMMA TerminalLanded ==
    ASSUME LandedIInv, NEW i \in Items, NEW n \in Needs[i], n \in Items, Terminal(n)
    PROVE  Landed(n)
<1>1. n \in Needed
  BY DEF Needed
<1> QED
  BY <1>1 DEF LandedIInv, Terminal, Landed

LEMMA LandedInit == ASSUME Init PROVE LandedIInv
<1>1. ASSUME NEW i \in Items
      PROVE  /\ item[i].dispatch = None /\ item[i].waits = Needs[i]
             /\ item[i].state \notin {"done", "superseded"}
  BY DEF Init, NewRow, Row
<1>2. DependenciesLanded /\ calls = {} /\ tick.jobs = {}
  BY DEF Init, DependenciesLanded, NoTick
<1> QED
  BY <1>1, <1>2, WritersInit DEF LandedIInv, Own, LandedBut

LEMMA LandedKeeps ==
    ASSUME BacklogTypeOK, LandedIInv, Moves
    PROVE  LandedIInv'
<1>1. WritersInv /\ WritersInv'
  BY WritersKeep DEF LandedIInv
<1>2. \A i \in Items : Needs[i] \in SUBSET Items
  BY NeedsAssumption
<1>3. DependenciesLanded'
  <2> SUFFICES ASSUME NEW p \in DOMAIN dispatch', NEW n \in Needs[dispatch'[p].of]
               PROVE  Landed(n)'
    BY DEF DependenciesLanded, Landed, DoneOf
  <2>1. Landed(n)
    <3>1. CASE p \in DOMAIN dispatch
      BY <3>1 DEF Moves, DispatchesMove, LandedIInv, DependenciesLanded, Landed, DoneOf
    <3>2. CASE p \notin DOMAIN dispatch
      <4>1. New(dispatch'[p].of)
        BY <3>2 DEF New
      <4>2. LandedBut(dispatch'[p].of, {})
        BY <4>1, NewIs DEF LandedIInv
      <4> QED
        BY <4>2 DEF LandedBut
    <3> QED
      BY <3>1, <3>2
  <2> QED
    BY <2>1, LandedStays
<1>4. ASSUME NEW i \in Items
      PROVE  /\ Own(i, item[i].dispatch)'
             /\ LandedBut(i, item[i].waits)'
             /\ item'[i].state = "done" => DoneOf(i)'
             /\ item'[i].state = "superseded" /\ i \in Needed => i \in past'.superseded
  <2>1. RowMoves(i)
    BY DEF Moves, RowsMove
  <2>2. Own(i, item'[i].dispatch)
    BY <2>1 DEF RowMoves, LandedIInv
  <2>3. LandedBut(i, item'[i].waits)
    BY <2>1 DEF RowMoves, LandedIInv
  <2>4. item'[i].state = "done" => DoneOf(i)
    <3>1. item[i].dispatch # None /\ dispatch[item[i].dispatch].status = "done" => DoneOf(i)
      BY DEF LandedIInv, Own, DoneOf
    <3> QED
      BY <2>1, <3>1 DEF RowMoves, LandedIInv
  <2>5. item'[i].state = "superseded" /\ i \in Needed => i \in past'.superseded
    BY <2>1 DEF RowMoves, LandedIInv, Moves, RowsMove, PastGrows
  <2> QED
    BY <2>2, <2>3, <2>4, <2>5, OwnStays, LandedButStays, LandedStays DEF Own, LandedBut
<1>5. ASSUME NEW k \in calls'
      PROVE  /\ k.op = "record" => Own(k.id, k.row.dispatch)'
             /\ k.op = "clear" => LandedBut(k.id, k.row.waits)'
  <2>1. CASE k \in calls
    BY <2>1, OwnStays, LandedButStays DEF LandedIInv, Own, LandedBut
  <2>2. CASE k \notin calls
    <3>1. Begun(k) /\ k.id \in Items
      BY <1>5, <2>2 DEF Moves, CallsMove, Calls
    <3>2. k.op = "record" => Own(k.id, k.row.dispatch)'
      BY <3>1 DEF Begun, Own
    <3>3. ASSUME k.op = "clear" PROVE LandedBut(k.id, k.row.waits)
      <4>1. PICK n \in item[k.id].waits : /\ Terminal(n)
                                         /\ k.row.waits = item[k.id].waits \ {n}
        BY <3>1, <3>3 DEF Begun
      <4>2. \A m \in Needs[k.id] : m \in item[k.id].waits \/ Landed(m)
        BY <3>1 DEF LandedIInv, LandedBut
      <4>3. n \in Needs[k.id] => Landed(n)
        BY <1>2, <3>1, <4>1, TerminalLanded
      <4> QED
        BY <4>1, <4>2, <4>3 DEF LandedBut
    <3> QED
      BY <3>2, <3>3, LandedButStays DEF LandedBut
  <2> QED
    BY <2>1, <2>2
<1>6. ASSUME NEW j \in tick'.jobs
      PROVE  /\ tick'.at = "list" => Own(j.id, j.row.dispatch)
             /\ tick'.at = "settle" /\ j.row.state = "done" => DoneOf(j.id)
             /\ tick'.at \in {"release", "plan"} => LandedBut(j.id, j.row.waits)
             /\ tick'.at = "fire" => LandedBut(j.id, {})
  <2>1. CASE tick'.at = tick.at /\ tick'.jobs \subseteq tick.jobs
    BY <1>6, <2>1 DEF LandedIInv
  <2>2. CASE tick' = NoTick
    BY <1>6, <2>2 DEF NoTick
  <2>3. CASE BeginTick
    <3>1. PICK i \in Items : j = Job(i, Listed(item[i]))
      BY <1>6, <2>3 DEF BeginTick, InFlight
    <3>2. j.id = i /\ j.row.dispatch = item[i].dispatch
      BY <3>1 DEF Job, Listed, Row
    <3> QED
      BY <2>3, <3>2 DEF BeginTick, LandedIInv
  <2>4. CASE ResolveDispatches
    <3>1. PICK l \in tick.jobs : j = Job(l.id, Into(Blank, Verdict(l.row)))
      BY <1>6, <2>4 DEF ResolveDispatches
    <3>2. j.id = l.id /\ j.row.state = Verdict(l.row)
      BY <3>1, BlankIs, IntoIs, VerdictIs DEF Job, States
    <3>3. Own(l.id, l.row.dispatch)
      BY <2>4 DEF ResolveDispatches, LandedIInv
    <3>4. Status(l.row.dispatch) = "done" => DoneOf(l.id)
      BY <3>3 DEF Status, Own, DoneOf
    <3> QED
      BY <2>4, <3>2, <3>4, VerdictIs DEF ResolveDispatches
  <2>5. CASE ReadInFlight
    BY <2>5 DEF ReadInFlight
  <2>6. CASE ListBlocked
    <3>1. PICK i \in Items : j = Job(i, Unblocked(i))
      BY <1>6, <2>6 DEF ListBlocked
    <3>2. j.id = i /\ j.row.waits = {n \in item[i].waits : ~Terminal(n)}
      BY <3>1, UnblockedIs DEF Job
    <3>3. \A n \in Needs[i] : Terminal(n) => Landed(n)
      BY <1>2, TerminalLanded
    <3>4. LandedBut(i, {n \in item[i].waits : ~Terminal(n)})
      BY <3>3 DEF LandedIInv, LandedBut
    <3> QED
      BY <2>6, <3>2, <3>4 DEF ListBlocked
  <2>7. CASE ListReady
    <3>1. PICK i \in Items : j = Job(i, item[i])
      BY <1>6, <2>7 DEF ListReady
    <3>2. j.id = i /\ j.row = item[i]
      BY <3>1 DEF Job
    <3> QED
      BY <2>7, <3>2 DEF ListReady, LandedIInv
  <2>8. CASE PlanAdmission
    <3>1. PICK l \in tick.jobs : Admissible(l) /\ j.id = l.id
      BY <1>6, <2>8 DEF PlanAdmission, Job
    <3>2. l.id \in Items /\ LandedBut(l.id, l.row.waits)
      BY <2>8 DEF PlanAdmission, LandedIInv, BacklogTypeOK, Ticks, Jobs
    <3>3. \A n \in Needs[l.id] : n \in l.row.waits => Landed(n)
      <4> SUFFICES ASSUME NEW n \in Needs[l.id], n \in l.row.waits PROVE Landed(n)
        OBVIOUS
      <4>1. n \in Items /\ Terminal(n)
        BY <1>2, <3>1, <3>2 DEF Admissible, Terminal
      <4> QED
        BY <3>2, <4>1, TerminalLanded
    <3> QED
      BY <2>8, <3>1, <3>2, <3>3 DEF PlanAdmission, LandedBut
  <2> QED
    BY <2>1, <2>2, <2>3, <2>4, <2>5, <2>6, <2>7, <2>8 DEF Moves, TickMoves, Turns
<1>7. ASSUME NEW j \in tick'.jobs
      PROVE  /\ tick'.at = "list" => Own(j.id, j.row.dispatch)'
             /\ tick'.at = "settle" /\ j.row.state = "done" => DoneOf(j.id)'
             /\ tick'.at \in {"release", "plan"} => LandedBut(j.id, j.row.waits)'
             /\ tick'.at = "fire" => LandedBut(j.id, {})'
  BY <1>6, <1>7, OwnStays, LandedButStays, LandedStays DEF Own, LandedBut
<1> QED
  BY <1>1, <1>3, <1>4, <1>5, <1>7 DEF LandedIInv

\* The daemon and the handlers that clear or reconcile dependencies never give an item to
\* the queue before each item it was created to wait for landed or was superseded.
THEOREM DependenciesAreLanded == Spec => []DependenciesLanded
<1>1. Init => BacklogTypeOK /\ LandedIInv
  BY TypeInit, LandedInit
<1>2. BacklogTypeOK /\ LandedIInv /\ [Next]_vars => (BacklogTypeOK /\ LandedIInv)'
  BY NextMoves, TypeKeeps, LandedKeeps DEF LandedIInv
<1>3. LandedIInv => DependenciesLanded
  BY DEF LandedIInv
<1> QED
  BY <1>1, <1>2, <1>3, PTL DEF Spec

================================================================================
