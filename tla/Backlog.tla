-------------------------------- MODULE Backlog --------------------------------
(***************************************************************************)
(* Continuous orchestration: a backlog of work items, and the daemon whose *)
(* tick settles the items in flight, promotes and releases others, admits  *)
(* ready ones within its limit and its write scopes, and hands each to the *)
(* dispatch queue.  The queue is reduced to what the daemon reads of it.   *)
(*                                                                         *)
(* A tick works from rows it listed earlier.  Operators' handlers run      *)
(* between its steps; several of them read a row and then update it with   *)
(* nothing but its id in the WHERE clause.  The manager may stop anywhere. *)
(***************************************************************************)
EXTENDS Naturals, Sequences, FiniteSets

CONSTANTS
    Items,          \* backlog items
    Scopes,         \* what an item may write to
    Scope,          \* write_scope of each item
    Needs,          \* the dependencies each item is created with
    MaxInFlight,    \* max_in_flight
    Operators,      \* handlers that may run at the same time
    Daemon,         \* the daemon, which calls some of the same functions
    DispatchBound   \* dispatches in a run of the model

ASSUME ItemsAssumption     == IsFiniteSet(Items)
ASSUME ScopeAssumption     == Scope \in [Items -> SUBSET Scopes]
ASSUME NeedsAssumption     == Needs \in [Items -> SUBSET Items]
ASSUME LimitAssumption     == MaxInFlight \in Nat
ASSUME DaemonAssumption    == Daemon \notin Operators
ASSUME DispatchesAssumption == DispatchBound \in Nat

VARIABLES
    item,       \* item[i]: the row of i in orchestration_backlog_item
    dispatch,   \* the dispatches made for items, in order
    tick,       \* the tick of the daemon
    calls,      \* functions that have read a row and not yet written it
    past        \* history: items whose refire was declared safe or whose dispatch the row
                \* lost, and items others waited for that were superseded

vars == <<item, dispatch, tick, calls, past>>

--------------------------------------------------------------------------------
(* State *)

\* needs_review stands for draft too; needs_chris_batch, waiting_window, failed and
\* cancelled are not written by the functions modelled.
States == {"needs_review", "blocked_dependency", "ready", "in_flight", "done",
           "superseded"}

None == 0   \* no dispatch

\* aged: updated_at is older than stale_in_flight_ms.
Rows == [state : States, dispatch : 0..DispatchBound, retry_safe : BOOLEAN,
         waits : SUBSET Items, aged : BOOLEAN]

\* active: queued, in_flight, bounced or needs_clarification.
Dispatches == [of : Items, status : {"active", "done", "failed"}]

\* A row as it was listed, or as it is to be written.
Jobs == [id : Items, row : Rows]

Job(i, r) == [id |-> i, row |-> r]

Row(state, p, safe, waits, aged) ==
    [state |-> state, dispatch |-> p, retry_safe |-> safe, waits |-> waits, aged |-> aged]

\* A row of which no column matters, or only the one that is set below.
Blank == Row("ready", None, FALSE, {}, FALSE)

Steps == {"rest", "list", "settle", "promote", "release", "plan", "fire"}

\* held: the items in flight when the tick counted them and their scopes.
Ticks == [at : Steps, jobs : SUBSET Jobs, held : SUBSET Items]

NoTick == [at |-> "rest", jobs |-> {}, held |-> {}]

Functions == {"promote", "clear", "record"}

Calls == [by : Operators \cup {Daemon}, op : Functions, id : Items, row : Rows]

Idle(c) == \A k \in calls : k.by # c

Histories == [excused : SUBSET Items, superseded : SUBSET Items]

Needed == UNION {Needs[i] : i \in Items}

NewRow(i, s) == Row(s, None, FALSE, Needs[i], FALSE)

\* The route inserts an item ready when the body says it is approved.
Init == /\ \E first \in [Items -> {"needs_review", "blocked_dependency", "ready"}] :
              item = [i \in Items |-> NewRow(i, first[i])]
        /\ dispatch = <<>>
        /\ tick = NoTick
        /\ calls = {}
        /\ past = [excused |-> {}, superseded |-> {}]

--------------------------------------------------------------------------------
(* The dispatch queue *)

Status(p) == IF p = None THEN "missing" ELSE dispatch[p].status

Active(i) == {p \in DOMAIN dispatch : dispatch[p].of = i /\ dispatch[p].status = "active"}

Turn(p, s) == /\ dispatch' = [dispatch EXCEPT ![p].status = s]
              /\ UNCHANGED <<item, tick, calls, past>>

EndDispatch(p) == /\ dispatch[p].status = "active"
                  /\ \E s \in {"done", "failed"} : Turn(p, s)

\* Recovery; the unique index keeps one active dispatch per dedup key.
Revive(p) == /\ dispatch[p].status = "failed"
             /\ Active(dispatch[p].of) = {}
             /\ Turn(p, "active")

\* The work of a failed dispatch is found to have landed.
Land(p) == /\ dispatch[p].status = "failed"
           /\ Turn(p, "done")

QueueStep == \E p \in DOMAIN dispatch : EndDispatch(p) \/ Revive(p) \/ Land(p)

--------------------------------------------------------------------------------
(* What the functions of storage.ts write, given the row as it is by then *)

Into(r, s) == Row(s, r.dispatch, r.retry_safe, r.waits, FALSE)

\* promoteToReady after its checks, and recordFleshOutcome with promote.
Promoted(r, k) == Row("ready", r.dispatch, r.retry_safe \/ k.row.retry_safe, r.waits, FALSE)

\* clearBacklogDependencyBlocker.
Cleared(r, k) == Row("ready", r.dispatch, r.retry_safe, k.row.waits, FALSE)

\* setItemState after a fire.
Recorded(r, k) == Row("in_flight", k.row.dispatch, r.retry_safe, r.waits, FALSE)

Written(k) ==
    LET r == item[k.id] IN
    CASE k.op = "promote" -> Promoted(r, k)
      [] k.op = "clear"   -> Cleared(r, k)
      [] k.op = "record"  -> Recorded(r, k)

Excuse(ids) == [past EXCEPT !.excused = @ \cup ids]

\* The second half of a function: its UPDATE.
Return(k) ==
    /\ item' = [item EXCEPT ![k.id] = Written(k)]
    /\ calls' = calls \ {k}
    /\ past' = IF item'[k.id].retry_safe THEN Excuse({k.id}) ELSE past
    /\ UNCHANGED <<dispatch, tick>>

--------------------------------------------------------------------------------
(* What they read first *)

Call(c, op, i, r) == calls' = calls \cup {[by |-> c, op |-> op, id |-> i, row |-> r]}

\* A row that was dispatched before needs retry_safe, given now or earlier.
Promotable(r, safe) == /\ r.state = "needs_review"
                       /\ r.dispatch # None => safe \/ r.retry_safe

Promote(c, i) ==
    \E safe \in BOOLEAN : /\ Promotable(item[i], safe)
                          /\ Call(c, "promote", i, [Blank EXCEPT !.retry_safe = safe])

Flesh(c, i) == /\ item[i].state = "needs_review"
               /\ Call(c, "promote", i, Blank)

\* A dependency whose work is done or was superseded.
Terminal(n) == item[n].state \in {"done", "superseded"}

ClearBlocker(c, i) ==
    /\ item[i].state \in {"ready", "blocked_dependency"}
    /\ \E n \in item[i].waits :
          /\ Terminal(n)
          /\ Call(c, "clear", i, [Blank EXCEPT !.waits = item[i].waits \ {n}])

\* The three functions above repeat nothing of their checks in the UPDATE.
Handler(c, i) == /\ Idle(c)
                 /\ Promote(c, i) \/ Flesh(c, i) \/ ClearBlocker(c, i)
                 /\ UNCHANGED <<item, dispatch, tick, past>>

\* A row that was dispatched, and may not be fired again.
Stale(i) == item[i].dispatch # None /\ ~item[i].retry_safe

Write(i, r) == /\ item' = [item EXCEPT ![i] = r]
               /\ UNCHANGED <<dispatch, tick, calls>>

Supersede(i) ==
    /\ Write(i, Row("superseded", item[i].dispatch, FALSE, item[i].waits, FALSE))
    /\ past' = [past EXCEPT !.superseded = @ \cup ({i} \cap Needed)]

\* reconcileStaleAlreadyDispatchedReadyRows, which the tick calls as well, and
\* closeStaleDuplicateBacklogRow.  A failure worth a retry is left alone.  The UPDATE
\* repeats the checks of the row, and what the dispatch does meanwhile changes no row.
CloseStale(i) ==
    /\ item[i].state \in {"ready", "needs_review"}
    /\ Stale(i)
    /\ \/ /\ Status(item[i].dispatch) = "done"
          /\ Write(i, Into(item[i], "done")) /\ UNCHANGED past
       \/ Status(item[i].dispatch) = "failed" /\ Supersede(i)

\* markFailedDuplicateDispatchRetrySafe, guarded in the same way.
MarkRetrySafe(i) ==
    /\ item[i].state = "ready"
    /\ Stale(i)
    /\ Status(item[i].dispatch) = "failed"
    /\ Write(i, [item[i] EXCEPT !.retry_safe = TRUE])
    /\ past' = Excuse({i})

\* reconcileOfflineSupersededReadyRow.
SupersedeOffline(i) == item[i].state = "ready" /\ Supersede(i)

\* The route looks at nothing.
Reject(i) == Write(i, Into(item[i], "needs_review")) /\ UNCHANGED past

--------------------------------------------------------------------------------
(* The tick: what is in flight *)

InFlight == {i \in Items : item[i].state = "in_flight"}

Listed(r) == Row("in_flight", r.dispatch, FALSE, {}, r.aged)

\* runTick coalesces: one tick at a time.
BeginTick ==
    /\ tick.at = "rest"
    /\ tick' = [at |-> "list", jobs |-> {Job(i, Listed(item[i])) : i \in InFlight},
                held |-> {}]
    /\ UNCHANGED <<item, dispatch, calls, past>>

\* Mutant of Verdict: only a dispatch that cannot be found is given up.
VerdictOfMissing(r) ==
    CASE Status(r.dispatch) = "done"             -> "done"
      [] Status(r.dispatch) = "failed"           -> "needs_review"
      [] Status(r.dispatch) = "missing" /\ r.aged -> "needs_review"
      [] OTHER                                   -> "in_flight"

\* Mutant of Verdict: any end of the dispatch closes the item.
VerdictOfEnded(r) ==
    CASE Status(r.dispatch) \in {"done", "failed"} -> "done"
      [] Status(r.dispatch) = "active" /\ r.aged   -> "needs_review"
      [] OTHER                                     -> "in_flight"

\* Mutant of Verdict: the dispatch's status becomes the item's.
VerdictCopied(r) == IF Status(r.dispatch) \in {"done", "failed"}
                    THEN Status(r.dispatch) ELSE "in_flight"

Verdict(r) ==
    CASE Status(r.dispatch) = "done"   -> "done"
      [] Status(r.dispatch) = "failed" -> "needs_review"
      [] OTHER -> IF r.aged THEN "needs_review" ELSE "in_flight"

\* The statuses of the listed dispatches are read together.
ResolveDispatches ==
    /\ tick.at = "list"
    /\ LET ended == {j \in tick.jobs : Verdict(j.row) # "in_flight"}
       IN tick' = [at |-> "settle", held |-> {},
                   jobs |-> {Job(j.id, Into(Blank, Verdict(j.row))) : j \in ended}]
    /\ UNCHANGED <<item, dispatch, calls, past>>

\* setItemState writes whatever the row has become.
Settle(j) ==
    /\ tick.at = "settle"
    /\ item' = [item EXCEPT ![j.id] = Into(@, j.row.state)]
    /\ tick' = [tick EXCEPT !.jobs = @ \ {j}]
    /\ UNCHANGED <<dispatch, calls, past>>

--------------------------------------------------------------------------------
(* The tick: filling the ready pool *)

\* autoPromoteRejections, as far as it reads the modelled columns.
AutoPromotable(r) == Promotable(r, FALSE) /\ r.waits = {}

\* What is in flight is counted, then the candidates are listed; floors, lanes, risk
\* and confidence choose among them.  Each is read again before it is promoted.
ReadInFlight ==
    /\ tick.at = "settle" /\ tick.jobs = {}
    /\ \E chosen \in SUBSET {i \in Items : AutoPromotable(item[i])} :
          tick' = [at |-> "promote", held |-> InFlight,
                   jobs |-> {Job(i, Blank) : i \in chosen}]
    /\ UNCHANGED <<item, dispatch, calls, past>>

\* promoteToReady reads the row again and refuses it if it has moved.
AutoPromote(j) ==
    /\ tick.at = "promote" /\ Idle(Daemon)
    /\ IF Promotable(item[j.id], FALSE)
       THEN Call(Daemon, "promote", j.id, Blank)
       ELSE UNCHANGED calls
    /\ tick' = [tick EXCEPT !.jobs = @ \ {j}]
    /\ UNCHANGED <<item, dispatch, past>>

\* The row of i without the dependencies that are terminal.
Unblocked(i) ==
    LET left == {n \in item[i].waits : ~Terminal(n)} IN
    Row(IF left = {} THEN "ready" ELSE "blocked_dependency", None, FALSE, left, FALSE)

ListBlocked ==
    /\ tick.at = "promote" /\ tick.jobs = {} /\ Idle(Daemon)
    /\ LET freed == {i \in Items : /\ item[i].state = "blocked_dependency"
                                   /\ \E n \in item[i].waits : Terminal(n)}
       IN tick' = [at |-> "release", jobs |-> {Job(i, Unblocked(i)) : i \in freed},
                   held |-> tick.held]
    /\ UNCHANGED <<item, dispatch, calls, past>>

\* reconcileTerminalBacklogDependencies, guarded by the state.
Release(j) ==
    /\ tick.at = "release"
    /\ item' = IF item[j.id].state = "blocked_dependency"
               THEN [item EXCEPT ![j.id] = Row(j.row.state, @.dispatch, @.retry_safe,
                                               j.row.waits, FALSE)]
               ELSE item
    /\ tick' = [tick EXCEPT !.jobs = @ \ {j}]
    /\ UNCHANGED <<dispatch, calls, past>>

--------------------------------------------------------------------------------
(* The tick: admission *)

ListReady ==
    /\ tick.at = "release" /\ tick.jobs = {}
    /\ LET ready == {i \in Items : item[i].state = "ready"}
       IN tick' = [at |-> "plan", jobs |-> {Job(i, item[i]) : i \in ready},
                   held |-> tick.held]
    /\ UNCHANGED <<item, dispatch, calls, past>>

\* Mutant of Admissible: a row that was dispatched before is admitted again.
AdmissibleAgain(j) == \A n \in j.row.waits : item[n].state = "done"

Admissible(j) == /\ j.row.dispatch # None => j.row.retry_safe
                 /\ \A n \in j.row.waits : item[n].state = "done"

Disjoint(i, n) == Scope[i] \cap Scope[n] = {}

\* Mutant of Fits: the lanes taken by the batch itself are not locked.
FitsLanesHeld(batch) ==
    /\ Cardinality(tick.held) + Cardinality(batch) <= MaxInFlight
    /\ \A i \in batch : \A n \in tick.held : Disjoint(i, n)

\* The items fit in what was free when the tick counted.
Fits(batch) ==
    /\ batch # {} => Cardinality(tick.held) + Cardinality(batch) <= MaxInFlight
    /\ \A i \in batch : \A n \in tick.held : Disjoint(i, n)
    /\ \A i, n \in batch : i # n => Disjoint(i, n)

\* planAdmission: modes, usage, health, order and limits choose which.
PlanAdmission ==
    /\ tick.at = "plan"
    /\ \E batch \in SUBSET {j.id : j \in {k \in tick.jobs : Admissible(k)}} :
          /\ Fits(batch)
          /\ tick' = [at |-> "fire", held |-> {}, jobs |-> {Job(i, Blank) : i \in batch}]
    /\ UNCHANGED <<item, dispatch, calls, past>>

\* enqueue returns the active dispatch of the item's dedup key if there is one.
Enqueued(i, p) ==
    \/ p \in Active(i) /\ UNCHANGED dispatch
    \/ /\ Active(i) = {}
       /\ Len(dispatch) < DispatchBound
       /\ p = Len(dispatch) + 1
       /\ dispatch' = Append(dispatch, [of |-> i, status |-> "active"])

Fire(j) ==
    /\ tick.at = "fire" /\ Idle(Daemon)
    /\ \E p \in 1..DispatchBound :
          /\ Enqueued(j.id, p)
          /\ Call(Daemon, "record", j.id, [Blank EXCEPT !.dispatch = p])
    /\ tick' = [tick EXCEPT !.jobs = @ \ {j}]
    /\ UNCHANGED <<item, past>>

EnqueueFails(j) ==
    /\ tick.at = "fire" /\ Idle(Daemon)
    /\ tick' = [tick EXCEPT !.jobs = @ \ {j}]
    /\ UNCHANGED <<item, dispatch, calls, past>>

\* The dispatch exists, and the row does not know it.
RecordFails(k) ==
    /\ k.op = "record"
    /\ calls' = calls \ {k}
    /\ past' = Excuse({k.id})
    /\ UNCHANGED <<item, dispatch, tick>>

EndTick ==
    /\ tick.at = "fire" /\ tick.jobs = {} /\ Idle(Daemon)
    /\ tick' = NoTick
    /\ UNCHANGED <<item, dispatch, calls, past>>

--------------------------------------------------------------------------------

JobStep(j) == \/ Settle(j) \/ AutoPromote(j) \/ Release(j) \/ Fire(j) \/ EnqueueFails(j)

AutoReturns(k) == k.by = Daemon /\ (Return(k) \/ RecordFails(k))

TickStep == \/ BeginTick \/ ResolveDispatches \/ ReadInFlight
            \/ ListBlocked \/ ListReady \/ PlanAdmission \/ EndTick
            \/ \E j \in tick.jobs : JobStep(j)
            \/ \E k \in calls : AutoReturns(k)

OperatorReturns(k) == k.by # Daemon /\ Return(k)

OperatorStep == \/ \E c \in Operators, i \in Items : Handler(c, i)
                \/ \E k \in calls : OperatorReturns(k)
                \/ \E i \in Items : CloseStale(i) \/ MarkRetrySafe(i)
                                    \/ SupersedeOffline(i) \/ Reject(i)

Age(i) == /\ item[i].state = "in_flight" /\ ~item[i].aged
          /\ item' = [item EXCEPT ![i].aged = TRUE]
          /\ UNCHANGED <<dispatch, tick, calls, past>>

Unrecorded == {k.id : k \in {c \in calls : c.op = "record"}}

RestartManager == /\ tick' = NoTick
                  /\ calls' = {}
                  /\ past' = Excuse(Unrecorded)
                  /\ UNCHANGED <<item, dispatch>>

Next == \/ QueueStep \/ TickStep \/ OperatorStep
        \/ \E i \in Items : Age(i)
        \/ RestartManager

Spec == Init /\ [][Next]_vars

--------------------------------------------------------------------------------
(* Properties *)

\* Rows, dispatches, the tick and the running functions have their types.
BacklogTypeOK ==
    /\ item \in [Items -> Rows]
    /\ dispatch \in Seq(Dispatches) /\ Len(dispatch) <= DispatchBound
    /\ tick \in Ticks
    /\ calls \subseteq Calls
    /\ past \in Histories

\* Items in flight never write to the same place and never exceed the limit, although
\* the daemon counts once for a whole batch, writes in_flight over whatever a row has
\* become, and is stopped between the enqueue and that write.
LanesExclusive ==
    /\ Cardinality(InFlight) <= MaxInFlight
    /\ \A i, n \in InFlight : i # n => Disjoint(i, n)

\* An item is given to the queue a second time only after somebody declared that
\* safe, or when the write that records the first time was lost: no promotion, no
\* cleared blocker, no reaped or failed dispatch gets it there.
RefireNeedsApproval ==
    \A p, q \in DOMAIN dispatch :
        p # q /\ dispatch[p].of = dispatch[q].of =>
            dispatch[p].of \in past.excused

\* An item is given to the queue only after each item it was created to wait for was
\* done by a dispatch of its own, or superseded.
DependenciesLanded ==
    \A p \in DOMAIN dispatch : \A n \in Needs[dispatch[p].of] :
        \/ n \in past.superseded
        \/ \E q \in DOMAIN dispatch : dispatch[q].of = n /\ dispatch[q].status = "done"

--------------------------------------------------------------------------------
(* Liveness *)

\* The interval keeps firing, a tick that began goes on, clocks advance, and restarts
\* stop.  Nothing is assumed of dispatches and operators.
BacklogLiveSpec ==
    /\ Spec
    /\ WF_vars(TickStep)
    /\ \A i \in Items : WF_vars(Age(i))
    /\ <>[][~RestartManager]_vars

\* No item holds its lane and its slot for ever, whatever became of its dispatch.
LanesFreed == \A i \in Items : []<>(item[i].state # "in_flight")

================================================================================
