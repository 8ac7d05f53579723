------------------------------- MODULE Checkins -------------------------------
(***************************************************************************)
(* Check-ins: rows that wake the owner of a task while the task is not     *)
(* finished.  A tick of CheckinService closes the rows that have lost      *)
(* their reason, lists the due ones, fires them one after another and      *)
(* expires those that are used up.  Tasks are changed, finished and        *)
(* deleted, and operators create, close, snooze and delete check-ins,      *)
(* between any two steps of a tick; a step may throw and the manager may   *)
(* stop anywhere.                                                          *)
(***************************************************************************)
EXTENDS Naturals

CONSTANTS
    Checkins,         \* check-ins that may be created
    Tasks,            \* tasks
    NoTask,           \* linked_task_id, when it is null
    TaskOf,           \* TaskOf[c]: linked_task_id
    NoLimit,          \* max_iterations, when it is null
    Limit,            \* Limit[c]: max_iterations
    Lasting,          \* check-ins with a ttl_expires_at
    Threshold,        \* RECORD_ONLY_CHAIN_THRESHOLD
    DisturbanceBound, \* the most snoozes, throws and restarts
    CountBound        \* from here on iterations are counted as CountBound

ASSUME TasksAssumption ==
    NoTask \notin Tasks /\ TaskOf \in [Checkins -> Tasks \cup {NoTask}]
ASSUME LimitAssumption ==
    NoLimit \notin Nat /\ Limit \in [Checkins -> (Nat \ {0}) \cup {NoLimit}]
ASSUME ThresholdAssumption == Threshold \in Nat /\ Threshold > 1
ASSUME CheckinBoundsAssumption ==
    /\ DisturbanceBound \in Nat
    /\ CountBound \in Nat /\ CountBound > Threshold
    /\ \A c \in Checkins : Limit[c] # NoLimit => CountBound > Limit[c] + DisturbanceBound

VARIABLES
    task,      \* task[t]: row t of tasks
    cascade,   \* cascade[t]: how far closeTaskAndCascade is with t
    checkin,   \* checkin[c]: row c of checkins
    creating,  \* check-ins whose POST has read the task and not yet written
    snoozing,  \* check-ins whose snooze has read the row and not yet written
    tick,      \* the tick of the service
    disturbed, \* how many snoozes, throws and restarts there have been
    late,      \* late[c]: wakes of c since its task ended, counted up to two
    streak     \* streak[c]: wakes of c since its task, which is doing, last changed

handlers == <<cascade, creating, snoozing>>
vars == <<task, handlers, checkin, tick, disturbed, late, streak>>

--------------------------------------------------------------------------------
(* State *)

\* moot: the title or the description says that the task is done, archived,
\* superseded, moot, cancelled or implemented by another commit.
TaskRows == [status : {"todo", "doing", "done", "deleted"}, moot : BOOLEAN]

Statuses == {"new", "active", "snoozed", "closed", "expired", "deleted"}

\* due: next_fire_at has passed.  quiet: the check-in has fired, and updated_at of its
\* task is not later than last_fire_at.  over: ttl_expires_at has passed.
Rows == [status : Statuses, count : 0..CountBound, due : BOOLEAN, quiet : BOOLEAN,
         over : BOOLEAN]

NewRow == [status |-> "new", count |-> 0, due |-> FALSE, quiet |-> FALSE, over |-> FALSE]

\* doomed: listed rows that are to be closed; rows: those that are to be fired, or
\* expired if they are among the lapsed; on: the one in hand; listed and quiet: the
\* iteration_count of the rows as they were listed, and those whose task has not changed
\* since they fired; touched: the tasks that have changed since the tick took the time.
Ticks == [at : {"idle", "exhaust", "select", "load", "judge", "fire", "wake", "recheck",
                "expire"},
          doomed : SUBSET Checkins, rows : SUBSET Checkins, lapsed : SUBSET Checkins,
          on : SUBSET Checkins, listed : [Checkins -> 0..CountBound],
          quiet : SUBSET Checkins, touched : SUBSET Tasks]

Idle == [at |-> "idle", doomed |-> {}, rows |-> {}, lapsed |-> {}, on |-> {},
         listed |-> [c \in Checkins |-> 0], quiet |-> {}, touched |-> {}]

Init == /\ task      = [t \in Tasks |-> [status |-> "todo", moot |-> FALSE]]
        /\ cascade   = [t \in Tasks |-> "none"]
        /\ checkin   = [c \in Checkins |-> NewRow]
        /\ creating  = {}
        /\ snoozing  = {}
        /\ tick      = Idle
        /\ disturbed = 0
        /\ late      = [c \in Checkins |-> 0]
        /\ streak    = [c \in Checkins |-> 0]

Live(row) == row.status \in {"active", "snoozed"}
Present(row) == row.status \notin {"new", "deleted"}

Linked(t) == {c \in Checkins : TaskOf[c] = t}
OfTask(c, P(_)) == TaskOf[c] # NoTask /\ P(task[TaskOf[c]])

\* The task is finished, or its text says so: its owner has no use for another wake.
Ended(t) == \/ t.status = "done"
            \/ t.moot /\ t.status \in {"todo", "doing"}

\* close, closeForTerminalTask and the updates of claimDue close rows that are neither
\* closed nor expired.
Close(rows) ==
    checkin' = [c \in Checkins |->
                  IF c \in rows /\ Live(checkin[c])
                  THEN [checkin[c] EXCEPT !.status = "closed", !.due = FALSE]
                  ELSE checkin[c]]

\* A snooze, a throw or a restart.
Disturb == disturbed < DisturbanceBound /\ disturbed' = disturbed + 1

--------------------------------------------------------------------------------
(* A tick: claimDue *)

At(step) == tick.at = step

\* Mutant of Due: a snoozed row is not looked at.
DueAwake(row) == row.status = "active" /\ row.due

Due(row) == Live(row) /\ row.due

\* Mutant of Suppressed: the text of the task is not looked at.
SuppressedByStatus(t) == t.status = "done"

\* classifyCheckinRecurrenceSuppression
Suppressed(t) == t.status = "done" \/ (t.moot /\ t.status # "deleted")

\* Mutant of Exhausted: one receipt too many.
ExhaustedLater(count, quiet) == count > Threshold /\ quiet

\* What shouldExhaustRecordOnlyChain and the second update ask of a row, whose task is
\* doing.
Exhausted(count, quiet) == count >= Threshold /\ quiet

Done(t) == t.status = "done"
Doing(t) == t.status = "doing"

\* A tick in which nothing is due changes nothing.
BeginTick ==
    /\ At("idle")
    /\ \E c \in Checkins : Due(checkin[c])
    /\ Close({c \in Checkins : Due(checkin[c]) /\ OfTask(c, Done)})
    /\ tick' = [Idle EXCEPT !.at = "exhaust"]
    /\ UNCHANGED <<task, handlers, disturbed, late, streak>>

CloseExhausted ==
    /\ At("exhaust")
    /\ Close({c \in Checkins : /\ Due(checkin[c]) /\ OfTask(c, Doing)
                               /\ Exhausted(checkin[c].count, checkin[c].quiet)})
    /\ tick' = [tick EXCEPT !.at = "select"]
    /\ UNCHANGED <<task, handlers, disturbed, late, streak>>

CountsOf(rows) == [c \in Checkins |-> IF c \in rows THEN checkin[c].count ELSE 0]

SelectDue ==
    /\ At("select")
    /\ LET due == {c \in Checkins : Due(checkin[c])}
       IN tick' = IF due = {} THEN Idle
                  ELSE [tick EXCEPT !.at = "load", !.rows = due,
                                    !.lapsed = {c \in due : checkin[c].over},
                                    !.quiet  = {c \in due : checkin[c].quiet},
                                    !.listed = CountsOf(due)]
    /\ UNCHANGED <<task, handlers, checkin, disturbed, late, streak>>

\* The tick goes on with doomed to be closed and rows to be fired.
Judged(doomed, rows) ==
    IF doomed \cup rows = {} THEN Idle
    ELSE [tick EXCEPT !.at = IF doomed = {} THEN "fire" ELSE "judge",
                      !.doomed = doomed, !.rows = rows, !.lapsed = @ \cap rows, !.quiet = {},
                      !.listed = [c \in Checkins |-> IF c \in rows THEN @[c] ELSE 0]]

\* The tasks are read after the rows; a deleted one suppresses nothing.
LoadTasks ==
    /\ At("load")
    /\ LET chains == {c \in tick.rows : /\ OfTask(c, Doing)
                                        /\ Exhausted(tick.listed[c], c \in tick.quiet)}
           doomed == {c \in tick.rows : OfTask(c, Suppressed)} \cup chains
       IN tick' = Judged(doomed, tick.rows \ doomed)
    /\ UNCHANGED <<task, handlers, checkin, disturbed, late, streak>>

CloseDoomed(c) ==
    /\ At("judge") /\ c \in tick.doomed
    /\ Close({c})
    /\ tick' = Judged(tick.doomed \ {c}, tick.rows)
    /\ UNCHANGED <<task, handlers, disturbed, late, streak>>

--------------------------------------------------------------------------------
(* A tick: its rows *)

Least(a, b) == IF a <= b THEN a ELSE b

\* Mutant of Counted: the counter is not bounded.
CountedOn(n) == n + 1

Counted(n) == Least(n + 1, CountBound)

\* The tick is done with row c.
Leave(c) == tick' = IF tick.rows \subseteq {c} THEN Idle
                    ELSE [tick EXCEPT !.at = "fire", !.rows = @ \ {c}, !.on = {},
                                      !.lapsed = @ \ {c}, !.listed[c] = 0]

Lapse(c) ==
    /\ At("fire") /\ c \in tick.rows \cap tick.lapsed
    /\ tick' = [tick EXCEPT !.at = "expire", !.on = {c}]
    /\ UNCHANGED <<task, handlers, checkin, disturbed, late, streak>>

\* The update names the row and not its status: it makes a row active that was closed or
\* snoozed since it was listed, and does nothing to one that was deleted.  last_fire_at
\* is the time the tick began, and updated_at of a task counts in seconds: a change of
\* the task since then may be in the same second.
Fire(c) ==
    /\ At("fire") /\ c \in tick.rows \ tick.lapsed
    /\ \E q \in IF TaskOf[c] \in tick.touched THEN BOOLEAN ELSE {TaskOf[c] # NoTask} :
         checkin' = IF Present(checkin[c])
                    THEN [checkin EXCEPT ![c] = [@ EXCEPT !.status = "active", !.due = FALSE,
                                                          !.count = Counted(tick.listed[c]),
                                                          !.quiet = q]]
                    ELSE checkin
    /\ tick' = [tick EXCEPT !.at = "wake", !.on = {c}]
    /\ UNCHANGED <<task, handlers, disturbed, late, streak>>

\* writeOwnerNews and dispatchWake; a failure of the latter is swallowed.
Wake(c) ==
    /\ At("wake") /\ c \in tick.on
    /\ late' = [late EXCEPT ![c] = IF OfTask(c, Ended) THEN Least(@ + 1, 2) ELSE 0]
    /\ streak' = [streak EXCEPT ![c] = IF OfTask(c, Doing) THEN Least(@ + 1, Threshold + 1)
                                                           ELSE 0]
    /\ tick' = [tick EXCEPT !.at = "recheck"]
    /\ UNCHANGED <<task, handlers, checkin, disturbed>>

\* shouldExpireForMaxIterations, of the row as it is now
UsedUp(c) == Present(checkin[c]) /\ Limit[c] # NoLimit /\ checkin[c].count >= Limit[c]

Recheck(c) ==
    /\ At("recheck") /\ c \in tick.on
    /\ IF UsedUp(c) THEN tick' = [tick EXCEPT !.at = "expire"] ELSE Leave(c)
    /\ UNCHANGED <<task, handlers, checkin, disturbed, late, streak>>

\* expireRow names the row and not its status.
Expire(c) ==
    /\ At("expire") /\ c \in tick.on
    /\ checkin' = IF Present(checkin[c])
                  THEN [checkin EXCEPT ![c] = [@ EXCEPT !.status = "expired", !.due = FALSE]]
                  ELSE checkin
    /\ Leave(c)
    /\ UNCHANGED <<task, handlers, disturbed, late, streak>>

\* A throw leaves the row in hand, before or after it was written.
AbandonRow(c) ==
    /\ Disturb
    /\ \/ At("fire") /\ c \in tick.rows
       \/ tick.at \in {"wake", "recheck", "expire"} /\ c \in tick.on
    /\ Leave(c)
    /\ UNCHANGED <<task, handlers, checkin, late, streak>>

\* A throw in claimDue ends the tick.
AbandonTick ==
    /\ Disturb
    /\ tick.at \in {"exhaust", "select", "load", "judge"}
    /\ tick' = Idle
    /\ UNCHANGED <<task, handlers, checkin, late, streak>>

--------------------------------------------------------------------------------
(* Tasks *)

\* Row t of tasks becomes row, with a new updated_at.  A change in the second of a fire
\* does not show.
Change(t, row) ==
    /\ task' = [task EXCEPT ![t] = row]
    /\ \E missed \in SUBSET {c \in Linked(t) : checkin[c].quiet /\ ~checkin[c].due} :
         checkin' = [c \in Checkins |-> IF c \in Linked(t) \ missed
                                        THEN [checkin[c] EXCEPT !.quiet = FALSE]
                                        ELSE checkin[c]]
    /\ tick' = IF At("idle") THEN tick
               ELSE [tick EXCEPT !.touched = @ \cup {t}, !.quiet = @ \ Linked(t)]
    /\ late' = [c \in Checkins |-> IF c \in Linked(t) /\ ~Ended(row) THEN 0 ELSE late[c]]
    /\ streak' = [c \in Checkins |-> IF c \in Linked(t) THEN 0 ELSE streak[c]]

\* PATCH appends a note to the description, and takes none of its words away.
PatchTask(t) ==
    /\ task[t].status # "deleted"
    /\ \E moot \in {task[t].moot, TRUE} : Change(t, [task[t] EXCEPT !.moot = moot])
    /\ UNCHANGED <<handlers, disturbed>>

ClaimTask(t) ==
    /\ task[t].status = "todo"
    /\ Change(t, [task[t] EXCEPT !.status = "doing"])
    /\ UNCHANGED <<handlers, disturbed>>

\* /task assign looks at no status.
AssignTask(t) ==
    /\ task[t].status # "deleted"
    /\ Change(t, [task[t] EXCEPT !.status = "doing"])
    /\ UNCHANGED <<handlers, disturbed>>

FinishTask(t) ==
    /\ task[t].status # "deleted" /\ cascade[t] = "none"
    /\ Change(t, [task[t] EXCEPT !.status = "done"])
    /\ cascade' = [cascade EXCEPT ![t] = "list"]
    /\ UNCHANGED <<creating, snoozing, disturbed>>

\* closeLinkedCheckinsForTerminalTask
ListLinked(t) ==
    /\ cascade[t] = "list"
    /\ cascade' = [cascade EXCEPT ![t] = IF \E c \in Linked(t) : Live(checkin[c])
                                         THEN "close" ELSE "none"]
    /\ UNCHANGED <<task, creating, snoozing, checkin, tick, disturbed, late, streak>>

CloseLinked(t) ==
    /\ cascade[t] = "close"
    /\ cascade' = [cascade EXCEPT ![t] = "none"]
    /\ Close(Linked(t))
    /\ UNCHANGED <<task, creating, snoozing, tick, disturbed, late, streak>>

\* The check-ins of a deleted task are deleted with it.
DeleteTask(t) ==
    /\ task[t].status # "deleted"
    /\ task' = [task EXCEPT ![t].status = "deleted"]
    /\ checkin' = [c \in Checkins |-> IF c \in Linked(t) /\ Present(checkin[c])
                                      THEN [NewRow EXCEPT !.status = "deleted"]
                                      ELSE checkin[c]]
    /\ UNCHANGED <<handlers, tick, disturbed, late, streak>>

--------------------------------------------------------------------------------
(* Operators *)

ReadForCreate(c) ==
    /\ checkin[c].status = "new"
    /\ ~OfTask(c, Done) /\ (TaskOf[c] # NoTask => task[TaskOf[c]].status # "deleted")
    /\ creating' = creating \cup {c}
    /\ UNCHANGED <<task, cascade, snoozing, checkin, tick, disturbed, late, streak>>

\* The insert fails if the task is gone.
Create(c) ==
    /\ c \in creating
    /\ creating' = creating \ {c}
    /\ IF TaskOf[c] # NoTask /\ task[TaskOf[c]].status = "deleted"
       THEN UNCHANGED checkin
       ELSE \E status \in {"active", "snoozed"} : checkin' = [checkin EXCEPT ![c].status = status]
    /\ UNCHANGED <<task, cascade, snoozing, tick, disturbed, late, streak>>

CloseCheckin(c) ==
    /\ Live(checkin[c])
    /\ Close({c})
    /\ UNCHANGED <<task, handlers, tick, disturbed, late, streak>>

DeleteCheckin(c) ==
    /\ Present(checkin[c])
    /\ checkin' = [checkin EXCEPT ![c] = [NewRow EXCEPT !.status = "deleted"]]
    /\ UNCHANGED <<task, handlers, tick, disturbed, late, streak>>

ReadForSnooze(c) ==
    /\ Live(checkin[c]) /\ c \notin snoozing
    /\ Disturb
    /\ snoozing' = snoozing \cup {c}
    /\ UNCHANGED <<task, cascade, creating, checkin, tick, late, streak>>

\* The update looks at no status.
Snooze(c) ==
    /\ c \in snoozing
    /\ snoozing' = snoozing \ {c}
    /\ checkin' = IF Present(checkin[c])
                  THEN [checkin EXCEPT ![c] = [@ EXCEPT !.status = "snoozed", !.due = FALSE]]
                  ELSE checkin
    /\ UNCHANGED <<task, cascade, creating, tick, disturbed, late, streak>>

--------------------------------------------------------------------------------
(* Time and restarts *)

ComeDue(c) ==
    /\ Live(checkin[c]) /\ ~checkin[c].due
    /\ checkin' = [checkin EXCEPT ![c].due = TRUE]
    /\ UNCHANGED <<task, handlers, tick, disturbed, late, streak>>

RunOver(c) ==
    /\ c \in Lasting /\ Live(checkin[c]) /\ ~checkin[c].over
    /\ checkin' = [checkin EXCEPT ![c].over = TRUE]
    /\ UNCHANGED <<task, handlers, tick, disturbed, late, streak>>

Restart ==
    /\ Disturb
    /\ tick' = Idle
    /\ cascade' = [t \in Tasks |-> "none"] /\ creating' = {} /\ snoozing' = {}
    /\ UNCHANGED <<task, checkin, late, streak>>

--------------------------------------------------------------------------------
TickStep ==
    \/ BeginTick \/ CloseExhausted \/ SelectDue \/ LoadTasks \/ AbandonTick
    \/ \E c \in Checkins : \/ CloseDoomed(c) \/ Lapse(c) \/ Fire(c) \/ Wake(c)
                           \/ Recheck(c) \/ Expire(c) \/ AbandonRow(c)

Next ==
    \/ TickStep
    \/ \E t \in Tasks : \/ PatchTask(t) \/ ClaimTask(t) \/ AssignTask(t) \/ FinishTask(t)
                        \/ ListLinked(t) \/ CloseLinked(t) \/ DeleteTask(t)
    \/ \E c \in Checkins : \/ ReadForCreate(c) \/ Create(c) \/ CloseCheckin(c)
                           \/ DeleteCheckin(c) \/ ReadForSnooze(c) \/ Snooze(c)
                           \/ ComeDue(c) \/ RunOver(c)
    \/ Restart

\* The interval timer keeps ticking and time passes.
Fairness == WF_vars(TickStep) /\ \A c \in Checkins : WF_vars(ComeDue(c))

Spec == Init /\ [][Next]_vars /\ Fairness

--------------------------------------------------------------------------------
(* Properties *)

\* The tables, the handlers and the tick have their types.
CheckinTypeOK ==
    /\ task \in [Tasks -> TaskRows]
    /\ cascade \in [Tasks -> {"none", "list", "close"}]
    /\ checkin \in [Checkins -> Rows]
    /\ creating \subseteq Checkins /\ snoozing \subseteq Checkins
    /\ tick \in Ticks
    /\ disturbed \in 0..DisturbanceBound
    /\ late \in [Checkins -> 0..2]
    /\ streak \in [Checkins -> 0..(Threshold + 1)]

\* When a task has ended, its owner is woken for it at most once more, by the tick that
\* had listed the check-in before: although that tick makes a closed row active again,
\* although a snooze may reopen it, and although the cascade may have missed it.
EndedTasksWakeOnce == \A c \in Checkins : late[c] <= 1

\* Wakes come to an end.  A task that is doing and does not change wakes its owner
\* Threshold times in a row and no more; and a check-in goes beyond max_iterations only
\* by what throws and restarts before its expiry, and snoozes that revive it, add.
ChainsStop ==
    \A c \in Checkins :
       /\ streak[c] <= Threshold
       /\ Limit[c] # NoLimit => checkin[c].count <= Limit[c] + disturbed

\* No check-in outlives its task: while the task stays ended it is closed, expired or
\* deleted again and again, whatever revives it.
EndedTasksClose ==
    \A c \in Checkins : []<>(~OfTask(c, Ended) \/ ~Live(checkin[c]))
================================================================================
