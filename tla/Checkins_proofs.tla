---------------------------- MODULE Checkins_proofs ----------------------------
(* Theorems about check-ins, for any check-ins, tasks, limits and thresholds:  *)
(* the tables keep their types, an ended task wakes its owner at most once     *)
(* more, whoever writes the rows between the steps of a tick, and wakes that   *)
(* change nothing come to an end.                                              *)
EXTENDS Checkins, TLAPS

--------------------------------------------------------------------------------
(* Types                                                                       *)

LEMMA Bounds ==
    /\ CountBound \in Nat /\ DisturbanceBound \in Nat /\ Threshold \in Nat
    /\ 0 \in 0..CountBound /\ 0 \in 0..DisturbanceBound /\ 0 \in 0..(Threshold + 1)
  BY CheckinBoundsAssumption, ThresholdAssumption

\* A row in any of the states that the steps write is a row.
LEMMA RowTypes ==
    ASSUME NEW row \in Rows
    PROVE  /\ [row EXCEPT !.status = "closed", !.due = FALSE] \in Rows
           /\ [row EXCEPT !.status = "expired", !.due = FALSE] \in Rows
           /\ [row EXCEPT !.status = "snoozed", !.due = FALSE] \in Rows
           /\ [row EXCEPT !.quiet = FALSE] \in Rows
           /\ [row EXCEPT !.due = TRUE] \in Rows
           /\ [row EXCEPT !.over = TRUE] \in Rows
           /\ \A s \in Statuses : [row EXCEPT !.status = s] \in Rows
<1>1. \A s \in Statuses : /\ [row EXCEPT !.status = s, !.due = FALSE] \in Rows
                          /\ [row EXCEPT !.status = s] \in Rows
  BY DEF Rows
<1>2. /\ [row EXCEPT !.quiet = FALSE] \in Rows
      /\ [row EXCEPT !.due = TRUE] \in Rows
      /\ [row EXCEPT !.over = TRUE] \in Rows
  BY DEF Rows
<1> QED
  BY <1>1, <1>2 DEF Statuses

LEMMA NewRowTypes == [NewRow EXCEPT !.status = "deleted"] \in Rows
  BY Bounds DEF Rows, Statuses, NewRow

LEMMA CloseTypes ==
    ASSUME CheckinTypeOK, NEW rows, Close(rows)
    PROVE  checkin' \in [Checkins -> Rows]
  BY RowTypes DEF CheckinTypeOK, Close

LEMMA CountedTypes ==
    ASSUME NEW n \in 0..CountBound
    PROVE  Counted(n) \in 0..CountBound
  BY Bounds DEF Counted, Least

LEMMA Disturbed ==
    ASSUME CheckinTypeOK, Disturb
    PROVE  disturbed' \in 0..DisturbanceBound
  BY Bounds DEF CheckinTypeOK, Disturb

LEMMA IdleTypes == Idle \in Ticks
  BY Bounds DEF Idle, Ticks

\* What the tick is left with, as LoadTasks and CloseDoomed leave it.
LEMMA JudgedTypes ==
    ASSUME CheckinTypeOK, NEW doomed \in SUBSET Checkins, NEW rows \in SUBSET Checkins
    PROVE  Judged(doomed, rows) \in Ticks
<1>1. [c \in Checkins |-> IF c \in rows THEN tick.listed[c] ELSE 0]
        \in [Checkins -> 0..CountBound]
  BY Bounds DEF CheckinTypeOK, Ticks
<1>2. tick.lapsed \cap rows \in SUBSET Checkins
  BY DEF CheckinTypeOK, Ticks
<1> QED
  BY <1>1, <1>2, IdleTypes DEF CheckinTypeOK, Judged, Ticks

LEMMA LeaveTypes ==
    ASSUME CheckinTypeOK, NEW c \in Checkins, Leave(c)
    PROVE  tick' \in Ticks
<1>1. [tick.listed EXCEPT ![c] = 0] \in [Checkins -> 0..CountBound]
  BY Bounds DEF CheckinTypeOK, Ticks
<1>2. /\ tick.rows \ {c} \in SUBSET Checkins
      /\ tick.lapsed \ {c} \in SUBSET Checkins
  BY DEF CheckinTypeOK, Ticks
<1> QED
  BY <1>1, <1>2, IdleTypes DEF CheckinTypeOK, Leave, Ticks

LEMMA ChangeTypes ==
    ASSUME CheckinTypeOK, NEW t \in Tasks, NEW row \in TaskRows, Change(t, row)
    PROVE  /\ task' \in [Tasks -> TaskRows]
           /\ checkin' \in [Checkins -> Rows]
           /\ tick' \in Ticks
           /\ late' \in [Checkins -> 0..2]
           /\ streak' \in [Checkins -> 0..(Threshold + 1)]
<1>1. task' \in [Tasks -> TaskRows]
  BY DEF CheckinTypeOK, Change
<1>2. checkin' \in [Checkins -> Rows]
  BY RowTypes DEF CheckinTypeOK, Change
<1>3. tick' \in Ticks
  BY DEF CheckinTypeOK, Change, Ticks
<1>4. late' \in [Checkins -> 0..2]
  BY DEF CheckinTypeOK, Change
<1>5. streak' \in [Checkins -> 0..(Threshold + 1)]
  BY Bounds DEF CheckinTypeOK, Change
<1> QED
  BY <1>1, <1>2, <1>3, <1>4, <1>5

LEMMA TypesInit == Init => CheckinTypeOK
<1> SUFFICES ASSUME Init PROVE CheckinTypeOK
  OBVIOUS
<1>1. task \in [Tasks -> TaskRows]
  BY DEF Init, TaskRows
<1>2. NewRow \in Rows
  BY Bounds DEF Rows, Statuses, NewRow
<1>3. /\ checkin \in [Checkins -> Rows] /\ tick \in Ticks
      /\ cascade \in [Tasks -> {"none", "list", "close"}]
      /\ creating \subseteq Checkins /\ snoozing \subseteq Checkins
  BY <1>2, IdleTypes DEF Init
<1>4. /\ disturbed \in 0..DisturbanceBound
      /\ late \in [Checkins -> 0..2] /\ streak \in [Checkins -> 0..(Threshold + 1)]
  BY Bounds DEF Init
<1> QED
  BY <1>1, <1>3, <1>4 DEF CheckinTypeOK

LEMMA TypesOfTick ==
    ASSUME CheckinTypeOK, TickStep
    PROVE  CheckinTypeOK'
<1>1. CASE BeginTick
  <2>1. tick' \in Ticks
    BY <1>1, IdleTypes DEF BeginTick, Ticks
  <2> QED
    BY <1>1, <2>1, CloseTypes DEF BeginTick, CheckinTypeOK, handlers
<1>2. CASE CloseExhausted
  <2>1. tick' \in Ticks
    BY <1>2 DEF CloseExhausted, CheckinTypeOK, Ticks
  <2> QED
    BY <1>2, <2>1, CloseTypes DEF CloseExhausted, CheckinTypeOK, handlers
<1>3. CASE SelectDue
  <2> DEFINE due == {c \in Checkins : Due(checkin[c])}
  <2>1. CountsOf(due) \in [Checkins -> 0..CountBound]
    BY Bounds DEF CountsOf, CheckinTypeOK, Rows
  <2>2. tick' \in Ticks
    BY <1>3, <2>1, IdleTypes DEF SelectDue, CheckinTypeOK, Ticks
  <2> QED
    BY <1>3, <2>2 DEF SelectDue, CheckinTypeOK, handlers
<1>4. CASE LoadTasks
  <2>1. tick' \in Ticks
    BY <1>4, JudgedTypes DEF LoadTasks, CheckinTypeOK, Ticks
  <2> QED
    BY <1>4, <2>1 DEF LoadTasks, CheckinTypeOK, handlers
<1>5. CASE AbandonTick
  BY <1>5, IdleTypes, Disturbed DEF AbandonTick, CheckinTypeOK, handlers
<1>6. ASSUME NEW c \in Checkins, CloseDoomed(c)
      PROVE  CheckinTypeOK'
  <2>1. tick' \in Ticks
    BY <1>6, JudgedTypes DEF CloseDoomed, CheckinTypeOK, Ticks
  <2> QED
    BY <1>6, <2>1, CloseTypes DEF CloseDoomed, CheckinTypeOK, handlers
<1>7. ASSUME NEW c \in Checkins, Lapse(c)
      PROVE  CheckinTypeOK'
  BY <1>7 DEF Lapse, CheckinTypeOK, Ticks, handlers
<1>8. ASSUME NEW c \in Checkins, Fire(c)
      PROVE  CheckinTypeOK'
  <2>1. tick' \in Ticks
    BY <1>8 DEF Fire, CheckinTypeOK, Ticks
  <2>2. tick.listed[c] \in 0..CountBound
    BY DEF CheckinTypeOK, Ticks
  <2>3. checkin' \in [Checkins -> Rows]
    <3>1. PICK q \in BOOLEAN :
            checkin' = IF Present(checkin[c])
                       THEN [checkin EXCEPT ![c] = [@ EXCEPT !.status = "active", !.due = FALSE,
                                                             !.count = Counted(tick.listed[c]),
                                                             !.quiet = q]]
                       ELSE checkin
      BY <1>8 DEF Fire
    <3>2. [checkin[c] EXCEPT !.status = "active", !.due = FALSE,
                             !.count = Counted(tick.listed[c]), !.quiet = q] \in Rows
      BY <2>2, CountedTypes DEF CheckinTypeOK, Rows, Statuses
    <3> QED
      BY <3>1, <3>2 DEF CheckinTypeOK
  <2> QED
    BY <1>8, <2>1, <2>3 DEF Fire, CheckinTypeOK, handlers
<1>9. ASSUME NEW c \in Checkins, Wake(c)
      PROVE  CheckinTypeOK'
  <2>1. tick' \in Ticks
    BY <1>9 DEF Wake, CheckinTypeOK, Ticks
  <2>2. /\ Least(late[c] + 1, 2) \in 0..2
        /\ Least(streak[c] + 1, Threshold + 1) \in 0..(Threshold + 1)
    BY Bounds DEF CheckinTypeOK, Least
  <2>3. late' \in [Checkins -> 0..2] /\ streak' \in [Checkins -> 0..(Threshold + 1)]
    BY <1>9, <2>2, Bounds DEF Wake, CheckinTypeOK
  <2> QED
    BY <1>9, <2>1, <2>3 DEF Wake, CheckinTypeOK, handlers
<1>10. ASSUME NEW c \in Checkins, Recheck(c)
       PROVE  CheckinTypeOK'
  <2>1. tick' \in Ticks
    BY <1>10, LeaveTypes DEF Recheck, CheckinTypeOK, Ticks
  <2> QED
    BY <1>10, <2>1 DEF Recheck, CheckinTypeOK, handlers
<1>11. ASSUME NEW c \in Checkins, Expire(c)
       PROVE  CheckinTypeOK'
  <2>1. checkin' \in [Checkins -> Rows]
    BY <1>11, RowTypes DEF Expire, CheckinTypeOK
  <2> QED
    BY <1>11, <2>1, LeaveTypes DEF Expire, CheckinTypeOK, handlers
<1>12. ASSUME NEW c \in Checkins, AbandonRow(c)
       PROVE  CheckinTypeOK'
  BY <1>12, LeaveTypes, Disturbed DEF AbandonRow, CheckinTypeOK, handlers
<1> QED
  BY <1>1, <1>2, <1>3, <1>4, <1>5, <1>6, <1>7, <1>8, <1>9, <1>10, <1>11, <1>12 DEF TickStep

LEMMA TypesOfTasks ==
    ASSUME CheckinTypeOK, NEW t \in Tasks,
           \/ PatchTask(t) \/ ClaimTask(t) \/ AssignTask(t) \/ FinishTask(t)
           \/ ListLinked(t) \/ CloseLinked(t) \/ DeleteTask(t)
    PROVE  CheckinTypeOK'
<1>1. task[t] \in TaskRows
  BY DEF CheckinTypeOK
<1>2. CASE PatchTask(t)
  <2>1. PICK moot \in BOOLEAN : Change(t, [task[t] EXCEPT !.moot = moot])
    BY <1>1, <1>2 DEF PatchTask, TaskRows
  <2>2. [task[t] EXCEPT !.moot = moot] \in TaskRows
    BY <1>1 DEF TaskRows
  <2> QED
    BY <1>2, <2>1, <2>2, ChangeTypes DEF PatchTask, CheckinTypeOK, handlers
<1>3. [task[t] EXCEPT !.status = "doing"] \in TaskRows
  BY <1>1 DEF TaskRows
<1>4. CASE ClaimTask(t)
  BY <1>3, <1>4, ChangeTypes DEF ClaimTask, CheckinTypeOK, handlers
<1>5. CASE AssignTask(t)
  BY <1>3, <1>5, ChangeTypes DEF AssignTask, CheckinTypeOK, handlers
<1>6. CASE FinishTask(t)
  <2>1. [task[t] EXCEPT !.status = "done"] \in TaskRows
    BY <1>1 DEF TaskRows
  <2> QED
    BY <1>6, <2>1, ChangeTypes DEF FinishTask, CheckinTypeOK
<1>7. CASE ListLinked(t)
  BY <1>7 DEF ListLinked, CheckinTypeOK
<1>8. CASE CloseLinked(t)
  BY <1>8, CloseTypes DEF CloseLinked, CheckinTypeOK
<1>9. CASE DeleteTask(t)
  <2>1. task' \in [Tasks -> TaskRows]
    <3>1. [task[t] EXCEPT !.status = "deleted"] \in TaskRows
      BY <1>1 DEF TaskRows
    <3> QED
      BY <1>9, <3>1 DEF DeleteTask, CheckinTypeOK
  <2>2. checkin' \in [Checkins -> Rows]
    BY <1>9, RowTypes, NewRowTypes DEF DeleteTask, CheckinTypeOK
  <2> QED
    BY <1>9, <2>1, <2>2 DEF DeleteTask, CheckinTypeOK, handlers
<1> QED
  BY <1>2, <1>4, <1>5, <1>6, <1>7, <1>8, <1>9

LEMMA TypesOfCheckins ==
    ASSUME CheckinTypeOK, NEW c \in Checkins,
           \/ ReadForCreate(c) \/ Create(c) \/ CloseCheckin(c) \/ DeleteCheckin(c)
           \/ ReadForSnooze(c) \/ Snooze(c) \/ ComeDue(c) \/ RunOver(c)
    PROVE  CheckinTypeOK'
<1>1. checkin[c] \in Rows
  BY DEF CheckinTypeOK
<1>2. CASE ReadForCreate(c)
  BY <1>2 DEF ReadForCreate, CheckinTypeOK
<1>3. CASE Create(c)
  <2>1. checkin' \in [Checkins -> Rows]
    BY <1>1, <1>3, RowTypes DEF Create, CheckinTypeOK, Statuses
  <2> QED
    BY <1>3, <2>1 DEF Create, CheckinTypeOK
<1>4. CASE CloseCheckin(c)
  BY <1>4, CloseTypes DEF CloseCheckin, CheckinTypeOK, handlers
<1>5. CASE DeleteCheckin(c)
  <2>1. checkin' \in [Checkins -> Rows]
    BY <1>5, NewRowTypes DEF DeleteCheckin, CheckinTypeOK
  <2> QED
    BY <1>5, <2>1 DEF DeleteCheckin, CheckinTypeOK, handlers
<1>6. CASE ReadForSnooze(c)
  BY <1>6, Disturbed DEF ReadForSnooze, CheckinTypeOK
<1>7. CASE Snooze(c)
  <2>1. checkin' \in [Checkins -> Rows]
    BY <1>1, <1>7, RowTypes DEF Snooze, CheckinTypeOK
  <2> QED
    BY <1>7, <2>1 DEF Snooze, CheckinTypeOK
<1>8. CASE ComeDue(c)
  <2>1. checkin' \in [Checkins -> Rows]
    BY <1>1, <1>8, RowTypes DEF ComeDue, CheckinTypeOK
  <2> QED
    BY <1>8, <2>1 DEF ComeDue, CheckinTypeOK, handlers
<1>9. CASE RunOver(c)
  <2>1. checkin' \in [Checkins -> Rows]
    BY <1>1, <1>9, RowTypes DEF RunOver, CheckinTypeOK
  <2> QED
    BY <1>9, <2>1 DEF RunOver, CheckinTypeOK, handlers
<1> QED
  BY <1>2, <1>3, <1>4, <1>5, <1>6, <1>7, <1>8, <1>9

LEMMA TypesNext == CheckinTypeOK /\ [Next]_vars => CheckinTypeOK'
<1> SUFFICES ASSUME CheckinTypeOK, [Next]_vars
             PROVE  CheckinTypeOK'
  OBVIOUS
<1>1. CASE Restart
  BY <1>1, IdleTypes, Disturbed DEF Restart, CheckinTypeOK
<1>2. CASE UNCHANGED vars
  BY <1>2 DEF vars, handlers, CheckinTypeOK
<1> QED
  BY <1>1, <1>2, TypesOfTick, TypesOfTasks, TypesOfCheckins DEF Next

\* The tables, the handlers and the tick of CheckinService keep their types.
THEOREM CheckinTypeCorrect == Spec => []CheckinTypeOK
<1> QED
  BY TypesInit, TypesNext, PTL DEF Spec

--------------------------------------------------------------------------------
(* Ended tasks                                                                 *)

\* While a row is being fired it is the one in hand, and not yet done with.
HandInv == tick.at \in {"wake", "recheck", "expire"}
              => \E c \in tick.rows : tick.on = {c}

\* The tick will not wake the owner of c: c is not among its rows, or has been woken.
Passed(c) == \/ tick.at \notin {"judge", "fire", "wake", "recheck", "expire"}
             \/ c \notin tick.rows
             \/ tick.at \in {"recheck", "expire"} /\ c \in tick.on

\* After a wake for an ended task the tick that made it is the last to hold the row:
\* the next one finds the task suppressed when it has listed the row.
LateInv ==
    \A c \in Checkins :
       late[c] # 0 => /\ late[c] = 1 /\ TaskOf[c] # NoTask
                      /\ \/ task[TaskOf[c]].status = "deleted"
                         \/ Ended(task[TaskOf[c]]) /\ Passed(c)

LateIInv == CheckinTypeOK /\ HandInv /\ LateInv

\* An ended task suppresses its check-ins.
LEMMA EndedIsSuppressed ==
    ASSUME NEW t \in TaskRows, Ended(t)
    PROVE  Suppressed(t)
  BY DEF Ended, Suppressed, TaskRows

\* A step that leaves tasks, tick and count alone.
LEMMA LateFrame ==
    ASSUME LateIInv, UNCHANGED <<task, tick, late>>
    PROVE  HandInv' /\ LateInv'
  BY DEF LateIInv, HandInv, LateInv, Passed, Ended

\* A step after which the tick has nothing to fire yet.
LEMMA LateQuietTick ==
    ASSUME LateIInv, UNCHANGED <<task, late>>,
           tick'.at \in {"idle", "exhaust", "select", "load"}
    PROVE  HandInv' /\ LateInv'
  BY DEF LateIInv, HandInv, LateInv, Passed, Ended

\* The tick leaves c, which it had in hand or was about to fire.
LEMMA LateLeave ==
    ASSUME LateIInv, NEW c \in tick.rows, UNCHANGED <<task, late>>, Leave(c),
           \/ tick.at = "fire"
           \/ tick.at \in {"wake", "recheck", "expire"} /\ tick.on = {c}
    PROVE  HandInv' /\ LateInv'
<1>1. CASE tick.rows \subseteq {c}
  <2>1. tick'.at = "idle"
    BY <1>1 DEF Leave, Idle
  <2> QED
    BY <2>1, LateQuietTick
<1>2. CASE ~(tick.rows \subseteq {c})
  <2>1. tick'.at = "fire" /\ tick'.rows = tick.rows \ {c}
    BY <1>2 DEF Leave, LateIInv, CheckinTypeOK, Ticks
  <2>2. \A k \in Checkins : Passed(k) => k \notin tick'.rows
    BY <2>1 DEF Passed
  <2> QED
    BY <2>1, <2>2 DEF LateIInv, HandInv, LateInv, Passed, Ended
<1> QED
  BY <1>1, <1>2

\* A change of a task makes the count of its check-ins start again, unless it stays
\* ended.
LEMMA LateChange ==
    ASSUME LateIInv, NEW t \in Tasks, task[t].status # "deleted",
           NEW row \in TaskRows, Change(t, row)
    PROVE  HandInv' /\ LateInv'
<1>1. /\ tick'.at = tick.at /\ tick'.rows = tick.rows /\ tick'.on = tick.on
  BY DEF Change, LateIInv, CheckinTypeOK, Ticks
<1>2. HandInv'
  BY <1>1 DEF LateIInv, HandInv
<1>3. LateInv'
  <2> SUFFICES ASSUME NEW c \in Checkins, late'[c] # 0
               PROVE  /\ late'[c] = 1 /\ TaskOf[c] # NoTask
                      /\ \/ task'[TaskOf[c]].status = "deleted"
                         \/ Ended(task'[TaskOf[c]]) /\ Passed(c)'
    BY DEF LateInv
  <2>1. late'[c] = late[c] /\ (c \in Linked(t) => Ended(row))
    BY DEF Change
  <2>2. Passed(c) => Passed(c)'
    BY <1>1 DEF Passed
  <2>3. CASE TaskOf[c] = t
    <3>1. c \in Linked(t) /\ task'[t] = row
      BY <2>3 DEF Linked, Change, LateIInv, CheckinTypeOK
    <3> QED
      BY <2>1, <2>2, <2>3, <3>1 DEF LateIInv, LateInv
  <2>4. CASE TaskOf[c] # t
    <3>1. TaskOf[c] # NoTask => task'[TaskOf[c]] = task[TaskOf[c]]
      BY <2>4, TasksAssumption DEF Change, LateIInv, CheckinTypeOK
    <3> QED
      BY <2>1, <2>2, <3>1 DEF LateIInv, LateInv
  <2> QED
    BY <2>3, <2>4
<1> QED
  BY <1>2, <1>3

\* LoadTasks and CloseDoomed turn to rows that have not been woken for.
LEMMA LateJudged ==
    ASSUME LateIInv, UNCHANGED <<task, late>>,
           NEW doomed \in SUBSET Checkins, NEW rows \in SUBSET Checkins,
           tick' = Judged(doomed, rows),
           \A c \in rows : late[c] # 0 => task[TaskOf[c]].status = "deleted"
    PROVE  HandInv' /\ LateInv'
<1>1. CASE doomed \cup rows = {}
  <2>1. tick'.at = "idle"
    BY <1>1 DEF Judged, Idle
  <2> QED
    BY <2>1, LateQuietTick
<1>2. CASE doomed \cup rows # {}
  <2>1. tick'.at \in {"fire", "judge"} /\ tick'.rows = rows
    BY <1>2 DEF Judged, LateIInv, CheckinTypeOK, Ticks
  <2> QED
    BY <2>1 DEF LateIInv, HandInv, LateInv, Passed, Ended
<1> QED
  BY <1>1, <1>2

LEMMA LateTick ==
    ASSUME LateIInv, TickStep
    PROVE  HandInv' /\ LateInv'
<1>1. CASE BeginTick \/ CloseExhausted \/ AbandonTick
  <2>1. tick'.at \in {"idle", "exhaust", "select"} /\ UNCHANGED <<task, late>>
    BY <1>1 DEF BeginTick, CloseExhausted, AbandonTick, Idle, LateIInv, CheckinTypeOK, Ticks
  <2> QED
    BY <2>1, LateQuietTick
<1>2. CASE SelectDue
  <2>1. tick'.at \in {"idle", "load"} /\ UNCHANGED <<task, late>>
    BY <1>2 DEF SelectDue, Idle, LateIInv, CheckinTypeOK, Ticks
  <2> QED
    BY <2>1, LateQuietTick
<1>3. CASE LoadTasks
  <2>1. PICK chains \in SUBSET Checkins :
          LET doomed == {c \in tick.rows : OfTask(c, Suppressed)} \cup chains
          IN  tick' = Judged(doomed, tick.rows \ doomed)
    BY <1>3 DEF LoadTasks, LateIInv, CheckinTypeOK, Ticks
  <2> DEFINE doomed == {c \in tick.rows : OfTask(c, Suppressed)} \cup chains
  <2>2. doomed \in SUBSET Checkins /\ tick.rows \ doomed \in SUBSET Checkins
    BY DEF LateIInv, CheckinTypeOK, Ticks
  <2>3. ASSUME NEW c \in tick.rows \ doomed, late[c] # 0
        PROVE  task[TaskOf[c]].status = "deleted"
    <3>1. /\ c \in Checkins /\ TaskOf[c] # NoTask
          /\ task[TaskOf[c]].status = "deleted" \/ Ended(task[TaskOf[c]])
      BY <2>2, <2>3 DEF LateIInv, LateInv
    <3>2. task[TaskOf[c]] \in TaskRows
      BY <3>1, TasksAssumption DEF LateIInv, CheckinTypeOK
    <3>3. ~OfTask(c, Suppressed)
      BY <2>3
    <3> QED
      BY <3>1, <3>2, <3>3, EndedIsSuppressed DEF OfTask
  <2>4. UNCHANGED <<task, late>>
    BY <1>3 DEF LoadTasks
  <2> HIDE DEF doomed
  <2>5. tick' = Judged(doomed, tick.rows \ doomed)
    BY <2>1 DEF doomed
  <2> QED
    BY <2>2, <2>3, <2>4, <2>5, LateJudged
<1>4. ASSUME NEW c \in Checkins, CloseDoomed(c)
      PROVE  HandInv' /\ LateInv'
  <2>1. /\ tick.doomed \ {c} \in SUBSET Checkins /\ tick.rows \in SUBSET Checkins
        /\ tick' = Judged(tick.doomed \ {c}, tick.rows) /\ UNCHANGED <<task, late>>
    BY <1>4 DEF CloseDoomed, LateIInv, CheckinTypeOK, Ticks
  <2>2. \A k \in tick.rows : late[k] # 0 => task[TaskOf[k]].status = "deleted"
    BY <1>4, <2>1 DEF CloseDoomed, At, LateIInv, LateInv, Passed
  <2> QED
    BY <2>1, <2>2, LateJudged
<1>5. ASSUME NEW c \in Checkins, Lapse(c) \/ Fire(c)
      PROVE  HandInv' /\ LateInv'
  <2>1. /\ tick.at = "fire" /\ c \in tick.rows
        /\ tick'.at \in {"wake", "expire"} /\ tick'.on = {c} /\ tick'.rows = tick.rows
        /\ UNCHANGED <<task, late>>
    BY <1>5 DEF Lapse, Fire, At, LateIInv, CheckinTypeOK, Ticks
  <2>2. \A k \in Checkins : Passed(k) => Passed(k)'
    BY <2>1 DEF Passed
  <2> QED
    BY <2>1, <2>2 DEF LateIInv, HandInv, LateInv, Ended
<1>6. ASSUME NEW c \in Checkins, Wake(c)
      PROVE  HandInv' /\ LateInv'
  <2>1. /\ tick.at = "wake" /\ c \in tick.rows /\ tick.on = {c}
        /\ tick'.at = "recheck" /\ tick'.on = {c} /\ tick'.rows = tick.rows
        /\ UNCHANGED task
    BY <1>6 DEF Wake, At, LateIInv, HandInv, CheckinTypeOK, Ticks
  <2>2. \A k \in Checkins : Passed(k) => Passed(k)'
    BY <2>1 DEF Passed
  <2>3. Passed(c)' /\ ~Passed(c)
    BY <2>1 DEF Passed
  <2>4. \A k \in Checkins \ {c} : late'[k] = late[k]
    BY <1>6 DEF Wake, LateIInv, CheckinTypeOK
  <2>5. CASE OfTask(c, Ended)
    <3>1. TaskOf[c] # NoTask /\ Ended(task[TaskOf[c]])
      BY <2>5 DEF OfTask
    <3>2. task[TaskOf[c]].status # "deleted"
      BY <3>1 DEF Ended
    <3>3. late[c] = 0
      BY <2>3, <3>2 DEF LateIInv, LateInv
    <3>4. late'[c] = 1
      BY <1>6, <2>5, <3>3 DEF Wake, Least, LateIInv, CheckinTypeOK
    <3> QED
      BY <2>1, <2>2, <2>3, <2>4, <3>1, <3>4 DEF LateIInv, HandInv, LateInv, Ended
  <2>6. CASE ~OfTask(c, Ended)
    <3>1. late'[c] = 0
      BY <1>6, <2>6 DEF Wake, LateIInv, CheckinTypeOK
    <3> QED
      BY <2>1, <2>2, <2>4, <3>1 DEF LateIInv, HandInv, LateInv, Ended
  <2> QED
    BY <2>5, <2>6
<1>7. ASSUME NEW c \in Checkins, Recheck(c) \/ Expire(c) \/ AbandonRow(c)
      PROVE  HandInv' /\ LateInv'
  <2>1. /\ UNCHANGED <<task, late>>
        /\ c \in tick.rows
        /\ \/ tick.at = "fire"
           \/ tick.at \in {"wake", "recheck", "expire"} /\ tick.on = {c}
    BY <1>7 DEF Recheck, Expire, AbandonRow, At, LateIInv, HandInv
  <2>2. CASE Leave(c)
    BY <2>1, <2>2, LateLeave
  <2>3. CASE ~Leave(c)
    <3>1. /\ tick.at = "recheck" /\ tick.on = {c}
          /\ tick'.at = "expire" /\ tick'.on = tick.on /\ tick'.rows = tick.rows
      BY <1>7, <2>1, <2>3 DEF Recheck, Expire, AbandonRow, At, LateIInv, CheckinTypeOK, Ticks
    <3>2. \A k \in Checkins : Passed(k) => Passed(k)'
      BY <3>1 DEF Passed
    <3> QED
      BY <2>1, <3>1, <3>2 DEF LateIInv, HandInv, LateInv, Ended
  <2> QED
    BY <2>2, <2>3
<1> QED
  BY <1>1, <1>2, <1>3, <1>4, <1>5, <1>6, <1>7 DEF TickStep

LEMMA LateTasks ==
    ASSUME LateIInv, NEW t \in Tasks,
           \/ PatchTask(t) \/ ClaimTask(t) \/ AssignTask(t) \/ FinishTask(t)
           \/ ListLinked(t) \/ CloseLinked(t) \/ DeleteTask(t)
    PROVE  HandInv' /\ LateInv'
<1>1. task[t] \in TaskRows
  BY DEF LateIInv, CheckinTypeOK
<1>2. CASE PatchTask(t) \/ ClaimTask(t) \/ AssignTask(t) \/ FinishTask(t)
  <2>1. \A moot \in BOOLEAN : [task[t] EXCEPT !.moot = moot] \in TaskRows
    BY <1>1 DEF TaskRows
  <2>2. /\ [task[t] EXCEPT !.status = "doing"] \in TaskRows
        /\ [task[t] EXCEPT !.status = "done"] \in TaskRows
    BY <1>1 DEF TaskRows
  <2>3. task[t].status # "deleted" /\ \E row \in TaskRows : Change(t, row)
    BY <1>1, <1>2, <2>1, <2>2 DEF PatchTask, ClaimTask, AssignTask, FinishTask, TaskRows
  <2> QED
    BY <2>3, LateChange
<1>3. CASE ListLinked(t) \/ CloseLinked(t)
  BY <1>3, LateFrame DEF ListLinked, CloseLinked
<1>4. CASE DeleteTask(t)
  <2>1. /\ UNCHANGED <<tick, late>> /\ task'[t].status = "deleted"
        /\ \A u \in Tasks \ {t} : task'[u] = task[u]
    BY <1>1, <1>4 DEF DeleteTask, LateIInv, CheckinTypeOK, TaskRows
  <2>2. \A c \in Checkins : TaskOf[c] # NoTask => TaskOf[c] \in Tasks
    BY TasksAssumption
  <2> QED
    BY <2>1, <2>2 DEF LateIInv, HandInv, LateInv, Passed, Ended
<1> QED
  BY <1>2, <1>3, <1>4

LEMMA LateNext == LateIInv /\ [Next]_vars => LateIInv'
<1> SUFFICES ASSUME LateIInv, [Next]_vars
             PROVE  LateIInv'
  OBVIOUS
<1>1. CheckinTypeOK'
  BY TypesNext DEF LateIInv
<1>2. ASSUME NEW c \in Checkins,
             \/ ReadForCreate(c) \/ Create(c) \/ CloseCheckin(c) \/ DeleteCheckin(c)
             \/ ReadForSnooze(c) \/ Snooze(c) \/ ComeDue(c) \/ RunOver(c)
      PROVE  HandInv' /\ LateInv'
  <2>1. UNCHANGED <<task, tick, late>>
    BY <1>2 DEF ReadForCreate, Create, CloseCheckin, DeleteCheckin, ReadForSnooze, Snooze,
                ComeDue, RunOver
  <2> QED
    BY <2>1, LateFrame
<1>3. ASSUME Restart
      PROVE  HandInv' /\ LateInv'
  <2>1. tick'.at = "idle" /\ UNCHANGED <<task, late>>
    BY <1>3 DEF Restart, Idle
  <2> QED
    BY <2>1, LateQuietTick
<1>4. ASSUME UNCHANGED vars
      PROVE  HandInv' /\ LateInv'
  BY <1>4, LateFrame DEF vars
<1>5. HandInv' /\ LateInv'
  BY <1>2, <1>3, <1>4, LateTick, LateTasks DEF Next
<1> QED
  BY <1>1, <1>5 DEF LateIInv

\* An ended task wakes its owner at most once more, although fires and snoozes make its
\* check-ins active again and restarts cut the cascade off.
THEOREM EndedTasksAreLeft == Spec => []EndedTasksWakeOnce
<1>1. Init => LateIInv
  <2> SUFFICES ASSUME Init PROVE LateIInv
    OBVIOUS
  <2>1. CheckinTypeOK
    BY TypesInit
  <2>2. HandInv /\ LateInv
    BY DEF Init, Idle, HandInv, LateInv
  <2> QED
    BY <2>1, <2>2 DEF LateIInv
<1>2. LateIInv => EndedTasksWakeOnce
  <2> SUFFICES ASSUME LateIInv, NEW c \in Checkins
               PROVE  late[c] <= 1
    BY DEF EndedTasksWakeOnce
  <2>1. late[c] = 0 \/ late[c] = 1
    BY DEF LateIInv, LateInv
  <2> QED
    BY <2>1
<1> QED
  BY <1>1, <1>2, LateNext, PTL DEF Spec

--------------------------------------------------------------------------------
(* Chains: the invariants                                                      *)

\* The tick has c in hand: it is firing or expiring it.
InHand(c) == tick.at \in {"wake", "recheck", "expire"} /\ c \in tick.on

\* A row that is not there has counted nothing.
NewInv ==
    \A c \in Checkins :
       /\ c \in creating => checkin[c].status = "new"
       /\ ~Present(checkin[c]) => checkin[c].count = 0
       /\ checkin[c].status = "new" => streak[c] = 0 /\ c \notin tick.rows

\* What the tick has listed is what the rows still say, until it fires them.
ListInv ==
    /\ tick.at \in {"idle", "exhaust", "select"} => tick.rows = {}
    /\ \A c \in tick.rows :
          /\ Present(checkin[c]) /\ ~InHand(c) => tick.listed[c] = checkin[c].count
          /\ tick.at = "load" => /\ tick.listed[c] >= streak[c]
                                 /\ streak[c] >= 2 => c \in tick.quiet

\* Only the wakes of a task that is doing are counted in a streak.
TaskInv ==
    \A c \in Checkins :
       streak[c] # 0 => TaskOf[c] # NoTask /\ task[TaskOf[c]].status \in {"doing", "deleted"}

\* When the task has changed since the tick began, a streak is of this tick.
TouchInv ==
    \A c \in Checkins :
       streak[c] # 0 /\ TaskOf[c] \in tick.touched
          => \/ tick.at \in {"fire", "wake", "recheck", "expire"} /\ c \notin tick.rows
             \/ InHand(c)

\* The wakes of a streak, and the one that is under way.
Wakes(c) == streak[c] + (IF tick.at = "wake" /\ c \in tick.on THEN 1 ELSE 0)

\* A row has counted the wakes of the streak, and from the second on it shows that the
\* task has not changed.
RowInv ==
    \A c \in Checkins :
       Present(checkin[c]) => /\ checkin[c].count >= Wakes(c)
                              /\ Wakes(c) >= 2 => checkin[c].quiet

\* A row that is going to be fired has a wake left, and none has more than Threshold.
FireInv ==
    \A c \in Checkins :
       /\ streak[c] <= Threshold
       /\ OfTask(c, Doing) /\ ~Passed(c) => streak[c] < Threshold

StreakInv == NewInv /\ ListInv /\ TaskInv /\ TouchInv /\ RowInv /\ FireInv

\* Whether c may yet be fired.
Pending(c) == IF ~InHand(c) /\ (Live(checkin[c]) \/ c \in tick.rows) THEN 1 ELSE 0
Snoozes(c) == IF c \in snoozing THEN 1 ELSE 0

\* A fire that may yet come fits under the limit, and so does the one that a snooze under
\* way may add.
LimitInv ==
    /\ snoozing # {} => disturbed >= 1
    /\ \A c \in Checkins :
          Limit[c] # NoLimit
             => checkin[c].count + Pending(c) + Snoozes(c) <= Limit[c] + disturbed

ChainIInv == LateIInv /\ StreakInv /\ LimitInv

--------------------------------------------------------------------------------
(* Chains: streaks                                                             *)

\* Rows are deleted, or keep what they have counted; none is created.
Kept ==
    \A c \in Checkins :
       /\ checkin'[c].status = "new" <=> checkin[c].status = "new"
       /\ ~Present(checkin'[c]) => checkin'[c].count = 0
       /\ Present(checkin'[c]) => /\ Present(checkin[c])
                                  /\ checkin'[c].count = checkin[c].count
                                  /\ checkin'[c].quiet = checkin[c].quiet

\* Tasks are deleted or stay as they are.
TasksKept == \A t \in Tasks : task'[t] = task[t] \/ task'[t].status = "deleted"

LEMMA KeptAll ==
    ASSUME CheckinTypeOK, NewInv, UNCHANGED checkin
    PROVE  Kept
  BY DEF NewInv, Kept

LEMMA KeptByClose ==
    ASSUME CheckinTypeOK, NewInv, NEW rows, Close(rows)
    PROVE  Kept
<1> SUFFICES ASSUME NEW c \in Checkins
             PROVE  /\ checkin'[c].status = "new" <=> checkin[c].status = "new"
                    /\ ~Present(checkin'[c]) => checkin'[c].count = 0
                    /\ Present(checkin'[c]) => /\ Present(checkin[c])
                                               /\ checkin'[c].count = checkin[c].count
                                               /\ checkin'[c].quiet = checkin[c].quiet
  BY DEF Kept
<1>1. checkin[c] \in Rows
  BY DEF CheckinTypeOK
<1>2. CASE checkin'[c] = checkin[c]
  BY <1>2 DEF NewInv
<1>3. CASE checkin'[c] = [checkin[c] EXCEPT !.status = "closed", !.due = FALSE] /\ Live(checkin[c])
  BY <1>1, <1>3 DEF Rows, Present, Live
<1> QED
  BY <1>2, <1>3 DEF Close

\* Row c becomes row, which is not new.
LEMMA KeptByUpdate ==
    ASSUME CheckinTypeOK, NewInv, NEW c \in Checkins, NEW row \in Rows,
           checkin' = [checkin EXCEPT ![c] = row], Present(checkin[c]),
           \/ row.status = "deleted" /\ row.count = 0
           \/ Present(row) /\ row.count = checkin[c].count /\ row.quiet = checkin[c].quiet
    PROVE  Kept
<1>1. checkin'[c] = row /\ \A k \in Checkins \ {c} : checkin'[k] = checkin[k]
  BY DEF CheckinTypeOK
<1>2. row.status # "new" /\ checkin[c].status # "new"
  BY DEF Present
<1> QED
  BY <1>1, <1>2 DEF NewInv, Kept, Present

\* A step that leaves the tick and the streaks alone.
LEMMA StreakRows ==
    ASSUME LateIInv, StreakInv, Kept, TasksKept, UNCHANGED <<tick, streak>>,
           creating' \subseteq creating
    PROVE  StreakInv'
<1> USE DEF LateIInv, StreakInv
<1>1. NewInv'
  BY DEF NewInv, Kept
<1>2. ListInv'
  BY DEF ListInv, Kept, InHand, CheckinTypeOK, Ticks
<1>3. TaskInv'
  BY TasksAssumption DEF TaskInv, TasksKept
<1>4. TouchInv'
  BY DEF TouchInv, InHand
<1>5. RowInv'
  BY DEF RowInv, Kept, Wakes
<1>6. FireInv'
  <2>1. \A c \in Checkins : OfTask(c, Doing)' => OfTask(c, Doing)
    BY TasksAssumption DEF OfTask, Doing, TasksKept
  <2> QED
    BY <2>1 DEF FireInv, Passed
<1> QED
  BY <1>1, <1>2, <1>3, <1>4, <1>5, <1>6

\* A step after which the tick holds no rows.
LEMMA StreakQuietTick ==
    ASSUME LateIInv, StreakInv, Kept, UNCHANGED <<task, streak>>, creating' \subseteq creating,
           tick'.at \in {"idle", "exhaust", "select"}, tick'.rows = {},
           \/ tick'.touched = {}
           \/ tick'.touched = tick.touched /\ tick.at \in {"exhaust", "select"}
    PROVE  StreakInv'
<1> USE DEF LateIInv, StreakInv
<1>1. NewInv'
  BY DEF NewInv, Kept
<1>2. ListInv'
  BY DEF ListInv
<1>3. TaskInv'
  BY DEF TaskInv
<1>4. TouchInv'
  BY DEF TouchInv, InHand
<1>5. RowInv'
  <2>1. \A c \in Checkins : Wakes(c)' <= Wakes(c) /\ Wakes(c) \in Nat /\ Wakes(c)' \in Nat
    BY Bounds DEF Wakes, CheckinTypeOK
  <2>2. \A c \in Checkins : checkin[c].count \in Nat
    BY Bounds DEF CheckinTypeOK, Rows
  <2> QED
    BY <2>1, <2>2 DEF RowInv, Kept
<1>6. FireInv'
  <2>1. \A c \in Checkins : Passed(c)'
    BY DEF Passed
  <2> QED
    BY <2>1 DEF FireInv
<1> QED
  BY <1>1, <1>2, <1>3, <1>4, <1>5, <1>6

\* The tick leaves c, which it had in hand or was about to fire.
LEMMA StreakLeave ==
    ASSUME LateIInv, StreakInv, Kept, UNCHANGED <<task, streak>>, creating' \subseteq creating,
           NEW c \in tick.rows, Leave(c),
           \/ tick.at = "fire"
           \/ tick.at \in {"wake", "recheck", "expire"} /\ tick.on = {c}
    PROVE  StreakInv'
<1>1. CASE tick.rows \subseteq {c}
  <2>1. tick'.at = "idle" /\ tick'.rows = {} /\ tick'.touched = {}
    BY <1>1 DEF Leave, Idle
  <2> QED
    BY <2>1, StreakQuietTick
<1>2. CASE ~(tick.rows \subseteq {c})
  <2> USE DEF LateIInv, StreakInv
  <2>1. /\ tick'.at = "fire" /\ tick'.rows = tick.rows \ {c} /\ tick'.on = {}
        /\ tick'.touched = tick.touched
        /\ \A k \in Checkins \ {c} : tick'.listed[k] = tick.listed[k]
    BY <1>2 DEF Leave, CheckinTypeOK, Ticks
  <2>2. \A k \in tick'.rows : k \in Checkins \ {c} /\ k \in tick.rows /\ ~InHand(k)
    BY <2>1 DEF InHand, CheckinTypeOK, Ticks
  <2>3. NewInv'
    BY <2>1 DEF NewInv, Kept
  <2>4. ListInv'
    BY <2>1, <2>2 DEF ListInv, Kept
  <2>5. TaskInv'
    BY DEF TaskInv
  <2>6. TouchInv'
    BY <2>1 DEF TouchInv, InHand
  <2>7. RowInv'
    <3>1. \A k \in Checkins : Wakes(k)' <= Wakes(k) /\ Wakes(k) \in Nat /\ Wakes(k)' \in Nat
      BY <2>1, Bounds DEF Wakes, CheckinTypeOK
    <3>2. \A k \in Checkins : checkin[k].count \in Nat
      BY Bounds DEF CheckinTypeOK, Rows
    <3> QED
      BY <3>1, <3>2 DEF RowInv, Kept
  <2>8. FireInv'
    <3>1. \A k \in Checkins : ~Passed(k)' => ~Passed(k)
      BY <2>1, <2>2 DEF Passed, InHand
    <3> QED
      BY <3>1 DEF FireInv, OfTask
  <2> QED
    BY <2>3, <2>4, <2>5, <2>6, <2>7, <2>8
<1> QED
  BY <1>1, <1>2

LEMMA StreakJudged ==
    ASSUME LateIInv, StreakInv, Kept, UNCHANGED <<task, streak, creating>>,
           NEW doomed \in SUBSET Checkins, NEW rows \in SUBSET tick.rows,
           tick.at \in {"load", "judge"},
           tick' = Judged(doomed, rows),
           \A c \in rows : OfTask(c, Doing) => streak[c] < Threshold
    PROVE  StreakInv'
<1>1. CASE doomed \cup rows = {}
  <2>1. tick'.at = "idle" /\ tick'.rows = {} /\ tick'.touched = {}
    BY <1>1 DEF Judged, Idle
  <2> QED
    BY <2>1, StreakQuietTick
<1>2. CASE doomed \cup rows # {}
  <2> USE DEF LateIInv, StreakInv
  <2>1. /\ tick'.at \in {"fire", "judge"} /\ tick'.rows = rows
        /\ tick'.touched = tick.touched
        /\ \A k \in rows : k \in Checkins /\ tick'.listed[k] = tick.listed[k]
    BY <1>2 DEF Judged, CheckinTypeOK, Ticks
  <2>2. NewInv'
    BY <2>1 DEF NewInv, Kept
  <2>3. ListInv'
    BY <2>1 DEF ListInv, Kept, InHand
  <2>4. TaskInv'
    BY DEF TaskInv
  <2>5. TouchInv'
    BY <2>1 DEF TouchInv, InHand
  <2>6. RowInv'
    <3>1. \A k \in Checkins : Wakes(k)' = Wakes(k)
      BY <2>1 DEF Wakes, CheckinTypeOK
    <3> QED
      BY <3>1 DEF RowInv, Kept
  <2>7. FireInv'
    BY <2>1 DEF FireInv, Passed, OfTask
  <2> QED
    BY <2>2, <2>3, <2>4, <2>5, <2>6, <2>7
<1> QED
  BY <1>1, <1>2

\* A row that is doomed by its chain has been woken for Threshold times in a row; the rows
\* that are left have not.
LEMMA StreakLoad ==
    ASSUME LateIInv, StreakInv, LoadTasks
    PROVE  StreakInv'
<1> DEFINE chains == {c \in tick.rows : /\ OfTask(c, Doing)
                                        /\ Exhausted(tick.listed[c], c \in tick.quiet)}
           doomed == {c \in tick.rows : OfTask(c, Suppressed)} \cup chains
<1>1. /\ tick.at = "load" /\ tick' = Judged(doomed, tick.rows \ doomed)
      /\ UNCHANGED <<task, streak, creating, checkin>>
  BY DEF LoadTasks, At, handlers
<1>2. tick.rows \subseteq Checkins
  BY DEF LateIInv, CheckinTypeOK, Ticks
<1>3. ASSUME NEW c \in tick.rows \ doomed, OfTask(c, Doing)
      PROVE  streak[c] < Threshold
  <2>1. ~Exhausted(tick.listed[c], c \in tick.quiet)
    BY <1>3
  <2>2. /\ tick.listed[c] >= streak[c] /\ (streak[c] >= 2 => c \in tick.quiet)
    BY <1>1 DEF StreakInv, ListInv
  <2>3. streak[c] \in Nat /\ tick.listed[c] \in Nat
    BY <1>2, Bounds DEF LateIInv, CheckinTypeOK, Ticks
  <2> QED
    BY <2>1, <2>2, <2>3, ThresholdAssumption DEF Exhausted
<1>4. Kept
  BY <1>1, KeptAll DEF LateIInv, StreakInv
<1>5. doomed \in SUBSET Checkins /\ tick.rows \ doomed \in SUBSET tick.rows
  BY <1>2
<1> HIDE DEF doomed
<1> QED
  BY <1>1, <1>3, <1>4, <1>5, StreakJudged

LEMMA StreakSelect ==
    ASSUME LateIInv, StreakInv, SelectDue
    PROVE  StreakInv'
<1> DEFINE due == {c \in Checkins : Due(checkin[c])}
<1>1. Kept
  BY KeptAll DEF LateIInv, StreakInv, SelectDue
<1>2. tick.at = "select" /\ UNCHANGED <<task, streak, creating, checkin>>
  BY DEF SelectDue, At, handlers
<1>3. CASE due = {}
  <2>1. tick'.at = "idle" /\ tick'.rows = {} /\ tick'.touched = {}
    BY <1>3 DEF SelectDue, Idle
  <2> QED
    BY <1>1, <1>2, <2>1, StreakQuietTick
<1>4. CASE due # {}
  <2> USE DEF LateIInv, StreakInv
  <2>1. /\ tick'.at = "load" /\ tick'.rows = due
        /\ tick'.quiet = {c \in due : checkin[c].quiet}
        /\ tick'.touched = tick.touched
        /\ \A c \in due : tick'.listed[c] = checkin[c].count
    BY <1>4 DEF SelectDue, CountsOf, CheckinTypeOK, Ticks
  <2>2. \A c \in due : c \in Checkins /\ Present(checkin[c])
    BY DEF Due, Live, Present
  <2>3. NewInv'
    BY <1>2, <2>1, <2>2 DEF NewInv, Present
  <2>4. \A c \in Checkins : Wakes(c) = streak[c] /\ Wakes(c)' = streak[c]
    BY <1>2, <2>1, Bounds DEF Wakes, CheckinTypeOK
  <2>5. ListInv'
    BY <1>2, <2>1, <2>2, <2>4 DEF ListInv, RowInv
  <2>6. TaskInv'
    BY <1>2 DEF TaskInv
  <2>7. TouchInv'
    BY <1>2, <2>1 DEF TouchInv, InHand
  <2>8. RowInv'
    BY <1>2, <2>4 DEF RowInv
  <2>9. FireInv'
    BY <1>2, <2>1 DEF FireInv, Passed
  <2> QED
    BY <2>3, <2>5, <2>6, <2>7, <2>8, <2>9
<1> QED
  BY <1>3, <1>4

\* The fire counts the wake to come, and sees that the task has not changed since an
\* earlier one.
LEMMA StreakFire ==
    ASSUME LateIInv, LateIInv', StreakInv, NEW c \in Checkins, Lapse(c) \/ Fire(c)
    PROVE  StreakInv'
<1> USE DEF LateIInv, StreakInv
<1>1. /\ tick.at = "fire" /\ c \in tick.rows
      /\ tick'.at \in {"wake", "expire"} /\ tick'.on = {c} /\ tick'.rows = tick.rows
      /\ tick'.touched = tick.touched /\ tick'.listed = tick.listed
      /\ UNCHANGED <<task, streak, creating>>
  BY DEF Lapse, Fire, At, CheckinTypeOK, Ticks, handlers
<1>2. \A k \in Checkins \ {c} : checkin'[k] = checkin[k]
  BY DEF Lapse, Fire, CheckinTypeOK
<1>3. /\ checkin'[c].status = "new" <=> checkin[c].status = "new"
      /\ ~Present(checkin'[c]) => checkin'[c].count = 0
  <2>1. CASE checkin'[c] = checkin[c]
    BY <2>1 DEF NewInv
  <2>2. CASE Present(checkin[c]) /\ checkin'[c].status = "active"
    BY <2>2 DEF Present
  <2>3. CASE Fire(c) /\ Present(checkin[c])
    <3>1. PICK q \in IF TaskOf[c] \in tick.touched THEN BOOLEAN ELSE {TaskOf[c] # NoTask} :
            checkin' = [checkin EXCEPT ![c] = [@ EXCEPT !.status = "active", !.due = FALSE,
                                                        !.count = Counted(tick.listed[c]),
                                                        !.quiet = q]]
      BY <2>3 DEF Fire
    <3>2. checkin'[c].status = "active"
      BY <3>1 DEF CheckinTypeOK, Rows
    <3> QED
      BY <2>2, <2>3, <3>2
  <2>4. CASE Lapse(c) \/ ~Present(checkin[c])
    BY <2>1, <2>4 DEF Lapse, Fire
  <2> QED
    BY <2>3, <2>4
<1>4. NewInv'
  BY <1>1, <1>2, <1>3 DEF NewInv
<1>5. ListInv'
  BY <1>1, <1>2 DEF ListInv, InHand, CheckinTypeOK, Ticks
<1>6. TaskInv'
  BY <1>1 DEF TaskInv
<1>7. TouchInv'
  BY <1>1 DEF TouchInv, InHand
<1>8. RowInv'
  <2> SUFFICES ASSUME NEW k \in Checkins, Present(checkin'[k])
               PROVE  checkin'[k].count >= Wakes(k)' /\ (Wakes(k)' >= 2 => checkin'[k].quiet)
    BY DEF RowInv
  <2>1. CASE k # c
    <3>1. Wakes(k)' = Wakes(k)
      BY <1>1, <2>1 DEF Wakes
    <3> QED
      BY <1>2, <2>1, <3>1 DEF RowInv
  <2>2. CASE k = c /\ Lapse(c)
    <3>1. Wakes(c)' = Wakes(c) /\ checkin' = checkin
      BY <1>1, <2>2 DEF Wakes, Lapse, CheckinTypeOK, Ticks
    <3> QED
      BY <2>2, <3>1 DEF RowInv
  <2>3. CASE k = c /\ Fire(c)
    <3>1. Present(checkin[c])
      BY <1>3, <2>3 DEF Fire
    <3>2. PICK q \in IF TaskOf[c] \in tick.touched THEN BOOLEAN ELSE {TaskOf[c] # NoTask} :
            checkin'[c] = [checkin[c] EXCEPT !.status = "active", !.due = FALSE,
                                             !.count = Counted(tick.listed[c]), !.quiet = q]
      BY <2>3, <3>1 DEF Fire, CheckinTypeOK
    <3>3. checkin'[c].count = Counted(tick.listed[c]) /\ checkin'[c].quiet = q
      BY <3>2 DEF CheckinTypeOK, Rows
    <3>4. tick.listed[c] = checkin[c].count /\ Wakes(c) = streak[c] + 0
      BY <1>1, <3>1 DEF ListInv, InHand, Wakes
    <3>5. Wakes(c)' = streak[c] + 1
      BY <1>1, <2>3 DEF Wakes, Fire, CheckinTypeOK, Ticks
    <3>6. streak[c] \in Nat /\ streak[c] <= Threshold /\ checkin[c].count \in Nat
      BY Bounds DEF FireInv, CheckinTypeOK, Rows
    <3>7. checkin[c].count >= streak[c]
      BY <3>1, <3>4, <3>6 DEF RowInv
    <3>10. Counted(tick.listed[c]) >= streak[c] + 1
      BY <3>4, <3>6, <3>7, CheckinBoundsAssumption, ThresholdAssumption DEF Counted, Least
    <3>8. streak[c] # 0 => q
      BY <1>1, <3>2 DEF TouchInv, TaskInv, InHand
    <3>9. streak[c] + 1 >= 2 => streak[c] # 0
      BY <3>6
    <3> QED
      BY <2>3, <3>3, <3>5, <3>8, <3>9, <3>10
  <2> QED
    BY <2>1, <2>2, <2>3
<1>9. FireInv'
  BY <1>1 DEF FireInv, Passed, OfTask
<1> QED
  BY <1>4, <1>5, <1>6, <1>7, <1>8, <1>9

LEMMA StreakWake ==
    ASSUME LateIInv, StreakInv, NEW c \in Checkins, Wake(c)
    PROVE  StreakInv'
<1> USE DEF LateIInv, StreakInv
<1>1. /\ tick.at = "wake" /\ c \in tick.rows /\ tick.on = {c}
      /\ tick'.at = "recheck" /\ tick'.on = {c} /\ tick'.rows = tick.rows
      /\ tick'.touched = tick.touched /\ tick'.listed = tick.listed
      /\ UNCHANGED <<task, creating, checkin>>
  BY DEF Wake, At, HandInv, CheckinTypeOK, Ticks, handlers
<1>2. \A k \in Checkins \ {c} : streak'[k] = streak[k]
  BY DEF Wake, CheckinTypeOK
<1>3. streak[c] \in Nat /\ (OfTask(c, Doing) => streak[c] < Threshold)
  BY <1>1, Bounds DEF FireInv, Passed, CheckinTypeOK
<1>4. IF OfTask(c, Doing) THEN streak'[c] = streak[c] + 1 ELSE streak'[c] = 0
  BY <1>3, Bounds DEF Wake, Least, CheckinTypeOK
<1>5. NewInv'
  BY <1>1, <1>2 DEF NewInv
<1>6. ListInv'
  BY <1>1 DEF ListInv, InHand
<1>7. TaskInv'
  <2>1. OfTask(c, Doing) => TaskOf[c] # NoTask /\ task[TaskOf[c]].status = "doing"
    BY DEF OfTask, Doing
  <2> QED
    BY <1>1, <1>2, <1>4, <2>1 DEF TaskInv
<1>8. TouchInv'
  BY <1>1, <1>2 DEF TouchInv, InHand
<1>9. RowInv'
  <2> SUFFICES ASSUME NEW k \in Checkins, Present(checkin[k])
               PROVE  checkin[k].count >= Wakes(k)' /\ (Wakes(k)' >= 2 => checkin[k].quiet)
    BY <1>1 DEF RowInv
  <2>1. /\ checkin[k].count >= Wakes(k) /\ (Wakes(k) >= 2 => checkin[k].quiet)
        /\ checkin[k].count \in Nat
    BY Bounds DEF RowInv, CheckinTypeOK, Rows
  <2>2. CASE k # c
    <3>1. Wakes(k)' = Wakes(k)
      BY <1>1, <1>2, <2>2 DEF Wakes
    <3> QED
      BY <2>1, <3>1
  <2>3. CASE k = c
    <3>1. Wakes(c) = streak[c] + 1 /\ Wakes(c)' = streak'[c] + 0
      BY <1>1 DEF Wakes
    <3> QED
      BY <1>3, <1>4, <2>1, <2>3, <3>1
  <2> QED
    BY <2>2, <2>3
<1>10. FireInv'
  <2>1. streak'[c] <= Threshold
    BY <1>3, <1>4, Bounds
  <2>2. Passed(c)' /\ \A k \in Checkins : ~Passed(k)' => ~Passed(k)
    BY <1>1 DEF Passed
  <2> QED
    BY <1>1, <1>2, <2>1, <2>2 DEF FireInv, OfTask
<1> QED
  BY <1>5, <1>6, <1>7, <1>8, <1>9, <1>10

LEMMA KeptByTick ==
    ASSUME LateIInv, StreakInv, NEW c \in Checkins,
           CloseDoomed(c) \/ Recheck(c) \/ Expire(c) \/ AbandonRow(c)
    PROVE  Kept
<1> USE DEF LateIInv, StreakInv
<1>1. CASE CloseDoomed(c)
  BY <1>1, KeptByClose DEF CloseDoomed
<1>2. CASE UNCHANGED checkin
  BY <1>2, KeptAll
<1>3. CASE Expire(c) /\ Present(checkin[c])
  <2> DEFINE row == [checkin[c] EXCEPT !.status = "expired", !.due = FALSE]
  <2>1. checkin[c] \in Rows
    BY DEF CheckinTypeOK
  <2>2. row \in Rows
    BY <2>1, RowTypes
  <2>3. Present(row) /\ row.count = checkin[c].count /\ row.quiet = checkin[c].quiet
    BY <2>1 DEF Rows, Present
  <2>4. checkin' = [checkin EXCEPT ![c] = row]
    BY <1>3 DEF Expire
  <2> HIDE DEF row
  <2> QED
    BY <1>3, <2>2, <2>3, <2>4, KeptByUpdate
<1> QED
  BY <1>1, <1>2, <1>3 DEF Recheck, Expire, AbandonRow

LEMMA StreakTick ==
    ASSUME LateIInv, LateIInv', StreakInv, TickStep
    PROVE  StreakInv'
<1> USE DEF LateIInv, StreakInv
<1>1. CASE BeginTick
  <2>1. Kept
    BY <1>1, KeptByClose DEF BeginTick
  <2>2. /\ tick'.at = "exhaust" /\ tick'.rows = {} /\ tick'.touched = {}
        /\ UNCHANGED <<task, streak, creating>>
    BY <1>1 DEF BeginTick, Idle, handlers
  <2> QED
    BY <2>1, <2>2, StreakQuietTick
<1>2. CASE CloseExhausted
  <2>1. Kept
    BY <1>2, KeptByClose DEF CloseExhausted
  <2>2. /\ tick.at = "exhaust" /\ tick'.at = "select" /\ tick'.rows = {}
        /\ tick'.touched = tick.touched /\ UNCHANGED <<task, streak, creating>>
    BY <1>2 DEF CloseExhausted, At, ListInv, CheckinTypeOK, Ticks, handlers
  <2> QED
    BY <2>1, <2>2, StreakQuietTick
<1>3. CASE AbandonTick
  <2>1. /\ tick'.at = "idle" /\ tick'.rows = {} /\ tick'.touched = {}
        /\ UNCHANGED <<task, streak, creating, checkin>>
    BY <1>3 DEF AbandonTick, Idle, handlers
  <2> QED
    BY <2>1, KeptAll, StreakQuietTick
<1>4. ASSUME NEW c \in Checkins, CloseDoomed(c)
      PROVE  StreakInv'
  <2>1. /\ tick.at = "judge" /\ tick' = Judged(tick.doomed \ {c}, tick.rows)
        /\ UNCHANGED <<task, streak, creating>>
        /\ tick.doomed \ {c} \in SUBSET Checkins /\ tick.rows \in SUBSET Checkins
    BY <1>4 DEF CloseDoomed, At, CheckinTypeOK, Ticks, handlers
  <2>2. \A k \in tick.rows : OfTask(k, Doing) => streak[k] < Threshold
    BY <2>1 DEF FireInv, Passed
  <2> QED
    BY <1>4, <2>1, <2>2, KeptByTick, StreakJudged
<1>5. ASSUME NEW c \in Checkins, Recheck(c) \/ Expire(c) \/ AbandonRow(c)
      PROVE  StreakInv'
  <2>1. /\ UNCHANGED <<task, streak, creating>> /\ c \in tick.rows
        /\ \/ tick.at = "fire"
           \/ tick.at \in {"wake", "recheck", "expire"} /\ tick.on = {c}
    BY <1>5 DEF Recheck, Expire, AbandonRow, At, HandInv, handlers
  <2>2. Kept
    BY <1>5, KeptByTick
  <2>3. CASE Leave(c)
    BY <2>1, <2>2, <2>3, StreakLeave
  <2>4. CASE ~Leave(c)
    <3>1. /\ tick.at = "recheck" /\ tick.on = {c} /\ UNCHANGED checkin
          /\ tick'.at = "expire" /\ tick'.on = tick.on /\ tick'.rows = tick.rows
          /\ tick'.listed = tick.listed /\ tick'.touched = tick.touched
      BY <1>5, <2>1, <2>4 DEF Recheck, Expire, AbandonRow, At, CheckinTypeOK, Ticks
    <3>2. NewInv' /\ TaskInv'
      BY <2>1, <3>1 DEF NewInv, TaskInv
    <3>3. ListInv' /\ TouchInv'
      BY <2>1, <3>1 DEF ListInv, TouchInv, InHand
    <3>4. RowInv' /\ FireInv'
      BY <2>1, <3>1 DEF RowInv, Wakes, FireInv, Passed, OfTask
    <3> QED
      BY <3>2, <3>3, <3>4
  <2> QED
    BY <2>3, <2>4
<1> QED
  BY <1>1, <1>2, <1>3, <1>4, <1>5, StreakSelect, StreakLoad, StreakFire, StreakWake
     DEF TickStep

\* A change of a task ends the streaks of its check-ins.
LEMMA StreakChange ==
    ASSUME LateIInv, StreakInv, NEW t \in Tasks, NEW row \in TaskRows, Change(t, row),
           UNCHANGED creating
    PROVE  StreakInv'
<1> USE DEF LateIInv, StreakInv
<1>1. /\ tick'.at = tick.at /\ tick'.rows = tick.rows /\ tick'.on = tick.on
      /\ tick'.listed = tick.listed
      /\ tick.at # "idle" => /\ tick'.touched = tick.touched \cup {t}
                             /\ tick'.quiet = tick.quiet \ Linked(t)
      /\ tick.at = "idle" => tick' = tick
  BY DEF Change, At, CheckinTypeOK, Ticks
<1>2. \A c \in Checkins : /\ checkin'[c].status = checkin[c].status
                          /\ checkin'[c].count = checkin[c].count
                          /\ c \notin Linked(t) => checkin'[c] = checkin[c]
  BY DEF Change, CheckinTypeOK, Rows
<1>3. \A c \in Checkins : IF c \in Linked(t) THEN streak'[c] = 0 ELSE streak'[c] = streak[c]
  BY DEF Change
<1>4. \A c \in Checkins : (c \in Linked(t)) <=> (TaskOf[c] = t)
  BY DEF Linked
<1>5. \A u \in Tasks \ {t} : task'[u] = task[u]
  BY DEF Change, CheckinTypeOK
<1>6. \A c \in Checkins : TaskOf[c] # NoTask => TaskOf[c] \in Tasks
  BY TasksAssumption
<1>7. \A c \in Checkins : streak[c] \in Nat /\ checkin[c].count \in Nat
  BY Bounds DEF CheckinTypeOK, Rows
<1>8. tick.rows \subseteq Checkins /\ tick.listed \in [Checkins -> 0..CountBound]
  BY DEF CheckinTypeOK, Ticks
<1>9. NewInv'
  BY <1>1, <1>2, <1>3 DEF NewInv, Present
<1>10. ListInv'
  <2> SUFFICES ASSUME NEW c \in tick.rows
               PROVE  /\ Present(checkin[c]) /\ ~InHand(c) => tick.listed[c] = checkin[c].count
                      /\ tick.at = "load" => /\ tick.listed[c] >= streak'[c]
                                             /\ streak'[c] >= 2 => c \in tick'.quiet
    BY <1>1, <1>2, <1>8 DEF ListInv, Present, InHand
  <2>1. tick.listed[c] \in Nat
    BY <1>8, Bounds
  <2> QED
    BY <1>1, <1>3, <1>7, <1>8, <2>1 DEF ListInv
<1>11. TaskInv'
  BY <1>3, <1>4, <1>5, <1>6 DEF TaskInv
<1>12. TouchInv'
  BY <1>1, <1>3, <1>4 DEF TouchInv, InHand
<1>13. RowInv'
  <2> SUFFICES ASSUME NEW c \in Checkins, Present(checkin[c])
               PROVE  /\ checkin[c].count >= Wakes(c)'
                      /\ Wakes(c)' >= 2 => checkin'[c].quiet
    BY <1>2 DEF RowInv, Present
  <2>1. checkin[c].count >= Wakes(c) /\ (Wakes(c) >= 2 => checkin[c].quiet)
    BY DEF RowInv
  <2>2. CASE c \in Linked(t)
    <3>1. Wakes(c)' <= Wakes(c) /\ Wakes(c)' \in {0, 1} /\ Wakes(c) \in Nat
      BY <1>1, <1>3, <1>7, <2>2 DEF Wakes
    <3> QED
      BY <1>7, <2>1, <3>1
  <2>3. CASE c \notin Linked(t)
    <3>1. Wakes(c)' = Wakes(c)
      BY <1>1, <1>3, <2>3 DEF Wakes
    <3> QED
      BY <1>2, <2>1, <2>3, <3>1
  <2> QED
    BY <2>2, <2>3
<1>14. FireInv'
  <2> SUFFICES ASSUME NEW c \in Checkins
               PROVE  /\ streak'[c] <= Threshold
                      /\ OfTask(c, Doing)' /\ ~Passed(c)' => streak'[c] < Threshold
    BY DEF FireInv
  <2>1. CASE c \in Linked(t)
    BY <1>3, <2>1, ThresholdAssumption
  <2>2. CASE c \notin Linked(t)
    <3>1. OfTask(c, Doing)' => OfTask(c, Doing)
      BY <1>4, <1>5, <1>6, <2>2 DEF OfTask, Doing
    <3> QED
      BY <1>1, <1>3, <2>2, <3>1 DEF FireInv, Passed
  <2> QED
    BY <2>1, <2>2
<1> QED
  BY <1>9, <1>10, <1>11, <1>12, <1>13, <1>14

LEMMA StreakTasks ==
    ASSUME LateIInv, StreakInv, NEW t \in Tasks,
           \/ PatchTask(t) \/ ClaimTask(t) \/ AssignTask(t) \/ FinishTask(t)
           \/ ListLinked(t) \/ CloseLinked(t) \/ DeleteTask(t)
    PROVE  StreakInv'
<1>1. task[t] \in TaskRows
  BY DEF LateIInv, CheckinTypeOK
<1>2. CASE PatchTask(t) \/ ClaimTask(t) \/ AssignTask(t) \/ FinishTask(t)
  <2>1. \A moot \in BOOLEAN : [task[t] EXCEPT !.moot = moot] \in TaskRows
    BY <1>1 DEF TaskRows
  <2>2. /\ [task[t] EXCEPT !.status = "doing"] \in TaskRows
        /\ [task[t] EXCEPT !.status = "done"] \in TaskRows
    BY <1>1 DEF TaskRows
  <2>3. UNCHANGED creating /\ \E row \in TaskRows : Change(t, row)
    BY <1>1, <1>2, <2>1, <2>2
       DEF PatchTask, ClaimTask, AssignTask, FinishTask, TaskRows, handlers
  <2> QED
    BY <2>3, StreakChange
<1>3. CASE ListLinked(t)
  <2>1. Kept /\ TasksKept
    BY <1>3, KeptAll DEF ListLinked, LateIInv, StreakInv, TasksKept
  <2> QED
    BY <1>3, <2>1, StreakRows DEF ListLinked
<1>4. CASE CloseLinked(t)
  <2>1. Kept /\ TasksKept
    BY <1>4, KeptByClose DEF CloseLinked, LateIInv, StreakInv, TasksKept
  <2> QED
    BY <1>4, <2>1, StreakRows DEF CloseLinked
<1>5. CASE DeleteTask(t)
  <2>1. TasksKept
    BY <1>1, <1>5 DEF DeleteTask, TasksKept, LateIInv, CheckinTypeOK, TaskRows
  <2>2. Kept
    <3>1. [NewRow EXCEPT !.status = "deleted"].status = "deleted"
          /\ [NewRow EXCEPT !.status = "deleted"].count = 0
      BY DEF NewRow
    <3> QED
      BY <1>5, <3>1 DEF DeleteTask, Kept, Present, StreakInv, NewInv
  <2> QED
    BY <1>5, <2>1, <2>2, StreakRows DEF DeleteTask, handlers
<1> QED
  BY <1>2, <1>3, <1>4, <1>5

\* Operators write rows that no streak is about: a row that is created has not been
\* fired, and the rest keep what they have counted.
LEMMA StreakOperators ==
    ASSUME LateIInv, StreakInv, NEW c \in Checkins,
           \/ ReadForCreate(c) \/ Create(c) \/ CloseCheckin(c) \/ DeleteCheckin(c)
           \/ ReadForSnooze(c) \/ Snooze(c) \/ ComeDue(c) \/ RunOver(c)
    PROVE  StreakInv'
<1> USE DEF LateIInv, StreakInv
<1>1. checkin[c] \in Rows
  BY DEF CheckinTypeOK
<1>2. CASE ReadForCreate(c)
  <2>1. creating' = creating \cup {c} /\ checkin[c].status = "new"
        /\ UNCHANGED <<task, checkin, tick, streak>>
    BY <1>2 DEF ReadForCreate
  <2>2. NewInv'
    BY <2>1 DEF NewInv
  <2>3. ListInv' /\ TaskInv' /\ TouchInv'
    BY <2>1 DEF ListInv, InHand, TaskInv, TouchInv
  <2>4. RowInv' /\ FireInv'
    BY <2>1 DEF RowInv, Wakes, FireInv, Passed, OfTask
  <2> QED
    BY <2>2, <2>3, <2>4
<1>3. CASE Create(c) /\ ~UNCHANGED checkin
  <2>1. /\ c \in creating /\ creating' = creating \ {c}
        /\ UNCHANGED <<task, tick, streak>>
    BY <1>3 DEF Create
  <2>2. PICK status \in {"active", "snoozed"} : checkin' = [checkin EXCEPT ![c].status = status]
    BY <1>3 DEF Create
  <2>3. /\ checkin'[c].status \in {"active", "snoozed"}
        /\ checkin'[c].count = checkin[c].count
        /\ \A k \in Checkins \ {c} : checkin'[k] = checkin[k]
    BY <1>1, <2>2 DEF CheckinTypeOK, Rows
  <2>4. checkin[c].status = "new" /\ checkin[c].count = 0 /\ streak[c] = 0 /\ c \notin tick.rows
    BY <2>1 DEF NewInv, Present
  <2>5. NewInv'
    BY <2>1, <2>3, <2>4 DEF NewInv, Present
  <2>6. ListInv' /\ TaskInv' /\ TouchInv'
    BY <2>1, <2>3, <2>4 DEF ListInv, InHand, TaskInv, TouchInv, CheckinTypeOK, Ticks
  <2>7. RowInv'
    <3>1. Wakes(c)' = 0
      BY <2>1, <2>4 DEF Wakes, HandInv
    <3>2. \A k \in Checkins : Wakes(k)' = Wakes(k)
      BY <2>1 DEF Wakes
    <3> QED
      BY <2>3, <2>4, <3>1, <3>2 DEF RowInv
  <2>8. FireInv'
    BY <2>1 DEF FireInv, Passed, OfTask
  <2> QED
    BY <2>5, <2>6, <2>7, <2>8
<1>4. CASE /\ \/ Create(c) /\ UNCHANGED checkin
              \/ CloseCheckin(c) \/ DeleteCheckin(c)
              \/ ReadForSnooze(c) \/ Snooze(c) \/ ComeDue(c) \/ RunOver(c)
  <2>1. TasksKept /\ UNCHANGED <<tick, streak>> /\ creating' \subseteq creating
    BY <1>4 DEF Create, CloseCheckin, DeleteCheckin, ReadForSnooze, Snooze, ComeDue, RunOver,
                TasksKept, handlers
  <2>2. Kept
    <3>1. CASE UNCHANGED checkin
      BY <3>1, KeptAll
    <3>2. CASE CloseCheckin(c)
      BY <3>2, KeptByClose DEF CloseCheckin
    <3>3. CASE DeleteCheckin(c)
      <4> DEFINE row == [NewRow EXCEPT !.status = "deleted"]
      <4>1. row \in Rows /\ row.status = "deleted" /\ row.count = 0
        BY NewRowTypes DEF NewRow
      <4>2. checkin' = [checkin EXCEPT ![c] = row] /\ Present(checkin[c])
        BY <3>3 DEF DeleteCheckin
      <4> HIDE DEF row
      <4> QED
        BY <4>1, <4>2, KeptByUpdate
    <3>4. CASE Snooze(c) /\ Present(checkin[c])
      <4> DEFINE row == [checkin[c] EXCEPT !.status = "snoozed", !.due = FALSE]
      <4>1. row \in Rows
        BY <1>1, RowTypes
      <4>2. Present(row) /\ row.count = checkin[c].count /\ row.quiet = checkin[c].quiet
        BY <1>1 DEF Rows, Present
      <4>3. checkin' = [checkin EXCEPT ![c] = row]
        BY <3>4 DEF Snooze
      <4> HIDE DEF row
      <4> QED
        BY <3>4, <4>1, <4>2, <4>3, KeptByUpdate
    <3>5. CASE ComeDue(c)
      <4> DEFINE row == [checkin[c] EXCEPT !.due = TRUE]
      <4>1. row \in Rows
        BY <1>1, RowTypes
      <4>2. /\ Present(row) /\ row.count = checkin[c].count /\ row.quiet = checkin[c].quiet
            /\ Present(checkin[c])
        BY <1>1, <3>5 DEF Rows, Present, ComeDue, Live
      <4>3. checkin' = [checkin EXCEPT ![c] = row]
        BY <3>5 DEF ComeDue
      <4> HIDE DEF row
      <4> QED
        BY <4>1, <4>2, <4>3, KeptByUpdate
    <3>6. CASE RunOver(c)
      <4> DEFINE row == [checkin[c] EXCEPT !.over = TRUE]
      <4>1. row \in Rows
        BY <1>1, RowTypes
      <4>2. /\ Present(row) /\ row.count = checkin[c].count /\ row.quiet = checkin[c].quiet
            /\ Present(checkin[c])
        BY <1>1, <3>6 DEF Rows, Present, RunOver, Live
      <4>3. checkin' = [checkin EXCEPT ![c] = row]
        BY <3>6 DEF RunOver
      <4> HIDE DEF row
      <4> QED
        BY <4>1, <4>2, <4>3, KeptByUpdate
    <3> QED
      BY <1>4, <3>1, <3>2, <3>3, <3>4, <3>5, <3>6 DEF ReadForSnooze, Snooze
  <2> QED
    BY <2>1, <2>2, StreakRows
<1> QED
  BY <1>2, <1>3, <1>4

LEMMA StreakNext ==
    ASSUME LateIInv, LateIInv', StreakInv, [Next]_vars
    PROVE  StreakInv'
<1>1. CASE Restart
  <2>1. /\ tick'.at = "idle" /\ tick'.rows = {} /\ tick'.touched = {} /\ creating' = {}
        /\ UNCHANGED <<task, streak, checkin>>
    BY <1>1 DEF Restart, Idle
  <2> QED
    BY <2>1, KeptAll, StreakQuietTick DEF LateIInv, StreakInv
<1>2. CASE UNCHANGED vars
  <2>1. Kept /\ TasksKept
    BY <1>2, KeptAll DEF vars, LateIInv, StreakInv, TasksKept
  <2> QED
    BY <1>2, <2>1, StreakRows DEF vars, handlers
<1> QED
  BY <1>1, <1>2, StreakTick, StreakTasks, StreakOperators DEF Next

--------------------------------------------------------------------------------
(* Chains: limits                                                              *)

\* What c has counted and what it may yet count.
Room(c) == checkin[c].count + Pending(c) + Snoozes(c)

LEMMA RoomTypes ==
    ASSUME CheckinTypeOK, NEW c \in Checkins
    PROVE  /\ checkin[c].count \in Nat /\ Pending(c) \in {0, 1} /\ Snoozes(c) \in {0, 1}
           /\ Room(c) \in Nat /\ disturbed \in Nat
           /\ Limit[c] # NoLimit => Limit[c] \in Nat /\ Limit[c] >= 1
<1>1. checkin[c].count \in Nat /\ disturbed \in Nat
  BY Bounds DEF CheckinTypeOK, Rows
<1>2. Pending(c) \in {0, 1} /\ Snoozes(c) \in {0, 1}
  BY DEF Pending, Snoozes
<1>3. Room(c) \in Nat
  BY <1>1, <1>2 DEF Room
<1>4. Limit[c] # NoLimit => Limit[c] \in Nat /\ Limit[c] >= 1
  BY LimitAssumption
<1> QED
  BY <1>1, <1>2, <1>3, <1>4

\* A step that leaves each check-in as much room as it had, but for what it disturbs.
LEMMA LimitStep ==
    ASSUME CheckinTypeOK, CheckinTypeOK', LimitInv,
           disturbed' >= disturbed, snoozing' \subseteq snoozing \/ disturbed' > disturbed,
           \A c \in Checkins :
              Limit[c] # NoLimit => \/ Room(c)' <= Room(c) + (disturbed' - disturbed)
                                    \/ Room(c)' <= Limit[c] + disturbed'
    PROVE  LimitInv'
<1>1. disturbed \in Nat /\ disturbed' \in Nat
  BY Bounds DEF CheckinTypeOK
<1>2. snoozing' # {} => disturbed' >= 1
  BY <1>1 DEF LimitInv
<1>3. ASSUME NEW c \in Checkins, Limit[c] # NoLimit
      PROVE  Room(c)' <= Limit[c] + disturbed'
  <2>1. Room(c) <= Limit[c] + disturbed
    BY <1>3 DEF LimitInv, Room
  <2>2. Room(c) \in Nat /\ Limit[c] \in Nat
    BY <1>3, RoomTypes
  <2>3. Room(c)' \in Nat
    <3>1. checkin'[c].count \in Nat /\ Pending(c)' \in {0, 1} /\ Snoozes(c)' \in {0, 1}
      BY Bounds DEF CheckinTypeOK, Rows, Pending, Snoozes
    <3> QED
      BY <3>1 DEF Room
  <2> QED
    BY <1>1, <1>3, <2>1, <2>2, <2>3
<1> QED
  BY <1>2, <1>3 DEF LimitInv, Room

\* A row counts no more than it did, and may be fired only if it might have been.
Calm(c) == /\ checkin'[c].count <= checkin[c].count
           /\ Pending(c)' <= Pending(c)

\* A step that disturbs nothing, or does not need to.
LEMMA LimitCalm ==
    ASSUME CheckinTypeOK, CheckinTypeOK', LimitInv,
           disturbed' >= disturbed, snoozing' \subseteq snoozing,
           \A c \in Checkins : Calm(c)
    PROVE  LimitInv'
<1>1. disturbed \in Nat /\ disturbed' \in Nat
  BY Bounds DEF CheckinTypeOK
<1>2. ASSUME NEW c \in Checkins
      PROVE  Room(c)' <= Room(c) + (disturbed' - disturbed)
  <2>1. checkin[c].count \in Nat /\ Pending(c) \in {0, 1} /\ Snoozes(c) \in {0, 1}
    BY RoomTypes
  <2>2. checkin'[c].count \in Nat /\ Pending(c)' \in {0, 1} /\ Snoozes(c)' \in {0, 1}
    BY Bounds DEF CheckinTypeOK, Rows, Pending, Snoozes
  <2>3. Snoozes(c)' <= Snoozes(c)
    BY DEF Snoozes
  <2> QED
    BY <1>1, <2>1, <2>2, <2>3 DEF Room, Calm
<1> QED
  BY <1>2, LimitStep

\* A row that keeps its count and does not come to life.
Tame(c) == /\ checkin'[c].count <= checkin[c].count
           /\ Live(checkin'[c]) => Live(checkin[c])

LEMMA TameByClose ==
    ASSUME CheckinTypeOK, NEW rows, Close(rows)
    PROVE  \A c \in Checkins : Tame(c)
<1> SUFFICES ASSUME NEW c \in Checkins
             PROVE  Tame(c)
  OBVIOUS
<1>1. checkin[c] \in Rows /\ checkin[c].count \in Nat
  BY Bounds DEF CheckinTypeOK, Rows
<1>2. CASE checkin'[c] = checkin[c]
  BY <1>1, <1>2 DEF Tame
<1>3. CASE checkin'[c] = [checkin[c] EXCEPT !.status = "closed", !.due = FALSE] /\ Live(checkin[c])
  BY <1>1, <1>3 DEF Rows, Live, Tame
<1> QED
  BY <1>2, <1>3 DEF Close

LEMMA TameByAll ==
    ASSUME CheckinTypeOK, UNCHANGED checkin
    PROVE  \A c \in Checkins : Tame(c)
<1>1. \A c \in Checkins : checkin[c].count \in Nat
  BY Bounds DEF CheckinTypeOK, Rows
<1> QED
  BY <1>1 DEF Tame

\* A step of a tick that is not firing, or of others.
LEMMA LimitTame ==
    ASSUME CheckinTypeOK, CheckinTypeOK', LimitInv,
           disturbed' >= disturbed, snoozing' \subseteq snoozing,
           \A c \in Checkins : Tame(c),
           \/ /\ tick'.at = tick.at /\ tick'.rows = tick.rows /\ tick'.on = tick.on
           \/ /\ tick.at \notin {"wake", "recheck", "expire"}
              /\ \A c \in tick'.rows : c \in tick.rows \/ Live(checkin[c])
    PROVE  LimitInv'
<1>1. ASSUME NEW c \in Checkins
      PROVE  Calm(c)
  BY <1>1 DEF Calm, Tame, Pending, InHand
<1> QED
  BY <1>1, LimitCalm

\* The tick leaves c.  If c may be fired again, it still has room.
LEMMA LimitLeave ==
    ASSUME LateIInv, CheckinTypeOK', LimitInv, NEW c \in tick.rows, Leave(c),
           disturbed' >= disturbed, UNCHANGED snoozing,
           \A k \in Checkins : Tame(k),
           \/ tick.at = "fire"
           \/ tick.at \in {"wake", "recheck", "expire"} /\ tick.on = {c},
           \/ disturbed' > disturbed
           \/ ~Live(checkin'[c])
           \/ Limit[c] # NoLimit => checkin'[c].count < Limit[c]
    PROVE  LimitInv'
<1> USE DEF LateIInv
<1>1. /\ tick'.rows \subseteq tick.rows \ {c} /\ tick'.at \in {"idle", "fire"}
      /\ c \in Checkins /\ tick.rows \subseteq Checkins
  BY DEF Leave, Idle, CheckinTypeOK, Ticks
<1>2. disturbed \in Nat /\ disturbed' \in Nat
  BY Bounds DEF CheckinTypeOK
<1>3. ASSUME NEW k \in Checkins, k # c
      PROVE  Room(k)' <= Room(k) + (disturbed' - disturbed)
  <2>1. checkin[k].count \in Nat /\ Pending(k) \in {0, 1} /\ Snoozes(k) \in {0, 1}
    BY RoomTypes
  <2>2. checkin'[k].count \in Nat /\ checkin'[k].count <= checkin[k].count
    BY Bounds DEF CheckinTypeOK, Rows, Tame
  <2>3. Pending(k)' <= Pending(k) /\ Pending(k)' \in {0, 1}
    BY <1>1, <1>3 DEF Pending, InHand, Tame
  <2>4. Snoozes(k)' = Snoozes(k)
    BY DEF Snoozes
  <2> QED
    BY <1>2, <2>1, <2>2, <2>3, <2>4 DEF Room
<1>4. ASSUME Limit[c] # NoLimit
      PROVE  \/ Room(c)' <= Room(c) + (disturbed' - disturbed)
             \/ Room(c)' <= Limit[c] + disturbed'
  <2>1. /\ checkin[c].count \in Nat /\ Pending(c) \in {0, 1} /\ Snoozes(c) \in {0, 1}
        /\ Limit[c] \in Nat
    BY <1>1, <1>4, RoomTypes
  <2>2. checkin'[c].count \in Nat /\ checkin'[c].count <= checkin[c].count
    BY <1>1, Bounds DEF CheckinTypeOK, Rows, Tame
  <2>3. Pending(c)' \in {0, 1} /\ Snoozes(c)' = Snoozes(c)
    BY DEF Pending, Snoozes
  <2>4. CASE disturbed' > disturbed
    BY <1>2, <2>1, <2>2, <2>3, <2>4 DEF Room
  <2>5. CASE ~Live(checkin'[c])
    <3>1. Pending(c)' = 0
      BY <1>1, <2>5 DEF Pending
    <3> QED
      BY <1>2, <2>1, <2>2, <2>3, <3>1 DEF Room
  <2>6. CASE checkin'[c].count < Limit[c]
    <3>1. Snoozes(c) <= disturbed
      BY <1>2 DEF Snoozes, LimitInv
    <3> QED
      BY <1>2, <2>1, <2>2, <2>3, <2>6, <3>1 DEF Room
  <2> QED
    BY <1>4, <2>4, <2>5, <2>6
<1> QED
  BY <1>2, <1>3, <1>4, LimitStep

LEMMA LimitFire ==
    ASSUME LateIInv, CheckinTypeOK', StreakInv, LimitInv, NEW c \in Checkins, Fire(c)
    PROVE  LimitInv'
<1> USE DEF LateIInv
<1>1. /\ tick.at = "fire" /\ c \in tick.rows
      /\ tick'.at = "wake" /\ tick'.on = {c} /\ tick'.rows = tick.rows
      /\ UNCHANGED <<disturbed, snoozing>>
  BY DEF Fire, At, CheckinTypeOK, Ticks, handlers
<1>2. \A k \in Checkins \ {c} : checkin'[k] = checkin[k]
  BY DEF Fire, CheckinTypeOK
<1>3. \A k \in Checkins : checkin[k].count \in Nat /\ Pending(k) \in {0, 1}
                          /\ Snoozes(k) \in {0, 1} /\ checkin'[k].count \in Nat
  BY Bounds DEF CheckinTypeOK, Rows, Pending, Snoozes
<1>4. \A k \in Checkins : Snoozes(k)' = Snoozes(k)
  BY <1>1 DEF Snoozes
<1>5. \A k \in Checkins \ {c} : Pending(k)' = Pending(k)
  BY <1>1, <1>2 DEF Pending, InHand
<1>6. Pending(c) = 1 /\ Pending(c)' = 0
  BY <1>1 DEF Pending, InHand
<1>7. checkin'[c].count <= checkin[c].count + 1
  <2>1. CASE Present(checkin[c])
    <3>1. tick.listed[c] = checkin[c].count
      BY <1>1, <2>1 DEF StreakInv, ListInv, InHand
    <3>2. checkin'[c].count = Counted(tick.listed[c])
      BY <2>1 DEF Fire, CheckinTypeOK, Rows
    <3>3. Counted(checkin[c].count) <= checkin[c].count + 1
      BY <1>3, Bounds DEF Counted, Least
    <3> QED
      BY <3>1, <3>2, <3>3
  <2>2. CASE ~Present(checkin[c])
    BY <1>3, <2>2 DEF Fire
  <2> QED
    BY <2>1, <2>2
<1>8. disturbed \in Nat
  BY Bounds DEF CheckinTypeOK
<1>9. ASSUME NEW k \in Checkins
      PROVE  Room(k)' <= Room(k) + (disturbed' - disturbed)
  <2>1. CASE k = c
    BY <1>1, <1>3, <1>4, <1>6, <1>7, <1>8, <2>1 DEF Room
  <2>2. CASE k # c
    <3>1. Room(k)' = Room(k) /\ Room(k) \in Nat
      BY <1>2, <1>3, <1>4, <1>5, <2>2 DEF Room
    <3> QED
      BY <1>1, <1>8, <3>1
  <2> QED
    BY <2>1, <2>2
<1> QED
  BY <1>1, <1>8, <1>9, LimitStep

LEMMA LimitTick ==
    ASSUME LateIInv, CheckinTypeOK', StreakInv, LimitInv, TickStep
    PROVE  LimitInv'
<1> USE DEF LateIInv
<1>1. disturbed \in Nat
  BY Bounds DEF CheckinTypeOK
<1>2. CASE BeginTick \/ CloseExhausted
  <2>1. /\ tick.at \in {"idle", "exhaust"} /\ tick'.rows = {}
        /\ UNCHANGED <<snoozing, disturbed>>
    BY <1>2 DEF BeginTick, CloseExhausted, At, Idle, StreakInv, ListInv, CheckinTypeOK, Ticks,
                handlers
  <2>2. \A c \in Checkins : Tame(c)
    BY <1>2, TameByClose DEF BeginTick, CloseExhausted
  <2> QED
    BY <1>1, <2>1, <2>2, LimitTame
<1>3. CASE SelectDue \/ LoadTasks \/ AbandonTick
  <2>1. /\ tick.at \in {"exhaust", "select", "load", "judge"}
        /\ UNCHANGED <<snoozing, checkin>> /\ disturbed' >= disturbed
    BY <1>1, <1>3 DEF SelectDue, LoadTasks, AbandonTick, Disturb, At, handlers
  <2>2. \A c \in tick'.rows : c \in tick.rows \/ Live(checkin[c])
    <3>1. CASE SelectDue
      BY <3>1 DEF SelectDue, Idle, Due, CheckinTypeOK, Ticks
    <3>2. CASE LoadTasks
      <4>1. PICK doomed : tick' = Judged(doomed, tick.rows \ doomed)
        BY <3>2 DEF LoadTasks
      <4> QED
        BY <4>1 DEF Judged, Idle, CheckinTypeOK, Ticks
    <3>3. CASE AbandonTick
      BY <3>3 DEF AbandonTick, Idle
    <3> QED
      BY <1>3, <3>1, <3>2, <3>3
  <2> QED
    BY <2>1, <2>2, TameByAll, LimitTame
<1>4. ASSUME NEW c \in Checkins, CloseDoomed(c)
      PROVE  LimitInv'
  <2>1. /\ tick.at = "judge" /\ tick'.rows \subseteq tick.rows
        /\ UNCHANGED <<snoozing, disturbed>>
    BY <1>4 DEF CloseDoomed, Judged, At, Idle, CheckinTypeOK, Ticks, handlers
  <2>2. \A k \in Checkins : Tame(k)
    BY <1>4, TameByClose DEF CloseDoomed
  <2> QED
    BY <1>1, <2>1, <2>2, LimitTame
<1>5. ASSUME NEW c \in Checkins, Lapse(c) \/ Wake(c)
      PROVE  LimitInv'
  <2>1. /\ UNCHANGED <<snoozing, disturbed, checkin>> /\ tick'.rows = tick.rows
        /\ \/ tick.at = "fire"
           \/ /\ tick.at = "wake" /\ tick'.at = "recheck"
              /\ tick'.on = tick.on
    BY <1>5 DEF Lapse, Wake, At, CheckinTypeOK, Ticks, handlers
  <2>2. \A k \in Checkins : checkin[k].count \in Nat
    BY Bounds DEF CheckinTypeOK, Rows
  <2>3. \A k \in Checkins : Calm(k)
    BY <2>1, <2>2 DEF Calm, Pending, InHand
  <2> QED
    BY <1>1, <2>1, <2>3, LimitCalm
<1>6. ASSUME NEW c \in Checkins, Recheck(c) \/ Expire(c) \/ AbandonRow(c)
      PROVE  LimitInv'
  <2>1. /\ UNCHANGED snoozing /\ disturbed' >= disturbed
        /\ AbandonRow(c) => disturbed' > disturbed
    BY <1>1, <1>6 DEF Recheck, Expire, AbandonRow, Disturb, handlers
  <2>2. /\ c \in tick.rows
        /\ \/ tick.at = "fire"
           \/ tick.at \in {"wake", "recheck", "expire"} /\ tick.on = {c}
    BY <1>6 DEF Recheck, Expire, AbandonRow, At, HandInv
  <2>3. CASE Expire(c)
    <3>1. checkin[c] \in Rows
      BY DEF CheckinTypeOK
    <3>2. /\ ~Live(checkin'[c]) /\ checkin'[c].count = checkin[c].count
          /\ \A k \in Checkins \ {c} : checkin'[k] = checkin[k]
      <4>1. CASE Present(checkin[c])
        BY <2>3, <3>1, <4>1 DEF Expire, CheckinTypeOK, Rows, Live
      <4>2. CASE ~Present(checkin[c])
        BY <2>3, <4>2 DEF Expire, Present, Live
      <4> QED
        BY <4>1, <4>2
    <3>3. \A k \in Checkins : checkin[k].count \in Nat
      BY Bounds DEF CheckinTypeOK, Rows
    <3>4. \A k \in Checkins : Tame(k)
      BY <3>2, <3>3 DEF Tame
    <3>5. Leave(c)
      BY <2>3 DEF Expire
    <3> QED
      BY <2>1, <2>2, <3>2, <3>4, <3>5, LimitLeave
  <2>4. CASE AbandonRow(c)
    <3>1. Leave(c) /\ \A k \in Checkins : Tame(k)
      BY <2>4, TameByAll DEF AbandonRow
    <3> QED
      BY <2>1, <2>2, <2>4, <3>1, LimitLeave
  <2>5. CASE Recheck(c) /\ ~UsedUp(c)
    <3>1. Leave(c) /\ UNCHANGED checkin /\ \A k \in Checkins : Tame(k)
      BY <2>5, TameByAll DEF Recheck
    <3>2. ~Live(checkin'[c]) \/ (Limit[c] # NoLimit => checkin'[c].count < Limit[c])
      <4>1. checkin[c].count \in Nat /\ (Limit[c] # NoLimit => Limit[c] \in Nat)
        BY RoomTypes
      <4> QED
        BY <2>5, <3>1, <4>1 DEF UsedUp, Live, Present
    <3> QED
      BY <2>1, <2>2, <3>1, <3>2, LimitLeave
  <2>6. CASE Recheck(c) /\ UsedUp(c)
    <3>1. /\ tick'.rows = tick.rows /\ tick'.on = tick.on /\ UNCHANGED checkin
          /\ tick.at = "recheck" /\ tick'.at = "expire"
      BY <2>6 DEF Recheck, At, CheckinTypeOK, Ticks
    <3>2. \A k \in Checkins : checkin[k].count \in Nat
      BY Bounds DEF CheckinTypeOK, Rows
    <3>3. \A k \in Checkins : Calm(k)
      BY <3>1, <3>2 DEF Calm, Pending, InHand
    <3> QED
      BY <2>1, <3>3, LimitCalm
  <2> QED
    BY <1>6, <2>3, <2>4, <2>5, <2>6
<1> QED
  BY <1>2, <1>3, <1>4, <1>5, <1>6, LimitFire DEF TickStep

LEMMA LimitTasks ==
    ASSUME LateIInv, CheckinTypeOK', StreakInv, LimitInv, NEW t \in Tasks,
           \/ PatchTask(t) \/ ClaimTask(t) \/ AssignTask(t) \/ FinishTask(t)
           \/ ListLinked(t) \/ CloseLinked(t) \/ DeleteTask(t)
    PROVE  LimitInv'
<1> USE DEF LateIInv
<1>1. disturbed \in Nat /\ UNCHANGED <<disturbed, snoozing>>
  BY Bounds DEF CheckinTypeOK, PatchTask, ClaimTask, AssignTask, FinishTask, ListLinked,
                CloseLinked, DeleteTask, handlers
<1>2. \A k \in Checkins : checkin[k] \in Rows /\ checkin[k].count \in Nat
  BY Bounds DEF CheckinTypeOK, Rows
<1>3. CASE PatchTask(t) \/ ClaimTask(t) \/ AssignTask(t) \/ FinishTask(t)
  <2>1. PICK row : Change(t, row)
    BY <1>3 DEF PatchTask, ClaimTask, AssignTask, FinishTask
  <2>2. tick'.at = tick.at /\ tick'.rows = tick.rows /\ tick'.on = tick.on
    BY <2>1 DEF Change, CheckinTypeOK, Ticks
  <2>3. \A k \in Checkins : /\ checkin'[k].status = checkin[k].status
                            /\ checkin'[k].count = checkin[k].count
    BY <1>2, <2>1 DEF Change, Rows
  <2>4. \A k \in Checkins : Tame(k)
    BY <1>2, <2>3 DEF Tame, Live
  <2> QED
    BY <1>1, <2>2, <2>4, LimitTame
<1>4. CASE ListLinked(t)
  BY <1>1, <1>4, TameByAll, LimitTame DEF ListLinked
<1>5. CASE CloseLinked(t)
  BY <1>1, <1>5, TameByClose, LimitTame DEF CloseLinked
<1>6. CASE DeleteTask(t)
  <2>1. /\ [NewRow EXCEPT !.status = "deleted"].status = "deleted"
        /\ [NewRow EXCEPT !.status = "deleted"].count = 0
    BY DEF NewRow
  <2>2. UNCHANGED tick /\ \A k \in Checkins : Tame(k)
    BY <1>2, <1>6, <2>1 DEF DeleteTask, Tame, Live
  <2> QED
    BY <1>1, <2>2, LimitTame
<1> QED
  BY <1>3, <1>4, <1>5, <1>6

\* A new row has a wake to come, and a limit of one at least; a snooze that revives a row
\* has been counted as a disturbance when it began.
LEMMA LimitOperators ==
    ASSUME LateIInv, CheckinTypeOK', StreakInv, LimitInv, NEW c \in Checkins,
           \/ ReadForCreate(c) \/ Create(c) \/ CloseCheckin(c) \/ DeleteCheckin(c)
           \/ ReadForSnooze(c) \/ Snooze(c) \/ ComeDue(c) \/ RunOver(c)
    PROVE  LimitInv'
<1> USE DEF LateIInv
<1>1. disturbed \in Nat /\ UNCHANGED tick
  BY Bounds DEF CheckinTypeOK, ReadForCreate, Create, CloseCheckin, DeleteCheckin,
                ReadForSnooze, Snooze, ComeDue, RunOver
<1>2. \A k \in Checkins : checkin[k] \in Rows /\ checkin[k].count \in Nat
  BY Bounds DEF CheckinTypeOK, Rows
<1>3. CASE ReadForCreate(c) \/ (Create(c) /\ UNCHANGED checkin)
  BY <1>1, <1>3, TameByAll, LimitTame DEF ReadForCreate, Create
<1>4. CASE CloseCheckin(c)
  BY <1>1, <1>4, TameByClose, LimitTame DEF CloseCheckin, handlers
<1>5. CASE DeleteCheckin(c) \/ ComeDue(c) \/ RunOver(c)
  <2>1. \A k \in Checkins \ {c} : checkin'[k] = checkin[k]
    BY <1>5 DEF DeleteCheckin, ComeDue, RunOver, CheckinTypeOK
  <2>2. checkin'[c].count <= checkin[c].count /\ (Live(checkin'[c]) => Live(checkin[c]))
    <3>1. CASE DeleteCheckin(c)
      <4>1. checkin'[c].status = "deleted" /\ checkin'[c].count = 0
        BY <3>1 DEF DeleteCheckin, NewRow, CheckinTypeOK
      <4> QED
        BY <1>2, <4>1 DEF Live
    <3>2. CASE ComeDue(c)
      BY <1>2, <3>2 DEF ComeDue, CheckinTypeOK, Rows
    <3>3. CASE RunOver(c)
      BY <1>2, <3>3 DEF RunOver, CheckinTypeOK, Rows
    <3> QED
      BY <1>5, <3>1, <3>2, <3>3
  <2>3. \A k \in Checkins : Tame(k)
    BY <1>2, <2>1, <2>2 DEF Tame
  <2>4. UNCHANGED <<snoozing, disturbed>>
    BY <1>5 DEF DeleteCheckin, ComeDue, RunOver, handlers
  <2> QED
    BY <1>1, <2>3, <2>4, LimitTame
<1>6. CASE Create(c) /\ ~UNCHANGED checkin
  <2>1. c \in creating /\ UNCHANGED <<snoozing, disturbed>>
    BY <1>6 DEF Create
  <2>2. checkin[c].count = 0
    BY <2>1 DEF StreakInv, NewInv, Present
  <2>3. /\ checkin'[c].count = 0
        /\ \A k \in Checkins \ {c} : checkin'[k] = checkin[k]
    BY <1>2, <1>6, <2>2 DEF Create, CheckinTypeOK, Rows
  <2>4. ASSUME NEW k \in Checkins, Limit[k] # NoLimit
        PROVE  \/ Room(k)' <= Room(k) + (disturbed' - disturbed)
               \/ Room(k)' <= Limit[k] + disturbed'
    <3>1. CASE k = c
      <4>1. Snoozes(c)' = Snoozes(c) /\ Snoozes(c) \in Nat /\ Snoozes(c) <= disturbed
        BY <1>1, <2>1 DEF Snoozes, LimitInv
      <4>2. Pending(c)' \in {0, 1} /\ Limit[c] \in Nat /\ Limit[c] >= 1
        BY <2>4, <3>1, LimitAssumption DEF Pending
      <4> QED
        BY <1>1, <2>1, <2>3, <3>1, <4>1, <4>2 DEF Room
    <3>2. CASE k # c
      <4>1. Room(k)' = Room(k)
        BY <1>1, <2>1, <2>3, <3>2 DEF Room, Pending, Snoozes, InHand
      <4> QED
        BY <1>1, <2>1, <4>1, RoomTypes
    <3> QED
      BY <3>1, <3>2
  <2> QED
    BY <1>1, <2>1, <2>4, LimitStep
<1>7. CASE ReadForSnooze(c)
  <2>1. /\ disturbed' = disturbed + 1 /\ snoozing' = snoozing \cup {c} /\ UNCHANGED checkin
    BY <1>7 DEF ReadForSnooze, Disturb
  <2>2. ASSUME NEW k \in Checkins
        PROVE  Room(k)' <= Room(k) + (disturbed' - disturbed)
    <3>1. checkin'[k].count = checkin[k].count /\ Pending(k)' = Pending(k)
      BY <1>1, <2>1 DEF Pending, InHand
    <3>2. Snoozes(k) \in {0, 1} /\ Snoozes(k)' \in {0, 1} /\ Pending(k) \in {0, 1}
      BY DEF Snoozes, Pending
    <3> QED
      BY <1>1, <1>2, <2>1, <3>1, <3>2 DEF Room
  <2> QED
    BY <1>1, <2>1, <2>2, LimitStep
<1>8. CASE Snooze(c)
  <2>1. c \in snoozing /\ snoozing' = snoozing \ {c} /\ UNCHANGED disturbed
    BY <1>8 DEF Snooze
  <2>2. /\ checkin'[c].count = checkin[c].count
        /\ \A k \in Checkins \ {c} : checkin'[k] = checkin[k]
    BY <1>2, <1>8 DEF Snooze, CheckinTypeOK, Rows
  <2>3. ASSUME NEW k \in Checkins
        PROVE  Room(k)' <= Room(k) + (disturbed' - disturbed)
    <3>1. CASE k = c
      <4>1. Snoozes(c) = 1 /\ Snoozes(c)' = 0
        BY <2>1 DEF Snoozes
      <4>2. Pending(c) \in {0, 1} /\ Pending(c)' \in {0, 1}
        BY DEF Pending
      <4> QED
        BY <1>1, <1>2, <2>1, <2>2, <3>1, <4>1, <4>2 DEF Room
    <3>2. CASE k # c
      <4>1. Room(k)' = Room(k)
        BY <1>1, <2>1, <2>2, <3>2 DEF Room, Pending, Snoozes, InHand
      <4> QED
        BY <1>1, <2>1, <4>1, RoomTypes
    <3> QED
      BY <3>1, <3>2
  <2> QED
    BY <1>1, <2>1, <2>3, LimitStep
<1>9. \/ ReadForCreate(c) \/ (Create(c) /\ UNCHANGED checkin)
      \/ (Create(c) /\ ~UNCHANGED checkin)
      \/ CloseCheckin(c) \/ DeleteCheckin(c) \/ ReadForSnooze(c) \/ Snooze(c)
      \/ ComeDue(c) \/ RunOver(c)
  OBVIOUS
<1> QED
  BY <1>3, <1>4, <1>5, <1>6, <1>7, <1>8, <1>9

LEMMA LimitNext ==
    ASSUME LateIInv, LateIInv', StreakInv, LimitInv, [Next]_vars
    PROVE  LimitInv'
<1>1. CASE Restart
  <2>1. /\ UNCHANGED checkin /\ snoozing' = {} /\ disturbed' = disturbed + 1
    BY <1>1 DEF Restart, Disturb
  <2>2. disturbed \in Nat
    BY Bounds DEF LateIInv, CheckinTypeOK
  <2>3. ASSUME NEW k \in Checkins
        PROVE  Room(k)' <= Room(k) + (disturbed' - disturbed)
    <3>1. checkin[k].count \in Nat /\ Pending(k) \in {0, 1} /\ Snoozes(k) \in {0, 1}
      BY RoomTypes DEF LateIInv
    <3>2. Pending(k)' \in {0, 1} /\ Snoozes(k)' = 0
      BY <2>1 DEF Pending, Snoozes
    <3> QED
      BY <2>1, <2>2, <3>1, <3>2 DEF Room
  <2> QED
    BY <2>1, <2>2, <2>3, LimitStep DEF LateIInv
<1>2. CASE UNCHANGED vars
  <2>1. /\ UNCHANGED <<tick, checkin, snoozing, disturbed>>
    BY <1>2 DEF vars, handlers
  <2>2. disturbed \in Nat
    BY Bounds DEF LateIInv, CheckinTypeOK
  <2> QED
    BY <2>1, <2>2, TameByAll, LimitTame DEF LateIInv
<1>3. CheckinTypeOK'
  BY DEF LateIInv
<1> QED
  BY <1>1, <1>2, <1>3, LimitTick, LimitTasks, LimitOperators DEF Next

LEMMA ChainNext == ChainIInv /\ [Next]_vars => ChainIInv'
<1> SUFFICES ASSUME ChainIInv, [Next]_vars
             PROVE  ChainIInv'
  OBVIOUS
<1>1. LateIInv'
  BY LateNext DEF ChainIInv
<1>2. StreakInv' /\ LimitInv'
  BY <1>1, StreakNext, LimitNext DEF ChainIInv
<1> QED
  BY <1>1, <1>2 DEF ChainIInv

LEMMA ChainInit == Init => ChainIInv
<1> SUFFICES ASSUME Init PROVE ChainIInv
  OBVIOUS
<1>1. CheckinTypeOK
  BY TypesInit
<1>2. HandInv /\ LateInv
  BY DEF Init, Idle, HandInv, LateInv
<1>3. /\ tick.at = "idle" /\ tick.rows = {} /\ creating = {} /\ snoozing = {} /\ disturbed = 0
      /\ \A c \in Checkins : /\ checkin[c].status = "new" /\ checkin[c].count = 0
                             /\ streak[c] = 0
  BY DEF Init, Idle, NewRow
<1>4. NewInv /\ ListInv /\ TaskInv /\ TouchInv
  BY <1>3 DEF NewInv, ListInv, TaskInv, TouchInv
<1>5. RowInv /\ FireInv
  BY <1>3, ThresholdAssumption DEF RowInv, Present, FireInv
<1>6. LimitInv
  <2>1. \A c \in Checkins : Pending(c) = 0 /\ Snoozes(c) = 0
    BY <1>3 DEF Pending, Snoozes, Live
  <2> QED
    BY <1>3, <2>1, LimitAssumption DEF LimitInv
<1> QED
  BY <1>1, <1>2, <1>4, <1>5, <1>6 DEF ChainIInv, LateIInv, StreakInv

\* Wakes come to an end: a task that is doing and does not change wakes its owner
\* Threshold times in a row at most, and max_iterations is exceeded by no more than what
\* snoozes, throws and restarts add.
THEOREM ChainsEnd == Spec => []ChainsStop
<1>1. ChainIInv => ChainsStop
  <2> SUFFICES ASSUME ChainIInv, NEW c \in Checkins
               PROVE  /\ streak[c] <= Threshold
                      /\ Limit[c] # NoLimit => checkin[c].count <= Limit[c] + disturbed
    BY DEF ChainsStop
  <2>1. streak[c] <= Threshold
    BY DEF ChainIInv, StreakInv, FireInv
  <2>2. ASSUME Limit[c] # NoLimit
        PROVE  checkin[c].count <= Limit[c] + disturbed
    <3>1. checkin[c].count + Pending(c) + Snoozes(c) <= Limit[c] + disturbed
      BY <2>2 DEF ChainIInv, LimitInv
    <3>2. /\ checkin[c].count \in Nat /\ Pending(c) \in {0, 1} /\ Snoozes(c) \in {0, 1}
          /\ Limit[c] \in Nat /\ disturbed \in Nat
      BY <2>2, RoomTypes DEF ChainIInv, LateIInv
    <3> QED
      BY <3>1, <3>2
  <2> QED
    BY <2>1, <2>2
<1> QED
  BY <1>1, ChainInit, ChainNext, PTL DEF Spec

================================================================================
