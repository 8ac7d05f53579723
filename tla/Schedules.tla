------------------------------- MODULE Schedules -------------------------------
(***************************************************************************)
(* Schedules: heartbeats and calendar events that are posted to agents.    *)
(* Every 30 seconds SchedulerService starts a tick, whether the last one   *)
(* has ended or not.  A tick computes what fell due since the last tick    *)
(* that ended, inserts a run row for each occurrence and agent, posts it   *)
(* and records the outcome; a post has no timeout.  Operators seed, pause, *)
(* resume and remove schedules between any two steps of a tick; a step may *)
(* throw and the manager may stop anywhere.                                *)
(***************************************************************************)
EXTENDS Naturals, FiniteSets

CONSTANTS
    Heartbeats,       \* schedules of kind heartbeat
    Events,           \* schedules of kind calendar
    Agents,           \* agents
    Slow,             \* agents that may never answer a post
    TargetsOf,        \* TargetsOf[s]: the agents s is seeded for
    Interval,         \* Interval[s]: interval_seconds of a heartbeat
    Life,             \* Life[s]: a heartbeat expires so long after its anchor
    MaxRuns,          \* MaxRuns[s]: max_runs
    NoMax,            \* max_runs, when it is null
    Times,            \* Times[s]: the instants of an event, in its own time zone
    Policy,           \* Policy[s]: catch_up_policy
    Dedupe,           \* dedupe_window_seconds
    Drift,            \* the timer starts a tick at least so often
    Ticks,            \* how many ticks there can be at once
    Horizon,          \* the last instant
    DisturbanceBound, \* the most edits, throws and restarts
    None              \* no run, no agent

Schedules == Heartbeats \cup Events
Instants  == 0..Horizon

ASSUME KindsAssumption == Heartbeats \cap Events = {}
ASSUME TargetsAssumption == TargetsOf \in [Schedules -> SUBSET Agents]
ASSUME TimesAssumption ==
    /\ Horizon \in Nat \ {0}
    /\ Interval \in [Heartbeats -> Nat \ {0}] /\ Life \in [Heartbeats -> Nat]
    /\ Times \in [Events -> SUBSET (Instants \ {0})]
    /\ Policy \in [Schedules -> {"fire_once", "skip"}]
    /\ Dedupe \in Nat /\ Drift \in Nat /\ Drift <= Dedupe
\* An event falls due once a day: not twice in one dedupe window.
ASSUME DailyAssumption ==
    \A s \in Events : \A k, j \in Times[s] : k < j => k + Dedupe < j
ASSUME MaxRunsAssumption == NoMax \notin Nat /\ MaxRuns \in [Schedules -> Nat \cup {NoMax}]
ASSUME ScheduleBoundAssumption == DisturbanceBound \in Nat
ASSUME NoneAssumption == None \notin (Schedules \X Instants) \cup Agents

VARIABLES
    now,       \* the clock
    begun,     \* when the last tick was started
    last,      \* lastTickAtSec, kept in memory
    def,       \* def[s]: row s of schedule_definitions
    target,    \* target[s]: the rows of schedule_targets
    run,       \* run[j]: the row of schedule_runs for a schedule, an agent and a key
    tick,      \* tick[t]: a tick under way
    edit,      \* edit[s]: how far a request of an operator about s is
    disturbed, \* how many edits, throws and restarts there have been
    posted,    \* posted[j]: posts for a schedule, an agent and a key that were sent
    cleared,   \* cleared[s]: how often the run rows of s were deleted
    since      \* since[s]: when s was last edited, or a tick was cut short

vars == <<now, begun, last, def, target, run, tick, edit, disturbed, posted, cleared,
          since>>

clock  == <<now, begun, last>>
tables == <<def, target, run>>
marks  == <<posted, cleared, since>>

--------------------------------------------------------------------------------
(* State *)

\* A run of a schedule, and a run for one agent: the primary key of schedule_runs.
Runs == Schedules \X Instants
Jobs == Schedules \X Agents \X Instants

Statuses == {"none", "pending", "sent", "failed", "skipped"}

Definitions == [there : BOOLEAN, active : BOOLEAN, anchor : Instants]

\* todo: due runs not begun; run: the one in hand; agents: its agents not begun; agent:
\* the one in hand; outcome: what is to be recorded.
TickStates == [at : {"idle", "list", "run", "agent", "insert", "resolve", "post", "record"},
               from : Instants, to : Instants, todo : SUBSET Runs,
               run : Runs \cup {None}, agents : SUBSET Agents, agent : Agents \cup {None},
               outcome : Statuses]

Idle == [at |-> "idle", from |-> 0, to |-> 0, todo |-> {}, run |-> None, agents |-> {},
         agent |-> None, outcome |-> "none"]

\* The manager starts with the schedules its tables hold.
Init == /\ now = 1 /\ begun = 1 /\ last = 0
        /\ \E held \in SUBSET Schedules :
             /\ def    = [s \in Schedules |-> [there |-> s \in held, active |-> s \in held,
                                              anchor |-> 0]]
             /\ target = [s \in Schedules |-> IF s \in held THEN TargetsOf[s] ELSE {}]
        /\ run       = [j \in Jobs |-> "none"]
        /\ tick      = [t \in Ticks |-> Idle]
        /\ edit      = [s \in Schedules |-> "none"]
        /\ disturbed = 0
        /\ posted    = [j \in Jobs |-> 0]
        /\ cleared   = [s \in Schedules |-> 0]
        /\ since     = [s \in Schedules |-> 0]

Disturb == disturbed < DisturbanceBound /\ disturbed' = disturbed + 1

--------------------------------------------------------------------------------
(* What falls due *)

\* The instants at which a schedule falls due.
Occurrences(s, d) ==
    IF s \in Events THEN Times[s]
    ELSE {k \in Instants : \E n \in 0..Horizon :
            /\ k = d.anchor + n * Interval[s]
            /\ k < d.anchor + Life[s]
            /\ MaxRuns[s] # NoMax => n < MaxRuns[s]}

\* Mutant of DueRuns: an occurrence at the end of the window is left to a later tick.
DueBefore(s, d, from, to) ==
    LET due == {k \in Occurrences(s, d) : from < k /\ k < to}
    IN  IF Policy[s] = "fire_once" THEN {k \in due : \A j \in due : j <= k}
        ELSE {k \in due : to <= k + Dedupe}

\* evaluateIntervalSchedule and evaluateCalendarSchedule
DueRuns(s, d, from, to) ==
    LET due == {k \in Occurrences(s, d) : from < k /\ k <= to}
    IN  IF Policy[s] = "fire_once" THEN {k \in due : \A j \in due : j <= k}
        ELSE {k \in due : to <= k + Dedupe}

Sent(s, a) == {k \in Instants : run[<<s, a, k>>] = "sent"}

ReachedMax(s, a) == MaxRuns[s] # NoMax /\ Cardinality(Sent(s, a)) >= MaxRuns[s]

--------------------------------------------------------------------------------
(* A tick *)

At(t, step) == tick[t].at = step
Job(t) == <<tick[t].run[1], tick[t].agent, tick[t].run[2]>>

\* Mutant of MayBegin: a tick waits for the last one, as the dispatch scheduler's do.
BeginAlone(t) == \A u \in Ticks : At(u, "idle")

\* The timer does not ask whether a tick is under way.
MayBegin(t) == At(t, "idle")

Begin(t) ==
    /\ MayBegin(t)
    /\ tick' = [tick EXCEPT ![t] = [Idle EXCEPT !.at = "list", !.from = last, !.to = now]]
    /\ begun' = now
    /\ UNCHANGED <<now, last, tables, edit, disturbed, marks>>

\* listActiveDefinitions
List(t) ==
    /\ At(t, "list")
    /\ tick' = [tick EXCEPT ![t].at = "run",
                  ![t].todo = {r \in Runs :
                     /\ def[r[1]].there /\ def[r[1]].active
                     /\ r[2] \in DueRuns(r[1], def[r[1]], tick[t].from, tick[t].to)}]
    /\ UNCHANGED <<clock, tables, edit, disturbed, marks>>

\* The loop over the agents of a run is at its end.
RunDone(t) == At(t, "run") \/ (At(t, "agent") /\ tick[t].agents = {})

\* listTargets
NextRun(t) ==
    /\ RunDone(t)
    /\ \E r \in tick[t].todo :
         tick' = [tick EXCEPT ![t].at = "agent", ![t].todo = @ \ {r}, ![t].run = r,
                              ![t].agents = target[r[1]]]
    /\ UNCHANGED <<clock, tables, edit, disturbed, marks>>

\* countRuns; an agent that has had its runs is passed over.
NextAgent(t) ==
    /\ At(t, "agent")
    /\ \E a \in tick[t].agents :
         tick' = IF ReachedMax(tick[t].run[1], a)
                 THEN [tick EXCEPT ![t].agents = @ \ {a}]
                 ELSE [tick EXCEPT ![t].at = "insert", ![t].agent = a,
                                   ![t].agents = @ \ {a}]
    /\ UNCHANGED <<clock, tables, edit, disturbed, marks>>

\* Mutant of Insertable: a row that has failed or was left pending is tried again.
InsertableUnlessSent(j) == run[j] \notin {"sent", "skipped"}

Insertable(j) == run[j] = "none"

\* insertRun: INSERT OR IGNORE, for a definition that is still there
Insert(t) ==
    /\ At(t, "insert")
    /\ def[tick[t].run[1]].there
    /\ IF Insertable(Job(t))
       THEN /\ run' = [run EXCEPT ![Job(t)] = "pending"]
            /\ tick' = [tick EXCEPT ![t].at = "resolve"]
       ELSE /\ tick' = [tick EXCEPT ![t].at = "agent", ![t].agent = None]
            /\ UNCHANGED run
    /\ UNCHANGED <<clock, def, target, edit, disturbed, marks>>

\* resolveAgent, and what dispatch() asks of the agent: it may be unknown, not running or
\* without an endpoint.
Resolve(t) ==
    /\ At(t, "resolve")
    /\ \/ tick' = [tick EXCEPT ![t].at = "post"]
       \/ \E outcome \in {"skipped", "failed"} :
            tick' = [tick EXCEPT ![t].at = "record", ![t].outcome = outcome]
    /\ UNCHANGED <<clock, tables, edit, disturbed, marks>>

\* The post is answered, refused, or its answer is lost.
Post(t) ==
    /\ At(t, "post")
    /\ \E arrives \in BOOLEAN, outcome \in {"sent", "failed"} :
         /\ outcome = "sent" => arrives
         /\ posted' = IF arrives THEN [posted EXCEPT ![Job(t)] = @ + 1] ELSE posted
         /\ tick' = [tick EXCEPT ![t].at = "record", ![t].outcome = outcome]
    /\ UNCHANGED <<clock, tables, edit, disturbed, cleared, since>>

\* updateRunStatus finds the row, or no row.
Record(t) ==
    /\ At(t, "record")
    /\ run' = IF run[Job(t)] = "none" THEN run
              ELSE [run EXCEPT ![Job(t)] = tick[t].outcome]
    /\ tick' = [tick EXCEPT ![t].at = "agent", ![t].agent = None, ![t].outcome = "none"]
    /\ UNCHANGED <<clock, def, target, edit, disturbed, marks>>

\* Mutant of WindowEnd: the windows are taken to be half open on the other side.
WindowPast(t) == tick[t].to + 1

WindowEnd(t) == tick[t].to

End(t) ==
    /\ RunDone(t) /\ tick[t].todo = {}
    /\ last' = WindowEnd(t)
    /\ tick' = [tick EXCEPT ![t] = Idle]
    /\ UNCHANGED <<now, begun, tables, edit, disturbed, marks>>

CutShort == since' = [s \in Schedules |-> now]

\* The tick gives up what it has left, and its window counts as done.
GivesUp(t) ==
    /\ last' = tick[t].to
    /\ tick' = [tick EXCEPT ![t] = Idle]
    /\ CutShort
    /\ UNCHANGED <<now, begun, tables, edit, posted, cleared>>

\* insertRun throws when the definition is gone.
InsertFails(t) ==
    /\ At(t, "insert")
    /\ ~def[tick[t].run[1]].there
    /\ GivesUp(t)
    /\ UNCHANGED disturbed

\* A query throws when the database fails.
Throw(t) ==
    /\ tick[t].at \notin {"idle", "post"}
    /\ Disturb
    /\ GivesUp(t)

TickStep(t) ==
    \/ List(t) \/ NextRun(t) \/ NextAgent(t) \/ Insert(t) \/ InsertFails(t)
    \/ Resolve(t) \/ Post(t) \/ Record(t) \/ End(t)

--------------------------------------------------------------------------------
(* Operators *)

Edited(s) == since' = [since EXCEPT ![s] = now]

\* seedSchedule: the definition is written and made active, whatever it was, then its
\* targets are deleted and inserted one by one.
Seed(s) ==
    /\ edit[s] = "none"
    /\ Disturb
    /\ def' = [def EXCEPT ![s] = [there |-> TRUE, active |-> TRUE,
                                  anchor |-> IF s \in Heartbeats THEN now ELSE 0]]
    /\ edit' = [edit EXCEPT ![s] = "retarget"]
    /\ UNCHANGED <<clock, target, run, tick, marks>>

ClearTargets(s) ==
    /\ edit[s] = "retarget"
    /\ target' = [target EXCEPT ![s] = {}]
    /\ edit' = [edit EXCEPT ![s] = "fill"]
    /\ UNCHANGED <<clock, def, run, tick, disturbed, marks>>

InsertTarget(s) ==
    /\ edit[s] = "fill"
    /\ \E a \in TargetsOf[s] \ target[s] : target' = [target EXCEPT ![s] = @ \cup {a}]
    /\ UNCHANGED <<clock, def, run, tick, edit, disturbed, marks>>

Seeded(s) ==
    /\ edit[s] = "fill" /\ TargetsOf[s] \subseteq target[s]
    /\ edit' = [edit EXCEPT ![s] = "none"]
    /\ Edited(s)
    /\ UNCHANGED <<clock, tables, tick, disturbed, posted, cleared>>

\* pause and resume
SetActive(s) ==
    /\ edit[s] = "none" /\ def[s].there
    /\ Disturb
    /\ def' = [def EXCEPT ![s].active = ~@]
    /\ Edited(s)
    /\ UNCHANGED <<clock, target, run, tick, edit, posted, cleared>>

WithoutRuns(s) == [j \in Jobs |-> IF j[1] = s THEN "none" ELSE run[j]]

\* deleteDefinition and deleteBySource delete the run rows, the targets and the
\* definition, which takes run rows inserted in between along.
Remove(s) ==
    /\ edit[s] = "none" /\ def[s].there
    /\ Disturb
    /\ run' = WithoutRuns(s)
    /\ cleared' = [cleared EXCEPT ![s] = @ + 1]
    /\ edit' = [edit EXCEPT ![s] = "untarget"]
    /\ UNCHANGED <<clock, def, target, tick, posted, since>>

RemoveTargets(s) ==
    /\ edit[s] = "untarget"
    /\ target' = [target EXCEPT ![s] = {}]
    /\ edit' = [edit EXCEPT ![s] = "undefine"]
    /\ UNCHANGED <<clock, def, run, tick, disturbed, marks>>

RemoveDefinition(s) ==
    /\ edit[s] = "undefine"
    /\ def' = [def EXCEPT ![s].there = FALSE]
    /\ run' = WithoutRuns(s)
    /\ cleared' = [cleared EXCEPT ![s] = @ + 1]
    /\ edit' = [edit EXCEPT ![s] = "none"]
    /\ Edited(s)
    /\ UNCHANGED <<clock, target, tick, disturbed, posted>>

EditStep(s) ==
    \/ ClearTargets(s) \/ InsertTarget(s) \/ Seeded(s)
    \/ RemoveTargets(s) \/ RemoveDefinition(s)

--------------------------------------------------------------------------------
(* Time and restarts *)

\* The timer starts a tick before Drift has passed.
Advance ==
    /\ now < Horizon /\ now < begun + Drift
    /\ now' = now + 1
    /\ UNCHANGED <<begun, last, tables, tick, edit, disturbed, marks>>

\* The manager stops, and is started again some time later: ticks, requests and
\* lastTickAtSec are gone.
Restart ==
    /\ Disturb
    /\ \E later \in now..Horizon :
         /\ now' = later /\ begun' = later
         /\ since' = [s \in Schedules |-> later]
    /\ last' = 0
    /\ tick' = [t \in Ticks |-> Idle]
    /\ edit' = [s \in Schedules |-> "none"]
    /\ UNCHANGED <<tables, posted, cleared>>

Next ==
    \/ \E t \in Ticks : Begin(t) \/ TickStep(t) \/ Throw(t)
    \/ \E s \in Schedules : Seed(s) \/ SetActive(s) \/ Remove(s) \/ EditStep(s)
    \/ Advance
    \/ Restart

Spec == Init /\ [][Next]_vars

Answers(t) == Post(t) /\ tick[t].agent \notin Slow

\* The timer keeps starting ticks, and queries and the agents that are not slow answer.
Fairness ==
    /\ WF_vars(\E t \in Ticks : Begin(t))
    /\ \A t \in Ticks : WF_vars(TickStep(t) /\ (At(t, "post") => Answers(t)))

LiveSpec == Spec /\ Fairness

--------------------------------------------------------------------------------
(* Properties *)

\* Every variable keeps its type.
ScheduleTypeOK ==
    /\ now \in Instants /\ begun \in Instants /\ last \in Instants
    /\ def \in [Schedules -> Definitions]
    /\ target \in [Schedules -> SUBSET Agents]
    /\ run \in [Jobs -> Statuses]
    /\ tick \in [Ticks -> TickStates]
    /\ edit \in [Schedules -> {"none", "retarget", "fill", "untarget", "undefine"}]
    /\ disturbed \in 0..DisturbanceBound
    /\ posted \in [Jobs -> Nat] /\ cleared \in [Schedules -> Nat]
    /\ since \in [Schedules -> Instants]

\* An agent gets an occurrence once, though ticks overlap and a restarted manager reads
\* all of the past as one window: only the deletion of the run rows forgets that it was
\* posted.
PostedOnce ==
    \A j \in Jobs : posted[j] <= 1 + cleared[j[1]]

InHand(t, s, k) == tick[t].run = <<s, k>>

\* The run is still to be looked at for agent a by tick t.
Ahead(t, s, a, k) ==
    \/ At(t, "list") /\ k \in DueRuns(s, def[s], tick[t].from, tick[t].to)
    \/ <<s, k>> \in tick[t].todo
    \/ InHand(t, s, k) /\ a \in tick[t].agents
    \/ InHand(t, s, k) /\ At(t, "insert") /\ tick[t].agent = a

\* A later occurrence has taken its place.
Superseded(s, k, upto) ==
    Policy[s] = "fire_once" /\ \E j \in Occurrences(s, def[s]) : k < j /\ j <= upto

Settled(s, a, k) == run[<<s, a, k>>] # "none" \/ ReachedMax(s, a)

Covered(s, a, k, upto) ==
    \/ Settled(s, a, k) \/ Superseded(s, k, upto)
    \/ \E t \in Ticks : Ahead(t, s, a, k)

\* Occurrence k of s counts for agent a: s is active and since k nobody has edited it
\* and no tick was cut short.  A schedule with max_runs whose rows were deleted is left
\* out: a tick from before may write over the row of the same key that a later one
\* has sent, and the count of sent runs goes back.
Standing(s, a, k) ==
    /\ def[s].there /\ def[s].active /\ edit[s] = "none" /\ since[s] < k
    /\ a \in target[s] /\ k \in Occurrences(s, def[s])
    /\ MaxRuns[s] # NoMax => cleared[s] = 0

\* What fell due before the next window begins has a run row for each agent, or a tick
\* under way will give it one: whatever order the overlapping ticks end in and set
\* lastTickAtSec, and however long any of them hangs.
NothingForgotten ==
    \A s \in Schedules, a \in Agents, k \in Instants :
        Standing(s, a, k) /\ k <= last => Covered(s, a, k, last)

\* The model has no tick left to begin; the timer of the code always has.
NoTickLeft == \A t \in Ticks : At(t, "post") /\ tick[t].agent \in Slow

\* An occurrence that has come is still to be put down for an agent.
Owed(s, a, k) ==
    /\ Standing(s, a, k) /\ k <= now
    /\ ~Settled(s, a, k) /\ ~Superseded(s, k, now)

\* An agent that never answers keeps nobody else from its runs: the tick that waits for
\* it is overtaken by the next ones, which read its window again.
HungAgentStarvesNobody ==
    []<>(NoTickLeft \/ \A s \in Schedules, a \in Agents \ Slow, k \in Instants : ~Owed(s, a, k))

--------------------------------------------------------------------------------
(* The inductive invariants behind the safety properties *)

Working == {"resolve", "post", "record"}

\* What a tick has in hand at each step.
HandInv == \A t \in Ticks :
    /\ tick[t].at \in {"idle", "list", "run"} => tick[t].run = None
    /\ tick[t].at \in {"idle", "list"} => tick[t].todo = {}
    /\ tick[t].at \in {"agent", "insert"} \cup Working => tick[t].run \in Runs
    /\ tick[t].at \in {"insert"} \cup Working => tick[t].agent \in Agents
    /\ tick[t].at = "record" => tick[t].outcome # "none"

\* The ticks that may yet post job j.
Posters(j) == {t \in Ticks : tick[t].at \in {"resolve", "post"} /\ Job(t) = j}

Inserted(j) == IF run[j] = "none" THEN 0 ELSE 1

\* A run row inserted pays for one post, and only a deletion lets it be inserted again.
PostedIInv ==
    /\ ScheduleTypeOK /\ HandInv
    /\ \A j \in Jobs :
         /\ IsFiniteSet(Posters(j))
         /\ posted[j] + Cardinality(Posters(j)) <= cleared[j[1]] + Inserted(j)

ClockInv ==
    /\ last <= begun /\ begun <= now /\ now <= begun + Drift
    /\ \A t \in Ticks : ~At(t, "idle") => tick[t].from <= tick[t].to /\ tick[t].to <= begun

\* While no row of the schedule was deleted, one tick works on a row, and it is pending.
WorkersInv == \A t \in Ticks :
    tick[t].at \in Working /\ cleared[tick[t].run[1]] = 0 =>
        /\ run[Job(t)] = "pending"
        /\ \A u \in Ticks : tick[u].at \in Working /\ Job(u) = Job(t) => u = t

\* A tick owes its own window; what is before it was settled or in other hands when it
\* began.
WindowInv(t) == \A s \in Schedules, a \in Agents, k \in Instants :
    Standing(s, a, k) =>
        /\ k <= tick[t].from => Covered(s, a, k, tick[t].from)
        /\ tick[t].from < k /\ k <= tick[t].to =>
             \/ Settled(s, a, k) \/ Superseded(s, k, tick[t].to) \/ Ahead(t, s, a, k)
             \/ Policy[s] = "skip" /\ k + Dedupe < tick[t].to

\* An occurrence that is skipped when it is late was due in a tick that was in time.
InTimeInv == \A s \in Schedules, a \in Agents, k \in Instants :
    Standing(s, a, k) /\ Policy[s] = "skip" /\ k < begun => Covered(s, a, k, k)

ForgottenIInv ==
    /\ ScheduleTypeOK /\ HandInv /\ ClockInv /\ WorkersInv
    /\ NothingForgotten /\ InTimeInv
    /\ \A t \in Ticks : ~At(t, "idle") => WindowInv(t)

================================================================================
