---------------------------- MODULE Schedules_proofs ----------------------------
(* Theorems about schedules, for any heartbeats, events, agents and windows, any *)
(* number of ticks at a time, and any number of edits, throws and restarts.      *)
EXTENDS Schedules, FiniteSetTheorems, TLAPS

--------------------------------------------------------------------------------
(* Types                                                                        *)

LEMMA ClockTypes ==
    /\ 0 \in Instants /\ 1 \in Instants /\ Instants \subseteq Nat
    /\ \A i \in Instants : i < Horizon => i + 1 \in Instants
    /\ \A i \in Instants : i..Horizon \subseteq Instants
    /\ 0..DisturbanceBound \subseteq Nat
    /\ \A i \in 0..DisturbanceBound : i < DisturbanceBound => i + 1 \in 0..DisturbanceBound
  BY TimesAssumption, ScheduleBoundAssumption DEF Instants

LEMMA IdleType == Idle \in TickStates /\ Idle.at = "idle"
  BY ClockTypes DEF Idle, TickStates, Statuses

\* What tick t becomes, while the others stay where they are.
Becomes(t, state) == /\ state \in TickStates
                     /\ tick' \in [Ticks -> TickStates]
                     /\ tick'[t] = state
                     /\ \A u \in Ticks \ {t} : tick'[u] = tick[u]

LEMMA TickTypes ==
    ASSUME ScheduleTypeOK, NEW t \in Ticks
    PROVE  /\ tick \in [Ticks -> TickStates] /\ tick[t] \in TickStates
           /\ tick[t].from \in Instants /\ tick[t].to \in Instants
           /\ tick[t].todo \in SUBSET Runs /\ tick[t].agents \in SUBSET Agents
           /\ tick[t].run \in Runs \cup {None} /\ tick[t].agent \in Agents \cup {None}
           /\ tick[t].outcome \in Statuses
  BY DEF ScheduleTypeOK, TickStates

LEMMA Becoming ==
    ASSUME ScheduleTypeOK, NEW t \in Ticks, NEW state \in TickStates,
           tick' = [tick EXCEPT ![t] = state]
    PROVE  Becomes(t, state)
  BY TickTypes DEF Becomes

\* The steps of a tick, as what they make of its state.
LEMMA BeginTick ==
    ASSUME ScheduleTypeOK, NEW t \in Ticks, Begin(t)
    PROVE  Becomes(t, [Idle EXCEPT !.at = "list", !.from = last, !.to = now])
<1>1. [Idle EXCEPT !.at = "list", !.from = last, !.to = now] \in TickStates
  BY ClockTypes DEF ScheduleTypeOK, Idle, TickStates, Statuses
<1> QED
  BY <1>1, Becoming DEF Begin

Listed(t) == {r \in Runs : /\ def[r[1]].there /\ def[r[1]].active
                           /\ r[2] \in DueRuns(r[1], def[r[1]], tick[t].from, tick[t].to)}

LEMMA ListTick ==
    ASSUME ScheduleTypeOK, NEW t \in Ticks, List(t)
    PROVE  Becomes(t, [tick[t] EXCEPT !.at = "run", !.todo = Listed(t)])
<1> DEFINE list == Listed(t)
<1>1. list \in SUBSET Runs
  BY DEF Listed
<1>2. tick' = [tick EXCEPT ![t].at = "run", ![t].todo = list]
  BY DEF List, Listed
<1> HIDE DEF list
<1>3. [tick[t] EXCEPT !.at = "run", !.todo = list] \in TickStates
  BY <1>1, TickTypes DEF TickStates
<1>4. tick' = [tick EXCEPT ![t] = [tick[t] EXCEPT !.at = "run", !.todo = list]]
  BY <1>2, TickTypes
<1> QED
  BY <1>3, <1>4, Becoming DEF list

LEMMA NextRunTick ==
    ASSUME ScheduleTypeOK, NEW t \in Ticks, NextRun(t)
    PROVE  \E r \in tick[t].todo :
              Becomes(t, [tick[t] EXCEPT !.at = "agent", !.todo = @ \ {r}, !.run = r,
                                         !.agents = target[r[1]]])
<1>1. PICK r \in tick[t].todo :
        tick' = [tick EXCEPT ![t].at = "agent", ![t].todo = @ \ {r}, ![t].run = r,
                             ![t].agents = target[r[1]]]
  BY DEF NextRun
<1> DEFINE state == [tick[t] EXCEPT !.at = "agent", !.todo = @ \ {r}, !.run = r,
                                    !.agents = target[r[1]]]
<1>2. r \in Runs /\ target[r[1]] \in SUBSET Agents
  BY TickTypes DEF ScheduleTypeOK, Runs
<1>3. state \in TickStates
  BY <1>2, TickTypes DEF TickStates
<1>4. tick' = [tick EXCEPT ![t] = state]
  BY <1>1, TickTypes
<1>5. Becomes(t, state)
  BY <1>3, <1>4, Becoming
<1> QED
  BY <1>5

LEMMA NextAgentTick ==
    ASSUME ScheduleTypeOK, NEW t \in Ticks, NextAgent(t)
    PROVE  \E a \in tick[t].agents :
              \/ /\ ReachedMax(tick[t].run[1], a)
                 /\ Becomes(t, [tick[t] EXCEPT !.agents = @ \ {a}])
              \/ /\ ~ReachedMax(tick[t].run[1], a)
                 /\ Becomes(t, [tick[t] EXCEPT !.at = "insert", !.agent = a,
                                               !.agents = @ \ {a}])
<1>1. PICK a \in tick[t].agents :
        tick' = IF ReachedMax(tick[t].run[1], a)
                THEN [tick EXCEPT ![t].agents = @ \ {a}]
                ELSE [tick EXCEPT ![t].at = "insert", ![t].agent = a, ![t].agents = @ \ {a}]
  BY DEF NextAgent
<1> DEFINE passed == [tick[t] EXCEPT !.agents = @ \ {a}]
           chosen == [tick[t] EXCEPT !.at = "insert", !.agent = a, !.agents = @ \ {a}]
<1>2. a \in Agents /\ passed \in TickStates /\ chosen \in TickStates
  BY TickTypes DEF TickStates
<1>3. \/ ReachedMax(tick[t].run[1], a) /\ tick' = [tick EXCEPT ![t] = passed]
      \/ ~ReachedMax(tick[t].run[1], a) /\ tick' = [tick EXCEPT ![t] = chosen]
  BY <1>1, TickTypes
<1>4. \/ ReachedMax(tick[t].run[1], a) /\ Becomes(t, passed)
      \/ ~ReachedMax(tick[t].run[1], a) /\ Becomes(t, chosen)
  BY <1>2, <1>3, Becoming
<1> QED
  BY <1>4

LEMMA InsertTick ==
    ASSUME ScheduleTypeOK, NEW t \in Ticks, Insert(t)
    PROVE  \/ /\ run[Job(t)] = "none" /\ run' = [run EXCEPT ![Job(t)] = "pending"]
              /\ Becomes(t, [tick[t] EXCEPT !.at = "resolve"])
           \/ /\ run[Job(t)] # "none" /\ UNCHANGED run
              /\ Becomes(t, [tick[t] EXCEPT !.at = "agent", !.agent = None])
<1> DEFINE new == [tick[t] EXCEPT !.at = "resolve"]
           old == [tick[t] EXCEPT !.at = "agent", !.agent = None]
<1>1. new \in TickStates /\ old \in TickStates
  BY TickTypes DEF TickStates
<1>2. \/ /\ run[Job(t)] = "none" /\ run' = [run EXCEPT ![Job(t)] = "pending"]
         /\ tick' = [tick EXCEPT ![t] = new]
      \/ /\ run[Job(t)] # "none" /\ UNCHANGED run
         /\ tick' = [tick EXCEPT ![t] = old]
  BY TickTypes DEF Insert, Insertable
<1> QED
  BY <1>1, <1>2, Becoming

LEMMA ResolveTick ==
    ASSUME ScheduleTypeOK, NEW t \in Ticks, Resolve(t)
    PROVE  \/ Becomes(t, [tick[t] EXCEPT !.at = "post"])
           \/ \E outcome \in {"skipped", "failed"} :
                Becomes(t, [tick[t] EXCEPT !.at = "record", !.outcome = outcome])
<1>1. CASE tick' = [tick EXCEPT ![t].at = "post"]
  <2>1. /\ [tick[t] EXCEPT !.at = "post"] \in TickStates
        /\ tick' = [tick EXCEPT ![t] = [tick[t] EXCEPT !.at = "post"]]
    BY <1>1, TickTypes DEF TickStates
  <2> QED
    BY <2>1, Becoming
<1>2. ASSUME NEW outcome \in {"skipped", "failed"},
             tick' = [tick EXCEPT ![t].at = "record", ![t].outcome = outcome]
      PROVE  Becomes(t, [tick[t] EXCEPT !.at = "record", !.outcome = outcome])
  <2>1. /\ [tick[t] EXCEPT !.at = "record", !.outcome = outcome] \in TickStates
        /\ tick' = [tick EXCEPT ![t] = [tick[t] EXCEPT !.at = "record",
                                                       !.outcome = outcome]]
    BY <1>2, TickTypes DEF TickStates, Statuses
  <2> QED
    BY <2>1, Becoming
<1> QED
  BY <1>1, <1>2 DEF Resolve

LEMMA PostTick ==
    ASSUME ScheduleTypeOK, NEW t \in Ticks, Post(t)
    PROVE  /\ \E outcome \in {"sent", "failed"} :
                Becomes(t, [tick[t] EXCEPT !.at = "record", !.outcome = outcome])
           /\ posted' \in {posted, [posted EXCEPT ![Job(t)] = @ + 1]}
<1>1. PICK outcome \in {"sent", "failed"} :
        /\ posted' \in {posted, [posted EXCEPT ![Job(t)] = @ + 1]}
        /\ tick' = [tick EXCEPT ![t].at = "record", ![t].outcome = outcome]
  BY DEF Post
<1>2. /\ [tick[t] EXCEPT !.at = "record", !.outcome = outcome] \in TickStates
      /\ tick' = [tick EXCEPT ![t] = [tick[t] EXCEPT !.at = "record", !.outcome = outcome]]
  BY <1>1, TickTypes DEF TickStates, Statuses
<1>3. Becomes(t, [tick[t] EXCEPT !.at = "record", !.outcome = outcome])
  BY <1>2, Becoming
<1> QED
  BY <1>1, <1>3

LEMMA RecordTick ==
    ASSUME ScheduleTypeOK, NEW t \in Ticks, Record(t)
    PROVE  Becomes(t, [tick[t] EXCEPT !.at = "agent", !.agent = None, !.outcome = "none"])
<1>1. /\ [tick[t] EXCEPT !.at = "agent", !.agent = None, !.outcome = "none"] \in TickStates
      /\ tick' = [tick EXCEPT ![t] = [tick[t] EXCEPT !.at = "agent", !.agent = None,
                                                     !.outcome = "none"]]
  BY TickTypes DEF Record, TickStates, Statuses
<1> QED
  BY <1>1, Becoming

\* A tick that ends or is cut short.
LEMMA EndTick ==
    ASSUME ScheduleTypeOK, NEW t \in Ticks, End(t) \/ InsertFails(t) \/ Throw(t)
    PROVE  Becomes(t, Idle) /\ last' = tick[t].to
  BY IdleType, Becoming DEF End, WindowEnd, InsertFails, Throw, GivesUp

\* The rows of the runs, and the marks.
LEMMA RowTypes ==
    ASSUME ScheduleTypeOK
    PROVE  /\ \A s \in Schedules : WithoutRuns(s) \in [Jobs -> Statuses]
           /\ \A j \in Jobs : /\ [run EXCEPT ![j] = "pending"] \in [Jobs -> Statuses]
                              /\ [posted EXCEPT ![j] = @ + 1] \in [Jobs -> Nat]
           /\ \A s \in Schedules : [cleared EXCEPT ![s] = @ + 1] \in [Schedules -> Nat]
           /\ [s \in Schedules |-> now] \in [Schedules -> Instants]
           /\ \A s \in Schedules : [since EXCEPT ![s] = now] \in [Schedules -> Instants]
  BY DEF ScheduleTypeOK, WithoutRuns, Statuses

\* Every step keeps the types.
LEMMA TypeStep == ASSUME ScheduleTypeOK, [Next]_vars PROVE ScheduleTypeOK'
<1> USE DEF clock, tables, marks
<1>1. ASSUME NEW t \in Ticks, Begin(t) PROVE ScheduleTypeOK'
  <2>1. tick' \in [Ticks -> TickStates]
    BY <1>1, BeginTick DEF Becomes
  <2> QED
    BY <1>1, <2>1 DEF Begin, ScheduleTypeOK
<1>2. ASSUME NEW t \in Ticks, TickStep(t) PROVE ScheduleTypeOK'
  <2>1. CASE List(t)
    BY <2>1, ListTick DEF Becomes, List, ScheduleTypeOK
  <2>2. CASE NextRun(t)
    BY <2>2, NextRunTick DEF Becomes, NextRun, ScheduleTypeOK
  <2>3. CASE NextAgent(t)
    BY <2>3, NextAgentTick DEF Becomes, NextAgent, ScheduleTypeOK
  <2>4. CASE Insert(t)
    <3>1. tick' \in [Ticks -> TickStates]
      BY <2>4, InsertTick DEF Becomes
    <3>2. run' \in [Jobs -> Statuses]
      BY <2>4, InsertTick DEF ScheduleTypeOK, Statuses
    <3> QED
      BY <2>4, <3>1, <3>2 DEF Insert, ScheduleTypeOK
  <2>5. CASE Resolve(t)
    BY <2>5, ResolveTick DEF Becomes, Resolve, ScheduleTypeOK
  <2>6. CASE Post(t)
    <3>1. tick' \in [Ticks -> TickStates]
      BY <2>6, PostTick DEF Becomes
    <3>2. posted' \in [Jobs -> Nat]
      <4> DEFINE j == Job(t)
      <4>1. posted \in [Jobs -> Nat] /\ posted' \in {posted, [posted EXCEPT ![j] = @ + 1]}
        BY <2>6, PostTick DEF ScheduleTypeOK
      <4> HIDE DEF j
      <4> QED
        BY <4>1
    <3> QED
      BY <2>6, <3>1, <3>2 DEF Post, ScheduleTypeOK
  <2>7. CASE Record(t)
    <3>1. tick' \in [Ticks -> TickStates]
      BY <2>7, RecordTick DEF Becomes
    <3>2. run' \in [Jobs -> Statuses]
      BY <2>7, TickTypes DEF Record, ScheduleTypeOK
    <3> QED
      BY <2>7, <3>1, <3>2 DEF Record, ScheduleTypeOK
  <2>8. CASE End(t)
    BY <2>8, EndTick, TickTypes DEF Becomes, End, ScheduleTypeOK
  <2>9. CASE InsertFails(t)
    <3>1. tick' \in [Ticks -> TickStates] /\ last' \in Instants
      BY <2>9, EndTick, TickTypes DEF Becomes
    <3> QED
      BY <2>9, <3>1, RowTypes DEF InsertFails, GivesUp, CutShort, ScheduleTypeOK
  <2> QED
    BY <1>2, <2>1, <2>2, <2>3, <2>4, <2>5, <2>6, <2>7, <2>8, <2>9 DEF TickStep
<1>3. ASSUME NEW t \in Ticks, Throw(t) PROVE ScheduleTypeOK'
  <2>1. tick' \in [Ticks -> TickStates] /\ last' \in Instants
    BY <1>3, EndTick, TickTypes DEF Becomes
  <2>2. disturbed' \in 0..DisturbanceBound
    BY <1>3, ClockTypes DEF Throw, Disturb, ScheduleTypeOK
  <2> QED
    BY <1>3, <2>1, <2>2, RowTypes DEF Throw, GivesUp, CutShort, ScheduleTypeOK
<1>4. ASSUME NEW s \in Schedules, Seed(s) \/ SetActive(s) \/ Remove(s) PROVE ScheduleTypeOK'
  <2>1. disturbed' \in 0..DisturbanceBound
    BY <1>4, ClockTypes DEF Seed, SetActive, Remove, Disturb, ScheduleTypeOK
  <2>2. CASE Seed(s)
    <3>1. [there |-> TRUE, active |-> TRUE, anchor |-> IF s \in Heartbeats THEN now ELSE 0]
            \in Definitions
      BY ClockTypes DEF Definitions, ScheduleTypeOK
    <3> QED
      BY <2>1, <2>2, <3>1 DEF Seed, ScheduleTypeOK
  <2>3. CASE SetActive(s)
    <3>1. def' \in [Schedules -> Definitions]
      BY <2>3 DEF SetActive, Definitions, ScheduleTypeOK
    <3> QED
      BY <2>1, <2>3, <3>1, RowTypes DEF SetActive, Edited, ScheduleTypeOK
  <2>4. CASE Remove(s)
    BY <2>1, <2>4, RowTypes DEF Remove, ScheduleTypeOK
  <2> QED
    BY <1>4, <2>2, <2>3, <2>4
<1>5. ASSUME NEW s \in Schedules, EditStep(s) PROVE ScheduleTypeOK'
  <2>1. CASE ClearTargets(s)
    BY <2>1 DEF ClearTargets, ScheduleTypeOK
  <2>2. CASE InsertTarget(s)
    <3>1. TargetsOf[s] \in SUBSET Agents
      BY TargetsAssumption
    <3>2. target' \in [Schedules -> SUBSET Agents]
      BY <2>2, <3>1 DEF InsertTarget, ScheduleTypeOK
    <3> QED
      BY <2>2, <3>2 DEF InsertTarget, ScheduleTypeOK
  <2>3. CASE Seeded(s)
    BY <2>3, RowTypes DEF Seeded, Edited, ScheduleTypeOK
  <2>4. CASE RemoveTargets(s)
    BY <2>4 DEF RemoveTargets, ScheduleTypeOK
  <2>5. CASE RemoveDefinition(s)
    <3>1. def' \in [Schedules -> Definitions]
      BY <2>5 DEF RemoveDefinition, Definitions, ScheduleTypeOK
    <3> QED
      BY <2>5, <3>1, RowTypes DEF RemoveDefinition, Edited, ScheduleTypeOK
  <2> QED
    BY <1>5, <2>1, <2>2, <2>3, <2>4, <2>5 DEF EditStep
<1>6. CASE Advance
  BY <1>6, ClockTypes DEF Advance, ScheduleTypeOK
<1>7. CASE Restart
  <2>1. disturbed' \in 0..DisturbanceBound /\ last' \in Instants
    BY <1>7, ClockTypes DEF Restart, Disturb, ScheduleTypeOK
  <2>2. tick' \in [Ticks -> TickStates]
    BY <1>7, IdleType DEF Restart
  <2>3. /\ now' \in Instants /\ begun' \in Instants /\ since' \in [Schedules -> Instants]
    BY <1>7, ClockTypes DEF Restart, ScheduleTypeOK
  <2> QED
    BY <1>7, <2>1, <2>2, <2>3 DEF Restart, ScheduleTypeOK
<1>8. CASE UNCHANGED vars
  BY <1>8 DEF vars, ScheduleTypeOK
<1> QED
  BY <1>1, <1>2, <1>3, <1>4, <1>5, <1>6, <1>7, <1>8 DEF Next

LEMMA TypeInit == Init => ScheduleTypeOK
<1> SUFFICES ASSUME Init PROVE ScheduleTypeOK
  OBVIOUS
<1>1. PICK held \in SUBSET Schedules :
        /\ def    = [s \in Schedules |-> [there |-> s \in held, active |-> s \in held,
                                          anchor |-> 0]]
        /\ target = [s \in Schedules |-> IF s \in held THEN TargetsOf[s] ELSE {}]
  BY DEF Init
<1>2. def \in [Schedules -> Definitions]
  BY <1>1, ClockTypes DEF Definitions
<1>3. target \in [Schedules -> SUBSET Agents]
  BY <1>1, TargetsAssumption
<1>4. tick \in [Ticks -> TickStates]
  BY IdleType DEF Init
<1>5. disturbed \in 0..DisturbanceBound
  BY ScheduleBoundAssumption DEF Init
<1> QED
  BY <1>2, <1>3, <1>4, <1>5, ClockTypes DEF Init, ScheduleTypeOK, Statuses

\* Every table, request and tick keeps its type.
THEOREM ScheduleTypeCorrect == Spec => []ScheduleTypeOK
<1>1. ScheduleTypeOK /\ [Next]_vars => ScheduleTypeOK'
  BY TypeStep
<1> QED
  BY TypeInit, <1>1, PTL DEF Spec

--------------------------------------------------------------------------------
(* What a tick has in hand                                                      *)

\* One tick in hand.
Hand(x) ==
    /\ x.at \in {"idle", "list", "run"} => x.run = None
    /\ x.at \in {"idle", "list"} => x.todo = {}
    /\ x.at \in {"agent", "insert"} \cup Working => x.run \in Runs
    /\ x.at \in {"insert"} \cup Working => x.agent \in Agents
    /\ x.at = "record" => x.outcome # "none"

LEMMA HandIs == HandInv <=> \A t \in Ticks : Hand(tick[t])
  BY DEF HandInv, Hand

LEMMA HandIdle == Hand(Idle)
  BY DEF Hand, Idle, Working

LEMMA HandStep == ASSUME ScheduleTypeOK, HandInv, [Next]_vars PROVE HandInv'
<1> SUFFICES \A t \in Ticks : Hand(tick'[t])
  BY DEF HandInv, Hand
<1>1. \A t \in Ticks : Hand(tick[t])
  BY HandIs
<1>2. ASSUME NEW t \in Ticks, NEW x, Becomes(t, x), Hand(x) PROVE \A u \in Ticks : Hand(tick'[u])
  BY <1>1, <1>2 DEF Becomes
<1>3. ASSUME NEW t \in Ticks, Begin(t) PROVE \A u \in Ticks : Hand(tick'[u])
  <2> DEFINE x == [Idle EXCEPT !.at = "list", !.from = last, !.to = now]
  <2>1. Hand(x)
    BY DEF Hand, Idle, Working
  <2> QED
    BY <1>2, <1>3, <2>1, BeginTick
<1>4. ASSUME NEW t \in Ticks, TickStep(t) PROVE \A u \in Ticks : Hand(tick'[u])
  <2>1. Hand(tick[t]) /\ tick[t] \in TickStates
    BY <1>1, TickTypes
  <2>2. CASE List(t)
    <3>1. Hand([tick[t] EXCEPT !.at = "run", !.todo = Listed(t)])
      BY <2>1, <2>2 DEF List, At, Hand, Working, TickStates
    <3> QED
      BY <1>2, <2>2, <3>1, ListTick
  <2>3. CASE NextRun(t)
    <3>1. PICK r \in tick[t].todo :
            Becomes(t, [tick[t] EXCEPT !.at = "agent", !.todo = @ \ {r}, !.run = r,
                                       !.agents = target[r[1]]])
      BY <2>3, NextRunTick
    <3>2. r \in Runs
      BY TickTypes
    <3>3. Hand([tick[t] EXCEPT !.at = "agent", !.todo = @ \ {r}, !.run = r,
                               !.agents = target[r[1]]])
      BY <2>1, <3>2 DEF Hand, Working, TickStates
    <3> QED
      BY <1>2, <3>1, <3>3
  <2>4. CASE NextAgent(t)
    <3>1. PICK a \in tick[t].agents :
            \/ Becomes(t, [tick[t] EXCEPT !.agents = @ \ {a}])
            \/ Becomes(t, [tick[t] EXCEPT !.at = "insert", !.agent = a, !.agents = @ \ {a}])
      BY <2>4, NextAgentTick
    <3>2. a \in Agents /\ tick[t].at = "agent"
      BY <2>4, TickTypes DEF NextAgent, At
    <3>3. /\ Hand([tick[t] EXCEPT !.agents = @ \ {a}])
          /\ Hand([tick[t] EXCEPT !.at = "insert", !.agent = a, !.agents = @ \ {a}])
      BY <2>1, <3>2 DEF Hand, Working, TickStates
    <3> QED
      BY <1>2, <3>1, <3>3
  <2>5. CASE Insert(t)
    <3>1. tick[t].at = "insert"
      BY <2>5 DEF Insert, At
    <3>2. /\ Hand([tick[t] EXCEPT !.at = "resolve"])
          /\ Hand([tick[t] EXCEPT !.at = "agent", !.agent = None])
      BY <2>1, <3>1 DEF Hand, Working, TickStates
    <3> QED
      BY <1>2, <2>5, <3>2, InsertTick
  <2>6. CASE Resolve(t) \/ Post(t)
    <3>1. tick[t].at \in Working
      BY <2>6 DEF Resolve, Post, At, Working
    <3>2. /\ Hand([tick[t] EXCEPT !.at = "post"])
          /\ \A outcome \in {"sent", "skipped", "failed"} :
               Hand([tick[t] EXCEPT !.at = "record", !.outcome = outcome])
      BY <2>1, <3>1 DEF Hand, Working, TickStates
    <3> QED
      BY <1>2, <2>6, <3>2, ResolveTick, PostTick
  <2>7. CASE Record(t)
    <3>1. tick[t].at = "record"
      BY <2>7 DEF Record, At
    <3>2. Hand([tick[t] EXCEPT !.at = "agent", !.agent = None, !.outcome = "none"])
      BY <2>1, <3>1 DEF Hand, Working, TickStates
    <3> QED
      BY <1>2, <2>7, <3>2, RecordTick
  <2>8. CASE End(t) \/ InsertFails(t)
    BY <1>2, <2>8, EndTick, HandIdle
  <2> QED
    BY <1>4, <2>2, <2>3, <2>4, <2>5, <2>6, <2>7, <2>8 DEF TickStep
<1>5. ASSUME NEW t \in Ticks, Throw(t) PROVE \A u \in Ticks : Hand(tick'[u])
  BY <1>2, <1>5, EndTick, HandIdle
<1>6. CASE Restart
  BY <1>6, HandIdle DEF Restart
<1>7. ASSUME UNCHANGED tick PROVE \A u \in Ticks : Hand(tick'[u])
  BY <1>1, <1>7
<1>8. ASSUME NEW s \in Schedules, Seed(s) \/ SetActive(s) \/ Remove(s) \/ EditStep(s)
      PROVE  UNCHANGED tick
  BY <1>8 DEF Seed, SetActive, Remove, EditStep, ClearTargets, InsertTarget, Seeded,
              RemoveTargets, RemoveDefinition
<1>9. Advance \/ UNCHANGED vars => UNCHANGED tick
  BY DEF Advance, vars
<1> QED
  BY <1>3, <1>4, <1>5, <1>6, <1>7, <1>8, <1>9 DEF Next

LEMMA HandInit == Init => HandInv
  BY HandIdle, HandIs DEF Init

\* The job in hand of a working tick is a job.
LEMMA JobType ==
    ASSUME HandInv, NEW t \in Ticks, tick[t].at \in {"insert"} \cup Working
    PROVE  /\ Job(t) \in Jobs /\ tick[t].run \in Runs /\ tick[t].agent \in Agents
           /\ tick[t].run[1] \in Schedules /\ tick[t].run[2] \in Instants
           /\ tick[t].run = <<tick[t].run[1], tick[t].run[2]>>
           /\ Job(t)[1] = tick[t].run[1]
  BY DEF HandInv, Job, Jobs, Runs, Working

--------------------------------------------------------------------------------
(* An occurrence is posted once                                                 *)

Paid(j) == /\ IsFiniteSet(Posters(j))
           /\ posted[j] + Cardinality(Posters(j)) <= cleared[j[1]] + Inserted(j)

\* Fewer ticks that may post, no post, and no row forgotten unless it counts as cleared.
LEMMA PaidKept ==
    ASSUME ScheduleTypeOK, ScheduleTypeOK', NEW j \in Jobs, Paid(j),
           Posters(j)' \subseteq Posters(j), posted'[j] = posted[j],
           cleared[j[1]] + Inserted(j) <= cleared'[j[1]] + Inserted(j)'
    PROVE  Paid(j)'
<1>1. /\ IsFiniteSet(Posters(j)') /\ Cardinality(Posters(j)') <= Cardinality(Posters(j))
      /\ Cardinality(Posters(j)') \in Nat /\ Cardinality(Posters(j)) \in Nat
  BY FS_Subset, FS_CardinalityType DEF Paid
<1>2. /\ posted[j] \in Nat /\ cleared[j[1]] \in Nat /\ cleared'[j[1]] \in Nat
      /\ Inserted(j) \in Nat /\ Inserted(j)' \in Nat
  BY DEF ScheduleTypeOK, Jobs, Inserted
<1> QED
  BY <1>1, <1>2 DEF Paid

Posting == {"resolve", "post"}

\* A tick moves, and posts no more jobs than before.
LEMMA PostersShrink ==
    ASSUME ScheduleTypeOK, NEW t \in Ticks, NEW x, Becomes(t, x), NEW j \in Jobs,
           \/ x.at \notin Posting
           \/ tick[t].at \in Posting /\ x.run = tick[t].run /\ x.agent = tick[t].agent
    PROVE  Posters(j)' \subseteq Posters(j)
<1>1. ASSUME NEW u \in Ticks, tick'[u].at \in Posting, Job(u)' = j
      PROVE  tick[u].at \in Posting /\ Job(u) = j
  BY <1>1 DEF Becomes, Job
<1> QED
  BY <1>1 DEF Posters, Posting

\* The steps of a tick that neither insert a row nor post.
LEMMA OtherTickSteps ==
    ASSUME ScheduleTypeOK, NEW t \in Ticks,
           \/ Begin(t) \/ List(t) \/ NextRun(t) \/ NextAgent(t) \/ Resolve(t) \/ Record(t)
           \/ End(t) \/ InsertFails(t) \/ Throw(t),
           NEW j \in Jobs
    PROVE  Posters(j)' \subseteq Posters(j)
<1>1. tick[t] \in TickStates
  BY TickTypes
<1>2. CASE Begin(t)
  <2> DEFINE x == [Idle EXCEPT !.at = "list", !.from = last, !.to = now]
  <2>1. Becomes(t, x) /\ x.at \notin Posting
    BY <1>2, BeginTick DEF Idle, Posting
  <2> QED
    BY <2>1, PostersShrink
<1>3. CASE List(t)
  <2> DEFINE x == [tick[t] EXCEPT !.at = "run", !.todo = Listed(t)]
  <2>1. Becomes(t, x) /\ x.at \notin Posting
    BY <1>1, <1>3, ListTick DEF TickStates, Posting
  <2> QED
    BY <2>1, PostersShrink
<1>4. CASE NextRun(t)
  <2>1. PICK r \in tick[t].todo :
          Becomes(t, [tick[t] EXCEPT !.at = "agent", !.todo = @ \ {r}, !.run = r,
                                     !.agents = target[r[1]]])
    BY <1>4, NextRunTick
  <2> DEFINE x == [tick[t] EXCEPT !.at = "agent", !.todo = @ \ {r}, !.run = r,
                                  !.agents = target[r[1]]]
  <2>2. Becomes(t, x) /\ x.at \notin Posting
    BY <1>1, <2>1 DEF TickStates, Posting
  <2> QED
    BY <2>2, PostersShrink
<1>5. CASE NextAgent(t)
  <2>1. PICK a \in tick[t].agents :
          \/ Becomes(t, [tick[t] EXCEPT !.agents = @ \ {a}])
          \/ Becomes(t, [tick[t] EXCEPT !.at = "insert", !.agent = a, !.agents = @ \ {a}])
    BY <1>5, NextAgentTick
  <2>2. /\ [tick[t] EXCEPT !.agents = @ \ {a}].at \notin Posting
        /\ [tick[t] EXCEPT !.at = "insert", !.agent = a, !.agents = @ \ {a}].at \notin Posting
    BY <1>1, <1>5 DEF NextAgent, At, TickStates, Posting
  <2> QED
    BY <2>1, <2>2, PostersShrink
<1>6. CASE Resolve(t)
  <2>1. /\ tick[t].at \in Posting
        /\ [tick[t] EXCEPT !.at = "post"].run = tick[t].run
        /\ [tick[t] EXCEPT !.at = "post"].agent = tick[t].agent
        /\ \A outcome : [tick[t] EXCEPT !.at = "record", !.outcome = outcome].at \notin Posting
    BY <1>1, <1>6 DEF Resolve, At, TickStates, Posting
  <2> QED
    BY <1>6, <2>1, ResolveTick, PostersShrink
<1>7. CASE Record(t)
  <2>1. [tick[t] EXCEPT !.at = "agent", !.agent = None, !.outcome = "none"].at \notin Posting
    BY <1>1 DEF TickStates, Posting
  <2> QED
    BY <1>7, <2>1, RecordTick, PostersShrink
<1>8. CASE End(t) \/ InsertFails(t) \/ Throw(t)
  <2>1. Idle.at \notin Posting
    BY DEF Idle, Posting
  <2> QED
    BY <1>8, <2>1, EndTick, PostersShrink
<1> QED
  BY <1>2, <1>3, <1>4, <1>5, <1>6, <1>7, <1>8

\* The insert adds a tick that may post where it adds a row.
LEMMA PaidInsert ==
    ASSUME ScheduleTypeOK, ScheduleTypeOK', HandInv, NEW t \in Ticks, Insert(t),
           NEW j \in Jobs, Paid(j)
    PROVE  Paid(j)'
<1>1. /\ tick[t].at = "insert" /\ tick[t] \in TickStates /\ UNCHANGED <<posted, cleared>>
      /\ run \in [Jobs -> Statuses]
  BY TickTypes DEF Insert, At, marks, ScheduleTypeOK
<1>2. CASE /\ run[Job(t)] # "none" /\ UNCHANGED run
           /\ Becomes(t, [tick[t] EXCEPT !.at = "agent", !.agent = None])
  <2>1. [tick[t] EXCEPT !.at = "agent", !.agent = None].at \notin Posting
    BY <1>1 DEF TickStates, Posting
  <2>2. Posters(j)' \subseteq Posters(j)
    BY <1>2, <2>1, PostersShrink
  <2>3. cleared[j[1]] + Inserted(j) <= cleared'[j[1]] + Inserted(j)'
    BY <1>1, <1>2 DEF Inserted, ScheduleTypeOK, Jobs
  <2> QED
    BY <1>1, <2>2, <2>3, PaidKept
<1>3. CASE /\ run[Job(t)] = "none" /\ run' = [run EXCEPT ![Job(t)] = "pending"]
           /\ Becomes(t, [tick[t] EXCEPT !.at = "resolve"])
  <2> DEFINE x == [tick[t] EXCEPT !.at = "resolve"]
  <2>1. /\ Becomes(t, x) /\ x.at = "resolve" /\ x.run = tick[t].run /\ x.agent = tick[t].agent
    BY <1>1, <1>3 DEF TickStates
  <2> HIDE DEF x
  <2>2. Job(t)' = Job(t) /\ Job(t) \in Jobs
    BY <1>1, <2>1, JobType DEF Job, Becomes
  <2>3. \A u \in Ticks \ {t} : tick'[u] = tick[u]
    BY <2>1 DEF Becomes
  <2>4. CASE j # Job(t)
    <3>1. Posters(j)' \subseteq Posters(j)
      BY <2>2, <2>3, <2>4 DEF Posters, Job
    <3>2. run'[j] = run[j]
      BY <1>1, <1>3, <2>4
    <3>3. cleared[j[1]] + Inserted(j) <= cleared'[j[1]] + Inserted(j)'
      BY <1>1, <3>2 DEF Inserted, ScheduleTypeOK, Jobs
    <3> QED
      BY <1>1, <3>1, <3>3, PaidKept
  <2>5. CASE j = Job(t)
    <3>1. t \notin Posters(j) /\ Posters(j)' = Posters(j) \cup {t}
      BY <1>1, <2>1, <2>2, <2>3, <2>5 DEF Posters, Job, Becomes
    <3>2. run'[j] = "pending"
      BY <1>1, <1>3, <2>2, <2>5
    <3>3. Inserted(j) = 0 /\ Inserted(j)' = 1
      BY <1>3, <2>5, <3>2 DEF Inserted
    <3>4. /\ IsFiniteSet(Posters(j)') /\ Cardinality(Posters(j)) \in Nat
          /\ Cardinality(Posters(j)') = Cardinality(Posters(j)) + 1
      BY <3>1, FS_AddElement, FS_CardinalityType DEF Paid
    <3>5. posted[j] \in Nat /\ cleared[j[1]] \in Nat
      BY DEF ScheduleTypeOK, Jobs
    <3> QED
      BY <1>1, <3>3, <3>4, <3>5 DEF Paid
  <2> QED
    BY <2>4, <2>5
<1> QED
  BY <1>2, <1>3, InsertTick

\* The post takes away the tick that it counts.
LEMMA PaidPost ==
    ASSUME ScheduleTypeOK, ScheduleTypeOK', HandInv, NEW t \in Ticks, Post(t),
           NEW j \in Jobs, Paid(j)
    PROVE  Paid(j)'
<1>1. /\ tick[t].at = "post" /\ tick[t] \in TickStates /\ UNCHANGED <<run, cleared>>
      /\ posted \in [Jobs -> Nat]
  BY TickTypes DEF Post, At, marks, tables, ScheduleTypeOK
<1>2. PICK outcome \in {"sent", "failed"} :
        Becomes(t, [tick[t] EXCEPT !.at = "record", !.outcome = outcome])
  BY PostTick
<1> DEFINE x == [tick[t] EXCEPT !.at = "record", !.outcome = outcome]
<1>3. Becomes(t, x) /\ x.at \notin Posting
  BY <1>1, <1>2 DEF TickStates, Posting
<1> HIDE DEF x
<1>4. Posters(j)' \subseteq Posters(j)
  BY <1>3, PostersShrink
<1>5. Job(t) \in Jobs
  BY <1>1, JobType DEF Working
<1>6. CASE posted'[j] = posted[j]
  <2>1. cleared[j[1]] + Inserted(j) <= cleared'[j[1]] + Inserted(j)'
    BY <1>1 DEF Inserted, ScheduleTypeOK, Jobs
  <2> QED
    BY <1>4, <1>6, <2>1, PaidKept
<1>7. CASE posted'[j] # posted[j]
  <2>1. j = Job(t) /\ posted'[j] = posted[j] + 1
    BY <1>1, <1>5, <1>7, PostTick
  <2>2. t \in Posters(j) /\ t \notin Posters(j)'
    BY <1>1, <1>3, <2>1 DEF Posters, Becomes, Posting
  <2>3. Posters(j)' \subseteq Posters(j) \ {t}
    BY <1>4, <2>2
  <2>4. /\ IsFiniteSet(Posters(j)') /\ Cardinality(Posters(j)) \in Nat
        /\ Cardinality(Posters(j)') \in Nat
        /\ Cardinality(Posters(j)') <= Cardinality(Posters(j)) - 1
    <3>1. /\ IsFiniteSet(Posters(j) \ {t})
          /\ Cardinality(Posters(j) \ {t}) = Cardinality(Posters(j)) - 1
      BY <2>2, FS_RemoveElement DEF Paid
    <3>2. /\ IsFiniteSet(Posters(j)')
          /\ Cardinality(Posters(j)') <= Cardinality(Posters(j) \ {t})
      BY <2>3, <3>1, FS_Subset
    <3> QED
      BY <3>1, <3>2, FS_CardinalityType DEF Paid
  <2>5. posted[j] \in Nat /\ cleared[j[1]] \in Nat /\ Inserted(j) \in Nat
    BY DEF ScheduleTypeOK, Jobs, Inserted
  <2>6. Inserted(j)' = Inserted(j) /\ cleared' = cleared
    BY <1>1 DEF Inserted
  <2> QED
    BY <2>1, <2>4, <2>5, <2>6 DEF Paid
<1> QED
  BY <1>6, <1>7

LEMMA PaidStep ==
    ASSUME ScheduleTypeOK, ScheduleTypeOK', HandInv, [Next]_vars, NEW j \in Jobs, Paid(j)
    PROVE  Paid(j)'
<1>1. /\ run \in [Jobs -> Statuses] /\ cleared \in [Schedules -> Nat] /\ j[1] \in Schedules
      /\ cleared[j[1]] \in Nat
  BY DEF ScheduleTypeOK, Jobs
<1>2. ASSUME UNCHANGED <<run, posted, cleared>>, Posters(j)' \subseteq Posters(j)
      PROVE  Paid(j)'
  <2>1. cleared[j[1]] + Inserted(j) <= cleared'[j[1]] + Inserted(j)'
    BY <1>1, <1>2 DEF Inserted
  <2> QED
    BY <1>2, <2>1, PaidKept
<1>3. UNCHANGED tick => Posters(j)' \subseteq Posters(j)
  BY DEF Posters, Job
<1>4. ASSUME NEW t \in Ticks, Begin(t) \/ TickStep(t) \/ Throw(t) PROVE Paid(j)'
  <2>1. CASE \/ Begin(t) \/ List(t) \/ NextRun(t) \/ NextAgent(t) \/ Resolve(t)
             \/ End(t) \/ InsertFails(t) \/ Throw(t)
    <3>1. UNCHANGED <<run, posted, cleared>>
      BY <2>1 DEF Begin, List, NextRun, NextAgent, Resolve, End, InsertFails, Throw, GivesUp,
                  tables, marks
    <3> QED
      BY <1>2, <2>1, <3>1, OtherTickSteps
  <2>2. CASE Insert(t)
    BY <2>2, PaidInsert
  <2>3. CASE Post(t)
    BY <2>3, PaidPost
  <2>4. CASE Record(t)
    <3>1. /\ UNCHANGED <<posted, cleared>> /\ tick[t].outcome # "none"
          /\ run' = IF run[Job(t)] = "none" THEN run
                    ELSE [run EXCEPT ![Job(t)] = tick[t].outcome]
      BY <2>4 DEF Record, At, marks, HandInv
    <3>2. run[j] # "none" => run'[j] # "none"
      BY <1>1, <3>1
    <3>3. cleared[j[1]] + Inserted(j) <= cleared'[j[1]] + Inserted(j)'
      BY <1>1, <3>1, <3>2 DEF Inserted
    <3> QED
      BY <2>4, <3>1, <3>3, OtherTickSteps, PaidKept
  <2> QED
    BY <1>4, <2>1, <2>2, <2>3, <2>4 DEF TickStep
<1>5. ASSUME NEW s \in Schedules, Seed(s) \/ SetActive(s) \/ Remove(s) \/ EditStep(s)
      PROVE  Paid(j)'
  <2>1. UNCHANGED <<tick, posted>>
    BY <1>5 DEF Seed, SetActive, Remove, EditStep, ClearTargets, InsertTarget, Seeded,
                RemoveTargets, RemoveDefinition, marks
  <2>2. CASE Remove(s) \/ RemoveDefinition(s)
    <3>1. run' = WithoutRuns(s) /\ cleared' = [cleared EXCEPT ![s] = @ + 1]
      BY <2>2 DEF Remove, RemoveDefinition
    <3>2. CASE j[1] = s
      <4>1. cleared'[j[1]] = cleared[j[1]] + 1
        BY <1>1, <3>1, <3>2
      <4>2. cleared[j[1]] + Inserted(j) <= cleared'[j[1]] + Inserted(j)'
        BY <1>1, <4>1 DEF Inserted
      <4> QED
        BY <1>3, <2>1, <4>2, PaidKept
    <3>3. CASE j[1] # s
      <4>1. cleared'[j[1]] = cleared[j[1]] /\ run'[j] = run[j]
        BY <1>1, <3>1, <3>3 DEF WithoutRuns
      <4>2. cleared[j[1]] + Inserted(j) <= cleared'[j[1]] + Inserted(j)'
        BY <1>1, <4>1 DEF Inserted
      <4> QED
        BY <1>3, <2>1, <4>2, PaidKept
    <3> QED
      BY <3>2, <3>3
  <2>3. CASE ~(Remove(s) \/ RemoveDefinition(s))
    <3>1. UNCHANGED <<run, cleared>>
      BY <1>5, <2>3 DEF Seed, SetActive, EditStep, ClearTargets, InsertTarget, Seeded,
                        RemoveTargets, tables, marks
    <3> QED
      BY <1>2, <1>3, <2>1, <3>1
  <2> QED
    BY <2>2, <2>3
<1>6. CASE Restart
  <2>1. UNCHANGED <<run, posted, cleared>> /\ tick' = [t \in Ticks |-> Idle]
    BY <1>6 DEF Restart, tables
  <2>2. Posters(j)' \subseteq Posters(j)
    BY <2>1 DEF Posters, Idle
  <2> QED
    BY <1>2, <2>1, <2>2
<1>7. CASE Advance \/ UNCHANGED vars
  <2>1. UNCHANGED <<run, posted, cleared, tick>>
    BY <1>7 DEF Advance, vars, tables, marks
  <2> QED
    BY <1>2, <1>3, <2>1
<1> QED
  BY <1>4, <1>5, <1>6, <1>7 DEF Next

LEMMA PostedIs == PostedIInv <=> ScheduleTypeOK /\ HandInv /\ \A j \in Jobs : Paid(j)
  BY DEF PostedIInv, Paid

LEMMA PostedIInvInit == Init => PostedIInv
<1> SUFFICES ASSUME Init PROVE PostedIInv
  OBVIOUS
<1>1. ASSUME NEW j \in Jobs PROVE Paid(j)
  <2>1. Posters(j) = {}
    BY DEF Init, Posters, Idle
  <2>2. IsFiniteSet(Posters(j)) /\ Cardinality(Posters(j)) = 0
    BY <2>1, FS_EmptySet
  <2>3. posted[j] = 0 /\ cleared[j[1]] = 0 /\ Inserted(j) = 0
    BY DEF Init, Inserted, Jobs
  <2> QED
    BY <2>2, <2>3 DEF Paid
<1> QED
  BY <1>1, TypeInit, HandInit, PostedIs

\* An agent gets an occurrence once for each time its run rows were there, however
\* ticks overlap, hang and are cut short: the insert of the row decides who posts it.
THEOREM PostsAreOnce == Spec => []PostedOnce
<1>1. PostedIInv /\ [Next]_vars => PostedIInv'
  <2> SUFFICES ASSUME PostedIInv, [Next]_vars PROVE PostedIInv'
    OBVIOUS
  <2>1. ScheduleTypeOK /\ HandInv /\ \A j \in Jobs : Paid(j)
    BY PostedIs
  <2>2. ScheduleTypeOK' /\ HandInv'
    BY <2>1, TypeStep, HandStep
  <2>3. \A j \in Jobs : Paid(j)'
    BY <2>1, <2>2, PaidStep
  <2> QED
    BY <2>2, <2>3 DEF PostedIInv, Paid
<1>2. ASSUME PostedIInv PROVE PostedOnce
  <2> SUFFICES ASSUME NEW j \in Jobs PROVE posted[j] <= 1 + cleared[j[1]]
    BY DEF PostedOnce
  <2>1. ScheduleTypeOK /\ Paid(j)
    BY <1>2, PostedIs
  <2>2. /\ posted[j] \in Nat /\ cleared[j[1]] \in Nat /\ Inserted(j) \in {0, 1}
        /\ Cardinality(Posters(j)) \in Nat
    BY <2>1, FS_CardinalityType DEF ScheduleTypeOK, Jobs, Inserted, Paid
  <2> QED
    BY <2>1, <2>2 DEF Paid
<1> QED
  BY <1>1, <1>2, PostedIInvInit, PTL DEF Spec

--------------------------------------------------------------------------------
(* The steps of a tick under way                                                *)

MoveStep(t) == \/ List(t) \/ NextRun(t) \/ NextAgent(t) \/ Insert(t) \/ Resolve(t)
               \/ Post(t) \/ Record(t)

\* A tick goes on in its window, and takes up a row only by inserting it.
LEMMA Moves ==
    ASSUME ScheduleTypeOK, NEW t \in Ticks, MoveStep(t)
    PROVE  \E x : /\ Becomes(t, x) /\ x.from = tick[t].from /\ x.to = tick[t].to
                  /\ x.at # "idle" /\ tick[t].at # "idle"
                  /\ \/ x.at \notin Working
                     \/ /\ tick[t].at \in Working /\ UNCHANGED run
                        /\ x.run = tick[t].run /\ x.agent = tick[t].agent
                     \/ /\ tick[t].at = "insert" /\ run[Job(t)] = "none"
                        /\ run' = [run EXCEPT ![Job(t)] = "pending"]
                        /\ x.run = tick[t].run /\ x.agent = tick[t].agent
<1> USE DEF At, Working
<1>1. tick[t] \in TickStates
  BY TickTypes
<1>2. CASE List(t)
  <2> DEFINE x == [tick[t] EXCEPT !.at = "run", !.todo = Listed(t)]
  <2>1. Becomes(t, x) /\ tick[t].at = "list"
    BY <1>2, ListTick DEF List
  <2>2. x.from = tick[t].from /\ x.to = tick[t].to /\ x.at = "run"
    BY <1>1 DEF TickStates
  <2> QED
    BY <2>1, <2>2
<1>3. CASE NextRun(t)
  <2>1. PICK r \in tick[t].todo :
          Becomes(t, [tick[t] EXCEPT !.at = "agent", !.todo = @ \ {r}, !.run = r,
                                     !.agents = target[r[1]]])
    BY <1>3, NextRunTick
  <2> DEFINE x == [tick[t] EXCEPT !.at = "agent", !.todo = @ \ {r}, !.run = r,
                                  !.agents = target[r[1]]]
  <2>2. Becomes(t, x) /\ tick[t].at # "idle"
    BY <1>3, <2>1 DEF NextRun, RunDone
  <2>3. x.from = tick[t].from /\ x.to = tick[t].to /\ x.at = "agent"
    BY <1>1 DEF TickStates
  <2> QED
    BY <2>2, <2>3
<1>4. CASE NextAgent(t)
  <2>1. PICK a \in tick[t].agents :
          \/ Becomes(t, [tick[t] EXCEPT !.agents = @ \ {a}])
          \/ Becomes(t, [tick[t] EXCEPT !.at = "insert", !.agent = a, !.agents = @ \ {a}])
    BY <1>4, NextAgentTick
  <2>2. tick[t].at = "agent"
    BY <1>4 DEF NextAgent
  <2> DEFINE x == [tick[t] EXCEPT !.agents = @ \ {a}]
             y == [tick[t] EXCEPT !.at = "insert", !.agent = a, !.agents = @ \ {a}]
  <2>3. /\ x.from = tick[t].from /\ x.to = tick[t].to /\ x.at = "agent"
        /\ y.from = tick[t].from /\ y.to = tick[t].to /\ y.at = "insert"
    BY <1>1, <2>2 DEF TickStates
  <2>4. Becomes(t, x) \/ Becomes(t, y)
    BY <2>1
  <2> HIDE DEF x, y
  <2> QED
    BY <2>2, <2>3, <2>4
<1>5. CASE Insert(t)
  <2> DEFINE x == [tick[t] EXCEPT !.at = "resolve"]
             y == [tick[t] EXCEPT !.at = "agent", !.agent = None]
  <2>1. \/ /\ run[Job(t)] = "none" /\ run' = [run EXCEPT ![Job(t)] = "pending"]
           /\ Becomes(t, x)
        \/ Becomes(t, y)
    BY <1>5, InsertTick
  <2>2. /\ x.from = tick[t].from /\ x.to = tick[t].to /\ x.at = "resolve"
        /\ x.run = tick[t].run /\ x.agent = tick[t].agent
        /\ y.from = tick[t].from /\ y.to = tick[t].to /\ y.at = "agent"
    BY <1>1 DEF TickStates
  <2>3. tick[t].at = "insert"
    BY <1>5 DEF Insert
  <2> HIDE DEF x, y
  <2> QED
    BY <2>1, <2>2, <2>3
<1>6. CASE Resolve(t) \/ Post(t)
  <2> DEFINE y(outcome) == [tick[t] EXCEPT !.at = "record", !.outcome = outcome]
             x == [tick[t] EXCEPT !.at = "post"]
  <2>1. /\ tick[t].at \in Working /\ UNCHANGED run
        /\ Becomes(t, x) \/ \E outcome \in {"sent", "skipped", "failed"} : Becomes(t, y(outcome))
    BY <1>6, ResolveTick, PostTick DEF Resolve, Post, tables
  <2>2. /\ x.from = tick[t].from /\ x.to = tick[t].to /\ x.at = "post"
        /\ x.run = tick[t].run /\ x.agent = tick[t].agent
    BY <1>1 DEF TickStates
  <2>3. \A outcome : /\ y(outcome).from = tick[t].from /\ y(outcome).to = tick[t].to
                     /\ y(outcome).at = "record"
                     /\ y(outcome).run = tick[t].run /\ y(outcome).agent = tick[t].agent
    BY <1>1 DEF TickStates
  <2> HIDE DEF x, y
  <2> QED
    BY <2>1, <2>2, <2>3
<1>7. CASE Record(t)
  <2> DEFINE x == [tick[t] EXCEPT !.at = "agent", !.agent = None, !.outcome = "none"]
  <2>1. Becomes(t, x) /\ tick[t].at = "record"
    BY <1>7, RecordTick DEF Record
  <2>2. x.from = tick[t].from /\ x.to = tick[t].to /\ x.at = "agent"
    BY <1>1 DEF TickStates
  <2> QED
    BY <2>1, <2>2
<1> QED
  BY <1>2, <1>3, <1>4, <1>5, <1>6, <1>7 DEF MoveStep

\* What else such a step leaves alone.
LEMMA MoveLeaves ==
    ASSUME NEW t \in Ticks, MoveStep(t)
    PROVE  UNCHANGED <<now, begun, last, def, target, edit, cleared, since>>
  BY DEF MoveStep, List, NextRun, NextAgent, Insert, Resolve, Post, Record, clock, tables, marks

\* The steps of the specification, sorted by what they do to the ticks.
LEMMA StepKinds ==
    ASSUME [Next]_vars
    PROVE  \/ \E t \in Ticks : Begin(t)
           \/ \E t \in Ticks : MoveStep(t)
           \/ \E t \in Ticks : End(t)
           \/ \E t \in Ticks : InsertFails(t) \/ Throw(t)
           \/ \E s \in Schedules : Seed(s) \/ SetActive(s) \/ Remove(s) \/ EditStep(s)
           \/ Advance
           \/ Restart
           \/ UNCHANGED vars
  BY DEF Next, TickStep, MoveStep

LEMMA EditLeaves ==
    ASSUME NEW s \in Schedules, Seed(s) \/ SetActive(s) \/ Remove(s) \/ EditStep(s)
    PROVE  UNCHANGED <<now, begun, last, tick, posted>>
  BY DEF Seed, SetActive, Remove, EditStep, ClearTargets, InsertTarget, Seeded,
         RemoveTargets, RemoveDefinition, clock, marks

LEMMA ClockStep ==
    ASSUME ScheduleTypeOK, ClockInv, [Next]_vars PROVE ClockInv'
<1>1. /\ now \in Nat /\ begun \in Nat /\ last \in Nat /\ Drift \in Nat
      /\ \A t \in Ticks : tick[t].from \in Nat /\ tick[t].to \in Nat
      /\ tick \in [Ticks -> TickStates]
  BY ClockTypes, TickTypes, TimesAssumption DEF ScheduleTypeOK
<1>2. ASSUME NEW t \in Ticks, Begin(t) PROVE ClockInv'
  <2> DEFINE x == [Idle EXCEPT !.at = "list", !.from = last, !.to = now]
  <2>1. Becomes(t, x) /\ begun' = now /\ UNCHANGED <<now, last>>
    BY <1>2, BeginTick DEF Begin
  <2>2. x.from = last /\ x.to = now
    BY DEF Idle
  <2> HIDE DEF x
  <2> QED
    BY <1>1, <2>1, <2>2 DEF ClockInv, Becomes, At
<1>3. ASSUME NEW t \in Ticks, MoveStep(t) PROVE ClockInv'
  <2>1. PICK x : /\ Becomes(t, x) /\ x.from = tick[t].from /\ x.to = tick[t].to
                 /\ tick[t].at # "idle"
    BY <1>3, Moves
  <2>2. UNCHANGED <<now, begun, last>>
    BY <1>3, MoveLeaves
  <2> QED
    BY <1>1, <2>1, <2>2 DEF ClockInv, Becomes, At
<1>4. ASSUME NEW t \in Ticks, End(t) \/ InsertFails(t) \/ Throw(t) PROVE ClockInv'
  <2>1. Becomes(t, Idle) /\ last' = tick[t].to /\ UNCHANGED <<now, begun>> /\ ~At(t, "idle")
    BY <1>4, EndTick DEF End, InsertFails, Throw, GivesUp, RunDone, At
  <2> QED
    BY <1>1, <2>1, IdleType DEF ClockInv, Becomes, At
<1>5. CASE Advance
  BY <1>1, <1>5 DEF Advance, ClockInv, At
<1>6. CASE Restart
  <2>1. /\ begun' = now' /\ last' = 0 /\ now' \in Nat
        /\ \A t \in Ticks : tick'[t] = Idle
    BY <1>1, <1>6, ClockTypes DEF Restart, ScheduleTypeOK
  <2> QED
    BY <1>1, <2>1, IdleType DEF ClockInv, At
<1>7. ASSUME UNCHANGED <<now, begun, last, tick>> PROVE ClockInv'
  BY <1>7 DEF ClockInv, At
<1>8. UNCHANGED vars => UNCHANGED <<now, begun, last, tick>>
  BY DEF vars
<1> QED
  BY <1>2, <1>3, <1>4, <1>5, <1>6, <1>7, <1>8, StepKinds, EditLeaves

--------------------------------------------------------------------------------
(* The rows of a schedule whose rows were never deleted                         *)

\* What a tick under way does to the rows.
LEMMA RowMoves ==
    ASSUME ScheduleTypeOK, HandInv, NEW t \in Ticks, MoveStep(t)
    PROVE  \/ UNCHANGED run
           \/ /\ tick[t].at \in {"insert", "record"}
              /\ tick[t].at = "insert" => run[Job(t)] = "none"
              /\ \E status \in Statuses \ {"none"} :
                   run' = [run EXCEPT ![Job(t)] = status]
<1>1. CASE Insert(t)
  <2>1. "pending" \in Statuses \ {"none"}
    BY DEF Statuses
  <2> QED
    BY <1>1, <2>1, InsertTick DEF Insert, At
<1>2. CASE Record(t)
  <2>1. /\ tick[t].at = "record" /\ tick[t].outcome \in Statuses \ {"none"}
        /\ run' = run \/ run' = [run EXCEPT ![Job(t)] = tick[t].outcome]
    BY <1>2, TickTypes DEF Record, At, HandInv
  <2> QED
    BY <2>1
<1>3. CASE List(t) \/ NextRun(t) \/ NextAgent(t) \/ Resolve(t) \/ Post(t)
  BY <1>3 DEF List, NextRun, NextAgent, Resolve, Post, tables
<1> QED
  BY <1>1, <1>2, <1>3 DEF MoveStep

\* A row stays, and a sent row stays sent.
RowsStay(s) == \A j \in Jobs : j[1] = s =>
    /\ run[j] # "none" => run'[j] # "none"
    /\ MaxRuns[s] # NoMax /\ run[j] = "sent" => run'[j] = "sent"

LEMMA MovesKeepRows ==
    ASSUME ScheduleTypeOK, HandInv, WorkersInv, NEW t \in Ticks, MoveStep(t),
           NEW s \in Schedules, MaxRuns[s] # NoMax => cleared[s] = 0
    PROVE  RowsStay(s)
<1>1. CASE UNCHANGED run
  BY <1>1 DEF RowsStay
<1>2. ASSUME tick[t].at \in {"insert", "record"},
             tick[t].at = "insert" => run[Job(t)] = "none",
             NEW status \in Statuses \ {"none"}, run' = [run EXCEPT ![Job(t)] = status]
      PROVE  RowsStay(s)
  <2>1. Job(t) \in Jobs /\ Job(t)[1] = tick[t].run[1] /\ run \in [Jobs -> Statuses]
    BY <1>2, JobType DEF Working, ScheduleTypeOK
  <2>2. MaxRuns[s] # NoMax /\ Job(t)[1] = s => run[Job(t)] # "sent"
    BY <1>2, <2>1 DEF WorkersInv, Working
  <2> QED
    BY <1>2, <2>1, <2>2 DEF RowsStay
<1> QED
  BY <1>1, <1>2, RowMoves

LEMMA WorkersStep ==
    ASSUME ScheduleTypeOK, HandInv, WorkersInv, [Next]_vars PROVE WorkersInv'
<1>1. run \in [Jobs -> Statuses] /\ cleared \in [Schedules -> Nat]
  BY DEF ScheduleTypeOK
<1>2. ASSUME NEW t \in Ticks, NEW x, Becomes(t, x), x.at \notin Working,
             UNCHANGED <<run, cleared>>
      PROVE  WorkersInv'
  BY <1>2 DEF WorkersInv, Becomes, Job
<1>3. ASSUME NEW t \in Ticks, Begin(t) PROVE WorkersInv'
  <2>1. /\ Becomes(t, [Idle EXCEPT !.at = "list", !.from = last, !.to = now])
        /\ [Idle EXCEPT !.at = "list", !.from = last, !.to = now].at \notin Working
        /\ UNCHANGED <<run, cleared>>
    BY <1>3, BeginTick DEF Begin, Idle, Working, tables, marks
  <2> QED
    BY <1>2, <2>1
<1>4. ASSUME NEW t \in Ticks, End(t) \/ InsertFails(t) \/ Throw(t) PROVE WorkersInv'
  <2>1. Becomes(t, Idle) /\ Idle.at \notin Working /\ UNCHANGED <<run, cleared>>
    BY <1>4, EndTick DEF End, InsertFails, Throw, GivesUp, Idle, Working, tables, marks
  <2> QED
    BY <1>2, <2>1
<1>5. ASSUME NEW t \in Ticks, MoveStep(t) PROVE WorkersInv'
  <2>1. PICK x :
          /\ Becomes(t, x)
          /\ \/ x.at \notin Working
             \/ /\ tick[t].at \in Working /\ UNCHANGED run
                /\ x.run = tick[t].run /\ x.agent = tick[t].agent
             \/ /\ tick[t].at = "insert" /\ run[Job(t)] = "none"
                /\ run' = [run EXCEPT ![Job(t)] = "pending"]
                /\ x.run = tick[t].run /\ x.agent = tick[t].agent
    BY <1>5, Moves
  <2>2. cleared' = cleared /\ tick'[t] = x /\ \A u \in Ticks \ {t} : tick'[u] = tick[u]
    BY <1>5, <2>1, MoveLeaves DEF Becomes
  <2>3. \A u \in Ticks \ {t} : Job(u)' = Job(u)
    BY <2>2 DEF Job
  <2>4. CASE x.at \notin Working
    <3> SUFFICES ASSUME NEW u \in Ticks, tick'[u].at \in Working, cleared'[tick'[u].run[1]] = 0
                 PROVE  /\ run'[Job(u)'] = "pending"
                        /\ \A v \in Ticks : tick'[v].at \in Working /\ Job(v)' = Job(u)' => v = u
      BY DEF WorkersInv
    <3>1. /\ u # t /\ tick[u].at \in Working /\ cleared[tick[u].run[1]] = 0
          /\ Job(u)' = Job(u)
      BY <2>2, <2>3, <2>4
    <3>2. /\ run[Job(u)] = "pending"
          /\ \A v \in Ticks : tick[v].at \in Working /\ Job(v) = Job(u) => v = u
      BY <3>1 DEF WorkersInv
    <3>3. run'[Job(u)] = "pending"
      <4>1. Job(u) \in Jobs
        BY <3>1, JobType
      <4>2. ASSUME tick[t].at \in {"insert", "record"},
                   tick[t].at = "insert" => run[Job(t)] = "none"
            PROVE  Job(t) # Job(u)
        BY <3>1, <3>2, <4>2 DEF Working
      <4> QED
        BY <1>1, <1>5, <3>2, <4>1, <4>2, RowMoves
    <3> QED
      BY <2>2, <2>3, <2>4, <3>1, <3>2, <3>3
  <2>5. CASE /\ tick[t].at \in Working /\ UNCHANGED run
             /\ x.run = tick[t].run /\ x.agent = tick[t].agent
    <3>1. \A u \in Ticks : Job(u)' = Job(u) /\ tick'[u].run = tick[u].run
      BY <2>2, <2>3, <2>5 DEF Job
    <3>2. \A u \in Ticks : tick'[u].at \in Working => tick[u].at \in Working
      BY <2>2, <2>5
    <3> QED
      BY <2>2, <2>5, <3>1, <3>2 DEF WorkersInv
  <2>6. CASE /\ tick[t].at = "insert" /\ run[Job(t)] = "none"
             /\ run' = [run EXCEPT ![Job(t)] = "pending"]
             /\ x.run = tick[t].run /\ x.agent = tick[t].agent
    <3>1. \A u \in Ticks : Job(u)' = Job(u) /\ tick'[u].run = tick[u].run
      BY <2>2, <2>3, <2>6 DEF Job
    <3>2. Job(t) \in Jobs /\ Job(t)[1] = tick[t].run[1]
      BY <2>6, JobType
    <3>3. ASSUME NEW u \in Ticks \ {t}, tick[u].at \in Working, cleared[tick[u].run[1]] = 0
          PROVE  /\ Job(u) # Job(t) /\ run'[Job(u)] = "pending"
                 /\ \A v \in Ticks \ {t} :
                      tick[v].at \in Working /\ Job(v) = Job(u) => v = u
      BY <1>1, <2>6, <3>2, <3>3, JobType DEF WorkersInv
    <3>4. ASSUME NEW u \in Ticks \ {t}, tick[u].at \in Working, Job(u) = Job(t)
          PROVE  cleared[tick[u].run[1]] = cleared[tick[t].run[1]]
      BY <2>6, <3>4, JobType DEF Working
    <3>5. run'[Job(t)] = "pending"
      BY <1>1, <2>6, <3>2
    <3> SUFFICES ASSUME NEW u \in Ticks, tick'[u].at \in Working, cleared'[tick'[u].run[1]] = 0
                 PROVE  /\ run'[Job(u)'] = "pending"
                        /\ \A v \in Ticks : tick'[v].at \in Working /\ Job(v)' = Job(u)' => v = u
      BY DEF WorkersInv
    <3>6. cleared[tick[u].run[1]] = 0
      BY <2>2, <3>1
    <3>7. CASE u = t
      BY <2>2, <3>1, <3>3, <3>4, <3>5, <3>6, <3>7
    <3>8. CASE u # t
      <4>1. tick[u].at \in Working
        BY <2>2, <3>8
      <4> QED
        BY <2>2, <3>1, <3>3, <3>6, <3>8, <4>1
    <3> QED
      BY <3>7, <3>8
  <2> QED
    BY <2>1, <2>4, <2>5, <2>6
<1>6. ASSUME NEW s \in Schedules, Seed(s) \/ SetActive(s) \/ Remove(s) \/ EditStep(s)
      PROVE  WorkersInv'
  <2>1. UNCHANGED tick
    BY <1>6, EditLeaves
  <2>2. CASE Remove(s) \/ RemoveDefinition(s)
    <3>1. run' = WithoutRuns(s) /\ cleared' = [cleared EXCEPT ![s] = @ + 1]
      BY <2>2 DEF Remove, RemoveDefinition
    <3>2. \A u \in Ticks : Job(u)' = Job(u)
      BY <2>1 DEF Job
    <3> SUFFICES ASSUME NEW u \in Ticks, tick[u].at \in Working, cleared'[tick[u].run[1]] = 0
                 PROVE  /\ run'[Job(u)] = "pending"
                        /\ \A v \in Ticks : tick[v].at \in Working /\ Job(v) = Job(u) => v = u
      BY <2>1, <3>2 DEF WorkersInv
    <3>3. tick[u].run[1] # s /\ cleared[tick[u].run[1]] = 0
      BY <1>1, <3>1, JobType
    <3>4. run'[Job(u)] = run[Job(u)]
      BY <3>1, <3>3, JobType DEF WithoutRuns
    <3> QED
      BY <3>3, <3>4 DEF WorkersInv
  <2>3. CASE ~(Remove(s) \/ RemoveDefinition(s))
    <3>1. UNCHANGED <<run, cleared>>
      BY <1>6, <2>3 DEF Seed, SetActive, EditStep, ClearTargets, InsertTarget, Seeded,
                        RemoveTargets, tables, marks
    <3> QED
      BY <2>1, <3>1 DEF WorkersInv, Job
  <2> QED
    BY <2>2, <2>3
<1>7. CASE Restart
  BY <1>7 DEF Restart, WorkersInv, Working, Idle
<1>8. CASE Advance \/ UNCHANGED vars
  BY <1>8 DEF Advance, vars, tables, marks, WorkersInv, Job
<1> QED
  BY <1>3, <1>4, <1>5, <1>6, <1>7, <1>8, StepKinds

--------------------------------------------------------------------------------
(* What is forgotten                                                            *)

\* What has been settled stays settled while the rows stay.
LEMMA SettledStays ==
    ASSUME NEW s \in Schedules, NEW a \in Agents, NEW k \in Instants, RowsStay(s),
           Settled(s, a, k)
    PROVE  Settled(s, a, k)'
<1>1. CASE run[<<s, a, k>>] # "none"
  BY <1>1 DEF Settled, RowsStay, Jobs
<1>2. CASE ReachedMax(s, a)
  <2>1. Sent(s, a) \subseteq Sent(s, a)'
    BY <1>2 DEF Sent, RowsStay, Jobs, ReachedMax
  <2>2. IsFiniteSet(Sent(s, a)')
    <3>1. IsFiniteSet(0..Horizon)
      BY TimesAssumption, FS_Interval
    <3>2. Sent(s, a)' \in SUBSET (0..Horizon)
      BY DEF Sent, Instants
    <3> QED
      BY <3>1, <3>2, FS_Subset
  <2>3. /\ Cardinality(Sent(s, a)) <= Cardinality(Sent(s, a)')
        /\ Cardinality(Sent(s, a)) \in Nat /\ Cardinality(Sent(s, a)') \in Nat
    <3>1. IsFiniteSet(Sent(s, a)) /\ Cardinality(Sent(s, a)) <= Cardinality(Sent(s, a)')
      BY <2>1, <2>2, FS_Subset
    <3> QED
      BY <2>2, <3>1, FS_CardinalityType
  <2>4. MaxRuns[s] \in Nat
    BY <1>2, MaxRunsAssumption DEF ReachedMax
  <2>5. ReachedMax(s, a)'
    BY <1>2, <2>3, <2>4 DEF ReachedMax
  <2> QED
    BY <2>5 DEF Settled
<1> QED
  BY <1>1, <1>2 DEF Settled

\* A tick goes on to settle what is ahead of it.
LEMMA AheadMoves ==
    ASSUME ScheduleTypeOK, HandInv, NEW t \in Ticks, MoveStep(t),
           NEW s \in Schedules, NEW a \in Agents, NEW k \in Instants,
           Standing(s, a, k), RowsStay(s), Ahead(t, s, a, k)
    PROVE  Ahead(t, s, a, k)' \/ Settled(s, a, k)'
<1>0. /\ <<s, k>> \in Runs /\ <<s, k>> # None
      /\ def[s].there /\ def[s].active /\ a \in target[s]
      /\ def' = def
      /\ tick[t] \in TickStates
  BY NoneAssumption, TickTypes, MoveLeaves DEF Standing, Runs
<1>1. CASE List(t)
  <2>1. Becomes(t, [tick[t] EXCEPT !.at = "run", !.todo = Listed(t)]) /\ tick[t].at = "list"
    BY <1>1, ListTick DEF List, At
  <2>2. /\ tick'[t].todo = Listed(t)
    BY <1>0, <2>1 DEF Becomes, TickStates
  <2>3. tick[t].todo = {} /\ tick[t].run = None
    BY <2>1 DEF HandInv
  <2>4. k \in DueRuns(s, def[s], tick[t].from, tick[t].to)
    BY <1>0, <2>1, <2>3 DEF Ahead, InHand, At
  <2>5. <<s, k>> \in Listed(t)
    BY <1>0, <2>4 DEF Listed
  <2> QED
    BY <2>2, <2>5 DEF Ahead
<1>2. CASE NextRun(t)
  <2>1. PICK r \in tick[t].todo :
          Becomes(t, [tick[t] EXCEPT !.at = "agent", !.todo = @ \ {r}, !.run = r,
                                     !.agents = target[r[1]]])
    BY <1>2, NextRunTick
  <2>2. tick'[t].todo = tick[t].todo \ {r} /\ tick'[t].run = r /\ tick'[t].agents = target[r[1]]
    BY <1>0, <2>1 DEF Becomes, TickStates
  <2>3. <<s, k>> \in tick[t].todo
    BY <1>0, <1>2 DEF Ahead, InHand, At, NextRun, RunDone, HandInv
  <2> QED
    BY <1>0, <2>2, <2>3 DEF Ahead, InHand
<1>3. CASE NextAgent(t)
  <2>1. PICK b \in tick[t].agents :
          \/ /\ ReachedMax(tick[t].run[1], b)
             /\ Becomes(t, [tick[t] EXCEPT !.agents = @ \ {b}])
          \/ Becomes(t, [tick[t] EXCEPT !.at = "insert", !.agent = b, !.agents = @ \ {b}])
    BY <1>3, NextAgentTick
  <2>2. tick[t].at = "agent"
    BY <1>3 DEF NextAgent, At
  <2>3. CASE /\ ReachedMax(tick[t].run[1], b)
             /\ Becomes(t, [tick[t] EXCEPT !.agents = @ \ {b}])
    <3>1. /\ tick'[t].todo = tick[t].todo /\ tick'[t].run = tick[t].run
          /\ tick'[t].agents = tick[t].agents \ {b}
      BY <1>0, <2>3 DEF Becomes, TickStates
    <3>2. CASE InHand(t, s, k) /\ a = b
      BY <2>3, <3>2, SettledStays DEF Settled, InHand
    <3>3. CASE ~(InHand(t, s, k) /\ a = b)
      BY <2>2, <3>1, <3>3 DEF Ahead, InHand, At
    <3> QED
      BY <3>2, <3>3
  <2>4. CASE Becomes(t, [tick[t] EXCEPT !.at = "insert", !.agent = b, !.agents = @ \ {b}])
    <3>1. /\ tick'[t].todo = tick[t].todo /\ tick'[t].run = tick[t].run
          /\ tick'[t].agents = tick[t].agents \ {b} /\ tick'[t].agent = b
          /\ tick'[t].at = "insert"
      BY <1>0, <2>4 DEF Becomes, TickStates
    <3> QED
      BY <2>2, <3>1 DEF Ahead, InHand, At
  <2> QED
    BY <2>1, <2>3, <2>4
<1>4. CASE Insert(t)
  <2>1. tick[t].at = "insert"
    BY <1>4 DEF Insert, At
  <2>2. CASE InHand(t, s, k) /\ tick[t].agent = a
    <3>1. Job(t) = <<s, a, k>> /\ Job(t) \in Jobs
      BY <2>2, <2>1, JobType DEF Job, InHand
    <3>2. run'[Job(t)] # "none"
      BY <1>4, <3>1, InsertTick DEF ScheduleTypeOK
    <3> QED
      BY <3>1, <3>2 DEF Settled
  <2>3. CASE ~(InHand(t, s, k) /\ tick[t].agent = a)
    <3> DEFINE x == [tick[t] EXCEPT !.at = "resolve"]
               y == [tick[t] EXCEPT !.at = "agent", !.agent = None]
    <3>1. Becomes(t, x) \/ Becomes(t, y)
      BY <1>4, InsertTick
    <3>2. /\ x.todo = tick[t].todo /\ x.run = tick[t].run /\ x.agents = tick[t].agents
          /\ y.todo = tick[t].todo /\ y.run = tick[t].run /\ y.agents = tick[t].agents
      BY <1>0 DEF TickStates
    <3> HIDE DEF x, y
    <3>3. /\ tick'[t].todo = tick[t].todo /\ tick'[t].run = tick[t].run
          /\ tick'[t].agents = tick[t].agents
      BY <3>1, <3>2 DEF Becomes
    <3> QED
      BY <2>1, <2>3, <3>3 DEF Ahead, InHand, At
  <2> QED
    BY <2>2, <2>3
<1>5. CASE Resolve(t) \/ Post(t)
  <2> DEFINE y(outcome) == [tick[t] EXCEPT !.at = "record", !.outcome = outcome]
             x == [tick[t] EXCEPT !.at = "post"]
  <2>1. /\ tick[t].at \in {"resolve", "post"}
        /\ Becomes(t, x) \/ \E outcome \in {"sent", "skipped", "failed"} : Becomes(t, y(outcome))
    BY <1>5, ResolveTick, PostTick DEF Resolve, Post, At
  <2>2. x.todo = tick[t].todo /\ x.run = tick[t].run /\ x.agents = tick[t].agents
    BY <1>0 DEF TickStates
  <2>3. \A outcome : /\ y(outcome).todo = tick[t].todo
                     /\ y(outcome).run = tick[t].run /\ y(outcome).agents = tick[t].agents
    BY <1>0 DEF TickStates
  <2> HIDE DEF x, y
  <2>4. /\ tick'[t].todo = tick[t].todo /\ tick'[t].run = tick[t].run
        /\ tick'[t].agents = tick[t].agents
    BY <2>1, <2>2, <2>3 DEF Becomes
  <2> QED
    BY <2>1, <2>4 DEF Ahead, InHand, At
<1>6. CASE Record(t)
  <2>1. /\ tick[t].at = "record"
        /\ Becomes(t, [tick[t] EXCEPT !.at = "agent", !.agent = None, !.outcome = "none"])
    BY <1>6, RecordTick DEF Record, At
  <2>2. /\ tick'[t].todo = tick[t].todo /\ tick'[t].run = tick[t].run
        /\ tick'[t].agents = tick[t].agents
    BY <1>0, <2>1 DEF Becomes, TickStates
  <2> QED
    BY <2>1, <2>2 DEF Ahead, InHand, At
<1> QED
  BY <1>1, <1>2, <1>3, <1>4, <1>5, <1>6 DEF MoveStep

\* Nothing that covers an occurrence is lost.
Progress(s, a, k) ==
    /\ Standing(s, a, k) /\ def'[s] = def[s]
    /\ Settled(s, a, k) => Settled(s, a, k)'
    /\ \A t \in Ticks : Ahead(t, s, a, k) => Ahead(t, s, a, k)' \/ Settled(s, a, k)'

CoveredNext(s, a, k, upto) ==
    \/ Settled(s, a, k)'
    \/ Policy[s] = "fire_once" /\ \E j \in Occurrences(s, def'[s]) : k < j /\ j <= upto
    \/ \E t \in Ticks : Ahead(t, s, a, k)'

LEMMA CoveredProgress ==
    ASSUME NEW s, NEW a, NEW k, Progress(s, a, k)
    PROVE  \A upto : Covered(s, a, k, upto) => CoveredNext(s, a, k, upto)
  BY DEF Progress, Covered, CoveredNext, Superseded

\* A step in which no tick begins or ends.
Steady == \A t \in Ticks : tick'[t].at # "idle" =>
              /\ tick[t].at # "idle"
              /\ tick'[t].from = tick[t].from /\ tick'[t].to = tick[t].to

Remembered == /\ NothingForgotten /\ InTimeInv
              /\ \A t \in Ticks : ~At(t, "idle") => WindowInv(t)

LEMMA WindowsKept ==
    ASSUME ScheduleTypeOK, ClockInv, Remembered, Steady, UNCHANGED begun,
           \A s \in Schedules, a \in Agents, k \in Instants :
              Standing(s, a, k)' /\ k <= now => Progress(s, a, k)
    PROVE  InTimeInv' /\ \A t \in Ticks : ~At(t, "idle")' => WindowInv(t)'
<1>1. /\ now \in Nat /\ begun \in Nat /\ last \in Nat
      /\ \A t \in Ticks : tick[t].from \in Nat /\ tick[t].to \in Nat
      /\ Instants \subseteq Nat
  BY ClockTypes, TickTypes DEF ScheduleTypeOK
<1>2. InTimeInv'
  <2> SUFFICES ASSUME NEW s \in Schedules, NEW a \in Agents, NEW k \in Instants,
                      Standing(s, a, k)', Policy[s] = "skip", k < begun
               PROVE  CoveredNext(s, a, k, k)
    BY DEF InTimeInv, Covered, CoveredNext, Superseded
  <2>1. Progress(s, a, k)
    BY <1>1 DEF ClockInv
  <2>2. Covered(s, a, k, k)
    BY <2>1 DEF Progress, Remembered, InTimeInv
  <2> QED
    BY <2>1, <2>2, CoveredProgress
<1>3. ASSUME NEW t \in Ticks, ~At(t, "idle")' PROVE WindowInv(t)'
  <2>1. /\ ~At(t, "idle") /\ tick'[t].from = tick[t].from /\ tick'[t].to = tick[t].to
        /\ tick[t].from <= tick[t].to /\ tick[t].to <= now
    BY <1>1, <1>3 DEF Steady, At, ClockInv
  <2> SUFFICES ASSUME NEW s \in Schedules, NEW a \in Agents, NEW k \in Instants,
                      Standing(s, a, k)'
               PROVE  /\ k <= tick[t].from => CoveredNext(s, a, k, tick[t].from)
                      /\ tick[t].from < k /\ k <= tick[t].to =>
                           \/ Settled(s, a, k)'
                           \/ /\ Policy[s] = "fire_once"
                              /\ \E j \in Occurrences(s, def'[s]) : k < j /\ j <= tick[t].to
                           \/ Ahead(t, s, a, k)'
                           \/ Policy[s] = "skip" /\ k + Dedupe < tick[t].to
    BY <2>1 DEF WindowInv, Covered, CoveredNext, Superseded
  <2>2. WindowInv(t)
    BY <2>1 DEF Remembered
  <2>3. k <= tick[t].to => Progress(s, a, k)
    BY <1>1, <2>1
  <2>4. ASSUME k <= tick[t].from PROVE CoveredNext(s, a, k, tick[t].from)
    <3>1. Progress(s, a, k)
      BY <1>1, <2>1, <2>3, <2>4
    <3>2. Covered(s, a, k, tick[t].from)
      BY <2>2, <2>4, <3>1 DEF Progress, WindowInv
    <3> QED
      BY <3>1, <3>2, CoveredProgress
  <2>5. ASSUME tick[t].from < k, k <= tick[t].to
        PROVE  \/ Settled(s, a, k)'
               \/ /\ Policy[s] = "fire_once"
                  /\ \E j \in Occurrences(s, def'[s]) : k < j /\ j <= tick[t].to
               \/ Ahead(t, s, a, k)'
               \/ Policy[s] = "skip" /\ k + Dedupe < tick[t].to
    BY <2>2, <2>3, <2>5 DEF Progress, WindowInv, Superseded
  <2> QED
    BY <2>4, <2>5
<1> QED
  BY <1>2, <1>3

LEMMA RememberedKept ==
    ASSUME ScheduleTypeOK, ClockInv, Remembered, Steady, UNCHANGED <<begun, last>>,
           \A s \in Schedules, a \in Agents, k \in Instants :
              Standing(s, a, k)' /\ k <= now => Progress(s, a, k)
    PROVE  Remembered'
<1>1. now \in Nat /\ begun \in Nat /\ last \in Nat /\ Instants \subseteq Nat
  BY ClockTypes DEF ScheduleTypeOK
<1>2. NothingForgotten'
  <2> SUFFICES ASSUME NEW s \in Schedules, NEW a \in Agents, NEW k \in Instants,
                      Standing(s, a, k)', k <= last
               PROVE  CoveredNext(s, a, k, last)
    BY DEF NothingForgotten, Covered, CoveredNext, Superseded
  <2>1. Progress(s, a, k)
    BY <1>1 DEF ClockInv
  <2>2. Covered(s, a, k, last)
    BY <2>1 DEF Progress, Remembered, NothingForgotten
  <2> QED
    BY <2>1, <2>2, CoveredProgress
<1>3. InTimeInv' /\ \A t \in Ticks : ~At(t, "idle")' => WindowInv(t)'
  BY WindowsKept
<1> QED
  BY <1>2, <1>3 DEF Remembered

\* The steps of a tick under way.
LEMMA MovesRemember ==
    ASSUME ScheduleTypeOK, HandInv, ClockInv, WorkersInv, Remembered,
           NEW t \in Ticks, MoveStep(t)
    PROVE  Remembered'
<1>1. UNCHANGED <<now, begun, last, def, target, edit, cleared, since>>
  BY MoveLeaves
<1>2. PICK x : /\ Becomes(t, x) /\ x.from = tick[t].from /\ x.to = tick[t].to
               /\ tick[t].at # "idle"
  BY Moves
<1>3. tick'[t] = x /\ \A u \in Ticks \ {t} : tick'[u] = tick[u]
  BY <1>2 DEF Becomes
<1>4. Steady
  BY <1>2, <1>3 DEF Steady
<1>5. ASSUME NEW s \in Schedules, NEW a \in Agents, NEW k \in Instants, Standing(s, a, k)'
      PROVE  Progress(s, a, k)
  <2>1. Standing(s, a, k)
    BY <1>1, <1>5 DEF Standing
  <2>2. RowsStay(s)
    BY <2>1, MovesKeepRows DEF Standing
  <2>3. \A u \in Ticks \ {t} : Ahead(u, s, a, k) => Ahead(u, s, a, k)'
    BY <1>1, <1>3 DEF Ahead, InHand, At
  <2>4. Ahead(t, s, a, k) => Ahead(t, s, a, k)' \/ Settled(s, a, k)'
    BY <2>1, <2>2, AheadMoves
  <2>5. Settled(s, a, k) => Settled(s, a, k)'
    BY <2>2, SettledStays
  <2> QED
    BY <1>1, <2>1, <2>3, <2>4, <2>5 DEF Progress
<1> QED
  BY <1>1, <1>4, <1>5, RememberedKept

\* The clock, and no step at all.
LEMMA IdlesRemember ==
    ASSUME ScheduleTypeOK, ClockInv, Remembered, Advance \/ UNCHANGED vars
    PROVE  Remembered'
<1>1. UNCHANGED <<begun, last, def, target, run, tick, edit, cleared, since>>
  BY DEF Advance, vars, tables, marks
<1>2. Steady
  BY <1>1 DEF Steady
<1>3. ASSUME NEW s \in Schedules, NEW a \in Agents, NEW k \in Instants, Standing(s, a, k)'
      PROVE  Progress(s, a, k)
  <2>1. Standing(s, a, k)
    BY <1>1, <1>3 DEF Standing
  <2>2. RowsStay(s)
    BY <1>1 DEF RowsStay
  <2>3. \A u \in Ticks : Ahead(u, s, a, k) => Ahead(u, s, a, k)'
    BY <1>1 DEF Ahead, InHand, At
  <2>4. Settled(s, a, k) => Settled(s, a, k)'
    BY <2>2, SettledStays
  <2> QED
    BY <1>1, <2>1, <2>3, <2>4 DEF Progress
<1> QED
  BY <1>1, <1>2, <1>3, RememberedKept

\* What an operator edits does not count until its next occurrence; the rest is left alone.
LEMMA EditsRemember ==
    ASSUME ScheduleTypeOK, ClockInv, Remembered, NEW z \in Schedules,
           Seed(z) \/ SetActive(z) \/ Remove(z) \/ EditStep(z)
    PROVE  Remembered'
<1>1. UNCHANGED <<now, begun, last, tick>>
  BY EditLeaves
<1>2. Steady
  BY <1>1 DEF Steady
<1>3. /\ def \in [Schedules -> Definitions] /\ edit \in [Schedules -> {"none", "retarget",
             "fill", "untarget", "undefine"}]
      /\ since \in [Schedules -> Instants] /\ target \in [Schedules -> SUBSET Agents]
      /\ cleared \in [Schedules -> Nat] /\ run \in [Jobs -> Statuses] /\ now \in Nat
  BY ClockTypes DEF ScheduleTypeOK
<1>4. edit'[z] # "none" \/ since'[z] = now
  BY <1>3 DEF Seed, SetActive, Remove, EditStep, ClearTargets, InsertTarget, Seeded,
              RemoveTargets, RemoveDefinition, Edited
<1>5. ASSUME NEW s \in Schedules \ {z}
      PROVE  /\ def'[s] = def[s] /\ edit'[s] = edit[s] /\ since'[s] = since[s]
             /\ target'[s] = target[s] /\ cleared'[s] = cleared[s]
             /\ \A j \in Jobs : j[1] = s => run'[j] = run[j]
  BY <1>3 DEF Seed, SetActive, Remove, EditStep, ClearTargets, InsertTarget, Seeded,
              RemoveTargets, RemoveDefinition, Edited, WithoutRuns, tables, marks
<1>6. ASSUME NEW s \in Schedules, NEW a \in Agents, NEW k \in Instants, Standing(s, a, k)',
             k <= now
      PROVE  Progress(s, a, k)
  <2>1. s # z
    BY <1>3, <1>4, <1>6, ClockTypes DEF Standing
  <2>2. Standing(s, a, k) /\ def'[s] = def[s]
    BY <1>5, <1>6, <2>1 DEF Standing
  <2>3. RowsStay(s)
    BY <1>5, <2>1 DEF RowsStay
  <2>4. \A u \in Ticks : Ahead(u, s, a, k) => Ahead(u, s, a, k)'
    BY <1>1, <2>2 DEF Ahead, InHand, At
  <2>5. Settled(s, a, k) => Settled(s, a, k)'
    BY <2>3, SettledStays
  <2> QED
    BY <2>2, <2>4, <2>5 DEF Progress
<1> QED
  BY <1>1, <1>2, <1>6, RememberedKept

\* When a tick is cut short, and after a restart, no occurrence counts that has come.
LEMMA CutsRemember ==
    ASSUME ScheduleTypeOK, ScheduleTypeOK', ClockInv', \A s \in Schedules : since'[s] = now'
    PROVE  Remembered'
<1>1. /\ now' \in Nat /\ begun' \in Nat /\ last' \in Nat /\ Instants \subseteq Nat
      /\ \A t \in Ticks : tick'[t].from \in Nat /\ tick'[t].to \in Nat
  <2>1. \A t \in Ticks : tick'[t].from \in Instants /\ tick'[t].to \in Instants
    BY DEF ScheduleTypeOK, TickStates
  <2> QED
    BY <2>1, ClockTypes DEF ScheduleTypeOK
<1>2. ASSUME NEW s \in Schedules, NEW a \in Agents, NEW k \in Instants, Standing(s, a, k)'
      PROVE  now' < k
  BY <1>2 DEF Standing
<1>3. last' <= begun' /\ begun' <= now'
  BY DEF ClockInv
<1>4. \A t \in Ticks : ~At(t, "idle")' => tick'[t].from <= now' /\ tick'[t].to <= now'
  BY <1>1 DEF ClockInv, At
<1>5. NothingForgotten'
  BY <1>1, <1>2, <1>3 DEF NothingForgotten
<1>6. InTimeInv'
  BY <1>1, <1>2, <1>3 DEF InTimeInv
<1>7. ASSUME NEW t \in Ticks, ~At(t, "idle")' PROVE WindowInv(t)'
  <2> SUFFICES ASSUME NEW s \in Schedules, NEW a \in Agents, NEW k \in Instants,
                      Standing(s, a, k)'
               PROVE  ~(k <= tick'[t].from) /\ ~(k <= tick'[t].to)
    BY DEF WindowInv
  <2> QED
    BY <1>1, <1>2, <1>4, <1>7
<1> QED
  BY <1>5, <1>6, <1>7 DEF Remembered

\* A tick that begins: what came before its window is covered; what fell due since the
\* last tick began is not late.
LEMMA BeginRemembers ==
    ASSUME ScheduleTypeOK, HandInv, ClockInv, Remembered, NEW t \in Ticks, Begin(t)
    PROVE  Remembered'
<1> DEFINE x == [Idle EXCEPT !.at = "list", !.from = last, !.to = now]
<1>1. /\ Becomes(t, x) /\ begun' = now /\ At(t, "idle")
      /\ UNCHANGED <<now, last, def, target, run, edit, cleared, since>>
  BY BeginTick DEF Begin, MayBegin, tables, marks
<1>2. x.at = "list" /\ x.from = last /\ x.to = now
  BY DEF Idle
<1> HIDE DEF x
<1>3. tick'[t] = x /\ \A u \in Ticks \ {t} : tick'[u] = tick[u]
  BY <1>1 DEF Becomes
<1>4. /\ now \in Nat /\ begun \in Nat /\ last \in Nat /\ Dedupe \in Nat /\ Drift \in Nat
      /\ Drift <= Dedupe /\ Instants \subseteq Nat
      /\ \A u \in Ticks : tick[u].from \in Nat /\ tick[u].to \in Nat
      /\ last <= begun /\ begun <= now /\ now <= begun + Drift
  BY ClockTypes, TickTypes, TimesAssumption DEF ScheduleTypeOK, ClockInv
<1>5. ASSUME NEW s \in Schedules, NEW a \in Agents, NEW k \in Instants
      PROVE  /\ Standing(s, a, k)' <=> Standing(s, a, k)
             /\ Settled(s, a, k)' <=> Settled(s, a, k)
             /\ \A u \in Ticks : Ahead(u, s, a, k) => Ahead(u, s, a, k)'
             /\ Progress(s, a, k) <=> Standing(s, a, k)
  <2>1. Standing(s, a, k)' <=> Standing(s, a, k)
    BY <1>1 DEF Standing
  <2>2. Settled(s, a, k)' <=> Settled(s, a, k)
    BY <1>1 DEF Settled, ReachedMax, Sent
  <2>3. ~Ahead(t, s, a, k)
    BY <1>1, NoneAssumption DEF Ahead, InHand, HandInv, At, Runs
  <2>4. \A u \in Ticks : Ahead(u, s, a, k) => Ahead(u, s, a, k)'
    BY <1>1, <1>3, <2>3 DEF Ahead, InHand, At
  <2> QED
    BY <1>1, <2>1, <2>2, <2>4 DEF Progress
<1>6. ASSUME NEW s \in Schedules, NEW a \in Agents, NEW k \in Instants, Standing(s, a, k),
             k <= last
      PROVE  CoveredNext(s, a, k, last)
  BY <1>5, <1>6, CoveredProgress DEF Remembered, NothingForgotten
<1>7. NothingForgotten'
  BY <1>1, <1>5, <1>6 DEF NothingForgotten, Covered, CoveredNext, Superseded
<1>8. InTimeInv'
  <2> SUFFICES ASSUME NEW s \in Schedules, NEW a \in Agents, NEW k \in Instants,
                      Standing(s, a, k), Policy[s] = "skip", k < now
               PROVE  CoveredNext(s, a, k, k)
    BY <1>1, <1>5 DEF InTimeInv, Covered, CoveredNext, Superseded
  <2>1. CASE k < begun
    BY <1>5, <2>1, CoveredProgress DEF Remembered, InTimeInv
  <2>2. CASE k <= last
    <3>1. CoveredNext(s, a, k, last)
      BY <1>6, <2>2
    <3> QED
      BY <3>1 DEF CoveredNext
  <2>3. CASE begun <= k /\ last < k
    <3>1. k \in Occurrences(s, def[s]) /\ now <= k + Dedupe /\ k \in Nat
      BY <1>4, <2>3 DEF Standing
    <3>2. k \in DueRuns(s, def[s], last, now)
      BY <1>4, <2>3, <3>1 DEF DueRuns
    <3>3. Ahead(t, s, a, k)'
      BY <1>1, <1>2, <1>3, <3>2 DEF Ahead, At
    <3> QED
      BY <3>3 DEF CoveredNext
  <2> QED
    BY <1>4, <2>1, <2>2, <2>3
<1>9. ASSUME NEW s \in Schedules, NEW a \in Agents, NEW k \in Instants, Standing(s, a, k),
             last < k, k <= now
      PROVE  \/ Superseded(s, k, now) \/ Ahead(t, s, a, k)'
             \/ Policy[s] = "skip" /\ k + Dedupe < now
  <2>1. k \in Occurrences(s, def[s]) /\ k \in Nat
    BY <1>4, <1>9 DEF Standing
  <2>2. \A j \in Occurrences(s, def[s]) : j \in Nat
    BY <1>4, TimesAssumption DEF Occurrences
  <2>3. CASE k \in DueRuns(s, def[s], last, now)
    BY <1>1, <1>2, <1>3, <2>3 DEF Ahead, At
  <2>4. CASE k \notin DueRuns(s, def[s], last, now)
    <3>1. CASE Policy[s] = "fire_once"
      BY <1>4, <1>9, <2>1, <2>2, <2>4, <3>1 DEF DueRuns, Superseded
    <3>2. CASE Policy[s] # "fire_once"
      <4>1. Policy[s] = "skip"
        BY <3>2, TimesAssumption
      <4> QED
        BY <1>4, <1>9, <2>1, <2>4, <4>1 DEF DueRuns
    <3> QED
      BY <3>1, <3>2
  <2> QED
    BY <2>3, <2>4
<1>10. ASSUME NEW u \in Ticks, ~At(u, "idle")' PROVE WindowInv(u)'
  <2>1. CASE u = t
    BY <1>1, <1>2, <1>3, <1>5, <1>6, <1>9, <2>1
       DEF WindowInv, Covered, CoveredNext, Superseded
  <2>2. CASE u # t
    <3>1. WindowInv(u) /\ tick'[u] = tick[u]
      BY <1>3, <1>10, <2>2 DEF Remembered, At
    <3>2. ASSUME NEW s \in Schedules, NEW a \in Agents, NEW k \in Instants, Standing(s, a, k)
          PROVE  /\ k <= tick[u].from => CoveredNext(s, a, k, tick[u].from)
                 /\ tick[u].from < k /\ k <= tick[u].to =>
                      \/ Settled(s, a, k)' \/ Superseded(s, k, tick[u].to)
                      \/ Ahead(u, s, a, k)'
                      \/ Policy[s] = "skip" /\ k + Dedupe < tick[u].to
      BY <1>5, <3>1, <3>2, CoveredProgress DEF WindowInv
    <3> QED
      BY <1>1, <1>5, <3>1, <3>2 DEF WindowInv, Covered, CoveredNext, Superseded
  <2> QED
    BY <2>1, <2>2
<1> QED
  BY <1>7, <1>8, <1>10 DEF Remembered

\* A tick that ends owes nothing, and what it leaves in other hands stays there.
LEMMA EndRemembers ==
    ASSUME ScheduleTypeOK, HandInv, ClockInv, Remembered, NEW t \in Ticks, End(t)
    PROVE  Remembered'
<1>1. /\ Becomes(t, Idle) /\ last' = tick[t].to
      /\ UNCHANGED <<now, begun, def, target, run, edit, cleared, since>>
  BY EndTick DEF End, tables, marks
<1>2. /\ tick[t].todo = {}
      /\ tick[t].at = "run" \/ (tick[t].at = "agent" /\ tick[t].agents = {})
  BY DEF End, RunDone, At
<1>3. tick'[t] = Idle /\ Idle.at = "idle" /\ \A u \in Ticks \ {t} : tick'[u] = tick[u]
  BY <1>1, IdleType DEF Becomes
<1>4. /\ begun \in Nat /\ Dedupe \in Nat /\ Instants \subseteq Nat
      /\ tick[t].from \in Nat /\ tick[t].to \in Nat
      /\ tick[t].from <= tick[t].to /\ tick[t].to <= begun
  BY <1>2, ClockTypes, TickTypes, TimesAssumption DEF ScheduleTypeOK, ClockInv, At
<1>5. Steady
  BY <1>3 DEF Steady
<1>6. ASSUME NEW s \in Schedules, NEW a \in Agents, NEW k \in Instants
      PROVE  ~Ahead(t, s, a, k)
  BY <1>2, NoneAssumption DEF Ahead, InHand, HandInv, At, Runs
<1>7. ASSUME NEW s \in Schedules, NEW a \in Agents, NEW k \in Instants, Standing(s, a, k)'
      PROVE  Progress(s, a, k)
  <2>1. Standing(s, a, k)
    BY <1>1, <1>7 DEF Standing
  <2>2. Settled(s, a, k) => Settled(s, a, k)'
    BY <1>1 DEF Settled, ReachedMax, Sent
  <2>3. \A u \in Ticks : Ahead(u, s, a, k) => Ahead(u, s, a, k)'
    BY <1>1, <1>3, <1>6 DEF Ahead, InHand, At
  <2> QED
    BY <1>1, <2>1, <2>2, <2>3 DEF Progress
<1>8. InTimeInv' /\ \A u \in Ticks : ~At(u, "idle")' => WindowInv(u)'
  BY <1>1, <1>5, <1>7, WindowsKept
<1>9. ASSUME NEW s \in Schedules, NEW a \in Agents, NEW k \in Instants, Standing(s, a, k),
             k <= tick[t].to
      PROVE  Covered(s, a, k, tick[t].to)
  <2>1. WindowInv(t) /\ k \in Nat
    BY <1>2, <1>4 DEF Remembered, At
  <2>2. CASE k <= tick[t].from
    <3>1. Covered(s, a, k, tick[t].from)
      BY <1>9, <2>1, <2>2 DEF WindowInv
    <3>2. \A j \in Occurrences(s, def[s]) : j \in Nat
      BY <1>4, TimesAssumption DEF Occurrences
    <3> QED
      BY <1>4, <3>1, <3>2 DEF Covered, Superseded
  <2>3. CASE tick[t].from < k
    <3>1. \/ Settled(s, a, k) \/ Superseded(s, k, tick[t].to)
          \/ Policy[s] = "skip" /\ k + Dedupe < tick[t].to
      BY <1>6, <1>9, <2>1, <2>3 DEF WindowInv
    <3>2. ASSUME Policy[s] = "skip", k + Dedupe < tick[t].to
          PROVE  Covered(s, a, k, tick[t].to)
      <4>1. k < begun
        BY <1>4, <2>1, <3>2
      <4>2. Covered(s, a, k, k)
        BY <1>9, <3>2, <4>1 DEF Remembered, InTimeInv
      <4> QED
        BY <3>2, <4>2 DEF Covered, Superseded
    <3> QED
      BY <3>1, <3>2 DEF Covered
  <2> QED
    BY <1>4, <2>1, <2>2, <2>3
<1>10. NothingForgotten'
  <2> SUFFICES ASSUME NEW s \in Schedules, NEW a \in Agents, NEW k \in Instants,
                      Standing(s, a, k)', k <= tick[t].to
               PROVE  CoveredNext(s, a, k, tick[t].to)
    BY <1>1 DEF NothingForgotten, Covered, CoveredNext, Superseded
  <2>1. Progress(s, a, k) /\ Covered(s, a, k, tick[t].to)
    BY <1>7, <1>9 DEF Progress
  <2> QED
    BY <2>1, CoveredProgress
<1> QED
  BY <1>8, <1>10 DEF Remembered

LEMMA ForgottenIs ==
    ForgottenIInv <=> ScheduleTypeOK /\ HandInv /\ ClockInv /\ WorkersInv /\ Remembered
  BY DEF ForgottenIInv, Remembered

LEMMA ForgottenStep == ASSUME ForgottenIInv, [Next]_vars PROVE ForgottenIInv'
<1>1. ScheduleTypeOK /\ HandInv /\ ClockInv /\ WorkersInv /\ Remembered
  BY ForgottenIs
<1>2. ScheduleTypeOK' /\ HandInv' /\ ClockInv' /\ WorkersInv'
  BY <1>1, TypeStep, HandStep, ClockStep, WorkersStep
<1>3. ASSUME NEW t \in Ticks, InsertFails(t) \/ Throw(t) PROVE Remembered'
  <2>1. \A s \in Schedules : since'[s] = now'
    BY <1>3 DEF InsertFails, Throw, GivesUp, CutShort
  <2> QED
    BY <1>1, <1>2, <2>1, CutsRemember
<1>4. ASSUME Restart PROVE Remembered'
  <2>1. \A s \in Schedules : since'[s] = now'
    BY <1>4 DEF Restart
  <2> QED
    BY <1>1, <1>2, <2>1, CutsRemember
<1>5. Remembered'
  BY <1>1, <1>2, <1>3, <1>4, StepKinds, BeginRemembers, MovesRemember, EndRemembers,
     EditsRemember, IdlesRemember
<1> QED
  BY <1>2, <1>5 DEF ForgottenIInv, Remembered

LEMMA ForgottenInit == ASSUME Init PROVE ForgottenIInv
<1>1. ScheduleTypeOK /\ HandInv
  BY TypeInit, HandInit
<1>2. \A t \in Ticks : tick[t] = Idle
  BY DEF Init
<1>3. \A t \in Ticks : At(t, "idle")
  BY <1>2, IdleType DEF At
<1>4. now = 1 /\ begun = 1 /\ last = 0 /\ \A s \in Schedules : since[s] = 0
  BY DEF Init
<1>5. ClockInv
  BY <1>3, <1>4, TimesAssumption DEF ClockInv
<1>6. WorkersInv
  BY <1>2 DEF WorkersInv, Working, Idle
<1>7. ASSUME NEW s \in Schedules, NEW a \in Agents, NEW k \in Instants, Standing(s, a, k)
      PROVE  ~(k <= 0) /\ ~(k < 1)
  BY <1>4, <1>7, ClockTypes DEF Standing
<1>8. NothingForgotten /\ InTimeInv
  BY <1>4, <1>7 DEF NothingForgotten, InTimeInv
<1> QED
  BY <1>1, <1>3, <1>5, <1>6, <1>8 DEF ForgottenIInv

\* What fell due before the next window begins has a run row for each agent, or a tick
\* under way will give it one: whatever order the overlapping ticks of the timer end in
\* and set lastTickAtSec, however long any of them hangs, and whatever is edited.
THEOREM NothingIsForgotten == Spec => []NothingForgotten
<1>1. ForgottenIInv /\ [Next]_vars => ForgottenIInv'
  BY ForgottenStep
<1>2. Init => ForgottenIInv
  BY ForgottenInit
<1>3. ForgottenIInv => NothingForgotten
  BY DEF ForgottenIInv
<1> QED
  BY <1>1, <1>2, <1>3, PTL DEF Spec

================================================================================
