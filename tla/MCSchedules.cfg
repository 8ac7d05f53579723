\* A heartbeat of an agent that may never answer, and a calendar event of another,
\* with two ticks at a time.
SPECIFICATION LiveSpec
CONSTANTS
    Ann = ann
    Bob = bob
    Heartbeats = {beat}
    Events = {event}
    Agents = {ann, bob}
    Slow = {bob}
    NoMax = NoMax
    None = None
    Dedupe = 2
    Drift = 1
    Ticks = {t1, t2}
    Horizon = 2
    DisturbanceBound = 1
    TargetsOf <- Targets
    Interval <- Every2
    Life <- Endless
    MaxRuns <- TwoBeats
    Times <- At2
    Policy <- BySeed
INVARIANTS ScheduleTypeOK PostedOnce NothingForgotten
 
