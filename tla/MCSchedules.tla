------------------------------ MODULE MCSchedules ------------------------------
(* Schedules with heartbeats for one agent and a calendar event for another.    *)
EXTENDS Schedules, TLC

CONSTANTS Ann, Bob

Targets  == [s \in Schedules |-> IF s \in Heartbeats THEN {Bob} ELSE {Ann}]
Every2   == [s \in Heartbeats |-> 2]
Endless  == [s \in Heartbeats |-> Horizon + 1]
TwoBeats == [s \in Schedules |-> IF s \in Heartbeats THEN 2 ELSE NoMax]
At2      == [s \in Events |-> {2}]
BySeed   == [s \in Schedules |-> IF s \in Heartbeats THEN "fire_once" ELSE "skip"]
================================================================================
