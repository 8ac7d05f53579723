----------------------------- MODULE MCCheckins -------------------------------
(* Small instances of Checkins for TLC. *)
EXTENDS Checkins, TLC

CONSTANTS c1, c2, t1

\* A check-in without max_iterations, and one with both limits, of the same task.
MCTaskOf == [c \in Checkins |-> IF c = c1 THEN t1 ELSE NoTask]
MCLimit  == [c \in Checkins |-> IF c = c2 THEN 1 ELSE NoLimit]
================================================================================
