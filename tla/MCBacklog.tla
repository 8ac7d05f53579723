------------------------------- MODULE MCBacklog -------------------------------
(* A small instance of Backlog for TLC: two items that write to the same place,    *)
(* the second of which waits for the first.                                        *)
EXTENDS Backlog

CONSTANTS a, b, x

MCItems == {a, b}
MCScope == [i \in MCItems |-> {x}]
MCNeeds == [i \in MCItems |-> IF i = b THEN {a} ELSE {}]
================================================================================
