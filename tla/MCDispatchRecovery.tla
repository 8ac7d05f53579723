--------------------------- MODULE MCDispatchRecovery --------------------------
(* A small instance of DispatchRecovery for TLC. *)
EXTENDS DispatchRecovery, TLC

CONSTANTS d1, d2, q1, q2

MCOne     == {d1}
MCTwo     == {d1, d2}
CapOne    == [l \in Lanes |-> 1]
SameKey   == [d \in Dispatches |-> d1]
MCNone    == {}
================================================================================
