--------------------------- MODULE MCDispatchOutbox ---------------------------
(* A small instance of DispatchOutbox for TLC. *)
EXTENDS DispatchOutbox

CONSTANTS w1, w2

MCWorkers == {w1, w2}
================================================================================
