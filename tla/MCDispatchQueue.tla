---------------------------- MODULE MCDispatchQueue ----------------------------
(* Small instances of DispatchQueue for TLC. *)
EXTENDS DispatchQueue, TLC

CONSTANTS d1, d2, q1, q2, q3

MCTwo    == {d1, d2}
MCOne    == {d1}
MCTwoQ   == {q1, q2}
MCThreeQ == {q1, q2, q3}
CapOne   == [l \in Lanes |-> 1]

\* Ids of dispatches and of queries are interchangeable.  Not for liveness.
Symmetry == Permutations(Dispatches) \cup Permutations(Queries)
================================================================================
