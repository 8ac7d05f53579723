---------------------------- MODULE MCDispatchGraph ----------------------------
(* Small instances of DispatchGraph for TLC. *)
EXTENDS DispatchGraph, TLC

CONSTANTS e1, e2

MCTwoE == {e1, e2}

Symmetry == Permutations(Evaluations)

Edge(from, predicate) == [from |-> from, predicate |-> predicate, accepts |-> {}]

\* A task, a dispatch that waits for it, an approval, a dispatch that waits for the
\* first dispatch to succeed and for the approval, and one that waits for the first
\* dispatch to end.
GateKind  == [n \in 1..5 |-> CASE n = 1 -> "task" [] n = 3 -> "approval" [] OTHER -> "dispatch"]
GateEdges == [n \in 1..5 |->
                CASE n = 2 -> <<Edge(1, "task_done")>>
                  [] n = 4 -> <<Edge(2, "dispatch_success"), Edge(3, "operator_approval")>>
                  [] n = 5 -> <<[Edge(2, "dispatch_terminal") EXCEPT !.accepts = {"done", "failed"}]>>
                  [] OTHER -> <<>>]

\* A dispatch that waits for another to succeed.
PairKind  == [n \in 1..2 |-> "dispatch"]
PairEdges == [n \in 1..2 |-> IF n = 1 THEN <<>> ELSE <<Edge(1, "dispatch_success")>>]
================================================================================
