------------------------ MODULE MCDispatchClarification ------------------------
(* Small instances of DispatchClarification for TLC. *)
EXTENDS DispatchClarification, TLC

CONSTANTS d1, d2, q1, q2, q3, c1, c2, a1, a2

MCOne       == {d1}
MCTwo       == {d1, d2}
MCOneQ      == {q1}
MCTwoQ      == {q1, q2}
MCThreeQ    == {q1, q2, q3}
MCQuestion  == {c1}
MCQuestions == {c1, c2}
MCOneA      == {a1}
MCTwoA      == {a1, a2}
CapOne      == [l \in Lanes |-> 1]

Symmetry == Permutations(Queries) \cup Permutations(Questions) \cup Permutations(Answerers)
================================================================================
