\* A task, two generations of dispatches that wait for it, and an approval, with two
\* evaluations at a time and restarts of the manager.
CONSTANTS
    e1 = e1
    e2 = e2
    NumNodes = 5
    Kind <- GateKind
    Edges <- GateEdges
    Evaluations <- MCTwoE
    Fates = {"done", "needs_clarification"}
    EvaluationBound = 3
SYMMETRY Symmetry
SPECIFICATION Spec
INVARIANTS TypeOK NoEarlyStart CompleteIsTrue
