\* A dispatch that waits for the success of another, which may fail and be recovered.
\* No symmetry, since the property is a liveness property.
CONSTANTS
    e1 = e1
    e2 = e2
    NumNodes = 2
    Kind <- PairKind
    Edges <- PairEdges
    Evaluations <- MCTwoE
    Fates = {"done", "failed"}
    EvaluationBound = 4
SPECIFICATION LiveSpec
PROPERTIES NodesReleased
