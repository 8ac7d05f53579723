--------------------------- MODULE DispatchGraph_proofs ---------------------------
(* Theorems about dependency graphs, for every graph whose edges point to        *)
(* earlier nodes and any number of evaluations.  An evaluation may be as old as  *)
(* it likes because nothing it goes by can be undone: what is done stays done,   *)
(* an approval stays given, and a dispatch that has ended once has ended.        *)
EXTENDS DispatchGraph, WellFoundedInduction, TLAPS

--------------------------------------------------------------------------------
(* The order of the nodes                                                       *)

\* A set of natural numbers has a smallest element.
LEMMA Smallest ==
    ASSUME NEW T \in SUBSET Nat, T # {}
    PROVE  \E m \in T : \A k \in T : m <= k
<1> DEFINE R == OpToRel(<, Nat)
<1>1. IsWellFoundedOn(R, Nat)
  BY NatLessThanWellFounded
<1>2. \A i, j \in Nat : i < j => <<i, j>> \in R
  BY DEF OpToRel
<1> HIDE DEF R
<1>3. PICK m \in T : \A k \in T : <<k, m>> \notin R
  BY <1>1, WFMin
<1>4. \A k \in T : ~(k < m)
  BY <1>2, <1>3
<1>5. \A k \in T : k \in Nat /\ m \in Nat
  OBVIOUS
<1> QED
  BY <1>4, <1>5

\* The evaluation goes on with a node, or is at the end of the list.
LEMMA AfterInRange ==
    ASSUME NEW n \in 0..NumNodes, NEW S \in SUBSET Nodes
    PROVE  After(n, S) \in 1..NumNodes + 1
<1> DEFINE T == (S \cup {NumNodes + 1}) \cap (n + 1 .. NumNodes + 1)
<1>1. T \in SUBSET Nat /\ NumNodes + 1 \in T
  BY NodesAssumption DEF Nodes
<1>2. PICK m \in T : \A k \in T : m <= k
  BY <1>1, Smallest
<1>3. \A k \in S : k > n => k \in T
  BY NodesAssumption DEF Nodes
<1>4. \E x \in T : \A k \in S : k > n => x <= k
  BY <1>2, <1>3
<1>5. After(n, S) \in T
  BY <1>4 DEF After
<1> QED
  BY <1>5, NodesAssumption DEF Nodes

--------------------------------------------------------------------------------
(* What an evaluation keeps as it goes on                                       *)

\* Two evaluations that believe the same.
SameBeliefs(ev, old) == /\ ev.snap = old.snap /\ ev.seen = old.seen
                        /\ ev.was = old.was /\ ev.now = old.now

\* Going on with the loop over the nodes to judge changes no belief.
LEMMA JudgedKeeps ==
    ASSUME NEW ev \in Evals, NEW n \in 0..NumNodes
    PROVE  /\ Judged(ev, n) \in Evals /\ Judged(ev, n).at = "judge"
           /\ SameBeliefs(Judged(ev, n), ev)
<1>1. ToJudge(ev.snap) \in SUBSET Nodes
  BY DEF ToJudge
<1>2. After(n, ToJudge(ev.snap)) \in 1..NumNodes + 1
  BY <1>1, AfterInRange
<1> QED
  BY <1>2 DEF Judged, Evals, Steps, SameBeliefs

\* Nor does going on with the loop over the nodes to read.
LEMMA ReadKeeps ==
    ASSUME NEW ev \in Evals, NEW n \in 0..NumNodes
    PROVE  /\ Read(ev, n) \in Evals /\ Read(ev, n).at \in {"read", "judge"}
           /\ SameBeliefs(Read(ev, n), ev)
<1>1. ToJudge(ev.snap) \in SUBSET Nodes /\ ToRead \in SUBSET Nodes /\ 0 \in 0..NumNodes
  BY NodesAssumption DEF ToJudge, ToRead
<1>2. /\ After(0, ToJudge(ev.snap)) \in 1..NumNodes + 1
      /\ After(n, ToRead) \in 1..NumNodes + 1
  BY <1>1, AfterInRange
<1> QED
  BY <1>2 DEF Read, Evals, Steps, SameBeliefs

\* An evaluation that is idle believes nothing.
LEMMA IdleEval == /\ Idle \in Evals /\ Idle.at = "idle" /\ Idle.now = "active"
                  /\ Idle.snap = NoSnap /\ Idle.seen = NoneSeen
  BY NodesAssumption DEF Idle, Evals, Steps, NoSnap, NoneSeen, NodeStates, GraphStatuses,
                         None, Facts

--------------------------------------------------------------------------------
(* Nothing that counts is undone                                                *)

Lasting == /\ \A n \in Nodes : Fulfilled(n) => fact'[n] = fact[n]
           /\ ended \subseteq ended'

\* Edges come from nodes.
LEMMA EdgesFrom ==
    ASSUME NEW n \in Nodes, NEW i \in DOMAIN Edges[n]
    PROVE  Edges[n][i] \in EdgeRows /\ Edges[n][i].from \in Nodes
  BY EdgesAssumption DEF EdgeRows

\* What an edge asks for stays so.
LEMMA HoldsStays ==
    ASSUME Lasting, NEW n \in Nodes, EdgesHold(n)
    PROVE  EdgesHold(n)'
<1> SUFFICES ASSUME NEW i \in DOMAIN Edges[n] PROVE Holds(Edges[n][i])'
  BY DEF EdgesHold
<1>1. Holds(Edges[n][i]) /\ Edges[n][i].from \in Nodes
  BY EdgesFrom DEF EdgesHold
<1> QED
  BY <1>1 DEF Holds, Lasting, Fulfilled

\* So do the things the states of a node and the statuses behind them say.
LEMMA TrueStays ==
    ASSUME Lasting
    PROVE  /\ \A n \in Nodes : Fulfilled(n) => Fulfilled(n)'
           /\ \A n \in Nodes, state \in NodeStates : StateTrue(n, state) => StateTrue(n, state)'
           /\ \A n \in Nodes, status \in Facts \cup {None} :
                StatusTrue(n, status) => StatusTrue(n, status)'
  BY HoldsStays DEF Lasting, Fulfilled, StateTrue, StatusTrue

\* An evaluation that does not move keeps its beliefs.
LEMMA BeliefsStay ==
    ASSUME TypeOK, Lasting, NEW e \in Evaluations, BeliefsTrue(e), eval'[e] = eval[e]
    PROVE  BeliefsTrue(e)'
<1>1. \A n \in Nodes : eval[e].snap[n] \in NodeStates /\ eval[e].seen[n] \in Facts \cup {None}
  BY DEF TypeOK, Evals
<1>2. ASSUME NEW n \in Nodes
      PROVE  /\ StateTrue(n, eval[e].snap[n])' /\ StatusTrue(n, eval[e].seen[n])'
             /\ At(e, "release", n)' => EdgesHold(n)'
  <2>1. /\ StateTrue(n, eval[e].snap[n]) /\ StatusTrue(n, eval[e].seen[n])
        /\ At(e, "release", n) => EdgesHold(n)
    BY DEF BeliefsTrue
  <2>2. EdgesHold(n) => EdgesHold(n)'
    BY HoldsStays
  <2>3. (Fulfilled(n) => Fulfilled(n)') /\ (n \in ended => n \in ended')
    BY TrueStays DEF Lasting
  <2> QED
    BY <2>1, <2>2, <2>3 DEF StateTrue, StatusTrue, At
<1>3. eval'[e].now = "complete" => \A n \in Nodes : Fulfilled(n)'
  BY TrueStays DEF BeliefsTrue
<1> QED
  BY <1>2, <1>3 DEF BeliefsTrue

--------------------------------------------------------------------------------
(* The steps of dispatches, tasks and approvals                                 *)

\* Each kind of node has statuses of its own.
LEMMA FactsAreFacts ==
    ASSUME NEW n \in Nodes
    PROVE  FactsOf(n) \subseteq Facts /\ Kind[n] \in {"dispatch", "task", "approval"}
  BY KindAssumption DEF FactsOf, Facts, DispatchStatuses, TaskStatuses

\* The steps outside the evaluations.
FactStep(n) == \/ Claim(n) \/ EndAttempt(n) \/ AnswerQuestion(n) \/ TryAgain(n)
               \/ StartTask(n) \/ CompleteTask(n) \/ Approve(n)

\* A step changes the status of one node, within its kind, and never one that fulfils
\* what others wait for.
LEMMA FactStepEffect ==
    ASSUME TypeOK, FactInv, NEW n \in Nodes, FactStep(n)
    PROVE  \E s \in FactsOf(n) :
             /\ fact' = [fact EXCEPT ![n] = s]
             /\ Fulfilled(n) => fact[n] = s
             /\ s = "queued" => fact[n] # "queued"
             /\ fact[n] = "queued" => node[n] # "pending_dependencies"
             /\ s \in {"done", "failed"} /\ Kind[n] = "dispatch" => n \in ended'
             /\ s = "granted" \/ UNCHANGED node
             /\ UNCHANGED <<graph, decided, eval, begun>>
             /\ due' \in {"yes", "no", "lost"}
             /\ ended \subseteq ended' /\ ended' \in SUBSET Nodes
             /\ s = "granted" => Kind[n] = "approval" /\ node' = [node EXCEPT ![n] = "done"]
<1>1. /\ Kind[n] \in {"dispatch", "task", "approval"} /\ fact[n] \in FactsOf(n)
      /\ due \in {"yes", "no", "lost"} /\ ended \in SUBSET Nodes
  BY FactsAreFacts DEF FactInv, TypeOK
<1> USE DEF FactsOf, DispatchStatuses, TaskStatuses, Fulfilled
<1>2. CASE Claim(n)
  BY <1>1, <1>2 DEF Claim, Turns
<1>3. CASE EndAttempt(n)
  BY <1>1, <1>3, FatesAssumption DEF EndAttempt, Turns
<1>4. CASE AnswerQuestion(n)
  BY <1>1, <1>4 DEF AnswerQuestion, Turns
<1>5. CASE TryAgain(n)
  BY <1>1, <1>5 DEF TryAgain, Turns
<1>6. CASE StartTask(n)
  BY <1>1, <1>6 DEF StartTask, Turns
<1>7. CASE CompleteTask(n)
  BY <1>1, <1>7 DEF CompleteTask, Turns
<1>8. CASE Approve(n)
  BY <1>1, <1>8 DEF Approve
<1> QED
  BY <1>2, <1>3, <1>4, <1>5, <1>6, <1>7, <1>8 DEF FactStep

\* Such a step keeps the invariant.
LEMMA FactStepKeeps ==
    ASSUME IInv, NEW n \in Nodes, FactStep(n)
    PROVE  IInv'
<1>1. /\ TypeOK /\ FactInv /\ TablesTrue
      /\ fact \in [Nodes -> Facts] /\ node \in [Nodes -> NodeStates]
  BY DEF IInv, TypeOK
<1>2. PICK s \in FactsOf(n) :
             /\ fact' = [fact EXCEPT ![n] = s]
             /\ Fulfilled(n) => fact[n] = s
             /\ s = "queued" => fact[n] # "queued"
             /\ fact[n] = "queued" => node[n] # "pending_dependencies"
             /\ s \in {"done", "failed"} /\ Kind[n] = "dispatch" => n \in ended'
             /\ s = "granted" \/ UNCHANGED node
             /\ UNCHANGED <<graph, decided, eval, begun>>
             /\ due' \in {"yes", "no", "lost"}
             /\ ended \subseteq ended' /\ ended' \in SUBSET Nodes
             /\ s = "granted" => Kind[n] = "approval" /\ node' = [node EXCEPT ![n] = "done"]
  BY <1>1, FactStepEffect
<1>3. \A m \in Nodes : fact'[m] = IF m = n THEN s ELSE fact[m]
  BY <1>1, <1>2
<1>4. Lasting
  BY <1>2, <1>3 DEF Lasting
<1>5. s \in Facts /\ fact' \in [Nodes -> Facts]
  BY <1>1, <1>2, FactsAreFacts
<1>6. node' \in [Nodes -> NodeStates]
  BY <1>1, <1>2 DEF NodeStates
<1>7. TypeOK'
  BY <1>1, <1>2, <1>5, <1>6 DEF TypeOK
<1>8. FactInv'
  BY <1>1, <1>2, <1>3 DEF FactInv
<1>9. \A e \in Evaluations : BeliefsTrue(e)'
  BY <1>1, <1>2, <1>4, BeliefsStay DEF IInv
<1>10. TablesTrue'
  <2>1. ASSUME NEW m \in Nodes, m # n
        PROVE  StateTrue(m, node[m])' /\ StatusTrue(m, fact[m])'
    <3>1. fact'[m] = fact[m] /\ node'[m] = node[m]
      BY <1>1, <1>2, <1>3, <2>1
    <3>2. StateTrue(m, node[m]) /\ StatusTrue(m, fact[m])
      BY <1>1 DEF TablesTrue
    <3>3. (EdgesHold(m) => EdgesHold(m)') /\ (m \in ended => m \in ended')
      BY <1>2, <1>4, HoldsStays
    <3> QED
      BY <3>1, <3>2, <3>3 DEF StateTrue, StatusTrue, Fulfilled
  <2>2. StateTrue(n, node[n])' /\ StatusTrue(n, fact[n])'
    <3>1. fact'[n] = s
      BY <1>3
    <3>2. StateTrue(n, node[n]) /\ StatusTrue(n, fact[n])
      BY <1>1 DEF TablesTrue
    <3>3. (EdgesHold(n) => EdgesHold(n)') /\ (n \in ended => n \in ended')
      BY <1>2, <1>4, HoldsStays
    <3>4. Fulfilled(n) => Fulfilled(n)'
      BY <1>4 DEF Lasting, Fulfilled
    <3>5. s = "done" \/ s = "granted" => Fulfilled(n)'
      BY <3>1 DEF Fulfilled
    <3>6. Kind[n] = "dispatch" /\ s \notin {None, "queued"} => EdgesHold(n)
      <4>1. fact[n] # None
        BY <1>1 DEF None, Facts, DispatchStatuses, TaskStatuses
      <4> QED
        BY <1>2, <3>2, <4>1 DEF StateTrue, StatusTrue
    <3>7. CASE s = "granted"
      <4>1. node'[n] = "done" /\ Kind[n] = "approval"
        BY <1>1, <1>2, <3>7
      <4> QED
        BY <3>1, <3>5, <3>7, <4>1 DEF StateTrue, StatusTrue
    <3>8. CASE s # "granted"
      <4>1. node'[n] = node[n]
        BY <1>2, <3>8
      <4> QED
        BY <1>2, <3>1, <3>2, <3>3, <3>4, <3>5, <3>6, <4>1 DEF StateTrue, StatusTrue
    <3> QED
      BY <3>7, <3>8
  <2>3. graph' = "complete" => \A m \in Nodes : Fulfilled(m)'
    BY <1>1, <1>2, <1>4, TrueStays DEF TablesTrue
  <2> QED
    BY <2>1, <2>2, <2>3 DEF TablesTrue
<1> QED
  BY <1>7, <1>8, <1>9, <1>10 DEF IInv

--------------------------------------------------------------------------------
(* The steps of an evaluation                                                   *)

\* What an evaluation may come to believe.
Believable(ev) ==
    /\ \A n \in Nodes : /\ StateTrue(n, ev.snap[n]) /\ StatusTrue(n, ev.seen[n])
                         /\ ev.seen[n] \in FactsOf(n) \cup {None}
    /\ ev.now = "complete" => \A n \in Nodes : Fulfilled(n)

\* The beliefs of an evaluation are believable.
LEMMA Beliefs ==
    ASSUME IInv, NEW e \in Evaluations
    PROVE  Believable(eval[e]) /\ eval[e] \in Evals
  BY DEF IInv, BeliefsTrue, Believable, FactInv, TypeOK

LEMMA SameBelievable ==
    ASSUME NEW ev, NEW old, SameBeliefs(ev, old), Believable(old)
    PROVE  Believable(ev)
  BY DEF SameBeliefs, Believable

LEMMA IdleBelievable == Believable(Idle)
<1>1. \A n \in Nodes : Idle.snap[n] = "pending_dependencies" /\ Idle.seen[n] = None
  BY IdleEval DEF NoSnap, NoneSeen
<1>2. None \notin {"done", "failed", "queued"} /\ Idle.now # "complete"
  BY IdleEval DEF None
<1> QED
  BY <1>1, <1>2 DEF Believable, StateTrue, StatusTrue

\* One evaluation moves to beliefs that are true, and writes nothing but nodes and the
\* graph, with what is true too: the invariant is kept.
LEMMA EvalMoves ==
    ASSUME IInv, NEW e \in Evaluations, NEW ev \in Evals, Believable(ev),
           eval' = [eval EXCEPT ![e] = ev],
           ev.at = "release" => \A n \in Nodes : ev.pos = n => EdgesHold(n),
           UNCHANGED <<fact, ended>>,
           node' \in [Nodes -> NodeStates], \A n \in Nodes : StateTrue(n, node'[n]),
           graph' \in GraphStatuses, graph' = "complete" => \A n \in Nodes : Fulfilled(n),
           \A key \in decided' : key[1] \in Nodes,
           due' \in {"yes", "no", "lost"}, begun' \in 0..EvaluationBound
    PROVE  IInv'
<1>1. /\ eval \in [Evaluations -> Evals] /\ TypeOK /\ FactInv /\ TablesTrue
      /\ \A f \in Evaluations : BeliefsTrue(f)
  BY DEF IInv, TypeOK
<1>2. /\ eval' \in [Evaluations -> Evals] /\ eval'[e] = ev
      /\ \A f \in Evaluations : f # e => eval'[f] = eval[f]
  BY <1>1
<1>3. Lasting
  BY DEF Lasting
<1>4. TypeOK'
  BY <1>1, <1>2 DEF TypeOK
<1>5. FactInv'
  <2>1. \A n \in Nodes : ev.seen[n] \in FactsOf(n) \cup {None}
    BY DEF Believable
  <2> QED
    BY <1>1, <1>2, <2>1 DEF FactInv
<1>6. \A n \in Nodes : EdgesHold(n) => EdgesHold(n)'
  BY <1>3, HoldsStays
<1>7. TablesTrue'
  <2>1. ASSUME NEW n \in Nodes PROVE StateTrue(n, node[n])' /\ StatusTrue(n, fact[n])'
    <3>1. StateTrue(n, node'[n]) /\ StatusTrue(n, fact[n])
      BY <1>1 DEF TablesTrue
    <3> QED
      BY <1>6, <3>1 DEF StateTrue, StatusTrue, Fulfilled
  <2> QED
    BY <2>1 DEF TablesTrue, Fulfilled
<1>8. \A f \in Evaluations : BeliefsTrue(f)'
  <2>1. ASSUME NEW f \in Evaluations, f # e PROVE BeliefsTrue(f)'
    BY <1>1, <1>2, <1>3, <2>1, BeliefsStay
  <2>2. BeliefsTrue(e)'
    <3>1. ASSUME NEW n \in Nodes
          PROVE  /\ StateTrue(n, eval[e].snap[n])' /\ StatusTrue(n, eval[e].seen[n])'
                 /\ At(e, "release", n)' => EdgesHold(n)'
      <4>1. StateTrue(n, ev.snap[n]) /\ StatusTrue(n, ev.seen[n])
        BY DEF Believable
      <4> QED
        BY <1>2, <1>6, <4>1 DEF StateTrue, StatusTrue, Fulfilled, At
    <3>2. eval'[e].now = "complete" => \A n \in Nodes : Fulfilled(n)'
      BY <1>2 DEF Believable, Fulfilled
    <3> QED
      BY <3>1, <3>2 DEF BeliefsTrue
  <2> QED
    BY <2>1, <2>2
<1> QED
  BY <1>4, <1>5, <1>7, <1>8 DEF IInv

\* What the tables hold is believable when it is read.
LEMMA TablesBelievable ==
    ASSUME IInv, NEW n \in Nodes
    PROVE  /\ StateTrue(n, node[n]) /\ StatusTrue(n, fact[n])
           /\ fact[n] \in FactsOf(n) /\ fact[n] \in Facts
           /\ StatusTrue(n, None)
  BY DEF IInv, TablesTrue, FactInv, TypeOK, StatusTrue, None

\* An evaluation begins with the nodes, the statuses of the tasks and the graph's own.
LEMMA BeginKeeps ==
    ASSUME IInv, NEW e \in Evaluations, Begin(e)
    PROVE  IInv'
<1> DEFINE seen == [n \in Nodes |-> IF Kind[n] = "task" THEN fact[n] ELSE None]
           ev   == [Idle EXCEPT !.snap = node, !.was = graph, !.seen = seen]
<1>1. /\ node \in [Nodes -> NodeStates] /\ graph \in GraphStatuses
      /\ TablesTrue /\ 0 \in 0..NumNodes /\ begun \in 0..EvaluationBound
  BY NodesAssumption DEF IInv, TypeOK
<1>2. \A n \in Nodes : /\ seen[n] \in FactsOf(n) \cup {None} /\ StatusTrue(n, seen[n])
                       /\ seen[n] \in Facts \cup {None}
  BY TablesBelievable
<1>3. seen \in [Nodes -> Facts \cup {None}]
  BY <1>2
<1> HIDE DEF seen
<1>4. ev \in Evals /\ ev.snap = node /\ ev.seen = seen /\ ev.now = "active"
  BY <1>1, <1>3, IdleEval DEF Evals
<1> HIDE DEF ev
<1>5. Believable(ev)
  BY <1>2, <1>4, TablesBelievable DEF Believable
<1>6. /\ Read(ev, 0) \in Evals /\ Read(ev, 0).at \in {"read", "judge"}
      /\ SameBeliefs(Read(ev, 0), ev)
  BY <1>1, <1>4, ReadKeeps
<1>7. Believable(Read(ev, 0))
  BY <1>5, <1>6, SameBelievable
<1>8. /\ eval' = [eval EXCEPT ![e] = Read(ev, 0)] /\ due' = "no"
      /\ UNCHANGED <<fact, node, graph, decided, ended>>
  BY DEF Begin, ev, seen
<1>9. begun' \in 0..EvaluationBound
  BY <1>1, BoundAssumption DEF Begin
<1>10. /\ \A key \in decided : key[1] \in Nodes
       /\ graph = "complete" => \A n \in Nodes : Fulfilled(n)
       /\ \A n \in Nodes : StateTrue(n, node[n])
  BY <1>1 DEF IInv, TypeOK, TablesTrue
<1> QED
  BY <1>1, <1>6, <1>7, <1>8, <1>9, <1>10, EvalMoves

\* The node state that a true state and a true status call for is true.
LEMMA ProjectedTrue ==
    ASSUME NEW n \in Nodes, NEW state \in NodeStates, NEW status \in FactsOf(n) \cup {None},
           StateTrue(n, state), StatusTrue(n, status)
    PROVE  /\ Projected(n, state, status) \in NodeStates
           /\ StateTrue(n, Projected(n, state, status))
<1>1. Kind[n] \in {"dispatch", "task", "approval"}
  BY FactsAreFacts
<1>2. CASE Kind[n] = "dispatch" /\ status \in {"done", "failed", "needs_clarification"}
  BY <1>2 DEF Projected, NodeStates, StateTrue, StatusTrue, None
<1>3. CASE Kind[n] = "dispatch" /\ status \notin {"done", "failed", "needs_clarification"}
  <2>1. Projected(n, state, status) = IF status = "in_flight" /\ state # "needs_clarification"
                                      THEN "in_flight" ELSE state
    BY <1>3 DEF Projected
  <2> QED
    BY <1>3, <2>1 DEF NodeStates, StateTrue, StatusTrue, None
<1>4. CASE Kind[n] = "task"
  <2>1. Projected(n, state, status) = IF status = "done" THEN "done"
                                      ELSE IF status = "doing" /\ state \notin {"done", "failed"}
                                      THEN "in_flight" ELSE state
    BY <1>4 DEF Projected
  <2> QED
    BY <1>4, <2>1 DEF NodeStates, StateTrue, StatusTrue
<1>5. CASE Kind[n] = "approval"
  BY <1>5 DEF Projected
<1> QED
  BY <1>1, <1>2, <1>3, <1>4, <1>5

\* The status of a dispatch is read as it is at that moment.
LEMMA ReadNodeKeeps ==
    ASSUME IInv, NEW e \in Evaluations, NEW n \in Nodes, ReadNode(e, n)
    PROVE  IInv'
<1> DEFINE ev == [eval[e] EXCEPT !.seen[n] = IF Kind[n] = "dispatch" THEN fact[n] ELSE @]
           nx == IF Projected(n, ev.snap[n], ev.seen[n]) = ev.snap[n] THEN Read(ev, n)
                 ELSE [ev EXCEPT !.at = "write"]
<1>1. /\ eval[e] \in Evals /\ Believable(eval[e]) /\ n \in 0..NumNodes
  BY Beliefs, NodesAssumption DEF Nodes
<1>2. /\ eval[e].seen \in [Nodes -> Facts \cup {None}]
      /\ eval[e].seen[n] \in FactsOf(n) \cup {None} /\ StatusTrue(n, eval[e].seen[n])
  BY <1>1 DEF Evals, Believable
<1>3. /\ ev \in Evals /\ ev.snap = eval[e].snap /\ ev.now = eval[e].now
      /\ \A m \in Nodes : m # n => ev.seen[m] = eval[e].seen[m]
      /\ ev.seen[n] \in {fact[n], eval[e].seen[n]}
  BY <1>1, <1>2, TablesBelievable DEF Evals
<1>4. eval' = [eval EXCEPT ![e] = nx] /\ UNCHANGED <<fact, node, graph, decided, due, begun, ended>>
  BY DEF ReadNode
<1> HIDE DEF ev
<1>5. Believable(ev)
  BY <1>1, <1>2, <1>3, TablesBelievable DEF Believable
<1>6. nx \in Evals /\ nx.at \in {"read", "judge", "write"} /\ Believable(nx)
  <2>1. /\ Read(ev, n) \in Evals /\ Read(ev, n).at \in {"read", "judge"}
        /\ SameBeliefs(Read(ev, n), ev)
    BY <1>1, <1>3, ReadKeeps
  <2>2. /\ [ev EXCEPT !.at = "write"] \in Evals /\ [ev EXCEPT !.at = "write"].at = "write"
        /\ SameBeliefs([ev EXCEPT !.at = "write"], ev)
    BY <1>3 DEF Evals, Steps, SameBeliefs
  <2>3. Believable(Read(ev, n)) /\ Believable([ev EXCEPT !.at = "write"])
    BY <1>5, <2>1, <2>2, SameBelievable
  <2> QED
    BY <2>1, <2>2, <2>3
<1> HIDE DEF nx
<1>7. /\ node \in [Nodes -> NodeStates] /\ graph \in GraphStatuses
      /\ \A key \in decided : key[1] \in Nodes
      /\ due \in {"yes", "no", "lost"} /\ begun \in 0..EvaluationBound
      /\ graph = "complete" => \A m \in Nodes : Fulfilled(m)
      /\ \A m \in Nodes : StateTrue(m, node[m])
  BY DEF IInv, TypeOK, TablesTrue
<1> QED
  BY <1>4, <1>6, <1>7, EvalMoves

\* The node is written as the evaluation believes it to be.
LEMMA WriteNodeKeeps ==
    ASSUME IInv, NEW e \in Evaluations, NEW n \in Nodes, WriteNode(e, n)
    PROVE  IInv'
<1> DEFINE state == Projected(n, eval[e].snap[n], eval[e].seen[n])
           ev    == [eval[e] EXCEPT !.snap[n] = state]
<1>1. /\ eval[e] \in Evals /\ Believable(eval[e]) /\ n \in 0..NumNodes
      /\ eval \in [Evaluations -> Evals]
  BY Beliefs, NodesAssumption DEF Nodes, IInv, TypeOK
<1>2. /\ eval[e].snap \in [Nodes -> NodeStates] /\ eval[e].snap[n] \in NodeStates
      /\ eval[e].seen[n] \in FactsOf(n) \cup {None}
      /\ StateTrue(n, eval[e].snap[n]) /\ StatusTrue(n, eval[e].seen[n])
  BY <1>1 DEF Evals, Believable
<1>3. state \in NodeStates /\ StateTrue(n, state)
  BY <1>2, ProjectedTrue
<1>4. /\ node' = [node EXCEPT ![n] = state]
      /\ eval' = [eval EXCEPT ![e] = Read(ev, n)]
      /\ UNCHANGED <<fact, graph, decided, due, begun, ended>>
  BY <1>1 DEF WriteNode
<1> HIDE DEF state
<1>5. /\ ev \in Evals /\ ev.seen = eval[e].seen /\ ev.now = eval[e].now
      /\ \A m \in Nodes : ev.snap[m] = IF m = n THEN state ELSE eval[e].snap[m]
  BY <1>1, <1>2, <1>3 DEF Evals
<1> HIDE DEF ev
<1>6. Believable(ev)
  BY <1>1, <1>3, <1>5 DEF Believable
<1>7. /\ Read(ev, n) \in Evals /\ Read(ev, n).at \in {"read", "judge"}
      /\ SameBeliefs(Read(ev, n), ev)
  BY <1>1, <1>5, ReadKeeps
<1>8. Believable(Read(ev, n))
  BY <1>6, <1>7, SameBelievable
<1>9. /\ node \in [Nodes -> NodeStates] /\ graph \in GraphStatuses
      /\ \A key \in decided : key[1] \in Nodes
      /\ due \in {"yes", "no", "lost"} /\ begun \in 0..EvaluationBound
      /\ graph = "complete" => \A m \in Nodes : Fulfilled(m)
      /\ \A m \in Nodes : StateTrue(m, node[m])
  BY DEF IInv, TypeOK, TablesTrue
<1>10. node' \in [Nodes -> NodeStates] /\ \A m \in Nodes : StateTrue(m, node'[m])
  BY <1>3, <1>4, <1>9
<1> QED
  BY <1>4, <1>7, <1>8, <1>9, <1>10, EvalMoves

\* A predicate that the evaluation finds ready holds in the tables.
LEMMA ReadyHolds ==
    ASSUME IInv, NEW ev \in Evals, Believable(ev), NEW n \in Nodes, NEW i \in DOMAIN Edges[n],
           EdgeVerdict(ev, Edges[n][i]) = "ready"
    PROVE  Holds(Edges[n][i])
<1> DEFINE edge   == Edges[n][i]
           state  == ev.snap[edge.from]
           status == ev.seen[edge.from]
<1>1. /\ edge \in EdgeRows /\ edge.from \in Nodes
      /\ Kind[edge.from] = CASE edge.predicate = "task_done" -> "task"
                             [] edge.predicate = "operator_approval" -> "approval"
                             [] OTHER -> "dispatch"
  BY EdgesFrom, EdgesAssumption
<1>2. /\ StateTrue(edge.from, state) /\ StatusTrue(edge.from, status)
      /\ fact[edge.from] \in FactsOf(edge.from)
  BY <1>1, TablesBelievable DEF Believable
<1>3. Verdict(edge, state, status) = "ready"
  BY DEF EdgeVerdict
<1> HIDE DEF edge, state, status
<1>4. edge.predicate \in Predicates /\ edge.accepts \in SUBSET {"done", "failed"}
  BY <1>1 DEF EdgeRows
<1>5. Holds(edge)
  <2>1. CASE edge.predicate = "task_done"
    <3>1. status = "done" /\ Kind[edge.from] = "task"
      BY <1>1, <1>3, <2>1 DEF Verdict
    <3> QED
      BY <1>2, <2>1, <3>1 DEF StatusTrue, Fulfilled, FactsOf, TaskStatuses, Holds
  <2>2. CASE edge.predicate = "operator_approval"
    <3>1. state = "done" /\ Kind[edge.from] = "approval"
      BY <1>1, <1>3, <2>2 DEF Verdict
    <3> QED
      BY <1>2, <2>2, <3>1 DEF StateTrue, Fulfilled, FactsOf, Holds
  <2>3. CASE edge.predicate = "dispatch_success"
    <3>1. (state = "done" \/ status = "done") /\ Kind[edge.from] = "dispatch"
      BY <1>1, <1>3, <2>3 DEF Verdict
    <3>2. Fulfilled(edge.from)
      BY <1>2, <3>1 DEF StateTrue, StatusTrue
    <3> QED
      BY <1>2, <2>3, <3>1, <3>2 DEF Fulfilled, FactsOf, DispatchStatuses, Holds
  <2>4. CASE edge.predicate = "dispatch_terminal"
    <3>1. edge.accepts \cap {state, status} # {} /\ Kind[edge.from] = "dispatch"
      BY <1>1, <1>3, <2>4 DEF Verdict
    <3>2. state \in {"done", "failed"} \/ status \in {"done", "failed"}
      BY <1>4, <3>1
    <3> QED
      BY <1>2, <2>4, <3>1, <3>2 DEF StateTrue, StatusTrue, Holds
  <2> QED
    BY <1>4, <2>1, <2>2, <2>3, <2>4 DEF Predicates
<1> QED
  BY <1>5 DEF edge

\* What the invariant says of the tables an evaluation may leave alone.
LEMMA TablesStay ==
    ASSUME IInv
    PROVE  /\ node \in [Nodes -> NodeStates] /\ graph \in GraphStatuses
           /\ \A key \in decided : key[1] \in Nodes
           /\ due \in {"yes", "no", "lost"} /\ begun \in 0..EvaluationBound
           /\ graph = "complete" => \A m \in Nodes : Fulfilled(m)
           /\ \A m \in Nodes : StateTrue(m, node[m])
           /\ eval \in [Evaluations -> Evals]
  BY DEF IInv, TypeOK, TablesTrue

\* A node is judged; it is to be released only when its edges hold.
LEMMA JudgeKeeps ==
    ASSUME IInv, NEW e \in Evaluations, NEW n \in Nodes, Judge(e, n)
    PROVE  IInv'
<1> DEFINE ev    == eval[e]
           fresh == Key(ev, n) \notin decided
           nx    == CASE Ready(ev, n) /\ fresh -> [ev EXCEPT !.at = "release"]
                      [] Blocked(ev, n)        -> [ev EXCEPT !.at = "hold"]
                      [] OTHER                 -> Judged(ev, n)
<1>1. ev \in Evals /\ Believable(ev) /\ n \in 0..NumNodes /\ ev.pos = n
  BY Beliefs, NodesAssumption DEF Nodes, Judge, At
<1>2. /\ eval' = [eval EXCEPT ![e] = nx] /\ decided' = decided \cup {Key(ev, n)}
      /\ UNCHANGED <<fact, node, graph, due, begun, ended>>
  BY DEF Judge
<1>3. Key(ev, n)[1] = n
  BY DEF Key
<1> HIDE DEF ev, fresh
<1>4. Ready(ev, n) => EdgesHold(n)
  BY <1>1, ReadyHolds DEF Ready, EdgesHold
<1>5. /\ Judged(ev, n) \in Evals /\ Judged(ev, n).at = "judge"
      /\ SameBeliefs(Judged(ev, n), ev)
  BY <1>1, JudgedKeeps
<1>6. ASSUME NEW at \in {"release", "hold"}
      PROVE  /\ [ev EXCEPT !.at = at] \in Evals /\ [ev EXCEPT !.at = at].at = at
             /\ [ev EXCEPT !.at = at].pos = n
             /\ SameBeliefs([ev EXCEPT !.at = at], ev)
  BY <1>1 DEF Evals, Steps, SameBeliefs
<1>7. /\ nx \in Evals /\ SameBeliefs(nx, ev)
      /\ nx.at = "release" => nx.pos = n /\ Ready(ev, n)
  <2>1. CASE Ready(ev, n) /\ fresh
    BY <1>6, <2>1
  <2>2. CASE ~(Ready(ev, n) /\ fresh) /\ Blocked(ev, n)
    <3>1. nx = [ev EXCEPT !.at = "hold"]
      BY <2>2
    <3> HIDE DEF nx
    <3> QED
      BY <1>6, <3>1
  <2>3. CASE ~(Ready(ev, n) /\ fresh) /\ ~Blocked(ev, n)
    <3>1. nx = Judged(ev, n)
      BY <2>3
    <3> HIDE DEF nx
    <3> QED
      BY <1>5, <3>1
  <2> QED
    BY <2>1, <2>2, <2>3
<1> HIDE DEF nx
<1>8. Believable(nx)
  BY <1>1, <1>7, SameBelievable
<1>9. nx.at = "release" => \A m \in Nodes : nx.pos = m => EdgesHold(m)
  BY <1>4, <1>7
<1>10. \A key \in decided' : key[1] \in Nodes
  BY <1>2, <1>3, TablesStay
<1> QED
  BY <1>2, <1>7, <1>8, <1>9, <1>10, TablesStay, EvalMoves

\* A node is written as released, whose edges hold, or as pending, which says nothing.
LEMMA ReleaseKeeps ==
    ASSUME IInv, NEW e \in Evaluations, NEW n \in Nodes, Release(e, n) \/ Hold(e, n)
    PROVE  IInv'
<1>1. /\ eval[e] \in Evals /\ Believable(eval[e]) /\ n \in 0..NumNodes
      /\ eval \in [Evaluations -> Evals]
  BY Beliefs, TablesStay, NodesAssumption DEF Nodes
<1>2. PICK state \in {"queued", "pending_dependencies"} :
        /\ node' = [node EXCEPT ![n] = state]
        /\ state = "queued" => At(e, "release", n)
  BY DEF Release, Hold
<1>3. /\ eval' = [eval EXCEPT ![e] = Judged(eval[e], n)]
      /\ UNCHANGED <<fact, graph, decided, due, begun, ended>>
  BY <1>1 DEF Release, Hold
<1>4. state = "queued" => EdgesHold(n)
  BY <1>2 DEF IInv, BeliefsTrue
<1>5. StateTrue(n, state) /\ state \in NodeStates
  BY <1>4 DEF StateTrue, NodeStates
<1>6. /\ node' \in [Nodes -> NodeStates] /\ \A m \in Nodes : StateTrue(m, node'[m])
  BY <1>2, <1>5, TablesStay
<1>7. /\ Judged(eval[e], n) \in Evals /\ Judged(eval[e], n).at = "judge"
      /\ SameBeliefs(Judged(eval[e], n), eval[e])
  BY <1>1, JudgedKeeps
<1>8. Believable(Judged(eval[e], n))
  BY <1>1, <1>7, SameBelievable
<1> QED
  BY <1>3, <1>6, <1>7, <1>8, TablesStay, EvalMoves

\* A graph is computed to be complete only when its nodes are all done.
LEMMA TallyKeeps ==
    ASSUME IInv, NEW e \in Evaluations, Tally(e)
    PROVE  IInv'
<1> DEFINE told == [Idle EXCEPT !.at = "publish", !.now = GraphStatus]
           nx   == IF GraphStatus = eval[e].was THEN Idle ELSE told
<1>1. GraphStatus \in GraphStatuses
  BY DEF GraphStatus, GraphStatuses
<1>2. GraphStatus = "complete" => States \subseteq {"done"}
  BY DEF GraphStatus
<1>3. GraphStatus = "complete" => \A n \in Nodes : Fulfilled(n)
  BY <1>2, TablesStay DEF States, StateTrue
<1>4. /\ eval' = [eval EXCEPT ![e] = nx]
      /\ UNCHANGED <<fact, node, graph, decided, due, begun, ended>>
  BY DEF Tally
<1>5. /\ told \in Evals /\ told.at = "publish" /\ told.now = GraphStatus
      /\ told.snap = Idle.snap /\ told.seen = Idle.seen
  BY <1>1, IdleEval DEF Evals, Steps
<1> HIDE DEF told
<1>6. Believable(told)
  BY <1>3, <1>5, IdleBelievable DEF Believable
<1>7. nx \in Evals /\ Believable(nx) /\ nx.at # "release"
  BY <1>5, <1>6, IdleEval, IdleBelievable
<1> HIDE DEF nx
<1> QED
  BY <1>4, <1>7, TablesStay, EvalMoves

LEMMA PublishKeeps ==
    ASSUME IInv, NEW e \in Evaluations, Publish(e)
    PROVE  IInv'
<1>1. eval[e] \in Evals /\ Believable(eval[e])
  BY Beliefs
<1>2. /\ graph' = eval[e].now /\ eval' = [eval EXCEPT ![e] = Idle]
      /\ UNCHANGED <<fact, node, decided, due, begun, ended>>
  BY DEF Publish
<1>3. graph' \in GraphStatuses /\ (graph' = "complete" => \A n \in Nodes : Fulfilled(n))
  BY <1>1, <1>2 DEF Evals, Believable
<1> QED
  BY <1>2, <1>3, IdleEval, IdleBelievable, TablesStay, EvalMoves

--------------------------------------------------------------------------------
(* The invariant                                                                *)

\* At first nothing is done and nobody believes anything.
LEMMA IInvInit == Init => IInv
<1> SUFFICES ASSUME Init PROVE IInv
  OBVIOUS
<1>1. /\ \A n \in Nodes : FirstFact(n) \in FactsOf(n) /\ FirstFact(n) \in Facts
      /\ \A n \in Nodes : FirstFact(n) \in {"queued", "todo", "asked"}
      /\ \A n \in Nodes : Kind[n] = "dispatch" => FirstFact(n) = "queued"
  BY FactsAreFacts DEF FirstFact, FactsOf, Facts, DispatchStatuses, TaskStatuses
<1>2. /\ fact = [n \in Nodes |-> FirstFact(n)]
      /\ node = [n \in Nodes |-> "pending_dependencies"]
      /\ graph = "active" /\ decided = {} /\ due = "yes" /\ begun = 0 /\ ended = {}
      /\ eval = [e \in Evaluations |-> Idle]
  BY DEF Init
<1>3. TypeOK
  <2>1. fact \in [Nodes -> Facts] /\ node \in [Nodes -> NodeStates]
    BY <1>1, <1>2 DEF NodeStates
  <2>2. eval \in [Evaluations -> Evals]
    BY <1>2, IdleEval
  <2> QED
    BY <1>2, <2>1, <2>2, BoundAssumption DEF TypeOK, GraphStatuses
<1>4. FactInv
  BY <1>1, <1>2, IdleEval DEF FactInv, NoneSeen
<1>5. TablesTrue
  <2>1. ASSUME NEW n \in Nodes PROVE StateTrue(n, node[n]) /\ StatusTrue(n, fact[n])
    BY <1>1, <1>2 DEF StateTrue, StatusTrue
  <2> QED
    BY <1>2, <2>1 DEF TablesTrue
<1>6. ASSUME NEW e \in Evaluations PROVE BeliefsTrue(e)
  <2>1. eval[e] = Idle
    BY <1>2
  <2> QED
    BY <2>1, IdleEval, IdleBelievable DEF BeliefsTrue, Believable, At
<1> QED
  BY <1>3, <1>4, <1>5, <1>6 DEF IInv

\* A restart forgets what the evaluations believed and a request starts none.
LEMMA RestartKeeps ==
    ASSUME IInv, Restart \/ Kick
    PROVE  IInv'
<1>1. /\ TypeOK /\ FactInv /\ TablesTrue /\ Lasting
      /\ UNCHANGED <<fact, node, graph, decided, begun, ended>>
      /\ due' \in {"yes", "no", "lost"}
      /\ eval' = eval \/ eval' = [e \in Evaluations |-> Idle]
  BY DEF IInv, Restart, Kick, Lasting
<1>2. \A e \in Evaluations : eval'[e] = Idle \/ eval'[e] = eval[e]
  BY <1>1
<1>3. TypeOK'
  BY <1>1, IdleEval DEF TypeOK
<1>4. FactInv'
  BY <1>1, <1>2, IdleEval DEF FactInv, NoneSeen
<1>5. \A n \in Nodes : EdgesHold(n) => EdgesHold(n)'
  BY <1>1, HoldsStays
<1>6. TablesTrue'
  <2>1. ASSUME NEW n \in Nodes PROVE StateTrue(n, node[n])' /\ StatusTrue(n, fact[n])'
    <3>1. StateTrue(n, node[n]) /\ StatusTrue(n, fact[n])
      BY <1>1 DEF TablesTrue
    <3> QED
      BY <1>1, <1>5, <3>1 DEF StateTrue, StatusTrue, Fulfilled
  <2> QED
    BY <1>1, <2>1 DEF TablesTrue, Fulfilled
<1>7. ASSUME NEW e \in Evaluations PROVE BeliefsTrue(e)'
  <2>1. CASE eval'[e] = eval[e]
    BY <1>1, <2>1, BeliefsStay DEF IInv
  <2>2. CASE eval'[e] = Idle
    <3>1. ASSUME NEW n \in Nodes
          PROVE  /\ StateTrue(n, eval[e].snap[n])' /\ StatusTrue(n, eval[e].seen[n])'
                 /\ ~At(e, "release", n)'
      BY <2>2, IdleEval DEF StateTrue, StatusTrue, At, NoSnap, NoneSeen, None
    <3> QED
      BY <2>2, <3>1, IdleEval DEF BeliefsTrue
  <2> QED
    BY <1>2, <2>1, <2>2
<1> QED
  BY <1>3, <1>4, <1>6, <1>7 DEF IInv

\* So does nothing at all.
LEMMA StutterKeeps == IInv /\ UNCHANGED vars => IInv'
<1> SUFFICES ASSUME IInv, UNCHANGED vars PROVE IInv'
  OBVIOUS
<1> USE DEF vars
<1> QED
  BY DEF IInv, TypeOK, FactInv, TablesTrue, BeliefsTrue, StateTrue, StatusTrue, EdgesHold,
         Holds, Fulfilled, At

\* Every step keeps the invariant.
LEMMA IInvNext == IInv /\ [Next]_vars => IInv'
<1> SUFFICES ASSUME IInv, [Next]_vars PROVE IInv'
  OBVIOUS
<1>1. CASE \E n \in Nodes : FactStep(n)
  BY <1>1, FactStepKeeps
<1>2. ASSUME NEW e \in Evaluations, EvalStep(e) PROVE IInv'
  <2>1. CASE Begin(e)
    BY <2>1, BeginKeeps
  <2>2. CASE Tally(e)
    BY <2>2, TallyKeeps
  <2>3. CASE Publish(e)
    BY <2>3, PublishKeeps
  <2>4. ASSUME NEW n \in Nodes, NodeStep(e, n) PROVE IInv'
    <3>1. CASE ReadNode(e, n)
      BY <3>1, ReadNodeKeeps
    <3>2. CASE WriteNode(e, n)
      BY <3>2, WriteNodeKeeps
    <3>3. CASE Judge(e, n)
      BY <3>3, JudgeKeeps
    <3>4. CASE Release(e, n) \/ Hold(e, n)
      BY <3>4, ReleaseKeeps
    <3> QED
      BY <2>4, <3>1, <3>2, <3>3, <3>4 DEF NodeStep
  <2> QED
    BY <1>2, <2>1, <2>2, <2>3, <2>4 DEF EvalStep
<1>3. CASE Kick \/ Restart
  BY <1>3, RestartKeeps
<1>4. CASE UNCHANGED vars
  BY <1>4, StutterKeeps
<1> QED
  BY <1>1, <1>2, <1>3, <1>4 DEF Next, FactStep

LEMMA GraphInvariant == Spec => []IInv
  BY IInvInit, IInvNext, PTL DEF Spec

--------------------------------------------------------------------------------
(* Theorems                                                                     *)

\* The tables and the evaluations have their types (storage.ts of the graph module).
THEOREM GraphTypeCorrect == Spec => []TypeOK
<1>1. IInv => TypeOK
  BY DEF IInv
<1> QED
  BY <1>1, GraphInvariant, PTL

\* No dispatch of a graph is started before what it waits for, for any graph, any
\* number of evaluations beside one another and restarts at any point: runClaim looks
\* at a node that an evaluation from old nodes may have written.
THEOREM NothingStartsEarly == Spec => []NoEarlyStart
<1>1. IInv => NoEarlyStart
  <2> SUFFICES ASSUME IInv, NEW n \in Nodes, Started(n) PROVE EdgesHold(n)
    BY DEF NoEarlyStart
  <2>1. fact[n] # None
    BY TablesBelievable DEF None, Facts, DispatchStatuses, TaskStatuses
  <2> QED
    BY <2>1, TablesBelievable DEF Started, StatusTrue
<1> QED
  BY <1>1, GraphInvariant, PTL

\* A node that is done, and every node of a graph that is complete, has its dispatch or
\* task done or its approval given: computeGraphStatus counts nodes, not dispatches.
THEOREM CompletionIsTrue == Spec => []CompleteIsTrue
<1>1. IInv => CompleteIsTrue
  <2> SUFFICES ASSUME IInv, NEW n \in Nodes, graph = "complete" \/ node[n] = "done"
               PROVE  Fulfilled(n)
    BY DEF CompleteIsTrue, Fulfilled
  <2> QED
    BY TablesStay, TablesBelievable DEF StateTrue
<1> QED
  BY <1>1, GraphInvariant, PTL
================================================================================
