----------------------------- MODULE DispatchGraph -----------------------------
(***************************************************************************)
(* Dependency graphs over dispatches: nodes that stand for a dispatch, a   *)
(* task or an operator's approval, edges with a predicate on the upstream  *)
(* node, and the evaluation that releases a node when its predicates hold. *)
(* The scheduler does not claim a dispatch whose node is pending.          *)
(*                                                                         *)
(* An evaluation is started without being awaited when a dispatch or task  *)
(* changes, and by the routes; several may run on one graph.  Each works   *)
(* from the nodes it read at its start and from dispatch statuses it read  *)
(* later, and writes node states with updates that look at nothing.        *)
(***************************************************************************)
EXTENDS Naturals, Sequences, FiniteSets

CONSTANTS
    NumNodes,     \* nodes are numbered in the order getNodes returns them
    Kind,         \* Kind[n]: what node n stands for
    Edges,        \* Edges[n]: the incoming edges of n, in the order they are read
    Evaluations,  \* evaluations that may run at the same time
    Fates,        \* what may become of a dispatch that is in flight
    EvaluationBound \* evaluations in a run of the model

Nodes == 1..NumNodes

NodeStates == {"pending_dependencies", "queued", "in_flight",
               "needs_clarification", "done", "failed"}

\* What a node stands for, in the tables of dispatches and tasks.  For an approval:
\* whether the operator has given it, which no table records.
DispatchStatuses == {"queued", "in_flight", "bounced", "needs_clarification",
                     "failed", "done"}
TaskStatuses == {"todo", "doing", "done"}
Facts == DispatchStatuses \cup TaskStatuses \cup {"asked", "granted"}

Predicates == {"dispatch_success", "dispatch_terminal", "task_done",
               "operator_approval"}

EdgeRows == [from : Nodes, predicate : Predicates, accepts : SUBSET {"done", "failed"}]

ASSUME NodesAssumption == NumNodes \in Nat
ASSUME KindAssumption  == Kind \in [Nodes -> {"dispatch", "task", "approval"}]
ASSUME EdgesAssumption ==
    \A n \in Nodes : \A i \in DOMAIN Edges[n] :
       /\ Edges[n][i] \in EdgeRows
       /\ Edges[n][i].from < n         \* the plan sorts its nodes before it adds them
       /\ Kind[Edges[n][i].from] = CASE Edges[n][i].predicate = "task_done" -> "task"
                                     [] Edges[n][i].predicate = "operator_approval" -> "approval"
                                     [] OTHER -> "dispatch"

ASSUME BoundAssumption == EvaluationBound \in Nat

ASSUME FatesAssumption == Fates \subseteq {"done", "failed", "needs_clarification", "bounced"}

VARIABLES
    fact,      \* fact[n]: the status of what n stands for
    node,      \* node[n]: dispatch_graph_node.state
    graph,     \* dispatch_graph.status
    decided,   \* idempotency keys of dispatch_graph_decision
    due,       \* whether an evaluation was triggered and has not begun
    eval,      \* eval[e]: where evaluation e has got to
    begun,     \* evaluations begun so far
    ended      \* dispatches that have ended once; only the properties look at it

vars == <<fact, node, graph, decided, due, eval, begun, ended>>

--------------------------------------------------------------------------------
(* State *)

GraphStatuses == {"active", "blocked", "failed", "complete"}

Steps == {"idle", "read", "write", "judge", "release", "hold", "publish"}

None == "n/a"

\* snap: the nodes as the evaluation believes them to be; seen: the statuses it
\* read; was, now: the graph status it read first and the one it computed.
Evals == [at : Steps, pos : 1..NumNodes + 1, snap : [Nodes -> NodeStates],
          seen : [Nodes -> Facts \cup {None}], was : GraphStatuses,
          now : GraphStatuses]

NoSnap == [n \in Nodes |-> "pending_dependencies"]
NoneSeen == [n \in Nodes |-> None]

Idle == [at |-> "idle", pos |-> 1, snap |-> NoSnap, seen |-> NoneSeen,
         was |-> "active", now |-> "active"]

FirstFact(n) == CASE Kind[n] = "dispatch" -> "queued"
                  [] Kind[n] = "task"     -> "todo"
                  [] OTHER                -> "asked"

\* A graph that was planned and activated.
Init == /\ fact    = [n \in Nodes |-> FirstFact(n)]
        /\ node    = [n \in Nodes |-> "pending_dependencies"]
        /\ graph   = "active"
        /\ decided = {}
        /\ due     = "yes"
        /\ eval    = [e \in Evaluations |-> Idle]
        /\ begun   = 0
        /\ ended   = {}

--------------------------------------------------------------------------------
(* Dispatches, tasks and approvals *)

Turns(n, from, to) == /\ fact[n] = from
                      /\ fact' = [fact EXCEPT ![n] = to]

\* runClaim leaves a dispatch alone whose node is pending.
Claim(n) ==
    /\ Kind[n] = "dispatch"
    /\ node[n] # "pending_dependencies"
    /\ Turns(n, "queued", "in_flight")
    /\ UNCHANGED <<node, graph, decided, due, eval, begun, ended>>

\* The ends of a dispatch, a question and its answer trigger an evaluation.  Bounces,
\* their requeue and the recovery of a failure do not.
EndAttempt(n) ==
    /\ Kind[n] = "dispatch"
    /\ \E s \in Fates :
         /\ Turns(n, "in_flight", s)
         /\ due' = IF s = "bounced" THEN due ELSE "yes"
         /\ ended' = IF s \in {"done", "failed"} THEN ended \cup {n} ELSE ended
    /\ UNCHANGED <<node, graph, decided, eval, begun>>

AnswerQuestion(n) ==
    /\ Turns(n, "needs_clarification", "queued")
    /\ due' = "yes"
    /\ UNCHANGED <<node, graph, decided, eval, begun, ended>>

TryAgain(n) ==
    /\ Turns(n, "bounced", "queued") \/ Turns(n, "failed", "bounced")
    /\ UNCHANGED <<node, graph, decided, due, eval, begun, ended>>

StartTask(n) ==
    /\ Turns(n, "todo", "doing")
    /\ UNCHANGED <<node, graph, decided, due, eval, begun, ended>>

CompleteTask(n) ==
    /\ \E s \in {"todo", "doing"} : Turns(n, s, "done")
    /\ due' = "yes"
    /\ UNCHANGED <<node, graph, decided, eval, begun, ended>>

\* The approve route; it may be called again.
Approve(n) ==
    /\ Kind[n] = "approval"
    /\ fact' = [fact EXCEPT ![n] = "granted"]
    /\ node' = [node EXCEPT ![n] = "done"]
    /\ due' = "yes"
    /\ UNCHANGED <<graph, decided, eval, begun, ended>>

--------------------------------------------------------------------------------
(* evaluateGraph: the nodes are brought up to date one by one, then judged one *)
(* by one, then the status of the graph is computed.                          *)

\* Mutant of Projected: the status of a task is taken as it is.
ProjectedRaw(n, state, status) == IF Kind[n] = "task" THEN status ELSE state

\* The node state that the status of its dispatch or task calls for.
Projected(n, state, status) ==
    CASE Kind[n] = "dispatch" /\ status \in {"done", "failed", "needs_clarification"} -> status
      [] Kind[n] = "dispatch" /\ status = "in_flight" /\ state # "needs_clarification" -> status
      [] Kind[n] = "task" /\ status = "done" -> status
      [] Kind[n] = "task" /\ status = "doing" /\ state \notin {"done", "failed"} -> "in_flight"
      [] OTHER -> state

At(e, step, n) == eval[e].at = step /\ eval[e].pos = n /\ n \in Nodes

\* The first node of S after n, or the end of the list.
After(n, S) == CHOOSE m \in (S \cup {NumNodes + 1}) \cap (n + 1 .. NumNodes + 1) :
                  \A k \in S : k > n => m <= k

ToRead == {n \in Nodes : Kind[n] # "approval"}

\* Mutant of ToJudge: a node without dependencies is taken to be released already.
ToJudgeDependents(snap) ==
    {n \in Nodes : snap[n] = "pending_dependencies" /\ Edges[n] # <<>>}

ToJudge(snap) == {n \in Nodes : snap[n] = "pending_dependencies"}

\* The evaluation goes on with the node after n, to judge them when all are read.
Read(ev, n) ==
    IF After(n, ToRead) \in Nodes THEN [ev EXCEPT !.at = "read", !.pos = After(n, ToRead)]
    ELSE [ev EXCEPT !.at = "judge", !.pos = After(0, ToJudge(ev.snap))]

Judged(ev, n) == [ev EXCEPT !.at = "judge", !.pos = After(n, ToJudge(ev.snap))]

Begin(e) ==
    /\ eval[e].at = "idle"
    /\ due = "yes"
    /\ begun < EvaluationBound
    /\ begun' = begun + 1
    /\ due' = "no"
    /\ eval' = [eval EXCEPT ![e] = Read([Idle EXCEPT
                  !.snap = node, !.was = graph,
                  !.seen = [n \in Nodes |-> IF Kind[n] = "task" THEN fact[n] ELSE None]], 0)]
    /\ UNCHANGED <<fact, node, graph, decided, ended>>

ReadNode(e, n) ==
    /\ At(e, "read", n)
    /\ LET ev == [eval[e] EXCEPT !.seen[n] = IF Kind[n] = "dispatch" THEN fact[n] ELSE @]
       IN eval' = [eval EXCEPT ![e] =
                     IF Projected(n, ev.snap[n], ev.seen[n]) = ev.snap[n] THEN Read(ev, n)
                     ELSE [ev EXCEPT !.at = "write"]]
    /\ UNCHANGED <<fact, node, graph, decided, due, begun, ended>>

WriteNode(e, n) ==
    /\ At(e, "write", n)
    /\ LET state == Projected(n, eval[e].snap[n], eval[e].seen[n]) IN
         /\ node' = [node EXCEPT ![n] = state]
         /\ eval' = [eval EXCEPT ![e] = Read([@ EXCEPT !.snap[n] = state], n)]
    /\ UNCHANGED <<fact, graph, decided, due, begun, ended>>

\* evaluatePredicate, on the state and the status of the upstream node.
Verdict(edge, state, status) ==
    CASE edge.predicate = "task_done" ->
           IF status = "done" THEN "ready" ELSE "not_ready"
      [] edge.predicate = "operator_approval" ->
           IF state = "done" THEN "ready" ELSE "blocked"
      [] edge.predicate = "dispatch_success" ->
           IF "done" \in {state, status} THEN "ready"
           ELSE IF {"needs_clarification", "failed"} \cap {state, status} # {}
                THEN "blocked" ELSE "not_ready"
      [] edge.predicate = "dispatch_terminal" ->
           IF edge.accepts \cap {state, status} # {} THEN "ready"
           ELSE IF "needs_clarification" \in {state, status} \/ state = "failed"
                THEN "blocked" ELSE "not_ready"

EdgeVerdict(ev, edge) == Verdict(edge, ev.snap[edge.from], ev.seen[edge.from])

\* Mutant of Ready: one predicate that holds is enough.
ReadyAny(ev, n) ==
    Edges[n] = <<>> \/ \E i \in DOMAIN Edges[n] : EdgeVerdict(ev, Edges[n][i]) = "ready"

Ready(ev, n) == \A i \in DOMAIN Edges[n] : EdgeVerdict(ev, Edges[n][i]) = "ready"

\* The first predicate that does not hold decides.
Blocked(ev, n) ==
    \E i \in DOMAIN Edges[n] :
       /\ EdgeVerdict(ev, Edges[n][i]) = "blocked"
       /\ \A j \in 1..i - 1 : EdgeVerdict(ev, Edges[n][j]) = "ready"

Upstream(n) == {Edges[n][i].from : i \in DOMAIN Edges[n]}

\* idempotencyKey: the node and the states of its upstream nodes.
Key(ev, n) == <<n, [u \in Upstream(n) |-> <<ev.snap[u], ev.seen[u]>>]>>

Judge(e, n) ==
    /\ At(e, "judge", n)
    /\ LET ev    == eval[e]
           fresh == Key(ev, n) \notin decided
       IN eval' = [eval EXCEPT ![e] =
                     CASE Ready(ev, n) /\ fresh -> [ev EXCEPT !.at = "release"]
                       [] Blocked(ev, n)        -> [ev EXCEPT !.at = "hold"]
                       [] OTHER                 -> Judged(ev, n)]
    /\ decided' = decided \cup {Key(eval[e], n)}
    /\ UNCHANGED <<fact, node, graph, due, begun, ended>>

Release(e, n) ==
    /\ At(e, "release", n)
    /\ node' = [node EXCEPT ![n] = "queued"]
    /\ eval' = [eval EXCEPT ![e] = Judged(@, n)]
    /\ UNCHANGED <<fact, graph, decided, due, begun, ended>>

\* The blocker is written whether or not the decision was a duplicate, and
\* whatever the node has become.
Hold(e, n) ==
    /\ At(e, "hold", n)
    /\ node' = [node EXCEPT ![n] = "pending_dependencies"]
    /\ eval' = [eval EXCEPT ![e] = Judged(@, n)]
    /\ UNCHANGED <<fact, graph, decided, due, begun, ended>>

States == {node[n] : n \in Nodes}

\* Mutant of GraphStatus: nothing left to run is complete.
GraphStatusIdle == IF States \cap {"queued", "in_flight"} = {} THEN "complete" ELSE "active"

\* computeGraphStatus.
GraphStatus ==
    CASE States \subseteq {"done"} -> "complete"
      [] "failed" \in States /\ ~(States \subseteq {"done"}) -> "failed"
      [] /\ States \cap {"failed", "queued", "in_flight"} = {}
         /\ States \cap {"pending_dependencies", "needs_clarification"} # {} -> "blocked"
      [] OTHER -> "active"

Tally(e) ==
    /\ eval[e].at = "judge"
    /\ eval[e].pos = NumNodes + 1
    /\ eval' = [eval EXCEPT ![e] =
                  IF GraphStatus = eval[e].was THEN Idle
                  ELSE [Idle EXCEPT !.at = "publish", !.now = GraphStatus]]
    /\ UNCHANGED <<fact, node, graph, decided, due, begun, ended>>

Publish(e) ==
    /\ eval[e].at = "publish"
    /\ graph' = eval[e].now
    /\ eval' = [eval EXCEPT ![e] = Idle]
    /\ UNCHANGED <<fact, node, decided, due, begun, ended>>

--------------------------------------------------------------------------------

\* The manager stops: the evaluations and the triggers are lost.
Restart ==
    /\ due' = "lost"
    /\ eval' = [e \in Evaluations |-> Idle]
    /\ UNCHANGED <<fact, node, graph, decided, begun, ended>>

\* POST /graphs/:id/evaluate.
Kick ==
    /\ due' = "yes"
    /\ UNCHANGED <<fact, node, graph, decided, eval, begun, ended>>

NodeStep(e, n) == \/ ReadNode(e, n) \/ WriteNode(e, n)
                  \/ Judge(e, n) \/ Release(e, n) \/ Hold(e, n)

EvalStep(e) == \/ Begin(e) \/ Tally(e) \/ Publish(e)
               \/ \E n \in Nodes : NodeStep(e, n)

Next == \/ \E n \in Nodes : \/ Claim(n) \/ EndAttempt(n) \/ AnswerQuestion(n)
                           \/ TryAgain(n) \/ StartTask(n) \/ CompleteTask(n) \/ Approve(n)
        \/ \E e \in Evaluations : EvalStep(e)
        \/ Kick
        \/ Restart

Spec == Init /\ [][Next]_vars

--------------------------------------------------------------------------------
(* Properties *)

\* The tables and the evaluations have their types.
TypeOK == /\ fact \in [Nodes -> Facts]
          /\ node \in [Nodes -> NodeStates]
          /\ graph \in GraphStatuses
          /\ \A key \in decided : key[1] \in Nodes
          /\ due \in {"yes", "no", "lost"}
          /\ eval \in [Evaluations -> Evals]
          /\ begun \in 0..EvaluationBound
          /\ ended \in SUBSET Nodes

Started(n) == Kind[n] = "dispatch" /\ fact[n] # "queued"

\* What an edge asks for, in the tables themselves.  A failure that a
\* dispatch_terminal edge accepted may be recovered later.
Holds(edge) == CASE edge.predicate = "dispatch_terminal" -> edge.from \in ended
                 [] edge.predicate = "operator_approval" -> fact[edge.from] = "granted"
                 [] OTHER                                -> fact[edge.from] = "done"

EdgesHold(n) == \A i \in DOMAIN Edges[n] : Holds(Edges[n][i])

\* No dispatch of a graph is started before what it waits for: its upstream
\* dispatches have ended, or are done where success is asked for, its tasks are done
\* and its approvals given, although the evaluation
\* that released it worked from old nodes beside other evaluations.
NoEarlyStart == \A n \in Nodes : Started(n) => EdgesHold(n)

\* Nodes and graph never claim more than happened, however stale the evaluation that
\* wrote them was: a node that is done, and every node of a graph that is complete, has
\* its dispatch or task done or its approval given.
CompleteIsTrue ==
    \A n \in Nodes : graph = "complete" \/ node[n] = "done" => fact[n] \in {"done", "granted"}

--------------------------------------------------------------------------------
(* The inductive invariant behind them *)

FactsOf(n) == CASE Kind[n] = "dispatch" -> DispatchStatuses
                [] Kind[n] = "task"     -> TaskStatuses
                [] OTHER                -> {"asked", "granted"}

FactInv == /\ \A n \in Nodes : fact[n] \in FactsOf(n)
           /\ \A e \in Evaluations, n \in Nodes : eval[e].seen[n] \in FactsOf(n) \cup {None}

Fulfilled(n) == fact[n] \in {"done", "granted"}

\* What a state of a node says of the tables, now and whenever it was read: nothing
\* that a later step could undo.
StateTrue(n, state) ==
    /\ state = "done" => Fulfilled(n)
    /\ Kind[n] = "dispatch" /\ state \in {"done", "failed"} => n \in ended
    /\ Kind[n] = "dispatch" /\ state # "pending_dependencies" => EdgesHold(n)

\* And what a status of its dispatch or task says.
StatusTrue(n, status) ==
    /\ status = "done" => Fulfilled(n)
    /\ Kind[n] = "dispatch" /\ status \in {"done", "failed"} => n \in ended
    /\ Kind[n] = "dispatch" /\ status \notin {None, "queued"} => EdgesHold(n)

TablesTrue == /\ \A n \in Nodes : StateTrue(n, node[n]) /\ StatusTrue(n, fact[n])
              /\ graph = "complete" => \A n \in Nodes : Fulfilled(n)

BeliefsTrue(e) ==
    /\ \A n \in Nodes : /\ StateTrue(n, eval[e].snap[n])
                        /\ StatusTrue(n, eval[e].seen[n])
                        /\ At(e, "release", n) => EdgesHold(n)
    /\ eval[e].now = "complete" => \A n \in Nodes : Fulfilled(n)

IInv == /\ TypeOK /\ FactInv /\ TablesTrue
        /\ \A e \in Evaluations : BeliefsTrue(e)

--------------------------------------------------------------------------------
(* Liveness *)

\* An evaluation that was triggered runs to its end.
Fairness == \A e \in Evaluations : WF_vars(EvalStep(e))

LiveSpec == Spec /\ Fairness

\* The tables as an evaluation that began now would read them.
Fresh == [snap |-> [n \in Nodes |-> Projected(n, node[n], fact[n])],
          seen |-> [n \in Nodes |-> IF Kind[n] = "approval" THEN None ELSE fact[n]]]

Releasable(n) == /\ node[n] = "pending_dependencies" /\ Fresh.snap[n] = node[n]
                 /\ \A i \in DOMAIN Edges[n] : EdgeVerdict(Fresh, Edges[n][i]) = "ready"

\* The decision to release the node was taken, and no evaluation is about to act on
\* it: the write was lost, or another evaluation overwrote it.
Swallowed(n) == /\ Key(Fresh, n) \in decided
                /\ \A e \in Evaluations : ~At(e, "release", n)

\* A node whose dependencies hold, and of whose graph an evaluation is due, is
\* released, and with the dispatch it stands for; only a decision that was taken and
\* whose write was lost or overwritten keeps it pending, or a restart, until the next
\* trigger.
NodesReleased ==
    \A n \in Nodes :
        Releasable(n) /\ due = "yes" /\ begun < EvaluationBound
        ~> ~Releasable(n) \/ Swallowed(n) \/ due = "lost"

================================================================================
