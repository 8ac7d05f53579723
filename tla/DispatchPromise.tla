---------------------------- MODULE DispatchPromise ----------------------------
(***************************************************************************)
(* What the queue promises the producers of dispatches and the providers   *)
(* behind the lanes, with no tick, no batches, no queries and no stale     *)
(* reads: each start checks the room of its lane and takes it in the same  *)
(* step, each start is one attempt, and what is closed stays closed.       *)
(***************************************************************************)
EXTENDS Naturals, FiniteSets

CONSTANTS Dispatches, Lanes, Cap

VARIABLES
    stage,     \* where a dispatch is
    lane,      \* the lane it waits or runs in
    attempts   \* how often it was started

vars == <<stage, lane, attempts>>

\* lent: an off-process caller started it and the lane does not count it.
Stages == {"absent", "waiting", "running", "lent", "done", "failed"}

Init == /\ stage    = [d \in Dispatches |-> "absent"]
        /\ lane     \in [Dispatches -> Lanes]
        /\ attempts = [d \in Dispatches |-> 0]

Running(l) == {d \in Dispatches : stage[d] = "running" /\ lane[d] = l}

Submit(d, l) ==
    /\ stage[d] = "absent"
    /\ stage' = [stage EXCEPT ![d] = "waiting"]
    /\ lane'  = [lane EXCEPT ![d] = l]
    /\ UNCHANGED attempts

Start(d, to) ==
    /\ stage[d] = "waiting"
    /\ to \in {"running", "lent"}
    /\ Cardinality(Running(lane[d])) < Cap[lane[d]]
    /\ stage'    = [stage EXCEPT ![d] = to]
    /\ attempts' = [attempts EXCEPT ![d] = @ + 1]
    /\ UNCHANGED lane

\* An off-process caller takes a waiting dispatch, or one the lane has started.
Lend(d) ==
    /\ stage[d] \in {"waiting", "running"}
    /\ stage'    = [stage EXCEPT ![d] = "lent"]
    /\ attempts' = IF stage[d] = "waiting" THEN [attempts EXCEPT ![d] = @ + 1]
                   ELSE attempts
    /\ UNCHANGED lane

\* Back to waiting, perhaps in another lane.
PutBack(d, l) ==
    /\ stage[d] \in {"waiting", "running", "lent"}
    /\ stage' = [stage EXCEPT ![d] = "waiting"]
    /\ lane'  = [lane EXCEPT ![d] = l]
    /\ UNCHANGED attempts

Close(d, outcome) ==
    /\ stage[d] \in {"waiting", "running", "lent"}
    /\ outcome \in {"done", "failed"}
    /\ stage' = [stage EXCEPT ![d] = outcome]
    /\ UNCHANGED <<lane, attempts>>

Next ==
    \E d \in Dispatches :
        \/ \E l \in Lanes : Submit(d, l) \/ PutBack(d, l)
        \/ \E to \in {"running", "lent"} : Start(d, to)
        \/ Lend(d)
        \/ \E outcome \in {"done", "failed"} : Close(d, outcome)

Spec == Init /\ [][Next]_vars
================================================================================
