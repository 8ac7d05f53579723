--------------------------- MODULE DispatchRefinement ---------------------------
(* The queue keeps the promise: what a producer sees of a row, and the proof    *)
(* obligation that every step of the queue is a step of DispatchPromise.        *)
EXTENDS DispatchQueue

\* A dispatch that is paused for a question waits: it holds no slot and may run again.
Waiting == {"queued", "bounced", "needs_clarification", "resume_delivery_failed"}

StageOf(d) ==
    CASE row[d].status = "absent" -> "absent"
      [] row[d].status \in Waiting -> "waiting"
      [] row[d].status = "in_flight" -> IF DirectlyStarted(d) THEN "lent" ELSE "running"
      [] row[d].status = "done" -> "done"
      [] OTHER -> "failed"

Promise == INSTANCE DispatchPromise WITH
    stage    <- [d \in Dispatches |-> StageOf(d)],
    lane     <- [d \in Dispatches |-> row[d].lane],
    attempts <- [d \in Dispatches |-> row[d].attempts]

\* The batch of claims, counted once and written row by row while agents, closeouts
\* and off-process callers run, admits exactly what one atomic check-and-start per
\* dispatch would admit; nothing closed is reopened and no start is uncounted.
KeepsPromise == Promise!Spec
================================================================================
