-------------------------- MODULE DispatchQueueClaims --------------------------
(* What the comments, the documentation and the tests of the repository say    *)
(* about the queue and the code does not do.                                   *)
EXTENDS MCDispatchQueue

\* The attempt of d the scheduler made last has a query that is writing output.
LatestProducing(d) ==
    \E q \in Queries : /\ query[q].of = d /\ query[q].by = "scheduler"
                       /\ query[q].attempt = row[d].attempts
                       /\ query[q].state = "processing" /\ query[q].out = "recent"

\* scheduler-service.ts:858-860, in failStaleInFlight: "A dispatch that is still
\* actively producing output (recent B1 `last_output_at`) must never be expired by
\* this backstop, no matter how long the overall build runs."
ActiveWorkNotExpired ==
    [][\A d \in Dispatches :
         /\ row[d].status = "in_flight"
         /\ row'[d].status = "failed" /\ row'[d].kind = "scheduler_wedged"
         => ~LatestProducing(d)]_vars
================================================================================
