----------------------------- MODULE MCMergeQueue -----------------------------
(* A small instance of MergeQueue for TLC. *)
EXTENDS MergeQueue, TLC

CONSTANTS r1, r2, d1, d2

MCRequests == {r1, r2}
MCDrains == {d1, d2}

\* The second request ranks before the first.
MCRank == [r \in MCRequests |-> IF r = r2 THEN 1 ELSE 5]
================================================================================
