------------------------------ MODULE MergeQueue ------------------------------
(***************************************************************************)
(* The merge queue of one repository.  Builders submit branches; drains    *)
(* take one request at a time, bring it onto the base and promote it.      *)
(*                                                                         *)
(* Drains may run beside each other (the cadence and a route start them):  *)
(* each picks a request without a lock, waits for the lock of the          *)
(* repository and looks again at what it picked.  git, the promotion, the  *)
(* smoke gate and the follow-up dispatch are injected: they may fail,      *)
(* throw, and have happened when the manager stops.                        *)
(***************************************************************************)
EXTENDS Naturals, FiniteSets

CONSTANTS
    Requests,     \* branches that may be submitted
    Drains,       \* calls of drainOneMergeRequest that may run at the same time
    Nobody,       \* what a drain at rest is working on
    Rank,         \* Rank[r]: north star and priority of a request, lower is first
    MaxAttempts   \* max_attempts

ASSUME RequestsAssumption == IsFiniteSet(Requests)
ASSUME RankAssumption == Rank \in [Requests -> Nat]
ASSUME MaxAttemptsAssumption == MaxAttempts \in Nat \ {0}
ASSUME NobodyAssumption == Nobody \notin Requests

VARIABLES
    request,     \* request[r]: its row, or NoRequest
    promoted,    \* promoted[r]: how often its branch was promoted to the base
    followUps,   \* followUps[r]: fix_forward dispatches sent to its builder
    lease,       \* requests whose worktree lease is held
    drain        \* drain[d]: where drain d has got to

queueVars == <<request, promoted, followUps, lease, drain>>

--------------------------------------------------------------------------------
(* State *)

\* Mutant of Eligible: a conflict is not tried again.
EligibleOnce == {"queued"}

Eligible == {"queued", "conflict"}
Terminal == {"merged", "failed"}
MergeStates == Eligible \cup Terminal \cup {"merging", "rebasing"}

\* since orders the requests by enqueued_at.
RequestRows == [state : MergeStates, attempts : 0..MaxAttempts, since : Nat]

NoRequest == [state |-> "none", attempts |-> 0, since |-> 0]

\* The steps of a drain that holds the lock of the repository.
Holding == {"check", "fetch", "rebase", "promote", "record", "lease", "emit", "fail"}

AtRest == [at |-> "idle", on |-> Nobody]

DrainStates == {AtRest} \cup [at : Holding \cup {"lock"}, on : Requests]

Submitted == {r \in Requests : request[r] # NoRequest}

Init == /\ request   = [r \in Requests |-> NoRequest]
        /\ promoted  = [r \in Requests |-> 0]
        /\ followUps = [r \in Requests |-> 0]
        /\ lease     = Requests
        /\ drain     = [d \in Drains |-> AtRest]

--------------------------------------------------------------------------------
(* Picking a request *)

\* enqueueMergeRequest; a branch that is submitted again at the same head is found.
Enqueue(r) ==
    /\ request[r] = NoRequest
    /\ request' = [request EXCEPT ![r] =
                     [state |-> "queued", attempts |-> 0, since |-> Cardinality(Submitted)]]
    /\ UNCHANGED <<promoted, followUps, lease, drain>>

IsEligible(r) == request[r].state \in Eligible

Before(q, r) == \/ Rank[q] < Rank[r]
                \/ Rank[q] = Rank[r] /\ request[q].since < request[r].since

\* dequeueOldestQueued, which takes no lock.
Pick(d) ==
    /\ drain[d] = AtRest
    /\ \E r \in Requests :
         /\ IsEligible(r)
         /\ \A q \in Requests \ {r} : IsEligible(q) => Before(r, q)
         /\ drain' = [drain EXCEPT ![d] = [at |-> "lock", on |-> r]]
    /\ UNCHANGED <<request, promoted, followUps, lease>>

Goes(d, step) == drain' = [drain EXCEPT ![d].at = step]

\* The drain ends and, if it holds the lock, gives it back.
Ends(d) == drain' = [drain EXCEPT ![d] = AtRest]

Becomes(d, state) == request' = [request EXCEPT ![drain[d].on].state = state]

RepoLockFree(d) == \A c \in Drains : drain[c].at \notin Holding

AcquireRepoLock(d) ==
    /\ drain[d].at = "lock"
    /\ RepoLockFree(d)
    /\ Goes(d, "check")
    /\ UNCHANGED <<request, promoted, followUps, lease>>

\* Mutant of Claimable: the drain trusts what it picked.
ClaimablePicked(d) == request[drain[d].on].attempts < MaxAttempts

\* The request is looked up again under the lock.
Claimable(d) == IsEligible(drain[d].on)

ClaimRequest(d) ==
    /\ drain[d].at = "check"
    /\ Claimable(d)
    /\ request' = [request EXCEPT ![drain[d].on].state = "merging",
                                  ![drain[d].on].attempts = @ + 1]
    /\ Goes(d, "fetch")
    /\ UNCHANGED <<promoted, followUps, lease>>

AlreadyClaimed(d) ==
    /\ drain[d].at = "check"
    /\ ~Claimable(d)
    /\ Ends(d)
    /\ UNCHANGED <<request, promoted, followUps, lease>>

--------------------------------------------------------------------------------
(* Bringing it onto the base *)

\* fetchBase and needsRebase: the base has advanced, or not.
Fetch(d) ==
    /\ drain[d].at = "fetch"
    /\ \/ Becomes(d, "rebasing") /\ Goes(d, "rebase")
       \/ Goes(d, "promote") /\ UNCHANGED request
    /\ UNCHANGED <<promoted, followUps, lease>>

\* The rebased branch passed the smoke gate.
Rebase(d) ==
    /\ drain[d].at = "rebase"
    /\ Becomes(d, "merging")
    /\ Goes(d, "promote")
    /\ UNCHANGED <<promoted, followUps, lease>>

\* Mutant of Exhausted: one attempt too many.
ExhaustedLate(d) == request[drain[d].on].attempts > MaxAttempts

Exhausted(d) == request[drain[d].on].attempts >= MaxAttempts

\* A conflict goes back to the queue while attempts are left.
RebaseConflict(d) ==
    /\ drain[d].at = "rebase"
    /\ \/ ~Exhausted(d) /\ Becomes(d, "conflict") /\ Ends(d)
       \/ Exhausted(d) /\ Goes(d, "emit") /\ UNCHANGED request
    /\ UNCHANGED <<promoted, followUps, lease>>

Promote(d) ==
    /\ drain[d].at = "promote"
    /\ promoted' = [promoted EXCEPT ![drain[d].on] = @ + 1]
    /\ Goes(d, "record")
    /\ UNCHANGED <<request, followUps, lease>>

\* Mutant of Injected: so does the write of the outcome.
InjectedWrites == {"fetch", "rebase", "promote", "record"}

Injected == {"fetch", "rebase", "promote"}

\* git, the smoke gate or the promotion reports a failure.
StepFails(d) ==
    /\ drain[d].at \in Injected
    /\ Goes(d, "emit")
    /\ UNCHANGED <<request, promoted, followUps, lease>>

\* One of them throws: the lock is given back, and the row stays as it is.
StepThrows(d) ==
    /\ drain[d].at \in Injected
    /\ Ends(d)
    /\ UNCHANGED <<request, promoted, followUps, lease>>

RecordMerged(d) ==
    /\ drain[d].at = "record"
    /\ Becomes(d, "merged")
    /\ Goes(d, "lease")
    /\ UNCHANGED <<promoted, followUps, lease>>

\* A lease that cannot be released is left to the reaper.
ReleaseLease(d) ==
    /\ drain[d].at = "lease"
    /\ lease' \in {lease, lease \ {drain[d].on}}
    /\ Ends(d)
    /\ UNCHANGED <<request, promoted, followUps>>

\* fail: the follow-up dispatch, which may not be accepted, and then the row.
EmitFixForward(d) ==
    /\ drain[d].at = "emit"
    /\ followUps' \in {followUps, [followUps EXCEPT ![drain[d].on] = @ + 1]}
    /\ Goes(d, "fail")
    /\ UNCHANGED <<request, promoted, lease>>

\* Mutant of RecordFailed: the request goes back to the queue.
RequeueFailed(d) ==
    /\ drain[d].at = "fail"
    /\ Becomes(d, "queued")
    /\ Ends(d)
    /\ UNCHANGED <<promoted, followUps, lease>>

RecordFailed(d) ==
    /\ drain[d].at = "fail"
    /\ Becomes(d, "failed")
    /\ Ends(d)
    /\ UNCHANGED <<promoted, followUps, lease>>

--------------------------------------------------------------------------------

\* The manager stops: its drains end wherever they are.
Restart ==
    /\ drain' = [d \in Drains |-> AtRest]
    /\ UNCHANGED <<request, promoted, followUps, lease>>

\* What a drain does when nothing throws.
DrainStep(d) ==
    \/ Pick(d) \/ AcquireRepoLock(d) \/ ClaimRequest(d) \/ AlreadyClaimed(d)
    \/ Fetch(d) \/ Rebase(d) \/ RebaseConflict(d) \/ Promote(d) \/ StepFails(d)
    \/ RecordMerged(d) \/ ReleaseLease(d) \/ EmitFixForward(d) \/ RecordFailed(d)

Next == \/ \E r \in Requests : Enqueue(r)
        \/ \E d \in Drains : DrainStep(d) \/ StepThrows(d)
        \/ Restart

Spec == Init /\ [][Next]_queueVars

\* Drains are started again and again, and every call of git or a dispatch returns.
\* The manager stops restarting.
LiveSpec == Spec /\ (\A d \in Drains : WF_queueVars(DrainStep(d)))
                 /\ <>[][~Restart]_queueVars

--------------------------------------------------------------------------------
(* Properties *)

\* Rows, counters and drains have their types, and no request is attempted more often
\* than its retry budget allows.
MergeTypeOK ==
    /\ request \in [Requests -> RequestRows \cup {NoRequest}]
    /\ promoted \in [Requests -> Nat]
    /\ followUps \in [Requests -> Nat]
    /\ lease \subseteq Requests
    /\ drain \in [Drains -> DrainStates]

\* RD-038 (worker.ts:103-108): although two drains pick the same request, and although
\* the manager may stop anywhere, a branch is promoted at most once.
PromotedOnce == \A r \in Requests : promoted[r] <= 1

\* What a row says of the base is so: a merged request is on it; one that failed or is
\* to be tried again is not, so its builder is never asked to fix forward what is merged.
RowsTellTheBase ==
    \A r \in Requests :
       /\ request[r].state = "merged" => promoted[r] > 0
       /\ request[r].state \in {"queued", "conflict", "failed"} => promoted[r] = 0
       /\ followUps[r] > 0 => promoted[r] = 0

\* A failure is sent back to the builder at most once, also when the manager stops
\* between the follow-up and the row that remembers it.
FollowUpOnce == \A r \in Requests : followUps[r] <= 1

\* A builder loses its lease only when the row tells it why.
LeaseUntilMerged == \A r \in Requests \ lease : request[r].state = "merged"

\* In flight in the table, and no drain is at it or will be.
Stranded(r) == /\ request[r].state \in {"merging", "rebasing"}
               /\ \A d \in Drains : drain[d].on # r

\* Every request is merged or failed in the end, unless a throw or a restart strands
\* it: conflicts of requests that rank higher do not starve the others.
RequestsResolve ==
    \A r \in Requests :
       request[r].state = "queued" ~> request[r].state \in Terminal \/ Stranded(r)

--------------------------------------------------------------------------------
(* The inductive invariant behind them *)

\* The lock is held by one drain at most.
LockInv == \A c, d \in Drains :
              drain[c].at \in Holding /\ drain[d].at \in Holding => c = d

\* A request that can be claimed has an attempt left.
BudgetInv == \A r \in Requests : IsEligible(r) => request[r].attempts < MaxAttempts

\* Where a drain that got to a step left the row, how often it promoted the branch
\* and how often it told the builder.
WorkOf(at, state, p, f) ==
    /\ at # "idle" => state # "none"
    /\ at = "rebase" => state = "rebasing"
    /\ at \in {"fetch", "promote", "record"} => state = "merging"
    /\ at \in {"emit", "fail"} => state \in {"merging", "rebasing"}
    /\ at = "lease" => state = "merged"
    /\ at \in {"fetch", "rebase", "promote", "emit"} => p = 0 /\ f = 0
    /\ at = "record" => p = 1 /\ f = 0
    /\ at = "fail" => p = 0 /\ f <= 1

WorkInv == \A d \in Drains : LET r == drain[d].on IN
              WorkOf(drain[d].at, request[r].state, promoted[r], followUps[r])

\* What every row tells, also of a request that no drain is at.
RowOf(state, p, f, leased) ==
    /\ state \in Eligible \cup {"none"} => p = 0 /\ f = 0
    /\ state = "failed" => p = 0
    /\ state = "merged" => p = 1
    /\ p <= 1 /\ f <= 1
    /\ p = 0 \/ f = 0
    /\ leased \/ state = "merged"

RowsInv == \A r \in Requests :
              RowOf(request[r].state, promoted[r], followUps[r], r \in lease)

MergeIInv == MergeTypeOK /\ LockInv /\ BudgetInv /\ WorkInv /\ RowsInv
================================================================================
