--------------------------- MODULE MergeQueue_proofs ---------------------------
(* Theorems about the merge queue, for every finite set of requests, every set *)
(* of drains, every ranking and every retry budget.  The argument is the lock: *)
(* a drain that holds it is the only one that changes a row, so what it did    *)
(* and where it left the row is known at each of its steps.                    *)
EXTENDS MergeQueue, FiniteSetTheorems, TLAPS

--------------------------------------------------------------------------------
(* Steps of one drain                                                          *)

\* A request that a drain is at is a request.
LEMMA OnRequest ==
    ASSUME MergeTypeOK, NEW d \in Drains, drain[d].at # "idle"
    PROVE  /\ drain[d] \in [at : Holding \cup {"lock"}, on : Requests]
           /\ drain[d].on \in Requests
  BY DEF MergeTypeOK, DrainStates, AtRest

\* The row of a request that a drain is at.
LEMMA RowPresent ==
    ASSUME MergeIInv, NEW d \in Drains, drain[d].at # "idle"
    PROVE  request[drain[d].on] \in RequestRows
  BY OnRequest DEF MergeIInv, MergeTypeOK, WorkInv, WorkOf, NoRequest

\* The holder d of the lock leaves the row of its request as rw, the counters as p
\* and f, and goes on to nx: only what is said of that request and of that drain can
\* have changed.
LEMMA HolderStep ==
    ASSUME MergeIInv,
           NEW d \in Drains, drain[d].at \in Holding,
           NEW rw \in RequestRows, NEW p \in Nat, NEW f \in Nat, NEW nx \in DrainStates,
           request'   = [request EXCEPT ![drain[d].on] = rw],
           promoted'  = [promoted EXCEPT ![drain[d].on] = p],
           followUps' = [followUps EXCEPT ![drain[d].on] = f],
           lease' \in {lease, lease \ {drain[d].on}},
           drain'     = [drain EXCEPT ![d] = nx],
           nx = AtRest \/ nx.on = drain[d].on,
           rw.state \in Eligible => rw.attempts < MaxAttempts,
           WorkOf(nx.at, rw.state, p, f),
           RowOf(rw.state, p, f, drain[d].on \in lease')
    PROVE  MergeIInv'
<1> DEFINE r == drain[d].on
<1>1. r \in Requests /\ drain[d].at # "idle"
  BY OnRequest DEF MergeIInv, Holding
<1>2. MergeTypeOK'
  BY <1>1 DEF MergeIInv, MergeTypeOK
<1>3. /\ request'[r] = rw /\ promoted'[r] = p /\ followUps'[r] = f
      /\ drain'[d] = nx
      /\ \A q \in Requests \ {r} : /\ request'[q] = request[q]
                                   /\ promoted'[q] = promoted[q]
                                   /\ followUps'[q] = followUps[q]
                                   /\ q \in lease' <=> q \in lease
      /\ \A c \in Drains \ {d} : drain'[c] = drain[c]
  BY <1>1 DEF MergeIInv, MergeTypeOK
<1>4. \A c \in Drains \ {d} : drain'[c].at \notin Holding
  BY <1>3 DEF MergeIInv, LockInv
<1>5. LockInv'
  BY <1>4 DEF LockInv
<1>6. BudgetInv'
  BY <1>3 DEF MergeIInv, BudgetInv, IsEligible
<1>7. RowsInv'
  BY <1>3 DEF MergeIInv, RowsInv
<1>8. WorkInv'
  <2> SUFFICES ASSUME NEW c \in Drains
               PROVE  WorkOf(drain'[c].at, request'[drain'[c].on].state,
                             promoted'[drain'[c].on], followUps'[drain'[c].on])
    BY DEF WorkInv
  <2>1. CASE c = d /\ nx.on = r
    BY <1>3, <2>1
  <2>2. CASE c = d /\ nx = AtRest
    BY <1>3, <2>2 DEF WorkOf, AtRest
  <2>3. CASE c # d
    <3>1. drain'[c] = drain[c] /\ drain[c].at \notin Holding
      BY <1>3, <1>4, <2>3
    <3>2. CASE drain[c].at = "idle"
      BY <3>1, <3>2 DEF WorkOf
    <3>3. CASE drain[c].at = "lock"
      <4>1. drain[c].on \in Requests /\ request[drain[c].on].state # "none"
        BY <3>3, OnRequest DEF MergeIInv, WorkInv, WorkOf
      <4>2. request'[drain[c].on].state # "none"
        BY <1>3, <4>1 DEF RequestRows, MergeStates, Eligible, Terminal
      <4> QED
        BY <3>1, <3>3, <4>2 DEF WorkOf
    <3> QED
      BY <3>1, <3>2, <3>3, <2>3 DEF MergeIInv, MergeTypeOK, DrainStates, AtRest
  <2> QED
    BY <2>1, <2>2, <2>3
<1> QED
  BY <1>2, <1>5, <1>6, <1>7, <1>8 DEF MergeIInv

--------------------------------------------------------------------------------
(* Steps without the lock                                                      *)

\* A submitted request is new: nothing was done with it.
LEMMA EnqueueStep == ASSUME MergeIInv, NEW r \in Requests, Enqueue(r) PROVE MergeIInv'
<1> DEFINE rw == [state |-> "queued", attempts |-> 0, since |-> Cardinality(Submitted)]
<1>1. rw \in RequestRows
  <2>1. Cardinality(Submitted) \in Nat
    BY RequestsAssumption, FS_Subset, FS_CardinalityType DEF Submitted
  <2> QED
    BY <2>1, MaxAttemptsAssumption DEF RequestRows, MergeStates, Eligible
<1>2. /\ request[r].state = "none"
      /\ request'[r] = rw
      /\ \A q \in Requests \ {r} : request'[q] = request[q]
      /\ UNCHANGED <<promoted, followUps, lease, drain>>
  BY DEF Enqueue, NoRequest, MergeIInv, MergeTypeOK
<1>3. MergeTypeOK'
  BY <1>1 DEF MergeIInv, MergeTypeOK, Enqueue
<1>4. LockInv'
  BY <1>2 DEF MergeIInv, LockInv
<1>5. BudgetInv'
  BY <1>2, MaxAttemptsAssumption DEF MergeIInv, BudgetInv, IsEligible
<1>6. WorkInv'
  <2> SUFFICES ASSUME NEW d \in Drains
               PROVE  WorkOf(drain[d].at, request'[drain[d].on].state,
                             promoted[drain[d].on], followUps[drain[d].on])
    BY <1>2 DEF WorkInv
  <2>1. CASE drain[d].at = "idle"
    BY <2>1 DEF WorkOf
  <2>2. CASE drain[d].at # "idle"
    <3>1. drain[d].on \in Requests \ {r}
      BY <1>2, <2>2, OnRequest DEF MergeIInv, WorkInv, WorkOf
    <3> QED
      BY <1>2, <3>1 DEF MergeIInv, WorkInv
  <2> QED
    BY <2>1, <2>2
<1>7. RowsInv'
  <2>1. RowOf("queued", promoted[r], followUps[r], r \in lease)
    BY <1>2 DEF MergeIInv, RowsInv, RowOf, Eligible
  <2> QED
    BY <1>2, <2>1 DEF MergeIInv, RowsInv
<1> QED
  BY <1>3, <1>4, <1>5, <1>6, <1>7 DEF MergeIInv

\* A drain picks a request, or takes the lock that no other holds.
LEMMA WaitStep ==
    ASSUME MergeIInv, NEW d \in Drains, Pick(d) \/ AcquireRepoLock(d)
    PROVE  MergeIInv'
<1>1. PICK nx \in DrainStates :
        /\ drain' = [drain EXCEPT ![d] = nx]
        /\ nx.at \in {"lock", "check"} /\ nx.on \in Requests
        /\ request[nx.on].state # "none"
        /\ nx.at = "check" => RepoLockFree(d)
  <2>1. CASE Pick(d)
    <3>1. PICK r \in Requests : /\ IsEligible(r)
                                /\ drain' = [drain EXCEPT ![d] = [at |-> "lock", on |-> r]]
      BY <2>1 DEF Pick
    <3>2. [at |-> "lock", on |-> r] \in DrainStates
      BY DEF DrainStates
    <3> QED
      BY <3>1, <3>2 DEF IsEligible, Eligible
  <2>2. CASE AcquireRepoLock(d)
    <3> DEFINE nx == [drain[d] EXCEPT !.at = "check"]
    <3>1. /\ drain[d] \in [at : Holding \cup {"lock"}, on : Requests]
          /\ request[drain[d].on].state # "none"
      BY <2>2, OnRequest DEF AcquireRepoLock, MergeIInv, WorkInv, WorkOf
    <3>2. nx \in DrainStates /\ nx.at = "check" /\ nx.on = drain[d].on
      BY <3>1 DEF DrainStates, Holding
    <3>3. drain' = [drain EXCEPT ![d] = nx] /\ RepoLockFree(d)
      BY <2>2 DEF AcquireRepoLock, Goes, MergeIInv, MergeTypeOK
    <3> QED
      BY <3>1, <3>2, <3>3
  <2> QED
    BY <2>1, <2>2
<1>2. UNCHANGED <<request, promoted, followUps, lease>>
  BY DEF Pick, AcquireRepoLock
<1>3. /\ drain'[d] = nx
      /\ \A c \in Drains \ {d} : drain'[c] = drain[c]
  BY <1>1 DEF MergeIInv, MergeTypeOK
<1>4. MergeTypeOK'
  BY <1>1, <1>2 DEF MergeIInv, MergeTypeOK
<1>5. LockInv'
  BY <1>1, <1>3 DEF MergeIInv, LockInv, RepoLockFree, Holding
<1>6. BudgetInv' /\ RowsInv'
  BY <1>2 DEF MergeIInv, BudgetInv, IsEligible, RowsInv
<1>7. WorkInv'
  <2>1. WorkOf(nx.at, request[nx.on].state, promoted[nx.on], followUps[nx.on])
    BY <1>1 DEF WorkOf
  <2> QED
    BY <1>2, <1>3, <2>1 DEF MergeIInv, WorkInv
<1> QED
  BY <1>4, <1>5, <1>6, <1>7 DEF MergeIInv

\* The manager stops: no drain is at anything.
LEMMA RestartStep == ASSUME MergeIInv, Restart PROVE MergeIInv'
<1>1. /\ \A d \in Drains : drain'[d] = AtRest
      /\ UNCHANGED <<request, promoted, followUps, lease>>
  BY DEF Restart
<1>2. MergeTypeOK'
  BY <1>1 DEF Restart, MergeIInv, MergeTypeOK, DrainStates
<1>3. LockInv' /\ WorkInv'
  BY <1>1 DEF LockInv, WorkInv, WorkOf, AtRest, Holding
<1>4. BudgetInv' /\ RowsInv'
  BY <1>1 DEF MergeIInv, BudgetInv, IsEligible, RowsInv
<1> QED
  BY <1>2, <1>3, <1>4 DEF MergeIInv

--------------------------------------------------------------------------------
(* Steps under the lock                                                        *)

\* What the invariant says of the drain d that holds the lock and of its request.
LEMMA AtHolder ==
    ASSUME MergeIInv, NEW d \in Drains, drain[d].at \in Holding
    PROVE  LET r == drain[d].on IN
           /\ r \in Requests
           /\ drain[d] \in [at : Holding \cup {"lock"}, on : Requests]
           /\ request[r] \in RequestRows
           /\ promoted[r] \in Nat /\ followUps[r] \in Nat
           /\ WorkOf(drain[d].at, request[r].state, promoted[r], followUps[r])
           /\ RowOf(request[r].state, promoted[r], followUps[r], r \in lease)
           /\ IsEligible(r) => request[r].attempts < MaxAttempts
  BY OnRequest, RowPresent
     DEF Holding, MergeIInv, MergeTypeOK, WorkInv, RowsInv, BudgetInv

\* Where a holder goes on to is a step.
LEMMA GoesOn ==
    ASSUME MergeIInv, NEW d \in Drains, drain[d].at \in Holding,
           NEW step \in Holding, Goes(d, step)
    PROVE  LET nx == [at |-> step, on |-> drain[d].on] IN
           nx \in DrainStates /\ drain' = [drain EXCEPT ![d] = nx]
<1> DEFINE nx == [at |-> step, on |-> drain[d].on]
<1>1. drain[d] \in [at : Holding \cup {"lock"}, on : Requests]
  BY AtHolder
<1>2. nx \in DrainStates
  BY <1>1 DEF DrainStates
<1>3. [drain[d] EXCEPT !.at = step] = nx
  BY <1>1
<1>4. drain' = [drain EXCEPT ![d] = [drain[d] EXCEPT !.at = step]]
  BY DEF Goes, MergeIInv, MergeTypeOK
<1> QED
  BY <1>2, <1>3, <1>4

\* What it makes of a row is a row.
LEMMA RowBecomes ==
    ASSUME MergeIInv, NEW d \in Drains, drain[d].at \in Holding,
           NEW state \in MergeStates, Becomes(d, state)
    PROVE  LET r == drain[d].on
               rw == [state |-> state, attempts |-> request[r].attempts,
                      since |-> request[r].since]
           IN rw \in RequestRows /\ request' = [request EXCEPT ![r] = rw]
<1> DEFINE r == drain[d].on
           rw == [state |-> state, attempts |-> request[r].attempts,
                  since |-> request[r].since]
<1>1. r \in Requests /\ request[r] \in RequestRows
  BY AtHolder
<1>2. rw \in RequestRows
  BY <1>1 DEF RequestRows
<1>3. [request[r] EXCEPT !.state = state] = rw
  BY <1>1 DEF RequestRows
<1>4. request' = [request EXCEPT ![r] = [request[r] EXCEPT !.state = state]]
  BY <1>1 DEF Becomes, MergeIInv, MergeTypeOK
<1> QED
  BY <1>2, <1>3, <1>4

\* A drain that holds the lock takes a step in which only the drain and its row
\* change.
LEMMA RowStep ==
    ASSUME MergeIInv, NEW d \in Drains, drain[d].at \in Holding,
           NEW nx \in DrainStates, NEW rw \in RequestRows,
           drain' = [drain EXCEPT ![d] = nx], nx = AtRest \/ nx.on = drain[d].on,
           request' = [request EXCEPT ![drain[d].on] = rw],
           UNCHANGED <<promoted, followUps, lease>>,
           rw.state \in Eligible => rw.attempts < MaxAttempts,
           WorkOf(nx.at, rw.state, promoted[drain[d].on], followUps[drain[d].on]),
           RowOf(rw.state, promoted[drain[d].on], followUps[drain[d].on],
                 drain[d].on \in lease)
    PROVE  MergeIInv'
<1> DEFINE r == drain[d].on
<1>1. r \in Requests /\ promoted[r] \in Nat /\ followUps[r] \in Nat
  BY AtHolder
<1>2. /\ promoted' = [promoted EXCEPT ![r] = promoted[r]]
      /\ followUps' = [followUps EXCEPT ![r] = followUps[r]]
  BY <1>1 DEF MergeIInv, MergeTypeOK
<1> QED
  BY <1>1, <1>2, HolderStep

\* A drain that holds the lock goes on or ends, and nothing else changes.
LEMMA DrainOnly ==
    ASSUME MergeIInv, NEW d \in Drains, drain[d].at \in Holding,
           NEW nx \in DrainStates, nx = AtRest \/ nx.on = drain[d].on,
           drain' = [drain EXCEPT ![d] = nx],
           UNCHANGED <<request, promoted, followUps, lease>>,
           WorkOf(nx.at, request[drain[d].on].state, promoted[drain[d].on],
                  followUps[drain[d].on])
    PROVE  MergeIInv'
<1> DEFINE r == drain[d].on
<1>1. request' = [request EXCEPT ![r] = request[r]]
  BY AtHolder DEF MergeIInv, MergeTypeOK
<1> QED
  BY <1>1, AtHolder, RowStep DEF IsEligible

\* At rest there is nothing to be said.
LEMMA RestIsFine ==
    ASSUME NEW state, NEW p, NEW f
    PROVE  AtRest \in DrainStates /\ WorkOf(AtRest.at, state, p, f)
  BY DEF AtRest, DrainStates, WorkOf

\* A step of a drain that holds the lock, one action after the other.
LEMMA LockedStep ==
    ASSUME MergeIInv, NEW d \in Drains, drain[d].at \in Holding,
           DrainStep(d) \/ StepThrows(d)
    PROVE  MergeIInv'
<1> DEFINE r == drain[d].on
<1> DEFINE next(step) == [at |-> step, on |-> r]
<1> DEFINE as(state) == [state |-> state, attempts |-> request[r].attempts,
                         since |-> request[r].since]
<1>1. /\ r \in Requests
      /\ request[r] \in RequestRows
      /\ promoted[r] \in Nat /\ followUps[r] \in Nat
      /\ WorkOf(drain[d].at, request[r].state, promoted[r], followUps[r])
      /\ RowOf(request[r].state, promoted[r], followUps[r], r \in lease)
      /\ IsEligible(r) => request[r].attempts < MaxAttempts
  BY AtHolder
<1>2. ASSUME NEW step \in Holding, Goes(d, step),
             UNCHANGED <<request, promoted, followUps, lease>>,
             WorkOf(step, request[r].state, promoted[r], followUps[r])
      PROVE  MergeIInv'
  BY <1>2, GoesOn, DrainOnly
<1>3. ASSUME Ends(d), UNCHANGED <<request, promoted, followUps, lease>>
      PROVE  MergeIInv'
  BY <1>3, RestIsFine, DrainOnly DEF Ends
<1>4. ASSUME NEW state \in MergeStates, NEW step \in Holding,
             Becomes(d, state), Goes(d, step), UNCHANGED <<promoted, followUps, lease>>,
             state \notin Eligible,
             WorkOf(step, state, promoted[r], followUps[r]),
             RowOf(state, promoted[r], followUps[r], r \in lease)
      PROVE  MergeIInv'
  <2>1. /\ as(state) \in RequestRows /\ request' = [request EXCEPT ![r] = as(state)]
        /\ next(step) \in DrainStates /\ drain' = [drain EXCEPT ![d] = next(step)]
    BY <1>4, GoesOn, RowBecomes
  <2> QED
    BY <1>4, <2>1, RowStep
<1>5. ASSUME NEW state \in MergeStates,
             Becomes(d, state), Ends(d), UNCHANGED <<promoted, followUps, lease>>,
             state \in Eligible => request[r].attempts < MaxAttempts,
             RowOf(state, promoted[r], followUps[r], r \in lease)
      PROVE  MergeIInv'
  <2>1. as(state) \in RequestRows /\ request' = [request EXCEPT ![r] = as(state)]
    BY <1>5, RowBecomes
  <2> QED
    BY <1>5, <2>1, RestIsFine, RowStep DEF Ends
<1>6. CASE ClaimRequest(d)
  <2> DEFINE rw == [as("merging") EXCEPT !.attempts = request[r].attempts + 1]
  <2>1. rw = [state |-> "merging", attempts |-> request[r].attempts + 1,
              since |-> request[r].since]
    OBVIOUS
  <2>2. request' = [request EXCEPT ![r] = rw]
    BY <1>1, <1>6, <2>1 DEF ClaimRequest, RequestRows, MergeIInv, MergeTypeOK
  <2>3. rw \in RequestRows
    BY <1>1, <1>6, <2>1, MaxAttemptsAssumption
       DEF ClaimRequest, Claimable, RequestRows, MergeStates
  <2>4. next("fetch") \in DrainStates /\ drain' = [drain EXCEPT ![d] = next("fetch")]
    BY <1>6, GoesOn DEF ClaimRequest, Holding
  <2>5. promoted[r] = 0 /\ followUps[r] = 0 /\ r \in lease
    BY <1>1, <1>6 DEF ClaimRequest, Claimable, IsEligible, RowOf, Eligible
  <2>6. WorkOf("fetch", "merging", promoted[r], followUps[r])
    BY <2>5 DEF WorkOf
  <2>7. RowOf("merging", promoted[r], followUps[r], r \in lease)
    BY <2>5 DEF RowOf, Eligible
  <2> QED
    BY <1>6, <2>1, <2>2, <2>3, <2>4, <2>6, <2>7, RowStep DEF ClaimRequest, Eligible
<1>7. CASE AlreadyClaimed(d) \/ StepThrows(d)
  BY <1>3, <1>7 DEF AlreadyClaimed, StepThrows
<1>8. CASE Fetch(d)
  <2>1. WorkOf("rebase", "rebasing", promoted[r], followUps[r])
    BY <1>1, <1>8 DEF Fetch, WorkOf
  <2>2. WorkOf("promote", request[r].state, promoted[r], followUps[r])
    BY <1>1, <1>8 DEF Fetch, WorkOf
  <2>3. RowOf("rebasing", promoted[r], followUps[r], r \in lease)
    BY <1>1, <1>8 DEF Fetch, WorkOf, RowOf, Eligible
  <2>4. "rebasing" \in MergeStates \ Eligible /\ {"rebase", "promote"} \subseteq Holding
    BY DEF MergeStates, Eligible, Holding
  <2> QED
    BY <1>2, <1>4, <1>8, <2>1, <2>2, <2>3, <2>4 DEF Fetch
<1>9. CASE Rebase(d)
  <2>1. WorkOf("promote", "merging", promoted[r], followUps[r])
    BY <1>1, <1>9 DEF Rebase, WorkOf
  <2>2. RowOf("merging", promoted[r], followUps[r], r \in lease)
    BY <1>1, <1>9 DEF Rebase, WorkOf, RowOf, Eligible
  <2>3. "merging" \in MergeStates \ Eligible /\ "promote" \in Holding
    BY DEF MergeStates, Eligible, Holding
  <2> QED
    BY <1>4, <1>9, <2>1, <2>2, <2>3 DEF Rebase
<1>10. CASE RebaseConflict(d)
  <2>1. request[r].state = "rebasing" /\ promoted[r] = 0 /\ followUps[r] = 0 /\ r \in lease
    BY <1>1, <1>10 DEF RebaseConflict, WorkOf, RowOf
  <2>2. CASE ~Exhausted(d) /\ Becomes(d, "conflict") /\ Ends(d)
    <3>1. request[r].attempts < MaxAttempts
      BY <1>1, <2>2, MaxAttemptsAssumption DEF Exhausted, RequestRows
    <3>2. RowOf("conflict", promoted[r], followUps[r], r \in lease)
      BY <2>1 DEF RowOf
    <3> QED
      BY <1>5, <1>10, <2>2, <3>1, <3>2 DEF RebaseConflict, MergeStates, Eligible
  <2>3. CASE Goes(d, "emit") /\ UNCHANGED request
    <3>1. WorkOf("emit", request[r].state, promoted[r], followUps[r])
      BY <2>1 DEF WorkOf
    <3> QED
      BY <1>2, <1>10, <2>3, <3>1 DEF RebaseConflict, Holding
  <2> QED
    BY <1>10, <2>2, <2>3 DEF RebaseConflict
<1>11. CASE StepFails(d)
  <2>1. WorkOf("emit", request[r].state, promoted[r], followUps[r])
    BY <1>1, <1>11 DEF StepFails, Injected, WorkOf
  <2> QED
    BY <1>2, <1>11, <2>1 DEF StepFails, Holding
<1>12. CASE Promote(d)
  <2>1. /\ request[r].state = "merging" /\ promoted[r] = 0 /\ followUps[r] = 0
        /\ r \in lease
    BY <1>1, <1>12 DEF Promote, WorkOf, RowOf
  <2>2. next("record") \in DrainStates /\ drain' = [drain EXCEPT ![d] = next("record")]
    BY <1>12, GoesOn DEF Promote, Holding
  <2>3. /\ request' = [request EXCEPT ![r] = request[r]]
        /\ promoted' = [promoted EXCEPT ![r] = 1]
        /\ followUps' = [followUps EXCEPT ![r] = 0]
        /\ lease' = lease
    BY <1>1, <1>12, <2>1 DEF Promote, MergeIInv, MergeTypeOK
  <2>4. WorkOf("record", request[r].state, 1, 0)
    BY <2>1 DEF WorkOf
  <2>5. RowOf(request[r].state, 1, 0, r \in lease)
    BY <2>1 DEF RowOf, Eligible
  <2> QED
    BY <1>1, <2>2, <2>3, <2>4, <2>5, HolderStep DEF IsEligible
<1>13. CASE RecordMerged(d)
  <2>1. WorkOf("lease", "merged", promoted[r], followUps[r])
    BY DEF WorkOf
  <2>2. RowOf("merged", promoted[r], followUps[r], r \in lease)
    BY <1>1, <1>13 DEF RecordMerged, WorkOf, RowOf, Eligible
  <2>3. "merged" \in MergeStates \ Eligible /\ "lease" \in Holding
    BY DEF MergeStates, Eligible, Terminal, Holding
  <2> QED
    BY <1>4, <1>13, <2>1, <2>2, <2>3 DEF RecordMerged
<1>14. CASE ReleaseLease(d)
  <2>1. request[r].state = "merged"
    BY <1>1, <1>14 DEF ReleaseLease, WorkOf
  <2>2. RowOf(request[r].state, promoted[r], followUps[r], r \in lease')
    BY <1>1, <2>1 DEF RowOf
  <2>3. /\ request' = [request EXCEPT ![r] = request[r]]
        /\ promoted' = [promoted EXCEPT ![r] = promoted[r]]
        /\ followUps' = [followUps EXCEPT ![r] = followUps[r]]
    BY <1>14 DEF ReleaseLease, MergeIInv, MergeTypeOK
  <2>4. drain' = [drain EXCEPT ![d] = AtRest] /\ lease' \in {lease, lease \ {r}}
    BY <1>14 DEF ReleaseLease, Ends
  <2> QED
    BY <1>1, <2>2, <2>3, <2>4, RestIsFine, HolderStep DEF IsEligible
<1>15. CASE EmitFixForward(d)
  <2>1. /\ request[r].state \in {"merging", "rebasing"}
        /\ promoted[r] = 0 /\ followUps[r] = 0 /\ r \in lease
    BY <1>1, <1>15 DEF EmitFixForward, WorkOf, RowOf
  <2>2. next("fail") \in DrainStates /\ drain' = [drain EXCEPT ![d] = next("fail")]
    BY <1>15, GoesOn DEF EmitFixForward, Holding
  <2>3. PICK f \in {0, 1} : followUps' = [followUps EXCEPT ![r] = f]
    <3>1. /\ followUps = [followUps EXCEPT ![r] = 0]
          /\ [followUps EXCEPT ![r] = @ + 1] = [followUps EXCEPT ![r] = 1]
      BY <1>1, <2>1 DEF MergeIInv, MergeTypeOK
    <3> QED
      BY <1>15, <3>1 DEF EmitFixForward
  <2>4. /\ request' = [request EXCEPT ![r] = request[r]]
        /\ promoted' = [promoted EXCEPT ![r] = promoted[r]]
        /\ lease' = lease
    BY <1>15 DEF EmitFixForward, MergeIInv, MergeTypeOK
  <2>5. WorkOf("fail", request[r].state, promoted[r], f)
    BY <2>1 DEF WorkOf
  <2>6. RowOf(request[r].state, promoted[r], f, r \in lease)
    BY <2>1 DEF RowOf, Eligible
  <2> QED
    BY <1>1, <2>2, <2>3, <2>4, <2>5, <2>6, HolderStep DEF IsEligible
<1>16. CASE RecordFailed(d)
  <2>1. RowOf("failed", promoted[r], followUps[r], r \in lease)
    BY <1>1, <1>16 DEF RecordFailed, WorkOf, RowOf, Eligible
  <2>2. "failed" \in MergeStates \ Eligible
    BY DEF MergeStates, Eligible, Terminal
  <2> QED
    BY <1>5, <1>16, <2>1, <2>2 DEF RecordFailed
<1>17. ~Pick(d) /\ ~AcquireRepoLock(d)
  BY DEF Pick, AcquireRepoLock, AtRest, Holding
<1> QED
  BY <1>6, <1>7, <1>8, <1>9, <1>10, <1>11, <1>12, <1>13, <1>14, <1>15, <1>16, <1>17
     DEF DrainStep

--------------------------------------------------------------------------------
(* Theorems                                                                    *)

\* The invariant holds at first and is kept by every step.
LEMMA InitMerge == Init => MergeIInv
  BY MaxAttemptsAssumption, NobodyAssumption
     DEF Init, MergeIInv, MergeTypeOK, LockInv, BudgetInv, WorkInv, WorkOf, RowsInv, RowOf,
         NoRequest, AtRest, DrainStates, Holding, IsEligible, Eligible

LEMMA StepMerge == MergeIInv /\ [Next]_queueVars => MergeIInv'
<1> SUFFICES ASSUME MergeIInv, [Next]_queueVars PROVE MergeIInv'
  OBVIOUS
<1>1. CASE UNCHANGED queueVars
  BY <1>1 DEF queueVars, MergeIInv, MergeTypeOK, LockInv, BudgetInv, IsEligible, WorkInv,
              RowsInv
<1>2. ASSUME NEW d \in Drains, DrainStep(d) \/ StepThrows(d) PROVE MergeIInv'
  <2>1. CASE drain[d].at \in Holding
    BY <1>2, <2>1, LockedStep
  <2>2. CASE drain[d].at \notin Holding
    <3>1. Pick(d) \/ AcquireRepoLock(d)
      BY <1>2, <2>2
         DEF DrainStep, ClaimRequest, AlreadyClaimed, Fetch, Rebase, RebaseConflict, Promote,
             StepFails, StepThrows, Injected, RecordMerged, ReleaseLease, EmitFixForward,
             RecordFailed, Holding
    <3> QED
      BY <3>1, WaitStep
  <2> QED
    BY <2>1, <2>2
<1> QED
  BY <1>1, <1>2, EnqueueStep, RestartStep DEF Next

THEOREM MergeInvariant == Spec => []MergeIInv
  BY InitMerge, StepMerge, PTL DEF Spec

\* Rows, counters and drains have their types, and the retry budget holds.
THEOREM MergeTypeCorrect == Spec => []MergeTypeOK
<1>1. MergeIInv => MergeTypeOK
  BY DEF MergeIInv
<1> QED
  BY <1>1, MergeInvariant, PTL

\* RD-038: however many drains pick a request, its branch is promoted at most once.
THEOREM PromotionsAreOnce == Spec => []PromotedOnce
<1>1. MergeIInv => PromotedOnce
  BY DEF MergeIInv, RowsInv, RowOf, PromotedOnce
<1> QED
  BY <1>1, MergeInvariant, PTL

\* The row of a request agrees with the base and with what its builder was told.
THEOREM RowsAreTrue == Spec => []RowsTellTheBase
<1>1. MergeIInv => RowsTellTheBase
  BY DEF MergeIInv, MergeTypeOK, RowsInv, RowOf, Eligible, RowsTellTheBase
<1> QED
  BY <1>1, MergeInvariant, PTL

\* The builder is told of a failure at most once.
THEOREM FollowUpsAreOnce == Spec => []FollowUpOnce
<1>1. MergeIInv => FollowUpOnce
  BY DEF MergeIInv, RowsInv, RowOf, FollowUpOnce
<1> QED
  BY <1>1, MergeInvariant, PTL

\* The lease of a builder lasts until its request is merged.
THEOREM LeasesLast == Spec => []LeaseUntilMerged
<1>1. MergeIInv => LeaseUntilMerged
  BY DEF MergeIInv, RowsInv, RowOf, LeaseUntilMerged
<1> QED
  BY <1>1, MergeInvariant, PTL

================================================================================
