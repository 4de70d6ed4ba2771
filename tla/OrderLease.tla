----------------------------- MODULE OrderLease -----------------------------
(***************************************************************************)
(* The channel-scoped lease row of order synchronization                   *)
(* (source "__channel_lease__"): polling, webhook processing and           *)
(* reconciliation of one channel take it for the length of a run.          *)
(***************************************************************************)
CONSTANTS
    Worker,     \* runner processes; each run claims the lease under a fresh owner
    NoWorker    \* not a member of Worker

ASSUME OrderLeaseAssumption == NoWorker \notin Worker

VARIABLES
    holder,     \* lock_owner: the worker whose run claimed the lease last
    live        \* whether lease_expires_at is set and still in the future

leaseVars == <<holder, live>>

LeaseTypeOK == holder \in Worker \cup {NoWorker} /\ live \in BOOLEAN

LeaseInit == holder = NoWorker /\ live = FALSE

\* An error: the expiry is not part of the predicate.
HoldsExpired(w) == holder = w

\* _update_active_lease matches the lease row
Holds(w) == holder = w /\ live

\* An error: only a released lease can be taken, not an expired one.
AcquireReleased(w) ==
    /\ holder = NoWorker
    /\ holder' = w
    /\ live' = TRUE

\* acquire_checkpoint_lease
Acquire(w) ==
    /\ ~live
    /\ holder' = w
    /\ live' = TRUE

\* release_checkpoint_lease: an owner may clear its expired lease, never a
\* newer worker's.
Release(w) ==
    /\ holder' = IF holder = w THEN NoWorker ELSE holder
    /\ live' = IF holder = w THEN FALSE ELSE live

\* lease_seconds pass without a heartbeat.
Lapse == live /\ live' = FALSE /\ UNCHANGED holder
=============================================================================
