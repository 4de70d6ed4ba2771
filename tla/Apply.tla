------------------------------- MODULE Apply -------------------------------
(***************************************************************************)
(* One confirmed Apply of the Unified Workspace, from the durable job row  *)
(* to the provider and back: apply_selected, reconcile_apply, the stale    *)
(* job recovery, the Listing locks and the provider dispatch of            *)
(* WritePipelineService.execute_workspace.                                 *)
(*                                                                         *)
(* A session is one request being served; several run at once over one     *)
(* READ COMMITTED database.  An action is what a session does between two  *)
(* commits or awaits, so that everything other sessions can see in between *)
(* is a state of the model.                                                *)
(***************************************************************************)
EXTENDS Naturals, FiniteSets

CONSTANTS
    Job,        \* confirmed operations; logical_operation_key makes one job of each
    Listing,    \* Channel Listings
    Channel,    \* sales Channels
    Session,    \* requests that can be in progress at the same time
    NoJob,      \* not a member of Job
    Scope,      \* Scope[j]: the Listings of the manifest operation j confirms
    ChannelOf,  \* ChannelOf[l]: the Channel of Listing l
    Reported,   \* Listings whose connector reports every verified value back
    Stall,      \* program points where a request may be held up for minutes
    MaxFence    \* MaxFence[j]: bound on the ownership claims of job j

(***************************************************************************)
(* Program points of apply_selected and of reconcile_apply.  A session at   *)
(* "r_claim" has read what there is to reconcile and claims nothing yet.    *)
(* One at "verify", "limit", "io" or "r_verify" awaits something outside: the *)
(* final live read, the rate limiter, the provider's answer, the read-back. *)
(***************************************************************************)
ApplyPoints == {"locking", "claim", "verify", "persist", "limit", "dispatch",
                "send", "io", "record", "settle", "finish", "status"}
ReconcilePoints == {"r_claim", "r_verify", "r_record", "r_settle", "r_finish"}
Points == ApplyPoints \cup ReconcilePoints

\* Points where a session is about to commit what it decided before, without
\* another look at the job's lease.  The first two are waits for row locks: of
\* the Listings, which a cache refresh holds, and of the Review, which a Dry Run
\* holds across its live read.
UncheckedPoints == {"locking", "claim", "dispatch", "record", "finish", "status",
                    "r_claim", "r_record", "r_finish"}
CheckedPoints == Points \ UncheckedPoints

ASSUME ApplyAssumption ==
    /\ NoJob \notin Job
    /\ Scope \in [Job -> SUBSET Listing]
    /\ \A j \in Job : Scope[j] # {}
    /\ ChannelOf \in [Listing -> Channel]
    /\ Reported \subseteq Listing
    /\ Stall \subseteq Points
    /\ MaxFence \in [Job -> Nat]

JobStatus == {"absent", "pending", "running", "reconciliation_required",
              "applied", "partially_applied", "failed", "stale"}
Unfinished == {"pending", "running", "reconciliation_required"}
Finished == {"applied", "partially_applied", "failed", "stale"}
ItemStatus == {"absent", "pending", "applied", "failed",
               "reconciliation_required", "recovering"}
UncertainItem == {"reconciliation_required", "recovering"}
Outcome == {"dispatch_intent_recorded", "dispatched", "verified_applied",
            "failed", "reconciliation_required"}
Uncertain == {"dispatched", "reconciliation_required"}
Result == {"verified_applied", "failed", "reconciliation_required"}

VARIABLES
    jobStatus,  \* uw_apply_jobs.status
    fence,      \* how often ownership of the job was claimed: lease_token, which
                \*   no two claims share (two may set the same fencing_token)
    held,       \* whether worker_id and lease_token are set
    item,       \* uw_apply_job_items.status, one item per Listing of the job
    lock,       \* lock[l]: the job whose WorkspaceLock row covers Listing l
    events,     \* outcomes of the attempt's append-only events; {} if no attempt
    latest,     \* the newest of them
    cache,      \* the write the ChannelCache row of a Listing reflects
    remote,     \* the write the provider's Listing reflects
    wire,       \* writes sent to a provider that can still take effect
    sent,       \* how often a write was sent: read by properties only
    pc,         \* where each session is
    task,       \* the job a session works on
    token,      \* the lease the session claimed
    todo,       \* the Channels execute_workspace has still to visit
    batch,      \* the Listings of the Channel being visited
    result,     \* WorkspaceWriteResult of each Listing, in the session's memory
    loaded,     \* jobs.status as a reconciliation loaded it with its last check
    raced       \* jobs claimed by a reconciliation that read them before another
                \*   session changed what it read: read by properties only

dbVars == <<jobStatus, fence, held, item, lock, events, latest, cache>>
providerVars == <<remote, wire, sent>>
sessionVars == <<pc, task, token, todo, batch, result, loaded>>
vars == <<dbVars, providerVars, sessionVars, raced>>

NoResult == [l \in Listing |-> "none"]
Blank == [l \in Listing |-> "absent"]

Init ==
    /\ jobStatus = [j \in Job |-> "absent"]
    /\ fence = [j \in Job |-> 0]
    /\ held = [j \in Job |-> FALSE]
    /\ item = [j \in Job |-> Blank]
    /\ lock = [l \in Listing |-> NoJob]
    /\ events = [j \in Job |-> [l \in Listing |-> {}]]
    /\ latest = [j \in Job |-> [l \in Listing |-> "none"]]
    /\ cache = [l \in Listing |-> NoJob]
    /\ remote = [l \in Listing |-> NoJob]
    /\ wire = {}
    /\ sent = [j \in Job |-> [l \in Listing |-> 0]]
    /\ pc = [s \in Session |-> "idle"]
    /\ task = [s \in Session |-> NoJob]
    /\ token = [s \in Session |-> 0]
    /\ todo = [s \in Session |-> {}]
    /\ batch = [s \in Session |-> {}]
    /\ result = [s \in Session |-> NoResult]
    /\ loaded = [s \in Session |-> "absent"]
    /\ raced = {}

-----------------------------------------------------------------------------
(* Helpers                                                                 *)

At(s, p) == pc[s] = p
Goto(s, p) == pc' = [pc EXCEPT ![s] = p]

\* The session's request ends: everything it held in memory is gone.
Leave(s) ==
    /\ pc' = [pc EXCEPT ![s] = "idle"]
    /\ task' = [task EXCEPT ![s] = NoJob]
    /\ token' = [token EXCEPT ![s] = 0]
    /\ todo' = [todo EXCEPT ![s] = {}]
    /\ batch' = [batch EXCEPT ![s] = {}]
    /\ result' = [result EXCEPT ![s] = NoResult]
    /\ loaded' = [loaded EXCEPT ![s] = "absent"]

\* _assert_workspace_fence and _assert_job_lease: the lease the session
\* claimed is still the one in the job row.
Owns(s) == held[task[s]] /\ fence[task[s]] = token[s]

\* _claim_job_lease
ClaimLease(j) ==
    /\ fence' = [fence EXCEPT ![j] = @ + 1]
    /\ held' = [held EXCEPT ![j] = TRUE]

\* _release_listing_locks
Released(j) == [l \in Listing |-> IF lock[l] = j THEN NoJob ELSE lock[l]]

Channels(L) == {ChannelOf[l] : l \in L}
OfChannel(L, c) == {l \in L : ChannelOf[l] = c}

\* _apply_status_from_items
StatusFromItems(states) ==
    IF states = {"applied"} THEN "applied"
    ELSE IF states \cap UncertainItem # {} THEN "reconciliation_required"
    ELSE IF "applied" \in states THEN "partially_applied"
    ELSE "failed"

\* The status apply_selected computes from the outcomes it counted.
StatusFromResults(outcomes) ==
    IF "reconciliation_required" \in outcomes THEN "reconciliation_required"
    ELSE IF "failed" \notin outcomes THEN "applied"
    ELSE IF "verified_applied" \in outcomes THEN "partially_applied"
    ELSE "failed"

\* An error: the outcome itself is stored as the item's status.
ItemAfterRaw(outcome) == outcome

\* _record_listing_success, _record_listing_failure, _record_listing_reconciliation
ItemAfter(outcome) ==
    CASE outcome = "verified_applied" -> "applied"
      [] outcome = "failed" -> "failed"
      [] outcome = "reconciliation_required" -> "reconciliation_required"

\* An event of outcome o[l] is appended to the attempt of every l in L.
AppendEvents(j, L, o) ==
    /\ events' = [events EXCEPT ![j] =
          [l \in Listing |-> IF l \in L THEN @[l] \cup {o[l]} ELSE @[l]]]
    /\ latest' = [latest EXCEPT ![j] =
          [l \in Listing |-> IF l \in L THEN o[l] ELSE @[l]]]

\* An error: only outcomes that came back count, not DISPATCHED.
AnsweredEver(j) ==
    \E l \in Listing : events[j][l] \cap
        {"verified_applied", "reconciliation_required"} # {}

\* The write of j reached the provider as far as the job's evidence tells.
DispatchedEver(j) ==
    \E l \in Listing : events[j][l] \cap
        {"dispatched", "verified_applied", "reconciliation_required"} # {}

-----------------------------------------------------------------------------
(* apply_selected                                                          *)

\* An error: an operation whose job failed may be requested anew.
RequestRepeated(s, j) ==
    /\ At(s, "idle")
    /\ jobStatus[j] \in {"absent", "failed"}
    /\ jobStatus' = [jobStatus EXCEPT ![j] = "pending"]
    /\ item' = [item EXCEPT ![j] =
          [l \in Listing |-> IF l \in Scope[j] THEN "pending" ELSE "absent"]]
    /\ Goto(s, "locking")
    /\ task' = [task EXCEPT ![s] = j]
    /\ UNCHANGED <<fence, held, lock, events, latest, cache, providerVars,
                   token, todo, batch, result, loaded, raced>>

\* The job row and its items are committed as PENDING.  A request for an
\* operation that has a job replays it instead: see Recover.
Request(s, j) ==
    /\ At(s, "idle")
    /\ jobStatus[j] = "absent"
    /\ jobStatus' = [jobStatus EXCEPT ![j] = "pending"]
    /\ item' = [item EXCEPT ![j] =
          [l \in Listing |-> IF l \in Scope[j] THEN "pending" ELSE "absent"]]
    /\ Goto(s, "locking")
    /\ task' = [task EXCEPT ![s] = j]
    /\ UNCHANGED <<fence, held, lock, events, latest, cache, providerVars,
                   token, todo, batch, result, loaded, raced>>

\* An error: a job that awaits reconciliation counts as over.
TakeableFromUncertain(l) ==
    lock[l] # NoJob => jobStatus[lock[l]] \notin {"pending", "running"}

\* A row left by a job that is not unfinished may be replaced once it expired.
Takeable(l) == lock[l] # NoJob => jobStatus[lock[l]] \notin Unfinished

\* _acquire_listing_locks: all Listings of the scope in one transaction.
AcquireLocks(s) ==
    /\ At(s, "locking")
    /\ \A l \in Scope[task[s]] : Takeable(l)
    /\ lock' = [l \in Listing |-> IF l \in Scope[task[s]] THEN task[s] ELSE lock[l]]
    /\ Goto(s, "claim")
    /\ UNCHANGED <<jobStatus, fence, held, item, events, latest, cache,
                   providerVars, task, token, todo, batch, result, loaded, raced>>

\* Any refusal: another job's row has not expired or belongs to an unfinished
\* job, a Listing changed its identity, a concurrent insert won.
LocksRefused(s) ==
    /\ At(s, "locking")
    /\ jobStatus' = [jobStatus EXCEPT ![task[s]] = "failed"]
    /\ Leave(s)
    /\ UNCHANGED <<fence, held, item, lock, events, latest, cache, providerVars, raced>>

\* Review and Dry Run are re-locked and re-checked, then the job is RUNNING
\* under a fresh lease.  The job's own status is not among the checks.
Claim(s) ==
    /\ At(s, "claim")
    /\ fence[task[s]] < MaxFence[task[s]]
    /\ jobStatus' = [jobStatus EXCEPT ![task[s]] = "running"]
    /\ ClaimLease(task[s])
    /\ token' = [token EXCEPT ![s] = fence[task[s]] + 1]
    /\ Goto(s, "verify")
    /\ UNCHANGED <<item, lock, events, latest, cache, providerVars,
                   task, todo, batch, result, loaded, raced>>

\* Pricing issues, or the manifest drifted during the final live read.
GoStale(s) ==
    /\ At(s, "verify")
    /\ jobStatus' = [jobStatus EXCEPT ![task[s]] = "stale"]
    /\ held' = [held EXCEPT ![task[s]] = FALSE]
    /\ lock' = Released(task[s])
    /\ Leave(s)
    /\ UNCHANGED <<fence, item, events, latest, cache, providerVars, raced>>

\* The live read confirmed the manifest; execute_workspace checks the lease.
Verified(s) ==
    /\ At(s, "verify")
    /\ Owns(s)
    /\ Goto(s, "persist")
    /\ UNCHANGED <<dbVars, providerVars, task, token, todo, batch, result, loaded, raced>>

\* Every Listing's immutable attempt is committed before any dispatch.
PersistAttempts(s) ==
    /\ At(s, "persist")
    /\ AppendEvents(task[s], {l \in Scope[task[s]] : events[task[s]][l] = {}},
                    [l \in Listing |-> "dispatch_intent_recorded"])
    /\ todo' = [todo EXCEPT ![s] = Channels(Scope[task[s]])]
    /\ Goto(s, "limit")
    /\ UNCHANGED <<jobStatus, fence, held, item, lock, cache, providerVars,
                   task, token, batch, result, loaded, raced>>

\* The Channels left after c.
Remaining(s, c) == todo[s] \ {c}

\* The rate limiter admits the writes of one Channel; the lease is checked.
Admit(s, c) ==
    /\ At(s, "limit")
    /\ c \in todo[s]
    /\ Owns(s)
    /\ todo' = [todo EXCEPT ![s] = Remaining(s, c)]
    /\ batch' = [batch EXCEPT ![s] = OfChannel(Scope[task[s]], c)]
    /\ Goto(s, "dispatch")
    /\ UNCHANGED <<dbVars, providerVars, task, token, result, loaded, raced>>

\* The rate limiter raises: the Channel's writes fail without being sent.
LimiterFails(s, c) ==
    /\ At(s, "limit")
    /\ c \in todo[s]
    /\ Owns(s)
    /\ todo' = [todo EXCEPT ![s] = Remaining(s, c)]
    /\ batch' = [batch EXCEPT ![s] = OfChannel(Scope[task[s]], c)]
    /\ result' = [result EXCEPT ![s] =
          [l \in Listing |-> IF ChannelOf[l] = c /\ l \in Scope[task[s]]
                             THEN "failed" ELSE @[l]]]
    /\ Goto(s, "record")
    /\ UNCHANGED <<dbVars, providerVars, task, token, loaded, raced>>

\* DISPATCHED is committed for the writes D that pricing authority admits; the
\* others fail here.
Dispatch(s, D) ==
    /\ At(s, "dispatch")
    /\ D \subseteq batch[s]
    /\ AppendEvents(task[s], D, [l \in Listing |-> "dispatched"])
    /\ result' = [result EXCEPT ![s] =
          [l \in Listing |-> IF l \in batch[s] \ D THEN "failed" ELSE @[l]]]
    /\ Goto(s, IF D = {} THEN "io" ELSE "send")
    /\ UNCHANGED <<jobStatus, fence, held, item, lock, cache, providerVars,
                   task, token, todo, batch, loaded, raced>>

\* The writes of the batch that were not rejected before dispatch.
Sending(s) == {l \in batch[s] : result[s][l] = "none"}

\* connector.apply_updates issues the requests.
Send(s) ==
    /\ At(s, "send")
    /\ wire' = wire \cup {<<task[s], l>> : l \in Sending(s)}
    /\ sent' = [sent EXCEPT ![task[s]] =
          [l \in Listing |-> IF l \in Sending(s) THEN @[l] + 1 ELSE @[l]]]
    /\ Goto(s, "io")
    /\ UNCHANGED <<dbVars, remote, task, token, todo, batch, result, loaded, raced>>

\* What a connector can report of the write of j to l: VERIFIED only when the
\* read-back shows the target, FAILED only when the provider rejected it.
Reports(j, l) ==
    {"reconciliation_required"}
    \cup (IF remote[l] = j THEN {"verified_applied"} ELSE {})
    \cup (IF remote[l] # j /\ <<j, l>> \notin wire THEN {"failed"} ELSE {})

\* apply_updates returns; the lease is checked before outcomes are persisted.
Answer(s, r) ==
    /\ At(s, "io")
    /\ Owns(s)
    /\ \A l \in Sending(s) : r[l] \in Reports(task[s], l)
    /\ \A l \in Listing \ Sending(s) : r[l] = result[s][l]
    /\ result' = [result EXCEPT ![s] = r]
    /\ Goto(s, "record")
    /\ UNCHANGED <<dbVars, providerVars, task, token, todo, batch, loaded, raced>>

\* The outcome events of the Channel are committed.
RecordOutcomes(s) ==
    /\ At(s, "record")
    /\ AppendEvents(task[s], batch[s], result[s])
    /\ Goto(s, IF todo[s] = {} THEN "settle" ELSE "limit")
    /\ batch' = [batch EXCEPT ![s] = {}]
    /\ UNCHANGED <<jobStatus, fence, held, item, lock, cache, providerVars,
                   task, token, todo, result, loaded, raced>>

\* Back in apply_selected: _assert_job_lease.
CheckLease(s) ==
    /\ At(s, "settle")
    /\ Owns(s)
    /\ Goto(s, "finish")
    /\ UNCHANGED <<dbVars, providerVars, task, token, todo, batch, result, loaded, raced>>

\* An error: the cache takes every target, verified or not.
RecordItemsUnverified(j, L, r) ==
    /\ item' = [item EXCEPT ![j] =
          [l \in Listing |-> IF l \in L THEN ItemAfter(r[l]) ELSE @[l]]]
    /\ cache' = [l \in Listing |-> IF l \in L THEN j ELSE cache[l]]

\* Items take the outcomes of the Listings in L, and the cache those verified values
\* that the connector reports: WooCommerce reports the price, but neither stock nor
\* status.
RecordItems(j, L, r) ==
    /\ item' = [item EXCEPT ![j] =
          [l \in Listing |-> IF l \in L THEN ItemAfter(r[l]) ELSE @[l]]]
    /\ cache' = [l \in Listing |->
          IF l \in L \cap Reported /\ r[l] = "verified_applied" THEN j ELSE cache[l]]

\* First commit of the completion: items and verified cache values.
Finish(s) ==
    /\ At(s, "finish")
    /\ RecordItems(task[s], Scope[task[s]], result[s])
    /\ Goto(s, "status")
    /\ UNCHANGED <<jobStatus, fence, held, lock, events, latest, providerVars,
                   task, token, todo, batch, result, loaded, raced>>

\* Second commit: the job's status; locks go unless something is uncertain.
Complete(s) ==
    LET j == task[s]
        status == StatusFromResults({result[s][l] : l \in Scope[j]})
    IN  /\ At(s, "status")
        /\ jobStatus' = [jobStatus EXCEPT ![j] = status]
        /\ held' = [held EXCEPT ![j] = FALSE]
        /\ lock' = IF status = "reconciliation_required" THEN lock ELSE Released(j)
        /\ Leave(s)
        /\ UNCHANGED <<fence, item, events, latest, cache, providerVars, raced>>

\* The except branch of apply_selected, reached from any point after the locks
\* were acquired, by a failed check or an error; an error of the connector call
\* itself is an answer.  Its comparison of fencing tokens reads the same
\* identity-mapped row twice, so it never stops a session that lost its lease.
Abort(s) ==
    /\ pc[s] \in ApplyPoints \ {"locking", "send"}
    /\ jobStatus' = [jobStatus EXCEPT ![task[s]] =
          IF DispatchedEver(task[s]) THEN "reconciliation_required" ELSE "failed"]
    /\ lock' = IF DispatchedEver(task[s]) THEN lock ELSE Released(task[s])
    /\ Leave(s)
    /\ UNCHANGED <<fence, held, item, events, latest, cache, providerVars, raced>>

\* The error is a lease check that failed.
Fenced(s) ==
    /\ pc[s] \in {"verify", "limit", "io", "settle"}
    /\ ~Owns(s)
    /\ Abort(s)

-----------------------------------------------------------------------------
(* reconcile_apply                                                         *)

\* An error: every item of an uncertain job is reconciled.
AllListings(j) == Scope[j]

\* The items reconciliation is about.
UncertainListings(j) == {l \in Scope[j] : item[j][l] \in UncertainItem}

\* Every session at work on j is at a point where it may be held up, or is gone.
Overtakable(j) ==
    \A s \in Session : task[s] = j /\ pc[s] # "r_claim" => pc[s] \in Stall

\* The job and its uncertain items are read: no row is locked, and a heartbeat of
\* the job is not looked at.  batch has the items the session will mark.
StartReconcile(s, j) ==
    /\ At(s, "idle")
    /\ jobStatus[j] = "reconciliation_required"
    /\ UncertainListings(j) # {}
    /\ Goto(s, "r_claim")
    /\ task' = [task EXCEPT ![s] = j]
    /\ todo' = [todo EXCEPT ![s] = Channels(UncertainListings(j))]
    /\ batch' = [batch EXCEPT ![s] =
          {l \in Scope[j] : item[j][l] = "reconciliation_required"}]
    /\ result' = [result EXCEPT ![s] =
          [l \in Listing |-> IF l \in UncertainListings(j)
                             THEN "reconciliation_required" ELSE "none"]]
    /\ UNCHANGED <<dbVars, providerVars, token, loaded, raced>>

\* What the session read still holds, and nobody is about to write to the job.
ReadIsCurrent(s) ==
    /\ jobStatus[task[s]] = "reconciliation_required"
    /\ {l \in Listing : result[s][l] # "none"} \subseteq UncertainListings(task[s])
    /\ Overtakable(task[s])

\* Ownership is claimed and the items are marked in one commit, whatever became
\* of them since they were read.
ClaimReconcile(s) ==
    /\ At(s, "r_claim")
    /\ fence[task[s]] < MaxFence[task[s]]
    /\ ClaimLease(task[s])
    /\ item' = [item EXCEPT ![task[s]] =
          [l \in Listing |-> IF l \in batch[s] THEN "recovering" ELSE @[l]]]
    /\ token' = [token EXCEPT ![s] = fence[task[s]] + 1]
    /\ batch' = [batch EXCEPT ![s] = {}]
    /\ raced' = IF ReadIsCurrent(s) THEN raced ELSE raced \cup {task[s]}
    /\ Goto(s, "r_verify")
    /\ UNCHANGED <<jobStatus, lock, events, latest, cache, providerVars,
                   task, todo, result, loaded>>

\* The evidence of an attempt is incomplete: a conflict.
ReconcileRefused(s) ==
    /\ At(s, "r_claim")
    /\ Leave(s)
    /\ UNCHANGED <<dbVars, providerVars, raced>>

\* verify_updates reads one Channel back; V is what it found at its target.
ReadBack(s, c, V) ==
    LET L == {l \in OfChannel(Scope[task[s]], c) : result[s][l] # "none"}
    IN  /\ At(s, "r_verify")
        /\ c \in todo[s]
        /\ Owns(s)
        /\ V \subseteq {l \in L : remote[l] = task[s]}
        /\ todo' = [todo EXCEPT ![s] = @ \ {c}]
        /\ batch' = [batch EXCEPT ![s] = L]
        /\ result' = [result EXCEPT ![s] =
              [l \in Listing |-> IF l \in V THEN "verified_applied" ELSE @[l]]]
        /\ Goto(s, "r_record")
        /\ UNCHANGED <<dbVars, providerVars, task, token, loaded, raced>>

\* An error: the loop over the Channels is entered again when none is left.
AfterReadBackLoop(s) == "r_verify"

AfterReadBack(s) == IF todo[s] = {} THEN "r_settle" ELSE "r_verify"

RecordReadBack(s) ==
    /\ At(s, "r_record")
    /\ AppendEvents(task[s], batch[s], result[s])
    /\ Goto(s, AfterReadBack(s))
    /\ batch' = [batch EXCEPT ![s] = {}]
    /\ UNCHANGED <<jobStatus, fence, held, item, lock, cache, providerVars,
                   task, token, todo, result, loaded, raced>>

CheckReconcileLease(s) ==
    /\ At(s, "r_settle")
    /\ Owns(s)
    /\ loaded' = [loaded EXCEPT ![s] = jobStatus[task[s]]]
    /\ Goto(s, "r_finish")
    /\ UNCHANGED <<dbVars, providerVars, task, token, todo, batch, result, raced>>

\* Items, job status and, when everything is applied, the locks: one commit.  The
\* status is written when it is another than the one loaded.
FinishReconcile(s) ==
    LET j == task[s]
        L == {l \in Scope[j] : result[s][l] # "none"}
        status == StatusFromItems({item'[j][l] : l \in Scope[j]})
    IN  /\ At(s, "r_finish")
        /\ RecordItems(j, L, result[s])
        /\ jobStatus' = [jobStatus EXCEPT ![j] = IF status = loaded[s] THEN @ ELSE status]
        /\ lock' = IF status = "applied" THEN Released(j) ELSE lock
        /\ Leave(s)
        /\ UNCHANGED <<fence, held, events, latest, providerVars, raced>>

\* A reconciliation that lost its lease raises; nothing is written.
ReconcileFenced(s) ==
    /\ pc[s] \in {"r_verify", "r_settle"}
    /\ ~Owns(s)
    /\ Leave(s)
    /\ UNCHANGED <<dbVars, providerVars, raced>>

-----------------------------------------------------------------------------
(* _recover_job_if_stale, from recover_stale_applies or a replayed request *)

\* Only a job without a heartbeat for five minutes is recovered.  That much time
\* passes only while every session at work on it is held up.
RecoverWithoutAttempt(j) ==
    /\ jobStatus[j] \in {"pending", "running"}
    /\ Overtakable(j)
    /\ \A l \in Scope[j] : events[j][l] = {}
    /\ fence[j] < MaxFence[j]
    /\ ClaimLease(j)
    /\ jobStatus' = [jobStatus EXCEPT ![j] = "failed"]
    /\ lock' = Released(j)
    /\ UNCHANGED <<item, events, latest, cache, providerVars, sessionVars, raced>>

\* An error: only an explicit RECONCILIATION_REQUIRED counts as uncertain.
RecoveredItemDispatchedFails(j, l) ==
    IF item[j][l] = "applied" \/ latest[j][l] = "verified_applied" THEN "applied"
    ELSE IF latest[j][l] # "reconciliation_required" \/ item[j][l] = "failed"
    THEN "failed" ELSE "reconciliation_required"

\* Each attempt is classified by its latest event.
RecoveredItem(j, l) ==
    IF item[j][l] = "applied" \/ latest[j][l] = "verified_applied" THEN "applied"
    ELSE IF latest[j][l] \notin Uncertain THEN "failed"
    ELSE IF item[j][l] = "failed" THEN "failed"
    ELSE "reconciliation_required"

\* An error: the job's items are completed and the local cache is forgotten.
RecoveredCacheUnpatched(j) == cache

\* Verified items whose completion was lost get their cache value: every value
\* that was to be written, reported or not.
RecoveredCache(j) ==
    [l \in Listing |->
        IF /\ l \in Scope[j]
           /\ latest[j][l] = "verified_applied"
           /\ item[j][l] # "applied"
        THEN j ELSE cache[l]]

RecoverFromAttempts(j) ==
    LET status == StatusFromItems({item'[j][l] : l \in Scope[j]})
    IN  /\ jobStatus[j] \in {"pending", "running"}
        /\ Overtakable(j)
        /\ \E l \in Scope[j] : events[j][l] # {}
        /\ fence[j] < MaxFence[j]
        /\ fence' = [fence EXCEPT ![j] = @ + 1]
        /\ held' = [held EXCEPT ![j] = FALSE]
        /\ item' = [item EXCEPT ![j] =
              [l \in Listing |-> IF l \in Scope[j] THEN RecoveredItem(j, l) ELSE @[l]]]
        /\ cache' = RecoveredCache(j)
        /\ jobStatus' = [jobStatus EXCEPT ![j] = status]
        /\ lock' = IF status = "reconciliation_required" THEN lock ELSE Released(j)
        /\ UNCHANGED <<events, latest, providerVars, sessionVars, raced>>

Recover(j) == RecoverWithoutAttempt(j) \/ RecoverFromAttempts(j)

-----------------------------------------------------------------------------
(* The provider, the process and the whole                                 *)

\* A request takes effect at the provider.
Land(j, l) ==
    /\ <<j, l>> \in wire
    /\ wire' = wire \ {<<j, l>>}
    /\ remote' = [remote EXCEPT ![l] = j]
    /\ UNCHANGED <<dbVars, sent, sessionVars, raced>>

\* A request is rejected, or lost on the way, or was never issued because the
\* session died or raised in the middle of its batch.
Drop(j, l) ==
    /\ <<j, l>> \in wire
    /\ wire' = wire \ {<<j, l>>}
    /\ UNCHANGED <<dbVars, remote, sent, sessionVars, raced>>

\* The process dies, or the request is cancelled, or a reconciliation raises:
\* the open transaction is rolled back and nothing else is written.
Crash(s) ==
    /\ pc[s] # "idle"
    /\ Leave(s)
    /\ UNCHANGED <<dbVars, providerVars, raced>>

ApplyStep(s) ==
    \/ AcquireLocks(s) \/ LocksRefused(s) \/ Claim(s) \/ GoStale(s)
    \/ Verified(s) \/ PersistAttempts(s)
    \/ \E c \in Channel : Admit(s, c) \/ LimiterFails(s, c)
    \/ \E D \in SUBSET Listing : Dispatch(s, D)
    \/ Send(s)
    \/ \E r \in [Listing -> Result \cup {"none"}] : Answer(s, r)
    \/ RecordOutcomes(s) \/ CheckLease(s) \/ Finish(s) \/ Complete(s)
    \/ Fenced(s)

ReconcileStep(s) ==
    \/ ClaimReconcile(s) \/ ReconcileRefused(s)
    \/ \E c \in Channel, V \in SUBSET Listing : ReadBack(s, c, V)
    \/ RecordReadBack(s) \/ CheckReconcileLease(s) \/ FinishReconcile(s)
    \/ ReconcileFenced(s)

Next ==
    \/ \E s \in Session :
          \/ \E j \in Job : Request(s, j) \/ StartReconcile(s, j)
          \/ ApplyStep(s) \/ ReconcileStep(s) \/ Abort(s) \/ Crash(s)
    \/ \E j \in Job : Recover(j) \/ \E l \in Listing : Land(j, l) \/ Drop(j, l)

Spec == Init /\ [][Next]_vars

\* A session that is not killed and meets no error goes on: its transactions
\* end, the limiter and the providers' clients time out.  Nothing makes the
\* operator call recovery or reconciliation, and nothing makes a request reach
\* the provider.
FairSpec ==
    /\ Spec
    /\ \A s \in Session : WF_vars(ApplyStep(s) \/ ReconcileStep(s))

-----------------------------------------------------------------------------
(* Properties                                                              *)

TypeOK ==
    /\ jobStatus \in [Job -> JobStatus]
    /\ fence \in [Job -> Nat]
    /\ \A j \in Job : fence[j] <= MaxFence[j]
    /\ held \in [Job -> BOOLEAN]
    /\ item \in [Job -> [Listing -> ItemStatus]]
    /\ lock \in [Listing -> Job \cup {NoJob}]
    /\ events \in [Job -> [Listing -> SUBSET Outcome]]
    /\ latest \in [Job -> [Listing -> Outcome \cup {"none"}]]
    /\ cache \in [Listing -> Job \cup {NoJob}]
    /\ remote \in [Listing -> Job \cup {NoJob}]
    /\ wire \in SUBSET (Job \X Listing)
    /\ sent \in [Job -> [Listing -> Nat]]
    /\ pc \in [Session -> Points \cup {"idle"}]
    /\ task \in [Session -> Job \cup {NoJob}]
    /\ token \in [Session -> Nat]
    /\ todo \in [Session -> SUBSET Channel]
    /\ batch \in [Session -> SUBSET Listing]
    /\ result \in [Session -> [Listing -> Result \cup {"none"}]]
    /\ loaded \in [Session -> JobStatus]
    /\ raced \in SUBSET Job

\* No crash, recovery, replay or reconciliation makes the write of an operation
\* to a Listing go out a second time ("never blindly redispatched").
SentAtMostOnce == \A j \in Job, l \in Listing : sent[j][l] <= 1

\* A write that can still take effect at the provider is covered by the Listing
\* lock of its job, so no other Apply and no cache refresh can pass it.
LockCoversWrite == \A w \in wire : lock[w[2]] = w[1]

\* An attempt whose outcome is not known keeps its Listing locked, unless two
\* reconciliations of its job got in each other's way.
UncertainAttemptHoldsLock ==
    \A j \in Job \ raced, l \in Listing : latest[j][l] \in Uncertain => lock[l] = j

\* A job reported as finished has no attempt whose outcome is unknown, under the
\* same condition.
FinishedIsSettled ==
    \A j \in Job \ raced, l \in Listing :
        jobStatus[j] \in Finished => latest[j][l] \notin Uncertain

\* Listings whose local value may be behind: not all that is written to them is
\* reported back, or reconciliations of their job got in each other's way.
Adrift == (Listing \ Reported) \cup UNION {Scope[j] : j \in raced}

\* Once any other Listing is unlocked its ChannelCache row shows what the provider
\* has: verified writes are never lost locally and failed ones never shown.
UnlockedCacheIsCurrent ==
    \A l \in Listing \ Adrift : lock[l] = NoJob => cache[l] = remote[l]

\* The state as the abstract specification of external writes sees it.
Phase == [j \in Job |-> [l \in Listing |->
            IF <<j, l>> \in wire THEN "flying"
            ELSE IF sent[j][l] = 0 THEN "unsent" ELSE "done"]]

Ownership == INSTANCE WriteOwnership
                WITH owner <- lock, phase <- Phase, shown <- cache, adrift <- Adrift

\* Apply, with its recovery and reconciliation, implements WriteOwnership.
ImplementsOwnership == Ownership!Spec

\* Whatever overtakes what, the recorded outcome of an item never changes again,
\* as long as no two reconciliations of its job get in each other's way.
SettledItemIsFinal ==
    [][\A j \in Job \ raced', l \in Listing :
          item[j][l] \in {"applied", "failed"} => item'[j][l] = item[j][l]]_vars

\* "Monotonic ownership fencing prevents a stale worker from finalizing a
\* recovered operation": the status of a finished job is final.
FinishedStatusIsFinal ==
    [][\A j \in Job :
          jobStatus[j] \in Finished => jobStatus'[j] = jobStatus[j]]_vars

\* The lock of a Listing remains until reconciliation verified the target, and
\* no longer: a finished job holds no lock.
FinishedJobHoldsNoLock ==
    \A l \in Listing : lock[l] # NoJob => jobStatus[lock[l]] \in Unfinished

\* A job that reports RECONCILIATION_REQUIRED can be reconciled: it has an
\* uncertain item, or a session is still at work on it.
ReconciliationIsPossible ==
    \A j \in Job : jobStatus[j] = "reconciliation_required" =>
        \/ UncertainListings(j) # {}
        \/ \E s \in Session : task[s] = j

\* Every request that is served comes to an end.
RequestsEnd == \A s \in Session : []<>(pc[s] = "idle")

=============================================================================
