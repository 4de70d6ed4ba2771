-------------------------- MODULE WorkspaceReview --------------------------
(***************************************************************************)
(* From a Review to the dispatch of an Apply: the selection of its items,  *)
(* Dry Runs with their manifests, and the checks an Apply makes before and *)
(* after it claims its job (unified_workspace/services.py).  Requests run  *)
(* in database sessions that interleave at every statement another         *)
(* session's row locks can stop; Dry Runs and Applies lock the Review row  *)
(* first, a selection that is being saved only when it commits.            *)
(***************************************************************************)
EXTENDS Naturals, FiniteSets, Sequences

CONSTANTS
    Session,        \* database sessions, one request each at a time
    NoSession,
    Item,           \* items of the Review that can be selected
    Selectable,     \* the sets of items users select
    MaxSelections,  \* bound on selection_version
    MaxDryRuns      \* bound on Dry Runs

ASSUME WorkspaceReviewAssumption ==
    /\ NoSession \notin Session
    /\ Selectable \subseteq (SUBSET Item) \ {{}}
    /\ MaxSelections \in Nat /\ MaxDryRuns \in Nat

VARIABLES
    review,         \* uw_reviews.status: "none", "ready" or "stale"
    fresh,          \* _assert_review_fresh finds what the Review was made of unchanged
    sourceCurrent,  \* _assert_source_evidence_current finds the Source of the Preview
    rows,           \* ReviewSelection rows, one for an item (uq_uw_review_selection_item)
    selection,      \* selection_version and the set behind selection_checksum
    dryRuns,        \* DryRun rows with their manifest: [version, items, writes, status]
    jobs,           \* Dry Runs whose manifest has an ApplyJob (logical_operation_key)
    dispatched,     \* Dry Runs whose manifest went to the Write Pipeline
    reviewLock,     \* session that holds the Review row
    request         \* what each session is doing

evidenceVars == <<review, fresh, sourceCurrent>>
selectionVars == <<rows, selection>>
applyVars == <<jobs, dispatched>>
reviewVars == <<evidenceVars, selectionVars, dryRuns, applyVars, reviewLock, request>>

Idle == [at |-> "idle", items |-> {}, version |-> 0, dropped |-> {}, rowLocks |-> {}, dryRun |-> 0]

Steps == {"idle", "delete", "save", "reading",
          "claim", "lock", "authorize", "reread", "relock", "hold", "verify"}

DryRunRecord == [version : 0..MaxSelections, items : SUBSET Item, writes : SUBSET Item,
                 status : {"passed", "blocked", "invalidated"}]

WorkspaceTypeOK ==
    /\ review \in {"none", "ready", "stale"} /\ fresh \in BOOLEAN /\ sourceCurrent \in BOOLEAN
    /\ rows \subseteq Item
    /\ selection \in [version : 0..MaxSelections, items : SUBSET Item]
    /\ dryRuns \in Seq(DryRunRecord) /\ Len(dryRuns) <= MaxDryRuns
    /\ jobs \subseteq DOMAIN dryRuns /\ dispatched \subseteq jobs
    /\ reviewLock \in Session \cup {NoSession}
    /\ \A s \in Session :
          /\ request[s].at \in Steps
          /\ request[s].items \subseteq Item /\ request[s].dropped \subseteq Item
          /\ request[s].rowLocks \subseteq DOMAIN dryRuns

ReviewInit ==
    /\ review = "none" /\ fresh = TRUE /\ sourceCurrent = TRUE
    /\ rows = {} /\ selection = [version |-> 0, items |-> {}]
    /\ dryRuns = <<>> /\ jobs = {} /\ dispatched = {}
    /\ reviewLock = NoSession
    /\ request = [s \in Session |-> Idle]

At(s, step) == request[s].at = step
GoOn(s, step) == request' = [request EXCEPT ![s].at = step]
Finish(s) == request' = [request EXCEPT ![s] = Idle]
Unlock(s) == reviewLock' = IF reviewLock = s THEN NoSession ELSE reviewLock
Current == {n \in DOMAIN dryRuns : dryRuns[n].status = "passed"}

\* An error: the status of a Review is written to Dry Runs.
InvalidateAsStale(runs) == [n \in DOMAIN dryRuns |->
                        IF n \in runs THEN [dryRuns[n] EXCEPT !.status = "stale"] ELSE dryRuns[n]]

Invalidate(runs) == [n \in DOMAIN dryRuns |->
                        IF n \in runs THEN [dryRuns[n] EXCEPT !.status = "invalidated"] ELSE dryRuns[n]]

\* A session that writes or locks the Review row waits while another holds it.
ReviewFree(s) == reviewLock = NoSession

\* No other session has locked one of these DryRun rows.
RowsFree(s, runs) == \A t \in Session \ {s} : request[t].rowLocks \cap runs = {}

------------------------------------------------------------------------------
(* generate_review                                                         *)

\* A Review of a Draft Revision, without errors.
GenerateReview ==
    /\ review = "none"
    /\ review' = "ready"
    /\ fresh' = TRUE
    /\ sourceCurrent' = TRUE
    /\ UNCHANGED <<selectionVars, dryRuns, applyVars, reviewLock, request>>

\* Cache, mapping, capability, currency or pricing of a Listing moves on, or is
\* again what it was.
ChangeEvidence ==
    /\ review # "none"
    /\ fresh' = ~fresh
    /\ UNCHANGED <<review, sourceCurrent, selectionVars, dryRuns, applyVars, reviewLock, request>>

\* A Sheet revision is published, or the Source of a stale Review gets another
\* Mapping: nobody looks at the Review.
MoveSource ==
    /\ review # "none" /\ sourceCurrent
    /\ sourceCurrent' = FALSE
    /\ UNCHANGED <<review, fresh, selectionVars, dryRuns, applyVars, reviewLock, request>>

\* _invalidate_source_reviews: a Mapping revision is saved for the Source.  The
\* UPDATE of a Review that is not stale waits for a session that holds it.
InvalidateSourceReviews ==
    /\ review = "ready"
    /\ reviewLock = NoSession
    /\ review' = "stale"
    /\ sourceCurrent' = FALSE
    /\ selection' = [selection EXCEPT !.items = {}]
    /\ UNCHANGED <<fresh, rows, dryRuns, applyVars, reviewLock, request>>

------------------------------------------------------------------------------
(* select_review_items                                                     *)

\* The Review is read without a lock; the DELETE of its rows sees those committed
\* when it starts ...
ReadReview(s) ==
    /\ At(s, "idle")
    /\ review = "ready"
    /\ selection.version < MaxSelections
    /\ \E items \in Selectable :
          request' = [request EXCEPT ![s] = [Idle EXCEPT !.at = "delete", !.items = items,
                                                         !.version = selection.version, !.dropped = rows]]
    /\ UNCHANGED <<evidenceVars, selectionVars, dryRuns, applyVars, reviewLock>>

\* ... waits for a session that is deleting one of them, and locks what is left;
\* the UPDATE of the DryRun rows waits for their locks in turn.
InvalidateDryRuns(s) ==
    /\ At(s, "delete")
    /\ \A t \in Session \ {s} : At(t, "save") => request[t].dropped \cap request[s].dropped = {}
    /\ RowsFree(s, Current)
    /\ request' = [request EXCEPT ![s].at = "save", ![s].rowLocks = Current]
    /\ UNCHANGED <<evidenceVars, selectionVars, dryRuns, applyVars, reviewLock>>

\* A row another session has found is not the one a commit puts in its place.
Replaced(s, deleted) ==
    [t \in Session |-> IF t = s THEN Idle ELSE [request[t] EXCEPT !.dropped = @ \ deleted]]

\* The commit flushes the new rows and the Review row, whose lock it has to wait
\* for.  An item of a row that another session inserted meanwhile violates
\* uq_uw_review_selection_item and rolls everything back.
SaveSelection(s) ==
    /\ At(s, "save")
    /\ ReviewFree(s)
    /\ LET r == request[s] IN
       IF (rows \ r.dropped) \cap r.items = {}
       THEN /\ rows' = (rows \ r.dropped) \cup r.items
            /\ selection' = [version |-> r.version + 1, items |-> r.items]
            /\ dryRuns' = Invalidate(r.rowLocks)
            /\ request' = Replaced(s, r.dropped)
       ELSE UNCHANGED <<rows, selection, dryRuns>> /\ Finish(s)
    /\ UNCHANGED <<evidenceVars, applyVars, reviewLock>>

------------------------------------------------------------------------------
(* run_dry_run                                                             *)

MarkStale == review' = "stale" /\ UNCHANGED <<fresh, sourceCurrent>>

\* The Review row is locked and stays so across the provider's answers.
StartDryRun(s) ==
    /\ At(s, "idle")
    /\ review # "none" /\ sourceCurrent
    /\ Len(dryRuns) < MaxDryRuns
    /\ ReviewFree(s)
    /\ rows # {} /\ rows = selection.items
    /\ IF fresh
       THEN /\ reviewLock' = s
            /\ request' = [request EXCEPT ![s] = [Idle EXCEPT !.at = "reading", !.items = rows]]
            /\ UNCHANGED evidenceVars
       ELSE /\ review = "ready" /\ MarkStale
            /\ UNCHANGED <<reviewLock, request>>
    /\ UNCHANGED <<selectionVars, dryRuns, applyVars>>

\* An error: earlier results stay current.
NoneInvalidated == {}

Superseded == Current

\* Each item is a write, or already current at the provider (no_op), or one of
\* them blocks.  Earlier results are invalidated, the manifest lists the writes.
FinishDryRun(s) ==
    /\ At(s, "reading")
    /\ RowsFree(s, Superseded)
    /\ \E writes \in SUBSET request[s].items, status \in {"passed", "blocked"} :
          dryRuns' = Append(Invalidate(Superseded),
                            [version |-> selection.version, items |-> request[s].items,
                             writes |-> IF status = "passed" THEN writes ELSE {}, status |-> status])
    /\ Unlock(s)
    /\ Finish(s)
    /\ UNCHANGED <<evidenceVars, selectionVars, applyVars>>

------------------------------------------------------------------------------
(* apply_selected                                                          *)

\* What was confirmed is what the Review and the Dry Run say now.
Confirmed(n) ==
    /\ rows = dryRuns[n].items
    /\ selection = [version |-> dryRuns[n].version, items |-> dryRuns[n].items]

\* logical_operation_key: an existing job is answered instead.
NoJobYet(n) == n \in DOMAIN dryRuns \ jobs

\* The checks without a lock, and the commit of the job.
RequestApply(s, n) ==
    /\ At(s, "idle")
    /\ review # "none"
    /\ NoJobYet(n)
    /\ Confirmed(n)
    /\ dryRuns[n].status = "passed" /\ dryRuns[n].writes # {}
    /\ IF fresh
       THEN /\ jobs' = jobs \cup {n}
            /\ request' = [request EXCEPT ![s] = [Idle EXCEPT !.at = "claim", !.dryRun = n]]
            /\ UNCHANGED evidenceVars
       ELSE /\ ReviewFree(s) /\ review = "ready" /\ MarkStale
            /\ UNCHANGED <<jobs, request>>
    /\ UNCHANGED <<selectionVars, dryRuns, dispatched, reviewLock>>

\* The Listing locks are committed, so that reading review.id loads the Review row
\* again: an unlocked read, and the one whose values are compared, since the locked
\* read that follows does not replace what the session has loaded.
ReadForClaim(s) ==
    /\ At(s, "claim")
    /\ IF review = "ready"
       THEN request' = [request EXCEPT ![s].at = "lock", ![s].version = selection.version]
       ELSE Finish(s)
    /\ UNCHANGED <<evidenceVars, selectionVars, dryRuns, applyVars, reviewLock>>

\* The rows as they are now, with the version read before, make the document that
\* was confirmed.  review_items was narrowed to the manifest's operations, so that
\* it holds the writes only.
SelectionUnchanged(s) ==
    LET n == request[s].dryRun
    IN  /\ rows = dryRuns[n].items
        /\ request[s].version = dryRuns[n].version
        /\ dryRuns[n].writes = dryRuns[n].items

\* The Review row is locked; freshness, selection and Draft are checked again.
AuthorizeApply(s) ==
    /\ At(s, "lock")
    /\ ReviewFree(s)
    /\ fresh /\ SelectionUnchanged(s)
    /\ reviewLock' = s
    /\ GoOn(s, "authorize")
    /\ UNCHANGED <<evidenceVars, selectionVars, dryRuns, applyVars>>

\* "The confirmed selection changed after lock acquisition."
RefuseSelection(s) ==
    /\ At(s, "lock")
    /\ ReviewFree(s)
    /\ fresh /\ ~SelectionUnchanged(s)
    /\ Finish(s)
    /\ UNCHANGED <<evidenceVars, selectionVars, dryRuns, applyVars, reviewLock>>

\* The Review is not fresh, or the Draft has another current revision by now, which
\* can be any time.
RefuseStale(s) ==
    /\ At(s, "lock")
    /\ ReviewFree(s)
    /\ \/ ~fresh /\ MarkStale
       \/ UNCHANGED evidenceVars
    /\ Finish(s)
    /\ UNCHANGED <<selectionVars, dryRuns, applyVars, reviewLock>>

\* The DryRun row is locked and checked; the claim of the job commits, which
\* gives both rows away.
ClaimApply(s) ==
    /\ At(s, "authorize")
    /\ RowsFree(s, {request[s].dryRun})
    /\ IF dryRuns[request[s].dryRun].status = "passed"
       THEN GoOn(s, "reread")
       ELSE Finish(s)
    /\ Unlock(s)
    /\ UNCHANGED <<evidenceVars, selectionVars, dryRuns, applyVars>>

\* Again the Review row is read before the session waits for its lock ...
RereadReview(s) ==
    /\ At(s, "reread")
    /\ request' = [request EXCEPT ![s].at = "relock", ![s].version = selection.version]
    /\ UNCHANGED <<evidenceVars, selectionVars, dryRuns, applyVars, reviewLock>>

RelockReview(s) ==
    /\ At(s, "relock")
    /\ ReviewFree(s)
    /\ reviewLock' = s
    /\ GoOn(s, "hold")
    /\ UNCHANGED <<evidenceVars, selectionVars, dryRuns, applyVars>>

\* An error: what the claim was decided by is taken for current.
StillClaimed(s) == request[s].dryRun \in jobs

\* ... so that its version is the old one, while DryRun, selection rows and Source
\* are as they are now.  The status of the Review is not looked at.
StillConfirmed(s) ==
    /\ dryRuns[request[s].dryRun].status = "passed"
    /\ SelectionUnchanged(s)
    /\ sourceCurrent

\* The DryRun row is locked, too.  Of what makes a Review fresh only the pricing
\* bindings are checked again.
HoldDryRun(s) ==
    /\ At(s, "hold")
    /\ RowsFree(s, {request[s].dryRun})
    /\ \/ /\ StillConfirmed(s)
          /\ request' = [request EXCEPT ![s].at = "verify", ![s].rowLocks = {request[s].dryRun}]
          /\ UNCHANGED <<evidenceVars, reviewLock>>
       \/ /\ StillConfirmed(s) /\ ~fresh /\ MarkStale      \* a binding has changed
          /\ Finish(s)
          /\ Unlock(s)
       \/ /\ ~StillConfirmed(s)
          /\ Finish(s)
          /\ Unlock(s)
          /\ UNCHANGED evidenceVars
    /\ UNCHANGED <<selectionVars, dryRuns, applyVars>>

\* An error: a refusal after the provider was asked keeps the Review row.
KeepLock(s) == UNCHANGED reviewLock

GiveLock(s) == Unlock(s)

\* The provider is read once more, the manifest made again from the Listings and
\* their cache; then the intents go to the Write Pipeline.  A change that is not in
\* the manifest, as one of currency or policy, is not noticed.
DispatchApply(s) ==
    /\ At(s, "verify")
    /\ \/ /\ dispatched' = dispatched \cup {request[s].dryRun}
          /\ Unlock(s)
          /\ UNCHANGED evidenceVars
       \/ /\ ~fresh /\ MarkStale          \* the manifest is another one
          /\ GiveLock(s)
          /\ UNCHANGED dispatched
       \/ /\ GiveLock(s)                  \* the provider shows something else
          /\ UNCHANGED <<evidenceVars, dispatched>>
    /\ Finish(s)
    /\ UNCHANGED <<selectionVars, dryRuns, jobs>>

------------------------------------------------------------------------------
(* The database and the processes                                          *)

Rollback(s) ==
    /\ Finish(s)
    /\ Unlock(s)
    /\ UNCHANGED <<evidenceVars, selectionVars, dryRuns, applyVars>>

\* s holds the Review row and waits for DryRun rows t has updated, t for the Review.
Deadlocked(s, t) ==
    /\ reviewLock = s /\ request[t].at = "save"
    /\ \/ At(s, "reading") /\ ~RowsFree(s, Superseded)
       \/ request[s].at \in {"authorize", "hold"} /\ ~RowsFree(s, {request[s].dryRun})

\* PostgreSQL ends one of two sessions that wait for each other.
AbortDeadlock(s) ==
    /\ \E t \in Session \ {s} : Deadlocked(s, t) \/ Deadlocked(t, s)
    /\ Rollback(s)

\* The process dies, or the provider's answer is an error.
Disconnect(s) == ~At(s, "idle") /\ Rollback(s)

Start(s) == ReadReview(s) \/ StartDryRun(s) \/ \E n \in DOMAIN dryRuns : RequestApply(s, n)

Advance(s) ==
    \/ InvalidateDryRuns(s) \/ SaveSelection(s)
    \/ FinishDryRun(s)
    \/ ReadForClaim(s) \/ AuthorizeApply(s) \/ RefuseSelection(s) \/ RefuseStale(s)
    \/ ClaimApply(s) \/ RereadReview(s) \/ RelockReview(s) \/ HoldDryRun(s) \/ DispatchApply(s)
    \/ AbortDeadlock(s)

ReviewNext ==
    \/ GenerateReview \/ ChangeEvidence \/ MoveSource \/ InvalidateSourceReviews
    \/ \E s \in Session : Start(s) \/ Advance(s) \/ Disconnect(s)

\* A request goes on; a session that waits for a row gets it in its turn.
ReviewFairness == \A s \in Session : SF_reviewVars(Advance(s))

ReviewSpec == ReviewInit /\ [][ReviewNext]_reviewVars /\ ReviewFairness

------------------------------------------------------------------------------

\* At most one Dry Run authorizes (the comment in run_dry_run: "Exactly one passed
\* result may authorize a Review selection").
OneCurrentDryRun == Cardinality(Current) <= 1

\* What reaches the Write Pipeline is, in that very step, what the selection rows
\* say, every item verified by a Dry Run that is current: whatever selections were
\* saved or Dry Runs finished since the confirmation, and although the version that
\* is compared was read before the lock.
DispatchedAsConfirmed ==
    [][\A n \in dispatched' \ dispatched :
          rows = dryRuns[n].items /\ dryRuns[n].status = "passed"]_reviewVars

\* "Selection replacement or a newer Dry Run must either commit first (making this
\* Apply stale) or wait until this exact approved manifest has finished its locked
\* decision": a manifest is dispatched under the selection version it was made for.
DispatchedUnderItsVersion ==
    [][\A n \in dispatched' \ dispatched : Confirmed(n)]_reviewVars

\* "... closes the commit-to-dispatch race without treating stale in-memory evidence
\* as authority": what is dispatched belongs to a Review that is ready and fresh.
DispatchedWhileFresh ==
    [][dispatched' # dispatched => review = "ready" /\ fresh]_reviewVars

\* Every request ends, although Dry Runs hold the Review row while they wait for
\* the provider and selections lock rows in the other order.
RequestEnds == \A s \in Session : []<>At(s, "idle")

\* An Apply is told that the confirmed selection changed only when it did (the
\* message of the 409 after lock acquisition).
RefusedIfChanged ==
    [][\A s \in Session : RefuseSelection(s) => ~Confirmed(request[s].dryRun)]_reviewVars
=============================================================================
