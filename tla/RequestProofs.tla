--------------------------- MODULE RequestProofs ---------------------------
(***************************************************************************)
(* Proofs about the requests of users and of providers: WorkspaceReview    *)
(* and OrderReceipts, for any number of sessions, Dry Runs, payloads and   *)
(* runners.  At most one Dry Run is current, what an Apply dispatches are  *)
(* the items that are selected, and a webhook's item request is proposed   *)
(* once.                                                                   *)
(***************************************************************************)
EXTENDS MCRequests, SequenceTheorems, FiniteSetTheorems,
        WellFoundedInduction, TLAPS

(* WorkspaceReview *)

\* Steps in which a session holds the Review row, and those of an Apply with a job.
Holding == {"reading", "authorize", "hold", "verify"}
Claiming == {"claim", "lock", "authorize", "reread", "relock", "hold", "verify"}

RequestRecord == [at : Steps, items : SUBSET Item, version : 0..MaxSelections, dropped : SUBSET Item,
                  rowLocks : SUBSET (1..MaxDryRuns), dryRun : 0..MaxDryRuns]

RowsTyped ==
    /\ review \in {"none", "ready", "stale"} /\ fresh \in BOOLEAN /\ sourceCurrent \in BOOLEAN
    /\ rows \subseteq Item
    /\ selection \in [version : 0..MaxSelections, items : SUBSET Item]
    /\ dryRuns \in Seq(DryRunRecord) /\ Len(dryRuns) <= MaxDryRuns
    /\ jobs \subseteq DOMAIN dryRuns /\ dispatched \subseteq jobs
    /\ reviewLock \in Session \cup {NoSession}

RequestsOK ==
    /\ request \in [Session -> RequestRecord]
    /\ \A s \in Session :
          /\ request[s].rowLocks \subseteq DOMAIN dryRuns
          /\ request[s].at \in Holding => reviewLock = s
          /\ request[s].at \in {"delete", "save"} => request[s].version < MaxSelections
          /\ request[s].at = "reading" => Len(dryRuns) < MaxDryRuns
          /\ request[s].at \in Claiming => request[s].dryRun \in jobs /\ review # "none"

\* What an Apply has checked when it asks the provider once more is still so.
Verified(run) == run.status = "passed" /\ rows = run.items

VerifyOK == \A s \in Session : request[s].at = "verify" => Verified(dryRuns[request[s].dryRun])

OneCurrent == \A m, n \in Current : m = n

ReviewInv == RowsTyped /\ RequestsOK /\ VerifyOK /\ OneCurrent

\* The inductive invariant of the Review implies its type invariant.
LEMMA ReviewTyping ==
    ASSUME ReviewInv
    PROVE  WorkspaceTypeOK
BY DEF ReviewInv, RowsTyped, RequestsOK, WorkspaceTypeOK, RequestRecord

\* What a session without a request is doing.
LEMMA IdleTyping ==
    Idle \in RequestRecord /\ Idle.at = "idle" /\ Idle.rowLocks = {}
BY WorkspaceReviewAssumption DEF Idle, RequestRecord, Steps

\* One session goes on.  The rows its step may change are no other's: whoever has
\* verified a Dry Run, or reads the provider for one, holds the Review row.
LEMMA SessionStep ==
    ASSUME ReviewInv, NEW s \in Session, NEW x \in RequestRecord, request' = [request EXCEPT ![s] = x],
           RowsTyped', OneCurrent',
           \/ reviewLock' = reviewLock
           \/ reviewLock = NoSession /\ reviewLock' = s
           \/ reviewLock = s /\ reviewLock' = NoSession,
           \/ UNCHANGED <<rows, dryRuns>>
           \/ reviewLock \in {NoSession, s},
           jobs \subseteq jobs', DOMAIN dryRuns \subseteq DOMAIN dryRuns',
           review # "none" => review' # "none",
           x.rowLocks \subseteq DOMAIN dryRuns',
           x.at \in Holding => reviewLock' = s,
           x.at \in {"delete", "save"} => x.version < MaxSelections,
           x.at = "reading" => Len(dryRuns') < MaxDryRuns,
           x.at \in Claiming => x.dryRun \in jobs' /\ review' # "none",
           x.at = "verify" => Verified(dryRuns[x.dryRun]) /\ UNCHANGED <<rows, dryRuns>>
    PROVE  ReviewInv'
<1> USE WorkspaceReviewAssumption
<1>1. request'[s] = x /\ \A t \in Session : t # s => request'[t] = request[t]
  BY DEF ReviewInv, RequestsOK
<1>2. request' \in [Session -> RequestRecord] BY DEF ReviewInv, RequestsOK
<1>3. RequestsOK'
  <2> SUFFICES ASSUME NEW t \in Session
               PROVE  /\ request'[t].rowLocks \subseteq DOMAIN dryRuns'
                      /\ request'[t].at \in Holding => reviewLock' = t
                      /\ request'[t].at \in {"delete", "save"} => request'[t].version < MaxSelections
                      /\ request'[t].at = "reading" => Len(dryRuns') < MaxDryRuns
                      /\ request'[t].at \in Claiming => request'[t].dryRun \in jobs' /\ review' # "none"
    BY <1>2 DEF RequestsOK
  <2>1. CASE t = s BY <1>1, <2>1
  <2>2. CASE t # s
    <3>1. request'[t] = request[t] BY <1>1, <2>2
    <3>2. request[t].at = "reading" => reviewLock = t BY DEF ReviewInv, RequestsOK, Holding
    <3>3. request[t].at = "reading" => UNCHANGED dryRuns BY <2>2, <3>2
    <3> QED BY <2>2, <3>1, <3>3 DEF ReviewInv, RequestsOK
  <2> QED BY <2>1, <2>2
<1>4. VerifyOK'
  <2> SUFFICES ASSUME NEW t \in Session, request'[t].at = "verify",
                      NEW n, n = request'[t].dryRun, NEW run, run = dryRuns'[n]
               PROVE  Verified(run)'
    BY DEF VerifyOK, Verified
  <2>1. CASE t = s BY <1>1, <2>1 DEF Verified
  <2>2. CASE t # s
    <3>1. request'[t] = request[t] /\ reviewLock = t
      BY <1>1, <2>2 DEF ReviewInv, RequestsOK, Holding
    <3>2. UNCHANGED <<rows, dryRuns>> BY <2>2, <3>1
    <3>3. Verified(run) BY <3>1, <3>2 DEF ReviewInv, VerifyOK
    <3> QED BY <3>2, <3>3 DEF Verified
  <2> QED BY <2>1, <2>2
<1> QED BY <1>3, <1>4 DEF ReviewInv

\* Invalidating Dry Runs changes the status of those and nothing else.
LEMMA Invalidated ==
    ASSUME RowsTyped, NEW runs
    PROVE  /\ Invalidate(runs) \in Seq(DryRunRecord) /\ Len(Invalidate(runs)) = Len(dryRuns)
           /\ DOMAIN Invalidate(runs) = DOMAIN dryRuns
           /\ \A n \in DOMAIN dryRuns :
                 IF n \in runs THEN Invalidate(runs)[n].status = "invalidated"
                 ELSE Invalidate(runs)[n] = dryRuns[n]
<1>1. dryRuns \in Seq(DryRunRecord) /\ Len(dryRuns) \in Nat /\ DOMAIN dryRuns = 1..Len(dryRuns)
      /\ \A n \in DOMAIN dryRuns : dryRuns[n] \in DryRunRecord
  BY ElementOfSeq, LenProperties DEF RowsTyped
<1>2. \A n \in DOMAIN dryRuns : /\ [dryRuns[n] EXCEPT !.status = "invalidated"] \in DryRunRecord
                                /\ [dryRuns[n] EXCEPT !.status = "invalidated"].status = "invalidated"
  BY <1>1 DEF DryRunRecord
<1>3. Invalidate(runs) \in [1..Len(dryRuns) -> DryRunRecord] BY <1>1, <1>2 DEF Invalidate
<1>4. Invalidate(runs) \in Seq(DryRunRecord) /\ Len(Invalidate(runs)) = Len(dryRuns)
      /\ DOMAIN Invalidate(runs) = DOMAIN dryRuns
  BY <1>1, <1>3
<1> QED BY <1>1, <1>2, <1>4 DEF Invalidate

\* Every statement of the requests on a Review keeps its invariant: selections that
\* are saved, Dry Runs that finish, Applies that claim a job, verify and dispatch.
LEMMA ReviewStep ==
    ASSUME ReviewInv, [ReviewNext]_reviewVars
    PROVE  ReviewInv'
<1> USE WorkspaceReviewAssumption
<1>t. /\ RowsTyped /\ OneCurrent /\ request \in [Session -> RequestRecord]
      /\ \A s \in Session : request[s] \in RequestRecord /\ request[s].rowLocks \subseteq DOMAIN dryRuns
      /\ DOMAIN dryRuns \subseteq 1..MaxDryRuns
      /\ dryRuns \in Seq(DryRunRecord) /\ Len(dryRuns) \in Nat /\ DOMAIN dryRuns = 1..Len(dryRuns)
      /\ \A n \in DOMAIN dryRuns : dryRuns[n] \in DryRunRecord
  <2>1. dryRuns \in Seq(DryRunRecord) /\ Len(dryRuns) <= MaxDryRuns BY DEF ReviewInv, RowsTyped
  <2>2. Len(dryRuns) \in Nat /\ DOMAIN dryRuns = 1..Len(dryRuns)
        /\ \A n \in DOMAIN dryRuns : dryRuns[n] \in DryRunRecord
    BY <2>1, ElementOfSeq, LenProperties
  <2> QED BY <2>1, <2>2 DEF ReviewInv, RequestsOK
<1>u. ASSUME UNCHANGED <<review, fresh, sourceCurrent, rows, selection, dryRuns, jobs, dispatched>>,
             reviewLock' \in Session \cup {NoSession}
      PROVE  RowsTyped' /\ OneCurrent'
  BY <1>t, <1>u DEF RowsTyped, OneCurrent, Current
<1>i. ASSUME NEW s \in Session, Finish(s), RowsTyped', OneCurrent', Unlock(s) \/ UNCHANGED reviewLock,
             UNCHANGED <<rows, dryRuns>> \/ reviewLock \in {NoSession, s},
             jobs \subseteq jobs', DOMAIN dryRuns \subseteq DOMAIN dryRuns', review # "none" => review' # "none"
      PROVE  ReviewInv'
  <2>1. "idle" \notin Holding \cup Claiming \cup {"delete", "save", "reading", "verify"} BY DEF Holding, Claiming
  <2>2. \/ reviewLock' = reviewLock
        \/ reviewLock = s /\ reviewLock' = NoSession
    BY <1>i DEF Unlock
  <2> QED BY <1>i, <2>1, <2>2, IdleTyping, SessionStep DEF Finish
<1>m. ASSUME NEW s \in Session, NEW p \in Steps, request[s].at \in Claiming, p \in Claiming, GoOn(s, p),
             UNCHANGED <<review, fresh, sourceCurrent, rows, selection, dryRuns, jobs, dispatched>>,
             \/ reviewLock = NoSession /\ reviewLock' = s
             \/ Unlock(s) /\ p \notin Holding,
             p # "verify"
      PROVE  ReviewInv'
  <2> DEFINE x == [request[s] EXCEPT !.at = p]
  <2>1. /\ x \in RequestRecord /\ x.at = p /\ x.rowLocks = request[s].rowLocks /\ x.dryRun = request[s].dryRun
    BY <1>t DEF RequestRecord
  <2>2. request' = [request EXCEPT ![s] = x] BY <1>t, <1>m DEF GoOn
  <2>3. request[s].dryRun \in jobs /\ review # "none" BY <1>m DEF ReviewInv, RequestsOK
  <2>4. reviewLock' \in Session \cup {NoSession} BY <1>t, <1>m DEF RowsTyped, Unlock
  <2>5. RowsTyped' /\ OneCurrent' BY <1>m, <1>u, <2>4
  <2>6. \/ reviewLock' = reviewLock
        \/ reviewLock = NoSession /\ reviewLock' = s
        \/ reviewLock = s /\ reviewLock' = NoSession
    BY <1>m DEF Unlock
  <2>7. p \notin {"delete", "save", "reading"} BY <1>m DEF Claiming
  <2> HIDE DEF x
  <2> QED BY <1>t, <1>m, <2>1, <2>2, <2>3, <2>5, <2>6, <2>7, SessionStep
<1>1. CASE GenerateReview
  <2>1. /\ review = "none" /\ review' = "ready" /\ fresh' = TRUE /\ sourceCurrent' = TRUE
        /\ UNCHANGED <<rows, selection, dryRuns, jobs, dispatched, reviewLock, request>>
    BY <1>1 DEF GenerateReview, selectionVars, applyVars
  <2>2. \A s \in Session : request[s].at \notin Claiming BY <2>1 DEF ReviewInv, RequestsOK
  <2>3. RowsTyped' /\ OneCurrent' BY <1>t, <2>1 DEF RowsTyped, OneCurrent, Current
  <2>4. RequestsOK' BY <2>1, <2>2 DEF ReviewInv, RequestsOK
  <2>5. VerifyOK' BY <2>1, <2>2 DEF VerifyOK, Claiming
  <2> QED BY <2>3, <2>4, <2>5 DEF ReviewInv
<1>2. CASE ChangeEvidence
  <2>1. /\ fresh' = ~fresh
        /\ UNCHANGED <<review, sourceCurrent, rows, selection, dryRuns, jobs, dispatched, reviewLock, request>>
    BY <1>2 DEF ChangeEvidence, selectionVars, applyVars
  <2>2. RowsTyped' /\ OneCurrent' BY <1>t, <2>1 DEF RowsTyped, OneCurrent, Current
  <2> QED BY <2>1, <2>2 DEF ReviewInv, RequestsOK, VerifyOK, Verified
<1>s. CASE MoveSource
  <2>1. /\ sourceCurrent' = FALSE
        /\ UNCHANGED <<review, fresh, rows, selection, dryRuns, jobs, dispatched, reviewLock, request>>
    BY <1>s DEF MoveSource, selectionVars, applyVars
  <2>2. RowsTyped' /\ OneCurrent' BY <1>t, <2>1 DEF RowsTyped, OneCurrent, Current
  <2> QED BY <2>1, <2>2 DEF ReviewInv, RequestsOK, VerifyOK, Verified
<1>3. CASE InvalidateSourceReviews
  <2>1. /\ review # "none" /\ reviewLock = NoSession /\ review' = "stale" /\ sourceCurrent' = FALSE
        /\ selection' = [selection EXCEPT !.items = {}]
        /\ UNCHANGED <<fresh, rows, dryRuns, jobs, dispatched, reviewLock, request>>
    BY <1>3 DEF InvalidateSourceReviews, applyVars
  <2>2. RowsTyped' /\ OneCurrent' BY <1>t, <2>1 DEF RowsTyped, OneCurrent, Current
  <2>3. RequestsOK' BY <2>1 DEF ReviewInv, RequestsOK
  <2>4. VerifyOK' BY <2>1 DEF ReviewInv, RequestsOK, VerifyOK, Holding
  <2> QED BY <2>2, <2>3, <2>4 DEF ReviewInv
<1>4. ASSUME NEW s \in Session, ReadReview(s) PROVE ReviewInv'
  <2>1. /\ selection.version < MaxSelections
        /\ UNCHANGED <<review, fresh, sourceCurrent, rows, selection, dryRuns, jobs, dispatched, reviewLock>>
    BY <1>4 DEF ReadReview, evidenceVars, selectionVars, applyVars
  <2>2. PICK items \in Selectable :
           request' = [request EXCEPT ![s] = [Idle EXCEPT !.at = "delete", !.items = items,
                                                          !.version = selection.version, !.dropped = rows]]
    BY <1>4 DEF ReadReview
  <2> DEFINE x == [Idle EXCEPT !.at = "delete", !.items = items,
                               !.version = selection.version, !.dropped = rows]
  <2>3. rows \subseteq Item /\ selection.version \in 0..MaxSelections /\ items \subseteq Item
    BY <1>t DEF RowsTyped
  <2>4. /\ x \in RequestRecord /\ x.at = "delete" /\ x.version = selection.version /\ x.rowLocks = {}
    BY <2>3, IdleTyping DEF RequestRecord, Steps
  <2>5. RowsTyped' /\ OneCurrent' BY <1>t, <1>u, <2>1 DEF RowsTyped
  <2>6. "delete" \notin Holding \cup Claiming BY DEF Holding, Claiming
  <2>7. request' = [request EXCEPT ![s] = x] BY <2>2
  <2> HIDE DEF x
  <2> QED BY <2>1, <2>4, <2>5, <2>6, <2>7, SessionStep
<1>5. ASSUME NEW s \in Session, InvalidateDryRuns(s) PROVE ReviewInv'
  <2> DEFINE x == [request[s] EXCEPT !.at = "save", !.rowLocks = Current]
  <2>1. /\ request[s].at = "delete"
        /\ request' = [request EXCEPT ![s].at = "save", ![s].rowLocks = Current]
        /\ UNCHANGED <<review, fresh, sourceCurrent, rows, selection, dryRuns, jobs, dispatched, reviewLock>>
    BY <1>5 DEF InvalidateDryRuns, At, evidenceVars, selectionVars, applyVars
  <2>2. request' = [request EXCEPT ![s] = x] BY <1>t, <2>1
  <2>3. Current \subseteq DOMAIN dryRuns /\ Current \subseteq 1..MaxDryRuns BY <1>t DEF Current
  <2>4. /\ x \in RequestRecord /\ x.at = "save" /\ x.version = request[s].version /\ x.rowLocks = Current
    BY ZenonT(60), <1>t, <2>3 DEF RequestRecord, Steps
  <2>5. request[s].version < MaxSelections BY <2>1 DEF ReviewInv, RequestsOK
  <2>6. RowsTyped' /\ OneCurrent' BY <1>t, <1>u, <2>1 DEF RowsTyped
  <2>7. "save" \notin Holding \cup Claiming BY DEF Holding, Claiming
  <2> HIDE DEF x
  <2> QED BY <2>1, <2>2, <2>3, <2>4, <2>5, <2>6, <2>7, SessionStep
<1>6. ASSUME NEW s \in Session, SaveSelection(s) PROVE ReviewInv'
  <2> DEFINE r == request[s]
  <2>1. /\ r.at = "save" /\ reviewLock = NoSession
        /\ UNCHANGED <<review, fresh, sourceCurrent, jobs, dispatched, reviewLock>>
        /\ \/ /\ rows' = (rows \ r.dropped) \cup r.items
              /\ selection' = [version |-> r.version + 1, items |-> r.items]
              /\ dryRuns' = Invalidate(r.rowLocks)
              /\ request' = Replaced(s, r.dropped)
           \/ UNCHANGED <<rows, selection, dryRuns>> /\ Finish(s)
    BY <1>6 DEF SaveSelection, At, ReviewFree, evidenceVars, applyVars
  <2>2. CASE UNCHANGED <<rows, selection, dryRuns>> /\ Finish(s)
    <3>1. RowsTyped' /\ OneCurrent' BY <1>t, <1>u, <2>1, <2>2 DEF RowsTyped
    <3> QED BY <1>i, <2>1, <2>2, <3>1
  <2>3. CASE /\ rows' = (rows \ r.dropped) \cup r.items
             /\ selection' = [version |-> r.version + 1, items |-> r.items]
             /\ dryRuns' = Invalidate(r.rowLocks)
             /\ request' = Replaced(s, r.dropped)
    <3>1. r.version + 1 \in 0..MaxSelections /\ r.items \subseteq Item
      <4>1. r.version < MaxSelections BY <2>1 DEF ReviewInv, RequestsOK
      <4> QED BY <1>t, <4>1 DEF RequestRecord
    <3>2. /\ dryRuns' \in Seq(DryRunRecord) /\ Len(dryRuns') = Len(dryRuns) /\ DOMAIN dryRuns' = DOMAIN dryRuns
          /\ \A n \in DOMAIN dryRuns : dryRuns'[n].status = "invalidated" \/ dryRuns'[n] = dryRuns[n]
      BY <1>t, <2>3, Invalidated
    <3>3. RowsTyped' BY <1>t, <2>1, <2>3, <3>1, <3>2 DEF RowsTyped
    <3>4. OneCurrent' BY <1>t, <3>2 DEF OneCurrent, Current
    <3>5. \A t \in Session : request[t].at \notin Holding BY <2>1 DEF ReviewInv, RequestsOK
    <3>6. ASSUME NEW t \in Session
          PROVE  /\ request'[t] \in RequestRecord
                 /\ \/ request'[t] = Idle
                    \/ /\ request'[t].at = request[t].at /\ request'[t].version = request[t].version
                       /\ request'[t].rowLocks = request[t].rowLocks /\ request'[t].dryRun = request[t].dryRun
      <4>1. request[t] \in RequestRecord BY <1>t
      <4>2. request'[t] = IF t = s THEN Idle ELSE [request[t] EXCEPT !.dropped = @ \ r.dropped]
        BY <2>3 DEF Replaced
      <4> QED BY <4>1, <4>2, IdleTyping DEF RequestRecord
    <3>7. request' \in [Session -> RequestRecord]
      <4>1. request' = [t \in Session |-> request'[t]] BY <2>3 DEF Replaced
      <4> QED BY <3>6, <4>1
    <3>8. "idle" \notin Holding \cup Claiming \cup {"delete", "save", "reading"} BY DEF Holding, Claiming
    <3>9. RequestsOK'
      <4> SUFFICES ASSUME NEW t \in Session
                   PROVE  /\ request'[t].rowLocks \subseteq DOMAIN dryRuns'
                          /\ request'[t].at \in Holding => reviewLock' = t
                          /\ request'[t].at \in {"delete", "save"} => request'[t].version < MaxSelections
                          /\ request'[t].at = "reading" => Len(dryRuns') < MaxDryRuns
                          /\ request'[t].at \in Claiming => request'[t].dryRun \in jobs' /\ review' # "none"
        BY <3>7 DEF RequestsOK
      <4>1. CASE request'[t] = Idle BY <3>8, <4>1, IdleTyping
      <4>2. CASE request'[t] # Idle
        <5>1. /\ request'[t].at = request[t].at /\ request'[t].version = request[t].version
              /\ request'[t].rowLocks = request[t].rowLocks /\ request'[t].dryRun = request[t].dryRun
          BY <3>6, <4>2
        <5> QED BY <2>1, <3>2, <5>1 DEF ReviewInv, RequestsOK
      <4> QED BY <4>1, <4>2
    <3>10. VerifyOK'
      <4>1. \A t \in Session : request'[t].at # "verify" BY <3>5, <3>6, <3>8, IdleTyping DEF Holding
      <4> QED BY <4>1 DEF VerifyOK
    <3> QED BY <3>3, <3>4, <3>9, <3>10 DEF ReviewInv
  <2> QED BY <2>1, <2>2, <2>3
<1>7. ASSUME NEW s \in Session, StartDryRun(s) PROVE ReviewInv'
  <2>1. /\ reviewLock = NoSession /\ UNCHANGED <<rows, selection, dryRuns, jobs, dispatched>>
    BY <1>7 DEF StartDryRun, ReviewFree, selectionVars, applyVars
  <2>2. CASE fresh
    <3> DEFINE x == [Idle EXCEPT !.at = "reading", !.items = rows]
    <3>1. /\ reviewLock' = s /\ request' = [request EXCEPT ![s] = x] /\ UNCHANGED <<review, fresh, sourceCurrent>>
      BY <1>7, <2>2 DEF StartDryRun, evidenceVars
    <3>2. rows \subseteq Item BY <1>t DEF RowsTyped
    <3>3. /\ x \in RequestRecord /\ x.at = "reading" /\ x.rowLocks = {}
      BY <3>2, IdleTyping DEF RequestRecord, Steps
    <3>4. RowsTyped' /\ OneCurrent' BY <1>u, <2>1, <3>1
    <3>5. "reading" \notin Claiming \cup {"delete", "save", "verify"} BY DEF Claiming
    <3>6. Len(dryRuns') < MaxDryRuns BY <1>7 DEF StartDryRun, selectionVars
    <3> HIDE DEF x
    <3> QED BY <2>1, <3>1, <3>3, <3>4, <3>5, <3>6, SessionStep
  <2>3. CASE ~fresh
    <3>1. review' = "stale" /\ UNCHANGED <<fresh, sourceCurrent, reviewLock, request>>
      BY <1>7, <2>3 DEF StartDryRun, MarkStale
    <3>2. RowsTyped' /\ OneCurrent'
      BY <1>t, <2>1, <2>3, <3>1 DEF RowsTyped, OneCurrent, Current
    <3>3. \A t \in Session : request[t].at # "verify" BY <2>1 DEF ReviewInv, RequestsOK, Holding
    <3>4. RequestsOK' BY <2>1, <3>1 DEF ReviewInv, RequestsOK
    <3>5. VerifyOK' BY <3>1, <3>3 DEF VerifyOK
    <3> QED BY <3>2, <3>4, <3>5 DEF ReviewInv
  <2> QED BY <2>2, <2>3
<1>8. ASSUME NEW s \in Session, FinishDryRun(s) PROVE ReviewInv'
  <2>1. /\ request[s].at = "reading" /\ Unlock(s) /\ Finish(s)
        /\ UNCHANGED <<review, fresh, sourceCurrent, rows, selection, jobs, dispatched>>
    BY <1>8 DEF FinishDryRun, At, evidenceVars, selectionVars, applyVars
  <2>2. reviewLock = s BY <2>1 DEF ReviewInv, RequestsOK, Holding
  <2>3. PICK writes \in SUBSET request[s].items, status \in {"passed", "blocked"} :
           dryRuns' = Append(Invalidate(Current),
                             [version |-> selection.version, items |-> request[s].items,
                              writes |-> IF status = "passed" THEN writes ELSE {}, status |-> status])
    BY <1>8 DEF FinishDryRun, Superseded
  <2> DEFINE new == [version |-> selection.version, items |-> request[s].items,
                     writes |-> IF status = "passed" THEN writes ELSE {}, status |-> status]
  <2>4. new \in DryRunRecord
    <3>1. request[s].items \subseteq Item BY <1>t DEF RequestRecord
    <3>2. selection.version \in 0..MaxSelections BY <1>t DEF RowsTyped
    <3> QED BY <3>1, <3>2 DEF DryRunRecord
  <2>5. dryRuns' = Append(Invalidate(Current), new) BY <2>3
  <2> HIDE DEF new
  <2> DEFINE old == Invalidate(Current)
  <2>6. /\ old \in Seq(DryRunRecord) /\ Len(old) = Len(dryRuns) /\ DOMAIN old = DOMAIN dryRuns
        /\ \A n \in DOMAIN dryRuns : old[n].status # "passed"
    BY <1>t, Invalidated DEF Current
  <2> HIDE DEF old
  <2>7. dryRuns' = Append(old, new) BY <2>5 DEF old
  <2>8. /\ dryRuns' \in Seq(DryRunRecord) /\ Len(dryRuns') = Len(dryRuns) + 1
        /\ DOMAIN dryRuns' = 1..Len(dryRuns) + 1
        /\ \A n \in 1..Len(dryRuns) : dryRuns'[n] = old[n]
    BY <1>t, <2>4, <2>6, <2>7, AppendProperties, LenProperties
  <2>9. DOMAIN dryRuns \subseteq DOMAIN dryRuns' BY <1>t, <2>8
  <2>10. OneCurrent'
    <3>1. \A n \in DOMAIN dryRuns' : dryRuns'[n].status = "passed" => n = Len(dryRuns) + 1
      BY <1>t, <2>6, <2>8
    <3> QED BY <3>1 DEF OneCurrent, Current
  <2>11. RowsTyped'
    <3>1. Len(dryRuns') <= MaxDryRuns
      <4>1. Len(dryRuns) < MaxDryRuns BY <2>1 DEF ReviewInv, RequestsOK
      <4> QED BY <1>t, <2>8, <4>1
    <3>2. jobs \subseteq DOMAIN dryRuns' BY <1>t, <2>9 DEF RowsTyped
    <3>3. reviewLock' \in Session \cup {NoSession} BY <1>t, <2>1 DEF RowsTyped, Unlock
    <3> QED BY <1>t, <2>1, <2>8, <3>1, <3>2, <3>3 DEF RowsTyped
  <2> QED BY <1>i, <2>1, <2>2, <2>9, <2>10, <2>11
<1>9. ASSUME NEW s \in Session, NEW n \in DOMAIN dryRuns, RequestApply(s, n) PROVE ReviewInv'
  <2>1. /\ review # "none" /\ UNCHANGED <<rows, selection, dryRuns, dispatched, reviewLock>>
    BY <1>9 DEF RequestApply, selectionVars
  <2>2. CASE fresh
    <3> DEFINE x == [Idle EXCEPT !.at = "claim", !.dryRun = n]
    <3>1. jobs' = jobs \cup {n} /\ request' = [request EXCEPT ![s] = x] /\ UNCHANGED <<review, fresh, sourceCurrent>>
      BY <1>9, <2>2 DEF RequestApply, evidenceVars
    <3>2. n \in 0..MaxDryRuns BY <1>t
    <3>3. /\ x \in RequestRecord /\ x.at = "claim" /\ x.dryRun = n /\ x.rowLocks = {}
      BY <3>2, IdleTyping DEF RequestRecord, Steps
    <3>4. RowsTyped' /\ OneCurrent'
      BY <1>t, <2>1, <3>1 DEF RowsTyped, OneCurrent, Current
    <3>5. "claim" \notin Holding \cup {"delete", "save", "verify"} BY DEF Holding
    <3> HIDE DEF x
    <3> QED BY <2>1, <3>1, <3>3, <3>4, <3>5, SessionStep
  <2>3. CASE ~fresh
    <3>1. reviewLock = NoSession /\ review' = "stale" /\ UNCHANGED <<fresh, sourceCurrent, jobs, request>>
      BY <1>9, <2>3 DEF RequestApply, MarkStale, ReviewFree
    <3>2. RowsTyped' /\ OneCurrent'
      BY <1>t, <2>1, <2>3, <3>1 DEF RowsTyped, OneCurrent, Current
    <3>3. \A t \in Session : request[t].at # "verify" BY <3>1 DEF ReviewInv, RequestsOK, Holding
    <3>4. RequestsOK' BY <2>1, <3>1 DEF ReviewInv, RequestsOK
    <3>5. VerifyOK' BY <3>1, <3>3 DEF VerifyOK
    <3> QED BY <3>2, <3>4, <3>5 DEF ReviewInv
  <2> QED BY <2>2, <2>3
<1>r. ASSUME NEW s \in Session, NEW p \in {"lock", "relock"},
             request' = [request EXCEPT ![s].at = p, ![s].version = selection.version],
             request[s].at \in Claiming \ Holding,
             UNCHANGED <<review, fresh, sourceCurrent, rows, selection, dryRuns, jobs, dispatched, reviewLock>>
      PROVE  ReviewInv'
  <2> DEFINE x == [request[s] EXCEPT !.at = p, !.version = selection.version]
  <2>1. p \in Steps /\ p \in Claiming \ Holding /\ p \notin {"delete", "save", "reading", "verify"}
    BY DEF Steps, Claiming, Holding
  <2>2. selection.version \in 0..MaxSelections BY <1>t DEF RowsTyped
  <2>3. /\ x \in RequestRecord /\ x.at = p /\ x.rowLocks = request[s].rowLocks /\ x.dryRun = request[s].dryRun
    BY <1>t, <2>1, <2>2 DEF RequestRecord
  <2>4. request' = [request EXCEPT ![s] = x] BY <1>r
  <2>5. request[s].dryRun \in jobs /\ review # "none" BY <1>r DEF ReviewInv, RequestsOK
  <2>6. RowsTyped' /\ OneCurrent' BY <1>t, <1>r, <1>u DEF RowsTyped
  <2> HIDE DEF x
  <2> QED BY <1>t, <1>r, <2>1, <2>3, <2>4, <2>5, <2>6, SessionStep
<1>a. ASSUME NEW s \in Session, ReadForClaim(s) PROVE ReviewInv'
  <2>1. /\ request[s].at = "claim"
        /\ UNCHANGED <<review, fresh, sourceCurrent, rows, selection, dryRuns, jobs, dispatched, reviewLock>>
    BY <1>a DEF ReadForClaim, At, evidenceVars, selectionVars, applyVars
  <2>2. request[s].at \in Claiming \ Holding BY <2>1 DEF Claiming, Holding
  <2>3. CASE review = "ready" BY <1>a, <1>r, <2>1, <2>2, <2>3 DEF ReadForClaim
  <2>4. CASE review # "ready"
    <3>1. RowsTyped' /\ OneCurrent' BY <1>t, <1>u, <2>1 DEF RowsTyped
    <3> QED BY <1>a, <1>i, <2>1, <2>4, <3>1 DEF ReadForClaim
  <2> QED BY <2>3, <2>4
<1>b. ASSUME NEW s \in Session, RereadReview(s) PROVE ReviewInv'
  <2>1. /\ request[s].at = "reread"
        /\ UNCHANGED <<review, fresh, sourceCurrent, rows, selection, dryRuns, jobs, dispatched, reviewLock>>
    BY <1>b DEF RereadReview, At, evidenceVars, selectionVars, applyVars
  <2>2. request[s].at \in Claiming \ Holding BY <2>1 DEF Claiming, Holding
  <2> QED BY <1>b, <1>r, <2>1, <2>2 DEF RereadReview
<1>10. ASSUME NEW s \in Session, AuthorizeApply(s) PROVE ReviewInv'
  <2>1. /\ request[s].at \in Claiming /\ "authorize" \in Claiming /\ "authorize" \in Steps
    BY <1>10 DEF AuthorizeApply, At, Claiming, Steps
  <2> QED BY <1>10, <1>m, <2>1 DEF AuthorizeApply, ReviewFree, evidenceVars, selectionVars, applyVars
<1>11. ASSUME NEW s \in Session, RefuseSelection(s) PROVE ReviewInv'
  <2>1. UNCHANGED <<review, fresh, sourceCurrent, rows, selection, dryRuns, jobs, dispatched, reviewLock>> /\ Finish(s)
    BY <1>11 DEF RefuseSelection, evidenceVars, selectionVars, applyVars
  <2>2. RowsTyped' /\ OneCurrent' BY <1>t, <1>u, <2>1 DEF RowsTyped
  <2> QED BY <1>i, <2>1, <2>2
<1>12. ASSUME NEW s \in Session, RefuseStale(s) PROVE ReviewInv'
  <2>1. /\ reviewLock = NoSession /\ Finish(s)
        /\ UNCHANGED <<fresh, sourceCurrent, rows, selection, dryRuns, jobs, dispatched, reviewLock>>
        /\ review' = "stale" \/ UNCHANGED review
    BY <1>12 DEF RefuseStale, ReviewFree, MarkStale, evidenceVars, selectionVars, applyVars
  <2>2. RowsTyped' /\ OneCurrent'
    BY <1>t, <2>1 DEF RowsTyped, OneCurrent, Current
  <2> QED BY <1>i, <2>1, <2>2
<1>13. ASSUME NEW s \in Session, ClaimApply(s) PROVE ReviewInv'
  <2>1. /\ request[s].at = "authorize" /\ Unlock(s)
        /\ UNCHANGED <<review, fresh, sourceCurrent, rows, selection, dryRuns, jobs, dispatched>>
        /\ GoOn(s, "reread") \/ Finish(s)
    BY <1>13 DEF ClaimApply, At, evidenceVars, selectionVars, applyVars
  <2>2. CASE GoOn(s, "reread")
    <3>1. request[s].at \in Claiming /\ "reread" \in Claiming \ Holding /\ "reread" \in Steps
      BY <2>1 DEF Claiming, Holding, Steps
    <3> QED BY <1>m, <2>1, <2>2, <3>1
  <2>3. CASE Finish(s)
    <3>1. reviewLock' \in Session \cup {NoSession} BY <1>t, <2>1 DEF RowsTyped, Unlock
    <3>2. RowsTyped' /\ OneCurrent' BY <1>u, <2>1, <3>1
    <3> QED BY <1>i, <2>1, <2>3, <3>2
  <2> QED BY <2>1, <2>2, <2>3
<1>14. ASSUME NEW s \in Session, RelockReview(s) PROVE ReviewInv'
  <2>1. /\ request[s].at \in Claiming /\ "hold" \in Claiming /\ "hold" \in Steps
    BY <1>14 DEF RelockReview, At, Claiming, Steps
  <2> QED BY <1>14, <1>m, <2>1 DEF RelockReview, ReviewFree, evidenceVars, selectionVars, applyVars
<1>15. ASSUME NEW s \in Session, HoldDryRun(s) PROVE ReviewInv'
  <2> DEFINE n == request[s].dryRun
  <2>1. /\ request[s].at = "hold" /\ UNCHANGED <<rows, selection, dryRuns, jobs, dispatched>>
        /\ UNCHANGED <<fresh, sourceCurrent>> /\ (review' = "stale" \/ UNCHANGED review)
        /\ \/ /\ StillConfirmed(s) /\ UNCHANGED <<review, reviewLock>>
              /\ request' = [request EXCEPT ![s].at = "verify", ![s].rowLocks = {n}]
           \/ Finish(s) /\ Unlock(s)
    BY <1>15 DEF HoldDryRun, MarkStale, At, evidenceVars, selectionVars, applyVars
  <2>2. reviewLock = s /\ n \in jobs /\ review # "none"
    BY <2>1 DEF ReviewInv, RequestsOK, Holding, Claiming
  <2>3. n \in DOMAIN dryRuns /\ n \in 1..MaxDryRuns BY <1>t, <2>2 DEF RowsTyped
  <2>4. CASE /\ StillConfirmed(s) /\ UNCHANGED <<review, reviewLock>>
             /\ request' = [request EXCEPT ![s].at = "verify", ![s].rowLocks = {n}]
    <3> DEFINE x == [request[s] EXCEPT !.at = "verify", !.rowLocks = {n}]
    <3>1. request' = [request EXCEPT ![s] = x] BY <1>t, <2>4
    <3>2. /\ x \in RequestRecord /\ x.at = "verify" /\ x.dryRun = n /\ x.rowLocks = {n}
      BY ZenonT(60), <1>t, <2>3 DEF RequestRecord, Steps
    <3>3. Verified(dryRuns[n]) BY <2>4 DEF StillConfirmed, SelectionUnchanged, Verified
    <3>4. RowsTyped' /\ OneCurrent' BY <1>t, <1>u, <2>1, <2>4 DEF RowsTyped
    <3> HIDE DEF x
    <3>5. /\ x \in RequestRecord /\ UNCHANGED <<review, rows, dryRuns, jobs, reviewLock>>
          /\ x.rowLocks \subseteq DOMAIN dryRuns' /\ reviewLock = s
      BY <2>1, <2>2, <2>3, <2>4, <3>2
    <3>6. x.dryRun \in jobs' /\ review' # "none" BY <2>2, <3>2, <3>5
    <3>7. x.at \notin {"delete", "save", "reading"} BY <3>2
    <3>8. Verified(dryRuns[x.dryRun]) BY <3>2, <3>3
    <3> QED BY <3>1, <3>4, <3>5, <3>6, <3>7, <3>8, SessionStep
  <2>5. CASE Finish(s) /\ Unlock(s)
    <3>1. reviewLock' \in Session \cup {NoSession} BY <1>t, <2>5 DEF RowsTyped, Unlock
    <3>2. RowsTyped' /\ OneCurrent' BY <1>t, <2>1, <3>1 DEF RowsTyped, OneCurrent, Current
    <3> QED BY <1>i, <2>1, <2>2, <2>5, <3>2
  <2> QED BY <2>1, <2>4, <2>5
<1>16. ASSUME NEW s \in Session, DispatchApply(s) PROVE ReviewInv'
  <2>1. /\ request[s].at = "verify" /\ Unlock(s) /\ Finish(s)
        /\ UNCHANGED <<fresh, sourceCurrent, rows, selection, dryRuns, jobs>>
        /\ review' = "stale" \/ UNCHANGED review
        /\ dispatched' = dispatched \/ dispatched' = dispatched \cup {request[s].dryRun}
    BY <1>16 DEF DispatchApply, At, GiveLock, MarkStale, evidenceVars, selectionVars
  <2>2. reviewLock = s /\ request[s].dryRun \in jobs
    BY <2>1 DEF ReviewInv, RequestsOK, Holding, Claiming
  <2>3. RowsTyped' /\ OneCurrent'
    BY <1>t, <2>1, <2>2 DEF RowsTyped, OneCurrent, Current, Unlock
  <2> QED BY <1>i, <2>1, <2>2, <2>3
<1>17. ASSUME NEW s \in Session, AbortDeadlock(s) \/ Disconnect(s) PROVE ReviewInv'
  <2>1. UNCHANGED <<review, fresh, sourceCurrent, rows, selection, dryRuns, jobs, dispatched>> /\ Finish(s) /\ Unlock(s)
    BY <1>17 DEF AbortDeadlock, Disconnect, Rollback, evidenceVars, selectionVars, applyVars
  <2>2. reviewLock' \in Session \cup {NoSession} BY <1>t, <2>1 DEF RowsTyped, Unlock
  <2>3. RowsTyped' /\ OneCurrent' BY <1>u, <2>1, <2>2
  <2> QED BY <1>i, <2>1, <2>3
<1>18. CASE UNCHANGED reviewVars
  BY <1>18 DEF reviewVars, evidenceVars, selectionVars, applyVars, ReviewInv, RowsTyped, RequestsOK,
     VerifyOK, Verified, OneCurrent, Current
<1> QED
  BY <1>1, <1>2, <1>s, <1>3, <1>4, <1>5, <1>6, <1>7, <1>8, <1>9, <1>a, <1>b, <1>10, <1>11, <1>12, <1>13, <1>14, <1>15, <1>16,
     <1>17, <1>18 DEF ReviewNext, Start, Advance

\* Before the Review is generated the invariant holds.
LEMMA ReviewStart == ReviewInit => ReviewInv
<1> SUFFICES ASSUME ReviewInit PROVE ReviewInv OBVIOUS
<1> USE WorkspaceReviewAssumption
<1>1. dryRuns = <<>> /\ DOMAIN dryRuns = {} /\ dryRuns \in Seq(DryRunRecord) /\ Len(dryRuns) = 0
  BY DEF ReviewInit
<1>2. selection \in [version : 0..MaxSelections, items : SUBSET Item] BY DEF ReviewInit
<1>3. RowsTyped BY <1>1, <1>2 DEF ReviewInit, RowsTyped
<1>4. request \in [Session -> RequestRecord] /\ \A s \in Session : request[s] = Idle
  BY IdleTyping DEF ReviewInit
<1>5. "idle" \notin Holding \cup Claiming \cup {"delete", "save", "reading", "verify"}
  BY DEF Holding, Claiming
<1>6. RequestsOK /\ VerifyOK BY <1>4, <1>5, IdleTyping DEF RequestsOK, VerifyOK
<1>7. OneCurrent BY <1>1 DEF ReviewInit, OneCurrent, Current
<1> QED BY <1>3, <1>6, <1>7 DEF ReviewInv

\* Whoever dispatches under the Review row's lock has seen the selected rows as they
\* are, in every reachable state.
THEOREM ReviewInvariant == ReviewSpec => []ReviewInv
<1>1. ReviewInv /\ [ReviewNext]_reviewVars => ReviewInv' BY ReviewStep
<1> QED BY ReviewStart, <1>1, PTL DEF ReviewSpec

\* Type correctness of Reviews, selections, Dry Runs and requests.
THEOREM ReviewTypeIsOK == ReviewSpec => []WorkspaceTypeOK
BY ReviewInvariant, ReviewTyping, PTL

\* run_dry_run leaves one passed Dry Run at most, however selections are saved
\* while it waits for the provider.
THEOREM OnlyOneDryRunIsCurrent == ReviewSpec => []OneCurrentDryRun
<1>1. ASSUME ReviewInv PROVE OneCurrentDryRun
  <2>1. CASE Current = {} BY <2>1, FS_EmptySet DEF OneCurrentDryRun
  <2>2. CASE Current # {}
    <3>1. PICK n : n \in Current BY <2>2
    <3>2. Current = {n} BY <1>1, <3>1 DEF ReviewInv, OneCurrent
    <3>3. Cardinality(Current) = 1 BY <3>2, FS_Singleton
    <3> QED BY <3>3 DEF OneCurrentDryRun
  <2> QED BY <2>1, <2>2
<1> QED BY <1>1, ReviewInvariant, PTL

\* A manifest that goes to the Write Pipeline is the one that has been verified, with
\* the rows of the selection as they are in this very step.
LEMMA DispatchStep ==
    ASSUME ReviewInv, [ReviewNext]_reviewVars, NEW n \in dispatched' \ dispatched
    PROVE  rows = dryRuns[n].items /\ dryRuns[n].status = "passed"
<1>1. PICK s \in Session : DispatchApply(s)
  <2>1. dispatched' # dispatched OBVIOUS
  <2> QED BY <2>1
        DEF ReviewNext, reviewVars, applyVars, Start, Advance, GenerateReview, ChangeEvidence, MoveSource,
            InvalidateSourceReviews, ReadReview, StartDryRun, RequestApply, InvalidateDryRuns, SaveSelection,
            FinishDryRun, ReadForClaim, AuthorizeApply, RefuseSelection, RefuseStale, ClaimApply, RereadReview,
            RelockReview, HoldDryRun, AbortDeadlock, Disconnect, Rollback
<1>2. request[s].at = "verify" /\ n = request[s].dryRun BY <1>1 DEF DispatchApply, At
<1> QED BY <1>2 DEF ReviewInv, VerifyOK, Verified

\* apply dispatches the items that are selected, verified by the one Dry Run that is
\* current, under any interleaving of Dry Runs, saved selections and changes of the
\* evidence, and with the versions its unlocked reads have found.
THEOREM AppliesAreAsConfirmed == ReviewSpec => DispatchedAsConfirmed
<1>1. ReviewInv /\ [ReviewNext]_reviewVars
        => [\A n \in dispatched' \ dispatched :
              rows = dryRuns[n].items /\ dryRuns[n].status = "passed"]_reviewVars
  BY DispatchStep
<1> QED BY <1>1, ReviewInvariant, PTL DEF ReviewSpec, DispatchedAsConfirmed

(* OrderReceipts *)

\* No two receipts hold the same item request: identities are unique.
Disjoint ==
    \A i, j \in 1..Len(received) :
        i # j => RequestIds[received[i]] \cap RequestIds[received[j]] = {}

\* A run that has a receipt open has it on its list, and has staged nothing but the
\* event while it awaits the provider.
OpenOK ==
    \A w \in Worker : /\ step[w] \in {"fetch", "commit"} => todo[w] # {}
                      /\ step[w] = "fetch" => change[w] = "event"

\* Proposals belong to requests of receipts that are stored and processed.
ProposalsOK ==
    /\ processed \subseteq ToSet(received)
    /\ \A e \in proposed : e.receipt \in processed /\ e.request \in RequestIds[e.receipt]

ReceiptsInv == ReceiptsTypeOK /\ Disjoint /\ OpenOK /\ ProposalsOK

\* A list of positions that is not empty has an oldest one.
LEMMA OldestIsListed ==
    ASSUME NEW n \in Nat, NEW S, S \subseteq 1..n, S # {}
    PROVE  Min(S) \in S
<1> DEFINE Below(j) == {i \in S : i < j}
           T == {Below(j) : j \in S}
<1>1. 1..n \subseteq Int /\ IsFiniteSet(1..n) BY FS_Interval
<1>2. IsWellFoundedOn(StrictSubsetOrdering(1..n), SUBSET (1..n))
  BY <1>1, FS_FiniteSubsetsOfFinite, FS_StrictSubsetOrderingWellFounded
<1>3. T \subseteq SUBSET (1..n) /\ T # {} /\ \A i \in S : Below(i) \in T
  <2>1. \A j \in S : Below(j) \subseteq 1..n OBVIOUS
  <2> HIDE DEF Below
  <2> QED BY <2>1
<1> HIDE DEF T
<1>4. PICK x \in T : \A y \in T : <<y, x>> \notin StrictSubsetOrdering(1..n)
  BY <1>2, <1>3, WFMin
<1>5. PICK j \in S : x = Below(j) BY <1>4 DEF T
<1>6. ASSUME NEW i \in S PROVE j <= i
  <2> SUFFICES ASSUME i < j PROVE FALSE BY <1>1
  <2>1. Below(i) \in T
    <3> HIDE DEF Below
    <3> QED BY <1>3
  <2>2. Below(i) \subseteq Below(j)
    <3>1. \A k \in S : k \in Int BY <1>1
    <3>2. \A k \in S : k < i => k < j BY <3>1
    <3> QED BY <3>2
  <2>3. i \in Below(j) /\ i \notin Below(i) BY <1>1
  <2>4. <<Below(i), x>> \in StrictSubsetOrdering(1..n)
    <3>1. Below(i) \in SUBSET (1..n) /\ x \in SUBSET (1..n) BY <1>3, <2>1, <1>4
    <3> HIDE DEF Below
    <3> QED BY <3>1, <2>2, <2>3, <1>5 DEF StrictSubsetOrdering
  <2> QED BY <2>1, <2>4, <1>4
<1> QED BY <1>6 DEF Min

\* Receipts without a request in common are no more than there are payloads.
LEMMA ReceiptsAreFew ==
    ASSUME IsFiniteSet(Payload), NEW s \in Seq(Payload),
           \A i, j \in 1..Len(s) : i # j => RequestIds[s[i]] \cap RequestIds[s[j]] = {}
    PROVE  s \in BoundedSeq(Payload, Cardinality(Payload))
<1>1. s \in [1..Len(s) -> Payload] /\ Len(s) \in Nat OBVIOUS
<1>2. \A p \in Payload : RequestIds[p] # {}
  <2> TAKE p \in Payload
  <2>1. RequestIds \in [Payload -> (SUBSET Request) \ {{}}] BY OrderReceiptsAssumption
  <2>2. RequestIds[p] \in (SUBSET Request) \ {{}} BY <2>1
  <2>3. RequestIds[p] \notin {{}} BY <2>2
  <2> QED BY <2>3
<1>3. s \in Injection(1..Len(s), Payload)
  <2>1. ASSUME NEW i \in 1..Len(s), NEW j \in 1..Len(s), s[i] = s[j] PROVE i = j
    <3>1. s[i] \in Payload BY <1>1
    <3>2. RequestIds[s[i]] # {} BY <1>2, <3>1
    <3>3. SUFFICES ASSUME i # j PROVE FALSE OBVIOUS
    <3>4. RequestIds[s[i]] \cap RequestIds[s[j]] = {} BY <3>3
    <3> QED BY <3>2, <3>4, <2>1
  <2>2. DOMAIN s = 1..Len(s) BY <1>1
  <2>3. IsInjective(s) BY <2>1, <2>2 DEF IsInjective
  <2> QED BY <1>1, <2>3 DEF Injection
<1>4. Cardinality(1..Len(s)) = Len(s)
  <2> DEFINE n == Len(s)
  <2>1. n \in Nat /\ 1 \in Int /\ n \in Int BY <1>1
  <2> HIDE DEF n
  <2>2. Cardinality(1..n) = IF 1 > n THEN 0 ELSE n - 1 + 1 BY <2>1, FS_Interval
  <2>3. Cardinality(1..n) = n BY <2>1, <2>2
  <2> QED BY <2>3 DEF n
<1>5. Cardinality(Payload) \in Nat BY FS_CardinalityType
<1>6. Len(s) <= Cardinality(Payload) BY <1>3, <1>4, FS_Injection
<1>7. Len(s) \in 0..Cardinality(Payload) BY <1>1, <1>5, <1>6
<1> QED BY <1>1, <1>7 DEF BoundedSeq, SeqOf

\* The receipt at hand is one of those that are stored.
LEMMA AtHandIsReceived ==
    ASSUME ReceiptsInv, NEW w \in Worker, todo[w] # {}
    PROVE  /\ Min(todo[w]) \in todo[w] /\ Min(todo[w]) \in 1..Len(received)
           /\ AtHand(w) \in Payload /\ AtHand(w) \in ToSet(received)
<1>1. received \in Seq(Payload) /\ todo[w] \subseteq 1..Len(received)
  BY DEF ReceiptsInv, ReceiptsTypeOK, BoundedSeq, SeqOf
<1>2. Len(received) \in Nat BY <1>1
<1>3. Min(todo[w]) \in todo[w] BY <1>1, <1>2, OldestIsListed
<1>4. DOMAIN received = 1..Len(received) BY <1>1
<1> QED BY <1>1, <1>3, <1>4 DEF AtHand, ToSet

\* A run leaves the oldest receipt behind, or all of them.
LEMMA RestIsListed ==
    ASSUME ReceiptsInv, NEW w \in Worker, todo' = Rest(w)
    PROVE  todo' \in [Worker -> SUBSET (1..Len(received))]
<1>1. todo \in [Worker -> SUBSET (1..Len(received))] BY DEF ReceiptsInv, ReceiptsTypeOK
<1>2. todo[w] \ {Min(todo[w])} \subseteq 1..Len(received) BY <1>1
<1>3. todo' = [todo EXCEPT ![w] = todo[w] \ {Min(todo[w])}] BY <1>1 DEF Rest
<1> HIDE DEF ReceiptsInv
<1> QED BY <1>1, <1>2, <1>3

\* The lease after a run has left it.
LEMMA LeaseLeft ==
    ASSUME LeaseTypeOK, NEW w \in Worker, Release(w) \/ Acquire(w) \/ Lapse \/ UNCHANGED leaseVars
    PROVE  LeaseTypeOK'
BY DEF LeaseTypeOK, Release, Acquire, Lapse, leaseVars

\* A run ends: it has no list, and nothing is open.
LEMMA RunIsLeft ==
    ASSUME ReceiptsInv, NEW w \in Worker, LeaveRun(w), UNCHANGED received
    PROVE  /\ step' \in [Worker -> {"idle", "visit", "fetch", "commit"}]
           /\ todo' \in [Worker -> SUBSET (1..Len(received'))]
           /\ change' \in [Worker -> Change]
           /\ OpenOK'
<1>1. /\ step \in [Worker -> {"idle", "visit", "fetch", "commit"}]
      /\ todo \in [Worker -> SUBSET (1..Len(received))] /\ change \in [Worker -> Change] /\ OpenOK
  BY DEF ReceiptsInv, ReceiptsTypeOK
<1>2. /\ step' = [step EXCEPT ![w] = "idle"] /\ todo' = [todo EXCEPT ![w] = {}]
      /\ change' = [change EXCEPT ![w] = "none"]
  BY DEF LeaveRun
<1> QED BY <1>1, <1>2 DEF OpenOK, Change

\* What the transaction of a run stores is of its receipt, and in types.
LEMMA ChangeIsStored ==
    ASSUME ReceiptsInv, NEW w \in Worker, NEW p \in Payload, StoreChange(w, p)
    PROVE  /\ orderEvents' \subseteq Payload /\ orderTime' \in Nat
           /\ proposed' \subseteq [receipt : Payload, request : Request]
           /\ \A e \in proposed' : e \in proposed \/ (e.receipt = p /\ e.request \in RequestIds[p])
           /\ change[w] # "items" => proposed' = proposed
<1>1. /\ orderEvents \subseteq Payload /\ orderTime \in Nat
      /\ proposed \subseteq [receipt : Payload, request : Request]
  BY DEF ReceiptsInv, ReceiptsTypeOK
<1>2. RequestIds[p] \subseteq Request /\ OccurredAt[p] \in Nat BY OrderReceiptsAssumption
<1> DEFINE new == {[receipt |-> p, request |-> r] : r \in RequestIds[p]}
<1>3. new \subseteq [receipt : Payload, request : Request] BY <1>2
<1>4. \A e \in new : e.receipt = p /\ e.request \in RequestIds[p] OBVIOUS
<1>5. proposed' = proposed \/ (change[w] = "items" /\ proposed' = proposed \cup new)
  BY DEF StoreChange
<1>6. orderEvents' \subseteq Payload /\ orderTime' \in Nat BY <1>1, <1>2 DEF StoreChange
<1> HIDE DEF new
<1> QED BY <1>1, <1>3, <1>4, <1>5, <1>6

\* A run lists receipts: the lease is taken, and the queued ones are positions.
LEMMA StartKeeps == ASSUME ReceiptsInv, NEW w \in Worker, StartRun(w) PROVE ReceiptsInv'
<1>1. /\ step \in [Worker -> {"idle", "visit", "fetch", "commit"}]
      /\ todo \in [Worker -> SUBSET (1..Len(received))] /\ LeaseTypeOK /\ OpenOK
      /\ received \in Seq(Payload)
  BY DEF ReceiptsInv, ReceiptsTypeOK, BoundedSeq, SeqOf
<1>2. UNCHANGED <<received, processed, deliveries, acknowledged, orderEvents, proposed, orderTime,
                  change, runFaults>>
  BY DEF StartRun, receiptVars, orderVars
<1>3. LeaseTypeOK' BY <1>1, LeaseLeft DEF StartRun
<1> DEFINE listed == {i \in Queued : Cardinality(QueuedBefore(i)) < ReceiptBatch}
<1>4. listed \subseteq 1..Len(received) BY <1>1 DEF Queued
<1>5. step' = [step EXCEPT ![w] = "visit"] /\ todo' = [todo EXCEPT ![w] = listed] BY DEF StartRun
<1> HIDE DEF listed
<1>6. /\ todo' \in [Worker -> SUBSET (1..Len(received'))]
      /\ step' \in [Worker -> {"idle", "visit", "fetch", "commit"}]
  BY <1>1, <1>2, <1>4, <1>5
<1>7. OpenOK' BY <1>1, <1>2, <1>5 DEF OpenOK
<1>8. ReceiptsTypeOK' BY <1>2, <1>3, <1>6 DEF ReceiptsInv, ReceiptsTypeOK
<1>9. Disjoint' /\ ProposalsOK' BY <1>2 DEF ReceiptsInv, Disjoint, ProposalsOK
<1> QED BY <1>7, <1>8, <1>9 DEF ReceiptsInv

\* A receipt is visited: it stays on the list unless it is passed over.
LEMMA VisitKeeps == ASSUME ReceiptsInv, NEW w \in Worker, VisitReceipt(w) PROVE ReceiptsInv'
<1>1. /\ step \in [Worker -> {"idle", "visit", "fetch", "commit"}]
      /\ todo \in [Worker -> SUBSET (1..Len(received))] /\ LeaseTypeOK /\ OpenOK
      /\ change \in [Worker -> Change]
  BY DEF ReceiptsInv, ReceiptsTypeOK
<1>2. /\ UNCHANGED <<holder, live, received, processed, deliveries, acknowledged, orderEvents,
                     proposed, orderTime, runFaults>>
      /\ step[w] = "visit" /\ todo[w] # {}
  BY DEF VisitReceipt, receiptVars, orderVars, leaseVars
<1>3. \/ todo' = Rest(w) /\ UNCHANGED <<step, change>>
      \/ /\ step' = [step EXCEPT ![w] = "commit"] /\ change' = [change EXCEPT ![w] = "duplicate"]
         /\ UNCHANGED todo
      \/ /\ step' = [step EXCEPT ![w] = "fetch"] /\ change' = [change EXCEPT ![w] = "event"]
         /\ UNCHANGED todo
  BY DEF VisitReceipt
<1>4. todo' \in [Worker -> SUBSET (1..Len(received'))] BY <1>1, <1>2, <1>3, RestIsListed
<1>5. /\ step' \in [Worker -> {"idle", "visit", "fetch", "commit"}]
      /\ change' \in [Worker -> Change]
  BY <1>1, <1>3 DEF Change
<1>6. OpenOK'
  <2>1. CASE todo' = Rest(w) /\ UNCHANGED <<step, change>>
    <3>1. todo' = [todo EXCEPT ![w] = todo[w] \ {Min(todo[w])}] BY <1>1, <2>1 DEF Rest
    <3>2. \A v \in Worker : v # w => todo'[v] = todo[v] BY <1>1, <3>1
    <3> QED BY <1>1, <1>2, <2>1, <3>2 DEF OpenOK
  <2>2. CASE ~(todo' = Rest(w) /\ UNCHANGED <<step, change>>)
    BY <1>1, <1>2, <1>3, <2>2 DEF OpenOK
  <2> QED BY <2>1, <2>2
<1>7. ReceiptsTypeOK'
  BY <1>2, <1>4, <1>5 DEF ReceiptsInv, ReceiptsTypeOK, LeaseTypeOK
<1>8. Disjoint' /\ ProposalsOK' BY <1>2 DEF ReceiptsInv, Disjoint, ProposalsOK
<1> QED BY <1>6, <1>7, <1>8 DEF ReceiptsInv

\* The provider's answer is staged, nothing is stored.
LEMMA UpsertKeeps == ASSUME ReceiptsInv, NEW w \in Worker, UpsertFromReceipt(w) PROVE ReceiptsInv'
<1>1. /\ step \in [Worker -> {"idle", "visit", "fetch", "commit"}] /\ change \in [Worker -> Change]
      /\ OpenOK
  BY DEF ReceiptsInv, ReceiptsTypeOK
<1>2. /\ UNCHANGED <<holder, live, received, processed, deliveries, acknowledged, orderEvents,
                     proposed, orderTime, todo, runFaults>>
      /\ step[w] = "fetch" /\ step' = [step EXCEPT ![w] = "commit"]
  BY DEF UpsertFromReceipt, receiptVars, orderVars, leaseVars
<1>3. PICK made \in {"stale", "items", "noItems"} : change' = [change EXCEPT ![w] = made]
  BY DEF UpsertFromReceipt
<1>4. /\ step' \in [Worker -> {"idle", "visit", "fetch", "commit"}]
      /\ change' \in [Worker -> Change]
  BY <1>1, <1>2, <1>3 DEF Change
<1>5. OpenOK' BY <1>1, <1>2, <1>3 DEF OpenOK
<1>6. ReceiptsTypeOK' BY <1>2, <1>4 DEF ReceiptsInv, ReceiptsTypeOK, LeaseTypeOK
<1>7. Disjoint' /\ ProposalsOK' BY <1>2 DEF ReceiptsInv, Disjoint, ProposalsOK
<1> QED BY <1>5, <1>6, <1>7 DEF ReceiptsInv

\* A run commits: the requests it proposes are those of a stored receipt, which is
\* processed with them.
LEMMA CommitKeeps == ASSUME ReceiptsInv, NEW w \in Worker, CommitReceipt(w) PROVE ReceiptsInv'
<1>1. /\ step \in [Worker -> {"idle", "visit", "fetch", "commit"}] /\ change \in [Worker -> Change]
      /\ todo \in [Worker -> SUBSET (1..Len(received))] /\ OpenOK /\ processed \subseteq Payload
      /\ ProposalsOK
  BY DEF ReceiptsInv, ReceiptsTypeOK
<1> DEFINE p == AtHand(w)
<1>2. /\ UNCHANGED <<holder, live, received, deliveries, acknowledged, runFaults>>
      /\ step[w] = "commit" /\ step' = [step EXCEPT ![w] = "visit"]
      /\ change' = [change EXCEPT ![w] = "none"] /\ todo' = Rest(w)
      /\ processed' = processed \cup {p} /\ StoreChange(w, p)
  BY DEF CommitReceipt, leaseVars
<1>3. todo[w] # {} BY <1>1, <1>2 DEF OpenOK
<1>4. p \in Payload /\ p \in ToSet(received) BY <1>3, AtHandIsReceived
<1> HIDE DEF p
<1>5. todo' \in [Worker -> SUBSET (1..Len(received'))] BY <1>2, RestIsListed
<1>6. /\ step' \in [Worker -> {"idle", "visit", "fetch", "commit"}]
      /\ change' \in [Worker -> Change]
  BY <1>1, <1>2 DEF Change
<1>7. /\ orderEvents' \subseteq Payload /\ orderTime' \in Nat
      /\ proposed' \subseteq [receipt : Payload, request : Request]
      /\ \A e \in proposed' : e \in proposed \/ (e.receipt = p /\ e.request \in RequestIds[p])
  BY <1>2, <1>4, ChangeIsStored
<1>8. ProposalsOK' BY <1>1, <1>2, <1>4, <1>7 DEF ProposalsOK, ToSet
<1>9. OpenOK'
  <2>1. todo' = [todo EXCEPT ![w] = todo[w] \ {Min(todo[w])}] BY <1>1, <1>2 DEF Rest
  <2>2. \A v \in Worker : v # w => todo'[v] = todo[v] BY <1>1, <2>1
  <2> QED BY <1>1, <1>2, <2>2 DEF OpenOK
<1>10. ReceiptsTypeOK'
  BY <1>1, <1>2, <1>4, <1>5, <1>6, <1>7 DEF ReceiptsInv, ReceiptsTypeOK, LeaseTypeOK
<1>11. Disjoint' BY <1>2 DEF ReceiptsInv, Disjoint
<1> QED BY <1>8, <1>9, <1>10, <1>11 DEF ReceiptsInv

\* A run is over, by its end or by a fault: what it had staged is gone.
LEMMA LeavingKeeps ==
    ASSUME ReceiptsInv, NEW w \in Worker, LeaveRun(w), LeaseTypeOK', runFaults' \in 0..MaxRunFaults,
           UNCHANGED <<received, processed, deliveries, acknowledged, orderEvents, proposed, orderTime>>
    PROVE  ReceiptsInv'
<1>1. /\ step' \in [Worker -> {"idle", "visit", "fetch", "commit"}]
      /\ todo' \in [Worker -> SUBSET (1..Len(received'))]
      /\ change' \in [Worker -> Change] /\ OpenOK'
  BY RunIsLeft
<1>2. ReceiptsTypeOK' BY <1>1 DEF ReceiptsInv, ReceiptsTypeOK
<1>3. Disjoint' /\ ProposalsOK' BY DEF ReceiptsInv, Disjoint, ProposalsOK
<1> QED BY <1>1, <1>2, <1>3 DEF ReceiptsInv

\* A run that times out has the event of its receipt stored, and proposes nothing.
LEMMA TimeOutKeeps == ASSUME ReceiptsInv, NEW w \in Worker, TimeOutRun(w) PROVE ReceiptsInv'
<1>1. LeaseTypeOK /\ OpenOK /\ runFaults \in 0..MaxRunFaults
  BY DEF ReceiptsInv, ReceiptsTypeOK
<1> DEFINE p == AtHand(w)
<1>2. /\ UNCHANGED <<received, processed, deliveries, acknowledged>>
      /\ step[w] = "fetch" /\ LeaveRun(w) /\ Release(w) /\ StoreChange(w, p) /\ RunFault
  BY DEF TimeOutRun, receiptVars
<1>3. todo[w] # {} /\ change[w] = "event" BY <1>1, <1>2 DEF OpenOK
<1>4. p \in Payload BY <1>3, AtHandIsReceived
<1> HIDE DEF p
<1>5. orderEvents' \subseteq Payload /\ orderTime' \in Nat /\ proposed' = proposed
  BY <1>2, <1>3, <1>4, ChangeIsStored
<1>6. LeaseTypeOK' BY <1>1, <1>2, LeaseLeft
<1>7. runFaults' \in 0..MaxRunFaults BY <1>1, <1>2, OrderReceiptsAssumption DEF RunFault
<1>8. /\ step' \in [Worker -> {"idle", "visit", "fetch", "commit"}]
      /\ todo' \in [Worker -> SUBSET (1..Len(received'))]
      /\ change' \in [Worker -> Change] /\ OpenOK'
  BY <1>2, RunIsLeft
<1>9. ReceiptsTypeOK' BY <1>2, <1>5, <1>6, <1>7, <1>8 DEF ReceiptsInv, ReceiptsTypeOK
<1>10. Disjoint' /\ ProposalsOK' BY <1>2, <1>5 DEF ReceiptsInv, Disjoint, ProposalsOK
<1> QED BY <1>8, <1>9, <1>10 DEF ReceiptsInv

\* A payload becomes a receipt only if none of its requests is known.
LEMMA AcceptKeeps ==
    ASSUME IsFiniteSet(Payload), ReceiptsInv, NEW p \in Payload, AcceptTapsishop(p)
    PROVE  ReceiptsInv'
<1>1. /\ received \in Seq(Payload) /\ todo \in [Worker -> SUBSET (1..Len(received))]
      /\ Disjoint /\ acknowledged \subseteq Payload /\ deliveries \in 0..MaxDeliveries
      /\ processed \subseteq ToSet(received)
  BY DEF ReceiptsInv, ReceiptsTypeOK, ProposalsOK, BoundedSeq, SeqOf
<1>2. /\ UNCHANGED <<holder, live, processed, orderEvents, proposed, orderTime, step, todo, change,
                     runFaults>>
      /\ deliveries < MaxDeliveries /\ deliveries' = deliveries + 1
      /\ acknowledged' \in {acknowledged \cup {p}, acknowledged}
  BY DEF AcceptTapsishop, leaseVars, orderVars, stepVars
<1>d. deliveries' \in 0..MaxDeliveries /\ acknowledged' \subseteq Payload
  BY <1>1, <1>2, OrderReceiptsAssumption
<1>3. CASE NewPayload(p)
  <2>1. received' = Append(received, p) BY <1>3 DEF AcceptTapsishop
  <2>2. /\ received' \in Seq(Payload) /\ Len(received') = Len(received) + 1 /\ Len(received) \in Nat
        /\ received'[Len(received) + 1] = p
        /\ \A i \in 1..Len(received) : received'[i] = received[i]
    BY <1>1, <2>1
  <2>3. \A i \in 1..Len(received) : RequestIds[received[i]] \cap RequestIds[p] = {}
    <3> TAKE i \in 1..Len(received)
    <3>1. received[i] \in ToSet(received) BY <1>1 DEF ToSet
    <3> QED BY <3>1, <1>3 DEF NewPayload, Overlaps
  <2>4. Disjoint'
    <3> SUFFICES ASSUME NEW i \in 1..Len(received'), NEW j \in 1..Len(received'), i # j
                 PROVE  RequestIds[received'[i]] \cap RequestIds[received'[j]] = {}
      BY DEF Disjoint
    <3>1. /\ i \in 1..Len(received) \/ i = Len(received) + 1
          /\ j \in 1..Len(received) \/ j = Len(received) + 1
      BY <2>2
    <3>2. CASE i \in 1..Len(received) /\ j \in 1..Len(received)
      BY <1>1, <2>2, <3>2 DEF Disjoint
    <3>3. CASE i \in 1..Len(received) /\ j = Len(received) + 1
      BY <2>2, <2>3, <3>3
    <3>4. CASE i = Len(received) + 1 /\ j \in 1..Len(received)
      BY <2>2, <2>3, <3>4
    <3> QED BY <3>1, <3>2, <3>3, <3>4
  <2>5. received' \in BoundedSeq(Payload, Cardinality(Payload))
    <3>1. \A i, j \in 1..Len(received') :
              i # j => RequestIds[received'[i]] \cap RequestIds[received'[j]] = {}
      BY <2>4 DEF Disjoint
    <3> QED BY <2>2, <3>1, ReceiptsAreFew
  <2>6. todo' \in [Worker -> SUBSET (1..Len(received'))]
    <3>1. 1..Len(received) \subseteq 1..Len(received') BY <2>2
    <3>2. todo \in [Worker -> SUBSET (1..Len(received'))] BY <1>1, <3>1
    <3> QED BY <1>2, <3>2
  <2>7. processed' \subseteq ToSet(received')
    <3>1. \A i \in DOMAIN received : i \in DOMAIN received' /\ received'[i] = received[i]
      BY <1>1, <2>2
    <3> QED BY <1>1, <1>2, <3>1 DEF ToSet
  <2>8. ReceiptsTypeOK'
    BY <1>1, <1>2, <1>d, <2>5, <2>6 DEF ReceiptsInv, ReceiptsTypeOK, LeaseTypeOK
  <2>9. OpenOK' /\ ProposalsOK' BY <1>2, <2>7 DEF ReceiptsInv, OpenOK, ProposalsOK
  <2> QED BY <2>4, <2>8, <2>9 DEF ReceiptsInv
<1>4. CASE ~NewPayload(p)
  <2>1. received' = received BY <1>4 DEF AcceptTapsishop
  <2>2. ReceiptsTypeOK' BY <1>1, <1>2, <1>d, <2>1 DEF ReceiptsInv, ReceiptsTypeOK, LeaseTypeOK
  <2> QED BY <1>2, <2>1, <2>2 DEF ReceiptsInv, Disjoint, OpenOK, ProposalsOK
<1> QED BY <1>3, <1>4

\* Every step of the provider, of the runs and of the clock keeps the invariant.
LEMMA ReceiptsStep ==
    ASSUME IsFiniteSet(Payload)
    PROVE  ReceiptsInv /\ [ReceiptsNext]_receiptsVars => ReceiptsInv'
<1> SUFFICES ASSUME ReceiptsInv, [ReceiptsNext]_receiptsVars PROVE ReceiptsInv'
  OBVIOUS
<1>t. LeaseTypeOK /\ runFaults \in 0..MaxRunFaults BY DEF ReceiptsInv, ReceiptsTypeOK
<1>f. RunFault => runFaults' \in 0..MaxRunFaults
  BY <1>t, OrderReceiptsAssumption DEF RunFault
<1>1. ASSUME NEW p \in Payload, AcceptTapsishop(p) PROVE ReceiptsInv' BY <1>1, AcceptKeeps
<1>2. ASSUME NEW w \in Worker, StartRun(w) PROVE ReceiptsInv' BY <1>2, StartKeeps
<1>3. ASSUME NEW w \in Worker, VisitReceipt(w) PROVE ReceiptsInv' BY <1>3, VisitKeeps
<1>4. ASSUME NEW w \in Worker, UpsertFromReceipt(w) PROVE ReceiptsInv' BY <1>4, UpsertKeeps
<1>5. ASSUME NEW w \in Worker, CommitReceipt(w) PROVE ReceiptsInv' BY <1>5, CommitKeeps
<1>6. ASSUME NEW w \in Worker, EndRun(w) \/ LoseLease(w) \/ FailRun(w) PROVE ReceiptsInv'
  <2>1. /\ LeaveRun(w) /\ Release(w) /\ (RunFault \/ UNCHANGED runFaults)
        /\ UNCHANGED <<received, processed, deliveries, acknowledged, orderEvents, proposed, orderTime>>
    BY <1>6 DEF EndRun, LoseLease, FailRun, receiptVars, orderVars
  <2>2. LeaseTypeOK' BY <1>t, <2>1, LeaseLeft
  <2> QED BY <1>t, <1>f, <2>1, <2>2, LeavingKeeps
<1>7. ASSUME NEW w \in Worker, TimeOutRun(w) PROVE ReceiptsInv' BY <1>7, TimeOutKeeps
<1>8. ASSUME NEW w \in Worker, CrashRun(w) PROVE ReceiptsInv'
  <2>1. /\ LeaveRun(w) /\ RunFault /\ UNCHANGED <<holder, live>>
        /\ UNCHANGED <<received, processed, deliveries, acknowledged, orderEvents, proposed, orderTime>>
    BY <1>8 DEF CrashRun, leaseVars, receiptVars, orderVars
  <2>2. LeaseTypeOK' BY <1>t, <2>1 DEF LeaseTypeOK
  <2> QED BY <1>f, <2>1, <2>2, LeavingKeeps
<1>9. ASSUME StallRun \/ LapseLeft PROVE ReceiptsInv'
  <2>1. /\ Lapse /\ (RunFault \/ UNCHANGED runFaults)
        /\ UNCHANGED <<received, processed, deliveries, acknowledged, orderEvents, proposed, orderTime,
                       step, todo, change>>
    BY <1>9 DEF StallRun, LapseLeft, receiptVars, orderVars, stepVars
  <2>2. LeaseTypeOK' BY <1>t, <2>1 DEF LeaseTypeOK, Lapse
  <2>3. runFaults' \in 0..MaxRunFaults BY <1>t, <1>f, <2>1
  <2> QED BY <2>1, <2>2, <2>3 DEF ReceiptsInv, ReceiptsTypeOK, Disjoint, OpenOK, ProposalsOK
<1>10. ASSUME UNCHANGED receiptsVars PROVE ReceiptsInv'
  BY <1>10 DEF receiptsVars, leaseVars, receiptVars, orderVars, stepVars, ReceiptsInv, ReceiptsTypeOK,
     LeaseTypeOK, Disjoint, OpenOK, ProposalsOK
<1> QED
  BY <1>1, <1>2, <1>3, <1>4, <1>5, <1>6, <1>7, <1>8, <1>9, <1>10 DEF ReceiptsNext, RunAdvance

\* Nothing has been received, proposed or listed.
LEMMA ReceiptsStart == ASSUME IsFiniteSet(Payload) PROVE ReceiptsInit => ReceiptsInv
<1> SUFFICES ASSUME ReceiptsInit PROVE ReceiptsInv
  OBVIOUS
<1>1. received = <<>> /\ Len(received) = 0 /\ received \in Seq(Payload) BY DEF ReceiptsInit
<1>2. received \in BoundedSeq(Payload, Cardinality(Payload))
  <2>1. \A i, j \in 1..Len(received) :
            i # j => RequestIds[received[i]] \cap RequestIds[received[j]] = {}
    BY <1>1
  <2>2. received \in Seq(Payload) BY <1>1
  <2> QED BY <2>1, <2>2, ReceiptsAreFew
<1>3. /\ todo \in [Worker -> SUBSET (1..Len(received))]
      /\ step \in [Worker -> {"idle", "visit", "fetch", "commit"}] /\ change \in [Worker -> Change]
  BY DEF ReceiptsInit, Change
<1>4. LeaseTypeOK BY DEF ReceiptsInit, LeaseInit, LeaseTypeOK
<1>5. ReceiptsTypeOK BY <1>2, <1>3, <1>4, OrderReceiptsAssumption DEF ReceiptsInit, ReceiptsTypeOK
<1>6. Disjoint BY <1>1 DEF Disjoint
<1>7. OpenOK /\ ProposalsOK BY DEF ReceiptsInit, OpenOK, ProposalsOK
<1> QED BY <1>5, <1>6, <1>7 DEF ReceiptsInv

\* The receipts, runs and proposals are as the lemmas above need them, always.
THEOREM ReceiptsInvariant ==
    ASSUME IsFiniteSet(Payload) PROVE ReceiptsSpec => []ReceiptsInv
BY ReceiptsStart, ReceiptsStep, PTL DEF ReceiptsSpec

\* Two proposals for the same request are of receipts that share it.
LEMMA ProposalsAreOnce == ReceiptsInv => ProposedOnce
<1> SUFFICES ASSUME ReceiptsInv, NEW e \in proposed, NEW f \in proposed, e.request = f.request
             PROVE  e = f
  BY DEF ProposedOnce, ReceiptsInv, ProposalsOK
<1>1. /\ proposed \subseteq [receipt : Payload, request : Request]
      /\ Disjoint /\ ProposalsOK
  BY DEF ReceiptsInv, ReceiptsTypeOK
<1>2. PICK i \in DOMAIN received : received[i] = e.receipt BY <1>1 DEF ProposalsOK, ToSet
<1>3. PICK j \in DOMAIN received : received[j] = f.receipt BY <1>1 DEF ProposalsOK, ToSet
<1>4. DOMAIN received = 1..Len(received)
  BY DEF ReceiptsInv, ReceiptsTypeOK, BoundedSeq, SeqOf
<1>5. e.request \in RequestIds[e.receipt] \cap RequestIds[f.receipt] BY <1>1 DEF ProposalsOK
<1>6. i = j BY <1>1, <1>2, <1>3, <1>4, <1>5 DEF Disjoint
<1>7. e.receipt = f.receipt BY <1>2, <1>3, <1>6
<1> QED BY <1>1, <1>7

\* Rows and runs keep their types: a receipt per payload at most, and a run lists
\* receipts that are stored.
THEOREM ReceiptsTypeIsOK ==
    ASSUME IsFiniteSet(Payload) PROVE ReceiptsSpec => []ReceiptsTypeOK
<1>1. ReceiptsInv => ReceiptsTypeOK BY DEF ReceiptsInv
<1> QED BY ReceiptsInvariant, <1>1, PTL

\* An item request is proposed once: through redelivered payloads and batches that
\* overlap, and with runs that fail, time out, crash or lose their lease.
THEOREM RequestsAreProposedOnce ==
    ASSUME IsFiniteSet(Payload) PROVE ReceiptsSpec => []ProposedOnce
BY ReceiptsInvariant, ProposalsAreOnce, PTL

(* Both kinds of requests side by side *)

\* With users and a provider at work, the rows of both have their types.
THEOREM RequestsTypeIsOK ==
    ASSUME IsFiniteSet(Payload) PROVE RequestsSpec => []RequestsTypeOK
<1>1. RequestsInit => ReceiptsInv /\ ReviewInv
  BY ReceiptsStart, ReviewStart DEF RequestsInit
<1>2. ReceiptsInv /\ ReviewInv /\ [RequestsNext]_requestsVars => (ReceiptsInv /\ ReviewInv)'
  <2>1. [RequestsNext]_requestsVars => [ReceiptsNext]_receiptsVars /\ [ReviewNext]_reviewVars
    BY DEF RequestsNext, requestsVars
  <2> QED BY <2>1, ReceiptsStep, ReviewStep
<1>3. ReceiptsInv /\ ReviewInv => RequestsTypeOK
  BY ReviewTyping DEF RequestsTypeOK, ReceiptsInv
<1> QED BY <1>1, <1>2, <1>3, PTL DEF RequestsSpec
=============================================================================
