----------------------------- MODULE EntityWork -----------------------------
(***************************************************************************)
(* Targeted reads of one product, driven by webhook receipts:              *)
(* dl_channel_entity_work rows, their receipts, and the runner processes   *)
(* that recover, link, claim, read and complete (ChannelEntityWorkRunner). *)
(* All receipts are about the one product, so that one row is active at a  *)
(* time.  A row number is used again once its row is over and no runner    *)
(* refers to it.                                                           *)
(***************************************************************************)
EXTENDS WebhookReceipts, FiniteSets

CONSTANTS
    Runner,
    Row,
    MaxRuns,     \* max_attempts of a row
    MaxFaults,   \* bound on crashes and on leases lost while at work
    NoProduct,   \* receipts whose payload has no product id
    ReadMayFail  \* whether reads and the Listing guard may fail

ASSUME EntityWorkAssumption ==
    /\ MaxRuns \in Nat \ {0} /\ MaxFaults \in Nat
    /\ NoProduct \subseteq Receipt
    /\ ReadMayFail \in BOOLEAN

VARIABLES
    status,     \* status of each row, "none" while the number is unused
    runs,       \* attempt_count, capped at MaxRuns
    leased,     \* rows whose lease has not expired
    waits,      \* pending rows whose next_attempt_at is in the future
    superseded, \* rows with superseded_at set
    links,      \* dl_channel_entity_work_receipts of each row
    pc,         \* where each runner's run_once is
    todo,       \* receipts a runner has still to link or to flip
    row,        \* row a runner works on, or NoRow
    loaded,     \* status and superseded_at of that row as the session has them
    outcome,    \* what the runner has to record
    seen,       \* receipts accepted before the provider answered
    covered,    \* receipts observed after they were accepted
    faults

rowVars == <<status, runs, leased, waits, superseded, links>>
runVars == <<pc, todo, row, loaded, outcome, seen>>
vars == <<receiptVars, rowVars, runVars, covered, faults>>

NoRow == "no row"
NotLoaded == [status |-> "none", superseded |-> FALSE]

Init ==
    /\ ReceiptInit
    /\ status = [k \in Row |-> "none"]
    /\ runs = [k \in Row |-> 0]
    /\ leased = {}
    /\ waits = {}
    /\ superseded = {}
    /\ links = [k \in Row |-> {}]
    /\ pc = [w \in Runner |-> "idle"]
    /\ todo = [w \in Runner |-> {}]
    /\ row = [w \in Runner |-> NoRow]
    /\ loaded = [w \in Runner |-> NotLoaded]
    /\ outcome = [w \in Runner |-> "ok"]
    /\ seen = [w \in Runner |-> {}]
    /\ covered = {}
    /\ faults = 0

At(w, p) == pc[w] = p
Goto(w, p) == pc' = [pc EXCEPT ![w] = p]

Active(k) == status[k] \in {"pending", "running"}
Terminal(k) == status[k] \in {"completed", "failed"}
Reusable(k) == 
    \/ status[k] = "none"
    \/ Terminal(k) /\ \A w \in Runner : row[w] # k

\* run_once ends, or an exception ends it: the sessions are closed.
Leave(w) ==
    /\ pc' = [pc EXCEPT ![w] = "idle"]
    /\ todo' = [todo EXCEPT ![w] = {}]
    /\ row' = [row EXCEPT ![w] = NoRow]
    /\ loaded' = [loaded EXCEPT ![w] = NotLoaded]
    /\ outcome' = [outcome EXCEPT ![w] = "ok"]
    /\ seen' = [seen EXCEPT ![w] = {}]

-----------------------------------------------------------------------------
(* recover_expired_entity_work                                             *)

RetriesLeft(k) == runs[k] < MaxRuns

Expired(k) == status[k] = "running" /\ k \notin leased

\* Expired rows are made pending again, or failed; the failed ones commit before
\* their receipts are flipped.
Recover(w) ==
    /\ At(w, "idle")
    /\ IF \E k \in Row : Expired(k)
       THEN \E k \in Row :
              /\ Expired(k)
              /\ status' = [status EXCEPT ![k] = IF RetriesLeft(k) THEN "pending"
                                                 ELSE "failed"]
              /\ waits' = waits \ {k}
              /\ IF RetriesLeft(k)
                 THEN Goto(w, "sync") /\ UNCHANGED <<todo, row, outcome>>
                 ELSE /\ Goto(w, "r_flip")
                      /\ row' = [row EXCEPT ![w] = k]
                      /\ todo' = [todo EXCEPT ![w] = links[k]]
                      /\ outcome' = [outcome EXCEPT ![w] = "permanent"]
       ELSE Goto(w, "sync") /\ UNCHANGED <<status, waits, todo, row, outcome>>
    /\ UNCHANGED <<receiptVars, runs, leased, superseded, links, loaded, seen,
                   covered, faults>>

-----------------------------------------------------------------------------
(* sync_pending_woocommerce_receipts and enqueue_entity_work               *)

\* An error: a receipt that has been linked once counts as covered for good.
EverCovered == UNION {links[k] : k \in {m \in Row : status[m] # "none"}}

\* Receipts linked to a row that is still pending or running.
ActivelyCovered == UNION {links[k] : k \in {m \in Row : Active(m)}}

SelectReceipts(w) ==
    /\ At(w, "sync")
    /\ todo' = [todo EXCEPT ![w] = {r \in Receipt : Due(r)} \ ActivelyCovered]
    /\ Goto(w, "link")
    /\ UNCHANGED <<receiptVars, rowVars, row, loaded, outcome, seen, covered, faults>>

\* A receipt without product id fails for good.  Should another runner have
\* dead-lettered it meanwhile, the refusal ends the run, unless the session
\* still has the receipt as it was selected.
RejectReceipt(w) ==
    /\ At(w, "link")
    /\ \E r \in todo[w] \cap NoProduct :
          \/ Refused(r) /\ Leave(w) /\ UNCHANGED receiptVars
          \/ /\ IF Refused(r) THEN UNCHANGED receiptVars ELSE Process(r, "permanent")
             /\ todo' = [todo EXCEPT ![w] = @ \ {r}]
             /\ UNCHANGED <<pc, row, loaded, outcome, seen>>
    /\ UNCHANGED <<rowVars, covered, faults>>

\* Evidence for a row that is being read marks it, so that it is read again.
Supersede(k) ==
    superseded' = IF status[k] = "running" THEN superseded \cup {k} ELSE superseded

\* The insert finds no active row and makes one, or the active row is locked,
\* marked if it is running, and the receipt linked to it.
EnqueueReceipt(w) ==
    /\ At(w, "link")
    /\ \E r \in todo[w] \ NoProduct :
          /\ todo' = [todo EXCEPT ![w] = @ \ {r}]
          /\ \/ \E k \in Row :
                  /\ Active(k)
                  /\ links' = [links EXCEPT ![k] = @ \cup {r}]
                  /\ Supersede(k)
                  /\ UNCHANGED <<status, runs, waits, leased>>
             \/ /\ \A k \in Row : ~Active(k)
                /\ LET k == CHOOSE m \in Row : Reusable(m)
                   IN /\ status' = [status EXCEPT ![k] = "pending"]
                      /\ runs' = [runs EXCEPT ![k] = 0]
                      /\ links' = [links EXCEPT ![k] = {r}]
                      /\ superseded' = superseded \ {k}
                      /\ waits' = waits \ {k}
                      /\ leased' = leased \ {k}
    /\ UNCHANGED <<receiptVars, pc, row, loaded, outcome, seen, covered, faults>>

-----------------------------------------------------------------------------
(* claim_entity_work and _process_one                                      *)

\* An error: the claim does not count as an attempt.
CountNothing(k) == UNCHANGED runs

CountRun(k) == runs' = [runs EXCEPT ![k] = IF @ < MaxRuns THEN @ + 1 ELSE @]

ClaimWork(w) ==
    /\ At(w, "link")
    /\ todo[w] = {}
    /\ IF \E k \in Row : status[k] = "pending" /\ k \notin waits
       THEN \E k \in Row :
              /\ status[k] = "pending" /\ k \notin waits
              /\ status' = [status EXCEPT ![k] = "running"]
              /\ CountRun(k)
              /\ leased' = leased \cup {k}
              /\ superseded' = superseded \ {k}
              /\ row' = [row EXCEPT ![w] = k]
              /\ Goto(w, "load")
              /\ UNCHANGED <<todo, loaded, outcome, seen>>
       ELSE Leave(w) /\ UNCHANGED <<status, runs, leased, superseded>>
    /\ UNCHANGED <<receiptVars, waits, links, covered, faults>>

RowNow(k) == [status |-> status[k], superseded |-> k \in superseded]

\* The row is read again; unless it is running it is somebody else's business.
LoadWork(w) ==
    /\ At(w, "load")
    /\ IF status[row[w]] = "running"
       THEN /\ loaded' = [loaded EXCEPT ![w] = RowNow(row[w])]
            /\ Goto(w, "read")
            /\ UNCHANGED <<todo, row, outcome, seen>>
       ELSE Leave(w)
    /\ UNCHANGED <<receiptVars, rowVars, covered, faults>>

\* The provider answers: with the product, with nothing to store, or with an
\* error.
ReadProvider(w) ==
    /\ At(w, "read")
    /\ \/ /\ seen' = [seen EXCEPT ![w] = {r \in Receipt : Accepted(r)}]
          /\ Goto(w, "store")
          /\ UNCHANGED <<outcome, covered>>
       \/ /\ covered' = covered \cup {r \in Receipt : Accepted(r)}
          /\ Goto(w, "decide")
          /\ UNCHANGED <<outcome, seen>>
       \/ /\ \E o \in (IF ReadMayFail THEN {"transient", "permanent"} ELSE {}) :
                outcome' = [outcome EXCEPT ![w] = o]
          /\ Goto(w, "decide")
          /\ UNCHANGED <<seen, covered>>
    /\ UNCHANGED <<receiptVars, rowVars, todo, row, loaded, faults>>

\* The product cache row is committed, which makes the session read the work row
\* anew; or the Listing is locked by an Apply and the conflict counts as an
\* internal error.
StoreProduct(w) ==
    /\ At(w, "store")
    /\ Goto(w, "decide")
    /\ \/ /\ covered' = covered \cup seen[w]
          /\ loaded' = [loaded EXCEPT ![w] = RowNow(row[w])]
          /\ UNCHANGED outcome
       \/ /\ ReadMayFail
          /\ outcome' = [outcome EXCEPT ![w] = "permanent"]
          /\ UNCHANGED <<loaded, covered>>
    /\ UNCHANGED <<receiptVars, rowVars, todo, row, seen, faults>>

-----------------------------------------------------------------------------
(* complete_entity_work                                                    *)

\* Only a changed status is written.  A second active row violates the unique
\* index and ends the run.
WriteStatus(w, s) ==
    LET k == row[w]
        written == IF s = loaded[w].status THEN status[k] ELSE s
        clash == /\ written \in {"pending", "running"}
                 /\ \E m \in Row \ {k} : Active(m)
    IN status' = IF clash THEN status ELSE [status EXCEPT ![k] = written]

\* Fresher evidence arrived since the claim, as far as the session knows.
Overtaken(w) == outcome[w] = "ok" /\ loaded[w].superseded

RetryRow(w) == outcome[w] = "transient" /\ RetriesLeft(row[w])

Requeue(w) ==
    /\ At(w, "decide")
    /\ Overtaken(w) \/ RetryRow(w)
    /\ WriteStatus(w, "pending")
    /\ waits' = IF RetryRow(w) THEN waits \cup {row[w]} ELSE waits \ {row[w]}
    /\ Leave(w)
    /\ UNCHANGED <<receiptVars, runs, leased, superseded, links, covered, faults>>

\* An error: every receipt that is due is flipped, not only the linked ones.
DueReceipts(w) == {r \in Receipt : Due(r)}

LinkedReceipts(w) == links[row[w]]

\* flip_linked_receipts: the links are read once, then each receipt is
\* processed in a transaction of its own.
ReadLinks(w) ==
    /\ At(w, "decide")
    /\ ~Overtaken(w) /\ ~RetryRow(w)
    /\ todo' = [todo EXCEPT ![w] = LinkedReceipts(w)]
    /\ Goto(w, "flip")
    /\ UNCHANGED <<receiptVars, rowVars, row, loaded, outcome, seen, covered, faults>>

FlipReceipt(w) ==
    /\ At(w, "flip") \/ At(w, "r_flip")
    /\ \E r \in todo[w] :
          IF Refused(r)
          THEN Leave(w) /\ UNCHANGED receiptVars
          ELSE /\ Process(r, outcome[w])
               /\ todo' = [todo EXCEPT ![w] = @ \ {r}]
               /\ UNCHANGED <<pc, row, loaded, outcome, seen>>
    /\ UNCHANGED <<rowVars, covered, faults>>

Finish(w) ==
    /\ todo[w] = {}
    /\ \/ /\ At(w, "flip")
          /\ WriteStatus(w, IF outcome[w] = "ok" THEN "completed" ELSE "failed")
          /\ Leave(w)
       \/ /\ At(w, "r_flip")
          /\ Goto(w, "sync")
          /\ row' = [row EXCEPT ![w] = NoRow]
          /\ outcome' = [outcome EXCEPT ![w] = "ok"]
          /\ UNCHANGED <<status, todo, loaded, seen>>
    /\ UNCHANGED <<receiptVars, runs, leased, waits, superseded, links, covered, faults>>

-----------------------------------------------------------------------------
(* Faults, time and deliveries                                             *)

Crash(w) ==
    /\ ~At(w, "idle")
    /\ faults < MaxFaults
    /\ faults' = faults + 1
    /\ Leave(w)
    /\ UNCHANGED <<receiptVars, rowVars, covered>>

AtWorkOn(k) == \E w \in Runner : row[w] = k

\* The lease of a row nobody works on expires.
Expire ==
    /\ \E k \in leased : ~AtWorkOn(k) /\ leased' = leased \ {k}
    /\ UNCHANGED <<receiptVars, status, runs, waits, superseded, links, runVars,
                   covered, faults>>

\* The lease of a row whose reader is slow expires.
ExpireAtWork ==
    /\ faults < MaxFaults
    /\ faults' = faults + 1
    /\ \E k \in leased : AtWorkOn(k) /\ leased' = leased \ {k}
    /\ UNCHANGED <<receiptVars, status, runs, waits, superseded, links, runVars, covered>>

RowBackoffElapses ==
    /\ \E k \in waits : waits' = waits \ {k}
    /\ UNCHANGED <<receiptVars, status, runs, leased, superseded, links, runVars,
                   covered, faults>>

ReceiptStep ==
    /\ \E r \in Receipt : Accept(r) \/ ReplayLoad(r) \/ ReplayQueue(r)
    /\ UNCHANGED <<rowVars, runVars, covered, faults>>

ReceiptBackoffElapses ==
    /\ \E r \in Receipt : Elapse(r)
    /\ UNCHANGED <<rowVars, runVars, covered, faults>>

RunnerStep(w) ==
    \/ Recover(w) \/ SelectReceipts(w) \/ RejectReceipt(w) \/ EnqueueReceipt(w)
    \/ ClaimWork(w) \/ LoadWork(w) \/ ReadProvider(w) \/ StoreProduct(w)
    \/ Requeue(w) \/ ReadLinks(w) \/ FlipReceipt(w) \/ Finish(w)

Next ==
    \/ \E w \in Runner : RunnerStep(w) \/ Crash(w)
    \/ Expire \/ ExpireAtWork \/ RowBackoffElapses
    \/ ReceiptStep \/ ReceiptBackoffElapses

Spec == Init /\ [][Next]_vars

\* Runners tick forever, leases and backoffs run out.
FairSpec ==
    /\ Spec
    /\ \A w \in Runner : WF_vars(RunnerStep(w))
    /\ WF_vars(Expire) /\ WF_vars(RowBackoffElapses) /\ WF_vars(ReceiptBackoffElapses)

-----------------------------------------------------------------------------
(* Properties                                                              *)

TypeOK ==
    /\ ReceiptTypeOK
    /\ status \in [Row -> {"none", "pending", "running", "completed", "failed"}]
    /\ runs \in [Row -> 0..MaxRuns]
    /\ \A k \in Row : status[k] = "running" => runs[k] > 0
    /\ leased \subseteq Row /\ waits \subseteq Row /\ superseded \subseteq Row
    /\ links \in [Row -> SUBSET Receipt]
    /\ pc \in [Runner -> {"idle", "r_flip", "sync", "link", "load", "read", "store",
                          "decide", "flip"}]
    /\ todo \in [Runner -> SUBSET Receipt]
    /\ row \in [Runner -> Row \cup {NoRow}]
    /\ outcome \in [Runner -> Outcome]
    /\ seen \in [Runner -> SUBSET Receipt]
    /\ covered \subseteq Receipt
    /\ faults \in 0..MaxFaults

\* "The newest external observation always wins, and no event is silently
\* dropped": a processed receipt was followed by an observation of its product.
ProcessedIsObserved == \A r \in Receipt : state[r] = "processed" => r \in covered

\* A receipt that was processed is taken back only by a replay that had read it
\* before, never by a runner that is late.
ProcessedIsFinal ==
    [][\A r \in Receipt :
          state[r] = "processed" /\ state'[r] # "processed"
             => replayed[r] # NotReplayed]_vars

\* Every accepted receipt is settled in the end, also one that was left behind
\* a row that is over.
ReceiptsSettle == \A r \in Receipt : []<>(Accepted(r) => Settled(r))
=============================================================================
