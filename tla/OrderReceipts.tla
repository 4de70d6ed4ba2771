--------------------------- MODULE OrderReceipts ---------------------------
(***************************************************************************)
(* TapsiShop webhooks.  The HTTP handler stores a payload as a durable     *)
(* receipt together with the identity of every item request in it          *)
(* (webhooks/service.py); runs of the order service, one at a time under   *)
(* the channel lease, process the receipts oldest first, each in one       *)
(* transaction that awaits the provider in its middle (orders/service.py). *)
(***************************************************************************)
EXTENDS OrderLease, FiniteSets, SequencesExt

CONSTANTS
    Payload,        \* payloads the provider sends, and sends again
    Request,        \* requestId of one item of a payload
    RequestIds,     \* the requestIds in a payload
    OccurredAt,     \* the provider's time of a payload
    ReceiptBatch,   \* receipts one run lists (limit)
    MaxDeliveries,  \* bound on the requests the provider makes
    MaxRunFaults    \* bound on failures, time-outs, crashes and stalls of runs

ASSUME OrderReceiptsAssumption ==
    /\ RequestIds \in [Payload -> (SUBSET Request) \ {{}}]
    /\ OccurredAt \in [Payload -> Nat \ {0}]
    /\ ReceiptBatch \in Nat \ {0}
    /\ MaxDeliveries \in Nat /\ MaxRunFaults \in Nat

VARIABLES
    received,       \* the payloads with a receipt, by received_at
    processed,      \* those whose receipt has processing_state "processed"
    deliveries,     \* requests of the provider so far
    acknowledged,   \* payloads the provider got a success answer for
    orderEvents,    \* payloads with a channel_order_events row
    proposed,       \* channel_inventory_effects: [receipt, request]
    orderTime,      \* last_provider_event_at of the order, 0 without a row
    step,           \* where the run of a worker stands
    todo,           \* positions of the receipts it has listed and not yet visited
    change,         \* what its open transaction has staged for the current one
    runFaults       \* faults so far

receiptVars == <<received, processed, deliveries, acknowledged>>
orderVars == <<orderEvents, proposed, orderTime>>
stepVars == <<step, todo, change>>
receiptsVars == <<leaseVars, receiptVars, orderVars, stepVars, runFaults>>

\* "event": the event row is flushed and get_order awaited.  After the answer:
\* "duplicate" event, "stale" (older than the order row), "items" of the
\* payload, or the order as the provider shows it, which has no items.
Change == {"none", "event", "duplicate", "stale", "items", "noItems"}

ReceiptsTypeOK ==
    /\ LeaseTypeOK
    /\ received \in BoundedSeq(Payload, Cardinality(Payload))
    /\ processed \subseteq Payload /\ acknowledged \subseteq Payload
    /\ deliveries \in 0..MaxDeliveries /\ runFaults \in 0..MaxRunFaults
    /\ orderEvents \subseteq Payload
    /\ proposed \subseteq [receipt : Payload, request : Request]
    /\ orderTime \in Nat
    /\ step \in [Worker -> {"idle", "visit", "fetch", "commit"}]
    /\ todo \in [Worker -> SUBSET (1..Len(received))]
    /\ change \in [Worker -> Change]

ReceiptsInit ==
    /\ LeaseInit
    /\ received = <<>> /\ processed = {} /\ deliveries = 0 /\ acknowledged = {}
    /\ orderEvents = {} /\ proposed = {} /\ orderTime = 0
    /\ step = [w \in Worker |-> "idle"]
    /\ todo = [w \in Worker |-> {}]
    /\ change = [w \in Worker |-> "none"]
    /\ runFaults = 0

------------------------------------------------------------------------------
(* accept_tapsishop                                                        *)

Overlaps(p) == {q \in ToSet(received) : RequestIds[q] \cap RequestIds[p] # {}}

\* An error: one known requestId makes the whole batch a duplicate.
DuplicateIfAny(p) == Overlaps(p) # {}

\* An error: identities are compared by payload only, as before they were
\* stored per item; a batch and a part of it are strangers.
NewByPayload(p) == p \notin ToSet(received)

\* No request of the payload is known.
NewPayload(p) == Overlaps(p) = {}

\* _matching_tapsishop_receipt: one receipt holds every request of the payload.
DuplicatePayload(p) == \E q \in Overlaps(p) : Overlaps(p) = {q} /\ RequestIds[p] \subseteq RequestIds[q]

\* The unique identities decide between two requests at a time, and the loser
\* matches again, so that the handler acts as one step.  A batch that is known
\* in part is refused with 409.
AcceptTapsishop(p) ==
    /\ deliveries < MaxDeliveries
    /\ deliveries' = deliveries + 1
    /\ received' = IF NewPayload(p) THEN Append(received, p) ELSE received
    /\ acknowledged' = IF NewPayload(p) \/ DuplicatePayload(p)
                       THEN acknowledged \cup {p} ELSE acknowledged
    /\ UNCHANGED <<leaseVars, processed, orderVars, stepVars, runFaults>>

------------------------------------------------------------------------------
(* process_tapsishop_webhook_receipts                                      *)

\* Positions of the queued receipts; those that are older than position i.
Queued == {i \in DOMAIN received : received[i] \notin processed}
QueuedBefore(i) == {j \in Queued : j < i}

\* The lease is taken, then the oldest queued receipts are listed.
StartRun(w) ==
    /\ step[w] = "idle"
    /\ Acquire(w)
    /\ step' = [step EXCEPT ![w] = "visit"]
    /\ todo' = [todo EXCEPT ![w] =
                   {i \in Queued : Cardinality(QueuedBefore(i)) < ReceiptBatch}]
    /\ UNCHANGED <<receiptVars, orderVars, change, runFaults>>

\* The receipt at hand: the oldest that is left on the list.
AtHand(w) == received[Min(todo[w])]
Rest(w) == [todo EXCEPT ![w] = @ \ {Min(@)}]

\* Heartbeat; a receipt another run has processed is passed over; _record_event
\* finds the event or flushes its row, which waits for a run that has flushed it.
VisitReceipt(w) ==
    /\ step[w] = "visit"
    /\ todo[w] # {}
    /\ Holds(w)
    /\ LET p == AtHand(w) IN
       \/ /\ p \in processed
          /\ todo' = Rest(w)
          /\ UNCHANGED <<step, change>>
       \/ /\ p \notin processed /\ p \in orderEvents
          /\ step' = [step EXCEPT ![w] = "commit"]
          /\ change' = [change EXCEPT ![w] = "duplicate"]
          /\ UNCHANGED todo
       \/ /\ p \notin processed /\ p \notin orderEvents
          /\ \A v \in Worker \ {w} : step[v] \in {"fetch", "commit"} => AtHand(v) # p
          /\ step' = [step EXCEPT ![w] = "fetch"]
          /\ change' = [change EXCEPT ![w] = "event"]
          /\ UNCHANGED todo
    /\ UNCHANGED <<leaseVars, receiptVars, orderVars, runFaults>>

\* upsert_order returns early for an event older than the order row.
OlderThanOrder(p) == orderTime # 0 /\ OccurredAt[p] < orderTime

\* get_order answers without items (_order_detail_from_payload), or it fails, or
\* there is no connector, and the order is built from the payload; then
\* upsert_order stages order and effects.
UpsertFromReceipt(w) ==
    /\ step[w] = "fetch"
    /\ \E answer \in {"items", "noItems"} :
          change' = [change EXCEPT ![w] =
                        IF OlderThanOrder(AtHand(w)) THEN "stale" ELSE answer]
    /\ step' = [step EXCEPT ![w] = "commit"]
    /\ UNCHANGED <<leaseVars, receiptVars, orderVars, todo, runFaults>>

\* The rows worker w has flushed for receipt p become durable.
StoreChange(w, p) ==
    LET made == change[w] IN
    /\ orderEvents' = IF made \in {"none", "duplicate"} THEN orderEvents ELSE orderEvents \cup {p}
    /\ proposed' = IF made = "items"
                   THEN proposed \cup {[receipt |-> p, request |-> r] : r \in RequestIds[p]}
                   ELSE proposed
    /\ orderTime' = IF made \in {"items", "noItems"} THEN OccurredAt[p] ELSE orderTime

\* _mark_receipt_processed and _commit_checkpoint_progress, under the lease.
CommitReceipt(w) ==
    /\ step[w] = "commit"
    /\ Holds(w)
    /\ StoreChange(w, AtHand(w))
    /\ processed' = processed \cup {AtHand(w)}
    /\ todo' = Rest(w)
    /\ change' = [change EXCEPT ![w] = "none"]
    /\ step' = [step EXCEPT ![w] = "visit"]
    /\ UNCHANGED <<leaseVars, received, deliveries, acknowledged, runFaults>>

LeaveRun(w) ==
    /\ step' = [step EXCEPT ![w] = "idle"]
    /\ todo' = [todo EXCEPT ![w] = {}]
    /\ change' = [change EXCEPT ![w] = "none"]

EndRun(w) ==
    /\ step[w] = "visit"
    /\ todo[w] = {}
    /\ Release(w)
    /\ LeaveRun(w)
    /\ UNCHANGED <<receiptVars, orderVars, runFaults>>

\* A heartbeat or a commit matches no lease row: rollback, and the run ends.
LoseLease(w) ==
    /\ step[w] \in {"visit", "commit"}
    /\ ~Holds(w)
    /\ Release(w)
    /\ LeaveRun(w)
    /\ UNCHANGED <<receiptVars, orderVars, runFaults>>

RunFault == runFaults < MaxRunFaults /\ runFaults' = runFaults + 1

\* Any exception: _mark_checkpoint_failure rolls back, the lease is released.
FailRun(w) ==
    /\ step[w] # "idle"
    /\ RunFault
    /\ Release(w)
    /\ LeaveRun(w)
    /\ UNCHANGED <<receiptVars, orderVars>>

\* asyncio.wait_for cancels the run while it awaits get_order: no except branch
\* runs, and the commit of the release keeps the event row without the order.
TimeOutRun(w) ==
    /\ step[w] = "fetch"
    /\ RunFault
    /\ StoreChange(w, AtHand(w))
    /\ Release(w)
    /\ LeaveRun(w)
    /\ UNCHANGED receiptVars

\* The process dies: its transaction is gone, its lease stays.
CrashRun(w) ==
    /\ step[w] # "idle"
    /\ RunFault
    /\ LeaveRun(w)
    /\ UNCHANGED <<leaseVars, receiptVars, orderVars>>

\* A run stalls past lease_seconds without a heartbeat.
StallRun == step[holder] # "idle" /\ RunFault /\ Lapse /\ UNCHANGED <<receiptVars, orderVars, stepVars>>

\* The lease of a run that is gone expires.
LapseLeft == step[holder] = "idle" /\ Lapse /\ UNCHANGED <<receiptVars, orderVars, stepVars, runFaults>>

RunAdvance(w) ==
    \/ VisitReceipt(w) \/ UpsertFromReceipt(w) \/ CommitReceipt(w)
    \/ EndRun(w) \/ LoseLease(w)

ReceiptsNext ==
    \/ \E p \in Payload : AcceptTapsishop(p)
    \/ \E w \in Worker : StartRun(w) \/ RunAdvance(w) \/ FailRun(w) \/ TimeOutRun(w) \/ CrashRun(w)
    \/ holder # NoWorker /\ (StallRun \/ LapseLeft)

\* The runners loop; a run that is not stopped goes on; a dead run's lease ends.
RunFairness ==
    /\ \A w \in Worker : WF_receiptsVars(RunAdvance(w))
    /\ WF_receiptsVars(holder # NoWorker /\ LapseLeft)

ReceiptsFairness == WF_receiptsVars(\E w \in Worker : StartRun(w)) /\ RunFairness

ReceiptsSpec == ReceiptsInit /\ [][ReceiptsNext]_receiptsVars /\ ReceiptsFairness

------------------------------------------------------------------------------

\* An item request is proposed once, by the receipt that is processed with it:
\* redelivered payloads, overlapping batches, two runners and retries of a run that
\* failed, timed out or lost its lease included (ORDER_SYNCHRONIZATION.md,
\* "Idempotency").
ProposedOnce ==
    \A e \in proposed :
        e.receipt \in processed /\ \A f \in proposed : e.request = f.request => e = f

\* What the provider was told is accepted is processed, every request of it: after
\* failures, crashes and stalls of runs, and with a batch the provider repeats in
\* another composition.
AcknowledgedIsProcessed ==
    \A p \in Payload :
        []<>(p \in acknowledged => RequestIds[p] \subseteq UNION {RequestIds[q] : q \in processed})

\* What the documentation says of purchases and cancellations: the receipt that is
\* processed has proposed its quantities ("Inventory").
ProcessedIsProposed ==
    \A p \in processed : \A r \in RequestIds[p] : [receipt |-> p, request |-> r] \in proposed
=============================================================================
