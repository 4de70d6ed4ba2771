------------------------------ MODULE OrderSync ------------------------------
(***************************************************************************)
(* Synchronization of one SnappShop channel's orders: sync_snappshop_events *)
(* polls the provider's event stream from the durable cursor, a page per   *)
(* transaction, and reconcile_recent_orders re-reads the orders.  Runner   *)
(* processes compete for the channel's lease.                              *)
(*                                                                         *)
(* Event e is the e-th of the stream; e also stands for its event_at.  All *)
(* modelled events are purchases or cancellations.                         *)
(***************************************************************************)
EXTENDS OrderLease, Integers

CONSTANTS
    MaxEvent,   \* bound on the events of the stream
    Order,
    OrderOf,    \* OrderOf[e]: the order event e is about
    Cancellation, \* events that cancel their order
    PageSize,   \* events per page of the provider
    MaxFaults,  \* bound on failures, crashes and leases lost while at work
    TimeLimit   \* whether the runner's operation timeout strikes

Event == 1..MaxEvent

ASSUME OrderSyncAssumption ==
    /\ MaxEvent \in Nat /\ MaxFaults \in Nat
    /\ PageSize \in Nat \ {0}
    /\ OrderOf \in [Event -> Order]
    /\ Cancellation \subseteq Event
    /\ TimeLimit \in BOOLEAN

VARIABLES
    published,  \* events the provider has issued so far
    cursor,     \* channel_order_sync_checkpoints.cursor of the event source
    recorded,   \* channel_order_events
    effects,    \* events with rows in channel_inventory_effects
    listEffects, \* orders with such rows under "reconcile:<order>"
    stored,     \* last_provider_event_at of each channel_orders row, or NoRow
    pc,         \* where each worker's run is
    from,       \* the cursor a run reads its next page from
    page,       \* events of the page the run has still to process
    next,       \* next_cursor of that page
    more,       \* its has_more
    newEvents,  \* the open transaction of the run: event rows,
    newEffects, \*   inventory effects of events
    newListEffects, \* and of listed orders,
    newStored,  \*   and order rows, NoRow where it has touched none
    faults      \* faults so far

dbVars == <<cursor, recorded, effects, listEffects, stored>>
stagedVars == <<newEvents, newEffects, newListEffects, newStored>>
runVars == <<pc, from, page, next, more, stagedVars>>
vars == <<leaseVars, published, dbVars, runVars, faults>>

NoRow == -1
Untouched == [o \in Order |-> NoRow]

\* A run awaits the provider at "fetch", "detail" and "r_fetch".
Awaits == {"fetch", "detail", "r_fetch"}
PC == Awaits \cup {"idle", "page", "event", "ack", "r_page", "r_commit"}

Init ==
    /\ LeaseInit
    /\ published = 0
    /\ cursor = 0
    /\ recorded = {}
    /\ effects = {}
    /\ listEffects = {}
    /\ stored = Untouched
    /\ pc = [w \in Worker |-> "idle"]
    /\ from = [w \in Worker |-> 0]
    /\ page = [w \in Worker |-> {}]
    /\ next = [w \in Worker |-> 0]
    /\ more = [w \in Worker |-> FALSE]
    /\ newEvents = [w \in Worker |-> {}]
    /\ newEffects = [w \in Worker |-> {}]
    /\ newListEffects = [w \in Worker |-> {}]
    /\ newStored = [w \in Worker |-> Untouched]
    /\ faults = 0

-----------------------------------------------------------------------------
(* The open transaction of a run                                           *)

At(w, p) == pc[w] = p
Goto(w, p) == pc' = [pc EXCEPT ![w] = p]

NothingPending(w) ==
    /\ newEvents' = [newEvents EXCEPT ![w] = {}]
    /\ newEffects' = [newEffects EXCEPT ![w] = {}]
    /\ newListEffects' = [newListEffects EXCEPT ![w] = {}]
    /\ newStored' = [newStored EXCEPT ![w] = Untouched]

\* db.commit()
Commit(w) ==
    /\ recorded' = recorded \cup newEvents[w]
    /\ effects' = effects \cup newEffects[w]
    /\ listEffects' = listEffects \cup newListEffects[w]
    /\ stored' = [o \in Order |->
          IF newStored[w][o] # NoRow THEN newStored[w][o] ELSE stored[o]]
    /\ NothingPending(w)

\* db.rollback()
Rollback(w) ==
    /\ NothingPending(w)
    /\ UNCHANGED <<recorded, effects, listEffects, stored>>

Leave(w) ==
    /\ pc' = [pc EXCEPT ![w] = "idle"]
    /\ from' = [from EXCEPT ![w] = 0]
    /\ page' = [page EXCEPT ![w] = {}]
    /\ next' = [next EXCEPT ![w] = 0]
    /\ more' = [more EXCEPT ![w] = FALSE]

\* What the session reads, its own rows included.
Row(w, o) == IF newStored[w][o] # NoRow THEN newStored[w][o] ELSE stored[o]

\* Another session's uncommitted row makes a flush of the same row wait; should
\* the other one commit, an insert that waited fails: see Fail.  An update that
\* waited has lost the lease to the other one: see LeaseLost.
OrderFree(w, o) == \A v \in Worker \ {w} : newStored[v][o] = NoRow
EventFree(w, e) == \A v \in Worker \ {w} : e \notin newEvents[v]

-----------------------------------------------------------------------------
(* sync_snappshop_events                                                   *)

\* The channel's lease is taken and the checkpoint is read.
StartPoll(w) ==
    /\ At(w, "idle")
    /\ Acquire(w)
    /\ from' = [from EXCEPT ![w] = cursor]
    /\ Goto(w, "page")
    /\ UNCHANGED <<published, dbVars, page, next, more, stagedVars, faults>>

\* heartbeat_checkpoint_lease, then list_order_events is awaited.
Heartbeat(w) ==
    /\ \/ At(w, "page") /\ Goto(w, "fetch")
       \/ At(w, "r_page") /\ Goto(w, "r_fetch")
    /\ Holds(w)
    /\ UNCHANGED <<leaseVars, published, dbVars, from, page, next, more, stagedVars, faults>>

\* An error: the cursor skips ahead of a page that was not full.
NextCursorPast(c) == c + PageSize

\* An error: the cursor after everything issued by now, not after the page.
NextCursorAtEnd(c) == published

\* The cursor after the page that starts at c.
NextCursor(c) == IF published < c + PageSize THEN published ELSE c + PageSize

\* The page arrives.  The provider may leave the cursor out of the last one,
\* and the next run then starts the stream over.
FetchPage(w) ==
    /\ At(w, "fetch")
    /\ page' = [page EXCEPT ![w] = {e \in Event : e > from[w] /\ e <= published
                                                 /\ e <= from[w] + PageSize}]
    /\ more' = [more EXCEPT ![w] = NextCursor(from[w]) < published]
    /\ \E c \in {NextCursor(from[w])} \cup (IF more'[w] THEN {} ELSE {0}) :
          next' = [next EXCEPT ![w] = c]
    /\ Goto(w, "event")
    /\ UNCHANGED <<leaseVars, published, dbVars, from, stagedVars, faults>>

\* Events are processed in the order of the page.
First(w, e) == e \in page[w] /\ \A f \in page[w] : e <= f

\* _record_event finds the event.
SkipDuplicate(w, e) ==
    /\ At(w, "event")
    /\ First(w, e)
    /\ e \in recorded \cup newEvents[w]
    /\ page' = [page EXCEPT ![w] = @ \ {e}]
    /\ UNCHANGED <<leaseVars, published, dbVars, pc, from, next, more, stagedVars, faults>>

\* _record_event adds and flushes the row; get_order is awaited.
RecordEvent(w, e) ==
    /\ At(w, "event")
    /\ First(w, e)
    /\ e \notin recorded \cup newEvents[w]
    /\ EventFree(w, e)
    /\ newEvents' = [newEvents EXCEPT ![w] = @ \cup {e}]
    /\ Goto(w, "detail")
    /\ UNCHANGED <<leaseVars, published, dbVars, from, page, next, more, newEffects,
                   newListEffects, newStored, faults>>

\* An event that is not older than the stored order overwrites it.
Applies(w, e) == Row(w, OrderOf[e]) <= e

\* upsert_order stages order and effects; an older event changes nothing.
UpsertOrder(w, e) ==
    /\ At(w, "detail")
    /\ First(w, e)
    /\ OrderFree(w, OrderOf[e])
    /\ newStored' = [newStored EXCEPT ![w][OrderOf[e]] = IF Applies(w, e) THEN e ELSE @]
    /\ newEffects' = [newEffects EXCEPT ![w] = IF Applies(w, e) THEN @ \cup {e} ELSE @]
    /\ page' = [page EXCEPT ![w] = @ \ {e}]
    /\ Goto(w, "event")
    /\ UNCHANGED <<leaseVars, published, dbVars, from, next, more, newEvents,
                   newListEffects, faults>>

\* _commit_checkpoint_progress: page and cursor, while the lease is held.
CommitPage(w) ==
    /\ At(w, "event")
    /\ page[w] = {}
    /\ Holds(w)
    /\ cursor' = next[w]
    /\ Commit(w)
    /\ Goto(w, "ack")
    /\ UNCHANGED <<leaseVars, published, from, page, next, more, faults>>

\* The page is acknowledged and the next one is read.
NextPage(w) ==
    /\ At(w, "ack")
    /\ more[w]
    /\ from' = [from EXCEPT ![w] = next[w]]
    /\ Goto(w, "page")
    /\ UNCHANGED <<leaseVars, published, dbVars, page, next, more, stagedVars, faults>>

\* No more pages, or limit_pages is reached.
EndPoll(w) ==
    /\ At(w, "ack")
    /\ Release(w)
    /\ Leave(w)
    /\ UNCHANGED <<published, dbVars, stagedVars, faults>>

-----------------------------------------------------------------------------
(* reconcile_recent_orders                                                 *)

StartReconcile(w) ==
    /\ At(w, "idle")
    /\ Acquire(w)
    /\ Goto(w, "r_page")
    /\ UNCHANGED <<published, dbVars, from, page, next, more, stagedVars, faults>>

Issued == {OrderOf[e] : e \in {f \in Event : f <= published}}

\* A listed order is cancelled.  (Purchases are known by their events only: the
\* provider lists an order as CONFIRMED or CANCELED.)
CancelledOrders == {OrderOf[e] : e \in {f \in Cancellation : f <= published}}

\* The orders arrive without an event time, so that created_at, earlier than
\* every event, decides: orders are stored that are missing, and written again
\* that only a listing has stored so far.  Their status stands for an event type:
\* a cancelled one proposes the effects of a cancellation, once, whether or not
\* its event has proposed or will propose them.  No order needs a detail that
\* would have to be awaited.
ReadOrders(w) ==
    LET Stale == {o \in Issued : Row(w, o) \in {NoRow, 0}}
    IN  /\ At(w, "r_fetch")
        /\ \A o \in Stale : OrderFree(w, o)
        /\ newStored' = [newStored EXCEPT ![w] =
              [o \in Order |-> IF o \in Stale THEN 0 ELSE @[o]]]
        /\ newListEffects' = [newListEffects EXCEPT ![w] = Stale \cap CancelledOrders]
        /\ Goto(w, "r_commit")
        /\ UNCHANGED <<leaseVars, published, dbVars, from, page, next, more, newEvents,
                       newEffects, faults>>

\* Commit under the lease; the listing is one page, so the run ends.
CommitReconcile(w) ==
    /\ At(w, "r_commit")
    /\ Holds(w)
    /\ Commit(w)
    /\ Release(w)
    /\ Leave(w)
    /\ UNCHANGED <<published, cursor, faults>>

-----------------------------------------------------------------------------
(* Everything that ends a run early                                        *)

\* A heartbeat or a commit finds the lease expired or replaced.
LeaseLost(w) ==
    /\ \/ pc[w] \in {"page", "r_page", "r_commit"}
       \/ At(w, "event") /\ page[w] = {}
    /\ ~Holds(w)
    /\ Rollback(w)
    /\ Release(w)
    /\ Leave(w)
    /\ UNCHANGED <<published, cursor, faults>>

Fault == faults < MaxFaults /\ faults' = faults + 1

\* An error: nothing is rolled back before the lease is released.
FailNoRollback(w) ==
    /\ pc[w] # "idle"
    /\ Fault
    /\ Commit(w)
    /\ Release(w)
    /\ Leave(w)
    /\ UNCHANGED <<published, cursor>>

\* Any exception: _mark_checkpoint_failure rolls back, the lease is released.
Fail(w) ==
    /\ pc[w] # "idle"
    /\ Fault
    /\ Rollback(w)
    /\ Release(w)
    /\ Leave(w)
    /\ UNCHANGED <<published, cursor>>

\* asyncio.wait_for cancels the run where it awaits.  CancelledError is no
\* Exception, so that nothing is rolled back, and release_checkpoint_lease
\* commits what the session holds.
TimeOut(w) ==
    /\ TimeLimit
    /\ pc[w] \in Awaits
    /\ Commit(w)
    /\ Release(w)
    /\ Leave(w)
    /\ UNCHANGED <<published, cursor, faults>>

\* The runner process dies; its lease stays until it expires.
Crash(w) ==
    /\ pc[w] # "idle"
    /\ Fault
    /\ Rollback(w)
    /\ Leave(w)
    /\ UNCHANGED <<leaseVars, published, cursor>>

\* The lease of a dead run expires, or of a run that is held up.
Expire ==
    /\ Lapse
    /\ pc[holder] = "idle"
    /\ UNCHANGED <<published, dbVars, runVars, faults>>
ExpireAtWork ==
    /\ Lapse
    /\ pc[holder] # "idle"
    /\ Fault
    /\ UNCHANGED <<published, dbVars, runVars>>

\* The provider issues an event.
Publish ==
    /\ published < MaxEvent
    /\ published' = published + 1
    /\ UNCHANGED <<leaseVars, dbVars, runVars, faults>>

-----------------------------------------------------------------------------
RunStep(w) ==
    \/ Heartbeat(w) \/ FetchPage(w)
    \/ \E e \in page[w] : SkipDuplicate(w, e) \/ RecordEvent(w, e) \/ UpsertOrder(w, e)
    \/ CommitPage(w) \/ NextPage(w) \/ EndPoll(w)
    \/ ReadOrders(w) \/ CommitReconcile(w) \/ LeaseLost(w)

Next ==
    \/ \E w \in Worker :
          \/ StartPoll(w) \/ StartReconcile(w) \/ RunStep(w)
          \/ Fail(w) \/ TimeOut(w) \/ Crash(w)
    \/ Expire \/ ExpireAtWork \/ Publish

Spec == Init /\ [][Next]_vars

\* Runs go on while nothing fails, a dead run's lease expires, and polling is
\* due again and again: a run lasts seconds, the intervals are minutes.
FairSpec ==
    /\ Spec
    /\ \A w \in Worker : WF_vars(RunStep(w))
    /\ SF_vars(\E w \in Worker : StartPoll(w))
    /\ WF_vars(Expire)

-----------------------------------------------------------------------------
(* Properties                                                              *)

TypeOK ==
    /\ LeaseTypeOK
    /\ published \in 0..MaxEvent
    /\ cursor \in 0..MaxEvent
    /\ recorded \in SUBSET Event
    /\ effects \in SUBSET Event
    /\ listEffects \in SUBSET Order
    /\ stored \in [Order -> {NoRow} \cup 0..MaxEvent]
    /\ pc \in [Worker -> PC]
    /\ from \in [Worker -> 0..MaxEvent]
    /\ page \in [Worker -> SUBSET Event]
    /\ next \in [Worker -> 0..MaxEvent]
    /\ more \in [Worker -> BOOLEAN]
    /\ newEvents \in [Worker -> SUBSET Event]
    /\ newEffects \in [Worker -> SUBSET Event]
    /\ newListEffects \in [Worker -> SUBSET Order]
    /\ newStored \in [Worker -> [Order -> {NoRow} \cup 0..MaxEvent]]
    /\ faults \in 0..MaxFaults

\* The durable cursor never passes an event that is not recorded, whatever run
\* was fenced, failed or overtaken on the way.
NothingSkipped == \A e \in Event : e <= cursor => e \in recorded

\* An event row is only durable together with what the event means: its order
\* row and its proposed inventory effects ("commit together").
RecordedIsApplied ==
    \A e \in recorded : e \in effects /\ stored[OrderOf[e]] >= e

\* A run whose lease expired or was replaced changes no order, no event and no
\* cursor, however late it wakes up.
OnlyTheHolderCommits ==
    [][dbVars' # dbVars =>
          \E w \in Worker : holder = w /\ live /\ pc'[w] # pc[w]]_vars

\* However many runs compete, fail or are overtaken, the tables change as those of
\* one reader that takes page after page: no page is applied twice, partly, from a
\* cursor that has moved on, or by two runs.
Ledger == INSTANCE OrderLedger
ImplementsLedger == Ledger!LedgerSpec

\* "Replayed events do not create duplicate proposed quantity effects": what a
\* cancellation gives back is proposed by its event or by a listing.
CancelledOnce == \A e \in effects \cap Cancellation : OrderOf[e] \notin listEffects

\* Every event the provider issues is recorded in the end: the stream ends, and
\* what is recorded stays so.
EventsArrive == []<>(1..published \subseteq recorded)
=============================================================================
