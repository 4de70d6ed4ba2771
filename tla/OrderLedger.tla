----------------------------- MODULE OrderLedger -----------------------------
(***************************************************************************)
(* What OrderSync promises of the durable tables of a channel, however many *)
(* runs compete, fail, or outlive their lease: they change as if a single   *)
(* reader took the events of the stream page by page, each page with all it *)
(* means in one step, and now and then listed orders no event had stored.   *)
(***************************************************************************)
EXTENDS Integers

CONSTANTS
    MaxEvent,   \* bound on the events of the stream
    Order,
    OrderOf,    \* OrderOf[e]: the order event e is about
    Cancellation, \* events that cancel their order
    PageSize    \* events per page

VARIABLES
    published,  \* events the provider has issued
    cursor,     \* where the next page starts
    recorded,   \* events taken
    effects,    \* events whose inventory effects are proposed
    listEffects, \* orders whose listing has proposed those of a cancellation
    stored      \* the event each order's row reflects, or Listed, or Unknown

ledgerVars == <<published, cursor, recorded, effects, listEffects, stored>>

Unknown == -1
Listed == 0

LedgerInit ==
    /\ published = 0
    /\ cursor = 0
    /\ recorded = {}
    /\ effects = {}
    /\ listEffects = {}
    /\ stored = [o \in Order |-> Unknown]

Issue ==
    /\ published < MaxEvent
    /\ published' = published + 1
    /\ UNCHANGED <<cursor, recorded, effects, listEffects, stored>>

EventsOf(o, events) == {e \in events : OrderOf[e] = o}
Last(events) == CHOOSE e \in events : \A f \in events : f <= e

\* The next n events: those not taken before are recorded, their effects proposed,
\* and every order they are about reflects the last of them.  The stream goes on
\* behind them or, when the provider leaves out where, starts over.
Take(n) ==
    LET fresh == (cursor + 1 .. cursor + n) \ recorded
    IN  /\ cursor + n <= published
        /\ recorded' = recorded \cup fresh
        /\ effects' = effects \cup fresh
        /\ stored' = [o \in Order |-> IF EventsOf(o, fresh) = {} THEN stored[o]
                                      ELSE Last(EventsOf(o, fresh))]
        /\ cursor' \in {cursor + n, 0}
        /\ UNCHANGED <<published, listEffects>>

CancelledBy(events) == {OrderOf[e] : e \in events \cap Cancellation}

\* Orders no event has stored are listed, some of them as cancelled.
List(orders, cancelled) ==
    /\ \A o \in orders : stored[o] \in {Unknown, Listed} /\ EventsOf(o, 1..published) # {}
    /\ cancelled \subseteq orders \cap CancelledBy(1..published)
    /\ stored' = [o \in Order |-> IF o \in orders THEN Listed ELSE stored[o]]
    /\ listEffects' = listEffects \cup cancelled
    /\ UNCHANGED <<published, cursor, recorded, effects>>

LedgerNext ==
    \/ Issue
    \/ \E n \in 0..PageSize : Take(n)
    \/ \E orders, cancelled \in SUBSET Order : List(orders, cancelled)

LedgerSpec == LedgerInit /\ [][LedgerNext]_ledgerVars

\* The tables are those of the first events of the stream, up to or behind the
\* cursor, none left out: all have their effects, and the row of an order reflects
\* the last of them that is about it.  Effects beside them are of orders that have been
\* cancelled.
TablesOfPrefix ==
    \E k \in cursor..published :
        /\ recorded = 1..k
        /\ effects = 1..k
        /\ \A o \in Order : IF EventsOf(o, 1..k) = {} THEN stored[o] \in {Unknown, Listed}
                            ELSE stored[o] = Last(EventsOf(o, 1..k))
        /\ listEffects \subseteq CancelledBy(1..published)
=============================================================================
