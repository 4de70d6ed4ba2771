--------------------------- MODULE OrderSyncProofs ---------------------------
(***************************************************************************)
(* Theorems about OrderSync for any runners, orders, events and page size: *)
(* the cursor is behind the recorded events, which are applied, only the   *)
(* holder of the lease commits, and the durable tables are those of a      *)
(* single reader.                                                          *)
(***************************************************************************)
EXTENDS OrderSync, FiniteSetTheorems, WellFoundedInduction, TLAPS

\* TypeOK in three parts: the lease, what is durable, and the runs.
DbTypeOK ==
    /\ published \in 0..MaxEvent
    /\ cursor \in 0..MaxEvent
    /\ recorded \in SUBSET Event
    /\ effects \in SUBSET Event
    /\ listEffects \in SUBSET Order
    /\ stored \in [Order -> {NoRow} \cup 0..MaxEvent]
    /\ faults \in 0..MaxFaults

RunTypeOK ==
    /\ pc \in [Worker -> PC]
    /\ from \in [Worker -> 0..MaxEvent]
    /\ page \in [Worker -> SUBSET Event]
    /\ next \in [Worker -> 0..MaxEvent]
    /\ more \in [Worker -> BOOLEAN]
    /\ newEvents \in [Worker -> SUBSET Event]
    /\ newEffects \in [Worker -> SUBSET Event]
    /\ newListEffects \in [Worker -> SUBSET Order]
    /\ newStored \in [Worker -> [Order -> {NoRow} \cup 0..MaxEvent]]

\* TypeOK is the three parts together.
LEMMA TypeParts ==
    /\ TypeOK <=> LeaseTypeOK /\ DbTypeOK /\ RunTypeOK
    /\ TypeOK' <=> LeaseTypeOK' /\ DbTypeOK' /\ RunTypeOK'
BY DEF TypeOK, DbTypeOK, RunTypeOK

\* Taking, releasing and losing the lease keeps its type.
LEMMA LeaseTypes ==
    ASSUME LeaseTypeOK, \/ \E w \in Worker : Acquire(w) \/ Release(w)
                        \/ Lapse
    PROVE  LeaseTypeOK'
<1>1. CASE \E w \in Worker : Acquire(w)
  BY <1>1 DEF LeaseTypeOK, Acquire
<1>2. ASSUME NEW w \in Worker, Release(w) PROVE LeaseTypeOK'
  <2>1. CASE holder = w
    BY <1>2, <2>1 DEF LeaseTypeOK, Release
  <2>2. CASE holder # w
    BY <1>2, <2>2 DEF LeaseTypeOK, Release
  <2>3. QED
    BY <2>1, <2>2
<1>3. CASE Lapse
  BY <1>3 DEF LeaseTypeOK, Lapse
<1>4. QED
  BY <1>1, <1>2, <1>3

\* A commit keeps the types of the tables.
LEMMA CommitTypes ==
    ASSUME DbTypeOK, RunTypeOK, NEW w \in Worker, Commit(w),
           published' = published, cursor' \in 0..MaxEvent, faults' \in 0..MaxFaults
    PROVE  DbTypeOK'
BY DEF DbTypeOK, RunTypeOK, Commit, NoRow

\* The types hold initially.
LEMMA TypeInit == Init => TypeOK
<1> SUFFICES ASSUME Init PROVE TypeOK
  OBVIOUS
<1>1. LeaseTypeOK
  BY DEF Init, LeaseInit, LeaseTypeOK
<1>2. DbTypeOK
  BY OrderSyncAssumption DEF Init, DbTypeOK, Untouched
<1>3. RunTypeOK
  BY OrderSyncAssumption DEF Init, RunTypeOK, Untouched, PC
<1>4. QED
  BY <1>1, <1>2, <1>3, TypeParts

\* Every step keeps the types.
LEMMA TypeStep == TypeOK /\ [Next]_vars => TypeOK'
<1> SUFFICES ASSUME TypeOK, [Next]_vars PROVE TypeOK'
  OBVIOUS
<1> LeaseTypeOK /\ DbTypeOK /\ RunTypeOK
  BY TypeParts
<1> USE OrderSyncAssumption, OrderLeaseAssumption
        DEF DbTypeOK, RunTypeOK, PC, Awaits, Event, NoRow, Untouched, At, Goto,
            leaseVars, dbVars, stagedVars, runVars
<1>1. ASSUME NEW w \in Worker, StartPoll(w) PROVE TypeOK'
  BY <1>1, TypeParts DEF StartPoll, Acquire, LeaseTypeOK
<1>2. ASSUME NEW w \in Worker, StartReconcile(w) PROVE TypeOK'
  BY <1>2, TypeParts DEF StartReconcile, Acquire, LeaseTypeOK
<1>3. ASSUME NEW w \in Worker, Heartbeat(w) PROVE TypeOK'
  BY <1>3, TypeParts DEF Heartbeat, LeaseTypeOK
<1>4. ASSUME NEW w \in Worker, FetchPage(w) PROVE TypeOK'
  BY <1>4, TypeParts DEF FetchPage, NextCursor, LeaseTypeOK
<1>5. ASSUME NEW w \in Worker, NEW e \in page[w], SkipDuplicate(w, e) PROVE TypeOK'
  BY <1>5, TypeParts DEF SkipDuplicate, First, LeaseTypeOK
<1>6. ASSUME NEW w \in Worker, NEW e \in page[w], RecordEvent(w, e) PROVE TypeOK'
  BY <1>6, TypeParts DEF RecordEvent, First, LeaseTypeOK
<1>7. ASSUME NEW w \in Worker, NEW e \in page[w], UpsertOrder(w, e) PROVE TypeOK'
  BY <1>7, TypeParts DEF UpsertOrder, First, LeaseTypeOK
<1>8. ASSUME NEW w \in Worker, CommitPage(w) PROVE TypeOK'
  <2>1. LeaseTypeOK' /\ RunTypeOK'
    BY <1>8 DEF CommitPage, Commit, NothingPending, LeaseTypeOK
  <2>2. DbTypeOK'
    BY <1>8, CommitTypes DEF CommitPage
  <2>3. QED
    BY <2>1, <2>2, TypeParts
<1>9. ASSUME NEW w \in Worker, NextPage(w) PROVE TypeOK'
  BY <1>9, TypeParts DEF NextPage, LeaseTypeOK
<1>10. ASSUME NEW w \in Worker, EndPoll(w) PROVE TypeOK'
  <2>1. LeaseTypeOK'
    BY <1>10, LeaseTypes DEF EndPoll
  <2>2. RunTypeOK' /\ DbTypeOK'
    BY <1>10 DEF EndPoll, Leave
  <2>3. QED
    BY <2>1, <2>2, TypeParts
<1>11. ASSUME NEW w \in Worker, ReadOrders(w) PROVE TypeOK'
  <2>1. Issued \subseteq Order
    BY DEF Issued
  <2>2. QED
    BY <1>11, <2>1, TypeParts DEF ReadOrders, LeaseTypeOK
<1>12. ASSUME NEW w \in Worker, CommitReconcile(w) PROVE TypeOK'
  <2>1. LeaseTypeOK'
    BY <1>12, LeaseTypes DEF CommitReconcile
  <2>2. RunTypeOK'
    BY <1>12 DEF CommitReconcile, Commit, Leave, NothingPending
  <2>3. DbTypeOK'
    BY <1>12, CommitTypes DEF CommitReconcile
  <2>4. QED
    BY <2>1, <2>2, <2>3, TypeParts
<1>13. ASSUME NEW w \in Worker, LeaseLost(w) PROVE TypeOK'
  <2>1. LeaseTypeOK'
    BY <1>13, LeaseTypes DEF LeaseLost
  <2>2. RunTypeOK'
    BY <1>13 DEF LeaseLost, Rollback, Leave, NothingPending
  <2>3. DbTypeOK'
    BY <1>13 DEF LeaseLost, Rollback, Fault
  <2>4. QED
    BY <2>1, <2>2, <2>3, TypeParts
<1>14. ASSUME NEW w \in Worker, Fail(w) PROVE TypeOK'
  <2>1. LeaseTypeOK'
    BY <1>14, LeaseTypes DEF Fail
  <2>2. RunTypeOK'
    BY <1>14 DEF Fail, Rollback, Leave, NothingPending
  <2>3. DbTypeOK'
    BY <1>14 DEF Fail, Rollback, Fault
  <2>4. QED
    BY <2>1, <2>2, <2>3, TypeParts
<1>15. ASSUME NEW w \in Worker, TimeOut(w) PROVE TypeOK'
  <2>1. LeaseTypeOK'
    BY <1>15, LeaseTypes DEF TimeOut
  <2>2. RunTypeOK'
    BY <1>15 DEF TimeOut, Commit, Leave, NothingPending
  <2>3. DbTypeOK'
    BY <1>15, CommitTypes DEF TimeOut
  <2>4. QED
    BY <2>1, <2>2, <2>3, TypeParts
<1>16. ASSUME NEW w \in Worker, Crash(w) PROVE TypeOK'
  BY <1>16, TypeParts DEF Crash, Rollback, NothingPending, Leave, Fault, LeaseTypeOK
<1>17. ASSUME Expire PROVE TypeOK'
  BY <1>17, TypeParts DEF Expire, Lapse, LeaseTypeOK
<1>18. ASSUME ExpireAtWork PROVE TypeOK'
  <2>1. LeaseTypeOK'
    BY <1>18, LeaseTypes DEF ExpireAtWork
  <2>2. RunTypeOK' /\ DbTypeOK'
    BY <1>18 DEF ExpireAtWork, Fault
  <2>3. QED
    BY <2>1, <2>2, TypeParts
<1>19. ASSUME Publish PROVE TypeOK'
  BY <1>19, TypeParts DEF Publish, LeaseTypeOK
<1>20. CASE UNCHANGED vars
  BY <1>20, TypeParts DEF vars, LeaseTypeOK
<1>21. QED
  BY <1>1, <1>2, <1>3, <1>4, <1>5, <1>6, <1>7, <1>8, <1>9, <1>10, <1>11, <1>12, <1>13,
     <1>14, <1>15, <1>16, <1>17, <1>18, <1>19, <1>20
     DEF Next, RunStep

\* Every variable of OrderSync keeps its type.
THEOREM TypeCorrect == Spec => []TypeOK
<1>1. QED
  BY TypeInit, TypeStep, PTL DEF Spec
-----------------------------------------------------------------------------
(* The cursor                                                              *)

Processing(w) == pc[w] \in {"event", "detail"}

\* Everything up to the cursors is recorded, and what the page of a run leaves
\* behind its next cursor the run has recorded itself.
CursorOK(w) ==
    /\ \A e \in Event : e <= from[w] => e \in recorded
    /\ Processing(w) =>
          \A e \in Event : e <= next[w] => e \in page[w] \cup recorded \cup newEvents[w]
    /\ At(w, "ack") => \A e \in Event : e <= next[w] => e \in recorded
    /\ At(w, "detail") => \A e \in page[w] : First(w, e) => e \in newEvents[w]

CursorInv == NothingSkipped /\ \A w \in Worker : CursorOK(w)

\* Every step keeps the cursors behind what is recorded.
LEMMA CursorStep == TypeOK /\ CursorInv /\ [Next]_vars => CursorInv'
<1> SUFFICES ASSUME TypeOK, CursorInv, [Next]_vars PROVE CursorInv'
  OBVIOUS
<1> DbTypeOK /\ RunTypeOK
  BY TypeParts
<1> USE OrderSyncAssumption
        DEF DbTypeOK, RunTypeOK, PC, Awaits, Event, At, Goto, CursorInv, NothingSkipped,
            CursorOK, Processing, First, leaseVars, dbVars, stagedVars, runVars
<1>1. ASSUME NEW w \in Worker, StartPoll(w) PROVE CursorInv'
  BY <1>1 DEF StartPoll, Acquire
<1>2. ASSUME NEW w \in Worker, StartReconcile(w) PROVE CursorInv'
  BY <1>2 DEF StartReconcile, Acquire
<1>3. ASSUME NEW w \in Worker, Heartbeat(w) PROVE CursorInv'
  BY <1>3 DEF Heartbeat
<1>4. ASSUME NEW w \in Worker, FetchPage(w) PROVE CursorInv'
  BY <1>4 DEF FetchPage, NextCursor
<1>5. ASSUME NEW w \in Worker, NEW e \in page[w], SkipDuplicate(w, e) PROVE CursorInv'
  BY <1>5 DEF SkipDuplicate, First
<1>6. ASSUME NEW w \in Worker, NEW e \in page[w], RecordEvent(w, e) PROVE CursorInv'
  BY <1>6 DEF RecordEvent, First
<1>7. ASSUME NEW w \in Worker, NEW e \in page[w], UpsertOrder(w, e) PROVE CursorInv'
  BY <1>7 DEF UpsertOrder, First
<1>8. ASSUME NEW w \in Worker, CommitPage(w) PROVE CursorInv'
  BY <1>8 DEF CommitPage, Commit, NothingPending
<1>9. ASSUME NEW w \in Worker, NextPage(w) PROVE CursorInv'
  BY <1>9 DEF NextPage
<1>10. ASSUME NEW w \in Worker, EndPoll(w) PROVE CursorInv'
  BY <1>10 DEF EndPoll, Release, Leave
<1>11. ASSUME NEW w \in Worker, ReadOrders(w) PROVE CursorInv'
  BY <1>11 DEF ReadOrders
<1>12. ASSUME NEW w \in Worker, CommitReconcile(w) PROVE CursorInv'
  BY <1>12 DEF CommitReconcile, Commit, NothingPending, Release, Leave
<1>13. ASSUME NEW w \in Worker, LeaseLost(w) PROVE CursorInv'
  BY <1>13 DEF LeaseLost, Rollback, NothingPending, Release, Leave
<1>14. ASSUME NEW w \in Worker, Fail(w) PROVE CursorInv'
  BY <1>14 DEF Fail, Rollback, NothingPending, Release, Leave, Fault
<1>15. ASSUME NEW w \in Worker, TimeOut(w) PROVE CursorInv'
  BY <1>15 DEF TimeOut, Commit, NothingPending, Release, Leave
<1>16. ASSUME NEW w \in Worker, Crash(w) PROVE CursorInv'
  BY <1>16 DEF Crash, Rollback, NothingPending, Leave, Fault
<1>17. ASSUME Expire PROVE CursorInv'
  BY <1>17 DEF Expire, Lapse
<1>18. ASSUME ExpireAtWork PROVE CursorInv'
  BY <1>18 DEF ExpireAtWork, Lapse, Fault
<1>19. ASSUME Publish PROVE CursorInv'
  BY <1>19 DEF Publish
<1>20. CASE UNCHANGED vars
  BY <1>20 DEF vars
<1>21. QED
  BY <1>1, <1>2, <1>3, <1>4, <1>5, <1>6, <1>7, <1>8, <1>9, <1>10, <1>11, <1>12, <1>13,
     <1>14, <1>15, <1>16, <1>17, <1>18, <1>19, <1>20
     DEF Next, RunStep

\* The durable cursor of the event stream never passes an event that is not
\* recorded: a failed, crashed, timed-out or overtaken run of
\* sync_snappshop_events never makes the next one start too far.
THEOREM CursorBehindEvents == Spec => []NothingSkipped
<1>1. Init => CursorInv
  BY OrderSyncAssumption DEF Init, CursorInv, NothingSkipped, CursorOK, Processing, At, Event
<1>2. QED
  BY <1>1, TypeCorrect, CursorStep, PTL DEF Spec, CursorInv
-----------------------------------------------------------------------------
(* Recorded events are applied                                             *)

\* The event rows a run has added so far are no one else's, come before the
\* rest of its page and leave no gap; all but the one in work have effects.
EventsOK(w) ==
    /\ newEvents[w] \cap recorded = {}
    /\ \A v \in Worker \ {w} : newEvents[v] \cap newEvents[w] = {}
    /\ ~Processing(w) => newEvents[w] = {}
    /\ Processing(w) => \A e \in newEvents[w], f \in page[w] : e <= f
    /\ \A e \in newEvents[w], d \in Event : d < e => d \in recorded \cup newEvents[w]
    /\ Processing(w) =>
          \A e \in page[w], d \in Event :
              d < e => d \in page[w] \cup recorded \cup newEvents[w]
    /\ newEffects[w] \subseteq newEvents[w]
    /\ \A e \in newEvents[w] : e \in newEffects[w] \/ (At(w, "detail") /\ First(w, e))

\* The order rows a run has staged are no one else's, newer than the stored ones
\* and at least as new as the events it has effects for.
OrdersOK(w) ==
    /\ \A o \in Order : newStored[w][o] # NoRow =>
          /\ Processing(w) \/ At(w, "r_commit")
          /\ \A v \in Worker \ {w} : newStored[v][o] = NoRow
          /\ newStored[w][o] >= stored[o]
          /\ newStored[w][o] \in {0} \cup newEvents[w]
    /\ \A e \in newEffects[w] : newStored[w][OrderOf[e]] >= e

\* Recorded events leave no gap, and every stored order comes from one of them or
\* from reconciliation.
ApplyShared ==
    /\ RecordedIsApplied
    /\ \A e \in recorded, d \in Event : d < e => d \in recorded
    /\ \A o \in Order : stored[o] \in {NoRow, 0} \cup recorded

ApplyInv == ApplyShared /\ \A w \in Worker : EventsOK(w) /\ OrdersOK(w)

\* Every step commits events with their orders and effects, unless a run is
\* cancelled.
LEMMA ApplyStep ==
    ASSUME ~TimeLimit, TypeOK, CursorInv, ApplyInv, [Next]_vars PROVE ApplyInv'
<1> DbTypeOK /\ RunTypeOK
  BY TypeParts
<1> USE OrderSyncAssumption
        DEF DbTypeOK, RunTypeOK, PC, Awaits, Event, NoRow, Untouched, At, Goto,
            ApplyInv, ApplyShared, RecordedIsApplied, EventsOK, OrdersOK, CursorInv, CursorOK,
            Processing, First, leaseVars, dbVars, stagedVars, runVars
<1>1. ASSUME NEW w \in Worker, StartPoll(w) PROVE ApplyInv'
  BY <1>1 DEF StartPoll, Acquire
<1>2. ASSUME NEW w \in Worker, StartReconcile(w) PROVE ApplyInv'
  BY <1>2 DEF StartReconcile, Acquire
<1>3. ASSUME NEW w \in Worker, Heartbeat(w) PROVE ApplyInv'
  BY SMTT(30), <1>3 DEF Heartbeat
<1>4. ASSUME NEW w \in Worker, FetchPage(w) PROVE ApplyInv'
  <2>1. ApplyShared'
    BY <1>4 DEF FetchPage, NextCursor
  <2>2. ASSUME NEW v \in Worker PROVE EventsOK(v)'
    BY <1>4 DEF FetchPage, NextCursor
  <2>3. ASSUME NEW v \in Worker PROVE OrdersOK(v)'
    BY <1>4 DEF FetchPage, NextCursor
  <2>4. QED
    BY <2>1, <2>2, <2>3
<1>5. ASSUME NEW w \in Worker, NEW e \in page[w], SkipDuplicate(w, e) PROVE ApplyInv'
  <2>1. ApplyShared'
    BY <1>5 DEF SkipDuplicate, First
  <2>2. ASSUME NEW v \in Worker PROVE EventsOK(v)'
    BY <1>5 DEF SkipDuplicate, First
  <2>3. ASSUME NEW v \in Worker PROVE OrdersOK(v)'
    BY <1>5 DEF SkipDuplicate, First
  <2>4. QED
    BY <2>1, <2>2, <2>3
<1>6. ASSUME NEW w \in Worker, NEW e \in page[w], RecordEvent(w, e) PROVE ApplyInv'
  <2>1. ApplyShared'
    BY <1>6 DEF RecordEvent
  <2>2. newEvents' = [newEvents EXCEPT ![w] = @ \cup {e}] /\ First(w, e) /\ Processing(w)
    BY <1>6 DEF RecordEvent
  <2>3. EventsOK(w)'
    <3>1. ASSUME NEW d \in Event, d < e PROVE d \in recorded \cup newEvents[w]
      BY <2>2, <3>1
    <3>2. QED
      BY <1>6, <2>2, <3>1 DEF RecordEvent, EventFree
  <2>4. ASSUME NEW v \in Worker, v # w PROVE EventsOK(v)'
    BY <1>6, <2>2, <2>4 DEF RecordEvent, EventFree
  <2>5. ASSUME NEW v \in Worker PROVE OrdersOK(v)'
    BY <1>6 DEF RecordEvent
  <2>6. QED
    BY <2>1, <2>3, <2>4, <2>5
<1>7. ASSUME NEW w \in Worker, NEW e \in page[w], UpsertOrder(w, e) PROVE ApplyInv'
  <2> DEFINE o == OrderOf[e]
  <2>1. /\ e \in newEvents[w] /\ e \in Event /\ o \in Order
        /\ \A f \in newEvents[w] : f <= e
    BY <1>7 DEF UpsertOrder
  <2>2. Applies(w, e)
    <3>1. CASE newStored[w][o] # NoRow
      BY <2>1, <3>1 DEF Applies, Row
    <3>2. CASE newStored[w][o] = NoRow
      <4>1. stored[o] \in {NoRow, 0} \cup recorded
        BY <2>1
      <4>2. stored[o] \in recorded => ~(e < stored[o])
        <5>1. e \notin recorded
          BY <2>1
        <5>2. ApplyShared /\ e \in Event
          BY <2>1
        <5>3. QED
          BY <5>1, <5>2
      <4>3. QED
        BY <2>1, <3>2, <4>1, <4>2 DEF Applies, Row
    <3>3. QED
      BY <3>1, <3>2
  <2>3. /\ newStored' = [newStored EXCEPT ![w][o] = e]
        /\ newEffects' = [newEffects EXCEPT ![w] = @ \cup {e}]
        /\ page' = [page EXCEPT ![w] = @ \ {e}]
        /\ pc' = [pc EXCEPT ![w] = "event"]
        /\ UNCHANGED <<newEvents, recorded, stored, effects>>
    BY <1>7, <2>2 DEF UpsertOrder
  <2>4. ApplyShared'
    BY <2>3
  <2>5. EventsOK(w)'
    <3>1. \A f \in newEvents[w] : f \in newEffects'[w]
      BY <1>7, <2>3 DEF UpsertOrder
    <3>2. ASSUME NEW f \in page'[w], NEW d \in Event, d < f
          PROVE  d \in page'[w] \cup recorded \cup newEvents[w]
      BY <1>7, <2>1, <2>3, <3>2 DEF UpsertOrder
    <3>3. QED
      BY <1>7, <2>1, <2>3, <3>1, <3>2 DEF UpsertOrder
  <2>6. ASSUME NEW v \in Worker, v # w PROVE EventsOK(v)'
    BY <2>3, <2>6
  <2>7. OrdersOK(w)'
    <3>1. ASSUME NEW q \in Order, newStored'[w][q] # NoRow
          PROVE  /\ \A v \in Worker \ {w} : newStored'[v][q] = NoRow
                 /\ newStored'[w][q] >= stored[q]
                 /\ newStored'[w][q] \in {0} \cup newEvents[w]
      <4>1. CASE q = o
        <5>1. newStored'[w][q] = e
          BY <2>1, <2>3, <4>1
        <5>2. e >= stored[o]
          <6>1. Row(w, o) <= e
            BY <1>7, <2>2 DEF Applies
          <6>2. stored[o] <= Row(w, o)
            <7>1. newStored[w][o] # NoRow => newStored[w][o] >= stored[o]
              BY <1>7, <2>1
            <7>2. newStored[w][o] \in Int /\ stored[o] \in Int
              BY <2>1
            <7>3. QED
              BY <7>1, <7>2 DEF Row
          <6>3. Row(w, o) \in Int /\ stored[o] \in Int /\ e \in Int
            BY <2>1 DEF Row
          <6>4. QED
            BY <6>1, <6>2, <6>3
        <5>3. QED
          BY <1>7, <2>1, <2>3, <4>1, <5>1, <5>2 DEF UpsertOrder, OrderFree
      <4>2. CASE q # o
        BY <2>1, <2>3, <3>1, <4>2
      <4>3. QED
        BY <4>1, <4>2
    <3>2. ASSUME NEW f \in newEffects'[w] PROVE newStored'[w][OrderOf[f]] >= f
      <4>1. CASE OrderOf[f] = o
        BY <2>1, <2>3, <3>2, <4>1
      <4>2. CASE OrderOf[f] # o
        BY <2>1, <2>3, <3>2, <4>2
      <4>3. QED
        BY <4>1, <4>2
    <3>3. QED
      BY <2>3, <3>1, <3>2
  <2>8. ASSUME NEW v \in Worker, v # w PROVE OrdersOK(v)'
    BY <1>7, <2>1, <2>3, <2>8 DEF UpsertOrder, OrderFree
  <2>9. ASSUME NEW v \in Worker PROVE EventsOK(v)' /\ OrdersOK(v)'
    <3>1. CASE v = w
      BY ONLY <2>5, <2>7, <3>1
    <3>2. CASE v # w
      BY ONLY <2>6, <2>8, <3>2, v \in Worker
    <3>3. QED
      BY ONLY <3>1, <3>2
  <2>10. QED
    BY ONLY <2>4, <2>9 DEF ApplyInv
<1>8. ASSUME NEW w \in Worker, CommitPage(w) PROVE ApplyInv'
  <2>1. ApplyShared'
    <3>1. \A e \in newEvents[w] : e \in newEffects[w]
      BY <1>8 DEF CommitPage
    <3>2. ASSUME NEW o \in Order
          PROVE  /\ stored'[o] = IF newStored[w][o] # NoRow THEN newStored[w][o] ELSE stored[o]
                 /\ stored'[o] >= stored[o]
                 /\ stored'[o] \in {NoRow, 0} \cup recorded'
      BY <1>8 DEF CommitPage, Commit
    <3>3. ASSUME NEW e \in recorded' PROVE e \in effects' /\ stored'[OrderOf[e]] >= e
      <4>1. CASE e \in recorded
        <5>1. e \in effects /\ stored[OrderOf[e]] >= e /\ OrderOf[e] \in Order
          BY <4>1
        <5>2. e \in effects'
          BY <1>8, <5>1 DEF CommitPage, Commit
        <5>3. /\ stored'[OrderOf[e]] \in Int /\ stored[OrderOf[e]] \in Int /\ e \in Int
              /\ stored'[OrderOf[e]] >= stored[OrderOf[e]]
          BY <3>2, <4>1, <5>1
        <5>4. QED
          BY ONLY <5>1, <5>2, <5>3
      <4>2. CASE e \in newEvents[w]
        BY <1>8, <3>1, <3>2, <4>2 DEF CommitPage, Commit
      <4>3. QED
        BY <1>8, <4>1, <4>2 DEF CommitPage, Commit
    <3>4. ASSUME NEW e \in recorded', NEW d \in Event, d < e PROVE d \in recorded'
      BY <1>8, <3>4 DEF CommitPage, Commit
    <3>5. QED
      BY <3>2, <3>3, <3>4
  <2>2. ASSUME NEW v \in Worker PROVE EventsOK(v)'
    BY <1>8 DEF CommitPage, Commit, NothingPending
  <2>3. ASSUME NEW v \in Worker PROVE OrdersOK(v)'
    BY <1>8 DEF CommitPage, Commit, NothingPending
  <2>4. QED
    BY <2>1, <2>2, <2>3
<1>9. ASSUME NEW w \in Worker, NextPage(w) PROVE ApplyInv'
  BY <1>9 DEF NextPage
<1>10. ASSUME NEW w \in Worker, EndPoll(w) PROVE ApplyInv'
  BY <1>10 DEF EndPoll, Release, Leave
<1>11. ASSUME NEW w \in Worker, ReadOrders(w) PROVE ApplyInv'
  <2> DEFINE Stale == {o \in Issued : Row(w, o) \in {NoRow, 0}}
  <2>1. ApplyShared'
    BY <1>11 DEF ReadOrders
  <2>2. ASSUME NEW v \in Worker PROVE EventsOK(v)'
    BY <1>11 DEF ReadOrders
  <2>3. /\ \A o \in Order : newStored[w][o] = NoRow
        /\ \A o \in Stale : stored[o] \in {NoRow, 0}
    <3>1. pc[w] = "r_fetch"
      BY <1>11 DEF ReadOrders
    <3>2. \A o \in Order : newStored[w][o] = NoRow
      BY <3>1
    <3>3. \A o \in Stale : stored[o] \in {NoRow, 0}
      BY <3>2 DEF Row, Issued
    <3>4. QED
      BY <3>2, <3>3
  <2>4. newStored'[w] = [o \in Order |-> IF o \in Stale THEN 0 ELSE newStored[w][o]]
    BY <1>11 DEF ReadOrders
  <2>5. OrdersOK(w)'
    <3>1. pc'[w] = "r_commit" /\ newEffects'[w] = {} /\ newEvents'[w] = newEvents[w] /\ stored' = stored
      BY <1>11 DEF ReadOrders
    <3>2. ASSUME NEW o \in Order, newStored'[w][o] # NoRow
          PROVE  /\ newStored'[w][o] = 0 /\ stored[o] \in {NoRow, 0}
                 /\ \A v \in Worker \ {w} : newStored'[v][o] = NoRow
      BY <1>11, <2>3, <2>4, <3>2 DEF ReadOrders, OrderFree
    <3>3. ASSUME NEW o \in Order, newStored'[w][o] # NoRow
          PROVE  newStored'[w][o] >= stored'[o]
      BY <3>1, <3>2, <3>3
    <3>4. At(w, "r_commit")'
      BY <3>1
    <3>5. QED
      BY <3>1, <3>2, <3>3, <3>4
  <2>6. ASSUME NEW v \in Worker, v # w PROVE OrdersOK(v)'
    BY <1>11, <2>3, <2>4, <2>6 DEF ReadOrders, OrderFree
  <2>7. ASSUME NEW v \in Worker PROVE OrdersOK(v)'
    <3> HIDE DEF OrdersOK
    <3>1. QED
      BY <2>5, <2>6
  <2>8. QED
    <3> HIDE DEF OrdersOK, EventsOK, ApplyShared
    <3>1. QED
      BY <2>1, <2>2, <2>7
<1>12. ASSUME NEW w \in Worker, CommitReconcile(w) PROVE ApplyInv'
  <2>1. ApplyShared'
    <3>1. \A e \in newEvents[w] : e \in newEffects[w]
      BY <1>12 DEF CommitReconcile
    <3>2. ASSUME NEW o \in Order
          PROVE  /\ stored'[o] = IF newStored[w][o] # NoRow THEN newStored[w][o] ELSE stored[o]
                 /\ stored'[o] >= stored[o]
                 /\ stored'[o] \in {NoRow, 0} \cup recorded'
      BY <1>12 DEF CommitReconcile, Commit
    <3>3. ASSUME NEW e \in recorded' PROVE e \in effects' /\ stored'[OrderOf[e]] >= e
      <4>1. CASE e \in recorded
        <5>1. e \in effects /\ stored[OrderOf[e]] >= e /\ OrderOf[e] \in Order
          BY <4>1
        <5>2. e \in effects'
          BY <1>12, <5>1 DEF CommitReconcile, Commit
        <5>3. /\ stored'[OrderOf[e]] \in Int /\ stored[OrderOf[e]] \in Int /\ e \in Int
              /\ stored'[OrderOf[e]] >= stored[OrderOf[e]]
          BY <3>2, <4>1, <5>1
        <5>4. QED
          BY ONLY <5>1, <5>2, <5>3
      <4>2. CASE e \in newEvents[w]
        BY <1>12, <3>1, <3>2, <4>2 DEF CommitReconcile, Commit
      <4>3. QED
        BY <1>12, <4>1, <4>2 DEF CommitReconcile, Commit
    <3>4. ASSUME NEW e \in recorded', NEW d \in Event, d < e PROVE d \in recorded'
      BY <1>12, <3>4 DEF CommitReconcile, Commit
    <3>5. QED
      BY <3>2, <3>3, <3>4
  <2>2. ASSUME NEW v \in Worker PROVE EventsOK(v)'
    BY <1>12 DEF CommitReconcile, Commit, NothingPending, Release, Leave
  <2>3. ASSUME NEW v \in Worker PROVE OrdersOK(v)'
    BY <1>12 DEF CommitReconcile, Commit, NothingPending, Release, Leave
  <2>4. QED
    BY <2>1, <2>2, <2>3
<1>13. ASSUME NEW w \in Worker, LeaseLost(w) PROVE ApplyInv'
  <2>1. ApplyShared'
    BY <1>13 DEF LeaseLost, Rollback, NothingPending, Release, Leave
  <2>2. ASSUME NEW v \in Worker PROVE EventsOK(v)'
    BY <1>13 DEF LeaseLost, Rollback, NothingPending, Release, Leave
  <2>3. ASSUME NEW v \in Worker PROVE OrdersOK(v)'
    BY <1>13 DEF LeaseLost, Rollback, NothingPending, Release, Leave
  <2>4. QED
    BY <2>1, <2>2, <2>3
<1>14. ASSUME NEW w \in Worker, Fail(w) PROVE ApplyInv'
  <2>1. ApplyShared'
    BY <1>14 DEF Fail, Rollback, NothingPending, Release, Leave, Fault
  <2>2. ASSUME NEW v \in Worker PROVE EventsOK(v)'
    BY <1>14 DEF Fail, Rollback, NothingPending, Release, Leave, Fault
  <2>3. ASSUME NEW v \in Worker PROVE OrdersOK(v)'
    BY <1>14 DEF Fail, Rollback, NothingPending, Release, Leave, Fault
  <2>4. QED
    BY <2>1, <2>2, <2>3
<1>15. ASSUME NEW w \in Worker, TimeOut(w) PROVE ApplyInv'
  BY <1>15 DEF TimeOut, Commit, NothingPending, Release, Leave
<1>16. ASSUME NEW w \in Worker, Crash(w) PROVE ApplyInv'
  <2>1. ApplyShared'
    BY <1>16 DEF Crash, Rollback, NothingPending, Leave, Fault
  <2>2. ASSUME NEW v \in Worker PROVE EventsOK(v)'
    BY <1>16 DEF Crash, Rollback, NothingPending, Leave, Fault
  <2>3. ASSUME NEW v \in Worker PROVE OrdersOK(v)'
    BY <1>16 DEF Crash, Rollback, NothingPending, Leave, Fault
  <2>4. QED
    BY <2>1, <2>2, <2>3
<1>17. ASSUME Expire PROVE ApplyInv'
  BY <1>17 DEF Expire, Lapse
<1>18. ASSUME ExpireAtWork PROVE ApplyInv'
  BY <1>18 DEF ExpireAtWork, Lapse, Fault
<1>19. ASSUME Publish PROVE ApplyInv'
  BY <1>19 DEF Publish
<1>20. CASE UNCHANGED vars
  BY <1>20 DEF vars
<1>21. QED
  BY <1>1, <1>2, <1>3, <1>4, <1>5, <1>6, <1>7, <1>8, <1>9, <1>10, <1>11, <1>12, <1>13,
     <1>14, <1>15, <1>16, <1>17, <1>18, <1>19, <1>20
     DEF Next, RunStep

\* At first nothing is recorded, staged or read.
LEMMA ApplyInit == Init => CursorInv /\ ApplyInv
<1> SUFFICES ASSUME Init PROVE CursorInv /\ ApplyInv
  OBVIOUS
<1> USE OrderSyncAssumption DEF Init, Untouched, At, Event, Processing, NoRow
<1>1. CursorInv
  BY DEF CursorInv, NothingSkipped, CursorOK
<1>2. ApplyShared
  BY DEF ApplyShared, RecordedIsApplied
<1>3. ASSUME NEW w \in Worker PROVE EventsOK(w) /\ OrdersOK(w)
  BY DEF EventsOK, OrdersOK
<1>4. QED
  BY <1>1, <1>2, <1>3 DEF ApplyInv

\* An event of the SnappShop stream is durable only together with its order row
\* and its inventory effects, whichever runs fail, crash or lose their lease -
\* as long as no run is cancelled by the runner's operation timeout.
THEOREM EventsCommitWithOrders ==
    ASSUME ~TimeLimit PROVE Spec => []RecordedIsApplied
<1>1. ApplyInv => RecordedIsApplied
  BY DEF ApplyInv, ApplyShared
<1>2. TypeOK /\ CursorInv /\ ApplyInv /\ [Next]_vars => CursorInv' /\ ApplyInv'
  BY CursorStep, ApplyStep
<1>3. QED
  BY <1>1, <1>2, ApplyInit, TypeCorrect, PTL DEF Spec

-----------------------------------------------------------------------------
(* The lease                                                               *)

Fence == dbVars' # dbVars => \E w \in Worker : holder = w /\ live /\ pc'[w] # pc[w]

\* Orders, events and cursor change only in a step of the run that holds the
\* unexpired channel lease: a run that lost it commits nothing, however late it
\* wakes up - again as long as no run is cancelled by the operation timeout.
THEOREM HolderCommits ==
    ASSUME ~TimeLimit PROVE Spec => OnlyTheHolderCommits
<1>1. TypeOK /\ [Next]_vars => [Fence]_vars
  <2> SUFFICES ASSUME TypeOK, [Next]_vars PROVE Fence
    OBVIOUS
  <2> RunTypeOK
    BY TypeParts
  <2> USE DEF RunTypeOK, PC, Awaits, At, Goto, Fence, Holds, dbVars
  <2>1. ASSUME NEW w \in Worker, StartPoll(w) PROVE Fence
    BY <2>1 DEF StartPoll, Acquire
  <2>2. ASSUME NEW w \in Worker, StartReconcile(w) PROVE Fence
    BY <2>2 DEF StartReconcile, Acquire
  <2>3. ASSUME NEW w \in Worker, Heartbeat(w) PROVE Fence
    BY <2>3 DEF Heartbeat
  <2>4. ASSUME NEW w \in Worker, FetchPage(w) PROVE Fence
    BY <2>4 DEF FetchPage, NextCursor
  <2>5. ASSUME NEW w \in Worker, NEW e \in page[w], SkipDuplicate(w, e) PROVE Fence
    BY <2>5 DEF SkipDuplicate, First
  <2>6. ASSUME NEW w \in Worker, NEW e \in page[w], RecordEvent(w, e) PROVE Fence
    BY <2>6 DEF RecordEvent, First
  <2>7. ASSUME NEW w \in Worker, NEW e \in page[w], UpsertOrder(w, e) PROVE Fence
    BY <2>7 DEF UpsertOrder, First
  <2>8. ASSUME NEW w \in Worker, CommitPage(w) PROVE Fence
    BY <2>8 DEF CommitPage, Commit, NothingPending
  <2>9. ASSUME NEW w \in Worker, NextPage(w) PROVE Fence
    BY <2>9 DEF NextPage
  <2>10. ASSUME NEW w \in Worker, EndPoll(w) PROVE Fence
    BY <2>10 DEF EndPoll, Release, Leave
  <2>11. ASSUME NEW w \in Worker, ReadOrders(w) PROVE Fence
    BY <2>11 DEF ReadOrders
  <2>12. ASSUME NEW w \in Worker, CommitReconcile(w) PROVE Fence
    BY <2>12 DEF CommitReconcile, Commit, NothingPending, Release, Leave
  <2>13. ASSUME NEW w \in Worker, LeaseLost(w) PROVE Fence
    BY <2>13 DEF LeaseLost, Rollback, NothingPending, Release, Leave
  <2>14. ASSUME NEW w \in Worker, Fail(w) PROVE Fence
    BY <2>14 DEF Fail, Rollback, NothingPending, Release, Leave, Fault
  <2>15. ASSUME NEW w \in Worker, TimeOut(w) PROVE Fence
    BY <2>15 DEF TimeOut, Commit, NothingPending, Release, Leave
  <2>16. ASSUME NEW w \in Worker, Crash(w) PROVE Fence
    BY <2>16 DEF Crash, Rollback, NothingPending, Leave, Fault
  <2>17. ASSUME Expire PROVE Fence
    BY <2>17 DEF Expire, Lapse
  <2>18. ASSUME ExpireAtWork PROVE Fence
    BY <2>18 DEF ExpireAtWork, Lapse, Fault
  <2>19. ASSUME Publish PROVE Fence
    BY <2>19 DEF Publish
  <2>20. CASE UNCHANGED vars
    BY <2>20 DEF vars
  <2>21. QED
    BY <2>1, <2>2, <2>3, <2>4, <2>5, <2>6, <2>7, <2>8, <2>9, <2>10, <2>11, <2>12, <2>13,
       <2>14, <2>15, <2>16, <2>17, <2>18, <2>19, <2>20
       DEF Next, RunStep
<1>2. QED
  BY <1>1, TypeCorrect, PTL DEF Spec, OnlyTheHolderCommits, Fence
-----------------------------------------------------------------------------
(* The ledger                                                              *)

Polling(w) == pc[w] \in {"page", "fetch"} \/ Processing(w)

\* What the run has read and staged is the n events behind where it reads from.
Batch(w, n) ==
    /\ from[w] + n <= published
    /\ next[w] \in {from[w] + n, 0}
    /\ page[w] \cup newEvents[w] \subseteq from[w] + 1 .. from[w] + n
    /\ from[w] + 1 .. from[w] + n \subseteq page[w] \cup recorded \cup newEvents[w]

\* As long as a run holds the lease nobody has moved the cursor it reads from; it
\* stages rows of orders its events are about, or of orders it has listed.
ReaderOK(w) ==
    /\ from[w] <= published
    /\ Polling(w) /\ Holds(w) => from[w] = cursor
    /\ Processing(w) => \E n \in 0..PageSize : Batch(w, n)
    /\ At(w, "ack") => next[w] <= published /\ (Holds(w) => next[w] = cursor)
    /\ \A o \in Order : newStored[w][o] # NoRow =>
          IF At(w, "r_commit")
          THEN newStored[w][o] = 0 /\ o \in Issued
          ELSE newStored[w][o] \in newEvents[w] /\ OrderOf[newStored[w][o]] = o
    /\ newListEffects[w] \subseteq
          IF At(w, "r_commit") THEN {o \in CancelledOrders : newStored[w][o] # NoRow} ELSE {}

ReaderInv == cursor <= published /\ \A w \in Worker : ReaderOK(w)

\* Events that are published or recorded meanwhile leave a batch a batch.
LEMMA BatchKept ==
    ASSUME DbTypeOK, RunTypeOK, NEW w \in Worker, NEW n \in 0..PageSize, Batch(w, n),
           published' \in Nat, published <= published', recorded \subseteq recorded',
           from'[w] = from[w], next'[w] = next[w],
           page'[w] \cup newEvents'[w] \cup recorded' = page[w] \cup newEvents[w] \cup recorded',
           page'[w] \cup newEvents'[w] \subseteq page[w] \cup newEvents[w]
    PROVE  Batch(w, n)'
<1>1. from[w] + n <= published'
  BY OrderSyncAssumption DEF Batch, DbTypeOK, RunTypeOK
<1>2. QED
  BY <1>1 DEF Batch

\* A step of another run does not disturb a reader, unless it takes the lease away.
LEMMA ReaderFrame ==
    ASSUME DbTypeOK, RunTypeOK, NEW w \in Worker, ReaderOK(w),
           published' \in Nat, published <= published', recorded \subseteq recorded',
           from'[w] = from[w], next'[w] = next[w], page'[w] = page[w], pc'[w] = pc[w],
           newEvents'[w] = newEvents[w], newStored'[w] = newStored[w],
           newListEffects'[w] = newListEffects[w],
           Holds(w)' => Holds(w) /\ cursor' = cursor
    PROVE  ReaderOK(w)'
<1>1. Processing(w)' => \E n \in 0..PageSize : Batch(w, n)'
  BY BatchKept DEF ReaderOK, Processing
<1>2. Issued \subseteq Issued' /\ CancelledOrders \subseteq CancelledOrders'
  BY OrderSyncAssumption, SMTT(60) DEF Issued, CancelledOrders, DbTypeOK, Event
<1>3. from[w] <= published' /\ (At(w, "ack") => next[w] <= published')
  BY DEF ReaderOK, DbTypeOK, RunTypeOK
<1>4. QED
  BY <1>1, <1>2, <1>3 DEF ReaderOK, Polling, Processing, At

\* A run that ends is no reader any more.
LEMMA ReaderLeaves ==
    ASSUME RunTypeOK, NEW w \in Worker, Leave(w), NothingPending(w), published' \in Nat
    PROVE  ReaderOK(w)'
<1>1. from'[w] = 0 /\ pc'[w] = "idle" /\ newStored'[w] = Untouched /\ newListEffects'[w] = {}
  BY DEF Leave, NothingPending, RunTypeOK
<1>2. QED
  BY <1>1 DEF ReaderOK, Polling, Processing, At, Untouched

\* Every step keeps the readers in order, unless a run is cancelled.
LEMMA ReaderStep ==
    ASSUME ~TimeLimit, TypeOK, CursorInv, ApplyInv, ReaderInv, [Next]_vars PROVE ReaderInv'
<1>t. DbTypeOK /\ RunTypeOK /\ DbTypeOK' /\ RunTypeOK'
  BY TypeParts, TypeStep
<1>r. cursor <= published /\ \A w \in Worker : ReaderOK(w)
  BY DEF ReaderInv
<1>p. published \in Nat /\ published' \in Nat /\ cursor \in Nat
  BY <1>t, OrderSyncAssumption DEF DbTypeOK
<1> USE DEF At, Goto, stagedVars
<1>f. ASSUME published' = published, cursor' = cursor, UNCHANGED leaseVars,
             recorded' = recorded, UNCHANGED runVars
      PROVE  ReaderInv'
  BY <1>f, <1>p, <1>r, <1>t, ReaderFrame DEF ReaderInv, Holds, leaseVars, runVars
\* A step of w that leaves the lease and the tables alone.
<1>g. ASSUME NEW w \in Worker, published' = published, cursor' = cursor,
             recorded' = recorded, \A v \in Worker \ {w} : Holds(v)' => Holds(v),
             \A v \in Worker \ {w} :
                /\ from'[v] = from[v] /\ next'[v] = next[v] /\ page'[v] = page[v]
                /\ pc'[v] = pc[v] /\ newEvents'[v] = newEvents[v] /\ newStored'[v] = newStored[v]
                /\ newListEffects'[v] = newListEffects[v],
             ReaderOK(w)'
      PROVE  ReaderInv'
  <2>1. ASSUME NEW v \in Worker \ {w} PROVE ReaderOK(v)'
    BY <1>g, <1>p, <1>r, <1>t, <2>1, ReaderFrame
  <2>2. QED
    BY <1>g, <1>r, <2>1 DEF ReaderInv
<1>1. ASSUME NEW w \in Worker, StartPoll(w) PROVE ReaderInv'
  <2>1. \A v \in Worker \ {w} : ~Holds(v)'
    BY <1>1 DEF StartPoll, Acquire, Holds
  <2>2. /\ from'[w] = cursor /\ pc'[w] = "page" /\ newStored'[w] = newStored[w] /\ pc[w] = "idle"
        /\ newEvents'[w] = newEvents[w]
    BY <1>1, <1>t DEF StartPoll, RunTypeOK
  <2>3. ReaderOK(w)'
    BY <1>1, <1>r, <2>2 DEF StartPoll, ReaderOK, Polling, Processing, dbVars
  <2>4. QED
    BY <1>1, <1>t, <2>1, <2>3, <1>g DEF StartPoll, dbVars, RunTypeOK
<1>2. ASSUME NEW w \in Worker, StartReconcile(w) PROVE ReaderInv'
  <2>1. \A v \in Worker \ {w} : ~Holds(v)'
    BY <1>2 DEF StartReconcile, Acquire, Holds
  <2>2. pc'[w] = "r_page" /\ pc[w] = "idle"
    BY <1>2, <1>t DEF StartReconcile, RunTypeOK
  <2>3. ReaderOK(w)'
    BY <1>2, <1>r, <2>2 DEF StartReconcile, ReaderOK, Polling, Processing
  <2>4. QED
    BY <1>2, <1>t, <2>1, <2>3, <1>g DEF StartReconcile, dbVars, RunTypeOK
<1>3. ASSUME NEW w \in Worker, Heartbeat(w) PROVE ReaderInv'
  <2>1. /\ pc'[w] \in {"fetch", "r_fetch"} /\ pc[w] \in {"page", "r_page"}
        /\ pc'[w] = "fetch" => pc[w] = "page"
    BY <1>3, <1>t DEF Heartbeat, RunTypeOK
  <2>2. ReaderOK(w)'
    BY <1>3, <1>r, <2>1 DEF Heartbeat, ReaderOK, Polling, Processing, Holds, leaseVars, dbVars
  <2>3. QED
    BY <1>3, <1>t, <2>2, <1>g DEF Heartbeat, dbVars, leaseVars, Holds, RunTypeOK
<1>4. ASSUME NEW w \in Worker, FetchPage(w) PROVE ReaderInv'
  <2>1. from[w] \in Nat /\ from[w] <= published /\ published <= MaxEvent
    BY <1>r, <1>t, OrderSyncAssumption DEF ReaderOK, RunTypeOK, DbTypeOK
  <2>2. PICK n \in 0..PageSize : from[w] + n <= published /\ NextCursor(from[w]) = from[w] + n
    <3> DEFINE m == NextCursor(from[w]) - from[w]
    <3>1. m \in 0..PageSize /\ from[w] + m <= published /\ NextCursor(from[w]) = from[w] + m
      BY <1>p, <2>1, OrderSyncAssumption DEF NextCursor
    <3>2. QED
      BY <3>1
  <2>3. newEvents[w] = {} /\ newEvents'[w] = {} /\ pc[w] = "fetch" /\ pc'[w] = "event"
    BY <1>4, <1>t DEF FetchPage, ApplyInv, EventsOK, Processing, RunTypeOK
  <2>4. page'[w] = from[w] + 1 .. from[w] + n /\ next'[w] \in {from[w] + n, 0}
    <3>1. next'[w] \in {from[w] + n, 0}
      BY <1>4, <1>t, <2>1, <2>2 DEF FetchPage, RunTypeOK
    <3>2. page'[w] = {e \in Event : e > from[w] /\ e <= published /\ e <= from[w] + PageSize}
      BY <1>4, <1>t DEF FetchPage, RunTypeOK
    <3>3. {e \in Event : e > from[w] /\ e <= published /\ e <= from[w] + PageSize}
             = from[w] + 1 .. from[w] + n
      BY <1>p, <2>1, <2>2, OrderSyncAssumption DEF NextCursor, Event
    <3>4. QED
      BY <3>1, <3>2, <3>3
  <2>5. from' = from /\ published' = published /\ newStored' = newStored /\ cursor' = cursor
        /\ holder' = holder /\ live' = live /\ newListEffects' = newListEffects
    BY <1>4 DEF FetchPage, dbVars, leaseVars
  <2>6. Batch(w, n)'
    <3>1. from'[w] + n <= published' /\ next'[w] \in {from'[w] + n, 0}
      BY <2>2, <2>4, <2>5
    <3>2. page'[w] \cup newEvents'[w] = from'[w] + 1 .. from'[w] + n
      BY <2>3, <2>4, <2>5
    <3>3. QED
      BY ONLY <3>1, <3>2 DEF Batch
  <2>7. \A o \in Order : newStored[w][o] = NoRow
    BY <2>3 DEF ApplyInv, OrdersOK, Processing
  <2>8. ReaderOK(w)'
    <3>1. from'[w] <= published'
      BY <2>1, <2>5
    <3>2. Holds(w)' => from'[w] = cursor'
      BY <1>r, <2>3, <2>5 DEF ReaderOK, Polling, Holds
    <3>3. \E k \in 0..PageSize : Batch(w, k)'
      BY <2>6
    <3>4. newListEffects'[w] = {}
      BY <1>r, <2>3, <2>5 DEF ReaderOK
    <3>5. QED
      BY <2>3, <2>5, <2>7, <3>1, <3>2, <3>3, <3>4 DEF ReaderOK
  <2>9. QED
    BY <1>4, <1>t, <2>8, <1>g DEF FetchPage, dbVars, leaseVars, Holds, RunTypeOK
<1>5. ASSUME NEW w \in Worker, NEW e \in page[w], SkipDuplicate(w, e) PROVE ReaderInv'
  <2>1. PICK n \in 0..PageSize : Batch(w, n)
    BY <1>5, <1>r DEF SkipDuplicate, ReaderOK, Processing
  <2>2. page'[w] = page[w] \ {e} /\ e \in recorded \cup newEvents[w]
    BY <1>5, <1>t DEF SkipDuplicate, RunTypeOK
  <2>3. Batch(w, n)'
    BY <1>5, <1>p, <1>t, <2>1, <2>2, BatchKept DEF SkipDuplicate, dbVars
  <2>4. ReaderOK(w)'
    BY <1>5, <1>r, <2>3
       DEF SkipDuplicate, ReaderOK, Polling, Processing, Holds, leaseVars, dbVars
  <2>5. QED
    BY <1>5, <1>t, <2>4, <1>g DEF SkipDuplicate, dbVars, leaseVars, Holds, RunTypeOK
<1>6. ASSUME NEW w \in Worker, NEW e \in page[w], RecordEvent(w, e) PROVE ReaderInv'
  <2>1. PICK n \in 0..PageSize : Batch(w, n)
    BY <1>6, <1>r DEF RecordEvent, ReaderOK, Processing
  <2>2. newEvents'[w] = newEvents[w] \cup {e} /\ pc'[w] = "detail"
    BY <1>6, <1>t DEF RecordEvent, RunTypeOK
  <2>3. Batch(w, n)'
    BY <1>6, <1>p, <1>t, <2>1, <2>2, BatchKept DEF RecordEvent, dbVars
  <2>4. ReaderOK(w)'
    BY <1>6, <1>r, <2>2, <2>3
       DEF RecordEvent, ReaderOK, Polling, Processing, Holds, leaseVars, dbVars
  <2>5. QED
    BY <1>6, <1>t, <2>4, <1>g DEF RecordEvent, dbVars, leaseVars, Holds, RunTypeOK
<1>7. ASSUME NEW w \in Worker, NEW e \in page[w], UpsertOrder(w, e) PROVE ReaderInv'
  <2>1. PICK n \in 0..PageSize : Batch(w, n)
    BY <1>7, <1>r DEF UpsertOrder, ReaderOK, Processing
  <2>2. e \in newEvents[w] /\ OrderOf[e] \in Order
    BY <1>7, <1>t, OrderSyncAssumption DEF UpsertOrder, CursorInv, CursorOK, RunTypeOK
  <2>3. page'[w] = page[w] \ {e} /\ pc'[w] = "event"
    BY <1>7, <1>t DEF UpsertOrder, RunTypeOK
  <2>4. Batch(w, n)'
    BY <1>7, <1>p, <1>t, <2>1, <2>2, <2>3, BatchKept DEF UpsertOrder, dbVars
  <2>5. ASSUME NEW o \in Order
        PROVE  newStored'[w][o] = newStored[w][o] \/ (newStored'[w][o] = e /\ o = OrderOf[e])
    BY <1>7, <1>t, <2>2 DEF UpsertOrder, RunTypeOK
  <2>6. ReaderOK(w)'
    BY <1>7, <1>r, <2>2, <2>3, <2>4, <2>5
       DEF UpsertOrder, ReaderOK, Polling, Processing, Holds, leaseVars, dbVars
  <2>7. QED
    BY <1>7, <1>t, <2>6, <1>g DEF UpsertOrder, dbVars, leaseVars, Holds, RunTypeOK
<1>8. ASSUME NEW w \in Worker, CommitPage(w) PROVE ReaderInv'
  <2>1. PICK n \in 0..PageSize : Batch(w, n)
    BY <1>8, <1>r DEF CommitPage, ReaderOK, Processing
  <2>2. /\ pc'[w] = "ack" /\ newStored'[w] = Untouched /\ newListEffects'[w] = {} /\ cursor' = next[w]
        /\ published' = published /\ recorded \subseteq recorded'
    BY <1>8, <1>t DEF CommitPage, Commit, NothingPending, RunTypeOK
  <2>3. next[w] <= published
    BY <1>p, <2>1 DEF Batch
  <2>4. ReaderOK(w)'
    BY <1>8, <1>r, <2>2, <2>3 DEF CommitPage, ReaderOK, Polling, Processing, Untouched
  <2>5. ASSUME NEW v \in Worker, v # w PROVE ReaderOK(v)'
    <3>1. ~Holds(v)'
      BY <1>8, <2>5 DEF CommitPage, Holds, leaseVars
    <3>2. QED
      BY <1>8, <1>p, <1>r, <1>t, <2>2, <2>5, <3>1, ReaderFrame
         DEF CommitPage, Commit, NothingPending, RunTypeOK
  <2>6. QED
    BY <2>2, <2>3, <2>4, <2>5 DEF ReaderInv
<1>9. ASSUME NEW w \in Worker, NextPage(w) PROVE ReaderInv'
  <2>1. pc'[w] = "page" /\ pc[w] = "ack" /\ from'[w] = next[w]
    BY <1>9, <1>t DEF NextPage, RunTypeOK
  <2>2. ReaderOK(w)'
    BY <1>9, <1>r, <2>1 DEF NextPage, ReaderOK, Polling, Processing, Holds, leaseVars, dbVars
  <2>3. QED
    BY <1>9, <1>t, <2>2, <1>g DEF NextPage, dbVars, leaseVars, Holds, RunTypeOK
<1>h. ASSUME NEW w \in Worker, Leave(w), NothingPending(w), published' = published,
             cursor' = cursor, recorded \subseteq recorded', Release(w) \/ UNCHANGED leaseVars
      PROVE  ReaderInv'
  <2>1. ASSUME NEW v \in Worker, v # w PROVE Holds(v)' => Holds(v)
    BY <1>h, <2>1 DEF Release, Holds, leaseVars
  <2>2. ASSUME NEW v \in Worker, v # w PROVE ReaderOK(v)'
    BY SMTT(30), <1>h, <1>p, <1>r, <1>t, <2>1, <2>2, ReaderFrame DEF Leave, NothingPending, RunTypeOK
  <2>3. ReaderOK(w)'
    BY <1>h, <1>p, <1>t, ReaderLeaves
  <2>4. QED
    BY <1>h, <1>r, <2>2, <2>3 DEF ReaderInv
<1>10. ASSUME NEW w \in Worker, EndPoll(w) PROVE ReaderInv'
  <2>1. newStored[w] = Untouched /\ newEvents[w] = {}
    <3>1. \A o \in Order : newStored[w][o] = NoRow
      BY <1>10 DEF EndPoll, ApplyInv, OrdersOK, Processing
    <3>2. QED
      BY <1>10, <1>t, <3>1 DEF EndPoll, ApplyInv, EventsOK, Processing, RunTypeOK, Untouched
  <2>2. from'[w] = 0 /\ pc'[w] = "idle" /\ newStored'[w] = Untouched /\ newListEffects'[w] = {}
    <3>1. newListEffects[w] = {}
      BY <1>10, <1>r DEF EndPoll, ReaderOK
    <3>2. QED
      BY <1>10, <1>t, <2>1, <3>1 DEF EndPoll, Leave, RunTypeOK
  <2>3. ReaderOK(w)'
    BY <1>10, <1>p, <2>2 DEF ReaderOK, Polling, Processing, Untouched
  <2>4. \A v \in Worker \ {w} : Holds(v)' => Holds(v)
    BY <1>10 DEF EndPoll, Release, Holds
  <2>5. QED
    BY <1>10, <1>t, <2>3, <2>4, <1>g DEF EndPoll, Leave, dbVars, RunTypeOK
<1>11. ASSUME NEW w \in Worker, ReadOrders(w) PROVE ReaderInv'
  <2>1. /\ pc'[w] = "r_commit" /\ pc[w] = "r_fetch"
        /\ \A o \in Order : newStored'[w][o] # NoRow =>
              newStored'[w][o] = newStored[w][o] \/ (newStored'[w][o] = 0 /\ o \in Issued)
    BY <1>11, <1>t DEF ReadOrders, RunTypeOK
  <2>2. \A o \in Order : newStored[w][o] = NoRow
    BY <2>1 DEF ApplyInv, OrdersOK, Processing
  <2>3. Issued' = Issued /\ CancelledOrders' = CancelledOrders
        /\ newListEffects'[w] \subseteq {o \in CancelledOrders : newStored'[w][o] # NoRow}
    <3>1. published' = published
      BY <1>11 DEF ReadOrders
    <3>2. newListEffects'[w] = {o \in Issued : Row(w, o) \in {NoRow, 0}} \cap CancelledOrders
      BY <1>11, <1>t DEF ReadOrders, RunTypeOK
    <3>3. Issued \subseteq Order
      BY OrderSyncAssumption DEF Issued
    <3>4. \A o \in Issued : Row(w, o) \in {NoRow, 0} => newStored'[w][o] = 0
      BY <1>11, <1>t, <3>3 DEF ReadOrders, RunTypeOK
    <3>5. QED
      BY <3>1, <3>2, <3>4 DEF Issued, CancelledOrders, NoRow
  <2>4. ReaderOK(w)'
    BY <1>11, <1>r, <2>1, <2>2, <2>3 DEF ReadOrders, ReaderOK, Polling, Processing
  <2>5. QED
    BY <1>11, <1>t, <2>4, <1>g DEF ReadOrders, dbVars, leaseVars, Holds, RunTypeOK
<1>12. ASSUME NEW w \in Worker, CommitReconcile(w) PROVE ReaderInv'
  BY <1>12, <1>h DEF CommitReconcile, Commit
<1>13. ASSUME NEW w \in Worker, LeaseLost(w) PROVE ReaderInv'
  BY <1>13, <1>h DEF LeaseLost, Rollback
<1>14. ASSUME NEW w \in Worker, Fail(w) PROVE ReaderInv'
  BY <1>14, <1>h DEF Fail, Rollback
<1>15. ASSUME NEW w \in Worker, TimeOut(w) PROVE ReaderInv'
  BY <1>15 DEF TimeOut
<1>16. ASSUME NEW w \in Worker, Crash(w) PROVE ReaderInv'
  BY <1>16, <1>h DEF Crash, Rollback
<1>17. ASSUME Lapse, UNCHANGED <<published, dbVars, runVars>> PROVE ReaderInv'
  BY <1>17, <1>p, <1>r, <1>t, ReaderFrame DEF ReaderInv, Lapse, Holds, dbVars, runVars
<1>18. ASSUME Publish PROVE ReaderInv'
  BY <1>18, <1>p, <1>r, <1>t, ReaderFrame DEF ReaderInv, Publish, Holds, leaseVars, dbVars, runVars
<1>19. CASE UNCHANGED vars
  BY <1>19, <1>f DEF vars, dbVars
<1>20. QED
  BY <1>1, <1>2, <1>3, <1>4, <1>5, <1>6, <1>7, <1>8, <1>9, <1>10, <1>11, <1>12, <1>13,
     <1>14, <1>15, <1>16, <1>17, <1>18, <1>19
     DEF Next, RunStep, Expire, ExpireAtWork

\* At first no run reads.
LEMMA ReaderInit == Init => ReaderInv
BY OrderSyncAssumption
   DEF Init, ReaderInv, ReaderOK, Polling, Processing, At, Untouched

\* The last of some events is the one that none of them is behind.
LEMMA LastIs ==
    ASSUME NEW S \in SUBSET Int, NEW x \in S, \A f \in S : f <= x
    PROVE  Ledger!Last(S) = x
<1>1. Ledger!Last(S) \in S /\ \A f \in S : f <= Ledger!Last(S)
  BY DEF Ledger!Last
<1>2. Ledger!Last(S) <= x /\ x <= Ledger!Last(S) /\ Ledger!Last(S) \in Int /\ x \in Int
  BY <1>1
<1>3. QED
  BY ONLY <1>2

\* A page is committed whole: all that the ledger takes with its events.
LEMMA CommitTakes ==
    ASSUME DbTypeOK, RunTypeOK, ApplyInv, ReaderInv, NEW w \in Worker, CommitPage(w)
    PROVE  \E n \in 0..PageSize : Ledger!Take(n)
<1> DEFINE fresh == newEvents[w]
<1>1. PICK n \in 0..PageSize : Batch(w, n)
  BY DEF CommitPage, At, ReaderInv, ReaderOK, Processing
<1>2. from[w] = cursor /\ page[w] = {} /\ pc[w] = "event"
  BY DEF CommitPage, At, ReaderInv, ReaderOK, Polling, Processing
<1>3. fresh = (cursor + 1 .. cursor + n) \ recorded
  BY <1>1, <1>2 DEF Batch, ApplyInv, EventsOK
<1>4. newEffects[w] = fresh
  BY <1>2 DEF ApplyInv, EventsOK, At
<1>5. ASSUME NEW o \in Order
      PROVE  stored'[o] = IF Ledger!EventsOf(o, fresh) = {} THEN stored[o]
                          ELSE Ledger!Last(Ledger!EventsOf(o, fresh))
  <2>1. stored'[o] = IF newStored[w][o] # NoRow THEN newStored[w][o] ELSE stored[o]
    BY DEF CommitPage, Commit
  <2>2. \A e \in Ledger!EventsOf(o, fresh) : e \in Event /\ newStored[w][o] >= e
    BY <1>4 DEF Ledger!EventsOf, ApplyInv, OrdersOK, RunTypeOK
  <2>3. CASE newStored[w][o] = NoRow
    <3>1. Ledger!EventsOf(o, fresh) = {}
      BY <2>2, <2>3 DEF NoRow, Event
    <3>2. QED
      BY <2>1, <2>3, <3>1
  <2>4. CASE newStored[w][o] # NoRow
    <3>1. newStored[w][o] \in Ledger!EventsOf(o, fresh)
      BY <1>2, <2>4 DEF ReaderInv, ReaderOK, At, Ledger!EventsOf
    <3>2. Ledger!EventsOf(o, fresh) \in SUBSET Int
      BY <2>2 DEF Event
    <3>3. Ledger!Last(Ledger!EventsOf(o, fresh)) = newStored[w][o]
      BY <2>2, <3>1, <3>2, LastIs
    <3>4. QED
      BY <2>1, <2>4, <3>1, <3>3
  <2>5. QED
    BY <2>3, <2>4
<1>6. /\ stored' = [o \in Order |-> IF Ledger!EventsOf(o, fresh) = {} THEN stored[o]
                                    ELSE Ledger!Last(Ledger!EventsOf(o, fresh))]
      /\ recorded' = recorded \cup fresh /\ effects' = effects \cup fresh
      /\ cursor' = next[w] /\ published' = published /\ listEffects' = listEffects
  <2>1. stored' = [o \in Order |-> stored'[o]]
    BY DEF CommitPage, Commit
  <2>2. newListEffects[w] = {}
    BY <1>2 DEF ReaderInv, ReaderOK, At
  <2>3. QED
    BY <1>4, <1>5, <2>1, <2>2 DEF CommitPage, Commit
<1>7. cursor + n <= published /\ cursor' \in {cursor + n, 0}
  BY <1>1, <1>2, <1>6 DEF Batch
<1>8. Ledger!Take(n)
  BY <1>3, <1>6, <1>7 DEF Ledger!Take
<1>9. QED
  BY <1>8

\* Reconciliation lists orders that no event has stored, and what it proposes is for
\* cancelled ones among them.
LEMMA ReconcileLists ==
    ASSUME DbTypeOK, RunTypeOK, ApplyInv, ReaderInv, NEW w \in Worker, CommitReconcile(w)
    PROVE  \E orders, cancelled \in SUBSET Order : Ledger!List(orders, cancelled)
<1> DEFINE orders == {o \in Order : newStored[w][o] # NoRow}
           cancelled == newListEffects[w]
<1>1. newEvents[w] = {} /\ newEffects[w] = {} /\ pc[w] = "r_commit"
  BY DEF CommitReconcile, At, ApplyInv, EventsOK, Processing
<1>2. ASSUME NEW o \in orders
      PROVE  newStored[w][o] = 0 /\ o \in Issued /\ stored[o] \in {NoRow, 0}
  <2>1. newStored[w][o] = 0 /\ o \in Issued
    BY <1>1, <1>2 DEF ReaderInv, ReaderOK, At
  <2>2. stored[o] <= 0
    BY <1>2, <2>1 DEF ApplyInv, OrdersOK, DbTypeOK, NoRow
  <2>3. QED
    BY <1>2, <2>1, <2>2, OrderSyncAssumption DEF DbTypeOK, NoRow
<1>3. ASSUME NEW o \in Issued PROVE Ledger!EventsOf(o, 1..published) # {}
  <2>1. PICK e \in Event : e <= published /\ o = OrderOf[e]
    BY <1>3 DEF Issued
  <2>2. e \in Ledger!EventsOf(o, 1..published)
    BY <2>1, OrderSyncAssumption DEF Event, Ledger!EventsOf, DbTypeOK
  <2>3. QED
    BY <2>2
<1>4. \A o \in orders : /\ stored[o] \in {Ledger!Unknown, Ledger!Listed}
                        /\ Ledger!EventsOf(o, 1..published) # {}
  BY <1>2, <1>3 DEF Ledger!Unknown, Ledger!Listed, NoRow
<1>5. stored' = [o \in Order |-> IF o \in orders THEN Ledger!Listed ELSE stored[o]]
  <2>1. stored' = [o \in Order |->
           IF newStored[w][o] # NoRow THEN newStored[w][o] ELSE stored[o]]
    BY DEF CommitReconcile, Commit
  <2>2. \A o \in Order : (IF newStored[w][o] # NoRow THEN newStored[w][o] ELSE stored[o])
                          = (IF o \in orders THEN Ledger!Listed ELSE stored[o])
    BY <1>2 DEF Ledger!Listed
  <2>3. QED
    BY <2>1, <2>2
<1>6. cancelled \in SUBSET Order /\ cancelled \subseteq orders \cap Ledger!CancelledBy(1..published)
  <2>1. /\ cancelled \subseteq Order
        /\ cancelled \subseteq {o \in CancelledOrders : newStored[w][o] # NoRow}
    BY <1>1 DEF RunTypeOK, ReaderInv, ReaderOK, At
  <2>2. CancelledOrders \subseteq Ledger!CancelledBy(1..published)
    BY OrderSyncAssumption DEF CancelledOrders, Ledger!CancelledBy, Event, DbTypeOK
  <2>3. QED
    BY <2>1, <2>2
<1>7. UNCHANGED <<published, cursor, recorded, effects>> /\ listEffects' = listEffects \cup cancelled
  BY <1>1 DEF CommitReconcile, Commit
<1>8. Ledger!List(orders, cancelled)
  BY <1>4, <1>5, <1>6, <1>7 DEF Ledger!List
<1> HIDE DEF orders, cancelled
<1>9. orders \in SUBSET Order
  BY DEF orders
<1>10. QED
  BY <1>6, <1>8, <1>9

\* Every step of OrderSync is one of the ledger, or one that it does not see.
LEMMA LedgerStep ==
    ASSUME ~TimeLimit, TypeOK, ApplyInv, ReaderInv, [Next]_vars
    PROVE  [Ledger!LedgerNext]_(Ledger!ledgerVars)
<1> DbTypeOK /\ RunTypeOK
  BY TypeParts
<1> DEFINE Seen == Ledger!LedgerNext
           Unseen == UNCHANGED <<published, cursor, recorded, effects, listEffects, stored>>
<1>1. ASSUME NEW w \in Worker, StartPoll(w) PROVE Unseen
  BY <1>1 DEF StartPoll, dbVars
<1>2. ASSUME NEW w \in Worker, StartReconcile(w) PROVE Unseen
  BY <1>2 DEF StartReconcile, dbVars
<1>3. ASSUME NEW w \in Worker, Heartbeat(w) PROVE Unseen
  BY <1>3 DEF Heartbeat, dbVars
<1>4. ASSUME NEW w \in Worker, FetchPage(w) PROVE Unseen
  BY <1>4 DEF FetchPage, dbVars
<1>5. ASSUME NEW w \in Worker, NEW e \in page[w],
             SkipDuplicate(w, e) \/ RecordEvent(w, e) \/ UpsertOrder(w, e)
      PROVE  Unseen
  BY <1>5 DEF SkipDuplicate, RecordEvent, UpsertOrder, dbVars
<1>6. ASSUME NEW w \in Worker, CommitPage(w) PROVE Seen
  BY <1>6, CommitTakes DEF Ledger!LedgerNext
<1>7. ASSUME NEW w \in Worker, NextPage(w) \/ EndPoll(w) \/ ReadOrders(w) PROVE Unseen
  BY <1>7 DEF NextPage, EndPoll, ReadOrders, dbVars
<1>8. ASSUME NEW w \in Worker, CommitReconcile(w) PROVE Seen
  BY <1>8, ReconcileLists DEF Ledger!LedgerNext
<1>9. ASSUME NEW w \in Worker, LeaseLost(w) \/ Fail(w) \/ Crash(w) PROVE Unseen
  BY <1>9 DEF LeaseLost, Fail, Crash, Rollback
<1>10. ASSUME NEW w \in Worker, TimeOut(w) PROVE FALSE
  BY <1>10 DEF TimeOut
<1>11. ASSUME Expire \/ ExpireAtWork PROVE Unseen
  BY <1>11 DEF Expire, ExpireAtWork, dbVars
<1>12. ASSUME Publish PROVE Seen
  BY <1>12 DEF Publish, dbVars, Ledger!LedgerNext, Ledger!Issue
<1>13. ASSUME UNCHANGED vars PROVE Unseen
  BY <1>13 DEF vars, dbVars
<1>14. Seen \/ Unseen
  BY <1>1, <1>2, <1>3, <1>4, <1>5, <1>6, <1>7, <1>8, <1>9, <1>10, <1>11, <1>12, <1>13
     DEF Next, RunStep
<1>15. QED
  BY <1>14 DEF Ledger!ledgerVars

\* As long as no run is cancelled by the operation timeout, the tables change as
\* those of a single reader that takes page after page of the stream, each with
\* all it means in one step, and lists orders it did not know: whichever runs
\* compete, fail, crash, or wake up after their lease is gone.
THEOREM SyncImplementsLedger == ASSUME ~TimeLimit PROVE Spec => ImplementsLedger
<1>1. Init => Ledger!LedgerInit
  BY DEF Init, Ledger!LedgerInit, Ledger!Unknown, Untouched, NoRow
<1>2. TypeOK /\ CursorInv /\ ApplyInv /\ ReaderInv /\ [Next]_vars
         => CursorInv' /\ ApplyInv' /\ ReaderInv' /\ [Ledger!LedgerNext]_(Ledger!ledgerVars)
  BY CursorStep, ApplyStep, ReaderStep, LedgerStep
<1>3. QED
  BY <1>1, <1>2, ApplyInit, ReaderInit, TypeCorrect, PTL
     DEF Spec, ImplementsLedger, Ledger!LedgerSpec

\* Some events of the stream have a last one.
LEMMA LastIsIn ==
    ASSUME NEW S, S \subseteq Event, S # {}
    PROVE  Ledger!Last(S) \in S /\ \A f \in S : f <= Ledger!Last(S)
<1> USE OrderSyncAssumption
<1> DEFINE Above(j) == {i \in S : j < i}
           T == {Above(j) : j \in S}
<1>1. Event \subseteq Int /\ IsFiniteSet(Event)
  BY FS_Interval DEF Event
<1>2. IsWellFoundedOn(StrictSubsetOrdering(Event), SUBSET Event)
  BY <1>1, FS_FiniteSubsetsOfFinite, FS_StrictSubsetOrderingWellFounded
<1>3. T \subseteq SUBSET Event /\ T # {} /\ \A i \in S : Above(i) \in T
  <2>1. \A j \in S : Above(j) \subseteq Event
    OBVIOUS
  <2> HIDE DEF Above
  <2>2. QED
    BY <2>1
<1> HIDE DEF T
<1>4. PICK x \in T : \A y \in T : <<y, x>> \notin StrictSubsetOrdering(Event)
  BY <1>2, <1>3, WFMin
<1>5. PICK j \in S : x = Above(j)
  BY <1>4 DEF T
<1>6. ASSUME NEW i \in S PROVE i <= j
  <2> SUFFICES ASSUME j < i PROVE FALSE
    BY <1>1
  <2>1. Above(i) \in T
    <3> HIDE DEF Above
    <3>1. QED
      BY <1>3
  <2>2. Above(i) \subseteq Above(j)
    <3>1. \A k \in S : i < k => j < k
      BY <1>1
    <3>2. QED
      BY <3>1
  <2>3. i \in Above(j) /\ i \notin Above(i)
    BY <1>1
  <2>4. <<Above(i), x>> \in StrictSubsetOrdering(Event)
    BY <1>3, <1>4, <1>5, <2>1, <2>2, <2>3 DEF StrictSubsetOrdering
  <2>5. QED
    BY <1>4, <2>1, <2>4
<1>7. QED
  BY <1>5, <1>6 DEF Ledger!Last

\* Taking the next events of a prefix leaves a prefix.
LEMMA TakeKeepsPrefix ==
    ASSUME DbTypeOK, Ledger!TablesOfPrefix, NEW n \in 0..PageSize, Ledger!Take(n)
    PROVE  Ledger!TablesOfPrefix'
<1> USE OrderSyncAssumption
<1>0. published \in Nat /\ cursor \in Nat /\ published <= MaxEvent /\ n \in Nat
  BY DEF DbTypeOK
<1>1. PICK k \in cursor..published :
         /\ recorded = 1..k /\ effects = 1..k
         /\ \A o \in Order : IF Ledger!EventsOf(o, 1..k) = {}
                             THEN stored[o] \in {Ledger!Unknown, Ledger!Listed}
                             ELSE stored[o] = Ledger!Last(Ledger!EventsOf(o, 1..k))
         /\ listEffects \subseteq Ledger!CancelledBy(1..published)
  BY DEF Ledger!TablesOfPrefix
<1>2. PICK m \in k..published : cursor + n <= m /\ (m = k \/ m = cursor + n)
  <2>1. CASE cursor + n <= k
    <3>1. k \in k..published
      BY <1>0, <1>1
    <3>2. QED
      BY <2>1, <3>1
  <2>2. CASE k < cursor + n
    <3>1. cursor + n \in k..published /\ cursor + n <= cursor + n
      BY <1>0, <1>1, <2>2 DEF Ledger!Take
    <3>2. QED
      BY <3>1
  <2>3. QED
    BY <1>0, <1>1, <2>1, <2>2
<1> DEFINE fresh == k + 1 .. m
<1>3. (cursor + 1 .. cursor + n) \ recorded = fresh /\ 1..k \cup fresh = 1..m
  BY <1>0, <1>1, <1>2
<1>4. recorded' = 1..m /\ effects' = 1..m /\ m \in cursor'..published'
  BY <1>0, <1>1, <1>2, <1>3 DEF Ledger!Take
<1>5. ASSUME NEW o \in Order
      PROVE  IF Ledger!EventsOf(o, 1..m) = {} THEN stored'[o] \in {Ledger!Unknown, Ledger!Listed}
             ELSE stored'[o] = Ledger!Last(Ledger!EventsOf(o, 1..m))
  <2>1. stored'[o] = IF Ledger!EventsOf(o, fresh) = {} THEN stored[o]
                     ELSE Ledger!Last(Ledger!EventsOf(o, fresh))
    BY <1>3 DEF Ledger!Take
  <2>2. CASE Ledger!EventsOf(o, fresh) = {}
    <3>1. Ledger!EventsOf(o, 1..m) = Ledger!EventsOf(o, 1..k)
      BY <1>3, <2>2 DEF Ledger!EventsOf
    <3>2. QED
      BY <1>1, <2>1, <2>2, <3>1
  <2>3. CASE Ledger!EventsOf(o, fresh) # {}
    <3> DEFINE x == Ledger!Last(Ledger!EventsOf(o, fresh))
    <3>1. Ledger!EventsOf(o, fresh) \subseteq Event
      BY <1>0, <1>1, <1>2 DEF Event, Ledger!EventsOf
    <3>2. x \in Ledger!EventsOf(o, fresh) /\ \A f \in Ledger!EventsOf(o, fresh) : f <= x
      BY <2>3, <3>1, LastIsIn
    <3> HIDE DEF x
    <3>3. x \in Ledger!EventsOf(o, 1..m) /\ k < x
      BY <1>0, <1>1, <1>2, <3>2 DEF Ledger!EventsOf
    <3>4. ASSUME NEW f \in Ledger!EventsOf(o, 1..m) PROVE f <= x
      BY <1>0, <1>1, <1>2, <3>2, <3>3, <3>4 DEF Ledger!EventsOf
    <3>5. Ledger!EventsOf(o, 1..m) \in SUBSET Int
      BY <1>0, <1>2 DEF Ledger!EventsOf
    <3>6. Ledger!Last(Ledger!EventsOf(o, 1..m)) = x
      BY <3>3, <3>4, <3>5, LastIs
    <3>7. QED
      BY <2>1, <2>3, <3>3, <3>6 DEF x
  <2>4. QED
    BY <2>2, <2>3
<1>6. listEffects' \subseteq Ledger!CancelledBy(1..published')
  BY <1>1 DEF Ledger!Take
<1>7. QED
  BY <1>4, <1>5, <1>6 DEF Ledger!TablesOfPrefix

\* Every step of the ledger leaves a prefix.
LEMMA PrefixStep ==
    ASSUME DbTypeOK, Ledger!TablesOfPrefix, [Ledger!LedgerNext]_(Ledger!ledgerVars)
    PROVE  Ledger!TablesOfPrefix'
<1> USE OrderSyncAssumption
<1>0. published \in Nat /\ cursor \in Nat
  BY DEF DbTypeOK
<1>1. PICK k \in cursor..published :
         /\ recorded = 1..k /\ effects = 1..k
         /\ \A o \in Order : IF Ledger!EventsOf(o, 1..k) = {}
                             THEN stored[o] \in {Ledger!Unknown, Ledger!Listed}
                             ELSE stored[o] = Ledger!Last(Ledger!EventsOf(o, 1..k))
         /\ listEffects \subseteq Ledger!CancelledBy(1..published)
  BY DEF Ledger!TablesOfPrefix
<1>2. CASE Ledger!Issue
  <2>1. k \in cursor'..published'
    BY <1>0, <1>1, <1>2 DEF Ledger!Issue
  <2>2. listEffects' \subseteq Ledger!CancelledBy(1..published')
    <3>1. 1..published \subseteq 1..published'
      BY <1>0, <1>2 DEF Ledger!Issue
    <3>2. QED
      BY <1>1, <1>2, <3>1 DEF Ledger!Issue, Ledger!CancelledBy
  <2>3. recorded' = 1..k /\ effects' = 1..k /\ stored' = stored
    BY <1>1, <1>2 DEF Ledger!Issue
  <2>4. QED
    BY <1>1, <2>1, <2>2, <2>3 DEF Ledger!TablesOfPrefix
<1>3. CASE \E n \in 0..PageSize : Ledger!Take(n)
  BY <1>3, TakeKeepsPrefix
<1>4. ASSUME NEW orders \in SUBSET Order, NEW cancelled \in SUBSET Order, Ledger!List(orders, cancelled)
      PROVE  Ledger!TablesOfPrefix'
  <2>1. ASSUME NEW o \in Order, stored'[o] # stored[o]
        PROVE  stored[o] = Ledger!Unknown /\ stored'[o] = Ledger!Listed
    BY <1>4, <2>1 DEF Ledger!List
  <2>2. ASSUME NEW o \in Order, Ledger!EventsOf(o, 1..k) # {}
        PROVE  stored[o] # Ledger!Unknown
    <3>1. Ledger!EventsOf(o, 1..k) \subseteq Event
      BY <1>0, <1>1 DEF Ledger!EventsOf, Event, DbTypeOK
    <3>2. stored[o] \in Event
      BY <1>1, <2>2, <3>1, LastIsIn
    <3>3. QED
      BY <3>2 DEF Event, Ledger!Unknown
  <2>3. k \in cursor'..published' /\ recorded' = 1..k /\ effects' = 1..k
    BY <1>1, <1>4 DEF Ledger!List
  <2>4. \A o \in Order : IF Ledger!EventsOf(o, 1..k) = {}
                         THEN stored'[o] \in {Ledger!Unknown, Ledger!Listed}
                         ELSE stored'[o] = Ledger!Last(Ledger!EventsOf(o, 1..k))
    BY <1>1, <2>1, <2>2
  <2>5. listEffects' \subseteq Ledger!CancelledBy(1..published')
    BY <1>1, <1>4 DEF Ledger!List
  <2>6. QED
    BY <2>3, <2>4, <2>5 DEF Ledger!TablesOfPrefix
<1>5. CASE UNCHANGED Ledger!ledgerVars
  BY <1>5 DEF Ledger!ledgerVars, Ledger!TablesOfPrefix
<1>6. QED
  BY <1>2, <1>3, <1>4, <1>5 DEF Ledger!LedgerNext

\* As long as no run is cancelled, what the channel has recorded, proposed and
\* stored is at every moment the outcome of the first events of the provider's
\* stream, none left out and none twice: every order row reflects the last of them
\* that is about it, and the cursor is not ahead of them.
THEOREM TablesAreOfAPrefix ==
    ASSUME ~TimeLimit PROVE Spec => []Ledger!TablesOfPrefix
<1>1. Init => Ledger!TablesOfPrefix
  BY DEF Init, Ledger!TablesOfPrefix, Ledger!EventsOf, Ledger!Unknown, Untouched, NoRow
<1>2. TypeOK => DbTypeOK
  BY TypeParts
<1>3. DbTypeOK /\ Ledger!TablesOfPrefix /\ [Ledger!LedgerNext]_(Ledger!ledgerVars)
         => Ledger!TablesOfPrefix'
  BY PrefixStep
<1>4. Spec => ImplementsLedger
  BY SyncImplementsLedger
<1>5. QED
  BY <1>1, <1>2, <1>3, <1>4, TypeCorrect, PTL
     DEF Spec, ImplementsLedger, Ledger!LedgerSpec
=============================================================================
