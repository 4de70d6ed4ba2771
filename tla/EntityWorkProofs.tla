-------------------------- MODULE EntityWorkProofs --------------------------
(***************************************************************************)
(* Proofs about EntityWork and WebhookReceipts, for any number of          *)
(* receipts, rows and runner processes: the types, that a late runner      *)
(* never takes a processed receipt back, and that with a single runner     *)
(* process a receipt is processed only after its product was observed.     *)
(***************************************************************************)
EXTENDS EntityWork, TLAPS

\* Points at which a runner has a row in hand.
WithRow == {"load", "read", "store", "decide", "flip", "r_flip"}

RowStatus == {"none", "pending", "running", "completed", "failed"}
Points == {"idle", "sync", "link"} \cup WithRow

RowTypes ==
    /\ status \in [Row -> RowStatus]
    /\ runs \in [Row -> 0..MaxRuns]
    /\ \A k \in Row : status[k] = "running" => runs[k] > 0
    /\ leased \subseteq Row /\ waits \subseteq Row /\ superseded \subseteq Row
    /\ links \in [Row -> SUBSET Receipt]

RunTypes ==
    /\ pc \in [Runner -> Points]
    /\ todo \in [Runner -> SUBSET Receipt]
    /\ row \in [Runner -> Row \cup {NoRow}]
    /\ loaded \in [Runner -> [status : RowStatus, superseded : BOOLEAN]]
    /\ outcome \in [Runner -> Outcome]
    /\ seen \in [Runner -> SUBSET Receipt]
    /\ \A w \in Runner : pc[w] \in WithRow => row[w] \in Row

CountTypes == covered \subseteq Receipt /\ faults \in 0..MaxFaults

EntityInv == ReceiptTypeOK /\ RowTypes /\ RunTypes /\ CountTypes

\* The inductive invariant gives the types, which leave out what the session has of
\* the row.
LEMMA EntityTyping == EntityInv => TypeOK
BY DEF EntityInv, TypeOK, RowTypes, RunTypes, CountTypes, RowStatus, Points, WithRow

\* _process_receipt: only what went well makes a receipt processed, and a processed
\* one stays as it is.
LEMMA ProcessStep ==
    ASSUME ReceiptTypeOK, NEW r \in Receipt, NEW o \in Outcome, Process(r, o)
    PROVE  /\ ReceiptTypeOK'
           /\ \A q \in Receipt : state[q] = "processed" => state'[q] = "processed"
           /\ \A q \in Receipt : state'[q] = "processed" => state[q] = "processed" \/ (q = r /\ o = "ok")
           /\ \A q \in Receipt : state[q] # "absent" => state'[q] # "absent"
<1> USE WebhookReceiptsAssumption
<1>1. CASE Skipped(r) BY <1>1 DEF Process, ReceiptTypeOK
<1>2. CASE ~Skipped(r)
  <2>1. /\ state \in [Receipt -> ReceiptState] /\ tries \in [Receipt -> 0..MaxTries]
        /\ backoff \subseteq Receipt
    BY DEF ReceiptTypeOK
  <2>2. PICK s \in {"processed", "retry_scheduled", "dead_letter"} :
            state' = [state EXCEPT ![r] = s] /\ (s = "processed" => o = "ok")
    BY <1>2 DEF Process
  <2>3. tries' \in [Receipt -> 0..MaxTries]
    <3>1. tries' = [tries EXCEPT ![r] = IF tries[r] < MaxTries THEN tries[r] + 1 ELSE tries[r]]
      BY <1>2 DEF Process
    <3>2. (IF tries[r] < MaxTries THEN tries[r] + 1 ELSE tries[r]) \in 0..MaxTries BY <2>1
    <3> QED BY <2>1, <3>1, <3>2
  <2>4. backoff' \subseteq Receipt /\ UNCHANGED <<replayed, replays>> BY <1>2, <2>1 DEF Process
  <2>5. state' \in [Receipt -> ReceiptState] BY <2>1, <2>2 DEF ReceiptState
  <2>6. ReceiptTypeOK' BY <2>3, <2>4, <2>5 DEF ReceiptTypeOK
  <2>7. state[r] # "processed" BY <1>2 DEF Skipped
  <2> QED BY <2>1, <2>2, <2>6, <2>7
<1> QED BY <1>1, <1>2

\* Deliveries, replays and backoffs: what a replay had not read before stays
\* processed, and nothing becomes processed.
LEMMA ReceiptKept ==
    ASSUME ReceiptTypeOK, NEW r \in Receipt, Accept(r) \/ ReplayLoad(r) \/ ReplayQueue(r) \/ Elapse(r)
    PROVE  /\ ReceiptTypeOK'
           /\ \A q \in Receipt : state[q] = "processed" /\ replayed[q] = NotReplayed
                                    => state'[q] = "processed"
           /\ \A q \in Receipt : state'[q] = "processed" => state[q] = "processed"
           /\ \A q \in Receipt : state[q] # "absent" => state'[q] # "absent"
<1> USE WebhookReceiptsAssumption
<1>1. CASE Accept(r) BY <1>1 DEF Accept, Accepted, ReceiptTypeOK, ReceiptState
<1>2. CASE ReplayLoad(r)
  BY <1>2 DEF ReplayLoad, ReceiptTypeOK, ReceiptState
<1>3. CASE ReplayQueue(r)
  BY <1>3 DEF ReplayQueue, ReceiptTypeOK, ReceiptState, NotReplayed
<1>4. CASE Elapse(r) BY <1>4 DEF Elapse, ReceiptTypeOK
<1> QED BY <1>1, <1>2, <1>3, <1>4

\* run_once ends: the runner has no row, no outcome and nothing to do.
LEMMA LeaveStep ==
    ASSUME RunTypes, NEW w \in Runner, Leave(w)
    PROVE  /\ RunTypes'
           /\ pc'[w] = "idle" /\ todo'[w] = {} /\ outcome'[w] = "ok"
<1>1. NotLoaded \in [status : RowStatus, superseded : BOOLEAN] BY DEF NotLoaded, RowStatus
<1>2. "idle" \notin WithRow BY DEF WithRow
<1> QED BY <1>1, <1>2 DEF RunTypes, Leave, Points, Outcome

\* complete_entity_work writes no running row that was not running.
LEMMA WrittenStatus ==
    ASSUME RowTypes, NEW w \in Runner, row[w] \in Row, NEW s \in RowStatus \ {"running"},
           WriteStatus(w, s)
    PROVE  /\ status' \in [Row -> RowStatus]
           /\ \A k \in Row : status'[k] = "running" => status[k] = "running"
BY DEF RowTypes, WriteStatus

\* The steps of a runner up to its claim keep the types.
LEMMA LinkingStep ==
    ASSUME EntityInv, NEW w \in Runner,
           \/ Recover(w) \/ SelectReceipts(w) \/ RejectReceipt(w) \/ EnqueueReceipt(w)
           \/ ClaimWork(w)
    PROVE  EntityInv'
<1> USE EntityWorkAssumption
<1>t. RowTypes /\ RunTypes /\ ReceiptTypeOK /\ CountTypes BY DEF EntityInv
<1>n. /\ {"sync", "link", "idle"} \subseteq Points /\ {"r_flip", "load"} \subseteq Points \cap WithRow
      /\ {"sync", "link", "idle"} \cap WithRow = {}
      /\ "permanent" \in Outcome /\ {"pending", "running", "failed"} \subseteq RowStatus
  BY DEF Points, WithRow, Outcome, RowStatus
<1>1. CASE Recover(w)
  <2>1. /\ UNCHANGED <<receiptVars, runs, leased, superseded, links, loaded, seen, covered, faults>>
        /\ waits' \subseteq waits
    BY <1>1 DEF Recover
  <2>2. \/ UNCHANGED status
        \/ \E k \in Row, v \in {"pending", "failed"} : status' = [status EXCEPT ![k] = v]
    BY <1>1 DEF Recover
  <2>3. \/ pc' = [pc EXCEPT ![w] = "sync"] /\ UNCHANGED <<todo, row, outcome>>
        \/ \E k \in Row : /\ pc' = [pc EXCEPT ![w] = "r_flip"]
                          /\ row' = [row EXCEPT ![w] = k]
                          /\ todo' = [todo EXCEPT ![w] = links[k]]
                          /\ outcome' = [outcome EXCEPT ![w] = "permanent"]
    BY <1>1 DEF Recover, Goto
  <2>4. RowTypes' BY <1>t, <1>n, <2>1, <2>2 DEF RowTypes
  <2>5. RunTypes'
    <3>1. CASE pc' = [pc EXCEPT ![w] = "sync"] /\ UNCHANGED <<todo, row, outcome>>
      BY <1>t, <1>n, <2>1, <3>1 DEF RunTypes
    <3>2. ASSUME NEW k \in Row, pc' = [pc EXCEPT ![w] = "r_flip"], row' = [row EXCEPT ![w] = k],
                 todo' = [todo EXCEPT ![w] = links[k]],
                 outcome' = [outcome EXCEPT ![w] = "permanent"]
          PROVE  RunTypes'
      <4>1. links[k] \in SUBSET Receipt BY <1>t DEF RowTypes
      <4> QED BY <1>t, <1>n, <2>1, <3>2, <4>1 DEF RunTypes
    <3> QED BY <2>3, <3>1, <3>2
  <2>6. ReceiptTypeOK' /\ CountTypes' BY <1>t, <2>1 DEF ReceiptTypeOK, receiptVars, CountTypes
  <2> QED BY <2>4, <2>5, <2>6 DEF EntityInv
<1>2. CASE SelectReceipts(w)
  <2>1. /\ UNCHANGED <<receiptVars, rowVars, row, loaded, outcome, seen, covered, faults>>
        /\ pc' = [pc EXCEPT ![w] = "link"]
        /\ todo' = [todo EXCEPT ![w] = {r \in Receipt : Due(r)} \ ActivelyCovered]
    BY <1>2 DEF SelectReceipts, Goto
  <2>2. {r \in Receipt : Due(r)} \ ActivelyCovered \in SUBSET Receipt OBVIOUS
  <2>3. RunTypes' BY <1>t, <1>n, <2>1, <2>2 DEF RunTypes
  <2> QED
    BY <1>t, <2>1, <2>3 DEF EntityInv, ReceiptTypeOK, receiptVars, RowTypes, rowVars, CountTypes
<1>3. CASE RejectReceipt(w)
  <2>1. PICK r \in todo[w] :
          \/ Leave(w) /\ UNCHANGED receiptVars
          \/ /\ UNCHANGED receiptVars \/ Process(r, "permanent")
             /\ todo' = [todo EXCEPT ![w] = @ \ {r}]
             /\ UNCHANGED <<pc, row, loaded, outcome, seen>>
    BY <1>3 DEF RejectReceipt
  <2>2. UNCHANGED <<rowVars, covered, faults>> BY <1>3 DEF RejectReceipt
  <2>3. r \in Receipt BY <1>t DEF RunTypes
  <2>4. ReceiptTypeOK'
    <3>1. CASE UNCHANGED receiptVars BY <1>t, <3>1 DEF ReceiptTypeOK, receiptVars
    <3>2. CASE Process(r, "permanent") BY <1>t, <1>n, <2>3, <3>2, ProcessStep
    <3> QED BY <2>1, <3>1, <3>2
  <2>5. RunTypes'
    <3>1. CASE Leave(w) BY <1>t, <3>1, LeaveStep
    <3>2. CASE todo' = [todo EXCEPT ![w] = @ \ {r}] /\ UNCHANGED <<pc, row, loaded, outcome, seen>>
      BY <1>t, <3>2 DEF RunTypes
    <3> QED BY <2>1, <3>1, <3>2
  <2> QED BY <1>t, <2>2, <2>4, <2>5 DEF EntityInv, RowTypes, rowVars, CountTypes
<1>4. CASE EnqueueReceipt(w)
  <2>1. PICK r \in todo[w] :
          /\ todo' = [todo EXCEPT ![w] = @ \ {r}]
          /\ \/ \E k \in Row : /\ links' = [links EXCEPT ![k] = @ \cup {r}]
                               /\ superseded' \in {superseded, superseded \cup {k}}
                               /\ UNCHANGED <<status, runs, waits, leased>>
             \/ \E k : /\ status' = [status EXCEPT ![k] = "pending"]
                       /\ runs' = [runs EXCEPT ![k] = 0]
                       /\ links' = [links EXCEPT ![k] = {r}]
                       /\ superseded' = superseded \ {k}
                       /\ waits' = waits \ {k}
                       /\ leased' = leased \ {k}
    BY <1>4 DEF EnqueueReceipt, Supersede
  <2>2. UNCHANGED <<receiptVars, pc, row, loaded, outcome, seen, covered, faults>>
    BY <1>4 DEF EnqueueReceipt
  <2>3. r \in Receipt BY <1>t DEF RunTypes
  <2>4. RunTypes' BY <1>t, <2>1, <2>2 DEF RunTypes
  <2>5. RowTypes'
    <3>1. ASSUME NEW k \in Row, links' = [links EXCEPT ![k] = @ \cup {r}],
                 superseded' \in {superseded, superseded \cup {k}},
                 UNCHANGED <<status, runs, waits, leased>>
          PROVE  RowTypes'
      BY <1>t, <2>3, <3>1 DEF RowTypes
    <3>2. ASSUME NEW k, status' = [status EXCEPT ![k] = "pending"], runs' = [runs EXCEPT ![k] = 0],
                 links' = [links EXCEPT ![k] = {r}], superseded' = superseded \ {k},
                 waits' = waits \ {k}, leased' = leased \ {k}
          PROVE  RowTypes'
      <4>1. /\ status' \in [Row -> RowStatus] /\ runs' \in [Row -> 0..MaxRuns]
            /\ links' \in [Row -> SUBSET Receipt]
        <5>1. status' \in [Row -> RowStatus] BY <1>t, <1>n, <3>2 DEF RowTypes
        <5>2. runs' \in [Row -> 0..MaxRuns]
          <6>1. 0 \in 0..MaxRuns OBVIOUS
          <6> QED BY <1>t, <3>2, <6>1 DEF RowTypes
        <5>3. links' \in [Row -> SUBSET Receipt]
          <6>1. {r} \in SUBSET Receipt BY <2>3
          <6> QED BY <1>t, <3>2, <6>1 DEF RowTypes
        <5> QED BY <5>1, <5>2, <5>3
      <4>2. \A m \in Row : status'[m] = "running" => runs'[m] > 0
        BY <1>t, <3>2 DEF RowTypes
      <4> QED BY <1>t, <3>2, <4>1, <4>2 DEF RowTypes
    <3> QED BY <2>1, <3>1, <3>2
  <2> QED BY <1>t, <2>2, <2>4, <2>5 DEF EntityInv, ReceiptTypeOK, receiptVars, CountTypes
<1>5. CASE ClaimWork(w)
  <2>1. UNCHANGED <<receiptVars, waits, links, covered, faults>> BY <1>5 DEF ClaimWork
  <2>2. \/ Leave(w) /\ UNCHANGED <<status, runs, leased, superseded>>
        \/ \E k \in Row :
             /\ status' = [status EXCEPT ![k] = "running"]
             /\ CountRun(k)
             /\ leased' = leased \cup {k} /\ superseded' = superseded \ {k}
             /\ row' = [row EXCEPT ![w] = k] /\ pc' = [pc EXCEPT ![w] = "load"]
             /\ UNCHANGED <<todo, loaded, outcome, seen>>
    BY <1>5 DEF ClaimWork, Goto
  <2>3. CASE Leave(w) /\ UNCHANGED <<status, runs, leased, superseded>>
    <3>1. RunTypes' BY <1>t, <2>3, LeaveStep
    <3>2. RowTypes' BY <1>t, <2>1, <2>3 DEF RowTypes
    <3> QED BY <1>t, <2>1, <3>1, <3>2 DEF EntityInv, ReceiptTypeOK, receiptVars, CountTypes
  <2>4. ASSUME NEW k \in Row, status' = [status EXCEPT ![k] = "running"], CountRun(k),
               leased' = leased \cup {k}, superseded' = superseded \ {k},
               row' = [row EXCEPT ![w] = k], pc' = [pc EXCEPT ![w] = "load"],
               UNCHANGED <<todo, loaded, outcome, seen>>
        PROVE  EntityInv'
    <3>1. runs' = [runs EXCEPT ![k] = IF runs[k] < MaxRuns THEN runs[k] + 1 ELSE runs[k]]
      BY <2>4 DEF CountRun
    <3>2. (IF runs[k] < MaxRuns THEN runs[k] + 1 ELSE runs[k]) \in 1..MaxRuns
      BY <1>t DEF RowTypes
    <3>3. /\ runs' \in [Row -> 0..MaxRuns] /\ runs'[k] > 0
          /\ \A m \in Row : m # k => runs'[m] = runs[m]
      BY <1>t, <3>1, <3>2 DEF RowTypes
    <3>4. RowTypes' BY <1>t, <1>n, <2>1, <2>4, <3>3 DEF RowTypes
    <3>5. RunTypes' BY <1>t, <1>n, <2>4 DEF RunTypes
    <3> QED BY <1>t, <2>1, <3>4, <3>5 DEF EntityInv, ReceiptTypeOK, receiptVars, CountTypes
  <2> QED BY <2>2, <2>3, <2>4
<1> QED BY <1>1, <1>2, <1>3, <1>4, <1>5

\* The steps of a runner from its claim on keep the types.
LEMMA ReadingStep ==
    ASSUME EntityInv, NEW w \in Runner,
           \/ LoadWork(w) \/ ReadProvider(w) \/ StoreProduct(w) \/ Requeue(w) \/ ReadLinks(w)
           \/ FlipReceipt(w) \/ Finish(w)
    PROVE  EntityInv'
<1> USE EntityWorkAssumption
<1>t. RowTypes /\ RunTypes /\ ReceiptTypeOK /\ CountTypes BY DEF EntityInv
<1>n. /\ {"read", "store", "decide", "flip"} \subseteq Points \cap WithRow
      /\ "sync" \in Points \ WithRow
      /\ {"ok", "transient", "permanent"} \subseteq Outcome
      /\ {"pending", "completed", "failed"} \subseteq RowStatus \ {"running"}
  BY DEF Points, WithRow, Outcome, RowStatus
<1>r. ASSUME NEW k \in Row PROVE RowNow(k) \in [status : RowStatus, superseded : BOOLEAN]
  BY <1>t DEF RowNow, RowTypes
<1>1. CASE LoadWork(w)
  <2>1. UNCHANGED <<receiptVars, rowVars, covered, faults>> BY <1>1 DEF LoadWork
  <2>2. row[w] \in Row BY <1>1, <1>t DEF LoadWork, At, RunTypes, WithRow
  <2>3. RunTypes'
    <3>1. CASE Leave(w) BY <1>t, <3>1, LeaveStep
    <3>2. CASE /\ loaded' = [loaded EXCEPT ![w] = RowNow(row[w])]
               /\ pc' = [pc EXCEPT ![w] = "read"] /\ UNCHANGED <<todo, row, outcome, seen>>
      BY <1>t, <1>n, <1>r, <2>2, <3>2 DEF RunTypes
    <3> QED BY <1>1, <3>1, <3>2 DEF LoadWork, Goto
  <2> QED BY <1>t, <2>1, <2>3 DEF EntityInv, RowTypes, rowVars, ReceiptTypeOK, receiptVars, CountTypes
<1>2. CASE ReadProvider(w)
  <2>1. UNCHANGED <<receiptVars, rowVars, todo, row, loaded, faults>> /\ row[w] \in Row
    BY <1>2, <1>t DEF ReadProvider, At, RunTypes, WithRow
  <2>2. /\ \E q \in {"store", "decide"} : pc' = [pc EXCEPT ![w] = q]
        /\ UNCHANGED outcome \/ \E o \in {"transient", "permanent"} : outcome' = [outcome EXCEPT ![w] = o]
        /\ UNCHANGED seen \/ seen' = [seen EXCEPT ![w] = {r \in Receipt : Accepted(r)}]
        /\ covered' \subseteq covered \cup Receipt
    BY <1>2 DEF ReadProvider, Goto
  <2>3. pc' \in [Runner -> Points] /\ \A v \in Runner : pc'[v] \in WithRow => row'[v] \in Row
    BY <1>t, <1>n, <2>1, <2>2 DEF RunTypes
  <2>4. outcome' \in [Runner -> Outcome] BY <1>t, <1>n, <2>2 DEF RunTypes
  <2>5. seen' \in [Runner -> SUBSET Receipt]
    <3>1. {r \in Receipt : Accepted(r)} \in SUBSET Receipt OBVIOUS
    <3> QED BY <1>t, <2>2, <3>1 DEF RunTypes
  <2>6. RunTypes' BY <1>t, <2>1, <2>3, <2>4, <2>5 DEF RunTypes
  <2>7. CountTypes' BY <1>t, <2>1, <2>2 DEF CountTypes
  <2> QED BY <1>t, <2>1, <2>6, <2>7 DEF EntityInv, RowTypes, rowVars, ReceiptTypeOK, receiptVars
<1>3. CASE StoreProduct(w)
  <2>1. UNCHANGED <<receiptVars, rowVars, todo, row, seen, faults>> /\ row[w] \in Row
    BY <1>3, <1>t DEF StoreProduct, At, RunTypes, WithRow
  <2>2. /\ pc' = [pc EXCEPT ![w] = "decide"]
        /\ UNCHANGED outcome \/ outcome' = [outcome EXCEPT ![w] = "permanent"]
        /\ UNCHANGED loaded \/ loaded' = [loaded EXCEPT ![w] = RowNow(row[w])]
        /\ covered' \in {covered, covered \cup seen[w]}
    BY <1>3 DEF StoreProduct, Goto
  <2>3. loaded' \in [Runner -> [status : RowStatus, superseded : BOOLEAN]]
    <3>1. RowNow(row[w]) \in [status : RowStatus, superseded : BOOLEAN] BY <1>r, <2>1
    <3> QED BY <1>t, <2>2, <3>1 DEF RunTypes
  <2>4. outcome' \in [Runner -> Outcome] BY <1>t, <1>n, <2>2 DEF RunTypes
  <2>5. RunTypes' BY <1>t, <1>n, <2>1, <2>2, <2>3, <2>4 DEF RunTypes
  <2>6. CountTypes' BY <1>t, <2>1, <2>2 DEF CountTypes, RunTypes
  <2> QED BY <1>t, <2>1, <2>5, <2>6 DEF EntityInv, RowTypes, rowVars, ReceiptTypeOK, receiptVars
<1>4. CASE Requeue(w)
  <2>1. /\ UNCHANGED <<receiptVars, runs, leased, superseded, links, covered, faults>>
        /\ row[w] \in Row /\ WriteStatus(w, "pending") /\ Leave(w)
        /\ waits' \subseteq waits \cup {row[w]}
    BY <1>4, <1>t DEF Requeue, At, RunTypes, WithRow
  <2>2. /\ status' \in [Row -> RowStatus]
        /\ \A k \in Row : status'[k] = "running" => status[k] = "running"
    BY <1>t, <1>n, <2>1, WrittenStatus
  <2>3. RowTypes' BY <1>t, <2>1, <2>2 DEF RowTypes
  <2>4. RunTypes' BY <1>t, <2>1, LeaveStep
  <2> QED BY <1>t, <2>1, <2>3, <2>4 DEF EntityInv, ReceiptTypeOK, receiptVars, CountTypes
<1>5. CASE ReadLinks(w)
  <2>1. /\ UNCHANGED <<receiptVars, rowVars, row, loaded, outcome, seen, covered, faults>>
        /\ row[w] \in Row /\ pc' = [pc EXCEPT ![w] = "flip"]
        /\ todo' = [todo EXCEPT ![w] = links[row[w]]]
    BY <1>5, <1>t DEF ReadLinks, At, Goto, RunTypes, WithRow, LinkedReceipts
  <2>2. links[row[w]] \in SUBSET Receipt BY <1>t, <2>1 DEF RowTypes
  <2>3. RunTypes' BY <1>t, <1>n, <2>1, <2>2 DEF RunTypes
  <2> QED BY <1>t, <2>1, <2>3 DEF EntityInv, RowTypes, rowVars, ReceiptTypeOK, receiptVars, CountTypes
<1>6. CASE FlipReceipt(w)
  <2>1. PICK r \in todo[w] :
          \/ Leave(w) /\ UNCHANGED receiptVars
          \/ /\ Process(r, outcome[w])
             /\ todo' = [todo EXCEPT ![w] = @ \ {r}]
             /\ UNCHANGED <<pc, row, loaded, outcome, seen>>
    BY <1>6 DEF FlipReceipt
  <2>2. UNCHANGED <<rowVars, covered, faults>> BY <1>6 DEF FlipReceipt
  <2>3. r \in Receipt /\ outcome[w] \in Outcome BY <1>t DEF RunTypes
  <2>4. ReceiptTypeOK'
    <3>1. CASE UNCHANGED receiptVars BY <1>t, <3>1 DEF ReceiptTypeOK, receiptVars
    <3>2. CASE Process(r, outcome[w]) BY <1>t, <2>3, <3>2, ProcessStep
    <3> QED BY <2>1, <3>1, <3>2
  <2>5. RunTypes'
    <3>1. CASE Leave(w) BY <1>t, <3>1, LeaveStep
    <3>2. CASE todo' = [todo EXCEPT ![w] = @ \ {r}] /\ UNCHANGED <<pc, row, loaded, outcome, seen>>
      BY <1>t, <3>2 DEF RunTypes
    <3> QED BY <2>1, <3>1, <3>2
  <2> QED BY <1>t, <2>2, <2>4, <2>5 DEF EntityInv, RowTypes, rowVars, CountTypes
<1>7. CASE Finish(w)
  <2>1. UNCHANGED <<receiptVars, runs, leased, waits, superseded, links, covered, faults>>
    BY <1>7 DEF Finish
  <2>2. CASE /\ At(w, "flip") /\ Leave(w)
             /\ WriteStatus(w, IF outcome[w] = "ok" THEN "completed" ELSE "failed")
    <3>1. row[w] \in Row BY <1>t, <2>2 DEF At, RunTypes, WithRow
    <3>2. /\ status' \in [Row -> RowStatus]
          /\ \A k \in Row : status'[k] = "running" => status[k] = "running"
      <4>1. CASE outcome[w] = "ok"
        <5>1. WriteStatus(w, "completed") BY <2>2, <4>1
        <5> QED BY <1>t, <1>n, <3>1, <5>1, WrittenStatus
      <4>2. CASE outcome[w] # "ok"
        <5>1. WriteStatus(w, "failed") BY <2>2, <4>2
        <5> QED BY <1>t, <1>n, <3>1, <5>1, WrittenStatus
      <4> QED BY <4>1, <4>2
    <3>3. RowTypes' BY <1>t, <2>1, <3>2 DEF RowTypes
    <3>4. RunTypes' BY <1>t, <2>2, LeaveStep
    <3> QED BY <1>t, <2>1, <3>3, <3>4 DEF EntityInv, ReceiptTypeOK, receiptVars, CountTypes
  <2>3. CASE /\ pc' = [pc EXCEPT ![w] = "sync"] /\ row' = [row EXCEPT ![w] = NoRow]
             /\ outcome' = [outcome EXCEPT ![w] = "ok"] /\ UNCHANGED <<status, todo, loaded, seen>>
    <3>1. RunTypes' BY <1>t, <1>n, <2>3 DEF RunTypes
    <3>2. RowTypes' BY <1>t, <2>1, <2>3 DEF RowTypes
    <3> QED BY <1>t, <2>1, <3>1, <3>2 DEF EntityInv, ReceiptTypeOK, receiptVars, CountTypes
  <2> QED BY <1>7, <2>2, <2>3 DEF Finish, Goto
<1> QED BY <1>1, <1>2, <1>3, <1>4, <1>5, <1>6, <1>7

\* Every step of receipts, runners, crashes and the clock keeps the types.
LEMMA EntityStep ==
    ASSUME EntityInv, [Next]_vars
    PROVE  EntityInv'
<1>t. RowTypes /\ RunTypes /\ ReceiptTypeOK /\ CountTypes BY DEF EntityInv
<1>1. ASSUME NEW w \in Runner, RunnerStep(w) PROVE EntityInv'
  BY <1>1, LinkingStep, ReadingStep DEF RunnerStep
<1>2. ASSUME NEW w \in Runner, Crash(w) PROVE EntityInv'
  <2>1. UNCHANGED <<receiptVars, rowVars, covered>> /\ faults < MaxFaults /\ faults' = faults + 1
    BY <1>2 DEF Crash
  <2>2. RunTypes' BY <1>2, <1>t, LeaveStep DEF Crash
  <2>3. CountTypes' BY <1>t, <2>1, EntityWorkAssumption DEF CountTypes
  <2> QED BY <1>t, <2>1, <2>2, <2>3 DEF EntityInv, RowTypes, rowVars, ReceiptTypeOK, receiptVars
<1>3. ASSUME Expire \/ ExpireAtWork \/ RowBackoffElapses PROVE EntityInv'
  <2>1. /\ UNCHANGED <<receiptVars, status, runs, superseded, links, runVars, covered>>
        /\ leased' \subseteq leased /\ waits' \subseteq waits
        /\ UNCHANGED faults \/ (faults < MaxFaults /\ faults' = faults + 1)
    BY <1>3 DEF Expire, ExpireAtWork, RowBackoffElapses
  <2>2. CountTypes' BY <1>t, <2>1, EntityWorkAssumption DEF CountTypes
  <2>3. RowTypes' BY <1>t, <2>1 DEF RowTypes
  <2>4. RunTypes' BY <1>t, <2>1 DEF RunTypes, runVars
  <2> QED BY <1>t, <2>1, <2>2, <2>3, <2>4 DEF EntityInv, ReceiptTypeOK, receiptVars
<1>4. ASSUME ReceiptStep \/ ReceiptBackoffElapses PROVE EntityInv'
  <2>1. UNCHANGED <<rowVars, runVars, covered, faults>>
    BY <1>4 DEF ReceiptStep, ReceiptBackoffElapses
  <2>2. ReceiptTypeOK'
    <3>1. PICK r \in Receipt : Accept(r) \/ ReplayLoad(r) \/ ReplayQueue(r) \/ Elapse(r)
      BY <1>4 DEF ReceiptStep, ReceiptBackoffElapses
    <3> QED BY <1>t, <3>1, ReceiptKept
  <2> QED BY <1>t, <2>1, <2>2 DEF EntityInv, RowTypes, rowVars, RunTypes, runVars, CountTypes
<1>5. ASSUME UNCHANGED vars PROVE EntityInv'
  BY <1>t, <1>5 DEF vars, EntityInv, RowTypes, rowVars, RunTypes, runVars, CountTypes,
     ReceiptTypeOK, receiptVars
<1> QED BY <1>1, <1>2, <1>3, <1>4, <1>5 DEF Next

\* No receipt has been delivered and no row made.
LEMMA EntityStart == Init => EntityInv
<1> SUFFICES ASSUME Init PROVE EntityInv OBVIOUS
<1> USE EntityWorkAssumption, WebhookReceiptsAssumption
<1>1. ReceiptTypeOK BY DEF Init, ReceiptInit, ReceiptTypeOK, ReceiptState
<1>2. RowTypes BY DEF Init, RowTypes, RowStatus
<1>3. NotLoaded \in [status : RowStatus, superseded : BOOLEAN] BY DEF NotLoaded, RowStatus
<1>4. RunTypes BY <1>3 DEF Init, RunTypes, Points, Outcome, WithRow
<1>5. CountTypes BY DEF Init, CountTypes
<1> QED BY <1>1, <1>2, <1>4, <1>5 DEF EntityInv

\* Rows, receipts and runners have their types in every reachable state.
THEOREM EntityInvariant == Spec => []EntityInv
<1>1. EntityInv /\ [Next]_vars => EntityInv' BY EntityStep
<1> QED BY EntityStart, <1>1, PTL DEF Spec

\* Type correctness of the entity work queue; a row that is being read has counted
\* as an attempt.
THEOREM EntityTypeIsOK == Spec => []TypeOK
BY EntityInvariant, EntityTyping, PTL

\* What one runner does to the receipts, told apart by what became processed.
LEMMA RunnerReceipts ==
    ASSUME EntityInv, NEW w \in Runner, RunnerStep(w)
    PROVE  \/ UNCHANGED receiptVars
           \/ \E r \in todo[w], o \in Outcome :
                /\ Process(r, o)
                /\ \/ RejectReceipt(w) /\ o = "permanent"
                   \/ FlipReceipt(w) /\ o = outcome[w]
<1>t. RunTypes BY DEF EntityInv
<1>1. CASE RejectReceipt(w)
  <2>1. "permanent" \in Outcome BY DEF Outcome
  <2> QED BY <1>1, <2>1 DEF RejectReceipt
<1>2. CASE FlipReceipt(w)
  <2>1. outcome[w] \in Outcome BY <1>t DEF RunTypes
  <2> QED BY <1>2, <2>1 DEF FlipReceipt
<1>3. CASE ~RejectReceipt(w) /\ ~FlipReceipt(w)
  BY <1>3 DEF RunnerStep, Recover, SelectReceipts, EnqueueReceipt, ClaimWork, LoadWork, ReadProvider,
     StoreProduct, Requeue, ReadLinks, Finish
<1> QED BY <1>1, <1>2, <1>3

\* Runners never take a processed receipt back, however late they are; only a replay
\* does that had read it before.
LEMMA FinalStep ==
    ASSUME EntityInv, [Next]_vars, NEW r \in Receipt, state[r] = "processed", replayed[r] = NotReplayed
    PROVE  state'[r] = "processed"
<1>t. RunTypes /\ ReceiptTypeOK BY DEF EntityInv
<1>1. ASSUME NEW w \in Runner, RunnerStep(w) PROVE state'[r] = "processed"
  <2>1. CASE UNCHANGED receiptVars BY <2>1 DEF receiptVars
  <2>2. ASSUME NEW q \in todo[w], NEW o \in Outcome, Process(q, o) PROVE state'[r] = "processed"
    <3>1. q \in Receipt BY <1>t DEF RunTypes
    <3> QED BY <1>t, <2>2, <3>1, ProcessStep
  <2> QED BY <1>1, <2>1, <2>2, RunnerReceipts
<1>2. ASSUME ReceiptStep \/ ReceiptBackoffElapses PROVE state'[r] = "processed"
  <2>1. PICK q \in Receipt : Accept(q) \/ ReplayLoad(q) \/ ReplayQueue(q) \/ Elapse(q)
    BY <1>2 DEF ReceiptStep, ReceiptBackoffElapses
  <2> QED BY <1>t, <2>1, ReceiptKept
<1>3. CASE \/ \E w \in Runner : Crash(w)
           \/ Expire \/ ExpireAtWork \/ RowBackoffElapses \/ UNCHANGED vars
  BY <1>3 DEF Crash, Expire, ExpireAtWork, RowBackoffElapses, vars, receiptVars
<1> QED BY <1>1, <1>2, <1>3 DEF Next

\* A receipt that was processed is taken back by replays only, with any number of
\* runners that recover, claim, read and complete rows of the same product.
THEOREM ProcessedReceiptsStay == Spec => ProcessedIsFinal
<1>1. EntityInv /\ [Next]_vars
        => [\A r \in Receipt : state[r] = "processed" /\ state'[r] # "processed"
                                 => replayed[r] # NotReplayed]_vars
  <2>1. ASSUME EntityInv, [Next]_vars
        PROVE  \A r \in Receipt : state[r] = "processed" /\ state'[r] # "processed"
                                    => replayed[r] # NotReplayed
    BY <2>1, FinalStep
  <2> QED BY <2>1
<1> QED BY EntityInvariant, <1>1, PTL DEF Spec, ProcessedIsFinal

(* One runner process *)

\* What is linked, or in the hands of a runner, has been delivered.
HandsOK ==
    /\ \A k \in Row : \A r \in links[k] : Accepted(r)
    /\ \A w \in Runner : \A r \in todo[w] : Accepted(r)

\* After the read, the receipts of the row at hand are covered by it, unless it
\* failed; and recovery flips receipts of failed rows only.
CoverOK(w) ==
    /\ pc[w] = "store" => links[row[w]] \subseteq seen[w]
    /\ pc[w] = "decide" /\ outcome[w] = "ok" => links[row[w]] \subseteq covered
    /\ pc[w] = "flip" /\ outcome[w] = "ok" => todo[w] \subseteq covered
    /\ pc[w] = "r_flip" => outcome[w] = "permanent"

ObservedInv == EntityInv /\ HandsOK /\ (\A w \in Runner : CoverOK(w)) /\ ProcessedIsObserved

\* run_once ends: nothing is claimed of what the runner has done.
LEMMA LeftIsCovered ==
    ASSUME EntityInv, NEW w \in Runner, Leave(w)
    PROVE  CoverOK(w)' /\ \A r \in todo'[w] : Accepted(r)'
<1>1. pc'[w] = "idle" /\ todo'[w] = {} BY LeaveStep DEF EntityInv
<1> QED BY <1>1 DEF CoverOK

\* With one runner at work, its row is linked to no receipt between the read and
\* the flip, so that what it flips to processed was observed.
LEMMA ObservedStep ==
    ASSUME \A v, w \in Runner : v = w, ObservedInv, NEW w \in Runner, RunnerStep(w)
    PROVE  HandsOK' /\ CoverOK(w)' /\ ProcessedIsObserved'
<1>t. EntityInv /\ RowTypes /\ RunTypes /\ ReceiptTypeOK /\ CountTypes /\ HandsOK /\ CoverOK(w)
      /\ ProcessedIsObserved
  BY DEF ObservedInv, EntityInv
<1>i. EntityInv' BY <1>t, EntityStep DEF Next
<1>y. /\ pc \in [Runner -> Points] /\ todo \in [Runner -> SUBSET Receipt]
      /\ outcome \in [Runner -> Outcome] /\ row \in [Runner -> Row \cup {NoRow}]
      /\ seen \in [Runner -> SUBSET Receipt] /\ links \in [Row -> SUBSET Receipt]
      /\ todo' \in [Runner -> SUBSET Receipt]
      /\ pc[w] \in WithRow => row[w] \in Row
  BY <1>t, <1>i DEF RunTypes, RowTypes, EntityInv
<1>l. \A v \in Runner : v = w OBVIOUS
<1>o. ASSUME UNCHANGED <<state, links>>, covered \subseteq covered', \A r \in todo'[w] : Accepted(r)
      PROVE  HandsOK' /\ ProcessedIsObserved'
  <2>1. HandsOK' BY <1>t, <1>l, <1>o DEF HandsOK, Accepted
  <2>2. ProcessedIsObserved' BY <1>t, <1>o DEF ProcessedIsObserved
  <2> QED BY <2>1, <2>2
<1>1. CASE Recover(w)
  <2>1. UNCHANGED <<state, links, covered>> /\ At(w, "idle") BY <1>1 DEF Recover, receiptVars
  <2>2. \/ pc' = [pc EXCEPT ![w] = "sync"] /\ UNCHANGED todo
        \/ /\ pc' = [pc EXCEPT ![w] = "r_flip"] /\ outcome' = [outcome EXCEPT ![w] = "permanent"]
           /\ \E k \in Row : todo' = [todo EXCEPT ![w] = links[k]]
    BY <1>1 DEF Recover, Goto
  <2>3. \A r \in todo'[w] : Accepted(r) BY <1>t, <1>y, <2>2 DEF HandsOK
  <2>4. CoverOK(w)' BY <1>y, <2>2 DEF CoverOK
  <2> QED BY <1>o, <2>1, <2>3, <2>4
<1>2. CASE SelectReceipts(w)
  <2>1. /\ UNCHANGED <<state, links, covered>> /\ pc' = [pc EXCEPT ![w] = "link"]
        /\ todo' = [todo EXCEPT ![w] = {r \in Receipt : Due(r)} \ ActivelyCovered]
    BY <1>2 DEF SelectReceipts, receiptVars, rowVars, Goto
  <2>2. \A r \in todo'[w] : Accepted(r) BY <1>y, <2>1 DEF Due, Accepted
  <2>3. CoverOK(w)' BY <1>y, <2>1 DEF CoverOK
  <2> QED BY <1>o, <2>1, <2>2, <2>3
<1>3. CASE EnqueueReceipt(w)
  <2>1. PICK r \in todo[w] :
          /\ todo' = [todo EXCEPT ![w] = @ \ {r}]
          /\ \E k : \/ links' = [links EXCEPT ![k] = @ \cup {r}]
                    \/ links' = [links EXCEPT ![k] = {r}]
    BY <1>3 DEF EnqueueReceipt
  <2>2. UNCHANGED <<state, pc, covered>> /\ pc[w] = "link" BY <1>3 DEF EnqueueReceipt, receiptVars, At
  <2>3. Accepted(r) BY <1>t DEF HandsOK
  <2>4. \A k \in Row : links'[k] \subseteq links[k] \cup {r}
    <3>1. PICK k : \/ links' = [links EXCEPT ![k] = @ \cup {r}]
                   \/ links' = [links EXCEPT ![k] = {r}]
      BY <2>1
    <3> QED BY <1>y, <3>1
  <2>5. todo'[w] \subseteq todo[w] BY <1>y, <2>1
  <2>6. HandsOK' BY <1>t, <1>l, <2>2, <2>3, <2>4, <2>5 DEF HandsOK, Accepted
  <2>7. CoverOK(w)' BY <2>2 DEF CoverOK
  <2> QED BY <1>t, <2>2, <2>6, <2>7 DEF ProcessedIsObserved
<1>4. CASE ClaimWork(w)
  <2>1. UNCHANGED <<state, links, covered>> BY <1>4 DEF ClaimWork, receiptVars
  <2>2. CASE Leave(w) BY <1>t, <1>o, <2>1, <2>2, LeftIsCovered DEF Accepted
  <2>3. CASE pc' = [pc EXCEPT ![w] = "load"] /\ UNCHANGED todo
    <3>1. \A r \in todo'[w] : Accepted(r) BY <1>t, <2>3 DEF HandsOK
    <3>2. CoverOK(w)' BY <1>y, <2>3 DEF CoverOK
    <3> QED BY <1>o, <2>1, <3>1, <3>2
  <2> QED BY <1>4, <2>2, <2>3 DEF ClaimWork, Goto
<1>5. CASE LoadWork(w)
  <2>1. UNCHANGED <<state, links, covered>> BY <1>5 DEF LoadWork, receiptVars, rowVars
  <2>2. CASE Leave(w) BY <1>t, <1>o, <2>1, <2>2, LeftIsCovered DEF Accepted
  <2>3. CASE pc' = [pc EXCEPT ![w] = "read"] /\ UNCHANGED todo
    <3>1. \A r \in todo'[w] : Accepted(r) BY <1>t, <2>3 DEF HandsOK
    <3>2. CoverOK(w)' BY <1>y, <2>3 DEF CoverOK
    <3> QED BY <1>o, <2>1, <3>1, <3>2
  <2> QED BY <1>5, <2>2, <2>3 DEF LoadWork, Goto
<1>6. CASE ReadProvider(w)
  <2>1. UNCHANGED <<state, links, row, todo>> /\ row[w] \in Row
    BY <1>6, <1>y DEF ReadProvider, receiptVars, rowVars, At, WithRow
  <2>2. links[row[w]] \subseteq {r \in Receipt : Accepted(r)} BY <1>t, <1>y, <2>1 DEF HandsOK
  <2>3. \/ /\ seen' = [seen EXCEPT ![w] = {r \in Receipt : Accepted(r)}]
           /\ pc' = [pc EXCEPT ![w] = "store"] /\ UNCHANGED covered
        \/ /\ covered' = covered \cup {r \in Receipt : Accepted(r)}
           /\ pc' = [pc EXCEPT ![w] = "decide"]
        \/ /\ \E o \in {"transient", "permanent"} : outcome' = [outcome EXCEPT ![w] = o]
           /\ pc' = [pc EXCEPT ![w] = "decide"] /\ UNCHANGED covered
    BY <1>6 DEF ReadProvider, Goto
  <2>4. \A r \in todo'[w] : Accepted(r) BY <1>t, <2>1 DEF HandsOK
  <2>5. CoverOK(w)'
    <3>1. CASE /\ seen' = [seen EXCEPT ![w] = {r \in Receipt : Accepted(r)}]
               /\ pc' = [pc EXCEPT ![w] = "store"]
      BY <1>y, <2>1, <2>2, <3>1 DEF CoverOK
    <3>2. CASE /\ covered' = covered \cup {r \in Receipt : Accepted(r)}
               /\ pc' = [pc EXCEPT ![w] = "decide"]
      BY <1>y, <2>1, <2>2, <3>2 DEF CoverOK
    <3>3. CASE /\ \E o \in {"transient", "permanent"} : outcome' = [outcome EXCEPT ![w] = o]
               /\ pc' = [pc EXCEPT ![w] = "decide"]
      BY <1>y, <3>3 DEF CoverOK
    <3> QED BY <2>3, <3>1, <3>2, <3>3
  <2>6. covered \subseteq covered' BY <2>3
  <2> QED BY <1>o, <2>1, <2>4, <2>5, <2>6
<1>7. CASE StoreProduct(w)
  <2>1. UNCHANGED <<state, links, row, todo>> /\ pc[w] = "store"
    BY <1>7 DEF StoreProduct, receiptVars, rowVars, At
  <2>2. /\ pc' = [pc EXCEPT ![w] = "decide"]
        /\ \/ covered' = covered \cup seen[w]
           \/ outcome' = [outcome EXCEPT ![w] = "permanent"] /\ UNCHANGED covered
    BY <1>7 DEF StoreProduct, Goto
  <2>3. \A r \in todo'[w] : Accepted(r) BY <1>t, <2>1 DEF HandsOK
  <2>4. CoverOK(w)' BY <1>t, <1>y, <2>1, <2>2 DEF CoverOK
  <2>5. covered \subseteq covered' BY <2>2
  <2> QED BY <1>o, <2>1, <2>3, <2>4, <2>5
<1>8. CASE Requeue(w)
  <2>1. UNCHANGED <<state, links, covered>> /\ Leave(w) BY <1>8 DEF Requeue, receiptVars
  <2> QED BY <1>t, <1>o, <2>1, LeftIsCovered DEF Accepted
<1>9. CASE ReadLinks(w)
  <2>1. /\ UNCHANGED <<state, links, outcome, covered>> /\ pc[w] = "decide" /\ row[w] \in Row
        /\ pc' = [pc EXCEPT ![w] = "flip"] /\ todo' = [todo EXCEPT ![w] = links[row[w]]]
    BY <1>9, <1>y DEF ReadLinks, receiptVars, rowVars, At, Goto, LinkedReceipts, WithRow
  <2>2. todo'[w] = links[row[w]] /\ pc'[w] = "flip" BY <1>y, <2>1
  <2>3. \A r \in todo'[w] : Accepted(r) BY <1>t, <2>1, <2>2 DEF HandsOK
  <2>4. CoverOK(w)' BY <1>t, <2>1, <2>2 DEF CoverOK
  <2> QED BY <1>o, <2>1, <2>3, <2>4
<1>10. CASE Finish(w)
  <2>1. UNCHANGED <<state, links, covered>> /\ todo[w] = {} BY <1>10 DEF Finish, receiptVars
  <2>2. CASE Leave(w) BY <1>t, <1>o, <2>1, <2>2, LeftIsCovered DEF Accepted
  <2>3. CASE pc' = [pc EXCEPT ![w] = "sync"] /\ UNCHANGED todo
    <3>1. \A r \in todo'[w] : Accepted(r) BY <2>1, <2>3
    <3>2. CoverOK(w)' BY <1>y, <2>3 DEF CoverOK
    <3> QED BY <1>o, <2>1, <3>1, <3>2
  <2> QED BY <1>10, <2>2, <2>3 DEF Finish, Goto
<1>11. CASE RejectReceipt(w) \/ FlipReceipt(w)
  <2>1. PICK r \in todo[w] :
          \/ Leave(w) /\ UNCHANGED receiptVars
          \/ /\ \/ UNCHANGED receiptVars
                \/ \E o \in Outcome :
                      /\ Process(r, o)
                      /\ o = "ok" => pc[w] \in {"flip", "r_flip"} /\ o = outcome[w]
             /\ todo' = [todo EXCEPT ![w] = @ \ {r}]
             /\ UNCHANGED <<pc, row, outcome, seen>>
    <3>1. CASE RejectReceipt(w)
      <4>1. "permanent" \in Outcome /\ "permanent" # "ok" BY DEF Outcome
      <4> QED BY <3>1, <4>1 DEF RejectReceipt
    <3>2. CASE FlipReceipt(w)
      <4>1. outcome[w] \in Outcome BY <1>y
      <4>2. pc[w] \in {"flip", "r_flip"} BY <3>2 DEF FlipReceipt, At
      <4> QED BY <3>2, <4>1, <4>2 DEF FlipReceipt
    <3> QED BY <1>11, <3>1, <3>2
  <2>2. UNCHANGED <<links, covered>> BY <1>11 DEF RejectReceipt, FlipReceipt, rowVars
  <2>3. r \in Receipt BY <1>y
  <2>4. CASE Leave(w) /\ UNCHANGED receiptVars
    BY <1>t, <1>o, <2>2, <2>4, LeftIsCovered DEF Accepted, receiptVars
  <2>5. CASE todo' = [todo EXCEPT ![w] = @ \ {r}] /\ UNCHANGED <<pc, row, outcome, seen, receiptVars>>
    <3>1. todo'[w] \subseteq todo[w] BY <1>y, <2>5
    <3>2. \A q \in todo'[w] : Accepted(q) BY <1>t, <3>1 DEF HandsOK
    <3>3. CoverOK(w)' BY <1>t, <2>2, <2>5, <3>1 DEF CoverOK
    <3> QED BY <1>o, <2>2, <2>5, <3>2, <3>3 DEF receiptVars
  <2>6. ASSUME NEW o \in Outcome, Process(r, o), o = "ok" => pc[w] \in {"flip", "r_flip"} /\ o = outcome[w],
               todo' = [todo EXCEPT ![w] = @ \ {r}], UNCHANGED <<pc, row, outcome, seen>>
        PROVE  HandsOK' /\ CoverOK(w)' /\ ProcessedIsObserved'
    <3>1. todo'[w] \subseteq todo[w] BY <1>y, <2>6
    <3>2. /\ \A q \in Receipt : state'[q] = "processed" => state[q] = "processed" \/ (q = r /\ o = "ok")
          /\ \A q \in Receipt : state[q] # "absent" => state'[q] # "absent"
      BY <1>t, <2>3, <2>6, ProcessStep
    <3>3. CoverOK(w)' BY <1>t, <2>2, <2>6, <3>1 DEF CoverOK
    <3>4. HandsOK'
      <4>1. \A k \in Row : links[k] \subseteq Receipt BY <1>y
      <4>2. todo[w] \subseteq Receipt BY <1>y
      <4> QED BY <1>t, <1>l, <2>2, <3>1, <3>2, <4>1, <4>2 DEF HandsOK, Accepted
    <3>5. o = "ok" => r \in covered BY <1>t, <2>6 DEF CoverOK
    <3>6. ProcessedIsObserved' BY <1>t, <2>2, <3>2, <3>5 DEF ProcessedIsObserved
    <3> QED BY <3>3, <3>4, <3>6
  <2> QED BY <2>1, <2>4, <2>5, <2>6
<1> QED BY <1>1, <1>2, <1>3, <1>4, <1>5, <1>6, <1>7, <1>8, <1>9, <1>10, <1>11 DEF RunnerStep

\* With a single runner process a processed receipt was followed by an observation of
\* its product: crashes, expired leases, recoveries and replays take nothing from it.
THEOREM OneRunnerObserves ==
    ASSUME \A v, w \in Runner : v = w
    PROVE  Spec => []ProcessedIsObserved
<1>1. Init => ObservedInv
  <2> SUFFICES ASSUME Init PROVE ObservedInv OBVIOUS
  <2>1. HandsOK BY DEF Init, HandsOK
  <2>2. \A w \in Runner : CoverOK(w) BY DEF Init, CoverOK
  <2>3. ProcessedIsObserved BY DEF Init, ReceiptInit, ProcessedIsObserved
  <2> QED BY <2>1, <2>2, <2>3, EntityStart DEF ObservedInv
<1>2. ObservedInv /\ [Next]_vars => ObservedInv'
  <2> SUFFICES ASSUME ObservedInv, [Next]_vars PROVE ObservedInv' OBVIOUS
  <2>t. EntityInv /\ HandsOK /\ (\A w \in Runner : CoverOK(w)) /\ ProcessedIsObserved
        /\ ReceiptTypeOK /\ RunTypes /\ RowTypes
    BY DEF ObservedInv, EntityInv
  <2>i. EntityInv' BY <2>t, EntityStep
  <2>1. ASSUME NEW w \in Runner, RunnerStep(w) PROVE ObservedInv'
    <3>1. HandsOK' /\ CoverOK(w)' /\ ProcessedIsObserved' BY <2>1, ObservedStep
    <3>2. \A v \in Runner : v = w OBVIOUS
    <3> QED BY <2>i, <3>1, <3>2 DEF ObservedInv
  <2>2. ASSUME NEW w \in Runner, Crash(w) PROVE ObservedInv'
    <3>1. UNCHANGED <<state, links, covered>> /\ Leave(w)
      BY <2>2 DEF Crash, receiptVars, rowVars
    <3>2. CoverOK(w)' /\ \A r \in todo'[w] : Accepted(r)'
      BY <2>t, <3>1, LeftIsCovered
    <3>3. HandsOK' BY <2>t, <3>1, <3>2 DEF HandsOK, Accepted
    <3>4. ProcessedIsObserved' BY <2>t, <3>1 DEF ProcessedIsObserved
    <3> QED BY <2>i, <3>2, <3>3, <3>4 DEF ObservedInv
  <2>3. CASE Expire \/ ExpireAtWork \/ RowBackoffElapses \/ UNCHANGED vars
    <3>1. UNCHANGED <<receiptVars, links, runVars, covered>>
      BY <2>3 DEF Expire, ExpireAtWork, RowBackoffElapses, vars, rowVars
    <3> QED BY <2>i, <2>t, <3>1
        DEF ObservedInv, HandsOK, CoverOK, ProcessedIsObserved, Accepted, runVars, receiptVars
  <2>4. CASE ReceiptStep \/ ReceiptBackoffElapses
    <3>1. UNCHANGED <<rowVars, runVars, covered>>
      BY <2>4 DEF ReceiptStep, ReceiptBackoffElapses
    <3>2. PICK r \in Receipt : Accept(r) \/ ReplayLoad(r) \/ ReplayQueue(r) \/ Elapse(r)
      BY <2>4 DEF ReceiptStep, ReceiptBackoffElapses
    <3>3. /\ \A q \in Receipt : state'[q] = "processed" => state[q] = "processed"
          /\ \A q \in Receipt : state[q] # "absent" => state'[q] # "absent"
      BY <2>t, <3>2, ReceiptKept
    <3>4. /\ \A k \in Row : links[k] \subseteq Receipt
          /\ \A w \in Runner : todo[w] \subseteq Receipt
      BY <2>t DEF RowTypes, RunTypes
    <3>5. HandsOK' BY <2>t, <3>1, <3>3, <3>4 DEF HandsOK, Accepted, rowVars, runVars
    <3>6. ProcessedIsObserved' BY <2>t, <3>1, <3>3 DEF ProcessedIsObserved
    <3>7. \A w \in Runner : CoverOK(w)' BY <2>t, <3>1 DEF CoverOK, rowVars, runVars
    <3> QED BY <2>i, <3>5, <3>6, <3>7 DEF ObservedInv
  <2> QED BY <2>1, <2>2, <2>3, <2>4 DEF Next
<1>3. ObservedInv => ProcessedIsObserved BY DEF ObservedInv
<1> QED BY <1>1, <1>2, <1>3, PTL DEF Spec
=============================================================================
