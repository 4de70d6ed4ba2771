--------------------------- MODULE WebhookReceipts ---------------------------
(***************************************************************************)
(* Durable webhook receipts: WebhookIngestionService.  A receipt is queued  *)
(* when the provider's delivery is accepted and moves one transition at a  *)
(* time, under its row lock, to processed or dead_letter; transient        *)
(* failures put it back with a backoff.  An administrator can replay it.   *)
(***************************************************************************)
EXTENDS Naturals

CONSTANTS
    Receipt,
    MaxTries,   \* MAX_PROCESSING_ATTEMPTS
    MaxReplays  \* bound on the replays asked for

ASSUME WebhookReceiptsAssumption == MaxTries \in Nat \ {0} /\ MaxReplays \in Nat

VARIABLES
    state,      \* webhook_receipts.processing_state, "absent" before delivery
    tries,      \* attempt_count, capped at MaxTries
    backoff,    \* receipts whose next_attempt_at is in the future
    replayed,   \* receipts an open replay request has loaded, and as what
    replays     \* replays asked for so far

receiptVars == <<state, tries, backoff, replayed, replays>>

Outcome == {"ok", "transient", "permanent"}
ReceiptState == {"absent", "queued", "retry_scheduled", "processed", "dead_letter"}
NotReplayed == "none"

ReceiptInit ==
    /\ state = [r \in Receipt |-> "absent"]
    /\ tries = [r \in Receipt |-> 0]
    /\ backoff = {}
    /\ replayed = [r \in Receipt |-> NotReplayed]
    /\ replays = 0

Accepted(r) == state[r] # "absent"
Settled(r) == state[r] \in {"processed", "dead_letter"}

\* What the processors look for: queued or retryable, backoff elapsed.
Due(r) == state[r] \in {"queued", "retry_scheduled"} /\ r \notin backoff

\* accept_*: the delivery is stored.  A delivery with a known identity changes
\* nothing.
Accept(r) ==
    /\ ~Accepted(r)
    /\ state' = [state EXCEPT ![r] = "queued"]
    /\ UNCHANGED <<tries, backoff, replayed, replays>>

\* Processing a dead letter is refused with 409; a processed receipt and one
\* whose backoff runs are left as they are.
Refused(r) == state[r] = "dead_letter"

BackingOff(r) == state[r] = "retry_scheduled" /\ r \in backoff

\* An error: a receipt that was processed is processed anew.
OnlyBackoffSkips(r) == BackingOff(r)

Skipped(r) == state[r] = "processed" \/ BackingOff(r)

Retryable(r, outcome) == outcome = "transient" /\ tries[r] + 1 < MaxTries

\* _process_receipt, under the row lock, on a receipt that is not refused.
Process(r, outcome) ==
    /\ ~Refused(r)
    /\ IF Skipped(r)
       THEN UNCHANGED <<state, tries, backoff>>
       ELSE /\ tries' = [tries EXCEPT ![r] = IF @ < MaxTries THEN @ + 1 ELSE @]
            /\ state' = [state EXCEPT ![r] =
                  IF outcome = "ok" THEN "processed"
                  ELSE IF Retryable(r, outcome) THEN "retry_scheduled"
                  ELSE "dead_letter"]
            /\ backoff' = IF Retryable(r, outcome) THEN backoff \cup {r} ELSE backoff
    /\ UNCHANGED <<replayed, replays>>

\* A backoff elapses.
Elapse(r) ==
    /\ r \in backoff
    /\ backoff' = backoff \ {r}
    /\ UNCHANGED <<state, tries, replayed, replays>>

\* replay reads the receipt without a lock ...
ReplayLoad(r) ==
    /\ replays < MaxReplays
    /\ replayed[r] = NotReplayed
    /\ state[r] \in {"queued", "retry_scheduled", "dead_letter"}
    /\ replayed' = [replayed EXCEPT ![r] = state[r]]
    /\ replays' = replays + 1
    /\ UNCHANGED <<state, tries, backoff>>

\* ... and queues it.  Only changed columns are written: a receipt that was
\* read as queued stays what it has become.
ReplayQueue(r) ==
    /\ replayed[r] # NotReplayed
    /\ replayed' = [replayed EXCEPT ![r] = NotReplayed]
    /\ IF replayed[r] = "queued"
       THEN UNCHANGED <<state, backoff>>
       ELSE /\ state' = [state EXCEPT ![r] = "queued"]
            /\ backoff' = IF replayed[r] = "retry_scheduled" THEN backoff \ {r}
                          ELSE backoff
    /\ UNCHANGED <<tries, replays>>

ReceiptTypeOK ==
    /\ state \in [Receipt -> ReceiptState]
    /\ tries \in [Receipt -> 0..MaxTries]
    /\ backoff \subseteq Receipt
    /\ replayed \in [Receipt -> ReceiptState \cup {NotReplayed}]
    /\ replays \in 0..MaxReplays
=============================================================================
