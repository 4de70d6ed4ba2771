---------------------------- MODULE ApplyProofs ----------------------------
(***************************************************************************)
(* Theorems about Apply for any number of jobs, Listings, Channels and     *)
(* sessions: its types, that a write is sent once, and the exclusive       *)
(* ownership of Listings when a job is only taken over at points where a   *)
(* check of its lease follows.  A job in raced has two reconciliations that *)
(* got in each other's way: only part of that is left for it.              *)
(***************************************************************************)
EXTENDS Apply, TLAPS

\* Points of apply_selected at which the loop over the Channels is under way.
LoopPoints == {"limit", "dispatch", "send", "io", "record"}

\* What a session keeps in memory while it is in the loop over the Channels:
\* each Listing of its job has a result, or is in the batch, or its Channel is
\* still to be visited.
LoopOK(s) ==
    /\ IF pc[s] = "idle" THEN task[s] = NoJob
       ELSE task[s] \in Job /\ batch[s] \subseteq Scope[task[s]]
    /\ pc[s] \in LoopPoints =>
          \A l \in Scope[task[s]] :
              result[s][l] = "none" => ChannelOf[l] \in todo[s] \/ l \in batch[s]
    /\ pc[s] \notin {"dispatch", "send", "io", "record", "r_claim", "r_record"} => batch[s] = {}
    /\ pc[s] \in {"record", "r_record"} => \A l \in batch[s] : result[s][l] # "none"
    /\ pc[s] \in {"settle", "finish", "status"} =>
          \A l \in Scope[task[s]] : result[s][l] # "none"

TypeInv == TypeOK /\ \A s \in Session : LoopOK(s)

-----------------------------------------------------------------------------
\* Before any job exists the types hold and no session is in a loop.
LEMMA TypeInit == Init => TypeInv
BY ApplyAssumption DEF Init, TypeInv, TypeOK, LoopOK, JobStatus, ItemStatus,
    Blank, NoResult, Points, LoopPoints

\* Item and job statuses that are computed from outcomes are statuses of the code.
LEMMA AfterTypes ==
    /\ \A o \in Result : ItemAfter(o) \in ItemStatus
    /\ \A S : StatusFromItems(S) \in JobStatus \ {"absent"}
BY DEF Result, ItemAfter, ItemStatus, StatusFromItems, JobStatus

\* Every step of a session, of recovery and of reconciliation keeps the types.
LEMMA TypeStep == TypeInv /\ [Next]_vars => TypeInv'
<1> SUFFICES ASSUME TypeInv, [Next]_vars PROVE TypeInv'
  OBVIOUS
<1> USE ApplyAssumption DEF TypeInv, TypeOK, LoopOK, LoopPoints, Points,
        ApplyPoints, ReconcilePoints, JobStatus, ItemStatus, Outcome, Result,
        At, Goto, Leave, NoResult, dbVars, providerVars, sessionVars
<1>1. ASSUME NEW s \in Session, NEW j \in Job, Request(s, j) PROVE TypeInv'
  <2>1. TypeOK'
    BY <1>1 DEF Request
  <2>2. ASSUME NEW t \in Session PROVE LoopOK(t)'
    BY <1>1 DEF Request
  <2>3. QED
    BY <2>1, <2>2
<1>2. ASSUME NEW s \in Session, AcquireLocks(s) PROVE TypeInv'
  BY <1>2 DEF AcquireLocks
<1>3. ASSUME NEW s \in Session, LocksRefused(s) PROVE TypeInv'
  BY <1>3 DEF LocksRefused
<1>4. ASSUME NEW s \in Session, Claim(s) PROVE TypeInv'
  BY <1>4 DEF Claim, ClaimLease
<1>5. ASSUME NEW s \in Session, GoStale(s) PROVE TypeInv'
  BY <1>5 DEF GoStale, Released
<1>6. ASSUME NEW s \in Session, Verified(s) PROVE TypeInv'
  BY <1>6 DEF Verified
<1>7. ASSUME NEW s \in Session, PersistAttempts(s) PROVE TypeInv'
  <2>1. todo' \in [Session -> SUBSET Channel]
    BY <1>7 DEF PersistAttempts, Channels
  <2>2. TypeOK'
    BY <1>7, <2>1 DEF PersistAttempts, AppendEvents
  <2>3. ASSUME NEW t \in Session PROVE LoopOK(t)'
    BY <1>7 DEF PersistAttempts, Channels
  <2>4. QED
    BY <2>2, <2>3
<1>8. ASSUME NEW s \in Session, NEW c \in Channel, Admit(s, c) PROVE TypeInv'
  BY <1>8 DEF Admit, Remaining, OfChannel
<1>9. ASSUME NEW s \in Session, NEW c \in Channel, LimiterFails(s, c) PROVE TypeInv'
  BY <1>9 DEF LimiterFails, Remaining, OfChannel
<1>10. ASSUME NEW s \in Session, NEW D \in SUBSET Listing, Dispatch(s, D) PROVE TypeInv'
  BY <1>10 DEF Dispatch, AppendEvents
<1>11. ASSUME NEW s \in Session, Send(s) PROVE TypeInv'
  BY <1>11 DEF Send, Sending
<1>12. ASSUME NEW s \in Session, NEW r \in [Listing -> Result \cup {"none"}], Answer(s, r)
       PROVE TypeInv'
  <2>1. TypeOK'
    BY <1>12 DEF Answer
  <2>2. ASSUME NEW t \in Session PROVE LoopOK(t)'
    <3>1. \A l \in Sending(s) : r[l] # "none"
      BY <1>12 DEF Answer, Reports
    <3>2. QED
      BY <1>12, <3>1 DEF Answer, Sending
  <2>3. QED
    BY <2>1, <2>2
<1>13. ASSUME NEW s \in Session, RecordOutcomes(s) PROVE TypeInv'
  BY <1>13 DEF RecordOutcomes, AppendEvents
<1>14. ASSUME NEW s \in Session, CheckLease(s) PROVE TypeInv'
  BY <1>14 DEF CheckLease
<1>15. ASSUME NEW s \in Session, Finish(s) PROVE TypeInv'
  BY <1>15 DEF Finish, RecordItems, ItemAfter
<1>16. ASSUME NEW s \in Session, Complete(s) PROVE TypeInv'
  BY <1>16 DEF Complete, Released, StatusFromResults
<1>17. ASSUME NEW s \in Session, Abort(s) PROVE TypeInv'
  BY <1>17 DEF Abort, Released
<1>18. ASSUME NEW s \in Session, NEW j \in Job, StartReconcile(s, j) PROVE TypeInv'
  <2>1. todo' \in [Session -> SUBSET Channel]
    BY <1>18 DEF StartReconcile, UncertainListings, Channels
  <2>2. TypeOK'
    BY <1>18, <2>1 DEF StartReconcile
  <2>3. ASSUME NEW t \in Session PROVE LoopOK(t)'
    BY <1>18 DEF StartReconcile
  <2>4. QED
    BY <2>2, <2>3
<1>18a. ASSUME NEW s \in Session, ClaimReconcile(s) PROVE TypeInv'
  <2>1. TypeOK'
    BY <1>18a DEF ClaimReconcile, ClaimLease
  <2>2. ASSUME NEW t \in Session PROVE LoopOK(t)'
    BY <1>18a DEF ClaimReconcile
  <2>3. QED
    BY <2>1, <2>2
<1>18b. ASSUME NEW s \in Session, ReconcileRefused(s) PROVE TypeInv'
  BY <1>18b DEF ReconcileRefused
<1>19. ASSUME NEW s \in Session, NEW c \in Channel, NEW V \in SUBSET Listing, ReadBack(s, c,
              V)
       PROVE TypeInv'
  BY <1>19 DEF ReadBack, OfChannel
<1>20. ASSUME NEW s \in Session, RecordReadBack(s) PROVE TypeInv'
  BY <1>20 DEF RecordReadBack, AppendEvents, AfterReadBack
<1>21. ASSUME NEW s \in Session, CheckReconcileLease(s) PROVE TypeInv'
  BY <1>21 DEF CheckReconcileLease
<1>22. ASSUME NEW s \in Session, FinishReconcile(s) PROVE TypeInv'
  <2>1. task[s] \in Job
    BY <1>22 DEF FinishReconcile
  <2>2. item' \in [Job -> [Listing -> ItemStatus]]
    <3>1. \A l \in Listing : result[s][l] # "none" => ItemAfter(result[s][l]) \in ItemStatus
      <4>1. ASSUME NEW l \in Listing, result[s][l] # "none" PROVE result[s][l] \in Result
        BY <4>1
      <4>2. QED
        BY <4>1, AfterTypes
    <3>2. QED
      BY <1>22, <2>1, <3>1 DEF FinishReconcile, RecordItems
  <2>3. cache' \in [Listing -> Job \cup {NoJob}]
    BY <1>22, <2>1 DEF FinishReconcile, RecordItems
  <2>4. jobStatus' \in [Job -> JobStatus]
    BY <1>22, AfterTypes DEF FinishReconcile
  <2>5. lock' \in [Listing -> Job \cup {NoJob}]
    BY <1>22 DEF FinishReconcile, Released
  <2>6. TypeOK'
    BY <1>22, <2>2, <2>3, <2>4, <2>5 DEF FinishReconcile
  <2>7. ASSUME NEW t \in Session PROVE LoopOK(t)'
    BY <1>22 DEF FinishReconcile
  <2>8. QED
    BY <2>6, <2>7
<1>23. ASSUME NEW s \in Session, ReconcileFenced(s) PROVE TypeInv'
  BY <1>23 DEF ReconcileFenced
<1>24. ASSUME NEW s \in Session, Crash(s) PROVE TypeInv'
  BY <1>24 DEF Crash
<1>25. ASSUME NEW j \in Job, RecoverWithoutAttempt(j) PROVE TypeInv'
  BY <1>25 DEF RecoverWithoutAttempt, ClaimLease, Released
<1>26. ASSUME NEW j \in Job, RecoverFromAttempts(j) PROVE TypeInv'
  <2>1. item' \in [Job -> [Listing -> ItemStatus]]
    BY <1>26 DEF RecoverFromAttempts, RecoveredItem
  <2>2. cache' \in [Listing -> Job \cup {NoJob}]
    BY <1>26 DEF RecoverFromAttempts, RecoveredCache
  <2>3. jobStatus' \in [Job -> JobStatus]
    BY <1>26, AfterTypes DEF RecoverFromAttempts
  <2>4. lock' \in [Listing -> Job \cup {NoJob}]
    BY <1>26 DEF RecoverFromAttempts, Released
  <2>5. TypeOK'
    BY <1>26, <2>1, <2>2, <2>3, <2>4 DEF RecoverFromAttempts
  <2>6. ASSUME NEW t \in Session PROVE LoopOK(t)'
    BY <1>26 DEF RecoverFromAttempts
  <2>7. QED
    BY <2>5, <2>6
<1>27. ASSUME NEW j \in Job, NEW l \in Listing, Land(j, l) PROVE TypeInv'
  BY <1>27 DEF Land
<1>28. ASSUME NEW j \in Job, NEW l \in Listing, Drop(j, l) PROVE TypeInv'
  BY <1>28 DEF Drop
<1>29. CASE UNCHANGED vars
  BY <1>29 DEF vars
<1>30. QED
  BY <1>1, <1>2, <1>3, <1>4, <1>5, <1>6, <1>7, <1>8, <1>9, <1>10, <1>11, <1>12, <1>13,
     <1>14, <1>15, <1>16, <1>17, <1>18, <1>19, <1>20, <1>21, <1>22, <1>23, <1>24, <1>25,
     <1>26, <1>27, <1>28, <1>29, <1>18a, <1>18b
     DEF Next, ApplyStep, ReconcileStep, Recover, Fenced

(* Every variable keeps its type, and what execute_workspace and               *)
(* _record_listing_* look up in a session's results is always there: no       *)
(* Listing is recorded before it has an outcome.                              *)
THEOREM TypeCorrect == Spec => []TypeOK
<1>1. TypeInv => TypeOK
  BY DEF TypeInv
<1>2. QED
  BY TypeInit, TypeStep, <1>1, PTL DEF Spec

-----------------------------------------------------------------------------
(* Every write is sent at most once.  A job is executed by the one session     *)
(* that created it, and that session's loop visits a Channel once: what is     *)
(* still to be visited, or about to be sent, has not been sent before.         *)

OneExecutor ==
    /\ \A s, t \in Session :
          pc[s] \in ApplyPoints /\ pc[t] \in ApplyPoints /\ task[s] = task[t] => s = t
    /\ \A j \in Job : jobStatus[j] = "absent" =>
          /\ \A s \in Session : task[s] # j
          /\ \A l \in Listing : sent[j][l] = 0

NotSentYet(s, l) ==
    \/ pc[s] \in {"locking", "claim", "verify", "persist"}
    \/ pc[s] \in LoopPoints /\ l \in Scope[task[s]] /\ ChannelOf[l] \in todo[s]
    \/ pc[s] \in {"dispatch", "send"} /\ l \in batch[s]

SentInv ==
    /\ TypeInv
    /\ OneExecutor
    /\ \A s \in Session : \A l \in Listing :
          /\ NotSentYet(s, l) => sent[task[s]][l] = 0
          /\ pc[s] \in LoopPoints /\ l \in batch[s] => ChannelOf[l] \notin todo[s]
    /\ SentAtMostOnce

\* Before any job exists nothing was sent.
LEMMA SentInit == Init => SentInv
BY TypeInit, ApplyAssumption DEF Init, SentInv, OneExecutor, NotSentYet,
    SentAtMostOnce, LoopPoints, ApplyPoints

\* Every step keeps: one executor, nothing sent that is yet to be visited, one send.
LEMMA SentStep == SentInv /\ [Next]_vars => SentInv'
<1> SUFFICES ASSUME SentInv, [Next]_vars PROVE SentInv'
  OBVIOUS
<1>0. TypeInv /\ TypeInv'
  BY TypeStep DEF SentInv
<1> USE <1>0, ApplyAssumption DEF SentInv, OneExecutor, NotSentYet, SentAtMostOnce,
        TypeInv, TypeOK, LoopOK, LoopPoints, ApplyPoints, ReconcilePoints,
        At, Goto, Leave, dbVars, providerVars, sessionVars
<1>1. ASSUME NEW s \in Session, NEW j \in Job, Request(s, j) PROVE SentInv'
  BY <1>1 DEF Request
<1>2. ASSUME NEW s \in Session, AcquireLocks(s) PROVE SentInv'
  BY <1>2 DEF AcquireLocks
<1>3. ASSUME NEW s \in Session, LocksRefused(s) PROVE SentInv'
  BY <1>3 DEF LocksRefused
<1>4. ASSUME NEW s \in Session, Claim(s) PROVE SentInv'
  BY <1>4 DEF Claim, ClaimLease
<1>5. ASSUME NEW s \in Session, GoStale(s) PROVE SentInv'
  BY <1>5 DEF GoStale
<1>6. ASSUME NEW s \in Session, Verified(s) PROVE SentInv'
  BY <1>6 DEF Verified
<1>7. ASSUME NEW s \in Session, PersistAttempts(s) PROVE SentInv'
  BY <1>7 DEF PersistAttempts
<1>8. ASSUME NEW s \in Session, NEW c \in Channel, Admit(s, c) PROVE SentInv'
  BY <1>8 DEF Admit, Remaining, OfChannel
<1>9. ASSUME NEW s \in Session, NEW c \in Channel, LimiterFails(s, c) PROVE SentInv'
  BY <1>9 DEF LimiterFails, Remaining, OfChannel
<1>10. ASSUME NEW s \in Session, NEW D \in SUBSET Listing, Dispatch(s, D) PROVE SentInv'
  BY <1>10 DEF Dispatch
<1>11. ASSUME NEW s \in Session, Send(s) PROVE SentInv'
  BY <1>11 DEF Send, Sending
<1>12. ASSUME NEW s \in Session, NEW r \in [Listing -> Result \cup {"none"}], Answer(s, r)
       PROVE SentInv'
  BY <1>12 DEF Answer
<1>13. ASSUME NEW s \in Session, RecordOutcomes(s) PROVE SentInv'
  BY <1>13 DEF RecordOutcomes
<1>14. ASSUME NEW s \in Session, CheckLease(s) PROVE SentInv'
  BY <1>14 DEF CheckLease
<1>15. ASSUME NEW s \in Session, Finish(s) PROVE SentInv'
  BY <1>15 DEF Finish
<1>16. ASSUME NEW s \in Session, Complete(s) PROVE SentInv'
  BY <1>16 DEF Complete, StatusFromResults
<1>17. ASSUME NEW s \in Session, Abort(s) PROVE SentInv'
  BY <1>17 DEF Abort
<1>18. ASSUME NEW s \in Session, NEW j \in Job, StartReconcile(s, j) PROVE SentInv'
  BY <1>18 DEF StartReconcile
<1>18a. ASSUME NEW s \in Session, ClaimReconcile(s) PROVE SentInv'
  BY <1>18a DEF ClaimReconcile
<1>18b. ASSUME NEW s \in Session, ReconcileRefused(s) PROVE SentInv'
  BY <1>18b DEF ReconcileRefused
<1>19. ASSUME NEW s \in Session, NEW c \in Channel, NEW V \in SUBSET Listing, ReadBack(s, c,
              V)
       PROVE SentInv'
  BY <1>19 DEF ReadBack, OfChannel
<1>20. ASSUME NEW s \in Session, RecordReadBack(s) PROVE SentInv'
  BY <1>20 DEF RecordReadBack, AfterReadBack
<1>21. ASSUME NEW s \in Session, CheckReconcileLease(s) PROVE SentInv'
  BY <1>21 DEF CheckReconcileLease
<1>22. ASSUME NEW s \in Session, FinishReconcile(s) PROVE SentInv'
  <2>1. \A i \in Job : jobStatus'[i] = "absent" => jobStatus[i] = "absent"
    BY <1>22, AfterTypes DEF FinishReconcile
  <2>2. /\ pc' = [pc EXCEPT ![s] = "idle"]
        /\ task' = [task EXCEPT ![s] = NoJob]
        /\ batch' = [batch EXCEPT ![s] = {}]
        /\ todo' = [todo EXCEPT ![s] = {}]
        /\ sent' = sent
    BY <1>22 DEF FinishReconcile
  <2>3. OneExecutor'
    BY <2>1, <2>2
  <2>4. \A t \in Session, l \in Listing :
          /\ NotSentYet(t, l)' => sent'[task'[t]][l] = 0
          /\ pc'[t] \in LoopPoints /\ l \in batch'[t] => ChannelOf[l] \notin todo'[t]
    BY <2>2
  <2>5. QED
    BY <2>2, <2>3, <2>4
<1>23. ASSUME NEW s \in Session, ReconcileFenced(s) PROVE SentInv'
  BY <1>23 DEF ReconcileFenced
<1>24. ASSUME NEW s \in Session, Crash(s) PROVE SentInv'
  BY <1>24 DEF Crash
<1>25. ASSUME NEW j \in Job, RecoverWithoutAttempt(j) PROVE SentInv'
  BY <1>25 DEF RecoverWithoutAttempt
<1>26. ASSUME NEW j \in Job, RecoverFromAttempts(j) PROVE SentInv'
  <2>1. \A i \in Job : jobStatus'[i] = "absent" => jobStatus[i] = "absent"
    BY <1>26, AfterTypes DEF RecoverFromAttempts
  <2>2. UNCHANGED <<pc, task, batch, todo, sent>>
    BY <1>26 DEF RecoverFromAttempts
  <2>3. OneExecutor'
    BY <2>1, <2>2
  <2>4. \A t \in Session, l \in Listing :
          /\ NotSentYet(t, l)' => sent'[task'[t]][l] = 0
          /\ pc'[t] \in LoopPoints /\ l \in batch'[t] => ChannelOf[l] \notin todo'[t]
    BY <2>2
  <2>5. QED
    BY <2>2, <2>3, <2>4
<1>27. ASSUME NEW j \in Job, NEW l \in Listing, Land(j, l) PROVE SentInv'
  BY <1>27 DEF Land
<1>28. ASSUME NEW j \in Job, NEW l \in Listing, Drop(j, l) PROVE SentInv'
  BY <1>28 DEF Drop
<1>29. CASE UNCHANGED vars
  BY <1>29 DEF vars
<1>30. QED
  BY <1>1, <1>2, <1>3, <1>4, <1>5, <1>6, <1>7, <1>8, <1>9, <1>10, <1>11, <1>12, <1>13,
     <1>14, <1>15, <1>16, <1>17, <1>18, <1>19, <1>20, <1>21, <1>22, <1>23, <1>24, <1>25,
     <1>26, <1>27, <1>28, <1>29, <1>18a, <1>18b
     DEF Next, ApplyStep, ReconcileStep, Recover, Fenced

(* No crash, recovery, replay or reconciliation makes execute_workspace send   *)
(* the write of an operation to a Listing a second time.                       *)
THEOREM SentOnce == Spec => []SentAtMostOnce
<1>1. SentInv => SentAtMostOnce
  BY DEF SentInv
<1>2. QED
  BY SentInit, SentStep, <1>1, PTL DEF Spec

(***************************************************************************)
(* What holds of one job, whoever works on it.                             *)
(***************************************************************************)

\* The newest event is one of the events; nothing outside the manifest has any.
EvidenceOK(j) ==
    \A l \in Listing :
        /\ latest[j][l] # "none" => latest[j][l] \in events[j][l]
        /\ \A o \in events[j][l] : latest[j][l] # "none"
        /\ l \notin Scope[j] \/ jobStatus[j] = "absent" =>
              latest[j][l] = "none" /\ item[j][l] = "absent"

\* Items are settled together, and a settled one agrees with the evidence.
ItemsOK(j) ==
    /\ jobStatus[j] # "absent" => \A l \in Scope[j] : item[j][l] # "absent"
    /\ \/ \A l \in Scope[j] : item[j][l] = "pending"
       \/ \A l \in Scope[j] : item[j][l] # "pending"
    /\ \A l \in Listing :
          /\ item[j][l] = "applied" => latest[j][l] = "verified_applied"
          /\ item[j][l] = "failed" => latest[j][l] \notin Uncertain \cup {"verified_applied"}
          /\ item[j][l] \in UncertainItem =>
                /\ latest[j][l] \in Uncertain \cup {"verified_applied"}
                /\ "dispatched" \in events[j][l] \/ "reconciliation_required" \in events[j][l]

\* Whatever is uncertain is locked, and the job is not over.
UncertainLocked(j) ==
    \A l \in Listing :
        latest[j][l] \in Uncertain \/ item[j][l] \in UncertainItem =>
            lock[l] = j /\ jobStatus[j] \in Unfinished

\* A write on its way is uncertain; one that arrived was sent.
WireOK(j) ==
    \A l \in Listing :
        /\ <<j, l>> \in wire => latest[j][l] \in Uncertain /\ sent[j][l] = 1
        /\ remote[l] = j => <<j, l>> \notin wire /\ sent[j][l] = 1

\* All of it as long as no two reconciliations of the job got in each other's way.
JobInv(j) == j \notin raced =>
    EvidenceOK(j) /\ ItemsOK(j) /\ UncertainLocked(j) /\ WireOK(j)

(***************************************************************************)
(* What holds of one session.                                              *)
(***************************************************************************)

EarlyPoints == {"locking", "claim", "verify", "persist"}
Claimed(s) == pc[s] \in Points \ {"locking", "claim", "r_claim"}

\* Each claim of a job has a token of its own, and at the points where the lease
\* is not looked at again nobody has taken the job over.
TokenOK(s) ==
    /\ Claimed(s) => token[s] <= fence[task[s]]
    /\ \A t \in Session :
          Claimed(s) /\ Claimed(t) /\ task[s] = task[t] /\ token[s] = token[t] => s = t
    /\ task[s] \notin raced /\ pc[s] \in UncheckedPoints \ {"locking", "claim", "r_claim"} =>
          Owns(s)

\* Before the attempts are persisted nothing of the job has happened.
EarlyOK(s) ==
    /\ pc[s] \in {"locking", "claim"} => jobStatus[task[s]] = "pending"
    /\ pc[s] = "idle" => \A l \in Listing : result[s][l] = "none"
    /\ pc[s] = "claim" => \A l \in Scope[task[s]] : lock[l] = task[s]
    /\ pc[s] \in EarlyPoints =>
          /\ \A l \in Scope[task[s]] : item[task[s]][l] = "pending"
          /\ \A l \in Listing : latest[task[s]][l] = "none" /\ result[s][l] = "none"

\* The owner of a running job has its Listings locked and its items pending.
OwnerOK(s) ==
    pc[s] \in ApplyPoints \ {"locking", "claim"} /\ Owns(s) =>
        /\ jobStatus[task[s]] = "running"
        /\ \A l \in Scope[task[s]] : lock[l] = task[s]
        /\ pc[s] # "status" => \A l \in Scope[task[s]] : item[task[s]][l] = "pending"

\* What apply_selected has in memory agrees with the evidence.
ResultsOK(s) ==
    /\ pc[s] \in LoopPoints => \A l \in Scope[task[s]] :
          /\ ChannelOf[l] \in todo[s] \/ (pc[s] = "dispatch" /\ l \in batch[s]) =>
                latest[task[s]][l] = "dispatch_intent_recorded" /\ result[s][l] = "none"
          /\ Owns(s) /\ ChannelOf[l] \notin todo[s] /\ l \notin batch[s] =>
                latest[task[s]][l] = result[s][l]
    /\ pc[s] = "send" => \A l \in Sending(s) : latest[task[s]][l] \in Uncertain
    /\ pc[s] \in {"settle", "finish", "status"} /\ Owns(s) =>
          \A l \in Scope[task[s]] : latest[task[s]][l] = result[s][l]
    /\ pc[s] = "status" =>
          \A l \in Scope[task[s]] : item[task[s]][l] = ItemAfter(result[s][l])
    /\ pc[s] \in ApplyPoints => \A l \in Listing :
          result[s][l] = "failed" => <<task[s], l>> \notin wire
    /\ \A l \in Listing : result[s][l] = "verified_applied" =>
          <<task[s], l>> \notin wire /\ sent[task[s]][l] = 1

\* And so does what reconcile_apply has, once it claimed the job.
ReadBackOK(s) ==
    pc[s] \in ReconcilePoints =>
        /\ DispatchedEver(task[s])
        /\ jobStatus[task[s]] \notin {"absent", "pending", "running"}
        /\ \A l \in Scope[task[s]] : item[task[s]][l] # "pending"
        /\ \A l \in Listing :
              result[s][l] # "none" => l \in Scope[task[s]] /\ result[s][l] # "failed"
        /\ \E l \in Listing : result[s][l] # "none"
        /\ \A l \in batch[s] : result[s][l] # "none"
        /\ pc[s] = "r_claim" =>
              \A l \in Listing : result[s][l] # "none" => ChannelOf[l] \in todo[s]
        /\ Owns(s) /\ pc[s] # "r_claim" => \A l \in Listing : result[s][l] # "none" =>
              /\ item[task[s]][l] \in UncertainItem
              /\ (ChannelOf[l] \notin todo[s] /\ l \notin batch[s])
                 \/ pc[s] \in {"r_settle", "r_finish"}
                 => latest[task[s]][l] = result[s][l]

Rest(s) == task[s] \notin raced =>
    EarlyOK(s) /\ OwnerOK(s) /\ ResultsOK(s) /\ ReadBackOK(s)

SessionInv(s) == TokenOK(s) /\ Rest(s)

(***************************************************************************)
(* What is left of a job two reconciliations of which got in each other's  *)
(* way.                                                                    *)
(***************************************************************************)

\* The write of j to l is on its way, or about to be.
Live(j, l) ==
    \/ <<j, l>> \in wire
    \/ \E s \in Session : pc[s] = "send" /\ task[s] = j /\ l \in Sending(s)

\* The session that executed the job lost its lease for good, and a write that it
\* issued keeps its lock and its uncertain item.
RacedOK(j) ==
    /\ DispatchedEver(j)
    /\ jobStatus[j] \notin {"absent", "pending", "running"}
    /\ \A l \in Scope[j] : item[j][l] \in {"applied", "failed"} \cup UncertainItem
    /\ \A l \in Listing :
          /\ Live(j, l) => /\ l \in Scope[j] /\ item[j][l] \in UncertainItem
                          /\ lock[l] = j /\ jobStatus[j] = "reconciliation_required"
          /\ <<j, l>> \in wire => sent[j][l] = 1
          /\ remote[l] = j => <<j, l>> \notin wire /\ sent[j][l] = 1
    /\ \A s \in Session : task[s] = j =>
          /\ pc[s] \in ApplyPoints => pc[s] \in {"limit", "send", "io", "settle"} /\ ~Owns(s)
          /\ pc[s] \in ReconcilePoints => \A l \in Listing :
                /\ result[s][l] # "none" => l \in Scope[j] /\ result[s][l] # "failed"
                /\ result[s][l] = "verified_applied" => <<j, l>> \notin wire /\ sent[j][l] = 1

LockInv ==
    /\ SentInv
    /\ \A j \in Job : JobInv(j)
    /\ \A s \in Session : SessionInv(s)
    /\ \A j \in raced : RacedOK(j)

\* A step that leaves the state of job j alone, or takes writes off the wire,
\* keeps what holds of j.
LEMMA JobFrame ==
    ASSUME NEW j \in Job, JobInv(j), raced \subseteq raced',
           jobStatus'[j] = jobStatus[j], item'[j] = item[j],
           events'[j] = events[j], latest'[j] = latest[j], sent'[j] = sent[j],
           \A l \in Listing : lock[l] = j /\ jobStatus[j] \in Unfinished => lock'[l] = j,
           \A l \in Listing : remote'[l] = j => remote[l] = j,
           \A l \in Listing : <<j, l>> \in wire' => <<j, l>> \in wire
    PROVE  JobInv(j)'
<1> SUFFICES ASSUME j \notin raced
             PROVE  (EvidenceOK(j) /\ ItemsOK(j) /\ UncertainLocked(j) /\ WireOK(j))'
  BY DEF JobInv
<1>0. EvidenceOK(j) /\ ItemsOK(j) /\ UncertainLocked(j) /\ WireOK(j)
  BY DEF JobInv
<1>1. EvidenceOK(j)'
  BY <1>0 DEF EvidenceOK
<1>2. ItemsOK(j)'
  BY <1>0 DEF ItemsOK
<1>3. UncertainLocked(j)'
  BY <1>0 DEF UncertainLocked
<1>4. WireOK(j)'
  BY <1>0 DEF WireOK
<1>5. QED
  BY <1>1, <1>2, <1>3, <1>4

\* A step of another session that leaves the job of t alone keeps what holds of t.
LEMMA SessionFrame ==
    ASSUME NEW t \in Session, Rest(t), LoopOK(t), NoJob \notin Job, raced \subseteq raced',
           Scope \in [Job -> SUBSET Listing],
           pc'[t] = pc[t], task'[t] = task[t], token'[t] = token[t],
           todo'[t] = todo[t], batch'[t] = batch[t], result'[t] = result[t],
           pc[t] # "idle" =>
              /\ jobStatus'[task[t]] = jobStatus[task[t]]
              /\ item'[task[t]] = item[task[t]]
              /\ latest'[task[t]] = latest[task[t]]
              /\ events'[task[t]] = events[task[t]]
              /\ fence'[task[t]] = fence[task[t]]
              /\ held'[task[t]] = held[task[t]]
              /\ sent'[task[t]] = sent[task[t]]
              /\ \A l \in Listing :
                    lock[l] = task[t] /\ jobStatus[task[t]] \in Unfinished => lock'[l] = task[t]
              /\ \A l \in Listing : <<task[t], l>> \in wire' => <<task[t], l>> \in wire
    PROVE  Rest(t)'
<1> SUFFICES ASSUME task[t] \notin raced
             PROVE  (EarlyOK(t) /\ OwnerOK(t) /\ ResultsOK(t) /\ ReadBackOK(t))'
  BY DEF Rest
<1>0. EarlyOK(t) /\ OwnerOK(t) /\ ResultsOK(t) /\ ReadBackOK(t)
  BY DEF Rest
<1>1. CASE pc[t] = "idle"
  BY <1>0, <1>1
     DEF EarlyOK, OwnerOK, ResultsOK, ReadBackOK, EarlyPoints, ApplyPoints, LoopPoints
<1>2. CASE pc[t] # "idle"
  <2>1. task[t] \in Job /\ Scope[task[t]] \subseteq Listing /\ (Owns(t)' <=> Owns(t))
    BY <1>2 DEF LoopOK, Owns
  <2>2. EarlyOK(t)'
    BY <1>0, <1>2, <2>1 DEF EarlyOK, Unfinished
  <2>3. OwnerOK(t)'
    BY <1>0, <1>2, <2>1 DEF OwnerOK, Unfinished
  <2>4. ResultsOK(t)'
    BY <1>0, <1>2, <2>1 DEF ResultsOK, Sending
  <2>5. ReadBackOK(t)'
    BY <1>0, <1>2, <2>1 DEF ReadBackOK, DispatchedEver
  <2>6. QED
    BY <2>2, <2>3, <2>4, <2>5
<1>3. QED
  BY <1>1, <1>2

\* A session that does not own its job any more, whatever the owner did to it.
LEMMA FencedFrame ==
    ASSUME NEW t \in Session, Rest(t), LoopOK(t), raced \subseteq raced',
           pc'[t] = pc[t], task'[t] = task[t], token'[t] = token[t],
           todo'[t] = todo[t], batch'[t] = batch[t], result'[t] = result[t],
           pc[t] # "idle" =>
              /\ Scope[task[t]] \subseteq Listing
              /\ pc[t] = "r_claim" \/ ~Owns(t)'
              /\ pc[t] \notin {"locking", "claim", "status"}
              /\ pc[t] \in ReconcilePoints =>
                    /\ jobStatus'[task[t]] \notin {"absent", "pending", "running"}
                    /\ DispatchedEver(task[t])'
              /\ pc[t] \in EarlyPoints =>
                    item'[task[t]] = item[task[t]] /\ latest'[task[t]] = latest[task[t]]
              /\ pc[t] \in LoopPoints => \A l \in Listing :
                    latest[task[t]][l] = "dispatch_intent_recorded" =>
                       latest'[task[t]][l] = "dispatch_intent_recorded"
              /\ pc[t] = "send" => \A l \in Sending(t) : latest'[task[t]][l] \in Uncertain
              /\ \A l \in Scope[task[t]] :
                    item[task[t]][l] # "pending" => item'[task[t]][l] # "pending"
              /\ sent'[task[t]] = sent[task[t]]
              /\ \A l \in Listing : <<task[t], l>> \in wire' => <<task[t], l>> \in wire
    PROVE  Rest(t)'
<1> SUFFICES ASSUME task[t] \notin raced
             PROVE  (EarlyOK(t) /\ OwnerOK(t) /\ ResultsOK(t) /\ ReadBackOK(t))'
  BY DEF Rest
<1>0. EarlyOK(t) /\ OwnerOK(t) /\ ResultsOK(t) /\ ReadBackOK(t)
  BY DEF Rest
<1>1. CASE pc[t] = "idle"
  BY <1>0, <1>1
     DEF EarlyOK, OwnerOK, ResultsOK, ReadBackOK, EarlyPoints, ApplyPoints, LoopPoints
<1>2. CASE pc[t] # "idle"
  <2>1. EarlyOK(t)'
    BY <1>0, <1>2 DEF EarlyOK, EarlyPoints
  <2>2. OwnerOK(t)'
    BY <1>0, <1>2 DEF OwnerOK, ApplyPoints
  <2>3. ResultsOK(t)'
    BY <1>0, <1>2 DEF ResultsOK, Sending, LoopPoints, ApplyPoints
  <2>4. ReadBackOK(t)'
    BY <1>0, <1>2 DEF ReadBackOK, DispatchedEver
  <2>5. QED
    BY <2>1, <2>2, <2>3, <2>4
<1>3. QED
  BY <1>1, <1>2

\* A reconciliation that sees a step of the session that executes its job.
LEMMA ReconcilerFrame ==
    ASSUME NEW t \in Session, Rest(t), pc[t] \notin ApplyPoints, raced \subseteq raced',
           pc'[t] = pc[t], task'[t] = task[t], token'[t] = token[t],
           todo'[t] = todo[t], batch'[t] = batch[t], result'[t] = result[t],
           pc[t] # "idle" =>
              /\ Owns(t)' <=> Owns(t)
              /\ item'[task[t]] = item[task[t]]
              /\ latest'[task[t]] = latest[task[t]]
              /\ events'[task[t]] = events[task[t]]
              /\ jobStatus'[task[t]] \in {jobStatus[task[t]], "reconciliation_required"}
              /\ \A l \in Listing :
                    <<task[t], l>> \notin wire /\ sent[task[t]][l] = 1 =>
                       <<task[t], l>> \notin wire' /\ sent'[task[t]][l] = 1
    PROVE  Rest(t)'
<1> SUFFICES ASSUME task[t] \notin raced
             PROVE  (EarlyOK(t) /\ OwnerOK(t) /\ ResultsOK(t) /\ ReadBackOK(t))'
  BY DEF Rest
<1>0. EarlyOK(t) /\ OwnerOK(t) /\ ResultsOK(t) /\ ReadBackOK(t)
  BY DEF Rest
<1>1. EarlyOK(t)'
  BY <1>0 DEF EarlyOK, EarlyPoints, ApplyPoints
<1>2. OwnerOK(t)'
  BY <1>0 DEF OwnerOK
<1>3. ResultsOK(t)'
  BY <1>0 DEF ResultsOK, EarlyOK, LoopPoints, ApplyPoints
<1>4. ReadBackOK(t)'
  BY <1>0 DEF ReadBackOK, ReconcilePoints, DispatchedEver
<1>5. QED
  BY <1>1, <1>2, <1>3, <1>4

\* What appending events means for one Listing.
LEMMA AppendFacts ==
    ASSUME TypeOK, NEW j \in Job, NEW L, NEW o, AppendEvents(j, L, o)
    PROVE  \A k \in Job, l \in Listing :
              IF k = j /\ l \in L
              THEN latest'[k][l] = o[l] /\ events'[k][l] = events[k][l] \cup {o[l]}
              ELSE latest'[k][l] = latest[k][l] /\ events'[k][l] = events[k][l]
BY DEF TypeOK, AppendEvents

LockConc == (\A k \in Job : JobInv(k)) /\ (\A t \in Session : SessionInv(t))

(***************************************************************************)
(* A job two reconciliations of which got in each other's way.             *)
(***************************************************************************)

\* The step leaves job k, what is locked, written and sent for it and the sessions
\* at work on it alone.
Spared(k) ==
    /\ jobStatus'[k] = jobStatus[k] /\ item'[k] = item[k]
    /\ events'[k] = events[k] /\ latest'[k] = latest[k] /\ sent'[k] = sent[k]
    /\ fence'[k] = fence[k] /\ held'[k] = held[k]
    /\ \A l \in Listing :
          /\ lock[l] = k /\ jobStatus[k] \in Unfinished => lock'[l] = k
          /\ remote'[l] = k => remote[l] = k
          /\ <<k, l>> \in wire' => <<k, l>> \in wire
    /\ \A t \in Session : task[t] = k \/ task'[t] = k =>
          /\ pc'[t] = pc[t] /\ task'[t] = task[t] /\ token'[t] = token[t]
          /\ todo'[t] = todo[t] /\ batch'[t] = batch[t] /\ result'[t] = result[t]
    /\ k \in raced' => k \in raced

StepOf(s) == ApplyStep(s) \/ ReconcileStep(s) \/ Abort(s) \/ Crash(s)

\* A request is at work on one job and leaves every other job alone.
LEMMA Elsewhere ==
    ASSUME TypeInv, NEW s \in Session, StepOf(s)
    PROVE  task[s] \in Job /\ \A k \in Job \ {task[s]} : Spared(k)
<1>ty. TypeOK /\ LoopOK(s)
  BY DEF TypeInv
<1>1. pc[s] # "idle"
  BY DEF StepOf, ApplyStep, ReconcileStep, AcquireLocks, LocksRefused, Claim, GoStale, Verified,
         PersistAttempts, Admit, LimiterFails, Dispatch, Send, Answer, RecordOutcomes,
         CheckLease, Finish, Complete, Fenced, Abort, Crash, ClaimReconcile, ReconcileRefused,
         ReadBack, RecordReadBack, CheckReconcileLease, FinishReconcile, ReconcileFenced, At,
         ApplyPoints
<1>2. task[s] \in Job
  BY <1>1, <1>ty DEF LoopOK
<1> SUFFICES ASSUME NEW k \in Job, k # task[s] PROVE Spared(k)
  BY <1>2
<1>3. CASE AcquireLocks(s)
  BY <1>3, <1>ty, ApplyAssumption
     DEF AcquireLocks, Takeable, Goto, providerVars, TypeOK, Spared
<1>4. CASE LocksRefused(s)
  BY <1>4, <1>ty, ApplyAssumption DEF LocksRefused, Leave, providerVars, TypeOK, Spared
<1>5. CASE Claim(s)
  BY <1>5, <1>ty DEF Claim, ClaimLease, Goto, providerVars, TypeOK, Spared
<1>6. CASE GoStale(s)
  BY <1>6, <1>ty, ApplyAssumption DEF GoStale, Released, Leave, providerVars, TypeOK, Spared
<1>7. CASE Verified(s)
  BY <1>7, <1>ty DEF Verified, Goto, dbVars, providerVars, TypeOK, Spared
<1>8. CASE PersistAttempts(s)
  BY <1>8, <1>ty DEF PersistAttempts, AppendEvents, Goto, providerVars, TypeOK, Spared
<1>9. ASSUME NEW c \in Channel, Admit(s, c) PROVE Spared(k)
  BY <1>9, <1>ty DEF Admit, Goto, dbVars, providerVars, TypeOK, Spared
<1>10. ASSUME NEW c \in Channel, LimiterFails(s, c) PROVE Spared(k)
  BY <1>10, <1>ty DEF LimiterFails, Goto, dbVars, providerVars, TypeOK, Spared
<1>11. ASSUME NEW D \in SUBSET Listing, Dispatch(s, D) PROVE Spared(k)
  BY <1>11, <1>ty DEF Dispatch, AppendEvents, Goto, providerVars, TypeOK, Spared
<1>12. CASE Send(s)
  <2>1. \A l \in Listing : <<k, l>> \in wire' => <<k, l>> \in wire
    BY <1>12 DEF Send
  <2>2. sent'[k] = sent[k] /\ \A t \in Session : t # s => pc'[t] = pc[t]
    BY <1>12, <1>ty DEF Send, Goto, TypeOK
  <2>3. QED
    BY <1>12, <2>1, <2>2 DEF Send, dbVars, Spared
<1>13. ASSUME NEW r, Answer(s, r) PROVE Spared(k)
  BY <1>13, <1>ty DEF Answer, Goto, dbVars, providerVars, TypeOK, Spared
<1>14. CASE RecordOutcomes(s)
  BY <1>14, <1>ty DEF RecordOutcomes, AppendEvents, Goto, providerVars, TypeOK, Spared
<1>15. CASE CheckLease(s)
  BY <1>15, <1>ty DEF CheckLease, Goto, dbVars, providerVars, TypeOK, Spared
<1>16. CASE Finish(s)
  BY <1>16, <1>ty DEF Finish, RecordItems, Goto, providerVars, TypeOK, Spared
<1>17. CASE Complete(s)
  BY <1>17, <1>ty, ApplyAssumption DEF Complete, Released, Leave, providerVars, TypeOK, Spared
<1>18. CASE Abort(s)
  BY <1>18, <1>ty, ApplyAssumption DEF Abort, Released, Leave, providerVars, TypeOK, Spared
<1>19. CASE Crash(s) \/ ReconcileRefused(s) \/ ReconcileFenced(s)
  BY <1>19, <1>ty, ApplyAssumption
     DEF Crash, ReconcileRefused, ReconcileFenced, Leave, dbVars, providerVars, TypeOK, Spared
<1>20. CASE ClaimReconcile(s)
  BY <1>20, <1>ty DEF ClaimReconcile, ClaimLease, Goto, providerVars, TypeOK, Spared
<1>21. ASSUME NEW c \in Channel, NEW V \in SUBSET Listing, ReadBack(s, c, V) PROVE Spared(k)
  BY <1>21, <1>ty DEF ReadBack, Goto, dbVars, providerVars, TypeOK, Spared
<1>22. CASE RecordReadBack(s)
  BY <1>22, <1>ty DEF RecordReadBack, AppendEvents, Goto, providerVars, TypeOK, Spared
<1>23. CASE CheckReconcileLease(s)
  BY <1>23, <1>ty DEF CheckReconcileLease, Goto, dbVars, providerVars, TypeOK, Spared
<1>24. CASE FinishReconcile(s)
  BY <1>24, <1>ty, ApplyAssumption
     DEF FinishReconcile, RecordItems, Released, Leave, providerVars, TypeOK, Spared
<1>25. QED
  BY <1>3, <1>4, <1>5, <1>6, <1>7, <1>8, <1>9, <1>10, <1>11, <1>12, <1>13, <1>14, <1>15,
     <1>16, <1>17, <1>18, <1>19, <1>20, <1>21, <1>22, <1>23, <1>24
     DEF StepOf, ApplyStep, ReconcileStep, Fenced

\* What holds of such a job does not change while it is left alone.
LEMMA RacedFrame ==
    ASSUME NEW k \in Job, RacedOK(k), Spared(k) PROVE RacedOK(k)'
<1>1. \A s \in Session : task'[s] = k =>
         /\ task[s] = k /\ pc'[s] = pc[s] /\ result'[s] = result[s]
         /\ Owns(s)' <=> Owns(s)
         /\ \A l : l \in Sending(s)' <=> l \in Sending(s)
  BY DEF Spared, Owns, Sending
<1>2. \A l \in Listing : Live(k, l)' => Live(k, l)
  BY <1>1 DEF Live, Spared
<1>3. DispatchedEver(k)' /\ jobStatus'[k] \notin {"absent", "pending", "running"}
  BY DEF RacedOK, Spared, DispatchedEver
<1>4. \A l \in Scope[k] : item'[k][l] \in {"applied", "failed"} \cup UncertainItem
  BY DEF RacedOK, Spared
<1>5. \A l \in Listing :
         /\ Live(k, l)' => /\ l \in Scope[k] /\ item'[k][l] \in UncertainItem
                          /\ lock'[l] = k /\ jobStatus'[k] = "reconciliation_required"
         /\ <<k, l>> \in wire' => sent'[k][l] = 1
         /\ remote'[l] = k => <<k, l>> \notin wire' /\ sent'[k][l] = 1
  BY <1>2 DEF RacedOK, Spared, Unfinished
<1>6. \A s \in Session : task'[s] = k =>
         /\ pc'[s] \in ApplyPoints => pc'[s] \in {"limit", "send", "io", "settle"} /\ ~Owns(s)'
         /\ pc'[s] \in ReconcilePoints => \A l \in Listing :
               /\ result'[s][l] # "none" => l \in Scope[k] /\ result'[s][l] # "failed"
               /\ result'[s][l] = "verified_applied" => <<k, l>> \notin wire' /\ sent'[k][l] = 1
  BY <1>1 DEF RacedOK, Spared
<1>7. QED
  BY <1>3, <1>4, <1>5, <1>6 DEF RacedOK

\* It holds of any job as soon as a reconciliation has read it, whether or not another
\* one gets in the way later.
LEMMA RacedNow ==
    ASSUME LockInv, NEW s \in Session, pc[s] \in ReconcilePoints
    PROVE  RacedOK(task[s])
<1>ty. TypeInv /\ SentInv /\ TypeOK /\ OneExecutor /\ \A t \in Session : LoopOK(t)
  BY DEF LockInv, SentInv, TypeInv
<1>j. task[s] \in Job /\ pc[s] # "idle"
  BY <1>ty DEF LoopOK, ReconcilePoints
<1>1. CASE task[s] \in raced
  BY <1>1 DEF LockInv
<1>2. CASE task[s] \notin raced
  <2> DEFINE j == task[s]
  <2>1. EvidenceOK(j) /\ ItemsOK(j) /\ UncertainLocked(j) /\ WireOK(j)
    BY <1>2, <1>j DEF LockInv, JobInv
  <2>2. ReadBackOK(s)
    BY <1>2 DEF LockInv, SessionInv, Rest
  <2>3. DispatchedEver(j) /\ jobStatus[j] \notin {"absent", "pending", "running"}
    BY <2>2 DEF ReadBackOK
  <2>4. \A l \in Scope[j] : item[j][l] \in {"applied", "failed"} \cup UncertainItem
    BY <2>1, <2>2, <2>3, <1>j, <1>ty, ApplyAssumption
       DEF ReadBackOK, ItemsOK, TypeOK, ItemStatus, UncertainItem
  <2>5. \A t \in Session : task[t] = j =>
           SessionInv(t) /\ EarlyOK(t) /\ OwnerOK(t) /\ ResultsOK(t) /\ ReadBackOK(t)
    BY <1>2 DEF LockInv, SessionInv, Rest
  <2>6. ASSUME NEW l \in Listing, Live(j, l)
        PROVE  /\ l \in Scope[j] /\ item[j][l] \in UncertainItem
               /\ lock[l] = j /\ jobStatus[j] = "reconciliation_required"
    <3>1. latest[j][l] \in Uncertain
      BY <2>6, <2>1, <2>5 DEF Live, WireOK, ResultsOK
    <3>2. lock[l] = j /\ jobStatus[j] = "reconciliation_required"
      BY <3>1, <2>1, <2>3 DEF UncertainLocked, Unfinished
    <3>3. l \in Scope[j]
      BY <3>1, <2>1 DEF EvidenceOK, Uncertain
    <3>4. item[j][l] \in UncertainItem
      BY <3>1, <3>3, <2>1, <2>4 DEF ItemsOK, Uncertain
    <3>5. QED
      BY <3>2, <3>3, <3>4
  <2>7. ASSUME NEW t \in Session, task[t] = j, pc[t] \in ApplyPoints
        PROVE  pc[t] \in {"limit", "send", "io", "settle"} /\ ~Owns(t)
    <3>1. pc[t] \notin {"locking", "claim"}
      BY <2>3, <2>5, <2>7 DEF EarlyOK
    <3>2. ~Owns(t)
      BY <2>3, <2>5, <2>7, <3>1 DEF OwnerOK
    <3>3. pc[t] \notin UncheckedPoints
      BY <1>2, <2>5, <2>7, <3>1, <3>2 DEF SessionInv, TokenOK, ApplyPoints
    <3>4. pc[t] \notin EarlyPoints
      <4>1. s # t
        BY <2>7 DEF ApplyPoints, ReconcilePoints
      <4>2. QED
        BY <1>j, <1>ty, <2>7, <3>1, <4>1, <2>1, <2>3, <2>5, ApplyAssumption
           DEF EarlyPoints, EarlyOK, ReadBackOK, DispatchedEver, EvidenceOK
    <3>5. QED
      BY <2>7, <3>2, <3>3, <3>4 DEF ApplyPoints, UncheckedPoints, EarlyPoints
  <2>8. ASSUME NEW t \in Session, task[t] = j, pc[t] \in ReconcilePoints, NEW l \in Listing
        PROVE  /\ result[t][l] # "none" => l \in Scope[j] /\ result[t][l] # "failed"
               /\ result[t][l] = "verified_applied" => <<j, l>> \notin wire /\ sent[j][l] = 1
    BY <2>5, <2>8 DEF ResultsOK, ReadBackOK
  <2>9. \A l \in Listing : /\ <<j, l>> \in wire => sent[j][l] = 1
                           /\ remote[l] = j => <<j, l>> \notin wire /\ sent[j][l] = 1
    BY <2>1 DEF WireOK
  <2> HIDE DEF j
  <2>10. RacedOK(j)
    BY <2>3, <2>4, <2>6, <2>7, <2>8, <2>9 DEF RacedOK
  <2>11. QED
    BY <2>10 DEF j
<1>3. QED
  BY <1>1, <1>2

\* What can still be done to such a job.
RacedAct(s) == Send(s) \/ Abort(s) \/ Crash(s) \/ ReconcileStep(s)

\* The session that executed it has no way to commit an outcome any more.
LEMMA RacedActs ==
    ASSUME TypeInv, NEW s \in Session, StepOf(s), RacedOK(task[s]) PROVE RacedAct(s)
<1>1. pc[s] \in ApplyPoints => pc[s] \in {"limit", "send", "io", "settle"} /\ ~Owns(s)
  BY DEF RacedOK
<1>2. ~AcquireLocks(s) /\ ~LocksRefused(s) /\ ~Claim(s) /\ ~GoStale(s) /\ ~Verified(s)
  BY <1>1 DEF AcquireLocks, LocksRefused, Claim, GoStale, Verified, At, ApplyPoints
<1>3. ~PersistAttempts(s) /\ ~RecordOutcomes(s) /\ ~CheckLease(s) /\ ~Finish(s) /\ ~Complete(s)
  BY <1>1 DEF PersistAttempts, RecordOutcomes, CheckLease, Finish, Complete, At, ApplyPoints
<1>4. \A c \in Channel : ~Admit(s, c) /\ ~LimiterFails(s, c)
  BY <1>1 DEF Admit, LimiterFails, At, ApplyPoints
<1>5. (\A D \in SUBSET Listing : ~Dispatch(s, D))
      /\ \A r \in [Listing -> Result \cup {"none"}] : ~Answer(s, r)
  BY <1>1 DEF Dispatch, Answer, At, ApplyPoints
<1>6. QED
  BY <1>2, <1>3, <1>4, <1>5 DEF StepOf, ApplyStep, Fenced, RacedAct

\* Whoever is at work on such a job, or makes it one of them, can do no more to it.
LEMMA RacedOnly ==
    ASSUME LockInv, NEW s \in Session, StepOf(s), task[s] \in raced'
    PROVE  RacedOK(task[s]) /\ RacedAct(s)
<1>1. RacedOK(task[s])
  <2>1. CASE task[s] \in raced
    BY <2>1 DEF LockInv
  <2>2. CASE task[s] \notin raced
    <3>1. pc[s] = "r_claim"
      BY <2>2
         DEF StepOf, ApplyStep, ReconcileStep, AcquireLocks, LocksRefused, Claim, GoStale,
             Verified, PersistAttempts, Admit, LimiterFails, Dispatch, Send, Answer,
             RecordOutcomes, CheckLease, Finish, Complete, Fenced, Abort, Crash,
             ClaimReconcile, ReconcileRefused, ReadBack, RecordReadBack,
             CheckReconcileLease, FinishReconcile, ReconcileFenced, At
    <3>2. QED
      BY <3>1, RacedNow DEF ReconcilePoints
  <2>3. QED
    BY <2>1, <2>2
<1>2. RacedAct(s)
  BY <1>1, RacedActs DEF LockInv, SentInv
<1>3. QED
  BY <1>1, <1>2

\* The session does not move.
Stays(t) ==
    /\ pc'[t] = pc[t] /\ task'[t] = task[t] /\ token'[t] = token[t]
    /\ todo'[t] = todo[t] /\ batch'[t] = batch[t] /\ result'[t] = result[t]

\* How a session at work on j may move on: it goes on under the lease it has, leaves, or
\* has claimed a new one.
Moved(t, j) ==
    \/ Stays(t)
    \/ pc'[t] = "idle" /\ task'[t] = NoJob /\ result'[t] = NoResult
    \/ /\ task'[t] = j
       /\ Claimed(t)' => \/ Claimed(t) /\ task[t] = j /\ token'[t] = token[t]
                         \/ fence'[j] > fence[j] /\ token'[t] = fence'[j]

\* Whatever happens to such a job, all the others and the sessions at work on them are
\* as they should be, and its own leases stay apart.
LEMMA RacedConc ==
    ASSUME LockInv, NEW j \in Job, j \in raced', raced \subseteq raced',
           fence'[j] >= fence[j], fence' \in [Job -> Nat],
           \A k \in Job \ {j} : Spared(k),
           NEW s \in Session, Moved(s, j), \A t \in Session \ {s} : Stays(t)
    PROVE  LockConc'
<1>ty. TypeOK /\ \A t \in Session : LoopOK(t)
  BY DEF LockInv, SentInv, TypeInv
<1>1. ASSUME NEW k \in Job PROVE JobInv(k)'
  <2>1. CASE k = j
    BY <2>1 DEF JobInv
  <2>2. CASE k # j
    BY <2>2, JobFrame DEF LockInv, Spared
  <2>3. QED
    BY <2>1, <2>2
<1>2. ASSUME NEW t \in Session PROVE Rest(t)'
  <2>1. CASE task'[t] = j
    BY <2>1 DEF Rest
  <2>2. CASE pc'[t] = "idle" /\ task'[t] = NoJob /\ result'[t] = NoResult
    BY <2>2 DEF Rest, EarlyOK, OwnerOK, ResultsOK, ReadBackOK, NoResult, EarlyPoints,
                ApplyPoints, LoopPoints, ReconcilePoints
  <2>3. CASE task'[t] # j /\ ~(pc'[t] = "idle" /\ task'[t] = NoJob /\ result'[t] = NoResult)
    <3>1. /\ pc'[t] = pc[t] /\ task'[t] = task[t] /\ token'[t] = token[t]
          /\ todo'[t] = todo[t] /\ batch'[t] = batch[t] /\ result'[t] = result[t]
      BY <2>3 DEF Moved, Stays
    <3>2. pc[t] # "idle" => task[t] \in Job \ {j} /\ Spared(task[t])
      BY <2>3, <3>1, <1>ty DEF LoopOK
    <3>3. Rest(t) /\ LoopOK(t)
      BY <1>ty DEF LockInv, SessionInv
    <3>4. QED
      BY <3>1, <3>2, <3>3, ApplyAssumption, SessionFrame DEF Spared
  <2>4. QED
    BY <2>1, <2>2, <2>3
<1>3. ASSUME NEW t \in Session PROVE TokenOK(t)'
  <2>tk. \A u \in Session : TokenOK(u)
    BY DEF LockInv, SessionInv
  <2>nat. fence[j] \in Nat /\ fence'[j] \in Nat /\ \A u \in Session : token[u] \in Nat
    BY <1>ty DEF TypeOK
  <2>1. ASSUME NEW u \in Session, Claimed(u)'
        PROVE  \/ /\ Claimed(u) /\ task'[u] = task[u] /\ token'[u] = token[u]
                  /\ fence'[task[u]] >= fence[task[u]] /\ fence[task[u]] \in Nat
                  /\ fence'[task[u]] \in Nat
               \/ u = s /\ task'[u] = j /\ fence'[j] > fence[j] /\ token'[u] = fence'[j]
    <3>1. CASE /\ pc'[u] = pc[u] /\ task'[u] = task[u] /\ token'[u] = token[u]
      <4>1. Claimed(u) /\ task[u] \in Job
        BY <2>1, <3>1, <1>ty DEF Claimed, LoopOK, Points, ApplyPoints, ReconcilePoints
      <4>2. task[u] # j => fence'[task[u]] = fence[task[u]]
        BY <4>1 DEF Spared
      <4>3. QED
        BY <3>1, <4>1, <4>2, <1>ty DEF TypeOK
    <3>2. CASE pc'[u] = "idle"
      BY <2>1, <3>2 DEF Claimed, Points, ApplyPoints, ReconcilePoints
    <3>3. CASE task'[u] = j /\ Claimed(u) /\ task[u] = j /\ token'[u] = token[u]
      BY <3>3, <2>nat
    <3>4. QED
      BY <2>1, <3>1, <3>2, <3>3 DEF Moved, Stays
  <2>2. Claimed(t)' => token'[t] <= fence'[task'[t]]
    BY <2>1, <2>nat, <2>tk DEF TokenOK
  <2>3. ASSUME NEW u \in Session, NEW v \in Session, Claimed(u)', Claimed(v)',
               task'[u] = task'[v], token'[u] = token'[v], v # s
        PROVE  u = v
    <3>1. Claimed(v) /\ task'[v] = task[v] /\ token'[v] = token[v]
      BY <2>1, <2>3
    <3>2. token[v] <= fence[task[v]]
      BY <3>1, <2>tk DEF TokenOK
    <3>3. CASE Claimed(u) /\ task'[u] = task[u] /\ token'[u] = token[u]
      BY <2>3, <3>1, <3>3, <2>tk DEF TokenOK
    <3>4. CASE task'[u] = j /\ fence'[j] > fence[j] /\ token'[u] = fence'[j]
      <4>1. task[v] = j /\ token[v] = fence'[j]
        BY <2>3, <3>1, <3>4
      <4>2. QED
        BY <3>2, <3>4, <4>1, <2>nat
    <3>5. QED
      BY <2>1, <2>3, <3>3, <3>4
  <2>4. ASSUME task'[t] \notin raced', pc'[t] \in UncheckedPoints \ {"locking", "claim", "r_claim"}
        PROVE  Owns(t)'
    <3>1. Claimed(t)' /\ task'[t] # j
      BY <2>4 DEF Claimed, UncheckedPoints, Points, ApplyPoints, ReconcilePoints
    <3>2. pc'[t] = pc[t] /\ task'[t] = task[t] /\ token'[t] = token[t]
      BY <2>4, <3>1 DEF Moved, Stays, UncheckedPoints
    <3>3. task[t] \in Job \ {j} /\ Owns(t)
      BY <2>4, <2>tk, <3>1, <3>2, <1>ty DEF TokenOK, LoopOK, UncheckedPoints
    <3>4. QED
      BY <3>2, <3>3 DEF Owns, Spared
  <2>5. QED
    BY ONLY <2>2, <2>3, <2>4 DEF TokenOK, Claimed
<1>4. QED
  BY <1>1, <1>2, <1>3 DEF LockConc, SessionInv

\* The request at work on such a job moves alone.
LEMMA RacedMoves ==
    ASSUME TypeInv, NEW s \in Session, NEW j \in Job,
           (RacedAct(s) /\ j = task[s]) \/ StartReconcile(s, j)
    PROVE  /\ Moved(s, j) /\ \A t \in Session \ {s} : Stays(t)
           /\ fence'[j] >= fence[j] /\ fence' \in [Job -> Nat]
           /\ raced \subseteq raced'
<1>ty. TypeOK
  BY DEF TypeInv
<1>1. CASE Send(s) /\ j = task[s]
  BY <1>1, <1>ty
     DEF Send, At, Goto, dbVars, TypeOK, Moved, Stays, Claimed, Points, ApplyPoints
<1>2. CASE Abort(s) \/ Crash(s) \/ ReconcileRefused(s) \/ ReconcileFenced(s)
  BY <1>2, <1>ty
     DEF Abort, Crash, ReconcileRefused, ReconcileFenced, Leave, dbVars, TypeOK, Moved, Stays
<1>3. CASE FinishReconcile(s)
  BY <1>3, <1>ty DEF FinishReconcile, Leave, TypeOK, Moved, Stays
<1>4. CASE ClaimReconcile(s) /\ j = task[s]
  BY <1>4, <1>ty DEF ClaimReconcile, ClaimLease, Goto, TypeOK, Moved, Stays
<1>5. ASSUME NEW c \in Channel, NEW V \in SUBSET Listing, ReadBack(s, c, V), j = task[s]
      PROVE  /\ Moved(s, j) /\ \A t \in Session \ {s} : Stays(t)
             /\ fence'[j] >= fence[j] /\ fence' \in [Job -> Nat]
             /\ raced \subseteq raced'
  BY <1>5, <1>ty
     DEF ReadBack, At, Goto, dbVars, TypeOK, Moved, Stays, Claimed, Points, ReconcilePoints
<1>6. CASE (RecordReadBack(s) \/ CheckReconcileLease(s)) /\ j = task[s]
  BY <1>6, <1>ty
     DEF RecordReadBack, CheckReconcileLease, At, Goto, dbVars, TypeOK, Moved, Stays, Claimed,
         Points, ReconcilePoints
<1>7. CASE StartReconcile(s, j)
  BY <1>7, <1>ty
     DEF StartReconcile, At, Goto, dbVars, TypeOK, Moved, Stays, Claimed, Points, ApplyPoints,
         ReconcilePoints
<1>8. QED
  BY <1>1, <1>2, <1>3, <1>4, <1>5, <1>6, <1>7 DEF RacedAct, ReconcileStep

\* A request that moves alone, takes no lock and no uncertain item of a live write away
\* and sends nothing twice keeps what holds of such a job.
LEMMA RacedGoes ==
    ASSUME NEW s \in Session, NEW j \in Job, RacedOK(j),
           \A t \in Session \ {s} : Stays(t),
           DispatchedEver(j)', jobStatus'[j] \notin {"absent", "pending", "running"},
           \A l \in Scope[j] : item'[j][l] \in {"applied", "failed"} \cup UncertainItem,
           \A t \in Session \ {s} : task[t] = j /\ pc[t] \in ApplyPoints => ~Owns(t)',
           \A l \in Listing : Live(j, l) =>
              /\ item'[j][l] \in UncertainItem /\ lock'[l] = j
              /\ jobStatus'[j] = "reconciliation_required",
           \A l \in Listing : <<j, l>> \in wire' => Live(j, l) /\ sent'[j][l] = 1,
           \A l \in Listing : <<j, l>> \notin wire /\ sent[j][l] = 1 =>
              <<j, l>> \notin wire' /\ sent'[j][l] = 1,
           remote' = remote, pc'[s] # "send",
           task'[s] = j =>
              /\ pc'[s] \in ApplyPoints => pc'[s] \in {"limit", "send", "io", "settle"} /\ ~Owns(s)'
              /\ pc'[s] \in ReconcilePoints => \A l \in Listing :
                    /\ result'[s][l] # "none" => l \in Scope[j] /\ result'[s][l] # "failed"
                    /\ result'[s][l] = "verified_applied" =>
                          <<j, l>> \notin wire' /\ sent'[j][l] = 1
    PROVE  RacedOK(j)'
<1>1. \A l \in Listing : Live(j, l)' => Live(j, l)
  <2> SUFFICES ASSUME NEW l \in Listing, Live(j, l)' PROVE Live(j, l)
    OBVIOUS
  <2>1. CASE <<j, l>> \in wire'
    BY <2>1
  <2>2. ASSUME NEW t \in Session, pc'[t] = "send", task'[t] = j, l \in Sending(t)'
        PROVE  Live(j, l)
    <3>1. Stays(t)
      BY <2>2
    <3>2. QED
      BY <2>2, <3>1 DEF Stays, Sending, Live
  <2>3. QED
    BY <2>1, <2>2 DEF Live
<1>2. \A l \in Listing :
         /\ Live(j, l)' => /\ l \in Scope[j] /\ item'[j][l] \in UncertainItem
                          /\ lock'[l] = j /\ jobStatus'[j] = "reconciliation_required"
         /\ <<j, l>> \in wire' => sent'[j][l] = 1
         /\ remote'[l] = j => <<j, l>> \notin wire' /\ sent'[j][l] = 1
  BY <1>1 DEF RacedOK
<1>3. ASSUME NEW t \in Session, task'[t] = j
      PROVE  /\ pc'[t] \in ApplyPoints => pc'[t] \in {"limit", "send", "io", "settle"} /\ ~Owns(t)'
             /\ pc'[t] \in ReconcilePoints => \A l \in Listing :
                   /\ result'[t][l] # "none" => l \in Scope[j] /\ result'[t][l] # "failed"
                   /\ result'[t][l] = "verified_applied" =>
                         <<j, l>> \notin wire' /\ sent'[j][l] = 1
  <2>1. CASE t = s
    BY <1>3, <2>1
  <2>2. CASE t # s
    BY <1>3, <2>2 DEF Stays, RacedOK
  <2>3. QED
    BY <2>1, <2>2
<1>4. QED
  BY ONLY <1>2, <1>3, DispatchedEver(j)', jobStatus'[j] \notin {"absent", "pending", "running"},
     \A l \in Scope[j] : item'[j][l] \in {"applied", "failed"} \cup UncertainItem
     DEF RacedOK

\* Whatever is still done to such a job, its executor stays fenced and its live writes
\* stay locked.
LEMMA RacedKeeps ==
    ASSUME LockInv, NEW s \in Session, NEW j \in Job, j = task[s], RacedOK(j), RacedAct(s)
    PROVE  RacedOK(j)'
<1>ty. TypeInv /\ TypeOK /\ LoopOK(s) /\ SentInv
  BY DEF LockInv, SentInv, TypeInv
<1>moves. /\ Moved(s, j) /\ \A t \in Session \ {s} : Stays(t)
          /\ fence'[j] >= fence[j] /\ fence' \in [Job -> Nat]
  BY <1>ty, RacedMoves
<1>unsent. \A t \in Session, l \in Listing :
              pc[t] = "send" /\ task[t] = j /\ l \in Sending(t) => sent[j][l] = 0
  BY <1>ty DEF SentInv, NotSentYet, Sending
<1>live. \A l \in Listing : Live(j, l) =>
            /\ l \in Scope[j] /\ item[j][l] \in UncertainItem
            /\ lock[l] = j /\ jobStatus[j] = "reconciliation_required"
  BY DEF RacedOK
<1>ev. DispatchedEver(j) /\ jobStatus[j] \notin {"absent", "pending", "running"}
  BY DEF RacedOK
<1>it. \A l \in Scope[j] : item[j][l] \in {"applied", "failed"} \cup UncertainItem
  BY DEF RacedOK
<1>wi. \A l \in Listing : /\ <<j, l>> \in wire => Live(j, l) /\ sent[j][l] = 1
                          /\ remote[l] = j => <<j, l>> \notin wire /\ sent[j][l] = 1
  BY DEF RacedOK, Live
<1>own. ASSUME fence'[j] = fence[j], held'[j] = held[j]
        PROVE  \A t \in Session \ {s} : task[t] = j /\ pc[t] \in ApplyPoints => ~Owns(t)'
  BY <1>own, <1>moves DEF Stays, Owns, RacedOK
<1>re. pc[s] \in ReconcilePoints => \A l \in Listing :
          /\ result[s][l] # "none" => l \in Scope[j] /\ result[s][l] # "failed"
          /\ result[s][l] = "verified_applied" => <<j, l>> \notin wire /\ sent[j][l] = 1
  BY DEF RacedOK
<1>away. task'[s] = NoJob => task'[s] # j
  BY ApplyAssumption
<1>1. CASE Send(s)
  <2>1. \A l \in Listing : /\ l \in Sending(s) => sent[j][l] = 0 /\ sent'[j][l] = 1 /\ Live(j, l)
                           /\ l \notin Sending(s) => sent'[j][l] = sent[j][l]
                           /\ <<j, l>> \in wire' <=> <<j, l>> \in wire \/ l \in Sending(s)
    BY <1>1, <1>unsent, <1>ty DEF Send, At, TypeOK, Live
  <2>2. DispatchedEver(j)' /\ pc'[s] = "io" /\ ~Owns(s)'
    BY <1>1, <1>ev, <1>ty
       DEF Send, At, Goto, dbVars, DispatchedEver, TypeOK, RacedOK, Owns, ApplyPoints
  <2>3. /\ remote' = remote /\ jobStatus' = jobStatus /\ item' = item /\ lock' = lock
        /\ fence' = fence /\ held' = held
    BY <1>1 DEF Send, dbVars
  <2>4. \A l \in Listing : <<j, l>> \in wire' => Live(j, l) /\ sent'[j][l] = 1
    <3> SUFFICES ASSUME NEW l \in Listing, <<j, l>> \in wire' PROVE Live(j, l) /\ sent'[j][l] = 1
      OBVIOUS
    <3>1. CASE l \in Sending(s)
      BY <2>1, <3>1
    <3>2. CASE l \notin Sending(s)
      BY <2>1, <1>wi, <3>2
    <3>3. QED
      BY <3>1, <3>2
  <2>5. \A l \in Listing : <<j, l>> \notin wire /\ sent[j][l] = 1 =>
           <<j, l>> \notin wire' /\ sent'[j][l] = 1
    BY <2>1
  <2>6. \A t \in Session \ {s} : task[t] = j /\ pc[t] \in ApplyPoints => ~Owns(t)'
    BY <1>own, <2>3
  <2>7. "io" \notin ReconcilePoints
    BY DEF ReconcilePoints
  <2>8. QED
    BY <1>moves, <1>ev, <1>it, <1>live, <2>2, <2>3, <2>4, <2>5, <2>6, <2>7, RacedGoes
<1>2. CASE Abort(s)
  <2>1. /\ DispatchedEver(j)' /\ jobStatus'[j] = "reconciliation_required" /\ lock' = lock
        /\ item' = item /\ fence' = fence /\ held' = held
        /\ remote' = remote /\ wire' = wire /\ sent' = sent
        /\ pc'[s] = "idle" /\ task'[s] = NoJob
    BY <1>2, <1>ev, <1>ty DEF Abort, Leave, DispatchedEver, TypeOK, providerVars
  <2>2. QED
    BY <1>moves, <1>it, <1>live, <1>wi, <1>own, <1>away, <2>1, RacedGoes
<1>3. CASE Crash(s) \/ ReconcileRefused(s) \/ ReconcileFenced(s)
  <2>1. /\ DispatchedEver(j)' /\ jobStatus' = jobStatus /\ lock' = lock
        /\ item' = item /\ fence' = fence /\ held' = held
        /\ remote' = remote /\ wire' = wire /\ sent' = sent
        /\ pc'[s] = "idle" /\ task'[s] = NoJob
    BY <1>3, <1>ev, <1>ty
       DEF Crash, ReconcileRefused, ReconcileFenced, Leave, DispatchedEver, TypeOK, dbVars,
           providerVars
  <2>2. QED
    BY <1>moves, <1>ev, <1>it, <1>live, <1>wi, <1>own, <1>away, <2>1, RacedGoes
<1>4. CASE ClaimReconcile(s)
  <2>1. /\ DispatchedEver(j)' /\ jobStatus' = jobStatus /\ lock' = lock
        /\ fence'[j] = fence[j] + 1 /\ held'[j]
        /\ remote' = remote /\ wire' = wire /\ sent' = sent
        /\ pc'[s] = "r_verify" /\ result' = result
    BY <1>4, <1>ev, <1>ty
       DEF ClaimReconcile, ClaimLease, Goto, DispatchedEver, TypeOK, providerVars
  <2>2. \A l \in Listing : item'[j][l] \in {item[j][l], "recovering"}
    BY <1>4, <1>ty DEF ClaimReconcile, TypeOK
  <2>3. ASSUME NEW t \in Session \ {s}, task[t] = j, pc[t] \in ApplyPoints PROVE ~Owns(t)'
    <3>1. pc[t] \in {"limit", "send", "io", "settle"}
      BY <2>3 DEF RacedOK
    <3>2. Claimed(t)
      BY <3>1 DEF Claimed, Points, ApplyPoints
    <3>3. token[t] <= fence[j] /\ token'[t] = token[t] /\ task'[t] = j
      BY <1>moves, <2>3, <3>2 DEF LockInv, SessionInv, TokenOK, Stays
    <3>4. QED
      BY <2>1, <3>3, <1>ty DEF Owns, TypeOK
  <2>4. pc[s] \in ReconcilePoints /\ "r_verify" \notin ApplyPoints
    BY <1>4 DEF ClaimReconcile, At, ReconcilePoints, ApplyPoints
  <2>6. \A l \in Scope[j] : item'[j][l] \in {"applied", "failed"} \cup UncertainItem
    <3>1. Scope[j] \subseteq Listing
      BY ApplyAssumption
    <3>2. QED
      BY <1>it, <2>2, <3>1 DEF UncertainItem
  <2>7. \A l \in Listing : Live(j, l) => item'[j][l] \in UncertainItem
    BY <1>live, <2>2 DEF UncertainItem
  <2>8. QED
    BY <1>moves, <1>ev, <1>live, <1>wi, <1>re, <2>1, <2>3, <2>4, <2>6, <2>7, RacedGoes
<1>5. ASSUME NEW c \in Channel, NEW V \in SUBSET Listing, ReadBack(s, c, V) PROVE RacedOK(j)'
  <2>1. /\ DispatchedEver(j)' /\ jobStatus' = jobStatus /\ lock' = lock
        /\ item' = item /\ fence' = fence /\ held' = held
        /\ remote' = remote /\ wire' = wire /\ sent' = sent
        /\ pc'[s] = "r_record"
    BY <1>5, <1>ev, <1>ty DEF ReadBack, Goto, DispatchedEver, TypeOK, dbVars, providerVars
  <2>2. pc[s] \in ReconcilePoints /\ "r_record" \notin ApplyPoints
    BY <1>5 DEF ReadBack, At, ReconcilePoints, ApplyPoints
  <2>3. \A l \in Listing :
           /\ l \in V => /\ l \in Scope[j] /\ remote[l] = j /\ result'[s][l] = "verified_applied"
           /\ l \notin V => result'[s][l] = result[s][l]
    BY <1>5, <1>re, <2>2, <1>ty DEF ReadBack, OfChannel, TypeOK
  <2>4. ASSUME NEW l \in Listing
        PROVE  /\ result'[s][l] # "none" => l \in Scope[j] /\ result'[s][l] # "failed"
               /\ result'[s][l] = "verified_applied" => <<j, l>> \notin wire' /\ sent'[j][l] = 1
    BY <1>re, <1>wi, <2>1, <2>2, <2>3
  <2>5. QED
    BY <1>moves, <1>ev, <1>it, <1>live, <1>wi, <1>own, <2>1, <2>2, <2>4, RacedGoes
<1>6. CASE RecordReadBack(s) \/ CheckReconcileLease(s)
  <2>1. /\ jobStatus' = jobStatus /\ lock' = lock
        /\ item' = item /\ fence' = fence /\ held' = held
        /\ remote' = remote /\ wire' = wire /\ sent' = sent
        /\ pc'[s] \in {"r_verify", "r_settle", "r_finish"} /\ result' = result
    BY <1>6, <1>ty
       DEF RecordReadBack, CheckReconcileLease, AfterReadBack, Goto, TypeOK, dbVars,
           providerVars
  <2>2. \A l \in Listing : events[j][l] \subseteq events'[j][l]
    <3>1. CASE RecordReadBack(s)
      BY <3>1, <1>ty, AppendFacts DEF RecordReadBack
    <3>2. CASE CheckReconcileLease(s)
      BY <3>2 DEF CheckReconcileLease, dbVars
    <3>3. QED
      BY <1>6, <3>1, <3>2
  <2>3. DispatchedEver(j)'
    BY <1>ev, <2>2 DEF DispatchedEver
  <2>4. pc[s] \in ReconcilePoints /\ pc'[s] \notin ApplyPoints /\ pc'[s] # "send"
    BY <1>6, <2>1 DEF RecordReadBack, CheckReconcileLease, At, ReconcilePoints, ApplyPoints
  <2>5. QED
    BY <1>moves, <1>ev, <1>it, <1>live, <1>wi, <1>own, <1>re, <2>1, <2>3, <2>4, RacedGoes
<1>7. CASE FinishReconcile(s)
  <2> DEFINE states == {item'[j][l] : l \in Scope[j]}
  <2>0. pc[s] = "r_finish" /\ pc[s] \in ReconcilePoints /\ Scope[j] \subseteq Listing
    BY <1>7, ApplyAssumption DEF FinishReconcile, At, ReconcilePoints
  <2>1. /\ events' = events /\ fence' = fence /\ held' = held
        /\ remote' = remote /\ wire' = wire /\ sent' = sent
        /\ pc'[s] = "idle" /\ task'[s] = NoJob
    BY <1>7, <1>ty DEF FinishReconcile, Leave, TypeOK, providerVars
  <2>2. \A l \in Listing : item'[j][l] =
           IF l \in Scope[j] /\ result[s][l] # "none" THEN ItemAfter(result[s][l]) ELSE item[j][l]
    BY <1>7, <1>ty DEF FinishReconcile, RecordItems, TypeOK
  <2>3. \A l \in Listing : result[s][l] \in {"none", "verified_applied", "reconciliation_required"}
    <3>1. \A l \in Listing : result[s][l] \in Result \cup {"none"}
      BY <1>ty DEF TypeOK
    <3>2. \A l \in Listing : result[s][l] = "failed" => FALSE
      BY <1>re, <2>0
    <3>3. QED
      BY <3>1, <3>2 DEF Result
  <2>4. \A l \in Scope[j] : item'[j][l] \in {"applied", "failed"} \cup UncertainItem
    BY <1>it, <2>0, <2>2, <2>3 DEF ItemAfter, UncertainItem
  <2>5. ASSUME NEW l \in Listing, Live(j, l) PROVE item'[j][l] \in UncertainItem
    <3>1. result[s][l] # "verified_applied"
      BY <2>5, <1>re, <1>unsent, <2>0 DEF Live
    <3>2. QED
      BY <2>2, <2>3, <2>5, <3>1, <1>live DEF ItemAfter, UncertainItem
  <2>6. /\ jobStatus'[j] = IF StatusFromItems(states) = loaded[s] THEN jobStatus[j]
                           ELSE StatusFromItems(states)
        /\ lock' = IF StatusFromItems(states) = "applied" THEN Released(j) ELSE lock
    BY <1>7, <1>ty DEF FinishReconcile, TypeOK
  <2>7. jobStatus'[j] \notin {"absent", "pending", "running"}
    BY <1>ev, <2>6 DEF StatusFromItems
  <2>8. ASSUME NEW l \in Listing, Live(j, l)
        PROVE  lock'[l] = j /\ jobStatus'[j] = "reconciliation_required"
    <3>1. item'[j][l] \in states \cap UncertainItem
      BY <2>5, <2>8, <1>live
    <3>2. states # {"applied"}
      BY <3>1 DEF UncertainItem
    <3>3. StatusFromItems(states) = "reconciliation_required"
      BY <3>1, <3>2 DEF StatusFromItems
    <3>4. QED
      BY <2>6, <2>8, <3>3, <1>live
  <2>9. DispatchedEver(j)'
    BY <1>ev, <2>1 DEF DispatchedEver
  <2> HIDE DEF states
  <2>10. QED
    BY <1>moves, <1>wi, <1>own, <1>away, <2>1, <2>4, <2>5, <2>7, <2>8, <2>9, RacedGoes
<1>8. QED
  BY <1>1, <1>2, <1>3, <1>4, <1>5, <1>6, <1>7 DEF RacedAct, ReconcileStep

\* A reconciliation that starts on such a job adds nothing to it.
LEMMA RacedStarts ==
    ASSUME LockInv, NEW s \in Session, NEW j \in Job, RacedOK(j), StartReconcile(s, j)
    PROVE  RacedOK(j)'
<1>ty. TypeInv /\ TypeOK
  BY DEF LockInv, SentInv, TypeInv
<1>1. \A t \in Session \ {s} : Stays(t)
  BY <1>ty, RacedMoves
<1>2. /\ DispatchedEver(j)' /\ jobStatus' = jobStatus /\ lock' = lock /\ item' = item
      /\ fence' = fence /\ held' = held /\ remote' = remote /\ wire' = wire /\ sent' = sent
      /\ pc'[s] = "r_claim"
  BY <1>ty DEF StartReconcile, Goto, dbVars, providerVars, DispatchedEver, RacedOK, TypeOK
<1>3. \A l \in Listing : result'[s][l] =
         IF l \in UncertainListings(j) THEN "reconciliation_required" ELSE "none"
  BY <1>ty DEF StartReconcile, TypeOK
<1>4. \A t \in Session \ {s} : task[t] = j /\ pc[t] \in ApplyPoints => ~Owns(t)'
  BY <1>1, <1>2 DEF Stays, Owns, RacedOK
<1>5. \A l \in Listing : /\ <<j, l>> \in wire => Live(j, l) /\ sent[j][l] = 1
                         /\ Live(j, l) => /\ item[j][l] \in UncertainItem /\ lock[l] = j
                                          /\ jobStatus[j] = "reconciliation_required"
  BY DEF RacedOK, Live
<1>6. jobStatus[j] \notin {"absent", "pending", "running"}
      /\ \A l \in Scope[j] : item[j][l] \in {"applied", "failed"} \cup UncertainItem
  BY DEF RacedOK
<1>7. pc'[s] \notin ApplyPoints /\ pc'[s] # "send"
  BY <1>2 DEF ApplyPoints
<1>8. \A l \in Listing : result'[s][l] # "none" =>
         l \in Scope[j] /\ result'[s][l] # "failed" /\ result'[s][l] # "verified_applied"
  BY <1>3 DEF UncertainListings
<1>9. QED
  BY <1>1, <1>2, <1>4, <1>5, <1>6, <1>7, <1>8, RacedGoes

\* Whatever else is done to a job leaves every other job alone.
LEMMA ElsewhereJob ==
    ASSUME TypeInv, NEW j \in Job,
           \/ \E s \in Session : Request(s, j) \/ StartReconcile(s, j)
           \/ Recover(j)
           \/ \E l \in Listing : Land(j, l) \/ Drop(j, l)
    PROVE  \A k \in Job \ {j} : Spared(k)
<1>ty. TypeOK /\ \A s \in Session : LoopOK(s)
  BY DEF TypeInv
<1> SUFFICES ASSUME NEW k \in Job, k # j PROVE Spared(k)
  OBVIOUS
<1>1. ASSUME NEW s \in Session, Request(s, j) PROVE Spared(k)
  BY <1>1, <1>ty, ApplyAssumption
     DEF Request, At, Goto, providerVars, TypeOK, LoopOK, Spared
<1>2. ASSUME NEW s \in Session, StartReconcile(s, j) PROVE Spared(k)
  BY <1>2, <1>ty, ApplyAssumption
     DEF StartReconcile, At, Goto, dbVars, providerVars, TypeOK, LoopOK, Spared
<1>3. CASE RecoverWithoutAttempt(j)
  BY <1>3, <1>ty, ApplyAssumption
     DEF RecoverWithoutAttempt, ClaimLease, Released, providerVars, sessionVars, TypeOK, Spared
<1>4. CASE RecoverFromAttempts(j)
  BY <1>4, <1>ty, ApplyAssumption
     DEF RecoverFromAttempts, Released, providerVars, sessionVars, TypeOK, Spared
<1>5. ASSUME NEW l \in Listing, Land(j, l) PROVE Spared(k)
  BY <1>5, <1>ty DEF Land, dbVars, sessionVars, TypeOK, Spared
<1>6. ASSUME NEW l \in Listing, Drop(j, l) PROVE Spared(k)
  BY <1>6, <1>ty DEF Drop, dbVars, sessionVars, TypeOK, Spared
<1>7. QED
  BY <1>1, <1>2, <1>3, <1>4, <1>5, <1>6 DEF Recover

\* Every step keeps what holds of such jobs, the one that makes a job one of them
\* included.
LEMMA RacedStep ==
    ASSUME LockInv, [Next]_vars, NEW k \in Job, k \in raced' PROVE RacedOK(k)'
<1>ty. TypeInv /\ TypeOK /\ \A s \in Session : LoopOK(s)
  BY DEF LockInv, SentInv, TypeInv
<1>was. k \in raced => RacedOK(k)
  BY DEF LockInv
<1>1. ASSUME NEW s \in Session, StepOf(s) PROVE RacedOK(k)'
  <2>1. task[s] \in Job /\ \A i \in Job \ {task[s]} : Spared(i)
    BY <1>1, <1>ty, Elsewhere
  <2>2. CASE k # task[s]
    <3>1. Spared(k) /\ k \in raced
      BY <2>1, <2>2 DEF Spared
    <3>2. QED
      BY <1>was, <3>1, RacedFrame
  <2>3. CASE k = task[s]
    <3>1. RacedOK(task[s]) /\ RacedAct(s)
      BY <1>1, <2>3, RacedOnly
    <3>2. QED
      BY <2>3, <3>1, RacedKeeps
  <2>4. QED
    BY <2>2, <2>3
<1>2. ASSUME NEW j \in Job, k # j,
             \/ \E s \in Session : Request(s, j) \/ StartReconcile(s, j)
             \/ Recover(j)
             \/ \E l \in Listing : Land(j, l) \/ Drop(j, l)
      PROVE  RacedOK(k)'
  <2>1. Spared(k)
    BY <1>2, <1>ty, ElsewhereJob
  <2>2. QED
    BY <1>was, <2>1, RacedFrame DEF Spared
<1>3. ASSUME NEW s \in Session, Request(s, k) PROVE RacedOK(k)'
  BY <1>3, <1>was DEF Request, RacedOK
<1>4. ASSUME NEW s \in Session, StartReconcile(s, k) PROVE RacedOK(k)'
  BY <1>4, <1>was, RacedStarts DEF StartReconcile
<1>5. ASSUME Recover(k) PROVE RacedOK(k)'
  BY <1>5, <1>was DEF Recover, RecoverWithoutAttempt, RecoverFromAttempts, RacedOK
<1>6. ASSUME NEW l \in Listing, Land(k, l) \/ Drop(k, l) PROVE RacedOK(k)'
  <2>1. /\ jobStatus' = jobStatus /\ item' = item /\ events' = events /\ sent' = sent
        /\ lock' = lock /\ held' = held /\ fence' = fence
        /\ pc' = pc /\ task' = task /\ token' = token /\ batch' = batch /\ result' = result
        /\ wire' = wire \ {<<k, l>>} /\ <<k, l>> \in wire /\ RacedOK(k)
    BY <1>6, <1>was DEF Land, Drop, dbVars, sessionVars
  <2>2. \A i \in Listing : remote'[i] = k => remote[i] = k \/ i = l
    BY <1>6, <1>ty DEF Land, Drop, TypeOK
  <2>3. \A i \in Listing : Live(k, i)' => Live(k, i)
    BY <2>1 DEF Live, Sending
  <2>4. /\ DispatchedEver(k)' /\ jobStatus'[k] \notin {"absent", "pending", "running"}
        /\ \A i \in Scope[k] : item'[k][i] \in {"applied", "failed"} \cup UncertainItem
    BY <2>1 DEF RacedOK, DispatchedEver
  <2>5. \A i \in Listing :
           /\ Live(k, i)' => /\ i \in Scope[k] /\ item'[k][i] \in UncertainItem
                            /\ lock'[i] = k /\ jobStatus'[k] = "reconciliation_required"
           /\ <<k, i>> \in wire' => sent'[k][i] = 1
           /\ remote'[i] = k => <<k, i>> \notin wire' /\ sent'[k][i] = 1
    BY <2>1, <2>2, <2>3 DEF RacedOK
  <2>6. \A s \in Session : task'[s] = k =>
           /\ pc'[s] \in ApplyPoints => pc'[s] \in {"limit", "send", "io", "settle"} /\ ~Owns(s)'
           /\ pc'[s] \in ReconcilePoints => \A i \in Listing :
                 /\ result'[s][i] # "none" => i \in Scope[k] /\ result'[s][i] # "failed"
                 /\ result'[s][i] = "verified_applied" =>
                       <<k, i>> \notin wire' /\ sent'[k][i] = 1
    BY <2>1 DEF RacedOK, Owns
  <2>7. QED
    BY <2>4, <2>5, <2>6 DEF RacedOK
<1>7. CASE UNCHANGED vars
  BY <1>7, <1>was, RacedFrame DEF vars, dbVars, providerVars, sessionVars, Spared
<1>8. ASSUME NEW j \in Job,
             \/ \E s \in Session : Request(s, j) \/ StartReconcile(s, j)
             \/ Recover(j)
             \/ \E l \in Listing : Land(j, l) \/ Drop(j, l)
      PROVE  RacedOK(k)'
  <2>1. CASE k = j
    <3>1. k \in raced
      BY <1>8
         DEF Request, StartReconcile, Recover, RecoverWithoutAttempt, RecoverFromAttempts,
             Land, Drop
    <3>2. QED
      BY <1>8, <2>1, <3>1, <1>3, <1>4, <1>5, <1>6
  <2>2. QED
    BY <1>8, <1>2, <2>1
<1>9. QED
  BY <1>1, <1>7, <1>8 DEF Next, StepOf

\* Every step keeps the parts of every job and of every session, those of a session that
\* recovery has fenced included.
LEMMA LockStep ==
    ASSUME Stall \subseteq CheckedPoints, LockInv, [Next]_vars PROVE LockConc'
<1>ty. TypeOK /\ (\A s \in Session : LoopOK(s)) /\ OneExecutor
  BY DEF LockInv, SentInv, TypeInv
<1>se. SentInv
  BY DEF LockInv
<1>jobs. \A k \in Job : JobInv(k)
  BY DEF LockInv
<1>rest. \A t \in Session : Rest(t)
  BY DEF LockInv, SessionInv
<1>ev. \A k \in Job : k \notin raced => EvidenceOK(k)
  BY DEF LockInv, JobInv
<1>it. \A k \in Job : k \notin raced => ItemsOK(k)
  BY DEF LockInv, JobInv
<1>un. \A k \in Job : k \notin raced => UncertainLocked(k)
  BY DEF LockInv, JobInv
<1>wi. \A k \in Job : k \notin raced => WireOK(k)
  BY DEF LockInv, JobInv
<1>tk. \A t \in Session : TokenOK(t)
  BY DEF LockInv, SessionInv
<1>ea. \A t \in Session : task[t] \notin raced => EarlyOK(t)
  BY DEF LockInv, SessionInv, Rest
<1>ow. \A t \in Session : task[t] \notin raced => OwnerOK(t)
  BY DEF LockInv, SessionInv, Rest
<1>re. \A t \in Session : task[t] \notin raced => ResultsOK(t)
  BY DEF LockInv, SessionInv, Rest
<1>rb. \A t \in Session : task[t] \notin raced => ReadBackOK(t)
  BY DEF LockInv, SessionInv, Rest
<1>idle. \A t \in Session : pc[t] = "idle" => task[t] = NoJob /\ task[t] \notin raced
  BY <1>ty, ApplyAssumption DEF TypeOK, LoopOK
<1>one. \A s, t \in Session :
         Claimed(s) /\ Claimed(t) /\ task[s] = task[t] /\ Owns(s) /\ Owns(t) => s = t
  BY <1>tk DEF TokenOK, Owns
<1>alone. \A s, t \in Session : task[s] \notin raced =>
         (pc[s] \in EarlyPoints /\ pc[t] # "idle" /\ task[s] = task[t] => s = t)
  BY <1>ty, <1>ea, <1>rb, ApplyAssumption
     DEF OneExecutor, TypeOK, LoopOK, EarlyOK, ReadBackOK, EarlyPoints, Points, ApplyPoints
<1>apart. \A s, t \in Session :
         task[s] \notin raced /\ pc[s] \in ApplyPoints \ {"locking", "claim"} /\ Owns(s)
         /\ task[s] = task[t] => pc[t] \notin ReconcilePoints
  <2> SUFFICES ASSUME NEW s \in Session, NEW t \in Session, task[s] \notin raced,
                      pc[s] \in ApplyPoints \ {"locking", "claim"}, Owns(s), task[s] = task[t]
               PROVE  pc[t] \notin ReconcilePoints
    OBVIOUS
  <2>1. jobStatus[task[s]] = "running"
    BY <1>ow DEF OwnerOK
  <2>2. pc[t] \in ReconcilePoints => jobStatus[task[t]] # "running"
    BY <1>rb DEF ReadBackOK
  <2>3. QED
    BY <2>1, <2>2
<1>over. \A j \in Job, t \in Session :
         Overtakable(j) /\ task[t] = j => pc[t] = "r_claim" \/ pc[t] \notin UncheckedPoints
  BY DEF Overtakable, CheckedPoints
<1>early. \A t \in Session : task[t] \notin raced /\ pc[t] \in EarlyPoints =>
         \A i \in Listing : /\ latest[task[t]][i] \notin Uncertain
                            /\ item[task[t]][i] \notin UncertainItem
  <2> SUFFICES ASSUME NEW t \in Session, task[t] \notin raced, pc[t] \in EarlyPoints,
                      NEW i \in Listing
               PROVE  /\ latest[task[t]][i] \notin Uncertain
                      /\ item[task[t]][i] \notin UncertainItem
    OBVIOUS
  <2>1. task[t] \in Job /\ pc[t] # "idle"
    BY <1>ty DEF LoopOK, EarlyPoints
  <2>2. latest[task[t]][i] = "none" /\ item[task[t]][i] \in {"pending", "absent"}
    BY <1>ea, <1>ev, <2>1 DEF EarlyOK, EvidenceOK
  <2>3. QED
    BY <2>2 DEF Uncertain, UncertainItem
<1>1. ASSUME NEW s \in Session, NEW j \in Job, Request(s, j), j \notin raced
      PROVE  LockConc'
  <2>1. ASSUME NEW k \in Job, k # j PROVE JobInv(k)'
    BY <1>1, <1>ty, <1>jobs, JobFrame, <2>1 DEF Request, At, providerVars, TypeOK
  <2>2. EvidenceOK(j)'
    BY <1>1, <1>ty, <1>ev DEF Request, At, TypeOK, EvidenceOK
  <2>3. ItemsOK(j)'
    BY <1>1, <1>ty, ApplyAssumption, <1>it
       DEF Request, At, TypeOK, ItemsOK, Uncertain, UncertainItem
  <2>4. UncertainLocked(j)'
    BY <1>1, <1>un DEF Request, At, UncertainLocked, Uncertain, UncertainItem, Unfinished
  <2>5. WireOK(j)'
    BY <1>1, <1>wi DEF Request, At, providerVars, WireOK, Uncertain
  <2>6. ASSUME NEW t \in Session, t # s, task[t] # j PROVE Rest(t)'
    BY <1>1, <1>ty, <1>rest, ApplyAssumption, SessionFrame, <2>6
       DEF Request, At, Goto, providerVars, TypeOK, LoopOK
  <2>7. ASSUME NEW t \in Session, t # s, task[t] = j PROVE Rest(t)'
    BY <1>1, <1>ty, <2>7 DEF Request, At, OneExecutor
  <2>8. ASSUME NEW t \in Session PROVE TokenOK(t)'
    BY <1>1, <1>tk
       DEF Request, At, Goto, TokenOK, Claimed, Owns, UncheckedPoints, Points, ApplyPoints,
           ReconcilePoints
  <2>9. EarlyOK(s)'
    BY <1>1, <1>ty, ApplyAssumption, <1>idle, <1>ea, <1>ev
       DEF Request, At, Goto, TypeOK, EarlyOK, EvidenceOK
  <2>10. OwnerOK(s)'
    BY <1>1, <1>idle, <1>ow DEF Request, At, Goto, OwnerOK, Owns, ApplyPoints
  <2>11. ResultsOK(s)'
    BY <1>1, <1>idle, <1>re, <1>idle, <1>ea
       DEF Request, At, Goto, ResultsOK, Owns, LoopPoints, Sending, Uncertain, EarlyOK
  <2>12. ReadBackOK(s)'
    BY <1>1, <1>idle, <1>rb DEF Request, At, Goto, ReadBackOK, Owns, ReconcilePoints
  <2>13. QED
    BY ONLY <2>1, <2>2, <2>3, <2>4, <2>5, <2>6, <2>7, <2>8, <2>9, <2>10, <2>11, <2>12,
        ApplyAssumption
       DEF LockConc, JobInv, SessionInv, Rest
<1>2. ASSUME NEW s \in Session, AcquireLocks(s), task[s] \notin raced
      PROVE  LockConc'
  <2>1. ASSUME NEW k \in Job, k # task[s] PROVE JobInv(k)'
    BY <1>2, <1>jobs, ApplyAssumption, JobFrame, <2>1
       DEF AcquireLocks, Takeable, providerVars
  <2>2. ASSUME NEW k \in Job, k = task[s] PROVE EvidenceOK(k)'
    BY <1>2, <2>2, <1>ev DEF AcquireLocks, Takeable, At, EvidenceOK
  <2>3. ASSUME NEW k \in Job, k = task[s] PROVE ItemsOK(k)'
    BY <1>2, <2>3, <1>ty, ApplyAssumption, <1>it
       DEF AcquireLocks, Takeable, At, Goto, providerVars, TypeOK, ItemsOK, Uncertain,
           UncertainItem
  <2>4. ASSUME NEW k \in Job, k = task[s] PROVE UncertainLocked(k)'
    BY <1>2, <2>4, <1>un
       DEF AcquireLocks, Takeable, At, UncertainLocked, Uncertain, UncertainItem
  <2>5. ASSUME NEW k \in Job, k = task[s] PROVE WireOK(k)'
    BY <1>2, <2>5, <1>wi DEF AcquireLocks, Takeable, At, providerVars, WireOK, Uncertain
  <2>6. ASSUME NEW t \in Session, t # s, task[t] # task[s] PROVE Rest(t)'
    <3>1. \A i \in Listing : pc[t] # "idle" /\ lock[i] = task[t]
             /\ jobStatus[task[t]] \in Unfinished => lock'[i] = task[t]
      BY <1>2, <1>ty, ApplyAssumption, <2>6 DEF AcquireLocks, Takeable, LoopOK, At
    <3>2. QED
      BY <1>2, <1>ty, <1>rest, ApplyAssumption, SessionFrame, <2>6, <3>1
         DEF AcquireLocks, At, Goto, TypeOK, LoopOK, providerVars
  <2>7. ASSUME NEW t \in Session, t # s, task[t] = task[s] PROVE Rest(t)'
    <3>1. pc[t] = "idle"
      BY <1>2, <1>alone, <2>7 DEF AcquireLocks, At, EarlyPoints
    <3>2. QED
      BY <1>2, <1>ty, <1>rest, <3>1, <2>7, ApplyAssumption, SessionFrame
         DEF AcquireLocks, At, Goto
  <2>8. ASSUME NEW t \in Session PROVE TokenOK(t)'
    BY <1>2, <1>tk DEF AcquireLocks, Takeable, At, Goto, TokenOK, Claimed, Owns
  <2>9. EarlyOK(s)'
    BY <1>2, <1>ty, <1>ea, ApplyAssumption
       DEF AcquireLocks, EarlyOK, EarlyPoints, At, LoopOK
  <2>10. OwnerOK(s)'
    BY <1>2, <1>ow DEF AcquireLocks, Takeable, At, Goto, OwnerOK, Owns
  <2>11. ResultsOK(s)'
    BY <1>2, <1>re
       DEF AcquireLocks, Takeable, At, Goto, providerVars, ResultsOK, Owns, LoopPoints,
           ApplyPoints, Sending, Uncertain
  <2>12. ReadBackOK(s)'
    BY <1>2, <1>rb DEF AcquireLocks, Takeable, At, Goto, ReadBackOK, Owns, ReconcilePoints
  <2>13. QED
    BY ONLY <2>1, <2>2, <2>3, <2>4, <2>5, <2>6, <2>7, <2>8, <2>9, <2>10, <2>11, <2>12,
        ApplyAssumption
       DEF LockConc, JobInv, SessionInv, Rest
<1>3. ASSUME NEW s \in Session, LocksRefused(s), task[s] \notin raced
      PROVE  LockConc'
  <2>live. jobStatus[task[s]] # "absent"
    BY <1>3, <1>ty DEF OneExecutor, LoopOK, LocksRefused, At
  <2>1. ASSUME NEW k \in Job, k # task[s] PROVE JobInv(k)'
    BY <1>3, <1>jobs, JobFrame, <2>1 DEF LocksRefused, At, providerVars
  <2>2. ASSUME NEW k \in Job, k = task[s] PROVE EvidenceOK(k)'
    BY <1>3, <2>2, <1>ev DEF LocksRefused, At, Leave, EvidenceOK
  <2>3. ASSUME NEW k \in Job, k = task[s] PROVE ItemsOK(k)'
    BY <1>3, <2>3, <2>live, <1>it, <1>ty DEF LocksRefused, ItemsOK, TypeOK
  <2>4. ASSUME NEW k \in Job, k = task[s] PROVE UncertainLocked(k)'
    BY <1>3, <2>4, <1>un, <1>early
       DEF LocksRefused, At, UncertainLocked, Uncertain, UncertainItem, EarlyPoints
  <2>5. ASSUME NEW k \in Job, k = task[s] PROVE WireOK(k)'
    BY <1>3, <2>5, <1>wi DEF LocksRefused, At, providerVars, WireOK, Uncertain
  <2>6. ASSUME NEW t \in Session, t # s, task[t] # task[s] PROVE Rest(t)'
    BY <1>3, <1>ty, <1>rest, ApplyAssumption, SessionFrame, <2>6
       DEF LocksRefused, At, Leave, NoResult, providerVars, TypeOK, LoopOK
  <2>7. ASSUME NEW t \in Session, t # s, task[t] = task[s] PROVE Rest(t)'
    <3>1. pc[t] = "idle"
      BY <1>3, <1>alone, <2>7 DEF LocksRefused, At, EarlyPoints
    <3>2. QED
      BY <1>3, <1>ty, <1>rest, <3>1, <2>7, ApplyAssumption, SessionFrame
         DEF LocksRefused, At, Leave
  <2>8. ASSUME NEW t \in Session PROVE TokenOK(t)'
    BY <1>3, <1>tk
       DEF LocksRefused, At, Leave, TokenOK, Claimed, Owns, UncheckedPoints, Points,
           ApplyPoints, ReconcilePoints
  <2>9. EarlyOK(s)'
    BY <1>3, <1>ty, <1>ea
       DEF LocksRefused, At, Leave, NoResult, TypeOK, EarlyOK, EarlyPoints
  <2>10. OwnerOK(s)'
    BY <1>3, <1>ow DEF LocksRefused, At, Leave, OwnerOK, Owns, ApplyPoints
  <2>11. ResultsOK(s)'
    BY <1>3, <1>ty, <1>re
       DEF LocksRefused, At, Leave, NoResult, TypeOK, ResultsOK, Owns, LoopPoints, Sending,
           Uncertain
  <2>12. ReadBackOK(s)'
    BY <1>3, <1>rb DEF LocksRefused, At, Leave, ReadBackOK, Owns, ReconcilePoints
  <2>13. QED
    BY ONLY <2>1, <2>2, <2>3, <2>4, <2>5, <2>6, <2>7, <2>8, <2>9, <2>10, <2>11, <2>12,
        ApplyAssumption
       DEF LockConc, JobInv, SessionInv, Rest
<1>4. ASSUME NEW s \in Session, Claim(s), task[s] \notin raced
      PROVE  LockConc'
  <2>live. jobStatus[task[s]] # "absent"
    BY <1>4, <1>ty DEF OneExecutor, LoopOK, Claim, At
  <2>1. ASSUME NEW k \in Job, k # task[s] PROVE JobInv(k)'
    BY <1>4, <1>jobs, JobFrame, <2>1 DEF Claim, ClaimLease, At, providerVars
  <2>2. ASSUME NEW k \in Job, k = task[s] PROVE EvidenceOK(k)'
    BY <1>4, <2>2, <1>ev DEF Claim, ClaimLease, At, EvidenceOK
  <2>3. ASSUME NEW k \in Job, k = task[s] PROVE ItemsOK(k)'
    BY <1>4, <2>3, <2>live, <1>it, <1>ty DEF Claim, ItemsOK, TypeOK
  <2>4. ASSUME NEW k \in Job, k = task[s] PROVE UncertainLocked(k)'
    BY <1>4, <2>4, <1>un
       DEF Claim, ClaimLease, At, UncertainLocked, Uncertain, UncertainItem, Unfinished
  <2>5. ASSUME NEW k \in Job, k = task[s] PROVE WireOK(k)'
    BY <1>4, <2>5, <1>wi DEF Claim, ClaimLease, At, providerVars, WireOK, Uncertain
  <2>6. ASSUME NEW t \in Session, t # s, task[t] # task[s] PROVE Rest(t)'
    BY <1>4, <1>ty, <1>rest, ApplyAssumption, SessionFrame, <2>6
       DEF Claim, ClaimLease, At, Goto, providerVars, TypeOK, LoopOK
  <2>7. ASSUME NEW t \in Session, t # s, task[t] = task[s] PROVE Rest(t)'
    <3>1. pc[t] = "idle"
      BY <1>4, <1>alone, <2>7 DEF Claim, At, EarlyPoints
    <3>2. QED
      BY <1>4, <1>ty, <1>rest, <3>1, <2>7, ApplyAssumption, SessionFrame DEF Claim, At, Goto
  <2>8. ASSUME NEW t \in Session PROVE TokenOK(t)'
    BY <1>4, <1>ty, <1>tk, <1>alone
       DEF Claim, ClaimLease, At, Goto, TypeOK, TokenOK, Claimed, Owns, UncheckedPoints,
           EarlyPoints, LoopOK
  <2>9. EarlyOK(s)'
    BY <1>4, <1>ty, <1>ea DEF Claim, ClaimLease, At, Goto, TypeOK, EarlyOK, EarlyPoints
  <2>10. OwnerOK(s)'
    BY <1>4, <1>ty, <1>ea DEF Claim, EarlyOK, OwnerOK, EarlyPoints, At, TypeOK, LoopOK
  <2>11. ResultsOK(s)'
    BY <1>4, <1>re
       DEF Claim, ClaimLease, At, Goto, providerVars, ResultsOK, Owns, LoopPoints,
           ApplyPoints, Sending, Uncertain
  <2>12. ReadBackOK(s)'
    BY <1>4, <1>rb DEF Claim, ClaimLease, At, Goto, ReadBackOK, Owns, ReconcilePoints
  <2>13. QED
    BY ONLY <2>1, <2>2, <2>3, <2>4, <2>5, <2>6, <2>7, <2>8, <2>9, <2>10, <2>11, <2>12,
        ApplyAssumption
       DEF LockConc, JobInv, SessionInv, Rest
<1>5. ASSUME NEW s \in Session, GoStale(s), task[s] \notin raced
      PROVE  LockConc'
  <2>live. jobStatus[task[s]] # "absent"
    BY <1>5, <1>ty DEF OneExecutor, LoopOK, GoStale, At
  <2>1. ASSUME NEW k \in Job, k # task[s] PROVE JobInv(k)'
    BY <1>5, <1>jobs, JobFrame, <2>1 DEF GoStale, Released, At, providerVars
  <2>2. ASSUME NEW k \in Job, k = task[s] PROVE EvidenceOK(k)'
    BY <1>5, <2>2, <1>ev DEF GoStale, Released, At, EvidenceOK
  <2>3. ASSUME NEW k \in Job, k = task[s] PROVE ItemsOK(k)'
    BY <1>5, <2>3, <2>live, <1>it, <1>ty DEF GoStale, ItemsOK, TypeOK
  <2>4. ASSUME NEW k \in Job, k = task[s] PROVE UncertainLocked(k)'
    BY <1>5, <2>4, <1>un, <1>early
       DEF GoStale, Released, At, UncertainLocked, Uncertain, UncertainItem, EarlyPoints
  <2>5. ASSUME NEW k \in Job, k = task[s] PROVE WireOK(k)'
    BY <1>5, <2>5, <1>wi DEF GoStale, Released, At, providerVars, WireOK, Uncertain
  <2>6. ASSUME NEW t \in Session, t # s, task[t] # task[s] PROVE Rest(t)'
    BY <1>5, <1>ty, <1>rest, ApplyAssumption, SessionFrame, <2>6
       DEF GoStale, Released, At, Leave, NoResult, providerVars, TypeOK, LoopOK
  <2>7. ASSUME NEW t \in Session, t # s, task[t] = task[s] PROVE Rest(t)'
    <3>1. pc[t] = "idle"
      BY <1>5, <1>alone, <2>7 DEF GoStale, At, EarlyPoints
    <3>2. QED
      BY <1>5, <1>ty, <1>rest, <3>1, <2>7, ApplyAssumption, SessionFrame
         DEF GoStale, At, Leave, TypeOK
  <2>8. ASSUME NEW t \in Session PROVE TokenOK(t)'
    BY <1>5, <1>ty, <1>tk, <1>alone
       DEF GoStale, Released, At, Leave, TypeOK, TokenOK, Claimed, Owns, UncheckedPoints,
           Points, ApplyPoints, ReconcilePoints, EarlyPoints
  <2>9. EarlyOK(s)'
    BY <1>5, <1>ty, <1>ea
       DEF GoStale, Released, At, Leave, NoResult, TypeOK, EarlyOK, EarlyPoints
  <2>10. OwnerOK(s)'
    BY <1>5, <1>ty, <1>ow
       DEF GoStale, Released, At, Leave, TypeOK, OwnerOK, Owns, ApplyPoints
  <2>11. ResultsOK(s)'
    BY <1>5, <1>ty, <1>re
       DEF GoStale, Released, At, Leave, NoResult, TypeOK, ResultsOK, Owns, LoopPoints,
           Sending, Uncertain
  <2>12. ReadBackOK(s)'
    BY <1>5, <1>rb DEF GoStale, Released, At, Leave, ReadBackOK, Owns, ReconcilePoints
  <2>13. QED
    BY ONLY <2>1, <2>2, <2>3, <2>4, <2>5, <2>6, <2>7, <2>8, <2>9, <2>10, <2>11, <2>12,
        ApplyAssumption
       DEF LockConc, JobInv, SessionInv, Rest
<1>6. ASSUME NEW s \in Session, Verified(s), task[s] \notin raced
      PROVE  LockConc'
  <2>1. ASSUME NEW k \in Job PROVE JobInv(k)'
    BY <1>6, <1>jobs, JobFrame DEF Verified, dbVars, providerVars
  <2>2. ASSUME NEW t \in Session, t # s PROVE Rest(t)'
    BY <1>6, <1>ty, <1>rest, ApplyAssumption, SessionFrame, <2>2
       DEF Verified, At, Goto, dbVars, providerVars
  <2>3. ASSUME NEW t \in Session PROVE TokenOK(t)'
    BY <1>6, <1>tk
       DEF Verified, At, Goto, dbVars, TokenOK, Claimed, Owns, Points, ApplyPoints
  <2>4. EarlyOK(s)'
    BY <1>6, <1>ea DEF Verified, At, Goto, dbVars, EarlyOK, EarlyPoints
  <2>5. OwnerOK(s)'
    BY ZenonT(60), <1>6, <1>ty, ApplyAssumption, <1>ow
       DEF Verified, At, Goto, dbVars, providerVars, TypeOK, OwnerOK, Owns, ApplyPoints
  <2>6. ResultsOK(s)'
    BY <1>6, <1>re
       DEF Verified, At, Goto, providerVars, ResultsOK, Owns, LoopPoints, ApplyPoints,
           Sending, Uncertain
  <2>7. ReadBackOK(s)'
    BY <1>6, <1>rb DEF Verified, At, Goto, ReadBackOK, Owns, ReconcilePoints
  <2>8. QED
    BY ONLY <2>1, <2>2, <2>3, <2>4, <2>5, <2>6, <2>7, ApplyAssumption
       DEF LockConc, JobInv, SessionInv, Rest
<1>7. ASSUME NEW s \in Session, PersistAttempts(s), task[s] \notin raced
      PROVE  LockConc'
  <2>ap. /\ \A k \in Job, i \in Listing :
               IF k = task[s] /\ i \in {l \in Scope[task[s]] : events[task[s]][l] = {}}
               THEN /\ latest'[k][i] = "dispatch_intent_recorded"
                    /\ events'[k][i] = events[k][i] \cup {"dispatch_intent_recorded"}
               ELSE latest'[k][i] = latest[k][i] /\ events'[k][i] = events[k][i]
         /\ task[s] \in Job /\ Scope[task[s]] \subseteq Listing
         /\ jobStatus[task[s]] # "absent"
         /\ \A k \in Job : k # task[s] => events'[k] = events[k] /\ latest'[k] = latest[k]
    BY <1>7, <1>ty, ApplyAssumption, AppendFacts
       DEF PersistAttempts, AppendEvents, OneExecutor, LoopOK, At, TypeOK
  <2>live. jobStatus[task[s]] # "absent"
    BY <1>7, <1>ty DEF OneExecutor, LoopOK, PersistAttempts, At
  <2>lease. Owns(s)' <=> Owns(s)
    BY <1>7 DEF PersistAttempts, Owns
  <2>1. ASSUME NEW k \in Job, k # task[s] PROVE JobInv(k)'
    BY <1>7, <1>jobs, JobFrame, <2>1, <2>ap DEF PersistAttempts, Channels, At, providerVars
  <2>2. ASSUME NEW k \in Job, k = task[s] PROVE EvidenceOK(k)'
    BY <1>7, <2>2, <2>ap, <1>ev DEF PersistAttempts, EvidenceOK
  <2>3. ASSUME NEW k \in Job, k = task[s] PROVE ItemsOK(k)'
    BY <1>7, <2>3, <2>ap, <1>it, <1>ea
       DEF PersistAttempts, EarlyOK, EarlyPoints, ItemsOK, Uncertain, UncertainItem, At
  <2>4. ASSUME NEW k \in Job, k = task[s] PROVE UncertainLocked(k)'
    BY <1>7, <2>4, <2>ap, <1>un DEF PersistAttempts, UncertainLocked, Uncertain
  <2>5. ASSUME NEW k \in Job, k = task[s] PROVE WireOK(k)'
    BY <1>7, <2>5, <1>ty, ApplyAssumption, <1>wi, <1>ea, <2>ap
       DEF PersistAttempts, Channels, At, Goto, providerVars, TypeOK, WireOK, Uncertain,
           EarlyOK, EarlyPoints, LoopOK
  <2>6. ASSUME NEW t \in Session, t # s, task[t] # task[s] PROVE Rest(t)'
    BY ZenonT(60), <1>7, <1>ty, <1>rest, ApplyAssumption, SessionFrame, <2>6, <2>ap
       DEF PersistAttempts, Channels, At, Goto, providerVars, TypeOK, LoopOK
  <2>7. ASSUME NEW t \in Session, t # s, task[t] = task[s] PROVE Rest(t)'
    <3>1. pc[t] = "idle"
      BY <1>7, <1>alone, <2>7 DEF PersistAttempts, At, EarlyPoints
    <3>2. QED
      BY <1>7, <1>ty, <1>rest, <3>1, <2>7, ApplyAssumption, SessionFrame
         DEF PersistAttempts, At, Goto
  <2>8. ASSUME NEW t \in Session PROVE TokenOK(t)'
    BY <1>7, <1>tk
       DEF PersistAttempts, Channels, At, Goto, TokenOK, Claimed, Owns, UncheckedPoints,
           Points, ApplyPoints
  <2>9. EarlyOK(s)'
    BY <1>7, <1>ty, <1>ea
       DEF PersistAttempts, Channels, At, Goto, TypeOK, EarlyOK, EarlyPoints
  <2>10. OwnerOK(s)'
    <3>1. pc[s] = "persist" /\ pc'[s] = "limit"
      BY <1>7, <1>ty DEF PersistAttempts, At, Goto, TypeOK
    <3>2. QED
      BY <1>7, <2>lease, <1>ow, <3>1 DEF PersistAttempts, OwnerOK, ApplyPoints
  <2>11. ResultsOK(s)'
    BY <1>7, <1>ty, <1>re, <1>ea, <1>ev, <2>ap
       DEF PersistAttempts, Channels, At, Goto, TypeOK, ResultsOK, Owns, Sending, Uncertain,
           EarlyOK, EarlyPoints, EvidenceOK
  <2>12. ReadBackOK(s)'
    BY <1>7, <1>rb
       DEF PersistAttempts, Channels, At, Goto, ReadBackOK, Owns, ReconcilePoints
  <2>13. QED
    BY ONLY <2>1, <2>2, <2>3, <2>4, <2>5, <2>6, <2>7, <2>8, <2>9, <2>10, <2>11, <2>12,
        ApplyAssumption
       DEF LockConc, JobInv, SessionInv, Rest
<1>8. ASSUME NEW s \in Session, NEW c \in Channel, Admit(s, c), task[s] \notin raced
      PROVE  LockConc'
  <2>lease. Owns(s)' <=> Owns(s)
    BY <1>8 DEF Admit, Owns, dbVars
  <2>1. ASSUME NEW k \in Job PROVE JobInv(k)'
    BY <1>8, <1>jobs, JobFrame DEF Admit, dbVars, providerVars
  <2>2. ASSUME NEW t \in Session, t # s PROVE Rest(t)'
    BY <1>8, <1>ty, <1>rest, ApplyAssumption, SessionFrame, <2>2
       DEF Admit, Remaining, OfChannel, At, Goto, dbVars, providerVars, TypeOK
  <2>3. ASSUME NEW t \in Session PROVE TokenOK(t)'
    BY <1>8, <1>tk
       DEF Admit, Remaining, OfChannel, At, Goto, dbVars, TokenOK, Claimed, Owns, Points,
           ApplyPoints
  <2>4. EarlyOK(s)'
    BY <1>8, <1>ea DEF Admit, Remaining, OfChannel, At, Goto, EarlyOK, EarlyPoints
  <2>5. OwnerOK(s)'
    BY ZenonT(60), <1>8, <1>ty, ApplyAssumption, <1>ow
       DEF Admit, Remaining, OfChannel, At, Goto, dbVars, providerVars, TypeOK, OwnerOK,
           Owns, ApplyPoints
  <2>6. ResultsOK(s)'
    <3>1. /\ pc[s] = "limit" /\ pc'[s] = "dispatch" /\ task'[s] = task[s] /\ task[s] \in Job
          /\ batch[s] = {} /\ c \in todo[s] /\ todo'[s] = todo[s] \ {c}
          /\ batch'[s] = {i \in Scope[task[s]] : ChannelOf[i] = c}
          /\ Scope[task[s]] \subseteq Listing
          /\ latest' = latest /\ wire' = wire /\ sent' = sent
      BY <1>8, <1>ty, ApplyAssumption
         DEF Admit, Remaining, OfChannel, At, Goto, TypeOK, LoopOK, dbVars, providerVars
    <3>2. result'[s] = result[s]
      BY <1>8, <1>ty DEF Admit, TypeOK
    <3>3. /\ \A i \in Scope[task[s]] :
                /\ ChannelOf[i] \in todo[s] =>
                      latest[task[s]][i] = "dispatch_intent_recorded" /\ result[s][i] = "none"
                /\ Owns(s) /\ ChannelOf[i] \notin todo[s] => latest[task[s]][i] = result[s][i]
          /\ \A i \in Listing :
                /\ result[s][i] = "failed" => <<task[s], i>> \notin wire
                /\ result[s][i] = "verified_applied" =>
                      <<task[s], i>> \notin wire /\ sent[task[s]][i] = 1
      BY <1>8, <1>re, <3>1 DEF ResultsOK, LoopPoints, ApplyPoints
    <3>4. QED
      BY <2>lease, <3>1, <3>2, <3>3, <1>wi DEF ResultsOK, WireOK, Uncertain
  <2>7. ReadBackOK(s)'
    BY <1>8, <1>rb
       DEF Admit, Remaining, OfChannel, At, Goto, ReadBackOK, Owns, ReconcilePoints
  <2>8. QED
    BY ONLY <2>1, <2>2, <2>3, <2>4, <2>5, <2>6, <2>7, ApplyAssumption
       DEF LockConc, JobInv, SessionInv, Rest
<1>9. ASSUME NEW s \in Session, NEW c \in Channel, LimiterFails(s, c), task[s] \notin raced
      PROVE  LockConc'
  <2>lease. Owns(s)' <=> Owns(s)
    BY <1>9 DEF LimiterFails, Owns, dbVars
  <2>1. ASSUME NEW k \in Job PROVE JobInv(k)'
    BY <1>9, <1>jobs, JobFrame DEF LimiterFails, dbVars, providerVars
  <2>2. ASSUME NEW t \in Session, t # s PROVE Rest(t)'
    BY <1>9, <1>ty, <1>rest, ApplyAssumption, SessionFrame, <2>2
       DEF LimiterFails, Remaining, OfChannel, At, Goto, dbVars, providerVars, TypeOK
  <2>3. ASSUME NEW t \in Session PROVE TokenOK(t)'
    BY <1>9, <1>tk
       DEF LimiterFails, Remaining, OfChannel, At, Goto, dbVars, TokenOK, Claimed, Owns,
           Points, ApplyPoints
  <2>4. EarlyOK(s)'
    BY <1>9, <1>ea DEF LimiterFails, Remaining, OfChannel, At, Goto, EarlyOK, EarlyPoints
  <2>5. OwnerOK(s)'
    BY ZenonT(60), <1>9, <1>ty, ApplyAssumption, <1>ow
       DEF LimiterFails, Remaining, OfChannel, At, Goto, dbVars, providerVars, TypeOK,
           OwnerOK, Owns, ApplyPoints
  <2>6. ResultsOK(s)'
    <3>1. /\ pc[s] = "limit" /\ pc'[s] = "record" /\ task'[s] = task[s] /\ task[s] \in Job
          /\ batch[s] = {} /\ c \in todo[s] /\ todo'[s] = todo[s] \ {c}
          /\ batch'[s] = {i \in Scope[task[s]] : ChannelOf[i] = c}
          /\ Scope[task[s]] \subseteq Listing
          /\ latest' = latest /\ wire' = wire /\ sent' = sent
      BY <1>9, <1>ty, ApplyAssumption
         DEF LimiterFails, Remaining, OfChannel, At, Goto, TypeOK, LoopOK, dbVars,
             providerVars
    <3>2. \A i \in Listing : result'[s][i] =
                IF ChannelOf[i] = c /\ i \in Scope[task[s]] THEN "failed" ELSE result[s][i]
      BY <1>9, <1>ty DEF LimiterFails, TypeOK
    <3>3. /\ \A i \in Scope[task[s]] :
                /\ ChannelOf[i] \in todo[s] =>
                      latest[task[s]][i] = "dispatch_intent_recorded" /\ result[s][i] = "none"
                /\ Owns(s) /\ ChannelOf[i] \notin todo[s] => latest[task[s]][i] = result[s][i]
          /\ \A i \in Listing :
                /\ result[s][i] = "failed" => <<task[s], i>> \notin wire
                /\ result[s][i] = "verified_applied" =>
                      <<task[s], i>> \notin wire /\ sent[task[s]][i] = 1
      BY <1>9, <1>re, <3>1 DEF ResultsOK, LoopPoints, ApplyPoints
    <3>4. QED
      BY <1>9, <2>lease, <3>1, <3>2, <3>3, <1>wi DEF ResultsOK, WireOK, Uncertain
  <2>7. ReadBackOK(s)'
    BY <1>9, <1>rb
       DEF LimiterFails, Remaining, OfChannel, At, Goto, ReadBackOK, Owns, ReconcilePoints
  <2>8. QED
    BY ONLY <2>1, <2>2, <2>3, <2>4, <2>5, <2>6, <2>7, ApplyAssumption
       DEF LockConc, JobInv, SessionInv, Rest
<1>10. ASSUME NEW s \in Session, NEW D \in SUBSET Listing, Dispatch(s, D), task[s] \notin raced
       PROVE  LockConc'
  <2>ap. /\ \A k \in Job, i \in Listing :
               IF k = task[s] /\ i \in D
               THEN /\ latest'[k][i] = "dispatched"
                    /\ events'[k][i] = events[k][i] \cup {"dispatched"}
               ELSE latest'[k][i] = latest[k][i] /\ events'[k][i] = events[k][i]
         /\ task[s] \in Job /\ Scope[task[s]] \subseteq Listing
         /\ jobStatus[task[s]] # "absent"
         /\ \A k \in Job : k # task[s] => events'[k] = events[k] /\ latest'[k] = latest[k]
    BY <1>10, <1>ty, ApplyAssumption, AppendFacts
       DEF Dispatch, AppendEvents, OneExecutor, LoopOK, At, TypeOK
  <2>lease. Owns(s)' <=> Owns(s)
    BY <1>10 DEF Dispatch, Owns
  <2>own. /\ Owns(s) /\ jobStatus[task[s]] = "running" /\ task[s] \in Job
          /\ \A i \in Scope[task[s]] :
                lock[i] = task[s] /\ item[task[s]][i] = "pending" /\ i \in Listing
    BY <1>10, <1>ty, <1>tk, <1>ow, ApplyAssumption
       DEF Dispatch, At, TokenOK, OwnerOK, UncheckedPoints, ApplyPoints, LoopOK
  <2>1. ASSUME NEW k \in Job, k # task[s] PROVE JobInv(k)'
    BY <1>10, <1>jobs, JobFrame, <2>1, <2>ap DEF Dispatch, At, providerVars
  <2>2. ASSUME NEW k \in Job, k = task[s] PROVE EvidenceOK(k)'
    BY <1>10, <2>2, <2>ap, <2>own, <1>ev, <1>ty DEF Dispatch, EvidenceOK, LoopOK, At
  <2>3. ASSUME NEW k \in Job, k = task[s] PROVE ItemsOK(k)'
    BY <1>10, <2>3, <2>own, <1>it, <1>ev
       DEF Dispatch, ItemsOK, EvidenceOK, UncertainItem, At
  <2>4. ASSUME NEW k \in Job, k = task[s] PROVE UncertainLocked(k)'
    BY <1>10, <2>4, <2>ap, <2>own, <1>un, <1>ty
       DEF Dispatch, UncertainLocked, Unfinished, UncertainItem, LoopOK, At
  <2>5. ASSUME NEW k \in Job, k = task[s] PROVE WireOK(k)'
    BY <1>10, <2>5, <1>wi, <1>re, <2>ap
       DEF Dispatch, At, providerVars, WireOK, Uncertain, ResultsOK, Owns, Sending
  <2>6. ASSUME NEW t \in Session, t # s, task[t] # task[s] PROVE Rest(t)'
    BY ZenonT(60), <1>10, <1>ty, <1>rest, ApplyAssumption, SessionFrame, <2>6, <2>ap
       DEF Dispatch, At, Goto, providerVars, TypeOK, LoopOK
  <2>7. ASSUME NEW t \in Session, t # s, task[t] = task[s] PROVE Rest(t)'
    <3>1. pc[t] = "idle"
      <4>1. pc[s] \in ApplyPoints \ {"locking", "claim"} /\ task[s] \notin raced
        BY <1>10 DEF Dispatch, At, ApplyPoints
      <4>2. pc[t] \notin ApplyPoints
        BY <4>1, <1>ty, <2>7 DEF OneExecutor
      <4>3. pc[t] \notin ReconcilePoints
        BY <4>1, <2>own, <1>apart, <2>7
      <4>4. QED
        BY <4>2, <4>3, <1>ty DEF TypeOK, Points
    <3>2. QED
      BY <1>10, <1>ty, <1>rest, <3>1, <2>7, ApplyAssumption, SessionFrame
         DEF Dispatch, At, Goto, TypeOK
  <2>8. ASSUME NEW t \in Session PROVE TokenOK(t)'
    BY <1>10, <1>tk
       DEF Dispatch, At, Goto, TokenOK, Claimed, Owns, UncheckedPoints, Points, ApplyPoints
  <2>9. EarlyOK(s)'
    BY <1>10, <1>ea DEF Dispatch, At, Goto, EarlyOK, EarlyPoints
  <2>10. OwnerOK(s)'
    BY <1>10, <2>own DEF Dispatch, OwnerOK, Owns, ApplyPoints, At
  <2>11. ResultsOK(s)'
    <3>1. /\ pc[s] = "dispatch" /\ pc'[s] \in {"io", "send"} /\ task'[s] = task[s]
          /\ todo'[s] = todo[s] /\ batch'[s] = batch[s] /\ D \subseteq batch[s]
          /\ Scope[task[s]] \subseteq Listing
          /\ wire' = wire /\ sent' = sent
          /\ \A i \in Listing : result'[s][i] =
                IF i \in batch[s] \ D THEN "failed" ELSE result[s][i]
      BY <1>10, <2>own, <1>ty DEF Dispatch, At, Goto, TypeOK, providerVars
    <3>2. /\ \A i \in Scope[task[s]] :
                /\ ChannelOf[i] \in todo[s] \/ i \in batch[s] =>
                      latest[task[s]][i] = "dispatch_intent_recorded" /\ result[s][i] = "none"
                /\ Owns(s) /\ ChannelOf[i] \notin todo[s] /\ i \notin batch[s] =>
                      latest[task[s]][i] = result[s][i]
          /\ \A i \in Listing :
                /\ result[s][i] = "failed" => <<task[s], i>> \notin wire
                /\ result[s][i] = "verified_applied" =>
                      <<task[s], i>> \notin wire /\ sent[task[s]][i] = 1
          /\ \A i \in batch[s] : ChannelOf[i] \notin todo[s] /\ i \in Scope[task[s]]
      BY <1>10, <1>re, <1>ty, <1>se, <3>1 DEF ResultsOK, LoopPoints, ApplyPoints, LoopOK, SentInv
    <3>3. \A i \in batch[s] \ D : <<task[s], i>> \notin wire
      BY <1>10, <3>1, <3>2, <2>own, <1>wi DEF WireOK, Uncertain
    <3>4. \A i \in Scope[task[s]] : latest'[task[s]][i] =
             IF i \in D THEN "dispatched" ELSE latest[task[s]][i]
      BY <2>ap, <2>own
    <3>5. QED
      BY <3>1, <3>2, <3>3, <3>4, <2>own DEF ResultsOK, Sending, Uncertain
  <2>12. ReadBackOK(s)'
    BY <1>10, <1>rb DEF Dispatch, At, Goto, ReadBackOK, Owns, ReconcilePoints
  <2>13. QED
    BY ONLY <2>1, <2>2, <2>3, <2>4, <2>5, <2>6, <2>7, <2>8, <2>9, <2>10, <2>11, <2>12,
        ApplyAssumption
       DEF LockConc, JobInv, SessionInv, Rest
<1>11. ASSUME NEW s \in Session, Send(s), task[s] \notin raced
       PROVE  LockConc'
  <2>1. ASSUME NEW k \in Job, k # task[s] PROVE JobInv(k)'
    BY <1>11, <1>jobs, JobFrame, <2>1 DEF Send, At, dbVars
  <2>2. ASSUME NEW k \in Job, k = task[s] PROVE EvidenceOK(k)'
    BY <1>11, <2>2, <1>ev DEF Send, At, dbVars, EvidenceOK
  <2>3. ASSUME NEW k \in Job, k = task[s] PROVE ItemsOK(k)'
    BY <1>11, <2>3, <1>ty, ApplyAssumption, <1>it
       DEF Send, At, Goto, dbVars, TypeOK, ItemsOK, Uncertain, UncertainItem
  <2>4. ASSUME NEW k \in Job, k = task[s] PROVE UncertainLocked(k)'
    BY <1>11, <2>4, <1>un DEF Send, At, dbVars, UncertainLocked, Uncertain, UncertainItem
  <2>5. ASSUME NEW k \in Job, k = task[s] PROVE WireOK(k)'
    BY <1>11, <2>5, <1>ty, <1>wi, <1>re, <1>se
       DEF Send, At, dbVars, TypeOK, WireOK, Uncertain, ResultsOK, Owns, Sending, SentInv,
           NotSentYet, SentAtMostOnce
  <2>6. ASSUME NEW t \in Session, t # s, task[t] # task[s] PROVE Rest(t)'
    BY <1>11, <1>ty, <1>rest, ApplyAssumption, SessionFrame, <2>6
       DEF Send, At, Goto, dbVars, TypeOK, LoopOK
  <2>7. ASSUME NEW t \in Session, t # s, task[t] = task[s] PROVE Rest(t)'
    <3>1. pc[s] \in ApplyPoints
      BY <1>11 DEF Send, At, ApplyPoints
    <3>2. pc[t] \notin ApplyPoints
      BY <3>1, <1>ty, <2>7 DEF OneExecutor
    <3>3. \A i \in Sending(s) : sent[task[s]][i] = 0
      BY <1>11, <1>ty, <1>se DEF Send, At, Sending, SentInv, NotSentYet, TypeOK
    <3>4. \A i \in Listing : <<task[s], i>> \notin wire /\ sent[task[s]][i] = 1 =>
             <<task[s], i>> \notin wire' /\ sent'[task[s]][i] = 1
      BY <1>11, <1>ty, <3>3 DEF Send, At, TypeOK, LoopOK
    <3>5. QED
      BY <1>11, <1>rest, <2>7, <3>2, <3>4, ReconcilerFrame DEF Send, Goto, Owns, dbVars
  <2>8. ASSUME NEW t \in Session PROVE TokenOK(t)'
    BY <1>11, <1>tk
       DEF Send, At, Goto, dbVars, TokenOK, Claimed, Owns, UncheckedPoints, Points,
           ApplyPoints
  <2>9. EarlyOK(s)'
    BY <1>11, <1>ea DEF Send, At, Goto, EarlyOK, EarlyPoints
  <2>10. OwnerOK(s)'
    BY ZenonT(60), <1>11, <1>ty, ApplyAssumption, <1>ow
       DEF Send, At, Goto, dbVars, TypeOK, OwnerOK, Owns, ApplyPoints
  <2>11. ResultsOK(s)'
    BY <1>11, <1>re
       DEF Send, At, Goto, dbVars, ResultsOK, Owns, LoopPoints, ApplyPoints, Sending,
           Uncertain, SentInv, NotSentYet
  <2>12. ReadBackOK(s)'
    BY <1>11, <1>rb DEF Send, At, Goto, ReadBackOK, Owns, ReconcilePoints
  <2>13. QED
    BY ONLY <2>1, <2>2, <2>3, <2>4, <2>5, <2>6, <2>7, <2>8, <2>9, <2>10, <2>11, <2>12,
        ApplyAssumption
       DEF LockConc, JobInv, SessionInv, Rest
<1>12. ASSUME NEW s \in Session, NEW r \in [Listing -> Result \cup {"none"}], Answer(s, r),
               task[s] \notin raced
       PROVE  LockConc'
  <2>lease. Owns(s)' <=> Owns(s)
    BY <1>12 DEF Answer, Owns, dbVars
  <2>1. ASSUME NEW k \in Job PROVE JobInv(k)'
    BY <1>12, <1>jobs, JobFrame DEF Answer, dbVars, providerVars
  <2>2. ASSUME NEW t \in Session, t # s PROVE Rest(t)'
    BY <1>12, <1>ty, <1>rest, ApplyAssumption, SessionFrame, <2>2
       DEF Answer, Reports, At, Goto, dbVars, providerVars
  <2>3. ASSUME NEW t \in Session PROVE TokenOK(t)'
    BY <1>12, <1>tk
       DEF Answer, Reports, At, Goto, dbVars, TokenOK, Claimed, Owns, Points, ApplyPoints
  <2>4. EarlyOK(s)'
    BY <1>12, <1>ea DEF Answer, Reports, At, Goto, EarlyOK, EarlyPoints
  <2>5. OwnerOK(s)'
    <3>1. pc[s] = "io" /\ pc'[s] = "record"
      BY <1>12, <1>ty DEF Answer, At, Goto, TypeOK
    <3>2. QED
      BY <1>12, <2>lease, <1>ow, <3>1 DEF Answer, dbVars, OwnerOK, ApplyPoints
  <2>6. ResultsOK(s)'
    <3>1. /\ pc[s] = "io" /\ pc'[s] = "record" /\ task'[s] = task[s] /\ task[s] \in Job
          /\ todo'[s] = todo[s] /\ batch'[s] = batch[s] /\ result'[s] = r
          /\ Scope[task[s]] \subseteq Listing /\ batch[s] \subseteq Listing
          /\ latest' = latest /\ wire' = wire /\ sent' = sent
      BY <1>12, <1>ty, ApplyAssumption
         DEF Answer, At, Goto, TypeOK, LoopOK, dbVars, providerVars
    <3>2. /\ \A i \in Scope[task[s]] :
                /\ ChannelOf[i] \in todo[s] =>
                      latest[task[s]][i] = "dispatch_intent_recorded" /\ result[s][i] = "none"
                /\ Owns(s) /\ ChannelOf[i] \notin todo[s] /\ i \notin batch[s] =>
                      latest[task[s]][i] = result[s][i]
          /\ \A i \in Listing :
                /\ result[s][i] = "failed" => <<task[s], i>> \notin wire
                /\ result[s][i] = "verified_applied" =>
                      <<task[s], i>> \notin wire /\ sent[task[s]][i] = 1
      BY <1>12, <1>re, <3>1 DEF ResultsOK, LoopPoints, ApplyPoints
    <3>3. \A i \in batch[s] : ChannelOf[i] \notin todo[s] /\ i \in Scope[task[s]]
      BY <1>ty, <1>se, <3>1 DEF LoopPoints, LoopOK, SentInv
    <3>4. /\ \A i \in Listing \ Sending(s) : r[i] = result[s][i]
          /\ \A i \in Sending(s) :
                /\ r[i] = "failed" => <<task[s], i>> \notin wire
                /\ r[i] = "verified_applied" =>
                      <<task[s], i>> \notin wire /\ sent[task[s]][i] = 1
      BY <1>12, <3>1, <1>wi DEF Answer, Reports, WireOK, Sending
    <3>5. \A i \in Listing : i \notin batch[s] => r[i] = result[s][i]
      BY <3>4 DEF Sending
    <3>6. QED
      BY <2>lease, <3>1, <3>2, <3>3, <3>4, <3>5 DEF ResultsOK
  <2>7. ReadBackOK(s)'
    BY <1>12, <1>rb DEF Answer, Reports, At, Goto, ReadBackOK, Owns, ReconcilePoints
  <2>8. QED
    BY ONLY <2>1, <2>2, <2>3, <2>4, <2>5, <2>6, <2>7, ApplyAssumption
       DEF LockConc, JobInv, SessionInv, Rest
<1>13. ASSUME NEW s \in Session, RecordOutcomes(s), task[s] \notin raced
       PROVE  LockConc'
  <2>ap. /\ \A k \in Job, i \in Listing :
               IF k = task[s] /\ i \in batch[s]
               THEN /\ latest'[k][i] = result[s][i]
                    /\ events'[k][i] = events[k][i] \cup {result[s][i]}
               ELSE latest'[k][i] = latest[k][i] /\ events'[k][i] = events[k][i]
         /\ task[s] \in Job /\ Scope[task[s]] \subseteq Listing
         /\ jobStatus[task[s]] # "absent"
         /\ \A k \in Job : k # task[s] => events'[k] = events[k] /\ latest'[k] = latest[k]
    BY <1>13, <1>ty, ApplyAssumption, AppendFacts
       DEF RecordOutcomes, AppendEvents, OneExecutor, LoopOK, At, TypeOK
  <2>lease. Owns(s)' <=> Owns(s)
    BY <1>13 DEF RecordOutcomes, Owns
  <2>own. /\ Owns(s) /\ jobStatus[task[s]] = "running" /\ task[s] \in Job
          /\ \A i \in Scope[task[s]] :
                lock[i] = task[s] /\ item[task[s]][i] = "pending" /\ i \in Listing
    BY <1>13, <1>ty, <1>tk, <1>ow, ApplyAssumption
       DEF RecordOutcomes, At, TokenOK, OwnerOK, UncheckedPoints, ApplyPoints, LoopOK
  <2>1. ASSUME NEW k \in Job, k # task[s] PROVE JobInv(k)'
    BY <1>13, <1>jobs, JobFrame, <2>1, <2>ap DEF RecordOutcomes, At, providerVars
  <2>2. ASSUME NEW k \in Job, k = task[s] PROVE EvidenceOK(k)'
    BY <1>13, <2>2, <2>ap, <2>own, <1>ev, <1>ty DEF RecordOutcomes, EvidenceOK, LoopOK, At
  <2>3. ASSUME NEW k \in Job, k = task[s] PROVE ItemsOK(k)'
    BY <1>13, <2>3, <2>own, <1>it, <1>ev
       DEF RecordOutcomes, ItemsOK, EvidenceOK, UncertainItem, At
  <2>4. ASSUME NEW k \in Job, k = task[s] PROVE UncertainLocked(k)'
    BY <1>13, <2>4, <2>ap, <2>own, <1>un, <1>ty
       DEF RecordOutcomes, UncertainLocked, Unfinished, UncertainItem, LoopOK, At
  <2>5. ASSUME NEW k \in Job, k = task[s] PROVE WireOK(k)'
    <3>1. \A i \in batch[s] :
             <<task[s], i>> \in wire => result[s][i] = "reconciliation_required"
      BY <1>13, <1>re, <1>ty
         DEF RecordOutcomes, At, ResultsOK, ApplyPoints, LoopOK, TypeOK, Result
    <3>2. \A i \in Listing : latest'[k][i] =
             IF i \in batch[s] THEN result[s][i] ELSE latest[k][i]
      BY <2>ap, <2>5
    <3>3. QED
      BY <1>13, <2>5, <3>1, <3>2, <1>wi DEF RecordOutcomes, providerVars, WireOK, Uncertain
  <2>6. ASSUME NEW t \in Session, t # s, task[t] # task[s] PROVE Rest(t)'
    BY ZenonT(60), <1>13, <1>ty, <1>rest, ApplyAssumption, SessionFrame, <2>6, <2>ap
       DEF RecordOutcomes, At, Goto, providerVars, TypeOK, LoopOK
  <2>7. ASSUME NEW t \in Session, t # s, task[t] = task[s] PROVE Rest(t)'
    <3>1. pc[t] = "idle"
      <4>1. pc[s] \in ApplyPoints \ {"locking", "claim"} /\ task[s] \notin raced
        BY <1>13 DEF RecordOutcomes, At, ApplyPoints
      <4>2. pc[t] \notin ApplyPoints
        BY <4>1, <1>ty, <2>7 DEF OneExecutor
      <4>3. pc[t] \notin ReconcilePoints
        BY <4>1, <2>own, <1>apart, <2>7
      <4>4. QED
        BY <4>2, <4>3, <1>ty DEF TypeOK, Points
    <3>2. QED
      BY <1>13, <1>ty, <1>rest, <3>1, <2>7, ApplyAssumption, SessionFrame
         DEF RecordOutcomes, At, Goto, TypeOK
  <2>8. ASSUME NEW t \in Session PROVE TokenOK(t)'
    BY <1>13, <1>tk
       DEF RecordOutcomes, At, Goto, TokenOK, Claimed, Owns, UncheckedPoints, Points,
           ApplyPoints
  <2>9. EarlyOK(s)'
    BY <1>13, <1>ea DEF RecordOutcomes, At, Goto, EarlyOK, EarlyPoints
  <2>10. OwnerOK(s)'
    BY <1>13, <2>own DEF RecordOutcomes, OwnerOK, Owns, ApplyPoints, At
  <2>11. ResultsOK(s)'
    <3>1. /\ pc[s] = "record" /\ task'[s] = task[s] /\ batch'[s] = {}
          /\ pc'[s] = IF todo[s] = {} THEN "settle" ELSE "limit"
          /\ todo'[s] = todo[s] /\ result'[s] = result[s] /\ batch[s] \subseteq Listing
          /\ Scope[task[s]] \subseteq Listing /\ wire' = wire /\ sent' = sent
      BY <1>13, <2>own, <1>ty DEF RecordOutcomes, At, Goto, TypeOK, providerVars
    <3>2. /\ \A i \in Scope[task[s]] :
                /\ ChannelOf[i] \in todo[s] =>
                      latest[task[s]][i] = "dispatch_intent_recorded" /\ result[s][i] = "none"
                /\ Owns(s) /\ ChannelOf[i] \notin todo[s] /\ i \notin batch[s] =>
                      latest[task[s]][i] = result[s][i]
          /\ \A i \in Listing :
                /\ result[s][i] = "failed" => <<task[s], i>> \notin wire
                /\ result[s][i] = "verified_applied" =>
                      <<task[s], i>> \notin wire /\ sent[task[s]][i] = 1
          /\ \A i \in batch[s] : ChannelOf[i] \notin todo[s] /\ i \in Scope[task[s]]
      BY <1>13, <1>re, <1>ty, <3>1 DEF ResultsOK, LoopPoints, ApplyPoints, LoopOK, SentInv
    <3>3. \A i \in Scope[task[s]] : latest'[task[s]][i] =
             IF i \in batch[s] THEN result[s][i] ELSE latest[task[s]][i]
      BY <2>ap, <2>own
    <3>4. QED
      BY <3>1, <3>2, <3>3, <2>own DEF ResultsOK, LoopPoints
  <2>12. ReadBackOK(s)'
    BY <1>13, <1>rb DEF RecordOutcomes, At, Goto, ReadBackOK, Owns, ReconcilePoints
  <2>13. QED
    BY ONLY <2>1, <2>2, <2>3, <2>4, <2>5, <2>6, <2>7, <2>8, <2>9, <2>10, <2>11, <2>12,
        ApplyAssumption
       DEF LockConc, JobInv, SessionInv, Rest
<1>14. ASSUME NEW s \in Session, CheckLease(s), task[s] \notin raced
       PROVE  LockConc'
  <2>1. ASSUME NEW k \in Job PROVE JobInv(k)'
    BY <1>14, <1>jobs, JobFrame DEF CheckLease, dbVars, providerVars
  <2>2. ASSUME NEW t \in Session, t # s PROVE Rest(t)'
    BY <1>14, <1>ty, <1>rest, ApplyAssumption, SessionFrame, <2>2
       DEF CheckLease, At, Goto, dbVars, providerVars
  <2>3. ASSUME NEW t \in Session PROVE TokenOK(t)'
    BY <1>14, <1>tk
       DEF CheckLease, At, Goto, dbVars, TokenOK, Claimed, Owns, Points, ApplyPoints
  <2>4. EarlyOK(s)'
    BY <1>14, <1>ea DEF CheckLease, At, Goto, EarlyOK, EarlyPoints
  <2>5. OwnerOK(s)'
    BY ZenonT(60), <1>14, <1>ty, ApplyAssumption, <1>ow
       DEF CheckLease, At, Goto, dbVars, providerVars, TypeOK, OwnerOK, Owns, ApplyPoints
  <2>6. ResultsOK(s)'
    BY <1>14, <1>re
       DEF CheckLease, At, Goto, dbVars, providerVars, ResultsOK, Owns, LoopPoints,
           ApplyPoints, Sending, Uncertain
  <2>7. ReadBackOK(s)'
    BY <1>14, <1>rb DEF CheckLease, At, Goto, ReadBackOK, Owns, ReconcilePoints
  <2>8. QED
    BY ONLY <2>1, <2>2, <2>3, <2>4, <2>5, <2>6, <2>7, ApplyAssumption
       DEF LockConc, JobInv, SessionInv, Rest
<1>15. ASSUME NEW s \in Session, Finish(s), task[s] \notin raced
       PROVE  LockConc'
  <2>own. /\ Owns(s) /\ jobStatus[task[s]] = "running" /\ task[s] \in Job
          /\ \A i \in Scope[task[s]] :
                /\ lock[i] = task[s] /\ i \in Listing
                /\ latest[task[s]][i] = result[s][i] /\ result[s][i] \in Result
    <3>1. Owns(s) /\ task[s] \in Job /\ Scope[task[s]] \subseteq Listing /\ pc[s] = "finish"
      BY <1>15, <1>ty, <1>tk, ApplyAssumption
         DEF Finish, At, TokenOK, UncheckedPoints, LoopOK
    <3>2. jobStatus[task[s]] = "running" /\ \A i \in Scope[task[s]] : lock[i] = task[s]
      BY <1>15, <3>1, <1>ow DEF OwnerOK, ApplyPoints
    <3>3. \A i \in Scope[task[s]] : latest[task[s]][i] = result[s][i] /\ result[s][i] \in Result
      BY <1>15, <3>1, <1>re, <1>ty DEF ResultsOK, LoopOK, TypeOK
    <3>5. QED
      BY <3>1, <3>2, <3>3
  <2>1. ASSUME NEW k \in Job, k # task[s] PROVE JobInv(k)'
    BY <1>15, <1>jobs, JobFrame, <2>1 DEF Finish, RecordItems, At, providerVars
  <2>2. ASSUME NEW k \in Job, k = task[s] PROVE EvidenceOK(k)'
    BY <1>15, <2>2, <2>own, <1>ev DEF EvidenceOK, Finish, RecordItems, ItemAfter
  <2>3. ASSUME NEW k \in Job, k = task[s] PROVE ItemsOK(k)'
    <3>1. \A i \in Listing : item'[k][i] =
             IF i \in Scope[k] THEN ItemAfter(result[s][i]) ELSE item[k][i]
      BY <1>15, <2>3, <1>ty DEF Finish, RecordItems, TypeOK
    <3>2. \A i \in Listing : i \notin Scope[k] => item[k][i] = "absent"
      BY <1>15, <2>3, <1>ev DEF EvidenceOK
    <3>3. latest' = latest /\ events' = events /\ jobStatus' = jobStatus
      BY <1>15 DEF Finish
    <3>4. \A i \in Scope[k] : latest[k][i] = result[s][i] /\ latest[k][i] \in events[k][i]
      BY <1>15, <2>3, <2>own, <1>ev DEF EvidenceOK, Result
    <3>5. QED
      BY <2>3, <2>own, <3>1, <3>2, <3>3, <3>4
         DEF ItemsOK, ItemAfter, Result, Uncertain, UncertainItem
  <2>4. ASSUME NEW k \in Job, k = task[s] PROVE UncertainLocked(k)'
    BY <1>15, <2>4, <2>own, <1>un
       DEF UncertainLocked, Uncertain, UncertainItem, Finish, RecordItems, ItemAfter, Result
  <2>5. ASSUME NEW k \in Job, k = task[s] PROVE WireOK(k)'
    BY <1>15, <2>5, <1>wi DEF Finish, RecordItems, At, providerVars, WireOK, Uncertain
  <2>6. ASSUME NEW t \in Session, t # s, task[t] # task[s] PROVE Rest(t)'
    BY <1>15, <1>ty, <1>rest, ApplyAssumption, SessionFrame, <2>6
       DEF Finish, RecordItems, At, Goto, providerVars, TypeOK, LoopOK
  <2>7. ASSUME NEW t \in Session, t # s, task[t] = task[s] PROVE Rest(t)'
    <3>1. pc[t] = "idle"
      <4>1. pc[s] \in ApplyPoints \ {"locking", "claim"} /\ task[s] \notin raced
        BY <1>15 DEF Finish, At, ApplyPoints
      <4>2. pc[t] \notin ApplyPoints
        BY <4>1, <1>ty, <2>7 DEF OneExecutor
      <4>3. pc[t] \notin ReconcilePoints
        BY <4>1, <2>own, <1>apart, <2>7
      <4>4. QED
        BY <4>2, <4>3, <1>ty DEF TypeOK, Points
    <3>2. QED
      BY <1>15, <1>ty, <1>rest, <3>1, <2>7, ApplyAssumption, SessionFrame
         DEF Finish, At, Goto, TypeOK
  <2>8. ASSUME NEW t \in Session PROVE TokenOK(t)'
    BY <1>15, <1>tk
       DEF Finish, RecordItems, At, Goto, TokenOK, Claimed, Owns, UncheckedPoints, Points,
           ApplyPoints
  <2>9. EarlyOK(s)'
    BY <1>15, <1>ea DEF Finish, RecordItems, At, Goto, EarlyOK, EarlyPoints
  <2>10. OwnerOK(s)'
    BY ZenonT(60), <1>15, <1>ty, ApplyAssumption, <1>ow
       DEF Finish, RecordItems, At, Goto, providerVars, TypeOK, OwnerOK, Owns, ApplyPoints
  <2>11. ResultsOK(s)'
    BY <1>15, <1>ty, ApplyAssumption, <1>re
       DEF Finish, RecordItems, At, Goto, providerVars, TypeOK, ResultsOK, Owns, LoopPoints,
           ApplyPoints, Sending, Uncertain, LoopOK
  <2>12. ReadBackOK(s)'
    BY <1>15, <1>rb DEF Finish, RecordItems, At, Goto, ReadBackOK, Owns, ReconcilePoints
  <2>13. QED
    BY ONLY <2>1, <2>2, <2>3, <2>4, <2>5, <2>6, <2>7, <2>8, <2>9, <2>10, <2>11, <2>12,
        ApplyAssumption
       DEF LockConc, JobInv, SessionInv, Rest
<1>16. ASSUME NEW s \in Session, Complete(s), task[s] \notin raced
       PROVE  LockConc'
  <2>own. /\ Owns(s) /\ jobStatus[task[s]] = "running" /\ task[s] \in Job
          /\ \A i \in Scope[task[s]] :
                /\ lock[i] = task[s] /\ i \in Listing
                /\ latest[task[s]][i] = result[s][i] /\ result[s][i] \in Result
                /\ item[task[s]][i] = ItemAfter(result[s][i])
    <3>1. Owns(s) /\ task[s] \in Job /\ Scope[task[s]] \subseteq Listing /\ pc[s] = "status"
      BY <1>16, <1>ty, <1>tk, ApplyAssumption
         DEF Complete, At, TokenOK, UncheckedPoints, LoopOK
    <3>2. jobStatus[task[s]] = "running" /\ \A i \in Scope[task[s]] : lock[i] = task[s]
      BY <1>16, <3>1, <1>ow DEF OwnerOK, ApplyPoints
    <3>3. \A i \in Scope[task[s]] : latest[task[s]][i] = result[s][i] /\ result[s][i] \in Result
      BY <1>16, <3>1, <1>re, <1>ty DEF ResultsOK, LoopOK, TypeOK
    <3>4. \A i \in Scope[task[s]] : item[task[s]][i] = ItemAfter(result[s][i])
      BY <1>16, <3>1, <1>re DEF ResultsOK
    <3>5. QED
      BY <3>1, <3>2, <3>3, <3>4
  <2>1. ASSUME NEW k \in Job, k # task[s] PROVE JobInv(k)'
    BY <1>16, <1>jobs, JobFrame, <2>1
       DEF Complete, Released, StatusFromResults, At, providerVars
  <2>2. ASSUME NEW k \in Job, k = task[s] PROVE EvidenceOK(k)'
    BY <1>16, <2>2, <1>ev DEF Complete, Released, StatusFromResults, At, EvidenceOK
  <2>3. ASSUME NEW k \in Job, k = task[s] PROVE ItemsOK(k)'
    BY <1>16, <2>3, <2>own, <1>it DEF Complete, ItemsOK
  <2>4. ASSUME NEW k \in Job, k = task[s] PROVE UncertainLocked(k)'
    <3>1. \A i \in Listing : latest[k][i] \in Uncertain \/ item[k][i] \in UncertainItem =>
             i \in Scope[k] /\ result[s][i] = "reconciliation_required"
      BY <1>16, <2>own, <2>4, <1>ev DEF EvidenceOK, ItemAfter, Result, Uncertain, UncertainItem
    <3>2. QED
      BY <1>16, <2>own, <2>4, <3>1
         DEF Complete, StatusFromResults, UncertainLocked, Unfinished
  <2>5. ASSUME NEW k \in Job, k = task[s] PROVE WireOK(k)'
    BY <1>16, <2>5, <1>wi
       DEF Complete, Released, StatusFromResults, At, providerVars, WireOK, Uncertain
  <2>6. ASSUME NEW t \in Session, t # s, task[t] # task[s] PROVE Rest(t)'
    BY <1>16, <1>ty, <1>rest, ApplyAssumption, SessionFrame, <2>6
       DEF Complete, Released, StatusFromResults, At, Leave, NoResult, providerVars, TypeOK,
           LoopOK
  <2>7. ASSUME NEW t \in Session, t # s, task[t] = task[s] PROVE Rest(t)'
    <3>1. pc[t] = "idle"
      BY <1>16, <2>own, <1>ty, <1>apart, <2>7
         DEF Complete, At, OneExecutor, TypeOK, Points, ApplyPoints
    <3>2. QED
      BY <1>16, <1>ty, <1>rest, <3>1, <2>7, ApplyAssumption, SessionFrame
         DEF Complete, At, Leave, TypeOK
  <2>8. ASSUME NEW t \in Session PROVE TokenOK(t)'
    BY <1>16, <1>ty, <1>tk
       DEF Complete, Released, StatusFromResults, At, Leave, TypeOK, TokenOK, Claimed, Owns,
           UncheckedPoints, Points, ApplyPoints, ReconcilePoints, LoopOK
  <2>9. EarlyOK(s)'
    BY <1>16, <1>ty, <1>ea
       DEF Complete, Released, StatusFromResults, At, Leave, NoResult, TypeOK, EarlyOK,
           EarlyPoints
  <2>10. OwnerOK(s)'
    BY <1>16, <1>ty, <1>ow
       DEF Complete, Released, StatusFromResults, At, Leave, TypeOK, OwnerOK, Owns,
           ApplyPoints
  <2>11. ResultsOK(s)'
    BY <1>16, <1>ty, <1>re
       DEF Complete, Released, StatusFromResults, At, Leave, NoResult, TypeOK, ResultsOK,
           Owns, LoopPoints, Sending, Uncertain
  <2>12. ReadBackOK(s)'
    BY <1>16, <1>rb
       DEF Complete, Released, StatusFromResults, At, Leave, ReadBackOK, Owns,
           ReconcilePoints
  <2>13. QED
    BY ONLY <2>1, <2>2, <2>3, <2>4, <2>5, <2>6, <2>7, <2>8, <2>9, <2>10, <2>11, <2>12,
        ApplyAssumption
       DEF LockConc, JobInv, SessionInv, Rest
<1>17. ASSUME NEW s \in Session, Abort(s), task[s] \notin raced
       PROVE  LockConc'
  <2>live. task[s] \in Job /\ jobStatus[task[s]] # "absent"
    BY <1>17, <1>ty DEF OneExecutor, LoopOK, Abort, ApplyPoints
  <2>1. ASSUME NEW k \in Job, k # task[s] PROVE JobInv(k)'
    BY <1>17, <1>jobs, JobFrame, <2>1 DEF Abort, Released, providerVars
  <2>2. ASSUME NEW k \in Job, k = task[s] PROVE EvidenceOK(k)'
    BY <1>17, <2>2, <1>ev DEF Abort, Released, Leave, EvidenceOK
  <2>3. ASSUME NEW k \in Job, k = task[s] PROVE ItemsOK(k)'
    BY <1>17, <2>3, <2>live, <1>it DEF Abort, ItemsOK
  <2>4. ASSUME NEW k \in Job, k = task[s] PROVE UncertainLocked(k)'
    <3>1. CASE DispatchedEver(task[s])
      BY <1>17, <2>4, <2>live, <1>un, <3>1 DEF Abort, UncertainLocked, Unfinished
    <3>2. CASE ~DispatchedEver(task[s])
      BY <2>4, <1>ev, <1>it, <3>2, <1>17
         DEF Abort, UncertainLocked, DispatchedEver, EvidenceOK, ItemsOK, Uncertain
    <3>3. QED
      BY <3>1, <3>2
  <2>5. ASSUME NEW k \in Job, k = task[s] PROVE WireOK(k)'
    BY <1>17, <2>5, <1>wi DEF Abort, Released, providerVars, WireOK, Uncertain
  <2>6. ASSUME NEW t \in Session, t # s, task[t] # task[s] PROVE Rest(t)'
    BY <1>17, <1>ty, <1>rest, ApplyAssumption, SessionFrame, <2>6
       DEF Abort, Released, Leave, NoResult, providerVars, TypeOK, LoopOK
  <2>7. ASSUME NEW t \in Session, t # s, task[t] = task[s] PROVE Rest(t)'
    <3>1. pc[s] \in ApplyPoints
      BY <1>17 DEF Abort, ApplyPoints
    <3>2. pc[t] \notin ApplyPoints
      BY <3>1, <1>ty, <2>7 DEF OneExecutor
    <3>3. pc[t] # "idle" => jobStatus'[task[s]] = "reconciliation_required"
      <4>1. pc[t] # "idle" => DispatchedEver(task[t])
        BY <1>17, <1>ty, <1>rb, <2>7, <3>2 DEF ReadBackOK, TypeOK, Points
      <4>2. QED
        BY <1>17, <1>ty, <2>live, <2>7, <4>1 DEF Abort, TypeOK
    <3>4. QED
      BY <1>17, <1>ty, <1>rest, <2>7, <3>2, <3>3, ApplyAssumption, ReconcilerFrame
         DEF Abort, Leave, TypeOK, LoopOK, Owns, providerVars
  <2>8. ASSUME NEW t \in Session PROVE TokenOK(t)'
    BY <1>17, <1>ty, <1>tk
       DEF Abort, Released, Leave, TypeOK, TokenOK, Claimed, Owns, UncheckedPoints, Points,
           ApplyPoints, ReconcilePoints
  <2>9. EarlyOK(s)'
    BY <1>17, <1>ty, <1>ea
       DEF Abort, Released, Leave, NoResult, TypeOK, EarlyOK, EarlyPoints
  <2>10. OwnerOK(s)'
    BY <1>17, <1>ty, <1>ow DEF Abort, Released, Leave, TypeOK, OwnerOK, Owns, ApplyPoints
  <2>11. ResultsOK(s)'
    BY <1>17, <1>ty, <1>re
       DEF Abort, Released, Leave, NoResult, TypeOK, ResultsOK, Owns, LoopPoints, Sending,
           Uncertain
  <2>12. ReadBackOK(s)'
    BY <1>17, <1>ty, <1>rb
       DEF Abort, Released, Leave, TypeOK, ReadBackOK, Owns, ReconcilePoints
  <2>13. QED
    BY ONLY <2>1, <2>2, <2>3, <2>4, <2>5, <2>6, <2>7, <2>8, <2>9, <2>10, <2>11, <2>12,
        ApplyAssumption
       DEF LockConc, JobInv, SessionInv, Rest
<1>18. ASSUME NEW s \in Session, NEW j \in Job, StartReconcile(s, j), j \notin raced
       PROVE  LockConc'
  <2>1. ASSUME NEW k \in Job PROVE JobInv(k)'
    BY <1>18, <1>jobs, JobFrame DEF StartReconcile, dbVars, providerVars
  <2>2. ASSUME NEW t \in Session, t # s PROVE Rest(t)'
    BY <1>18, <1>ty, <1>rest, ApplyAssumption, SessionFrame, <2>2
       DEF StartReconcile, At, Goto, dbVars, providerVars, TypeOK
  <2>3. ASSUME NEW t \in Session PROVE TokenOK(t)'
    BY <1>18, <1>ty, <1>tk
       DEF StartReconcile, At, Goto, dbVars, TypeOK, TokenOK, Claimed, Owns, Points,
           ApplyPoints, ReconcilePoints
  <2>4. EarlyOK(s)' /\ OwnerOK(s)'
    BY <1>18, <1>ty DEF StartReconcile, At, Goto, TypeOK, EarlyOK, OwnerOK, EarlyPoints,
       ApplyPoints
  <2>5. ResultsOK(s)'
    BY <1>18, <1>ty DEF StartReconcile, At, Goto, TypeOK, ResultsOK, LoopPoints, ApplyPoints
  <2>6. ReadBackOK(s)'
    <3>1. /\ pc'[s] = "r_claim" /\ task'[s] = j
          /\ batch'[s] = {i \in Scope[j] : item[j][i] = "reconciliation_required"}
          /\ todo'[s] = {ChannelOf[i] : i \in UncertainListings(j)}
          /\ \A i \in Listing : result'[s][i] =
                IF i \in UncertainListings(j) THEN "reconciliation_required" ELSE "none"
          /\ item' = item /\ jobStatus' = jobStatus /\ events' = events
          /\ jobStatus[j] = "reconciliation_required"
      BY <1>18, <1>ty DEF StartReconcile, Channels, Goto, TypeOK, dbVars
    <3>2. UncertainListings(j) \subseteq Scope[j] /\ UncertainListings(j) \subseteq Listing
          /\ UncertainListings(j) # {} /\ batch'[s] \subseteq UncertainListings(j)
          /\ \A i \in UncertainListings(j) : item[j][i] \in UncertainItem
      BY <1>18, <3>1, ApplyAssumption DEF StartReconcile, UncertainListings, UncertainItem
    <3>3. \A i \in Scope[j] : item[j][i] # "pending"
      BY <1>18, <1>it, <3>2 DEF ItemsOK, UncertainItem
    <3>4. DispatchedEver(j)
      BY <1>18, <1>it, <3>2 DEF ItemsOK, DispatchedEver
    <3>5. QED
      BY <3>1, <3>2, <3>3, <3>4 DEF ReadBackOK, DispatchedEver
  <2>8. QED
    BY ONLY <2>1, <2>2, <2>3, <2>4, <2>5, <2>6, ApplyAssumption
       DEF LockConc, JobInv, SessionInv, Rest
<1>18a. ASSUME NEW s \in Session, ClaimReconcile(s), task[s] \notin raced'
        PROVE  LockConc'
  <2>own. /\ task[s] \in Job /\ task[s] \notin raced /\ raced' = raced /\ ReadIsCurrent(s)
          /\ Scope[task[s]] \subseteq Listing
          /\ pc[s] = "r_claim" /\ jobStatus[task[s]] = "reconciliation_required"
    BY <1>18a, <1>ty, ApplyAssumption DEF ClaimReconcile, At, LoopOK, ReadIsCurrent
  <2>mark. \A i \in batch[s] : /\ result[s][i] # "none" /\ i \in Scope[task[s]]
                              /\ item[task[s]][i] \in UncertainItem
    BY <1>ty, <1>rb, <2>own
       DEF ReadBackOK, ReconcilePoints, ReadIsCurrent, UncertainListings, LoopOK
  <2>it. \A k \in Job, i \in Listing :
            item'[k][i] = IF k = task[s] /\ i \in batch[s] THEN "recovering" ELSE item[k][i]
    BY <1>18a, <1>ty, <2>own DEF ClaimReconcile, TypeOK
  <2>1. ASSUME NEW k \in Job, k # task[s] PROVE JobInv(k)'
    BY <1>18a, <1>ty, <1>jobs, JobFrame, <2>1, <2>own
       DEF ClaimReconcile, ClaimLease, providerVars, TypeOK
  <2>2. ASSUME NEW k \in Job, k = task[s] PROVE EvidenceOK(k)'
    BY <1>18a, <2>2, <2>own, <2>mark, <2>it, <1>ev DEF ClaimReconcile, EvidenceOK
  <2>3. ASSUME NEW k \in Job, k = task[s] PROVE ItemsOK(k)'
    <3>1. jobStatus' = jobStatus /\ latest' = latest /\ events' = events
      BY <1>18a DEF ClaimReconcile
    <3>2. ItemsOK(k) /\ \A i \in Scope[k] : item[k][i] # "pending"
      BY <1>it, <1>rb, <2>own, <2>3 DEF ReadBackOK, ReconcilePoints
    <3>3. QED
      BY <2>3, <2>own, <2>mark, <2>it, <3>1, <3>2 DEF ItemsOK, UncertainItem
  <2>4. ASSUME NEW k \in Job, k = task[s] PROVE UncertainLocked(k)'
    BY <1>18a, <2>4, <2>own, <2>mark, <2>it, <1>un DEF ClaimReconcile, UncertainLocked
  <2>5. ASSUME NEW k \in Job, k = task[s] PROVE WireOK(k)'
    BY <1>18a, <2>5, <2>own, <1>wi DEF ClaimReconcile, providerVars, WireOK
  <2>6. ASSUME NEW t \in Session, t # s, task[t] # task[s] PROVE Rest(t)'
    BY <1>18a, <1>ty, <1>rest, ApplyAssumption, SessionFrame, <2>6, <2>own
       DEF ClaimReconcile, ClaimLease, At, Goto, providerVars, TypeOK, LoopOK
  <2>7. ASSUME NEW t \in Session, t # s, task[t] = task[s] PROVE Rest(t)'
    <3>1. pc[t] # "idle" /\ pc[t] # "r_claim" =>
             pc[t] \notin UncheckedPoints /\ token[t] <= fence[task[s]]
      BY <1>tk, <1>over, <1>ty, <2>7, <2>own
         DEF ReadIsCurrent, TokenOK, Claimed, UncheckedPoints, TypeOK
    <3>2. pc[t] # "idle" /\ pc[t] # "r_claim" => ~Owns(t)'
      BY <1>18a, <1>ty, <3>1, <2>7, <2>own DEF ClaimReconcile, ClaimLease, Owns, TypeOK
    <3>3. pc[t] \notin EarlyPoints
      BY <1>alone, <2>7, <2>own
    <3>4. \A l \in Scope[task[s]] :
             item[task[s]][l] # "pending" => item'[task[s]][l] # "pending"
      BY <2>it, <2>own
    <3>5. pc[t] = "send" => \A l \in Sending(t) : latest[task[s]][l] \in Uncertain
      BY <1>re, <2>7, <2>own DEF ResultsOK
    <3>6. DispatchedEver(task[s])'
      BY <1>18a, <1>rb, <2>own DEF ClaimReconcile, ReadBackOK, ReconcilePoints, DispatchedEver
    <3>7. pc[t] = "r_claim" => pc[t] \notin EarlyPoints /\ pc[t] \notin LoopPoints
      BY DEF EarlyPoints, LoopPoints
    <3>8. QED
      BY <1>18a, <1>ty, <1>rest, <2>7, <2>own, <3>1, <3>2, <3>3, <3>4, <3>5, <3>6, <3>7,
         ApplyAssumption, FencedFrame
         DEF ClaimReconcile, Goto, TypeOK, LoopOK, providerVars, UncheckedPoints
  <2>8. ASSUME NEW t \in Session PROVE TokenOK(t)'
    BY <1>18a, <1>ty, <1>tk, <1>over, <2>own
       DEF ClaimReconcile, ClaimLease, ReadIsCurrent, At, Goto, TypeOK, TokenOK, Claimed, Owns,
           Points, UncheckedPoints, ApplyPoints, ReconcilePoints
  <2>9. EarlyOK(s)' /\ OwnerOK(s)'
    BY <1>18a, <1>ty DEF ClaimReconcile, Goto, TypeOK, EarlyOK, OwnerOK, EarlyPoints,
       ApplyPoints
  <2>10. ResultsOK(s)'
    BY <1>18a, <1>ty, <1>re, <2>own
       DEF ClaimReconcile, Goto, TypeOK, ResultsOK, LoopPoints, ApplyPoints, providerVars
  <2>11. ReadBackOK(s)'
    <3>1. /\ pc'[s] = "r_verify" /\ task'[s] = task[s] /\ batch'[s] = {} /\ todo' = todo
          /\ result' = result /\ jobStatus' = jobStatus /\ events' = events /\ latest' = latest
      BY <1>18a, <1>ty DEF ClaimReconcile, Goto, TypeOK
    <3>2. \A i \in Listing : result[s][i] # "none" =>
             item'[task[s]][i] \in UncertainItem /\ ChannelOf[i] \in todo[s]
      BY <2>own, <2>it, <1>rb
         DEF ReadIsCurrent, UncertainListings, UncertainItem, ReadBackOK, ReconcilePoints
    <3>3. \A i \in Scope[task[s]] : item'[task[s]][i] # "pending"
      BY <2>own, <2>it, <1>rb DEF ReadBackOK, ReconcilePoints
    <3>4. QED
      BY <2>own, <3>1, <3>2, <3>3, <1>rb DEF ReadBackOK, ReconcilePoints, DispatchedEver
  <2>13. QED
    BY ONLY <2>own, <2>1, <2>2, <2>3, <2>4, <2>5, <2>6, <2>7, <2>8, <2>9, <2>10, <2>11,
        ApplyAssumption
       DEF LockConc, JobInv, SessionInv, Rest
<1>18b. ASSUME NEW s \in Session, ReconcileRefused(s), task[s] \notin raced
        PROVE  LockConc'
  <2>1. ASSUME NEW k \in Job PROVE JobInv(k)'
    BY <1>18b, <1>jobs, JobFrame DEF ReconcileRefused, dbVars, providerVars
  <2>2. ASSUME NEW t \in Session, t # s PROVE Rest(t)'
    BY <1>18b, <1>ty, <1>rest, ApplyAssumption, SessionFrame, <2>2
       DEF ReconcileRefused, Leave, dbVars, providerVars
  <2>3. ASSUME NEW t \in Session PROVE TokenOK(t)'
    BY <1>18b, <1>ty, <1>tk
       DEF ReconcileRefused, Leave, dbVars, TypeOK, TokenOK, Claimed, Owns, UncheckedPoints,
           Points, ApplyPoints, ReconcilePoints
  <2>4. Rest(s)'
    BY <1>18b, <1>ty
       DEF ReconcileRefused, Leave, NoResult, TypeOK, Rest, EarlyOK, OwnerOK, ResultsOK,
           ReadBackOK, EarlyPoints, ApplyPoints, ReconcilePoints, LoopPoints
  <2>5. QED
    BY ONLY <2>1, <2>2, <2>3, <2>4 DEF LockConc, SessionInv
<1>19. ASSUME NEW s \in Session, NEW c \in Channel, NEW V \in SUBSET Listing,
               ReadBack(s, c, V), task[s] \notin raced
       PROVE  LockConc'
  <2>lease. Owns(s)' <=> Owns(s)
    BY <1>19 DEF ReadBack, Owns, dbVars
  <2>1. ASSUME NEW k \in Job PROVE JobInv(k)'
    BY <1>19, <1>jobs, JobFrame DEF ReadBack, dbVars, providerVars
  <2>2. ASSUME NEW t \in Session, t # s PROVE Rest(t)'
    BY <1>19, <1>ty, <1>rest, ApplyAssumption, SessionFrame, <2>2
       DEF ReadBack, OfChannel, At, Goto, dbVars, providerVars, TypeOK
  <2>3. ASSUME NEW t \in Session PROVE TokenOK(t)'
    BY <1>19, <1>tk
       DEF ReadBack, OfChannel, At, Goto, dbVars, TokenOK, Claimed, Owns, Points,
           ReconcilePoints
  <2>4. EarlyOK(s)'
    BY <1>19, <1>ea DEF ReadBack, OfChannel, At, Goto, EarlyOK, EarlyPoints
  <2>5. OwnerOK(s)'
    BY <1>19, <1>ow DEF ReadBack, OfChannel, At, Goto, OwnerOK, Owns, ApplyPoints
  <2>6. ResultsOK(s)'
    BY <1>19, <1>ty, <1>re, <1>wi, <1>rb
       DEF ReadBack, OfChannel, At, Goto, providerVars, ResultsOK, Owns, LoopPoints,
           ApplyPoints, Sending, Uncertain, WireOK, ReadBackOK, LoopOK
  <2>7. ReadBackOK(s)'
    <3> DEFINE L == {i \in OfChannel(Scope[task[s]], c) : result[s][i] # "none"}
    <3>1. /\ pc[s] = "r_verify" /\ pc'[s] = "r_record" /\ task'[s] = task[s]
          /\ todo'[s] = todo[s] \ {c} /\ batch'[s] = L /\ task[s] \in Job /\ batch[s] = {}
          /\ \A i \in Listing :
                result'[s][i] = IF i \in V THEN "verified_applied" ELSE result[s][i]
          /\ item' = item /\ latest' = latest
      BY <1>19, <1>ty DEF ReadBack, At, Goto, TypeOK, LoopOK, dbVars
    <3>2. /\ Scope[task[s]] \subseteq Listing /\ L \subseteq Scope[task[s]] /\ V \subseteq L
          /\ \A i \in L : result[s][i] # "none"
          /\ \A i \in Scope[task[s]] : ChannelOf[i] = c /\ result[s][i] # "none" => i \in L
      BY <1>19, <3>1, ApplyAssumption DEF ReadBack, OfChannel
    <3>3. \A i \in Listing : result'[s][i] # "none" <=> result[s][i] # "none"
      BY <3>1, <3>2
    <3>4. QED
      BY <1>19, <2>lease, <3>1, <3>2, <3>3, <1>rb, SMTT(40)
         DEF ReadBack, dbVars, ReadBackOK, ReconcilePoints, DispatchedEver
  <2>8. QED
    BY ONLY <2>1, <2>2, <2>3, <2>4, <2>5, <2>6, <2>7, ApplyAssumption
       DEF LockConc, JobInv, SessionInv, Rest
<1>20. ASSUME NEW s \in Session, RecordReadBack(s), task[s] \notin raced
       PROVE  LockConc'
  <2>ap. /\ \A k \in Job, i \in Listing :
               IF k = task[s] /\ i \in batch[s]
               THEN /\ latest'[k][i] = result[s][i]
                    /\ events'[k][i] = events[k][i] \cup {result[s][i]}
               ELSE latest'[k][i] = latest[k][i] /\ events'[k][i] = events[k][i]
         /\ task[s] \in Job /\ Scope[task[s]] \subseteq Listing
         /\ jobStatus[task[s]] # "absent"
         /\ \A k \in Job : k # task[s] => events'[k] = events[k] /\ latest'[k] = latest[k]
    BY <1>20, <1>ty, ApplyAssumption, AppendFacts
       DEF RecordReadBack, AppendEvents, OneExecutor, LoopOK, At, TypeOK
  <2>lease. Owns(s)' <=> Owns(s)
    BY <1>20 DEF RecordReadBack, Owns
  <2>own. /\ Owns(s) /\ pc[s] = "r_record" /\ task[s] \in Job
          /\ \A i \in batch[s] :
                /\ i \in Scope[task[s]] /\ i \in Listing
                /\ item[task[s]][i] \in UncertainItem
                /\ latest[task[s]][i] \in Uncertain \cup {"verified_applied"}
                /\ lock[i] = task[s] /\ jobStatus[task[s]] \in Unfinished
                /\ result[s][i] \in {"verified_applied", "reconciliation_required"}
                /\ result[s][i] = "verified_applied" =>
                      <<task[s], i>> \notin wire /\ sent[task[s]][i] = 1
    <3>1. Owns(s) /\ pc[s] = "r_record" /\ task[s] \in Job /\ Scope[task[s]] \subseteq Listing
      BY <1>20, <1>ty, <1>tk, ApplyAssumption
         DEF RecordReadBack, At, TokenOK, UncheckedPoints, LoopOK
    <3>2. \A i \in batch[s] :
                /\ i \in Scope[task[s]] /\ i \in Listing
                /\ item[task[s]][i] \in UncertainItem
                /\ result[s][i] \in {"verified_applied", "reconciliation_required"}
      <4>1. \A i \in batch[s] : i \in Scope[task[s]] /\ i \in Listing
        BY <3>1, <1>ty DEF LoopOK
      <4>2. \A i \in batch[s] : /\ result[s][i] # "none" /\ result[s][i] # "failed"
                                /\ item[task[s]][i] \in UncertainItem
        BY <1>20, <3>1, <4>1, <1>rb DEF ReadBackOK, ReconcilePoints
      <4>3. QED
        BY <4>1, <4>2, <1>ty DEF TypeOK, Result
    <3>3. QED
      BY <1>20, <3>1, <3>2, <1>it, <1>un, <1>re
         DEF ItemsOK, UncertainLocked, UncertainItem, ResultsOK
  <2>1. ASSUME NEW k \in Job, k # task[s] PROVE JobInv(k)'
    BY <1>20, <1>jobs, JobFrame, <2>1, <2>ap
       DEF RecordReadBack, AfterReadBack, At, providerVars
  <2>2. ASSUME NEW k \in Job, k = task[s] PROVE EvidenceOK(k)'
    <3>1. /\ \A i \in batch[s] :
                /\ i \in Scope[k] /\ i \in Listing /\ item[k][i] \in UncertainItem
                /\ latest'[k][i] = result[s][i]
                /\ result[s][i] \in {"verified_applied", "reconciliation_required"}
                /\ events'[k][i] = events[k][i] \cup {result[s][i]}
          /\ \A i \in Listing : i \notin batch[s] =>
                latest'[k][i] = latest[k][i] /\ events'[k][i] = events[k][i]
          /\ item' = item /\ jobStatus' = jobStatus /\ jobStatus[k] # "absent"
      BY <1>20, <2>ap, <2>own, <2>2 DEF RecordReadBack
    <3>2. EvidenceOK(k)
      BY <1>20, <1>ev, <2>2
    <3>3. QED
      BY <3>1, <3>2 DEF EvidenceOK
  <2>3. ASSUME NEW k \in Job, k = task[s] PROVE ItemsOK(k)'
    <3>1. /\ \A i \in batch[s] :
                /\ i \in Scope[k] /\ i \in Listing /\ item[k][i] \in UncertainItem
                /\ latest'[k][i] = result[s][i]
                /\ result[s][i] \in {"verified_applied", "reconciliation_required"}
                /\ events'[k][i] = events[k][i] \cup {result[s][i]}
          /\ \A i \in Listing : i \notin batch[s] =>
                latest'[k][i] = latest[k][i] /\ events'[k][i] = events[k][i]
          /\ item' = item /\ jobStatus' = jobStatus /\ jobStatus[k] # "absent"
      BY <1>20, <2>ap, <2>own, <2>3 DEF RecordReadBack
    <3>2. ItemsOK(k)
      BY <1>20, <1>it, <2>3
    <3>3. QED
      BY <3>1, <3>2 DEF ItemsOK, Uncertain, UncertainItem
  <2>4. ASSUME NEW k \in Job, k = task[s] PROVE UncertainLocked(k)'
    BY ZenonT(60), <1>20, <2>4, <2>ap, <2>own, <1>un DEF RecordReadBack, UncertainLocked, Uncertain
  <2>5. ASSUME NEW k \in Job, k = task[s] PROVE WireOK(k)'
    BY <1>20, <2>5, <2>ap, <2>own, <1>wi DEF RecordReadBack, WireOK, Uncertain, providerVars
  <2>6. ASSUME NEW t \in Session, t # s, task[t] # task[s] PROVE Rest(t)'
    BY ZenonT(60), <1>20, <1>ty, <1>rest, ApplyAssumption, SessionFrame, <2>6, <2>ap
       DEF RecordReadBack, AfterReadBack, At, Goto, providerVars, TypeOK, LoopOK
  <2>7. ASSUME NEW t \in Session, t # s, task[t] = task[s] PROVE Rest(t)'
    <3>1. /\ \A i \in Listing : latest'[task[s]][i] =
                IF i \in batch[s] THEN result[s][i] ELSE latest[task[s]][i]
          /\ Claimed(s) /\ pc[s] \in ReconcilePoints
      BY <2>ap, <2>own DEF Claimed, Points, ReconcilePoints
    <3>2. pc[t] # "idle" /\ pc[t] # "r_claim" =>
             ~Owns(t) /\ pc[t] \notin UncheckedPoints /\ pc[t] \notin EarlyPoints
      <4>1. pc[t] \notin EarlyPoints
        BY <1>20, <2>own, <3>1, <1>alone, <2>7
      <4>2. pc[t] # "idle" /\ pc[t] # "r_claim" => Claimed(t) /\ ~Owns(t)
        BY <2>own, <3>1, <4>1, <1>ty, <1>one, <2>7 DEF Claimed, EarlyPoints, TypeOK
      <4>3. QED
        BY <1>20, <4>1, <4>2, <1>tk, <2>7 DEF TokenOK, EarlyPoints
    <3>3. pc[t] = "send" => \A l \in Sending(t) : latest'[task[s]][l] \in Uncertain
      <4> SUFFICES ASSUME pc[t] = "send", NEW l \in Sending(t)
                   PROVE  latest'[task[s]][l] \in Uncertain
        OBVIOUS
      <4>1. l \in Listing /\ latest[task[s]][l] \in Uncertain /\ sent[task[s]][l] = 0
        BY <1>20, <1>ty, <1>re, <1>se, <2>7 DEF ResultsOK, Sending, SentInv, NotSentYet, TypeOK
      <4>2. QED
        <5>1. CASE l \in batch[s]
          <6>1. sent[task[s]][l] # 1
            BY <4>1
          <6>2. result[s][l] = "reconciliation_required"
            BY <2>own, <5>1, <6>1
          <6>3. QED
            BY <3>1, <4>1, <5>1, <6>2 DEF Uncertain
        <5>2. CASE l \notin batch[s]
          BY <3>1, <4>1, <5>2
        <5>3. QED
          BY <5>1, <5>2
    <3>4. /\ \A i \in Listing : latest[task[s]][i] = "dispatch_intent_recorded" =>
                latest'[task[s]][i] = "dispatch_intent_recorded"
          /\ item' = item /\ held' = held /\ fence' = fence /\ sent' = sent /\ wire' = wire
          /\ pc'[t] = pc[t] /\ task'[t] = task[t] /\ token'[t] = token[t]
          /\ todo'[t] = todo[t] /\ batch'[t] = batch[t] /\ result'[t] = result[t]
      BY <1>20, <2>ap, <2>own, <2>7, <1>ty
         DEF RecordReadBack, Goto, TypeOK, Uncertain, providerVars
    <3>5. pc[t] # "idle" /\ pc[t] # "r_claim" => ~Owns(t)'
      BY <3>2, <3>4 DEF Owns
    <3>6. pc[t] \in ReconcilePoints =>
             /\ jobStatus'[task[t]] \notin {"absent", "pending", "running"}
             /\ DispatchedEver(task[t])'
      <4>1. ASSUME pc[t] \in ReconcilePoints
            PROVE  /\ DispatchedEver(task[s])
                   /\ jobStatus[task[s]] \notin {"absent", "pending", "running"}
        BY <1>20, <1>rb, <2>7, <4>1 DEF ReadBackOK
      <4>2. \A i \in Listing : events[task[s]][i] \subseteq events'[task[s]][i]
        BY <2>ap
      <4>3. QED
        BY <1>20, <2>7, <4>1, <4>2 DEF RecordReadBack, DispatchedEver
    <3>7. pc[t] = "r_claim" => pc[t] \notin EarlyPoints /\ pc[t] \notin LoopPoints
      BY DEF EarlyPoints, LoopPoints
    <3>8. raced' = raced
      BY <1>20 DEF RecordReadBack
    <3>9. QED
      BY <1>ty, <1>rest, <2>7, <2>own, <3>2, <3>3, <3>4, <3>5, <3>6, <3>7, <3>8,
         ApplyAssumption, FencedFrame
         DEF UncheckedPoints
  <2>8. ASSUME NEW t \in Session PROVE TokenOK(t)'
    BY <1>20, <1>tk
       DEF RecordReadBack, AfterReadBack, At, Goto, TokenOK, Claimed, Owns, UncheckedPoints,
           Points, ReconcilePoints
  <2>9. EarlyOK(s)'
    BY <1>20, <1>ea DEF RecordReadBack, AfterReadBack, At, Goto, EarlyOK, EarlyPoints
  <2>10. OwnerOK(s)'
    BY <1>20, <1>ow DEF RecordReadBack, AfterReadBack, At, Goto, OwnerOK, Owns, ApplyPoints
  <2>11. ResultsOK(s)'
    BY <1>20, <1>re, <1>rb, <1>it
       DEF RecordReadBack, AfterReadBack, At, Goto, providerVars, ResultsOK, Owns,
           LoopPoints, ApplyPoints, Sending, Uncertain, ReadBackOK, ItemsOK, UncertainItem,
           SentInv, NotSentYet
  <2>12. ReadBackOK(s)'
    <3>1. /\ pc'[s] = IF todo[s] = {} THEN "r_settle" ELSE "r_verify"
          /\ task'[s] = task[s] /\ batch'[s] = {} /\ todo'[s] = todo[s]
          /\ result'[s] = result[s] /\ item' = item
      BY <1>20, <1>ty DEF RecordReadBack, AfterReadBack, Goto, TypeOK
    <3>2. \A i \in Listing : latest'[task[s]][i] =
             IF i \in batch[s] THEN result[s][i] ELSE latest[task[s]][i]
      BY <2>ap, <2>own
    <3>3. QED
      <4>1. \A i \in Listing : events[task[s]][i] \subseteq events'[task[s]][i]
        BY <2>ap, <2>own
      <4>2. DispatchedEver(task[s])' /\ jobStatus' = jobStatus
        BY <1>20, <2>own, <3>1, <4>1, <1>rb
           DEF RecordReadBack, ReadBackOK, ReconcilePoints, DispatchedEver
      <4>3. QED
        BY <1>20, <2>own, <3>1, <3>2, <4>2, <1>rb, SMTT(40) DEF ReadBackOK, ReconcilePoints
  <2>13. QED
    BY ONLY <2>1, <2>2, <2>3, <2>4, <2>5, <2>6, <2>7, <2>8, <2>9, <2>10, <2>11, <2>12,
        ApplyAssumption
       DEF LockConc, JobInv, SessionInv, Rest
<1>21. ASSUME NEW s \in Session, CheckReconcileLease(s), task[s] \notin raced
       PROVE  LockConc'
  <2>1. ASSUME NEW k \in Job PROVE JobInv(k)'
    BY <1>21, <1>jobs, JobFrame DEF CheckReconcileLease, dbVars, providerVars
  <2>2. ASSUME NEW t \in Session, t # s PROVE Rest(t)'
    BY <1>21, <1>ty, <1>rest, ApplyAssumption, SessionFrame, <2>2
       DEF CheckReconcileLease, At, Goto, dbVars, providerVars
  <2>3. ASSUME NEW t \in Session PROVE TokenOK(t)'
    BY <1>21, <1>tk
       DEF CheckReconcileLease, At, Goto, dbVars, TokenOK, Claimed, Owns, Points,
           ReconcilePoints
  <2>4. EarlyOK(s)'
    BY <1>21, <1>ea DEF CheckReconcileLease, At, Goto, EarlyOK, EarlyPoints
  <2>5. OwnerOK(s)'
    BY <1>21, <1>ow DEF CheckReconcileLease, At, Goto, OwnerOK, Owns, ApplyPoints
  <2>6. ResultsOK(s)'
    BY <1>21, <1>re
       DEF CheckReconcileLease, At, Goto, providerVars, ResultsOK, Owns, LoopPoints,
           ApplyPoints, Sending, Uncertain
  <2>7. ReadBackOK(s)'
    <3>1. /\ pc[s] = "r_settle" /\ pc'[s] = "r_finish" /\ (Owns(s)' <=> Owns(s))
          /\ UNCHANGED <<dbVars, task, todo, batch, result>>
      BY <1>21, <1>ty DEF CheckReconcileLease, At, Goto, TypeOK, Owns, dbVars
    <3>2. QED
      BY <1>21, <3>1, <1>rb DEF dbVars, ReadBackOK, ReconcilePoints, DispatchedEver
  <2>8. QED
    BY ONLY <2>1, <2>2, <2>3, <2>4, <2>5, <2>6, <2>7, ApplyAssumption
       DEF LockConc, JobInv, SessionInv, Rest
<1>22. ASSUME NEW s \in Session, FinishReconcile(s), task[s] \notin raced
       PROVE  LockConc'
  <2>own. /\ Owns(s) /\ pc[s] = "r_finish" /\ task[s] \in Job
          /\ jobStatus[task[s]] # "absent"
          /\ \A i \in Scope[task[s]] :
                /\ i \in Listing /\ item[task[s]][i] # "pending"
                /\ result[s][i] # "none" =>
                      /\ item[task[s]][i] \in UncertainItem
                      /\ latest[task[s]][i] = result[s][i]
                      /\ lock[i] = task[s] /\ jobStatus[task[s]] \in Unfinished
                      /\ result[s][i] \in {"verified_applied", "reconciliation_required"}
    <3>1. /\ Owns(s) /\ pc[s] = "r_finish"
          /\ task[s] \in Job /\ Scope[task[s]] \subseteq Listing
          /\ jobStatus[task[s]] # "absent"
      BY <1>22, <1>ty, <1>tk, ApplyAssumption
         DEF FinishReconcile, At, TokenOK, UncheckedPoints, LoopOK, OneExecutor
    <3>2. \A i \in Scope[task[s]] :
             /\ item[task[s]][i] # "pending"
             /\ result[s][i] # "none" => /\ item[task[s]][i] \in UncertainItem
                                        /\ latest[task[s]][i] = result[s][i]
                                        /\ result[s][i] # "failed"
      BY <1>22, <3>1, <1>rb DEF ReadBackOK, ReconcilePoints
    <3>3. QED
      BY <1>22, <3>1, <3>2, <1>un, <1>ty DEF UncertainLocked, UncertainItem, TypeOK, Result
  <2>js. /\ \A k \in Job : k # task[s] => jobStatus'[k] = jobStatus[k]
         /\ jobStatus'[task[s]] \in
               {jobStatus[task[s]], StatusFromItems({item'[task[s]][l] : l \in Scope[task[s]]})}
    BY <1>22, <1>ty, <2>own DEF FinishReconcile, TypeOK
  <2>1. ASSUME NEW k \in Job, k # task[s] PROVE JobInv(k)'
    BY <1>22, <1>ty, <1>jobs, JobFrame, <2>1, <2>js
       DEF FinishReconcile, RecordItems, Released, At, providerVars, TypeOK
  <2>2. ASSUME NEW k \in Job, k = task[s] PROVE EvidenceOK(k)'
    <3>1. jobStatus'[k] # "absent"
      BY <2>2, <2>js, <2>own, AfterTypes
    <3>2. QED
      BY <1>22, <2>2, <2>own, <3>1, <1>ty, <1>ev
         DEF FinishReconcile, RecordItems, TypeOK, EvidenceOK
  <2>3. ASSUME NEW k \in Job, k = task[s] PROVE ItemsOK(k)'
    BY <1>22, <2>3, <2>own, <1>it, <1>ev
       DEF ItemsOK, EvidenceOK, Uncertain, UncertainItem, FinishReconcile, RecordItems,
           ItemAfter
  <2>4. ASSUME NEW k \in Job, k = task[s] PROVE UncertainLocked(k)'
    <3>1. ItemsOK(k)' /\ jobStatus'[k] # "absent" /\ latest' = latest
      BY <1>22, <2>3, <2>4, <2>js, <2>own, AfterTypes DEF FinishReconcile
    <3>2. \A i \in Listing : item'[k][i] =
             IF i \in Scope[k] /\ result[s][i] # "none"
             THEN ItemAfter(result[s][i])
             ELSE item[k][i]
      BY <1>22, <2>4, <1>ty DEF FinishReconcile, RecordItems, TypeOK
    <3>3. \A i \in Listing : latest'[k][i] \in Uncertain \/ item'[k][i] \in UncertainItem =>
             i \in Scope[k]
      BY <1>22, <2>4, <3>1, <3>2, <1>ev DEF EvidenceOK, Uncertain, UncertainItem
    <3>4. \A i \in Scope[k] : item'[k][i] \in {"applied", "failed"} \cup UncertainItem
      <4>1. \A i \in Scope[k] : item'[k][i] # "pending" /\ item'[k][i] \in ItemStatus
        BY <1>22, <2>own, <2>4, <3>2, <1>ty, AfterTypes
           DEF ItemAfter, UncertainItem, ItemStatus, TypeOK
      <4>2. QED
        BY <3>1, <4>1 DEF ItemsOK, ItemStatus, UncertainItem
    <3>5. \A i \in Scope[k] : latest'[k][i] \in Uncertain => item'[k][i] \in UncertainItem
      BY <2>own, <2>4, <3>1, <3>4 DEF ItemsOK, Uncertain
    <3>6. \A i \in Listing : i \in Scope[k] /\ item'[k][i] \in UncertainItem =>
             item[k][i] \in UncertainItem
      BY <2>own, <2>4, <3>2 DEF UncertainItem
    <3>7. ASSUME NEW i \in Scope[k], item'[k][i] \in UncertainItem
          PROVE  jobStatus'[k] \in {jobStatus[k], "reconciliation_required"} /\ lock' = lock
      <4> DEFINE states == {item'[k][l] : l \in Scope[k]}
      <4>1. item'[k][i] \in states /\ item'[k][i] # "applied"
        BY <3>7 DEF UncertainItem
      <4>2. StatusFromItems(states) = "reconciliation_required"
        BY <3>7, <4>1 DEF StatusFromItems
      <4>3. QED
        BY <1>22, <2>own, <2>4, <4>2, <1>ty DEF FinishReconcile, TypeOK
    <3>8. QED
      BY <1>22, <2>own, <2>4, <3>3, <3>5, <3>6, <3>7, <1>un DEF UncertainLocked, Unfinished
  <2>5. ASSUME NEW k \in Job, k = task[s] PROVE WireOK(k)'
    BY <1>22, <2>5, <1>wi
       DEF FinishReconcile, RecordItems, Released, StatusFromItems, At, providerVars,
           WireOK, Uncertain
  <2>6. ASSUME NEW t \in Session, t # s, task[t] # task[s] PROVE Rest(t)'
    BY <1>22, <1>ty, <1>rest, ApplyAssumption, SessionFrame, <2>6
       DEF FinishReconcile, RecordItems, Released, StatusFromItems, At, Leave, NoResult,
           providerVars, TypeOK, LoopOK
  <2>7. ASSUME NEW t \in Session, t # s, task[t] = task[s] PROVE Rest(t)'
    <3>1. Claimed(s) /\ pc[s] \in ReconcilePoints
      BY <2>own DEF Claimed, Points, ReconcilePoints
    <3>2. \A i \in Scope[task[s]] : item'[task[s]][i] # "pending"
      BY <1>22, <2>own, <1>ty DEF FinishReconcile, RecordItems, ItemAfter, TypeOK
    <3>3. pc[t] # "idle" /\ pc[t] # "r_claim" =>
             ~Owns(t) /\ pc[t] \notin UncheckedPoints /\ pc[t] \notin EarlyPoints
      <4>1. pc[t] \notin EarlyPoints
        BY <1>22, <2>own, <3>1, <1>alone, <2>7
      <4>2. pc[t] # "idle" /\ pc[t] # "r_claim" => Claimed(t) /\ ~Owns(t)
        BY <2>own, <3>1, <4>1, <1>ty, <1>one, <2>7 DEF Claimed, EarlyPoints, TypeOK
      <4>3. QED
        BY <1>22, <4>1, <4>2, <1>tk, <2>7 DEF TokenOK, EarlyPoints
    <3>4. pc[t] = "send" => \A l \in Sending(t) : latest[task[t]][l] \in Uncertain
      BY <1>22, <1>re, <2>7 DEF ResultsOK
    <3>5. task'[t] = task[t]
          /\ jobStatus'[task[t]] \notin {"absent", "pending", "running"}
          /\ DispatchedEver(task[t])'
      <4>1. jobStatus[task[s]] \notin {"absent", "pending", "running"} /\ DispatchedEver(task[s])
        BY <1>22, <3>1, <1>rb DEF ReadBackOK
      <4>2. \A S : StatusFromItems(S) \notin {"absent", "pending", "running"}
        BY DEF StatusFromItems
      <4>3. task'[t] = task[s] /\ events' = events
        BY <1>22, <1>ty, <2>7 DEF FinishReconcile, Leave, TypeOK
      <4>4. DispatchedEver(task[t])'
        BY <2>7, <4>1, <4>3 DEF DispatchedEver
      <4>5. QED
        BY <2>js, <2>7, <4>1, <4>2, <4>3, <4>4
    <3>6. pc[t] = "r_claim" => pc[t] \notin EarlyPoints /\ pc[t] \notin LoopPoints
      BY DEF EarlyPoints, LoopPoints
    <3>7. QED
      <4>1. /\ pc'[t] = pc[t] /\ task'[t] = task[t] /\ token'[t] = token[t]
            /\ todo'[t] = todo[t] /\ batch'[t] = batch[t] /\ result'[t] = result[t]
            /\ held' = held /\ fence' = fence /\ sent' = sent /\ wire' = wire
            /\ latest' = latest /\ raced' = raced
        BY <1>22, <1>ty, <2>7 DEF FinishReconcile, Leave, TypeOK, providerVars
      <4>2. pc[t] # "idle" /\ pc[t] # "r_claim" => ~Owns(t)'
        BY <3>3, <4>1 DEF Owns
      <4>3. Scope[task[s]] \subseteq Listing
        BY <2>own, ApplyAssumption
      <4>4. QED
        BY <1>ty, <1>rest, <2>7, <3>2, <3>3, <3>4, <3>5, <3>6, <4>1, <4>2, <4>3, FencedFrame
           DEF UncheckedPoints
  <2>8. ASSUME NEW t \in Session PROVE TokenOK(t)'
    BY <1>22, <1>ty, <1>tk
       DEF FinishReconcile, RecordItems, Released, StatusFromItems, At, Leave, TypeOK,
           TokenOK, Claimed, Owns, UncheckedPoints, Points, ApplyPoints, ReconcilePoints
  <2>9. EarlyOK(s)'
    BY <1>22, <1>ty, <1>ea
       DEF FinishReconcile, RecordItems, Released, StatusFromItems, At, Leave, NoResult,
           TypeOK, EarlyOK, EarlyPoints
  <2>10. OwnerOK(s)'
    <3>1. pc'[s] = "idle"
      BY <1>22, <1>ty DEF FinishReconcile, Leave, TypeOK
    <3>2. QED
      BY <3>1, <1>ow DEF OwnerOK, ApplyPoints
  <2>11. ResultsOK(s)'
    BY <1>22, <1>ty, <1>re
       DEF FinishReconcile, RecordItems, Released, StatusFromItems, At, Leave, NoResult,
           TypeOK, ResultsOK, Owns, LoopPoints, Sending, Uncertain
  <2>12. ReadBackOK(s)'
    BY <1>22, <1>ty, <1>rb
       DEF FinishReconcile, RecordItems, Released, StatusFromItems, At, Leave, TypeOK,
           ReadBackOK, Owns, ReconcilePoints
  <2>13. QED
    BY ONLY <2>1, <2>2, <2>3, <2>4, <2>5, <2>6, <2>7, <2>8, <2>9, <2>10, <2>11, <2>12,
        ApplyAssumption
       DEF LockConc, JobInv, SessionInv, Rest
<1>23. ASSUME NEW s \in Session, ReconcileFenced(s), task[s] \notin raced
       PROVE  LockConc'
  <2>1. ASSUME NEW k \in Job PROVE JobInv(k)'
    BY <1>23, <1>jobs, JobFrame DEF ReconcileFenced, dbVars, providerVars
  <2>2. ASSUME NEW t \in Session, t # s PROVE Rest(t)'
    BY <1>23, <1>ty, <1>rest, ApplyAssumption, SessionFrame, <2>2
       DEF ReconcileFenced, Leave, dbVars, providerVars
  <2>3. ASSUME NEW t \in Session PROVE TokenOK(t)'
    BY <1>23, <1>ty, <1>tk
       DEF ReconcileFenced, Leave, dbVars, TypeOK, TokenOK, Claimed, Owns, UncheckedPoints,
           Points, ApplyPoints, ReconcilePoints
  <2>4. EarlyOK(s)'
    BY <1>23, <1>ty, <1>ea
       DEF ReconcileFenced, Leave, NoResult, TypeOK, EarlyOK, EarlyPoints
  <2>5. OwnerOK(s)'
    BY <1>23, <1>ow DEF ReconcileFenced, Leave, OwnerOK, Owns, ApplyPoints
  <2>6. ResultsOK(s)'
    BY <1>23, <1>ty, <1>re
       DEF ReconcileFenced, Leave, NoResult, TypeOK, ResultsOK, Owns, LoopPoints, Sending,
           Uncertain
  <2>7. ReadBackOK(s)'
    BY <1>23, <1>ty, <1>rb
       DEF ReconcileFenced, Leave, TypeOK, ReadBackOK, Owns, ReconcilePoints
  <2>8. QED
    BY ONLY <2>1, <2>2, <2>3, <2>4, <2>5, <2>6, <2>7, ApplyAssumption
       DEF LockConc, JobInv, SessionInv, Rest
<1>24. ASSUME NEW s \in Session, Crash(s), task[s] \notin raced
       PROVE  LockConc'
  <2>1. ASSUME NEW k \in Job PROVE JobInv(k)'
    BY <1>24, <1>jobs, JobFrame DEF Crash, dbVars, providerVars
  <2>2. ASSUME NEW t \in Session, t # s PROVE Rest(t)'
    BY <1>24, <1>ty, <1>rest, ApplyAssumption, SessionFrame, <2>2
       DEF Crash, Leave, dbVars, providerVars
  <2>3. ASSUME NEW t \in Session PROVE TokenOK(t)'
    BY <1>24, <1>ty, <1>tk
       DEF Crash, Leave, dbVars, TypeOK, TokenOK, Claimed, Owns, UncheckedPoints, Points,
           ApplyPoints, ReconcilePoints
  <2>4. EarlyOK(s)'
    BY <1>24, <1>ty, <1>ea DEF Crash, Leave, NoResult, TypeOK, EarlyOK, EarlyPoints
  <2>5. OwnerOK(s)'
    BY <1>24, <1>ty, <1>ow DEF Crash, Leave, TypeOK, OwnerOK, Owns, ApplyPoints
  <2>6. ResultsOK(s)'
    BY <1>24, <1>ty, <1>re
       DEF Crash, Leave, NoResult, TypeOK, ResultsOK, Owns, LoopPoints, Sending, Uncertain
  <2>7. ReadBackOK(s)'
    BY <1>24, <1>ty, <1>rb DEF Crash, Leave, TypeOK, ReadBackOK, Owns, ReconcilePoints
  <2>8. QED
    BY ONLY <2>1, <2>2, <2>3, <2>4, <2>5, <2>6, <2>7, ApplyAssumption
       DEF LockConc, JobInv, SessionInv, Rest
<1>25. ASSUME NEW j \in Job, RecoverWithoutAttempt(j), j \notin raced
       PROVE  LockConc'
  <2>1. ASSUME NEW k \in Job, k # j PROVE JobInv(k)'
    BY <1>25, <1>jobs, JobFrame, <2>1
       DEF RecoverWithoutAttempt, ClaimLease, Released, providerVars
  <2>2. EvidenceOK(j)'
    BY <1>25, <1>ev
       DEF RecoverWithoutAttempt, ClaimLease, Released, providerVars, EvidenceOK
  <2>3. ItemsOK(j)'
    BY <1>25, <1>ty, ApplyAssumption, <1>it
       DEF RecoverWithoutAttempt, ClaimLease, Released, providerVars, sessionVars, TypeOK,
           ItemsOK, Uncertain, UncertainItem
  <2>4. UncertainLocked(j)'
    BY <1>25, <1>ty, ApplyAssumption, <1>un, <1>ev, <1>it
       DEF RecoverWithoutAttempt, ClaimLease, Released, providerVars, sessionVars, TypeOK,
           UncertainLocked, Uncertain, UncertainItem, Unfinished, EvidenceOK, ItemsOK
  <2>5. WireOK(j)'
    BY <1>25, <1>wi
       DEF RecoverWithoutAttempt, ClaimLease, Released, providerVars, WireOK, Uncertain
  <2>6. ASSUME NEW t \in Session, task[t] # j PROVE Rest(t)'
    BY <1>25, <1>ty, <1>rest, ApplyAssumption, SessionFrame, <2>6
       DEF RecoverWithoutAttempt, ClaimLease, Released, providerVars, sessionVars, TypeOK,
           LoopOK
  <2>7. ASSUME NEW t \in Session, task[t] = j PROVE Rest(t)'
    <3>0. pc[t] \notin ReconcilePoints
      BY <1>25, <1>rb, <2>7 DEF RecoverWithoutAttempt, ReadBackOK
    <3>1. pc[t] # "idle" => pc[t] \notin UncheckedPoints /\ token[t] <= fence[j]
      BY <1>25, <1>tk, <1>over, <1>ty, <2>7, <3>0
         DEF RecoverWithoutAttempt, TokenOK, Claimed, UncheckedPoints, TypeOK, ReconcilePoints
    <3>2. pc[t] # "idle" => ~Owns(t)'
      BY <1>25, <1>ty, <3>1, <2>7
         DEF RecoverWithoutAttempt, ClaimLease, Owns, sessionVars, TypeOK
    <3>3. pc[t] \in EarlyPoints => item'[j] = item[j]
      BY <1>25 DEF RecoverWithoutAttempt
    <3>4. \A l \in Scope[j] : item[j][l] # "pending" => item'[j][l] # "pending"
      BY <1>25 DEF RecoverWithoutAttempt
    <3>5. pc[t] = "send" => \A l \in Sending(t) : latest[j][l] \in Uncertain
      BY <1>25, <1>re, <2>7 DEF ResultsOK
    <3>6. QED
      BY <1>25, <1>ty, <1>rest, <2>7, <3>0, <3>1, <3>2, <3>3, <3>4, <3>5, ApplyAssumption,
         FencedFrame
         DEF RecoverWithoutAttempt, TypeOK, LoopOK, providerVars, sessionVars,
             UncheckedPoints
  <2>8. ASSUME NEW t \in Session PROVE TokenOK(t)'
    BY <1>25, <1>ty, <1>tk, <1>over, <1>rb
       DEF RecoverWithoutAttempt, ClaimLease, Released, sessionVars, TypeOK, TokenOK,
           Claimed, Owns, ReadBackOK, ReconcilePoints
  <2>9. QED
    BY ONLY <2>1, <2>2, <2>3, <2>4, <2>5, <2>6, <2>7, <2>8, ApplyAssumption
       DEF LockConc, JobInv, SessionInv, Rest
<1>26. ASSUME NEW j \in Job, RecoverFromAttempts(j), j \notin raced
       PROVE  LockConc'
  <2>1. ASSUME NEW k \in Job, k # j PROVE JobInv(k)'
    BY <1>26, <1>ty, <1>jobs, JobFrame, <2>1
       DEF RecoverFromAttempts, RecoveredItem, StatusFromItems, Released, providerVars,
           TypeOK
  <2>2. EvidenceOK(j)'
    BY <1>26, <1>ev
       DEF RecoverFromAttempts, RecoveredItem, StatusFromItems, Released, EvidenceOK
  <2>3. ItemsOK(j)'
    <3>1. /\ jobStatus[j] # "absent" /\ latest' = latest /\ events' = events
          /\ \A i \in Listing : item'[j][i] =
                IF i \in Scope[j] THEN RecoveredItem(j, i) ELSE item[j][i]
      BY <1>26, <1>ty DEF RecoverFromAttempts, TypeOK
    <3>2. \A i \in Scope[j] : i \in Listing
      BY ApplyAssumption
    <3>3. QED
      BY <1>26, <3>1, <3>2, <1>it, <1>ev
         DEF RecoveredItem, ItemsOK, EvidenceOK, Uncertain, UncertainItem
  <2>4. UncertainLocked(j)'
    <3>1. \A i \in Listing : latest[j][i] \in Uncertain \/ item'[j][i] \in UncertainItem =>
             /\ i \in Scope[j] /\ item'[j][i] = "reconciliation_required"
             /\ latest[j][i] \in Uncertain \/ item[j][i] \in UncertainItem
      BY <1>26, <1>ev, <1>it, <1>ty
         DEF RecoverFromAttempts, RecoveredItem, EvidenceOK, ItemsOK, Uncertain,
             UncertainItem, TypeOK
    <3>2. \A i \in Listing : i \in Scope[j] /\ item'[j][i] = "reconciliation_required" =>
             jobStatus'[j] = "reconciliation_required" /\ lock' = lock
      BY <1>26, <1>ty DEF RecoverFromAttempts, StatusFromItems, UncertainItem, TypeOK
    <3>3. latest' = latest
      BY <1>26 DEF RecoverFromAttempts
    <3>4. QED
      BY <1>26, <3>1, <3>2, <3>3, <1>un DEF UncertainLocked, Unfinished
  <2>5. WireOK(j)'
    BY <1>26, <1>wi
       DEF RecoverFromAttempts, RecoveredItem, StatusFromItems, Released, providerVars,
           WireOK, Uncertain
  <2>6. ASSUME NEW t \in Session, task[t] # j PROVE Rest(t)'
    BY <1>26, <1>ty, <1>rest, ApplyAssumption, SessionFrame, <2>6
       DEF RecoverFromAttempts, RecoveredItem, StatusFromItems, Released, providerVars,
           sessionVars, TypeOK, LoopOK
  <2>7. ASSUME NEW t \in Session, task[t] = j PROVE Rest(t)'
    <3>0. pc[t] \notin ReconcilePoints
      BY <1>26, <1>rb, <2>7 DEF RecoverFromAttempts, ReadBackOK
    <3>1. pc[t] # "idle" => pc[t] \notin UncheckedPoints /\ token[t] <= fence[j]
      BY <1>26, <1>tk, <1>over, <1>ty, <2>7, <3>0
         DEF RecoverFromAttempts, TokenOK, Claimed, UncheckedPoints, TypeOK, ReconcilePoints
    <3>2. pc[t] # "idle" => ~Owns(t)'
      BY <1>26, <1>ty, <3>1, <2>7 DEF RecoverFromAttempts, Owns, sessionVars, TypeOK
    <3>3. pc[t] \in EarlyPoints => item'[j] = item[j]
      BY <1>26, <1>ea, <1>ev, <2>7, ApplyAssumption
         DEF RecoverFromAttempts, EarlyOK, EvidenceOK
    <3>4. \A l \in Scope[j] : item[j][l] # "pending" => item'[j][l] # "pending"
      BY <1>26, <1>ty, ApplyAssumption DEF RecoverFromAttempts, RecoveredItem, TypeOK
    <3>5. pc[t] = "send" => \A l \in Sending(t) : latest[j][l] \in Uncertain
      BY <1>26, <1>re, <2>7 DEF ResultsOK
    <3>6. QED
      BY <1>26, <1>ty, <1>rest, <2>7, <3>0, <3>1, <3>2, <3>3, <3>4, <3>5, ApplyAssumption,
         FencedFrame
         DEF RecoverFromAttempts, TypeOK, LoopOK, providerVars, sessionVars, UncheckedPoints
  <2>8. ASSUME NEW t \in Session PROVE TokenOK(t)'
    BY <1>26, <1>ty, <1>tk, <1>over, <1>rb
       DEF RecoverFromAttempts, RecoveredItem, StatusFromItems, Released, sessionVars,
           TypeOK, TokenOK, Claimed, Owns, ReadBackOK, ReconcilePoints
  <2>9. QED
    BY ONLY <2>1, <2>2, <2>3, <2>4, <2>5, <2>6, <2>7, <2>8, ApplyAssumption
       DEF LockConc, JobInv, SessionInv, Rest
<1>27. ASSUME NEW j \in Job, NEW l \in Listing, Land(j, l)
       PROVE  LockConc'
  <2>1. ASSUME NEW k \in Job PROVE JobInv(k)'
    <3>1. CASE k # j
      BY <1>27, <1>jobs, JobFrame, <3>1 DEF Land, dbVars, TypeOK
    <3>2. CASE k = j
      <4>1. k \notin raced => WireOK(k)'
        BY <1>27, <1>wi, <3>2 DEF Land, dbVars, TypeOK, WireOK
      <4>2. QED
        BY <1>27, <1>jobs, <3>2, <4>1
           DEF Land, dbVars, JobInv, EvidenceOK, ItemsOK, UncertainLocked
    <3>3. QED
      BY <3>1, <3>2
  <2>2. ASSUME NEW t \in Session PROVE Rest(t)'
    BY <1>27, <1>ty, <1>rest, ApplyAssumption, SessionFrame DEF Land, dbVars, sessionVars
  <2>3. ASSUME NEW t \in Session PROVE TokenOK(t)'
    BY <1>27, <1>tk DEF Land, dbVars, sessionVars, TokenOK, Claimed, Owns
  <2>4. QED
    BY ONLY <2>1, <2>2, <2>3, ApplyAssumption
       DEF LockConc, JobInv, SessionInv, Rest
<1>28. ASSUME NEW j \in Job, NEW l \in Listing, Drop(j, l)
       PROVE  LockConc'
  <2>1. ASSUME NEW k \in Job PROVE JobInv(k)'
    BY <1>28, <1>jobs, JobFrame DEF Drop, dbVars
  <2>2. ASSUME NEW t \in Session PROVE Rest(t)'
    BY <1>28, <1>ty, <1>rest, ApplyAssumption, SessionFrame DEF Drop, dbVars, sessionVars
  <2>3. ASSUME NEW t \in Session PROVE TokenOK(t)'
    BY <1>28, <1>tk DEF Drop, dbVars, sessionVars, TokenOK, Claimed, Owns
  <2>4. QED
    BY ONLY <2>1, <2>2, <2>3, ApplyAssumption
       DEF LockConc, JobInv, SessionInv, Rest
<1>29. CASE UNCHANGED vars
  <2>1. ASSUME NEW k \in Job PROVE JobInv(k)'
    BY <1>29, <1>jobs, JobFrame DEF vars, dbVars, providerVars
  <2>2. ASSUME NEW t \in Session PROVE Rest(t)'
    BY <1>29, <1>ty, <1>rest, ApplyAssumption, SessionFrame
       DEF vars, dbVars, providerVars, sessionVars
  <2>3. ASSUME NEW t \in Session PROVE TokenOK(t)'
    BY <1>29, <1>tk DEF vars, dbVars, sessionVars, TokenOK, Claimed, Owns
  <2>4. QED
    BY ONLY <2>1, <2>2, <2>3 DEF LockConc, SessionInv, Rest
<1>31. ASSUME NEW s \in Session, StepOf(s), task[s] \in raced' PROVE LockConc'
  <2>1. TypeInv /\ task[s] \in Job /\ \A k \in Job \ {task[s]} : Spared(k)
    BY <1>31, Elsewhere DEF LockInv, SentInv
  <2>3. RacedAct(s)
    BY <1>31, RacedOnly
  <2>4. /\ Moved(s, task[s]) /\ \A t \in Session \ {s} : Stays(t)
        /\ fence'[task[s]] >= fence[task[s]] /\ fence' \in [Job -> Nat]
        /\ raced \subseteq raced'
    BY <2>1, <2>3, RacedMoves
  <2>5. ASSUME NEW j \in Job, j = task[s] PROVE LockConc'
    <3>1. /\ j \in raced' /\ raced \subseteq raced' /\ Moved(s, j)
          /\ fence'[j] >= fence[j] /\ fence' \in [Job -> Nat]
          /\ \A k \in Job \ {j} : Spared(k)
      BY <1>31, <2>1, <2>4, <2>5
    <3>2. QED
      BY <2>4, <3>1, RacedConc
  <2>6. QED
    BY <2>1, <2>5
<1>32. ASSUME NEW s \in Session, NEW j \in Job, StartReconcile(s, j), j \in raced PROVE LockConc'
  <2>1. TypeInv
    BY DEF LockInv, SentInv
  <2>2. /\ Moved(s, j) /\ \A t \in Session \ {s} : Stays(t)
        /\ fence'[j] >= fence[j] /\ fence' \in [Job -> Nat] /\ raced \subseteq raced'
    BY <1>32, <2>1, RacedMoves
  <2>3. \A k \in Job \ {j} : Spared(k)
    BY <1>32, <2>1, ElsewhereJob
  <2>4. QED
    BY <1>32, <2>2, <2>3, RacedConc
<1>33. ASSUME NEW j \in Job, j \in raced PROVE ~Recover(j) /\ \A s \in Session : ~Request(s, j)
  BY <1>33
     DEF LockInv, RacedOK, Recover, RecoverWithoutAttempt, RecoverFromAttempts, Request
<1>34. ASSUME NEW s \in Session, StepOf(s) PROVE LockConc'
  <2>1. CASE task[s] \in raced'
    BY <1>34, <2>1, <1>31
  <2>2. CASE task[s] \notin raced'
    <3>1. task[s] \notin raced
      BY <1>34, <2>2
         DEF StepOf, ApplyStep, ReconcileStep, AcquireLocks, LocksRefused, Claim, GoStale,
             Verified, PersistAttempts, Admit, LimiterFails, Dispatch, Send, Answer,
             RecordOutcomes, CheckLease, Finish, Complete, Fenced, Abort, Crash,
             ClaimReconcile, ReconcileRefused, ReadBack, RecordReadBack,
             CheckReconcileLease, FinishReconcile, ReconcileFenced
    <3>2. QED
      BY <1>34, <2>2, <3>1, <1>2, <1>3, <1>4, <1>5, <1>6, <1>7, <1>8, <1>9, <1>10, <1>11,
         <1>12, <1>13, <1>14, <1>15, <1>16, <1>17, <1>19, <1>20, <1>21, <1>22, <1>23, <1>24,
         <1>18a, <1>18b
         DEF StepOf, ApplyStep, ReconcileStep, Fenced
  <2>3. QED
    BY <2>1, <2>2
<1>35. QED
  BY <1>1, <1>18, <1>25, <1>26, <1>27, <1>28, <1>29, <1>32, <1>33, <1>34
     DEF Next, StepOf, Recover

\* Before any job exists nobody has a claim, a result or a lock.
LEMMA LockInit == Init => LockInv
<1> SUFFICES ASSUME Init PROVE LockInv
  OBVIOUS
<1>1. SentInv
  BY SentInit
<1>2. ASSUME NEW j \in Job PROVE JobInv(j)
  BY ApplyAssumption
     DEF Init, JobInv, EvidenceOK, ItemsOK, UncertainLocked, WireOK, Blank, Uncertain,
         UncertainItem
<1>3. ASSUME NEW s \in Session PROVE SessionInv(s)
  BY DEF Init, SessionInv, Rest, TokenOK, EarlyOK, OwnerOK, ResultsOK, ReadBackOK, Claimed,
         NoResult, Points, ApplyPoints, ReconcilePoints, UncheckedPoints, EarlyPoints,
         LoopPoints
<1>4. QED
  BY <1>1, <1>2, <1>3 DEF LockInv, Init

\* Every step keeps the invariant where fenced sessions look at the lease again.
LEMMA LockInvStep ==
    ASSUME Stall \subseteq CheckedPoints, LockInv, [Next]_vars PROVE LockInv'
<1>1. LockConc'
  BY LockStep
<1>2. SentInv'
  BY SentStep DEF LockInv
<1>3. \A k \in raced' : k \in Job /\ RacedOK(k)'
  BY <1>2, RacedStep DEF SentInv, TypeInv, TypeOK
<1>4. QED
  BY <1>1, <1>2, <1>3 DEF LockConc, LockInv

\* So it holds always.
LEMMA LockInvariant == ASSUME Stall \subseteq CheckedPoints PROVE Spec => []LockInv
<1>1. LockInv /\ [Next]_vars => LockInv'
  BY LockInvStep
<1>2. QED
  BY LockInit, <1>1, PTL DEF Spec

-----------------------------------------------------------------------------
(* What follows from the invariant, as long as a job is only taken over    *)
(* from sessions that look at their lease again before they commit.        *)

\* A request that can still take effect at the provider, even after its session
\* has died, is covered by its job's Listing lock: apply_selected, reconcile_apply and
\* recovery release no lock over it, not even two reconciliations of one job at a time.
THEOREM WritesAreLocked ==
    ASSUME Stall \subseteq CheckedPoints PROVE Spec => []LockCoversWrite
<1>1. LockInv => LockCoversWrite
  <2> SUFFICES ASSUME LockInv, NEW w \in wire PROVE lock[w[2]] = w[1]
    BY DEF LockCoversWrite
  <2>1. PICK j \in Job, i \in Listing : w = <<j, i>>
    BY DEF LockInv, SentInv, TypeInv, TypeOK
  <2>2. CASE j \in raced
    BY <2>1, <2>2 DEF LockInv, RacedOK, Live
  <2>3. CASE j \notin raced
    <3>1. latest[j][i] \in Uncertain
      BY <2>1, <2>3 DEF LockInv, JobInv, WireOK
    <3>2. QED
      BY <2>1, <2>3, <3>1 DEF LockInv, JobInv, UncertainLocked
  <2>4. QED
    BY <2>2, <2>3
<1>2. QED
  BY LockInvariant, <1>1, PTL

\* An attempt that was dispatched and whose outcome is unknown keeps the
\* WorkspaceLock of its Listing, unless two reconciliations of its job got in each
\* other's way.
THEOREM UnknownOutcomesAreLocked ==
    ASSUME Stall \subseteq CheckedPoints PROVE Spec => []UncertainAttemptHoldsLock
<1>1. LockInv => UncertainAttemptHoldsLock
  BY DEF LockInv, JobInv, UncertainLocked, UncertainAttemptHoldsLock
<1>2. QED
  BY LockInvariant, <1>1, PTL

\* Neither apply_selected nor recovery nor reconciliation reports a job as over
\* while the outcome of one of its attempts is unknown, unless two reconciliations of the
\* job got in each other's way.
THEOREM FinishedJobsAreSettled ==
    ASSUME Stall \subseteq CheckedPoints PROVE Spec => []FinishedIsSettled
<1>1. LockInv => FinishedIsSettled
  BY DEF LockInv, JobInv, UncertainLocked, FinishedIsSettled, Finished, Unfinished
<1>2. QED
  BY LockInvariant, <1>1, PTL

SettledKept == \A j \in Job \ raced', l \in Listing :
    item[j][l] \in {"applied", "failed"} => item'[j][l] = item[j][l]

\* No session, recovery or reconciliation changes an item that was recorded as applied or
\* failed, as long as no two reconciliations of its job get in each other's way.
THEOREM SettledItemsStay ==
    ASSUME Stall \subseteq CheckedPoints PROVE Spec => SettledItemIsFinal
<1>1. LockInv /\ [Next]_vars => [SettledKept]_vars
  <2> SUFFICES ASSUME LockInv, [Next]_vars, ~(UNCHANGED vars),
                      NEW k \in Job, k \notin raced', NEW i \in Listing,
                      item[k][i] \in {"applied", "failed"}
               PROVE  item'[k][i] = item[k][i]
    BY DEF SettledKept
  <2>0. Next
    OBVIOUS
  <2>ty. TypeInv /\ TypeOK /\ (\A s \in Session : LoopOK(s))
    BY DEF LockInv, SentInv, TypeInv
  <2>k. k \notin raced => EvidenceOK(k) /\ ItemsOK(k)
    BY DEF LockInv, JobInv
  <2>1. ASSUME NEW s \in Session, NEW j \in Job, Request(s, j) PROVE item'[k][i] = item[k][i]
    BY <2>1, <2>ty, <2>k DEF Request, EvidenceOK, TypeOK
  <2>2. ASSUME NEW s \in Session, Finish(s) PROVE item'[k][i] = item[k][i]
    <3>1. task[s] = k => \A l \in Scope[k] : item[k][l] = "pending"
      BY <2>2
         DEF Finish, At, LockInv, SessionInv, Rest, TokenOK, OwnerOK, UncheckedPoints,
             ApplyPoints
    <3>2. QED
      BY <2>2, <2>ty, <3>1 DEF Finish, RecordItems, TypeOK
  <2>3. ASSUME NEW s \in Session, ClaimReconcile(s) PROVE item'[k][i] = item[k][i]
    <3>1. CASE task[s] = k
      <4>1. ReadIsCurrent(s)
        BY <2>3, <3>1 DEF ClaimReconcile
      <4>2. \A l \in batch[s] : result[s][l] # "none"
        BY <2>3, <3>1
           DEF ClaimReconcile, At, LockInv, SessionInv, Rest, ReadBackOK, ReconcilePoints
      <4>3. i \notin batch[s]
        BY <3>1, <4>1, <4>2 DEF ReadIsCurrent, UncertainListings, UncertainItem
      <4>4. QED
        BY <2>3, <2>ty, <4>3 DEF ClaimReconcile, TypeOK
    <3>2. CASE task[s] # k
      BY <2>3, <2>ty, <3>2 DEF ClaimReconcile, TypeOK
    <3>3. QED
      BY <3>1, <3>2
  <2>4. ASSUME NEW s \in Session, FinishReconcile(s) PROVE item'[k][i] = item[k][i]
    <3>1. task[s] = k => \A l \in Listing : result[s][l] # "none" => item[k][l] \in UncertainItem
      BY <2>4
         DEF FinishReconcile, At, LockInv, SessionInv, Rest, TokenOK, ReadBackOK,
             UncheckedPoints, ReconcilePoints
    <3>2. task[s] = k => result[s][i] = "none"
      BY <3>1 DEF UncertainItem
    <3>3. QED
      BY <2>4, <2>ty, <3>2 DEF FinishReconcile, RecordItems, TypeOK
  <2>5. ASSUME NEW j \in Job, RecoverFromAttempts(j) PROVE item'[k][i] = item[k][i]
    <3>1. RecoveredItem(k, i) = item[k][i]
      BY <2>5, <2>k DEF RecoverFromAttempts, ItemsOK, RecoveredItem
    <3>2. QED
      BY <2>5, <2>ty, <3>1 DEF RecoverFromAttempts, TypeOK
  <2>6. ASSUME NEW s \in Session, ApplyStep(s) PROVE Finish(s) \/ item' = item
    BY <2>6
       DEF ApplyStep, AcquireLocks, LocksRefused, Claim, GoStale, Verified, PersistAttempts,
           Admit, LimiterFails, Dispatch, Send, Answer, RecordOutcomes, CheckLease,
           Complete, Fenced, Abort, dbVars
  <2>7. ASSUME NEW s \in Session, ReconcileStep(s)
        PROVE  FinishReconcile(s) \/ ClaimReconcile(s) \/ item' = item
    BY <2>7
       DEF ReconcileStep, ReconcileRefused, ReadBack, RecordReadBack, CheckReconcileLease,
           ReconcileFenced, dbVars
  <2>8. ASSUME NEW s \in Session, NEW j \in Job, Abort(s) \/ Crash(s) \/ StartReconcile(s, j)
        PROVE  item' = item
    BY <2>8 DEF Abort, Crash, StartReconcile, dbVars
  <2>9. ASSUME NEW j \in Job, RecoverWithoutAttempt(j) PROVE item' = item
    BY <2>9 DEF RecoverWithoutAttempt
  <2>10. ASSUME NEW j \in Job, NEW l \in Listing, Land(j, l) \/ Drop(j, l) PROVE item' = item
    BY <2>10 DEF Land, Drop, dbVars
  <2>11. QED
    BY <2>0, <2>1, <2>2, <2>3, <2>4, <2>5, <2>6, <2>7, <2>8, <2>9, <2>10 DEF Next, Recover
<1>2. QED
  BY LockInvariant, <1>1, PTL DEF Spec, SettledItemIsFinal, SettledKept
=============================================================================
