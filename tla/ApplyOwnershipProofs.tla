------------------------ MODULE ApplyOwnershipProofs ------------------------
(***************************************************************************)
(* The provider, the local Current and the Listing locks of Apply agree,   *)
(* for any jobs, Listings, Channels and sessions; and so Apply implements  *)
(* WriteOwnership.  As in ApplyProofs, a job is only taken over at points  *)
(* where a check of its lease follows.                                     *)
(***************************************************************************)
EXTENDS ApplyProofs

\* What the provider has of a job is in the job's evidence.
RemoteOK(j) == j \notin raced =>
    \A l \in Listing :
        remote[l] = j => latest[j][l] \in Uncertain \cup {"verified_applied"}

\* A verified write whose item is not settled yet is what the provider has, its
\* Listing is locked and its job is not over.
VerifiedOK(j) == j \notin raced =>
    \A l \in Listing : latest[j][l] = "verified_applied" /\ item[j][l] # "applied" =>
        remote[l] = j /\ lock[l] = j /\ jobStatus[j] \in Unfinished

\* The local Current lags behind only until the item is settled, where it is kept at
\* all.
CacheOK(l) == l \notin Adrift /\ cache[l] # remote[l] =>
    remote[l] \in Job /\ item[remote[l]][l] # "applied"

\* What a session has been told is what the provider has.
ToldOK(s) == task[s] \notin raced =>
    \A l \in Scope[task[s]] :
        /\ pc[s] \in ApplyPoints /\ result[s][l] = "failed" => remote[l] # task[s]
        /\ Owns(s) /\ pc[s] # "idle" /\ result[s][l] = "verified_applied" =>
              remote[l] = task[s]
        /\ pc[s] = "r_claim" => result[s][l] # "verified_applied"

\* A job locks and reaches Listings of its scope only.
ScopeOK(l) ==
    /\ lock[l] # NoJob => l \in Scope[lock[l]]
    /\ remote[l] # NoJob => l \in Scope[remote[l]]

CacheInv ==
    /\ LockInv
    /\ \A j \in Job : RemoteOK(j) /\ VerifiedOK(j)
    /\ \A l \in Listing : CacheOK(l)
    /\ \A s \in Session : pc[s] # "idle" => ToldOK(s)
    /\ \A l \in Listing : ScopeOK(l)

-----------------------------------------------------------------------------
\* The fencing token of a job only grows, and a lease that was given up is not
\* set again without a new one.
LEMMA LeaseForward ==
    ASSUME TypeInv, [Next]_vars, NEW j \in Job
    PROVE  fence'[j] > fence[j] \/ (fence'[j] = fence[j] /\ (held'[j] => held[j]))
<1> USE DEF TypeInv, TypeOK, dbVars
<1>ty. fence \in [Job -> Nat] /\ held \in [Job -> BOOLEAN]
  BY ApplyAssumption
<1>same. fence' = fence /\ held' = held
         => fence'[j] > fence[j] \/ (fence'[j] = fence[j] /\ (held'[j] => held[j]))
  OBVIOUS
<1>1. ASSUME NEW s \in Session, NEW k \in Job, Request(s, k)
      PROVE  fence' = fence /\ held' = held
  BY <1>1 DEF Request
<1>2. ASSUME NEW s \in Session, NEW k \in Job, StartReconcile(s, k)
      PROVE  fence' = fence /\ held' = held
  BY <1>2 DEF StartReconcile
<1>3. ASSUME NEW s \in Session, ApplyStep(s)
      PROVE  fence'[j] > fence[j] \/ (fence'[j] = fence[j] /\ (held'[j] => held[j]))
  <2>1. ASSUME Claim(s)
        PROVE  fence'[j] > fence[j] \/ (fence'[j] = fence[j] /\ (held'[j] => held[j]))
    BY <2>1, <1>ty DEF Claim, ClaimLease
  <2>2. ASSUME GoStale(s) \/ Complete(s)
        PROVE  fence'[j] = fence[j] /\ (held'[j] => held[j])
    BY <2>2, <1>ty DEF GoStale, Complete
  <2>3. Claim(s) \/ GoStale(s) \/ Complete(s) \/ (fence' = fence /\ held' = held)
    BY <1>3
       DEF ApplyStep, AcquireLocks, LocksRefused, Verified, PersistAttempts, Admit,
           LimiterFails, Dispatch, Send, Answer, RecordOutcomes, CheckLease, Finish,
           Fenced, Abort
  <2>4. QED
    BY <1>same, <2>1, <2>2, <2>3
<1>4. ASSUME NEW s \in Session, ReconcileStep(s) \/ Abort(s) \/ Crash(s)
      PROVE  fence'[j] > fence[j] \/ (fence'[j] = fence[j] /\ (held'[j] => held[j]))
  <2>1. ASSUME ClaimReconcile(s)
        PROVE  fence'[j] > fence[j] \/ (fence'[j] = fence[j] /\ (held'[j] => held[j]))
    BY <2>1, <1>ty DEF ClaimReconcile, ClaimLease
  <2>2. ClaimReconcile(s) \/ (fence' = fence /\ held' = held)
    BY <1>4
       DEF ReconcileStep, ReconcileRefused, ReadBack, RecordReadBack, CheckReconcileLease,
           FinishReconcile, ReconcileFenced, Abort, Crash
  <2>3. QED
    BY <1>same, <2>1, <2>2
<1>5. ASSUME NEW k \in Job, Recover(k)
      PROVE  fence'[j] > fence[j] \/ (fence'[j] = fence[j] /\ (held'[j] => held[j]))
  <2>1. CASE RecoverWithoutAttempt(k)
    BY <2>1, <1>ty DEF RecoverWithoutAttempt, ClaimLease
  <2>2. CASE RecoverFromAttempts(k)
    <3>1. /\ fence' = [fence EXCEPT ![k] = @ + 1]
          /\ held' = [held EXCEPT ![k] = FALSE]
      BY <2>2 DEF RecoverFromAttempts
    <3>2. QED
      BY <1>ty, <3>1
  <2>3. QED
    BY <1>5, <2>1, <2>2 DEF Recover
<1>6. ASSUME NEW k \in Job, NEW l \in Listing, Land(k, l) \/ Drop(k, l)
      PROVE  fence' = fence /\ held' = held
  BY <1>6 DEF Land, Drop
<1>7. CASE UNCHANGED vars
  BY <1>7 DEF vars
<1>8. QED
  BY <1>same, <1>1, <1>2, <1>3, <1>4, <1>5, <1>6, <1>7 DEF Next

\* A step of somebody else that leaves the provider alone keeps what a session has
\* been told: before its claim it has been told nothing, and a lease that is lost
\* does not come back.
LEMMA ToldFrame ==
    ASSUME LockInv, [Next]_vars, NEW t \in Session, pc[t] # "idle", ToldOK(t),
           pc'[t] = pc[t], task'[t] = task[t], token'[t] = token[t],
           result'[t] = result[t], remote' = remote, raced \subseteq raced'
    PROVE  ToldOK(t)'
<1> SUFFICES ASSUME task[t] \notin raced PROVE ToldOK(t)'
  BY DEF ToldOK
<1>1. TypeInv /\ TokenOK(t) /\ EarlyOK(t) /\ ReadBackOK(t) /\ LoopOK(t)
  BY DEF LockInv, SentInv, TypeInv, SessionInv, Rest
<1>2. task[t] \in Job /\ Scope[task[t]] \subseteq Listing
  BY <1>1, ApplyAssumption DEF LoopOK
<1>3. /\ fence[task[t]] \in Nat /\ fence'[task[t]] \in Nat /\ token[t] \in Nat
      /\ pc[t] \in Points
  <2>1. TypeInv'
    BY <1>1, TypeStep
  <2>2. QED
    BY <1>1, <1>2, <2>1, ApplyAssumption DEF TypeInv, TypeOK
<1>4. CASE pc[t] \in {"locking", "claim"}
  BY <1>1, <1>2, <1>4 DEF ToldOK, EarlyOK, EarlyPoints
<1>5. CASE pc[t] = "r_claim"
  BY <1>2, <1>5 DEF ToldOK, ApplyPoints
<1>6. CASE pc[t] \notin {"locking", "claim", "r_claim"}
  <2>1. token[t] <= fence[task[t]]
    BY <1>1, <1>3, <1>6 DEF TokenOK, Claimed
  <2>2. Owns(t)' => Owns(t)
    BY <1>1, <1>2, <1>3, <2>1, LeaseForward DEF Owns
  <2>3. QED
    BY <2>2 DEF ToldOK
<1>7. QED
  BY <1>4, <1>5, <1>6

\* A step that leaves the evidence and the items of j alone, and neither unlocks
\* nor ends it, keeps what holds of j.
LEMMA EvidenceFrame ==
    ASSUME NEW j \in Job, RemoteOK(j), VerifiedOK(j),
           latest'[j] = latest[j], item'[j] = item[j], remote' = remote,
           \A l \in Listing : lock[l] = j /\ jobStatus[j] \in Unfinished => lock'[l] = j,
           jobStatus'[j] = jobStatus[j], raced \subseteq raced'
    PROVE  RemoteOK(j)' /\ VerifiedOK(j)'
BY DEF RemoteOK, VerifiedOK

\* Nothing that only moves sessions disturbs what holds of the stored state.
LEMMA StoredFrame ==
    ASSUME CacheInv, UNCHANGED <<dbVars, remote, raced>>
    PROVE  /\ \A j \in Job : RemoteOK(j)' /\ VerifiedOK(j)'
           /\ \A l \in Listing : CacheOK(l)'
BY DEF CacheInv, dbVars, RemoteOK, VerifiedOK, CacheOK, Adrift

CacheConc ==
    /\ \A j \in Job : RemoteOK(j) /\ VerifiedOK(j)
    /\ \A l \in Listing : CacheOK(l)
    /\ \A s \in Session : pc[s] # "idle" => ToldOK(s)

\* More jobs in raced leave more Listings adrift.
LEMMA AdriftGrows == ASSUME raced \subseteq raced' PROVE Adrift \subseteq Adrift'
BY DEF Adrift

\* Locks are taken, and writes sent, for Listings of the job's scope only.
LEMMA ScopeStep ==
    ASSUME LockInv, [Next]_vars, \A l \in Listing : ScopeOK(l), NEW l \in Listing
    PROVE  ScopeOK(l)'
<1>ty. TypeInv /\ TypeOK
  BY DEF LockInv, SentInv, TypeInv
<1>s. ScopeOK(l)
  OBVIOUS
<1>1. ASSUME NEW s \in Session, AcquireLocks(s) PROVE ScopeOK(l)'
  BY <1>1, <1>s DEF AcquireLocks, providerVars, ScopeOK
<1>2. ASSUME NEW j \in Job, NEW i \in Listing, Land(j, i) PROVE ScopeOK(l)'
  <2>1. i \in Scope[j]
    <3>1. CASE j \in raced
      BY <1>2, <3>1 DEF Land, LockInv, RacedOK, Live
    <3>2. CASE j \notin raced
      BY <1>2, <3>2 DEF Land, LockInv, JobInv, WireOK, EvidenceOK, Uncertain
    <3>3. QED
      BY <3>1, <3>2
  <2>2. QED
    BY <1>2, <1>s, <1>ty, <2>1 DEF Land, dbVars, ScopeOK, TypeOK
<1>3. ASSUME remote' = remote, \A i \in Listing : lock'[i] \in {lock[i], NoJob}
      PROVE  ScopeOK(l)'
  BY <1>3, <1>s DEF ScopeOK
<1>4. ASSUME NEW s \in Session, ApplyStep(s) \/ Abort(s) \/ Crash(s)
      PROVE  AcquireLocks(s) \/ (remote' = remote /\ \A i \in Listing : lock'[i] \in {lock[i], NoJob})
  BY <1>4
     DEF ApplyStep, LocksRefused, Claim, GoStale, Verified, PersistAttempts, Admit,
         LimiterFails, Dispatch, Send, Answer, RecordOutcomes, CheckLease, Finish, Complete,
         Fenced, Abort, Crash, Released, dbVars, providerVars
<1>5. ASSUME NEW s \in Session, ReconcileStep(s)
      PROVE  remote' = remote /\ \A i \in Listing : lock'[i] \in {lock[i], NoJob}
  BY <1>5
     DEF ReconcileStep, ClaimReconcile, ReconcileRefused, ReadBack, RecordReadBack,
         CheckReconcileLease, FinishReconcile, ReconcileFenced, Released, dbVars, providerVars
<1>6. ASSUME NEW s \in Session, NEW j \in Job, Request(s, j) \/ StartReconcile(s, j)
      PROVE  remote' = remote /\ lock' = lock
  BY <1>6 DEF Request, StartReconcile, dbVars, providerVars
<1>7. ASSUME NEW j \in Job, Recover(j)
      PROVE  remote' = remote /\ \A i \in Listing : lock'[i] \in {lock[i], NoJob}
  BY <1>7 DEF Recover, RecoverWithoutAttempt, RecoverFromAttempts, Released, providerVars
<1>8. ASSUME NEW j \in Job, NEW i \in Listing, Drop(j, i)
      PROVE  remote' = remote /\ lock' = lock
  BY <1>8 DEF Drop, dbVars
<1>9. CASE UNCHANGED vars
  BY <1>9, <1>s DEF vars, dbVars, providerVars, ScopeOK
<1>10. QED
  BY <1>1, <1>2, <1>3, <1>4, <1>5, <1>6, <1>7, <1>8, <1>9 DEF Next

\* What is done to a job whose reconciliations got in each other's way disturbs nothing
\* that the other jobs and the Listings that are not adrift agree on.
LEMMA CacheRaced ==
    ASSUME CacheInv, [Next]_vars, NEW s \in Session, NEW j \in Job, j \in raced',
           raced \subseteq raced', remote' = remote,
           \A k \in Job \ {j} : Spared(k), Moved(s, j), \A t \in Session \ {s} : Stays(t),
           \A l \in Listing \ Scope[j] : cache'[l] = cache[l]
    PROVE  CacheConc'
<1>1. ASSUME NEW k \in Job PROVE RemoteOK(k)' /\ VerifiedOK(k)'
  <2>1. CASE k = j
    BY <2>1 DEF RemoteOK, VerifiedOK
  <2>2. CASE k # j
    BY <2>2, EvidenceFrame DEF CacheInv, Spared
  <2>3. QED
    BY <2>1, <2>2
<1>2. ASSUME NEW l \in Listing PROVE CacheOK(l)'
  <2> SUFFICES ASSUME l \notin Adrift', cache'[l] # remote'[l]
               PROVE  remote'[l] \in Job /\ item'[remote'[l]][l] # "applied"
    BY DEF CacheOK
  <2>1. l \notin Adrift /\ l \notin Scope[j]
    BY AdriftGrows DEF Adrift
  <2>2. remote[l] \in Job /\ item[remote[l]][l] # "applied"
    BY <2>1 DEF CacheInv, CacheOK
  <2>3. remote[l] # j
    BY <2>1, <2>2, ApplyAssumption DEF CacheInv, ScopeOK
  <2>4. QED
    BY <2>2, <2>3 DEF Spared
<1>3. ASSUME NEW t \in Session, pc'[t] # "idle" PROVE ToldOK(t)'
  <2>1. CASE task'[t] = j
    BY <2>1 DEF ToldOK
  <2>2. CASE task'[t] # j
    <3>1. Stays(t)
      BY <1>3, <2>2 DEF Moved
    <3>2. QED
      BY <1>3, <3>1, ToldFrame DEF CacheInv, Stays
  <2>3. QED
    BY <2>1, <2>2
<1>4. QED
  BY <1>1, <1>2, <1>3 DEF CacheConc

\* Nothing else is still done to such a job.
LEMMA CacheRacedStep ==
    ASSUME CacheInv, [Next]_vars, NEW s \in Session, StepOf(s), task[s] \in raced'
    PROVE  CacheConc'
<1>1. LockInv /\ TypeInv /\ task[s] \in Job /\ \A k \in Job \ {task[s]} : Spared(k)
  BY Elsewhere DEF CacheInv, LockInv, SentInv
<1>2. RacedAct(s)
  BY <1>1, RacedOnly
<1> SUFFICES ASSUME NEW j \in Job, j = task[s] PROVE CacheConc'
  BY <1>1
<1>3. Moved(s, j) /\ (\A t \in Session \ {s} : Stays(t)) /\ raced \subseteq raced'
  BY <1>1, <1>2, RacedMoves
<1>4. remote' = remote /\ \A l \in Listing \ Scope[j] : cache'[l] = cache[l]
  BY <1>1, <1>2
     DEF RacedAct, Send, Abort, Crash, ReconcileStep, ClaimReconcile, ReconcileRefused,
         ReadBack, RecordReadBack, CheckReconcileLease, FinishReconcile, RecordItems,
         ReconcileFenced, dbVars, providerVars, TypeInv, TypeOK
<1>5. QED
  BY <1>1, <1>3, <1>4, CacheRaced

\* Every step keeps what the caches and the provider agree on.
LEMMA CacheStep == ASSUME CacheInv, [Next]_vars PROVE CacheConc'
<1>inv. LockInv
  BY DEF CacheInv
<1>ty. TypeOK /\ (\A s \in Session : LoopOK(s))
  BY <1>inv DEF LockInv, SentInv, TypeInv
<1>jobs. \A j \in Job \ raced : EvidenceOK(j) /\ ItemsOK(j) /\ UncertainLocked(j) /\ WireOK(j)
  BY <1>inv DEF LockInv, JobInv
<1>tk. \A s \in Session : TokenOK(s)
  BY <1>inv DEF LockInv, SessionInv
<1>ses. \A s \in Session : task[s] \notin raced =>
           EarlyOK(s) /\ OwnerOK(s) /\ ResultsOK(s) /\ ReadBackOK(s)
  BY <1>inv DEF LockInv, SessionInv, Rest
<1>idle. \A s \in Session : pc[s] = "idle" => task[s] \notin raced
  BY <1>ty, ApplyAssumption DEF TypeOK, LoopOK
<1>ro. \A j \in Job : RemoteOK(j)
  BY DEF CacheInv
<1>vo. \A j \in Job : VerifiedOK(j)
  BY DEF CacheInv
<1>co. \A l \in Listing : CacheOK(l)
  BY DEF CacheInv
<1>to. \A s \in Session : pc[s] # "idle" => ToldOK(s)
  BY DEF CacheInv
<1>task. \A s \in Session : pc[s] # "idle" =>
            task[s] \in Job /\ Scope[task[s]] \subseteq Listing
  BY <1>ty, ApplyAssumption DEF LoopOK
\* What other sessions were told stays true while the provider is left alone.
<1>others. ASSUME NEW t \in Session, pc'[t] # "idle", remote' = remote, pc'[t] = pc[t],
                  task'[t] = task[t], token'[t] = token[t], result'[t] = result[t],
                  raced \subseteq raced'
           PROVE  ToldOK(t)'
  BY <1>inv, <1>others, <1>to, ToldFrame
<1>owner. \A s \in Session : task[s] \notin raced
             /\ pc[s] \in UncheckedPoints \ {"locking", "claim", "r_claim"} => Owns(s)
  BY <1>tk DEF TokenOK
\* Before the attempts are persisted there is no evidence.
<1>early. \A s \in Session : task[s] \notin raced /\ pc[s] \in EarlyPoints =>
             \A l \in Listing : latest[task[s]][l] = "none"
  BY <1>ses DEF EarlyOK
<1> USE DEF At, Goto
<1>1. ASSUME NEW s \in Session, NEW j \in Job, Request(s, j)
      PROVE  CacheConc'
  <2>1. ASSUME NEW k \in Job, k # j PROVE RemoteOK(k)' /\ VerifiedOK(k)'
    BY <1>1, <1>ty, <1>ro, <1>vo, <2>1, EvidenceFrame DEF Request, providerVars, TypeOK
  <2>2. RemoteOK(j)' /\ VerifiedOK(j)'
    BY <1>1, <1>jobs, <1>ro DEF Request, providerVars, EvidenceOK, RemoteOK, VerifiedOK
  <2>3. ASSUME NEW l \in Listing PROVE CacheOK(l)'
    BY <1>1, <1>ty, <1>co DEF Request, providerVars, CacheOK, Adrift, TypeOK
  <2>4. ASSUME NEW t \in Session, t # s, pc'[t] # "idle" PROVE ToldOK(t)'
    BY <1>1, <1>ty, <1>others, <2>4 DEF Request, providerVars, TypeOK
  <2>5. ToldOK(s)'
    BY <1>1, <1>ty, <1>idle, <1>ses, ApplyAssumption DEF Request, EarlyOK, ToldOK, TypeOK
  <2>6. QED
    BY <2>1, <2>2, <2>3, <2>4, <2>5 DEF CacheConc
<1>2. ASSUME NEW s \in Session, AcquireLocks(s), task[s] \notin raced
      PROVE  CacheConc'
  <2>1. ASSUME NEW k \in Job PROVE RemoteOK(k)' /\ VerifiedOK(k)'
    BY <1>2, <1>ty, <1>ro, <1>vo, <1>early, ApplyAssumption
       DEF AcquireLocks, providerVars, RemoteOK, VerifiedOK, Takeable, EarlyPoints, TypeOK
  <2>2. ASSUME NEW l \in Listing PROVE CacheOK(l)'
    BY <1>2, <1>co DEF AcquireLocks, providerVars, CacheOK, Adrift
  <2>3. ASSUME NEW t \in Session, t # s, pc'[t] # "idle" PROVE ToldOK(t)'
    BY <1>2, <1>ty, <1>others, <2>3 DEF AcquireLocks, providerVars, TypeOK
  <2>4. ToldOK(s)'
    BY <1>2, <1>ty, <1>task, <1>ses DEF AcquireLocks, EarlyOK, EarlyPoints, ToldOK, TypeOK
  <2>5. QED
    BY <2>1, <2>2, <2>3, <2>4 DEF CacheConc
<1>3. ASSUME NEW s \in Session, LocksRefused(s) \/ GoStale(s), task[s] \notin raced
      PROVE  CacheConc'
  <2>0. /\ task[s] \notin raced
        /\ pc[s] \in EarlyPoints
        /\ UNCHANGED <<item, latest, cache, remote, raced>> /\ Leave(s)
        /\ \A k \in Job \ {task[s]} : jobStatus'[k] = jobStatus[k]
        /\ \A l \in Listing : lock'[l] = lock[l] \/ lock[l] = task[s]
    BY <1>3, <1>ty DEF LocksRefused, GoStale, EarlyPoints, providerVars, Released, TypeOK
  <2>1. ASSUME NEW k \in Job, k # task[s] PROVE RemoteOK(k)' /\ VerifiedOK(k)'
    BY <1>ro, <1>vo, <2>0, <2>1, EvidenceFrame
  <2>2. ASSUME NEW k \in Job, k = task[s] PROVE RemoteOK(k)' /\ VerifiedOK(k)'
    BY <1>ro, <1>early, <2>0, <2>2 DEF RemoteOK, VerifiedOK
  <2>3. ASSUME NEW l \in Listing PROVE CacheOK(l)'
    BY <1>co, <2>0 DEF CacheOK, Adrift
  <2>4. ASSUME NEW t \in Session, pc'[t] # "idle" PROVE ToldOK(t)'
    BY <1>ty, <1>others, <2>0, <2>4 DEF Leave, TypeOK
  <2>5. QED
    BY <2>1, <2>2, <2>3, <2>4 DEF CacheConc
<1>4. ASSUME NEW s \in Session, Claim(s), task[s] \notin raced
      PROVE  CacheConc'
  <2>1. ASSUME NEW k \in Job PROVE RemoteOK(k)' /\ VerifiedOK(k)'
    BY <1>4, <1>ty, <1>ro, <1>vo, <1>early
       DEF Claim, providerVars, RemoteOK, VerifiedOK, EarlyPoints, Unfinished, TypeOK
  <2>2. ASSUME NEW l \in Listing PROVE CacheOK(l)'
    BY <1>4, <1>co DEF Claim, providerVars, CacheOK, Adrift
  <2>3. ASSUME NEW t \in Session, t # s, pc'[t] # "idle" PROVE ToldOK(t)'
    BY <1>4, <1>ty, <1>others, <2>3 DEF Claim, providerVars, TypeOK
  <2>4. ToldOK(s)'
    BY <1>4, <1>ty, <1>task, <1>ses DEF Claim, EarlyOK, EarlyPoints, ToldOK, TypeOK
  <2>5. QED
    BY <2>1, <2>2, <2>3, <2>4 DEF CacheConc
<1>5. ASSUME NEW s \in Session,
             \/ Verified(s) \/ Send(s) \/ CheckLease(s) \/ CheckReconcileLease(s)
             \/ \E c \in Channel : Admit(s, c)
             \/ ReconcileFenced(s) \/ ReconcileRefused(s) \/ Crash(s),
             task[s] \notin raced
      PROVE CacheConc'
  <2>0. /\ task[s] \notin raced
        /\ UNCHANGED <<dbVars, remote, raced>>
        /\ \/ pc'[s] = "idle" /\ Leave(s)
           \/ /\ pc[s] # "idle" /\ UNCHANGED <<task, token, result>>
              /\ \A t \in Session \ {s} : pc'[t] = pc[t]
              /\ pc'[s] \in ApplyPoints => pc[s] \in ApplyPoints
              /\ pc'[s] # "r_claim"
    BY <1>5, <1>ty
       DEF Verified, Send, CheckLease, CheckReconcileLease, Admit, ReconcileFenced,
           ReconcileRefused, Crash,
           Leave, providerVars, TypeOK, ApplyPoints
  <2>1. /\ \A j \in Job : RemoteOK(j)' /\ VerifiedOK(j)'
        /\ \A l \in Listing : CacheOK(l)'
    BY <2>0, StoredFrame
  <2>2. ASSUME NEW t \in Session, pc'[t] # "idle" PROVE ToldOK(t)'
    <3>1. CASE Leave(s)
      BY <1>ty, <1>others, <2>0, <2>2, <3>1 DEF Leave, TypeOK
    <3>2. CASE ~Leave(s) /\ t = s
      BY <1>to, <2>0, <3>2 DEF ToldOK, Owns, dbVars
    <3>3. CASE ~Leave(s) /\ t # s
      BY <1>others, <2>0, <2>2, <3>3
    <3>4. QED
      BY <3>1, <3>2, <3>3
  <2>3. QED
    BY <2>1, <2>2 DEF CacheConc
<1>6. ASSUME NEW s \in Session, PersistAttempts(s), task[s] \notin raced
      PROVE  CacheConc'
  <2>0. /\ task[s] \notin raced /\ task[s] \in Job
        /\ UNCHANGED <<item, lock, jobStatus, cache, remote, raced>>
    BY <1>6, <1>task DEF PersistAttempts, providerVars
  <2>1. \A k \in Job, l \in Listing :
           \/ latest'[k][l] = latest[k][l]
           \/ latest'[k][l] = "dispatch_intent_recorded" /\ latest[k][l] = "none"
    BY <1>6, <1>ty, <1>early, <2>0, AppendFacts DEF PersistAttempts, EarlyPoints
  <2>2. ASSUME NEW k \in Job PROVE RemoteOK(k)' /\ VerifiedOK(k)'
    BY <1>ro, <1>vo, <2>0, <2>1 DEF RemoteOK, VerifiedOK, Uncertain
  <2>3. ASSUME NEW l \in Listing PROVE CacheOK(l)'
    BY <1>co, <2>0 DEF CacheOK, Adrift
  <2>4. ASSUME NEW t \in Session, t # s, pc'[t] # "idle" PROVE ToldOK(t)'
    BY <1>6, <1>ty, <1>others, <2>0, <2>4 DEF PersistAttempts, TypeOK
  <2>5. ToldOK(s)'
    BY <1>6, <1>ty, <1>task, <1>ses DEF PersistAttempts, EarlyOK, EarlyPoints, ToldOK, TypeOK
  <2>6. QED
    BY <2>2, <2>3, <2>4, <2>5 DEF CacheConc
<1>7. ASSUME NEW s \in Session, NEW c \in Channel, LimiterFails(s, c), task[s] \notin raced
      PROVE  CacheConc'
  <2>0. task[s] \notin raced /\ UNCHANGED <<dbVars, remote, raced>> /\ pc[s] = "limit"
    BY <1>7 DEF LimiterFails, providerVars
  <2>1. /\ \A j \in Job : RemoteOK(j)' /\ VerifiedOK(j)'
        /\ \A l \in Listing : CacheOK(l)'
    BY <2>0, StoredFrame
  <2>2. ASSUME NEW t \in Session, t # s, pc'[t] # "idle" PROVE ToldOK(t)'
    BY <1>7, <1>ty, <1>others, <2>0, <2>2 DEF LimiterFails, TypeOK
  <2>3. ToldOK(s)'
    <3> SUFFICES ASSUME NEW l \in Scope[task[s]]
                 PROVE  /\ result'[s][l] = "failed" => remote'[l] # task[s]
                        /\ Owns(s) /\ result'[s][l] = "verified_applied" =>
                              remote'[l] = task[s]
      BY <1>7, <2>0 DEF LimiterFails, ToldOK, Owns, dbVars
    <3>0. l \in Listing /\ task[s] \in Job
      BY <1>task, <2>0
    <3>1. CASE ChannelOf[l] = c
      <4>1. latest[task[s]][l] = "dispatch_intent_recorded"
        BY <1>7, <1>ses, <3>1 DEF LimiterFails, ResultsOK, LoopPoints
      <4>2. remote[l] # task[s]
        BY <1>ro, <2>0, <3>0, <4>1 DEF RemoteOK, Uncertain
      <4>3. QED
        BY <1>7, <1>ty, <2>0, <3>0, <3>1, <4>2 DEF LimiterFails, TypeOK
    <3>2. CASE ChannelOf[l] # c
      BY <1>7, <1>ty, <1>to, <2>0, <3>0, <3>2
         DEF LimiterFails, ToldOK, Owns, ApplyPoints, TypeOK
    <3>3. QED
      BY <3>1, <3>2
  <2>4. QED
    BY <2>1, <2>2, <2>3 DEF CacheConc
<1>8. ASSUME NEW s \in Session, NEW D \in SUBSET Listing, Dispatch(s, D), task[s] \notin raced
      PROVE  CacheConc'
  <2>0. /\ task[s] \notin raced
        /\ pc[s] = "dispatch" /\ task[s] \in Job /\ task' = task /\ pc'[s] # "r_claim"
        /\ D \subseteq batch[s] /\ batch[s] \subseteq Scope[task[s]]
        /\ Scope[task[s]] \subseteq Listing
        /\ UNCHANGED <<item, lock, jobStatus, cache, remote, fence, held, token, raced>>
    BY <1>8, <1>ty, <1>task DEF Dispatch, providerVars, LoopOK
  <2>1. \A k \in Job, l \in Listing :
           \/ latest'[k][l] = latest[k][l]
           \/ latest'[k][l] = "dispatched"
    BY <1>8, <1>ty, <2>0, AppendFacts DEF Dispatch
  <2>2. ASSUME NEW k \in Job PROVE RemoteOK(k)' /\ VerifiedOK(k)'
    BY <1>ro, <1>vo, <2>0, <2>1 DEF RemoteOK, VerifiedOK, Uncertain
  <2>3. ASSUME NEW l \in Listing PROVE CacheOK(l)'
    BY <1>co, <2>0 DEF CacheOK, Adrift
  <2>4. ASSUME NEW t \in Session, t # s, pc'[t] # "idle" PROVE ToldOK(t)'
    BY <1>8, <1>ty, <1>others, <2>0, <2>4 DEF Dispatch, TypeOK
  <2>5. ToldOK(s)'
    <3> SUFFICES ASSUME NEW l \in Scope[task[s]]
                 PROVE  /\ result'[s][l] = "failed" => remote'[l] # task[s]
                        /\ Owns(s) /\ result'[s][l] = "verified_applied" =>
                              remote'[l] = task[s]
      BY <2>0 DEF ToldOK, Owns
    <3>1. CASE l \in batch[s] \ D
      <4>1. latest[task[s]][l] = "dispatch_intent_recorded"
        BY <1>ses, <2>0, <3>1 DEF ResultsOK, LoopPoints
      <4>2. remote[l] # task[s]
        BY <1>ro, <2>0, <4>1 DEF RemoteOK, Uncertain
      <4>3. QED
        BY <1>8, <1>ty, <2>0, <3>1, <4>2 DEF Dispatch, TypeOK
    <3>2. CASE l \notin batch[s] \ D
      <4>1. result'[s][l] = result[s][l]
        BY <1>8, <1>ty, <2>0, <3>2 DEF Dispatch, TypeOK
      <4>2. ToldOK(s)
        BY <1>to, <2>0
      <4>3. QED
        BY <2>0, <4>1, <4>2 DEF ToldOK, ApplyPoints
    <3>3. QED
      BY <3>1, <3>2
  <2>6. QED
    BY <2>2, <2>3, <2>4, <2>5 DEF CacheConc
<1>9. ASSUME NEW s \in Session, NEW r \in [Listing -> Result \cup {"none"}], Answer(s, r),
             task[s] \notin raced
      PROVE  CacheConc'
  <2>0. /\ task[s] \notin raced
        /\ UNCHANGED <<dbVars, remote, task, token, raced>> /\ pc[s] = "io"
        /\ result'[s] = r /\ pc'[s] # "r_claim"
    BY <1>9, <1>ty DEF Answer, providerVars, TypeOK
  <2>1. /\ \A j \in Job : RemoteOK(j)' /\ VerifiedOK(j)'
        /\ \A l \in Listing : CacheOK(l)'
    BY <2>0, StoredFrame
  <2>2. ASSUME NEW t \in Session, t # s, pc'[t] # "idle" PROVE ToldOK(t)'
    BY <1>9, <1>ty, <1>others, <2>0, <2>2 DEF Answer, TypeOK
  <2>3. ToldOK(s)'
    <3>1. \A l \in Sending(s) : /\ r[l] = "failed" => remote[l] # task[s]
                                /\ r[l] = "verified_applied" => remote[l] = task[s]
      BY <1>9 DEF Answer, Reports
    <3>2. \A l \in Listing \ Sending(s) : r[l] = result[s][l]
      BY <1>9 DEF Answer
    <3>3. ToldOK(s) /\ Scope[task[s]] \subseteq Listing
      BY <1>to, <1>task, <2>0
    <3>4. QED
      BY <2>0, <3>1, <3>2, <3>3 DEF ToldOK, Owns, dbVars, ApplyPoints
  <2>4. QED
    BY <2>1, <2>2, <2>3 DEF CacheConc
<1>10. ASSUME NEW s \in Session, RecordOutcomes(s) \/ RecordReadBack(s), task[s] \notin raced
      PROVE  CacheConc'
  <2>0. /\ task[s] \notin raced
        /\ pc[s] \in {"record", "r_record"} /\ task[s] \in Job
        /\ batch[s] \subseteq Scope[task[s]] /\ Scope[task[s]] \subseteq Listing
        /\ AppendEvents(task[s], batch[s], result[s])
        /\ UNCHANGED <<item, lock, jobStatus, cache, remote, fence, held, task, token, result, raced>>
        /\ pc'[s] \notin {"idle", "r_claim"}
        /\ pc'[s] \in ApplyPoints => pc[s] \in ApplyPoints
        /\ \A t \in Session \ {s} : pc'[t] = pc[t]
    BY <1>10, <1>ty, <1>task
       DEF RecordOutcomes, RecordReadBack, AfterReadBack, providerVars, LoopOK, ApplyPoints,
           TypeOK
  <2>1. \A k \in Job, l \in Listing :
           IF k = task[s] /\ l \in batch[s] THEN latest'[k][l] = result[s][l]
                                            ELSE latest'[k][l] = latest[k][l]
    BY <1>ty, <2>0, AppendFacts
  <2>2. ToldOK(s) /\ Owns(s)
    BY <1>to, <1>owner, <2>0 DEF UncheckedPoints
  <2>3. \A l \in batch[s] : remote[l] = task[s] =>
           result[s][l] \in Uncertain \cup {"verified_applied"}
    <3> SUFFICES ASSUME NEW l \in batch[s], remote[l] = task[s]
                 PROVE  result[s][l] \in Uncertain \cup {"verified_applied"}
      OBVIOUS
    <3>1. result[s][l] \in Result \cup {"none"} /\ result[s][l] # "none"
      BY <1>ty, <2>0 DEF TypeOK, LoopOK
    <3>2. result[s][l] # "failed"
      BY <1>ses, <2>0, <2>2 DEF ToldOK, ReadBackOK, ApplyPoints, ReconcilePoints
    <3>3. QED
      BY <3>1, <3>2 DEF Result, Uncertain
  <2>4. \A l \in batch[s] : result[s][l] = "verified_applied" =>
           remote[l] = task[s] /\ lock[l] = task[s] /\ jobStatus[task[s]] \in Unfinished
    <3> SUFFICES ASSUME NEW l \in batch[s], result[s][l] = "verified_applied"
                 PROVE  lock[l] = task[s] /\ jobStatus[task[s]] \in Unfinished
      BY <2>0, <2>2 DEF ToldOK
    <3>1. CASE pc[s] = "record"
      BY <1>ses, <2>0, <2>2, <3>1 DEF OwnerOK, ApplyPoints, Unfinished
    <3>2. CASE pc[s] = "r_record"
      <4>1. item[task[s]][l] \in UncertainItem
        BY <1>ses, <2>0, <2>2, <3>2 DEF ReadBackOK, ReconcilePoints
      <4>2. QED
        BY <1>jobs, <2>0, <4>1 DEF UncertainLocked, UncertainItem
    <3>3. QED
      BY <2>0, <3>1, <3>2
  <2>5. ASSUME NEW k \in Job PROVE RemoteOK(k)' /\ VerifiedOK(k)'
    <3>1. RemoteOK(k)'
      BY <1>ro, <2>0, <2>1, <2>3 DEF RemoteOK
    <3>2. VerifiedOK(k)'
      BY <1>vo, <2>0, <2>1, <2>4 DEF VerifiedOK
    <3>3. QED
      BY <3>1, <3>2
  <2>6. ASSUME NEW l \in Listing PROVE CacheOK(l)'
    BY <1>co, <2>0 DEF CacheOK, Adrift
  <2>7. ASSUME NEW t \in Session, t # s, pc'[t] # "idle" PROVE ToldOK(t)'
    BY <1>others, <2>0, <2>7
  <2>8. ToldOK(s)'
    BY <2>0, <2>2 DEF ToldOK, Owns
  <2>9. QED
    BY <2>5, <2>6, <2>7, <2>8 DEF CacheConc
<1>11. ASSUME NEW s \in Session, Finish(s), task[s] \notin raced
      PROVE  CacheConc'
  <2>0. /\ task[s] \notin raced
        /\ pc[s] = "finish" /\ pc'[s] = "status" /\ task[s] \in Job
        /\ Scope[task[s]] \subseteq Listing
        /\ UNCHANGED <<latest, lock, jobStatus, remote, fence, held, task, token, result, raced>>
        /\ \A t \in Session \ {s} : pc'[t] = pc[t]
    BY <1>11, <1>ty, <1>task DEF Finish, providerVars, TypeOK
  <2>1. \A k \in Job, l \in Listing :
           IF k = task[s] /\ l \in Scope[k] THEN item'[k][l] = ItemAfter(result[s][l])
                                            ELSE item'[k][l] = item[k][l]
    BY <1>11, <1>ty, <2>0 DEF Finish, RecordItems, TypeOK
  <2>2. \A l \in Listing :
           cache'[l] = IF l \in Scope[task[s]] \cap Reported /\ result[s][l] = "verified_applied"
                       THEN task[s] ELSE cache[l]
    BY <1>11, <1>ty DEF Finish, RecordItems, TypeOK
  <2>3. ToldOK(s) /\ Owns(s)
    BY <1>to, <1>owner, <2>0 DEF UncheckedPoints
  <2>4. \A l \in Scope[task[s]] : /\ latest[task[s]][l] = result[s][l]
                                  /\ result[s][l] \in Result
    BY <1>ty, <1>ses, <2>0, <2>3 DEF ResultsOK, LoopOK, TypeOK
  <2>5. ASSUME NEW k \in Job PROVE RemoteOK(k)' /\ VerifiedOK(k)'
    <3>1. RemoteOK(k)'
      BY <1>ro, <2>0 DEF RemoteOK
    <3>2. VerifiedOK(k)'
      BY <1>vo, <2>0, <2>1, <2>4 DEF VerifiedOK, ItemAfter
    <3>3. QED
      BY <3>1, <3>2
  <2>6. ASSUME NEW l \in Listing PROVE CacheOK(l)'
    <3>1. CASE l \in Scope[task[s]]
      BY <1>co, <2>0, <2>1, <2>2, <2>3, <2>4, <3>1
         DEF CacheOK, Adrift, ToldOK, ItemAfter, Result, ApplyPoints
    <3>2. CASE l \notin Scope[task[s]]
      BY <1>co, <2>0, <2>1, <2>2, <3>2 DEF CacheOK, Adrift
    <3>3. QED
      BY <3>1, <3>2
  <2>7. ASSUME NEW t \in Session, t # s, pc'[t] # "idle" PROVE ToldOK(t)'
    BY <1>others, <2>0, <2>7
  <2>8. ToldOK(s)'
    BY <2>0, <2>3 DEF ToldOK, Owns, ApplyPoints
  <2>9. QED
    BY <2>5, <2>6, <2>7, <2>8 DEF CacheConc
<1>12. ASSUME NEW s \in Session, Complete(s), task[s] \notin raced
      PROVE  CacheConc'
  <2>0. /\ task[s] \notin raced
        /\ pc[s] = "status" /\ task[s] \in Job /\ Leave(s)
        /\ UNCHANGED <<latest, item, cache, remote, raced>>
        /\ \A k \in Job \ {task[s]} : jobStatus'[k] = jobStatus[k]
        /\ \A l \in Listing : lock'[l] = lock[l] \/ lock[l] = task[s]
    BY <1>12, <1>ty, <1>task DEF Complete, providerVars, Released, TypeOK
  <2>1. ASSUME NEW k \in Job, k # task[s] PROVE RemoteOK(k)' /\ VerifiedOK(k)'
    BY <1>ro, <1>vo, <2>0, <2>1, EvidenceFrame
  <2>2. ASSUME NEW k \in Job, k = task[s] PROVE RemoteOK(k)' /\ VerifiedOK(k)'
    <3>1. \A l \in Listing : latest[k][l] = "verified_applied" => item[k][l] = "applied"
      <4>1. \A l \in Scope[k] : latest[k][l] = result[s][l] /\ item[k][l] = ItemAfter(result[s][l])
        BY <1>ses, <1>owner, <2>0, <2>2 DEF ResultsOK, UncheckedPoints
      <4>2. QED
        BY <1>jobs, <2>0, <2>2, <4>1 DEF EvidenceOK, ItemAfter
    <3>2. QED
      BY <1>ro, <2>0, <3>1 DEF RemoteOK, VerifiedOK
  <2>3. ASSUME NEW l \in Listing PROVE CacheOK(l)'
    BY <1>co, <2>0 DEF CacheOK, Adrift
  <2>4. ASSUME NEW t \in Session, pc'[t] # "idle" PROVE ToldOK(t)'
    BY <1>ty, <1>others, <2>0, <2>4 DEF Leave, TypeOK
  <2>5. QED
    BY <2>1, <2>2, <2>3, <2>4 DEF CacheConc
<1>13. ASSUME NEW s \in Session, Abort(s), task[s] \notin raced
      PROVE  CacheConc'
  <2>0. /\ task[s] \notin raced
        /\ pc[s] # "idle" /\ task[s] \in Job /\ Leave(s)
        /\ UNCHANGED <<latest, item, cache, remote, raced>>
        /\ \A k \in Job \ {task[s]} : jobStatus'[k] = jobStatus[k]
        /\ \A l \in Listing : lock'[l] = lock[l] \/ (lock[l] = task[s] /\ ~DispatchedEver(task[s]))
        /\ DispatchedEver(task[s]) => jobStatus'[task[s]] = "reconciliation_required"
    BY <1>13, <1>ty, <1>task DEF Abort, providerVars, Released, TypeOK, ApplyPoints
  <2>1. ASSUME NEW k \in Job, k # task[s] PROVE RemoteOK(k)' /\ VerifiedOK(k)'
    BY <1>ro, <1>vo, <2>0, <2>1, EvidenceFrame
  <2>2. ASSUME NEW k \in Job, k = task[s] PROVE RemoteOK(k)' /\ VerifiedOK(k)'
    <3>1. \A l \in Listing : latest[k][l] = "verified_applied" => DispatchedEver(k)
      BY <1>jobs, <2>0, <2>2 DEF EvidenceOK, DispatchedEver
    <3>2. QED
      BY <1>ro, <1>vo, <2>0, <2>2, <3>1 DEF RemoteOK, VerifiedOK, Unfinished
  <2>3. ASSUME NEW l \in Listing PROVE CacheOK(l)'
    BY <1>co, <2>0 DEF CacheOK, Adrift
  <2>4. ASSUME NEW t \in Session, pc'[t] # "idle" PROVE ToldOK(t)'
    BY <1>ty, <1>others, <2>0, <2>4 DEF Leave, TypeOK
  <2>5. QED
    BY <2>1, <2>2, <2>3, <2>4 DEF CacheConc
<1>14. ASSUME NEW s \in Session, ClaimReconcile(s), task[s] \notin raced'
       PROVE  CacheConc'
  <2>0. UNCHANGED <<latest, lock, jobStatus, cache, remote, result, task>>
        /\ task[s] \in Job /\ raced' = raced /\ pc[s] = "r_claim"
    BY <1>14, <1>task DEF ClaimReconcile, providerVars
  <2>1. ReadIsCurrent(s) /\ \A l \in batch[s] : result[s][l] # "none"
    BY <1>14, <1>ses, <2>0 DEF ClaimReconcile, ReadBackOK, ReconcilePoints
  <2>2. \A k \in Job, l \in Listing :
           \/ item'[k][l] = item[k][l]
           \/ item'[k][l] = "recovering" /\ item[k][l] \in UncertainItem
    <3>1. \A l \in Listing : l \in batch[s] => item[task[s]][l] \in UncertainItem
      BY <2>1 DEF ReadIsCurrent, UncertainListings
    <3>2. QED
      BY <1>14, <1>ty, <3>1 DEF ClaimReconcile, TypeOK
  <2>3. ASSUME NEW k \in Job PROVE RemoteOK(k)' /\ VerifiedOK(k)'
    BY <1>ro, <1>vo, <2>0, <2>2 DEF RemoteOK, VerifiedOK, UncertainItem
  <2>4. ASSUME NEW l \in Listing PROVE CacheOK(l)'
    BY <1>co, <2>0, <2>2 DEF CacheOK, Adrift
  <2>5. ASSUME NEW t \in Session, t # s, pc'[t] # "idle" PROVE ToldOK(t)'
    BY <1>14, <1>ty, <1>others, <2>0, <2>5 DEF ClaimReconcile, TypeOK
  <2>6. ToldOK(s)'
    <3>1. \A l \in Scope[task[s]] : result[s][l] # "verified_applied"
      BY <1>14, <1>to, <2>0 DEF ToldOK
    <3>2. QED
      BY <1>14, <1>ty, <2>0, <3>1 DEF ClaimReconcile, ToldOK, ApplyPoints, TypeOK
  <2>7. QED
    BY <2>3, <2>4, <2>5, <2>6 DEF CacheConc
<1>14a. ASSUME NEW s \in Session, NEW j \in Job, StartReconcile(s, j) PROVE CacheConc'
  <2>0. UNCHANGED <<dbVars, remote, raced>> /\ Scope[j] \subseteq Listing
    BY <1>14a, ApplyAssumption DEF StartReconcile, providerVars
  <2>1. /\ \A k \in Job : RemoteOK(k)' /\ VerifiedOK(k)'
        /\ \A l \in Listing : CacheOK(l)'
    BY <2>0, StoredFrame
  <2>2. ASSUME NEW t \in Session, t # s, pc'[t] # "idle" PROVE ToldOK(t)'
    BY <1>14a, <1>ty, <1>others, <2>0, <2>2 DEF StartReconcile, TypeOK
  <2>3. ToldOK(s)'
    BY <1>14a, <1>ty, <2>0 DEF StartReconcile, ToldOK, ApplyPoints, TypeOK
  <2>4. QED
    BY <2>1, <2>2, <2>3 DEF CacheConc
<1>15. ASSUME NEW s \in Session, NEW c \in Channel, NEW V \in SUBSET Listing, ReadBack(s, c, V),
             task[s] \notin raced
      PROVE  CacheConc'
  <2>0. /\ task[s] \notin raced /\ UNCHANGED <<dbVars, remote, task, token, raced>>
        /\ pc[s] = "r_verify" /\ pc'[s] = "r_record"
    BY <1>15, <1>ty DEF ReadBack, providerVars, TypeOK
  <2>1. /\ \A j \in Job : RemoteOK(j)' /\ VerifiedOK(j)'
        /\ \A l \in Listing : CacheOK(l)'
    BY <2>0, StoredFrame
  <2>2. ASSUME NEW t \in Session, t # s, pc'[t] # "idle" PROVE ToldOK(t)'
    BY <1>15, <1>ty, <1>others, <2>0, <2>2 DEF ReadBack, TypeOK
  <2>3. ToldOK(s)'
    <3>1. \A l \in Listing : \/ result'[s][l] = result[s][l]
                             \/ result'[s][l] = "verified_applied" /\ remote[l] = task[s]
      BY <1>15, <1>ty DEF ReadBack, TypeOK
    <3>2. ToldOK(s) /\ Scope[task[s]] \subseteq Listing
      BY <1>to, <1>task, <2>0
    <3>3. QED
      BY <2>0, <3>1, <3>2 DEF ToldOK, Owns, dbVars, ApplyPoints
  <2>4. QED
    BY <2>1, <2>2, <2>3 DEF CacheConc
<1>16. ASSUME NEW s \in Session, FinishReconcile(s), task[s] \notin raced
      PROVE  CacheConc'
  <2> DEFINE j == task[s]
             L == {l \in Scope[j] : result[s][l] # "none"}
             status == StatusFromItems({item'[j][l] : l \in Scope[j]})
  <2>0. /\ task[s] \notin raced
        /\ pc[s] = "r_finish" /\ j \in Job /\ Leave(s) /\ Scope[j] \subseteq Listing
        /\ UNCHANGED <<latest, remote, raced>>
        /\ jobStatus' = [jobStatus EXCEPT ![j] = IF status = loaded[s] THEN @ ELSE status]
        /\ lock' = IF status = "applied" THEN Released(j) ELSE lock
        /\ RecordItems(j, L, result[s])
    BY <1>16, <1>task DEF FinishReconcile, providerVars
  <2>1. \A k \in Job, l \in Listing :
           IF k = j /\ l \in L THEN item'[k][l] = ItemAfter(result[s][l])
                               ELSE item'[k][l] = item[k][l]
    BY <1>ty, <2>0 DEF RecordItems, TypeOK
  <2>2. \A l \in Listing :
           cache'[l] = IF l \in L \cap Reported /\ result[s][l] = "verified_applied"
                       THEN j ELSE cache[l]
    BY <1>ty, <2>0 DEF RecordItems, TypeOK
  <2>3. ToldOK(s) /\ Owns(s)
    BY <1>to, <1>owner, <2>0 DEF UncheckedPoints
  <2>4. \A l \in L : /\ latest[j][l] = result[s][l]
                     /\ result[s][l] \in {"verified_applied", "reconciliation_required"}
    <3>1. ReadBackOK(s) /\ result[s] \in [Listing -> Result \cup {"none"}]
      BY <1>ty, <1>ses, <2>0 DEF TypeOK
    <3>2. \A l \in L : l \in Listing /\ result[s][l] # "none"
      BY <2>0
    <3>3. QED
      BY <2>0, <2>3, <3>1, <3>2 DEF ReadBackOK, ReconcilePoints, Result
  <2>5. ASSUME NEW k \in Job, k # j PROVE RemoteOK(k)' /\ VerifiedOK(k)'
    <3>1. jobStatus'[k] = jobStatus[k] /\ latest'[k] = latest[k] /\ remote' = remote
      BY <1>ty, <2>0, <2>5 DEF TypeOK
    <3>2. item'[k] = item[k]
      BY <1>ty, <2>0, <2>5 DEF RecordItems, TypeOK
    <3>3. \A l \in Listing : lock[l] = k => lock'[l] = k
      BY <2>0, <2>5 DEF Released
    <3>4. QED
      BY <1>ro, <1>vo, <2>0, <3>1, <3>2, <3>3, EvidenceFrame
  <2>6. RemoteOK(task[s]) /\ VerifiedOK(task[s])
    BY <1>ro, <1>vo, <2>0
  <2>7. ASSUME NEW k \in Job, k = j PROVE RemoteOK(k)' /\ VerifiedOK(k)'
    <3>1. RemoteOK(k)'
      BY <1>ro, <2>0 DEF RemoteOK
    <3>2. ASSUME NEW l \in Listing, latest'[k][l] = "verified_applied", item'[k][l] # "applied"
          PROVE  remote'[l] = k /\ lock'[l] = k /\ jobStatus'[k] \in Unfinished
      <4>1. latest[k][l] = "verified_applied" /\ l \in Scope[k]
        BY <1>jobs, <2>0, <2>7, <3>2 DEF EvidenceOK
      <4>2. l \notin L /\ item'[k][l] = item[k][l]
        BY <2>1, <2>4, <2>7, <3>2, <4>1 DEF ItemAfter
      <4>3. remote[l] = k /\ lock[l] = k /\ jobStatus[k] \in Unfinished
        BY <1>vo, <2>0, <2>7, <3>2, <4>1, <4>2 DEF VerifiedOK
      <4>4. item[k][l] \in UncertainItem
        <5>1. item[k][l] # "pending"
          BY <1>ses, <2>0, <2>7, <4>1 DEF ReadBackOK, ReconcilePoints
        <5>2. item[k][l] \notin {"absent", "failed", "applied"}
          BY <1>jobs, <2>0, <2>7, <3>2, <4>1, <4>2, <4>3 DEF ItemsOK, Unfinished
        <5>3. QED
          BY <1>ty, <5>1, <5>2 DEF TypeOK, ItemStatus, UncertainItem
      <4>5. status = "reconciliation_required"
        BY <2>7, <4>1, <4>2, <4>4 DEF StatusFromItems, UncertainItem
      <4>6. QED
        BY <1>ty, <2>0, <2>7, <4>3, <4>5 DEF Unfinished, TypeOK
    <3>3. QED
      BY <3>1, <3>2 DEF VerifiedOK
  <2>8. ASSUME NEW l \in Listing PROVE CacheOK(l)'
    <3>1. CASE l \in L
      BY <1>co, <2>0, <2>1, <2>2, <2>3, <2>4, <3>1 DEF CacheOK, Adrift, ToldOK, ItemAfter
    <3>2. CASE l \notin L
      BY <1>co, <2>0, <2>1, <2>2, <3>2 DEF CacheOK, Adrift
    <3>3. QED
      BY <3>1, <3>2
  <2>9. ASSUME NEW t \in Session, pc'[t] # "idle" PROVE ToldOK(t)'
    BY <1>ty, <1>others, <2>0, <2>9 DEF Leave, TypeOK
  <2>10. QED
    BY <2>5, <2>7, <2>8, <2>9 DEF CacheConc
<1>17. ASSUME NEW j \in Job, RecoverWithoutAttempt(j) PROVE CacheConc'
  <2>0. /\ UNCHANGED <<latest, item, cache, remote, sessionVars, raced>>
        /\ \A k \in Job \ {j} : jobStatus'[k] = jobStatus[k]
        /\ \A l \in Listing : lock'[l] = lock[l] \/ lock[l] = j
        /\ \A l \in Scope[j] : events[j][l] = {}
    BY <1>17, <1>ty DEF RecoverWithoutAttempt, providerVars, Released, TypeOK
  <2>1. ASSUME NEW k \in Job, k # j PROVE RemoteOK(k)' /\ VerifiedOK(k)'
    BY <1>ro, <1>vo, <2>0, <2>1, EvidenceFrame
  <2>2. RemoteOK(j)' /\ VerifiedOK(j)'
    BY <1>jobs, <1>ro, <2>0 DEF RemoteOK, VerifiedOK, EvidenceOK
  <2>3. ASSUME NEW l \in Listing PROVE CacheOK(l)'
    BY <1>co, <2>0 DEF CacheOK, Adrift
  <2>4. ASSUME NEW t \in Session, pc'[t] # "idle" PROVE ToldOK(t)'
    BY <1>others, <2>0, <2>4 DEF sessionVars
  <2>5. QED
    BY <2>1, <2>2, <2>3, <2>4 DEF CacheConc
<1>18. ASSUME NEW j \in Job, RecoverFromAttempts(j) PROVE CacheConc'
  <2>0. /\ UNCHANGED <<latest, remote, sessionVars, raced>>
        /\ \A k \in Job \ {j} : jobStatus'[k] = jobStatus[k]
        /\ \A l \in Listing : lock'[l] = lock[l] \/ lock[l] = j
        /\ cache' = RecoveredCache(j) /\ j \notin raced
    BY <1>18, <1>ty, <1>inv
       DEF RecoverFromAttempts, providerVars, Released, TypeOK, LockInv, RacedOK
  <2>1. \A k \in Job, l \in Listing :
           item'[k][l] = IF k = j /\ l \in Scope[j] THEN RecoveredItem(j, l) ELSE item[k][l]
    BY <1>18, <1>ty DEF RecoverFromAttempts, TypeOK
  <2>2. ASSUME NEW k \in Job, k # j PROVE RemoteOK(k)' /\ VerifiedOK(k)'
    BY <1>ty, <1>ro, <1>vo, <2>0, <2>1, <2>2, EvidenceFrame, <1>18
       DEF RecoverFromAttempts, TypeOK
  <2>3. RemoteOK(j)' /\ VerifiedOK(j)'
    BY <1>jobs, <1>ro, <2>0, <2>1 DEF RemoteOK, VerifiedOK, EvidenceOK, RecoveredItem
  <2>4. ASSUME NEW l \in Listing PROVE CacheOK(l)'
    <3>1. cache'[l] = IF /\ l \in Scope[j]
                         /\ latest[j][l] = "verified_applied" /\ item[j][l] # "applied"
                      THEN j ELSE cache[l]
      BY <2>0 DEF RecoveredCache
    <3> SUFFICES ASSUME l \notin Adrift, cache'[l] # remote'[l]
                 PROVE  remote'[l] \in Job /\ item'[remote'[l]][l] # "applied"
      BY <2>0 DEF CacheOK, Adrift
    <3>2. cache'[l] = cache[l]
      BY <1>vo, <2>0, <3>1 DEF VerifiedOK
    <3>3. remote[l] \in Job /\ item[remote[l]][l] # "applied"
      BY <1>co, <2>0, <3>2 DEF CacheOK
    <3>4. CASE remote[l] # j
      BY <2>0, <2>1, <3>3, <3>4
    <3>5. CASE remote[l] = j
      <4>1. l \in Scope[j] => latest[j][l] # "verified_applied"
        BY <2>0, <3>1, <3>2, <3>3, <3>5
      <4>2. QED
        BY <2>0, <2>1, <3>3, <3>5, <4>1 DEF RecoveredItem
    <3>6. QED
      BY <3>4, <3>5
  <2>5. ASSUME NEW t \in Session, pc'[t] # "idle" PROVE ToldOK(t)'
    BY <1>others, <2>0, <2>5 DEF sessionVars
  <2>6. QED
    BY <2>2, <2>3, <2>4, <2>5 DEF CacheConc
<1>19. ASSUME NEW j \in Job, NEW l \in Listing, Land(j, l) PROVE CacheConc'
  <2>0. /\ <<j, l>> \in wire /\ UNCHANGED <<dbVars, sessionVars, raced>>
        /\ \A i \in Listing : remote'[i] = IF i = l THEN j ELSE remote[i]
    BY <1>19, <1>ty DEF Land, TypeOK
  <2>1. /\ lock[l] = j /\ item[j][l] # "applied"
        /\ j \notin raced => latest[j][l] \in Uncertain
    <3>1. CASE j \in raced
      BY <1>inv, <2>0, <3>1 DEF LockInv, RacedOK, Live, UncertainItem
    <3>2. CASE j \notin raced
      BY <1>jobs, <2>0, <3>2 DEF WireOK, UncertainLocked, ItemsOK, Uncertain
    <3>3. QED
      BY <3>1, <3>2
  <2>2. ASSUME NEW k \in Job PROVE RemoteOK(k)' /\ VerifiedOK(k)'
    BY <1>ro, <1>vo, <2>0, <2>1 DEF RemoteOK, VerifiedOK, dbVars, Uncertain
  <2>3. ASSUME NEW i \in Listing PROVE CacheOK(i)'
    BY <1>co, <2>0, <2>1 DEF CacheOK, Adrift, dbVars
  <2>4. ASSUME NEW t \in Session, pc'[t] # "idle" PROVE ToldOK(t)'
    <3> SUFFICES ASSUME task[t] \notin raced PROVE ToldOK(t)'
      BY <2>0 DEF ToldOK, sessionVars
    <3>1. /\ pc[t] # "idle" /\ pc'[t] = pc[t] /\ task'[t] = task[t] /\ result'[t] = result[t]
          /\ Owns(t)' = Owns(t)
          /\ task[t] \in Job /\ Scope[task[t]] \subseteq Listing /\ ToldOK(t)
          /\ pc[t] \in Points
      BY <1>ty, <1>to, <1>task, <2>0, <2>4 DEF sessionVars, dbVars, Owns, TypeOK
    <3> SUFFICES ASSUME NEW i \in Scope[task[t]]
                 PROVE  /\ pc[t] \in ApplyPoints /\ result[t][i] = "failed" => remote'[i] # task[t]
                        /\ Owns(t) /\ result[t][i] = "verified_applied" => remote'[i] = task[t]
                        /\ pc[t] = "r_claim" => result[t][i] # "verified_applied"
      BY <3>1 DEF ToldOK
    <3>2. CASE i # l
      BY <2>0, <3>1, <3>2 DEF ToldOK
    <3>3. CASE i = l
      <4>1. pc[t] \in ApplyPoints /\ result[t][i] = "failed" => j # task[t]
        BY <1>ses, <2>0, <3>1, <3>3 DEF ResultsOK
      <4>2. ASSUME Owns(t), result[t][i] = "verified_applied" PROVE lock[i] = task[t]
        <5>1. CASE pc[t] \in ApplyPoints
          BY <1>ses, <3>1, <4>2, <5>1 DEF EarlyOK, EarlyPoints, OwnerOK
        <5>2. CASE pc[t] \in ReconcilePoints
          <6>1. item[task[t]][i] \in UncertainItem
            BY <1>ses, <3>1, <4>2, <5>2 DEF ReadBackOK, ToldOK
          <6>2. QED
            BY <1>jobs, <3>1, <6>1 DEF UncertainLocked, UncertainItem
        <5>3. QED
          BY <3>1, <5>1, <5>2 DEF Points
      <4>3. pc[t] = "r_claim" => result[t][i] # "verified_applied"
        BY <3>1 DEF ToldOK
      <4>4. QED
        BY <2>0, <2>1, <3>1, <3>3, <4>1, <4>2, <4>3
    <3>4. QED
      BY <3>2, <3>3
  <2>5. QED
    BY <2>2, <2>3, <2>4 DEF CacheConc
<1>20. ASSUME NEW j \in Job, NEW l \in Listing, Drop(j, l) PROVE CacheConc'
  <2>0. UNCHANGED <<dbVars, remote, sessionVars, raced>>
    BY <1>20 DEF Drop
  <2>1. ASSUME NEW t \in Session, pc'[t] # "idle" PROVE ToldOK(t)'
    BY <1>others, <2>0, <2>1 DEF sessionVars
  <2>2. QED
    BY <2>0, <2>1, StoredFrame DEF CacheConc
<1>21. CASE UNCHANGED vars
  <2>1. ASSUME NEW t \in Session, pc'[t] # "idle" PROVE ToldOK(t)'
    BY <1>others, <1>21, <2>1 DEF vars, providerVars, sessionVars
  <2>2. QED
    BY <1>21, <2>1, StoredFrame DEF CacheConc, vars, providerVars
<1>22. ASSUME NEW s \in Session, StepOf(s) PROVE CacheConc'
  <2>1. CASE task[s] \in raced'
    BY <1>22, <2>1, CacheRacedStep
  <2>2. CASE task[s] \notin raced'
    <3>1. raced \subseteq raced'
      BY <1>22
         DEF StepOf, ApplyStep, ReconcileStep, AcquireLocks, LocksRefused, Claim, GoStale,
             Verified, PersistAttempts, Admit, LimiterFails, Dispatch, Send, Answer,
             RecordOutcomes, CheckLease, Finish, Complete, Fenced, Abort, Crash,
             ClaimReconcile, ReconcileRefused, ReadBack, RecordReadBack,
             CheckReconcileLease, FinishReconcile, ReconcileFenced
    <3>2. QED
      BY <1>22, <2>2, <3>1, <1>2, <1>3, <1>4, <1>5, <1>6, <1>7, <1>8, <1>9, <1>10, <1>11,
         <1>12, <1>13, <1>14, <1>15, <1>16
         DEF StepOf, ApplyStep, ReconcileStep, Fenced
  <2>3. QED
    BY <2>1, <2>2
<1>23. QED
  BY <1>1, <1>14a, <1>17, <1>18, <1>19, <1>20, <1>21, <1>22 DEF Next, StepOf, Recover

\* At first nothing is written, and every cache is current.
LEMMA CacheInit == Init => CacheInv
BY LockInit, ApplyAssumption
   DEF Init, CacheInv, RemoteOK, VerifiedOK, CacheOK, Uncertain, ScopeOK

\* The invariant of the caches holds as long as takeovers meet a lease check.
LEMMA CacheInvariant == ASSUME Stall \subseteq CheckedPoints PROVE Spec => []CacheInv
<1>1. CacheInv /\ [Next]_vars => CacheInv'
  <2> SUFFICES ASSUME CacheInv, [Next]_vars PROVE CacheInv'
    OBVIOUS
  <2>1. LockInv'
    BY LockInvStep DEF CacheInv
  <2>2. CacheConc'
    BY CacheStep
  <2>3. \A l \in Listing : ScopeOK(l)'
    BY ScopeStep DEF CacheInv
  <2>4. QED
    BY <2>1, <2>2, <2>3 DEF CacheConc, CacheInv
<1>2. QED
  BY CacheInit, <1>1, PTL DEF Spec

\* A Listing that is not adrift and that the local Current is behind on is locked by the
\* job whose write the provider has, and that job is not over.
LEMMA LagIsLocked ==
    ASSUME CacheInv, NEW l \in Listing, l \notin Adrift, cache[l] # remote[l]
    PROVE  /\ lock[l] \in Job /\ remote[l] = lock[l] /\ jobStatus[lock[l]] \in Unfinished
           /\ latest[lock[l]][l] \in Uncertain \cup {"verified_applied"}
           /\ item[lock[l]][l] # "applied"
<1>1. remote[l] \in Job /\ item[remote[l]][l] # "applied"
  BY DEF CacheInv, CacheOK
<1>2. l \in Scope[remote[l]]
  BY <1>1, ApplyAssumption DEF CacheInv, ScopeOK
<1>3. remote[l] \notin raced
  BY <1>1, <1>2 DEF Adrift
<1>4. latest[remote[l]][l] \in Uncertain \cup {"verified_applied"}
  BY <1>1, <1>3 DEF CacheInv, RemoteOK
<1>5. lock[l] = remote[l] /\ jobStatus[remote[l]] \in Unfinished
  BY <1>1, <1>3, <1>4 DEF CacheInv, VerifiedOK, LockInv, JobInv, UncertainLocked
<1>6. QED
  BY <1>1, <1>4, <1>5

\* When apply_selected, reconcile_apply or recovery lets go of a Listing, its
\* ChannelCache row shows what the provider has: wherever the connector reports each
\* verified value back and no two reconciliations got in each other's way.
THEOREM UnlockedCachesAreCurrent ==
    ASSUME Stall \subseteq CheckedPoints PROVE Spec => []UnlockedCacheIsCurrent
<1>1. CacheInv => UnlockedCacheIsCurrent
  BY LagIsLocked, ApplyAssumption DEF UnlockedCacheIsCurrent
<1>2. QED
  BY CacheInvariant, <1>1, PTL

-----------------------------------------------------------------------------
(* Apply implements WriteOwnership: the owner of a Listing is the job of    *)
(* its WorkspaceLock, the local Current is ChannelCache, and a write is     *)
(* flying while it is on the wire.                                          *)

\* Steps that touch neither locks, requests, provider nor caches are stutters.
LEMMA SameOwnership ==
    ASSUME UNCHANGED <<lock, wire, sent, remote, cache, raced>>
    PROVE  UNCHANGED Ownership!vars
BY DEF Ownership!vars, Phase, Adrift

\* What is on the wire was sent, is locked by its job and has no known outcome.
LEMMA FlyingIsLocked ==
    ASSUME CacheInv, NEW j \in Job, NEW l \in Listing, <<j, l>> \in wire
    PROVE  /\ lock[l] = j /\ jobStatus[j] \in Unfinished /\ sent[j][l] = 1
           /\ j \notin raced => latest[j][l] \in Uncertain
<1>1. CASE j \in raced
  BY <1>1 DEF CacheInv, LockInv, RacedOK, Live, Unfinished
<1>2. CASE j \notin raced
  BY <1>2 DEF CacheInv, LockInv, JobInv, WireOK, UncertainLocked
<1>3. QED
  BY <1>1, <1>2

\* The Listings that _release_listing_locks lets go of.
LockedBy(j) == {l \in Listing : lock[l] = j}

\* A commit of job j that shows its verified writes to L and lets go of F settles
\* them, when nothing of F is in doubt any more.
LEMMA SettleStep ==
    ASSUME CacheInv, NEW j \in Job, NEW L \in SUBSET Listing, NEW F \in SUBSET Listing,
           UNCHANGED <<wire, sent, remote, raced>>,
           cache' = [l \in Listing |-> IF l \in L THEN j ELSE cache[l]],
           lock' = [l \in Listing |-> IF l \in F THEN NoJob ELSE lock[l]],
           \A l \in L \ Adrift : lock[l] = j /\ remote[l] = j,
           \A l \in F : /\ lock[l] = j /\ <<j, l>> \notin wire
                        /\ l \notin Adrift =>
                              /\ latest[j][l] \notin Uncertain
                              /\ latest[j][l] = "verified_applied" =>
                                    item[j][l] = "applied" \/ l \in L
    PROVE  Ownership!Next
<1>1. UNCHANGED <<Phase, Adrift>>
  BY DEF Phase, Adrift
<1>2. ASSUME NEW l \in F PROVE \A k \in Job : Phase[k][l] # "flying"
  BY <1>2, FlyingIsLocked DEF Phase
<1>3. ASSUME NEW l \in F, l \notin Adrift PROVE cache'[l] = remote[l]
  <2>1. CASE l \in L
    BY <1>3, <2>1
  <2>2. CASE l \notin L
    BY <1>3, <2>2, LagIsLocked
  <2>3. QED
    BY <2>1, <2>2
<1>4. Ownership!Settle(j, L, F)
  BY <1>1, <1>2, <1>3 DEF Ownership!Settle
<1>5. L \subseteq Ownership!Held(j) \cup Adrift /\ F \subseteq Ownership!Held(j)
  BY DEF Ownership!Held
<1>6. QED
  BY <1>4, <1>5 DEF Ownership!Next

\* Releasing a job's locks leaves the locks of other jobs alone.
LEMMA ReleasedLocks ==
    ASSUME NEW j
    PROVE  Released(j) = [l \in Listing |-> IF l \in LockedBy(j) THEN NoJob ELSE lock[l]]
BY DEF Released, LockedBy

\* No lock is released, and no cache refreshed, for no Listing.
LEMMA SameLocks ==
    ASSUME TypeOK
    PROVE  /\ lock = [l \in Listing |-> IF l \in {} THEN NoJob ELSE lock[l]]
           /\ \A j : cache = [l \in Listing |-> IF l \in {} THEN j ELSE cache[l]]
BY DEF TypeOK

\* A job that has no evidence of an uncertain or verified write lets go of all.
LEMMA ReleaseStep ==
    ASSUME CacheInv, NEW j \in Job \ raced, UNCHANGED <<wire, sent, remote, cache, raced>>,
           lock' = Released(j),
           \A l \in Listing : /\ latest[j][l] \notin Uncertain
                              /\ latest[j][l] = "verified_applied" => item[j][l] = "applied"
    PROVE  Ownership!Next
<1>1. TypeOK
  BY DEF CacheInv, LockInv, SentInv, TypeInv
<1>2. \A l \in LockedBy(j) : l \in Listing /\ lock[l] = j /\ <<j, l>> \notin wire
  BY FlyingIsLocked DEF LockedBy
<1>3. LockedBy(j) \in SUBSET Listing /\ {} \in SUBSET Listing
  BY DEF LockedBy
<1>4. /\ lock' = [l \in Listing |-> IF l \in LockedBy(j) THEN NoJob ELSE lock[l]]
      /\ cache' = [l \in Listing |-> IF l \in {} THEN j ELSE cache[l]]
  BY <1>1, ReleasedLocks, SameLocks
<1>5. ASSUME NEW l \in LockedBy(j)
      PROVE  /\ latest[j][l] \notin Uncertain
             /\ latest[j][l] = "verified_applied" => item[j][l] = "applied" \/ l \in {}
  BY <1>2
<1>6. ASSUME NEW L, NEW F, L = {}, F = LockedBy(j) PROVE Ownership!Next
  <2>1. /\ L \in SUBSET Listing /\ F \in SUBSET Listing /\ j \in Job
        /\ UNCHANGED <<wire, sent, remote, raced>>
        /\ lock' = [l \in Listing |-> IF l \in F THEN NoJob ELSE lock[l]]
        /\ cache' = [l \in Listing |-> IF l \in L THEN j ELSE cache[l]]
    BY <1>3, <1>4, <1>6
  <2>2. /\ \A l \in L \ Adrift : lock[l] = j /\ remote[l] = j
        /\ \A l \in F : /\ lock[l] = j /\ <<j, l>> \notin wire
                        /\ l \notin Adrift =>
                              /\ latest[j][l] \notin Uncertain
                              /\ latest[j][l] = "verified_applied" =>
                                    item[j][l] = "applied" \/ l \in L
    BY <1>2, <1>5, <1>6
  <2>3. QED
    BY <2>1, <2>2, SettleStep
<1>7. QED
  BY <1>6

\* Requests that are issued for locked Listings are issued for the only time.
LEMMA SendStep ==
    ASSUME CacheInv, NEW s \in Session, Send(s),
           \A l \in Sending(s) : lock[l] = task[s]
    PROVE  Ownership!Next
<1>ty. TypeOK /\ LoopOK(s)
  BY DEF CacheInv, LockInv, SentInv, TypeInv
<1> DEFINE j == task[s]
           L == Sending(s)
<1>1. /\ pc[s] = "send" /\ j \in Job /\ L \in SUBSET Listing
      /\ UNCHANGED <<lock, cache, remote, raced>>
      /\ wire' = wire \cup {<<j, l>> : l \in L}
      /\ sent' = [sent EXCEPT ![j] = [l \in Listing |-> IF l \in L THEN @[l] + 1 ELSE @[l]]]
  BY <1>ty DEF Send, At, dbVars, Sending, TypeOK, LoopOK
<1>2. \A l \in L : sent[j][l] = 0 /\ <<j, l>> \notin wire
  <2>1. \A l \in L : sent[j][l] = 0
    BY <1>1 DEF CacheInv, LockInv, SentInv, NotSentYet, Sending
  <2>2. QED
    BY <1>1, <2>1, FlyingIsLocked
<1>3. Phase' = [Phase EXCEPT ![j] = [l \in Listing |-> IF l \in L THEN "flying" ELSE @[l]]]
  <2>1. ASSUME NEW k \in Job, NEW l \in Listing
        PROVE  Phase'[k][l] = IF k = j /\ l \in L THEN "flying" ELSE Phase[k][l]
    <3>1. <<k, l>> \in wire' <=> <<k, l>> \in wire \/ (k = j /\ l \in L)
      BY <1>1
    <3>2. ~(k = j /\ l \in L) => sent'[k][l] = sent[k][l]
      BY <1>ty, <1>1 DEF TypeOK
    <3>3. QED
      BY <3>1, <3>2 DEF Phase
  <2>2. /\ Phase' = [k \in Job |-> [l \in Listing |-> Phase'[k][l]]]
        /\ Phase = [k \in Job |-> [l \in Listing |-> Phase[k][l]]]
    BY DEF Phase
  <2> HIDE DEF j, L
  <2>3. QED
    BY <1>1, <2>1, <2>2, SMTT(30)
<1>4. UNCHANGED Adrift
  BY <1>1 DEF Adrift
<1>5. Ownership!Send(j, L)
  BY <1>1, <1>2, <1>3, <1>4 DEF Ownership!Send, Phase
<1>6. QED
  BY <1>1, <1>5 DEF Ownership!Next, Ownership!Held

\* What is still done to a job whose reconciliations got in each other's way is what
\* WriteOwnership allows: its write is sent while it owns the Listing, no Listing is let
\* go of while a write can reach it, and otherwise more Listings go adrift.
LEMMA RacedOwnership ==
    ASSUME Stall \subseteq CheckedPoints, CacheInv, [Next]_vars,
           NEW s \in Session, StepOf(s), task[s] \in raced'
    PROVE  Ownership!Next \/ UNCHANGED Ownership!vars
<1>inv. LockInv /\ SentInv /\ TypeInv /\ TypeOK
  BY DEF CacheInv, LockInv, SentInv, TypeInv
<1>ok. RacedOK(task[s]) /\ RacedAct(s)
  BY <1>inv, RacedOnly
<1>job. task[s] \in Job /\ Scope[task[s]] \in SUBSET Listing
  BY <1>inv, Elsewhere, ApplyAssumption
<1>1. CASE Send(s)
  <2>1. \A l \in Sending(s) : l \in Listing /\ Live(task[s], l)
    BY <1>1, <1>inv DEF Send, At, Sending, Live, TypeOK
  <2>2. QED
    BY <1>1, <1>ok, <2>1, SendStep DEF RacedOK
<1>2. CASE Abort(s)
  <2>1. UNCHANGED <<lock, wire, sent, remote, cache, raced>>
    BY <1>2, <1>ok DEF Abort, providerVars, RacedOK
  <2>2. QED
    BY <2>1, SameOwnership
<1>3. CASE ClaimReconcile(s)
  <2>1. UNCHANGED <<lock, wire, sent, remote, cache>> /\ raced \subseteq raced'
    BY <1>3 DEF ClaimReconcile, providerVars
  <2>2. UNCHANGED Phase /\ Adrift \subseteq Adrift'
    BY <2>1, AdriftGrows DEF Phase
  <2>3. Adrift' \subseteq Listing
    <3>1. TypeInv'
      BY <1>inv, TypeStep
    <3>2. QED
      BY <3>1, ApplyAssumption DEF Adrift, TypeInv, TypeOK
  <2>4. QED
    BY <2>1, <2>2, <2>3 DEF Ownership!Drift, Ownership!Next
<1>4. CASE FinishReconcile(s)
  <2> SUFFICES ASSUME NEW j \in Job, j = task[s] PROVE Ownership!Next
    BY <1>job
  <2> DEFINE R == {l \in Scope[j] : result[s][l] # "none"}
             L == {l \in R \cap Reported : result[s][l] = "verified_applied"}
             status == StatusFromItems({item'[j][l] : l \in Scope[j]})
             F == IF status = "applied" THEN LockedBy(j) ELSE {}
  <2>1. /\ L \in SUBSET Listing /\ F \in SUBSET Listing /\ L \subseteq Scope[j]
        /\ UNCHANGED <<wire, sent, remote, raced>>
        /\ lock' = IF status = "applied" THEN Released(j) ELSE lock
        /\ RecordItems(j, R, result[s])
    BY <1>4, <1>job DEF FinishReconcile, providerVars, LockedBy
  <2>2. /\ cache' = [l \in Listing |-> IF l \in L THEN j ELSE cache[l]]
        /\ lock' = [l \in Listing |-> IF l \in F THEN NoJob ELSE lock[l]]
    BY <1>inv, <2>1, ReleasedLocks, SameLocks DEF RecordItems
  <2>3. Scope[j] \subseteq Adrift
    BY <2>1, ApplyAssumption DEF Adrift
  <2>4. RacedOK(j)'
    BY <1>inv, <1>job, <1>ok, RacedKeeps
  <2>5. ASSUME NEW l \in F PROVE lock[l] = j /\ <<j, l>> \notin wire /\ l \in Scope[j]
    <3>1. l \in Listing /\ lock[l] = j /\ lock'[l] = NoJob
      BY <2>2, <2>5 DEF LockedBy
    <3>2. <<j, l>> \notin wire'
      BY <1>job, <2>4, <3>1, ApplyAssumption DEF RacedOK, Live
    <3>3. l \in Scope[j]
      BY <1>job, <3>1, ApplyAssumption DEF CacheInv, ScopeOK
    <3>4. QED
      BY <2>1, <3>1, <3>2, <3>3
  <2>6. QED
    <3> HIDE DEF L, F, R, status
    <3>1. QED
      BY <2>1, <2>2, <2>3, <2>5, SettleStep
<1>5. CASE \/ Crash(s) \/ ReconcileRefused(s) \/ ReconcileFenced(s)
           \/ \E c \in Channel, V \in SUBSET Listing : ReadBack(s, c, V)
           \/ RecordReadBack(s) \/ CheckReconcileLease(s)
  <2>1. UNCHANGED <<lock, wire, sent, remote, cache, raced>>
    BY <1>5
       DEF Crash, ReconcileRefused, ReconcileFenced, ReadBack, RecordReadBack,
           CheckReconcileLease, dbVars, providerVars
  <2>2. QED
    BY <2>1, SameOwnership
<1>6. QED
  BY <1>ok, <1>1, <1>2, <1>3, <1>4, <1>5 DEF RacedAct, ReconcileStep

\* Every step of Apply is one of WriteOwnership or a stutter.
LEMMA OwnershipStep ==
    ASSUME Stall \subseteq CheckedPoints, CacheInv, [Next]_vars
    PROVE  Ownership!Next \/ UNCHANGED Ownership!vars
<1>inv. LockInv
  BY DEF CacheInv
<1>ty. TypeOK /\ (\A s \in Session : LoopOK(s))
  BY <1>inv DEF LockInv, SentInv, TypeInv
<1>jobs. \A j \in Job \ raced : EvidenceOK(j) /\ ItemsOK(j) /\ UncertainLocked(j) /\ WireOK(j)
  BY <1>inv DEF LockInv, JobInv
<1>ses. \A s \in Session : task[s] \notin raced =>
           TokenOK(s) /\ EarlyOK(s) /\ OwnerOK(s) /\ ResultsOK(s) /\ ReadBackOK(s)
  BY <1>inv DEF LockInv, SessionInv, Rest
<1>to. \A s \in Session : pc[s] # "idle" => ToldOK(s)
  BY DEF CacheInv
<1>task. \A s \in Session : pc[s] # "idle" =>
            task[s] \in Job /\ Scope[task[s]] \in SUBSET Listing
  BY <1>ty, ApplyAssumption DEF LoopOK
<1>owner. \A s \in Session :
             task[s] \notin raced /\ pc[s] \in UncheckedPoints \ {"locking", "claim", "r_claim"}
             => Owns(s)
  BY <1>ses DEF TokenOK
<1> USE DEF At
<1>1. ASSUME NEW s \in Session, AcquireLocks(s) PROVE Ownership!Next
  <2>1. /\ task[s] \in Job /\ Scope[task[s]] \in SUBSET Listing
        /\ \A l \in Scope[task[s]] : Takeable(l)
        /\ lock' = [l \in Listing |-> IF l \in Scope[task[s]] THEN task[s] ELSE lock[l]]
        /\ UNCHANGED <<cache, remote, wire, sent, raced>>
    BY <1>1, <1>task DEF AcquireLocks, providerVars
  <2>2. ASSUME NEW l \in Scope[task[s]] PROVE Ownership!AtRest(l)
    <3>1. \A k \in Job : <<k, l>> \notin wire
      BY <2>1, FlyingIsLocked, ApplyAssumption DEF Takeable
    <3>2. l \notin Adrift => cache[l] = remote[l]
      BY <2>1, LagIsLocked, ApplyAssumption DEF Takeable
    <3>3. QED
      BY <2>1, <3>1, <3>2 DEF Ownership!AtRest, Phase
  <2>3. UNCHANGED <<Phase, Adrift>>
    BY <2>1 DEF Phase, Adrift
  <2>4. Ownership!Take(task[s], Scope[task[s]])
    BY <2>1, <2>2, <2>3 DEF Ownership!Take
  <2>5. QED
    BY <2>1, <2>2, <2>4 DEF Ownership!Next
<1>2. ASSUME NEW s \in Session, GoStale(s), task[s] \notin raced PROVE Ownership!Next
  <2>1. /\ task[s] \in Job \ raced /\ lock' = Released(task[s])
        /\ UNCHANGED <<wire, sent, remote, cache, raced>>
    BY <1>2, <1>task DEF GoStale, providerVars
  <2>2. \A l \in Listing : latest[task[s]][l] = "none"
    BY <1>2, <1>ses DEF GoStale, EarlyOK, EarlyPoints
  <2>3. QED
    BY <2>1, <2>2, ReleaseStep DEF Uncertain
<1>3. ASSUME NEW s \in Session, Send(s), task[s] \notin raced PROVE Ownership!Next
  <2>1. task[s] \in Job \ raced /\ pc[s] = "send" /\ \A l \in Sending(s) : l \in Listing
    BY <1>3, <1>ty, <1>task DEF Send, Sending, TypeOK
  <2>2. \A l \in Sending(s) : latest[task[s]][l] \in Uncertain
    BY <1>ses, <2>1 DEF ResultsOK
  <2>3. QED
    BY <1>3, <1>jobs, <2>1, <2>2, SendStep DEF UncertainLocked
<1>4. ASSUME NEW s \in Session, Finish(s), task[s] \notin raced PROVE Ownership!Next
  <2> DEFINE j == task[s]
             L == {l \in Scope[j] \cap Reported : result[s][l] = "verified_applied"}
  <2>1. /\ pc[s] = "finish" /\ j \in Job \ raced
        /\ L \in SUBSET Listing /\ Scope[j] \in SUBSET Listing
        /\ UNCHANGED <<lock, wire, sent, remote, raced>>
        /\ cache' = [l \in Listing |-> IF l \in L THEN j ELSE cache[l]]
    BY <1>4, <1>task DEF Finish, RecordItems, providerVars
  <2>2. Owns(s) /\ ToldOK(s)
    BY <1>owner, <1>to, <2>1 DEF UncheckedPoints
  <2>3. \A l \in L : lock[l] = j /\ remote[l] = j
    BY <1>ses, <2>1, <2>2 DEF OwnerOK, ToldOK, ApplyPoints
  <2> DEFINE F == {}
  <2>4. /\ F \in SUBSET Listing
        /\ lock' = [l \in Listing |-> IF l \in F THEN NoJob ELSE lock[l]]
    BY <1>ty, <2>1, SameLocks
  <2>5. \A l \in F : FALSE
    OBVIOUS
  <2>6. QED
    <3> HIDE DEF j, L, F
    <3>1. /\ j \in Job /\ L \in SUBSET Listing /\ F \in SUBSET Listing
          /\ UNCHANGED <<wire, sent, remote, raced>>
          /\ \A l \in L \ Adrift : lock[l] = j /\ remote[l] = j
      BY <2>1, <2>3, <2>4
    <3>2. \A l \in F : /\ lock[l] = j /\ <<j, l>> \notin wire
                       /\ l \notin Adrift =>
                             /\ latest[j][l] \notin Uncertain
                             /\ latest[j][l] = "verified_applied" =>
                                   item[j][l] = "applied" \/ l \in L
      BY <2>5
    <3>3. QED
      BY <2>1, <2>4, <3>1, <3>2, SettleStep
<1>5. ASSUME NEW s \in Session, Complete(s), task[s] \notin raced
      PROVE  Ownership!Next \/ UNCHANGED Ownership!vars
  <2> DEFINE j == task[s]
             status == StatusFromResults({result[s][l] : l \in Scope[j]})
  <2>1. /\ pc[s] = "status" /\ j \in Job \ raced /\ Scope[j] \in SUBSET Listing
        /\ UNCHANGED <<wire, sent, remote, cache, raced>>
        /\ lock' = IF status = "reconciliation_required" THEN lock ELSE Released(j)
    BY <1>5, <1>task DEF Complete, providerVars
  <2>2. \A l \in Scope[j] : /\ latest[j][l] = result[s][l]
                            /\ item[j][l] = ItemAfter(result[s][l])
    BY <1>ses, <1>owner, <2>1 DEF ResultsOK, UncheckedPoints
  <2>3. CASE status = "reconciliation_required"
    BY <2>1, <2>3, SameOwnership
  <2>4. CASE status # "reconciliation_required"
    <3>1. \A l \in Scope[j] : result[s][l] \in Result \ {"reconciliation_required"}
      <4>1. \A l \in Scope[j] : result[s][l] \in Result
        BY <1>ty, <2>1 DEF LoopOK, TypeOK
      <4>2. \A l \in Scope[j] : result[s][l] # "reconciliation_required"
        BY <2>4 DEF StatusFromResults
      <4>3. QED
        BY <4>1, <4>2
    <3>2. \A l \in Listing : /\ latest[j][l] \notin Uncertain
                             /\ latest[j][l] = "verified_applied" => item[j][l] = "applied"
      BY <1>jobs, <2>1, <2>2, <3>1 DEF EvidenceOK, Uncertain, Result, ItemAfter
    <3>3. QED
      BY <2>1, <2>4, <3>2, ReleaseStep
  <2>5. QED
    BY <2>3, <2>4
<1>6. ASSUME NEW s \in Session, Abort(s), task[s] \notin raced
      PROVE  Ownership!Next \/ UNCHANGED Ownership!vars
  <2>1. /\ task[s] \in Job \ raced /\ UNCHANGED <<wire, sent, remote, cache, raced>>
        /\ lock' = IF DispatchedEver(task[s]) THEN lock ELSE Released(task[s])
    BY <1>6, <1>task DEF Abort, providerVars, ApplyPoints
  <2>2. CASE DispatchedEver(task[s])
    BY <2>1, <2>2, SameOwnership
  <2>3. CASE ~DispatchedEver(task[s])
    <3>1. \A l \in Listing :
             latest[task[s]][l] \notin Uncertain \cup {"verified_applied"}
      BY <1>jobs, <2>1, <2>3 DEF EvidenceOK, DispatchedEver, Uncertain
    <3>2. QED
      BY <2>1, <2>3, <3>1, ReleaseStep
  <2>4. QED
    BY <2>2, <2>3
<1>7. ASSUME NEW s \in Session, FinishReconcile(s), task[s] \notin raced
      PROVE  Ownership!Next
  <2> DEFINE j == task[s]
             R == {l \in Scope[j] : result[s][l] # "none"}
             L == {l \in R \cap Reported : result[s][l] = "verified_applied"}
             status == StatusFromItems({item'[j][l] : l \in Scope[j]})
             F == IF status = "applied" THEN LockedBy(j) ELSE {}
  <2>1. /\ pc[s] = "r_finish" /\ j \in Job \ raced /\ Scope[j] \in SUBSET Listing
        /\ L \in SUBSET Listing /\ F \in SUBSET Listing
        /\ UNCHANGED <<wire, sent, remote, raced>>
        /\ lock' = IF status = "applied" THEN Released(j) ELSE lock
        /\ RecordItems(j, R, result[s])
    BY <1>7, <1>task DEF FinishReconcile, providerVars, LockedBy
  <2>2. /\ cache' = [l \in Listing |-> IF l \in L THEN j ELSE cache[l]]
        /\ lock' = [l \in Listing |-> IF l \in F THEN NoJob ELSE lock[l]]
    BY <1>ty, <2>1, ReleasedLocks, SameLocks DEF RecordItems
  <2>3. Owns(s) /\ ToldOK(s)
    BY <1>owner, <1>to, <2>1 DEF UncheckedPoints
  <2>4. \A l \in R : item[j][l] \in UncertainItem /\ latest[j][l] = result[s][l]
    BY <1>ses, <2>1, <2>3 DEF ReadBackOK, ReconcilePoints
  <2>5. \A l \in L : lock[l] = j /\ remote[l] = j
    BY <1>jobs, <2>1, <2>3, <2>4 DEF ToldOK, UncertainLocked
  <2>6. ASSUME NEW l \in F
        PROVE  /\ lock[l] = j /\ latest[j][l] \notin Uncertain
               /\ l \notin Adrift /\ latest[j][l] = "verified_applied" =>
                     item[j][l] = "applied" \/ l \in L
    <3>1. status = "applied" /\ lock[l] = j /\ l \in Listing
      BY <2>6 DEF LockedBy
    <3>2. CASE l \notin Scope[j]
      BY <1>jobs, <2>1, <3>1, <3>2 DEF EvidenceOK, Uncertain
    <3>3. CASE l \in Scope[j]
      <4>1. item'[j][l] = "applied"
        BY <3>1, <3>3 DEF StatusFromItems
      <4>2. CASE l \in R
        <5>1. item'[j][l] = ItemAfter(result[s][l]) /\ result[s][l] \in Result
          BY <1>ty, <2>1, <3>1, <4>2 DEF RecordItems, TypeOK
        <5>2. result[s][l] = "verified_applied"
          BY <4>1, <5>1 DEF ItemAfter, Result
        <5>3. QED
          BY <2>4, <3>1, <4>2, <5>2 DEF Uncertain, Adrift
      <4>3. CASE l \notin R
        <5>1. item[j][l] = "applied"
          BY <1>ty, <2>1, <3>1, <4>1, <4>3 DEF RecordItems, TypeOK
        <5>2. QED
          BY <1>jobs, <2>1, <3>1, <5>1 DEF ItemsOK, Uncertain
      <4>4. QED
        BY <4>2, <4>3
    <3>4. QED
      BY <3>2, <3>3
  <2>7. \A l \in F : <<j, l>> \notin wire
    BY <1>jobs, <2>1, <2>6 DEF WireOK
  <2>8. QED
    <3> HIDE DEF j, L, F, R, status
    <3>1. /\ j \in Job /\ L \in SUBSET Listing /\ F \in SUBSET Listing
          /\ UNCHANGED <<wire, sent, remote, raced>>
          /\ \A l \in L \ Adrift : lock[l] = j /\ remote[l] = j
      BY <2>1, <2>5
    <3>2. \A l \in F : /\ lock[l] = j /\ <<j, l>> \notin wire
                       /\ l \notin Adrift =>
                             /\ latest[j][l] \notin Uncertain
                             /\ latest[j][l] = "verified_applied" =>
                                   item[j][l] = "applied" \/ l \in L
      BY <2>6, <2>7
    <3>3. QED
      BY <2>2, <3>1, <3>2, SettleStep
<1>8. ASSUME NEW j \in Job, RecoverWithoutAttempt(j) PROVE Ownership!Next
  <2>1. /\ lock' = Released(j) /\ UNCHANGED <<wire, sent, remote, cache, raced>>
        /\ \A l \in Scope[j] : events[j][l] = {}
        /\ j \notin raced
    BY <1>8, <1>inv DEF RecoverWithoutAttempt, providerVars, LockInv, RacedOK
  <2>2. \A l \in Listing : latest[j][l] = "none"
    BY <1>jobs, <2>1 DEF EvidenceOK
  <2>3. QED
    BY <2>1, <2>2, ReleaseStep DEF Uncertain
<1>9. ASSUME NEW j \in Job, RecoverFromAttempts(j) PROVE Ownership!Next
  <2> DEFINE L == {l \in Scope[j] : latest[j][l] = "verified_applied" /\ item[j][l] # "applied"}
             status == StatusFromItems({item'[j][l] : l \in Scope[j]})
             F == IF status = "reconciliation_required" THEN {} ELSE LockedBy(j)
  <2>1. /\ Scope[j] \in SUBSET Listing /\ L \in SUBSET Listing /\ F \in SUBSET Listing
        /\ UNCHANGED <<wire, sent, remote, raced>> /\ j \notin raced
        /\ lock' = IF status = "reconciliation_required" THEN lock ELSE Released(j)
        /\ cache' = RecoveredCache(j)
        /\ item' = [item EXCEPT ![j] =
              [l \in Listing |-> IF l \in Scope[j] THEN RecoveredItem(j, l) ELSE @[l]]]
    BY <1>9, <1>inv, ApplyAssumption
       DEF RecoverFromAttempts, providerVars, LockedBy, LockInv, RacedOK
  <2>2. /\ cache' = [l \in Listing |-> IF l \in L THEN j ELSE cache[l]]
        /\ lock' = [l \in Listing |-> IF l \in F THEN NoJob ELSE lock[l]]
    BY <1>ty, <2>1, ReleasedLocks, SameLocks DEF RecoveredCache
  <2>3. \A l \in L : lock[l] = j /\ remote[l] = j
    BY <2>1 DEF CacheInv, VerifiedOK
  <2>4. ASSUME NEW l \in F
        PROVE  /\ lock[l] = j /\ latest[j][l] \notin Uncertain
               /\ latest[j][l] = "verified_applied" => item[j][l] = "applied" \/ l \in L
    <3>1. status # "reconciliation_required" /\ lock[l] = j /\ l \in Listing
      BY <2>4 DEF LockedBy
    <3>2. CASE l \notin Scope[j]
      BY <1>jobs, <2>1, <3>1, <3>2 DEF EvidenceOK, Uncertain
    <3>3. CASE l \in Scope[j]
      <4>1. RecoveredItem(j, l) # "reconciliation_required"
        <5>1. item'[j][l] = RecoveredItem(j, l)
          BY <1>ty, <2>1, <3>1, <3>3 DEF TypeOK
        <5>2. item'[j][l] \notin UncertainItem
          BY <3>1, <3>3 DEF StatusFromItems, UncertainItem
        <5>3. QED
          BY <5>1, <5>2 DEF UncertainItem
      <4>2. latest[j][l] \notin Uncertain
        BY <1>jobs, <2>1, <3>1, <4>1 DEF RecoveredItem, ItemsOK, Uncertain
      <4>3. QED
        BY <3>1, <3>3, <4>2
    <3>4. QED
      BY <3>2, <3>3
  <2>5. \A l \in F : <<j, l>> \notin wire
    BY <1>jobs, <2>1, <2>4 DEF WireOK
  <2>6. QED
    <3> HIDE DEF L, F, status
    <3>1. QED
      BY <2>1, <2>2, <2>3, <2>4, <2>5, SettleStep, SMTT(60)
<1>10. ASSUME NEW j \in Job, NEW l \in Listing, Land(j, l) \/ Drop(j, l)
       PROVE  Ownership!Next
  <2>1. /\ <<j, l>> \in wire /\ wire' = wire \ {<<j, l>>}
        /\ UNCHANGED <<lock, cache, sent, raced>>
        /\ remote' = [remote EXCEPT ![l] = j] \/ remote' = remote
    BY <1>10 DEF Land, Drop, dbVars
  <2>2. sent[j][l] = 1
    BY <2>1, FlyingIsLocked
  <2>3. Phase' = [Phase EXCEPT ![j][l] = "done"]
    <3>1. ASSUME NEW k \in Job, NEW i \in Listing
          PROVE  Phase'[k][i] = IF k = j /\ i = l THEN "done" ELSE Phase[k][i]
      BY <2>1, <2>2 DEF Phase
    <3>2. /\ Phase' = [k \in Job |-> [i \in Listing |-> Phase'[k][i]]]
          /\ Phase = [k \in Job |-> [i \in Listing |-> Phase[k][i]]]
      BY DEF Phase
    <3>3. QED
      BY <3>1, <3>2
  <2>4. Phase[j][l] = "flying" /\ UNCHANGED Adrift
    BY <2>1 DEF Phase, Adrift
  <2>5. Ownership!Land(j, l) \/ Ownership!Drop(j, l)
    BY <2>1, <2>3, <2>4 DEF Ownership!Land, Ownership!Drop
  <2>6. QED
    BY <2>5 DEF Ownership!Next
\* Everything else is a stutter of the abstract specification.
<1>11. ASSUME NEW s \in Session,
              \/ \E j \in Job : Request(s, j) \/ StartReconcile(s, j)
              \/ (ClaimReconcile(s) /\ task[s] \notin raced') \/ ReconcileRefused(s)
              \/ LocksRefused(s) \/ Claim(s) \/ Verified(s) \/ PersistAttempts(s)
              \/ \E c \in Channel : Admit(s, c) \/ LimiterFails(s, c)
              \/ \E D \in SUBSET Listing : Dispatch(s, D)
              \/ \E r \in [Listing -> Result \cup {"none"}] : Answer(s, r)
              \/ RecordOutcomes(s) \/ CheckLease(s)
              \/ \E c \in Channel, V \in SUBSET Listing : ReadBack(s, c, V)
              \/ RecordReadBack(s) \/ CheckReconcileLease(s) \/ ReconcileFenced(s) \/ Crash(s)
       PROVE  UNCHANGED Ownership!vars
  <2>1. UNCHANGED <<lock, wire, sent, remote, cache, raced>>
    BY <1>11
       DEF Request, StartReconcile, ClaimReconcile, ReconcileRefused, LocksRefused, Claim,
           Verified, PersistAttempts, Admit, LimiterFails, Dispatch, Answer, RecordOutcomes, CheckLease, ReadBack,
           RecordReadBack, CheckReconcileLease, ReconcileFenced, Crash, dbVars, providerVars
  <2>2. QED
    BY <2>1, SameOwnership
<1>12. CASE UNCHANGED vars
  BY <1>12, SameOwnership DEF vars, dbVars, providerVars
<1>13. ASSUME NEW s \in Session, StepOf(s)
       PROVE  Ownership!Next \/ UNCHANGED Ownership!vars
  <2>1. CASE task[s] \in raced'
    BY <1>13, <2>1, RacedOwnership
  <2>2. CASE task[s] \notin raced'
    <3>1. raced \subseteq raced'
      BY <1>13
         DEF StepOf, ApplyStep, ReconcileStep, AcquireLocks, LocksRefused, Claim, GoStale,
             Verified, PersistAttempts, Admit, LimiterFails, Dispatch, Send, Answer,
             RecordOutcomes, CheckLease, Finish, Complete, Fenced, Abort, Crash,
             ClaimReconcile, ReconcileRefused, ReadBack, RecordReadBack,
             CheckReconcileLease, FinishReconcile, ReconcileFenced
    <3>2. QED
      BY <1>13, <2>2, <3>1, <1>1, <1>2, <1>3, <1>4, <1>5, <1>6, <1>7, <1>11
         DEF StepOf, ApplyStep, ReconcileStep, Fenced
  <2>3. QED
    BY <2>1, <2>2
<1>14. QED
  BY <1>8, <1>9, <1>10, <1>11, <1>12, <1>13 DEF Next, Recover, StepOf

\* The initial states are initial states of WriteOwnership.
LEMMA OwnershipInit == Init => Ownership!Init
BY ApplyAssumption DEF Init, Ownership!Init, Phase, Adrift

\* Whatever crashes, recovers, is retried or overtaken, Apply writes to a Listing
\* as WriteOwnership promises: each write goes out once, by the owner of its
\* Listing, and the Listing changes hands at rest.
THEOREM ApplyImplementsOwnership ==
    ASSUME Stall \subseteq CheckedPoints PROVE Spec => ImplementsOwnership
<1>1. CacheInv /\ [Next]_vars => [Ownership!Next]_(Ownership!vars)
  BY OwnershipStep
<1>2. QED
  BY OwnershipInit, CacheInvariant, <1>1, PTL DEF Spec, ImplementsOwnership, Ownership!Spec
=============================================================================
