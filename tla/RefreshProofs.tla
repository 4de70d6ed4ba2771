--------------------------- MODULE RefreshProofs ---------------------------
(***************************************************************************)
(* Proofs about RefreshJobs, for any number of sessions and jobs: one      *)
(* marketplace run owns a channel, and settles its own job.                *)
(***************************************************************************)
EXTENDS MCOrderRunner, FiniteSetTheorems, WellFoundedInduction, TLAPS

(* RefreshJobs *)

\* Jobs are numbered in the order of their creation, without gaps.
InOrder == \E n \in 0..MaxJob : Created = 1..n

\* A run has a job that was created, or none yet; only a full refresh marks the
\* newest job as failed.
OwnJobsOK ==
    \A s \in Session : /\ ownJob[s] \in Created \cup {NoJob}
                       /\ runStep[s] = "mark" => runKind[s] = "full"

JobsInv == JobsTypeOK /\ InOrder /\ OwnJobsOK

\* A set of jobs that is not empty has a newest one: the first row of those ordered
\* by created_at, descending.
LEMMA NewestIsIn ==
    ASSUME NEW S, S \subseteq Job, S # {}
    PROVE  Newest(S) \in S
<1> USE RefreshJobsAssumption
<1> DEFINE Above(j) == {i \in S : j < i}
           T == {Above(j) : j \in S}
<1>1. Job \subseteq Int /\ IsFiniteSet(Job) BY FS_Interval DEF Job
<1>2. IsWellFoundedOn(StrictSubsetOrdering(Job), SUBSET Job)
  BY <1>1, FS_FiniteSubsetsOfFinite, FS_StrictSubsetOrderingWellFounded
<1>3. T \subseteq SUBSET Job /\ T # {} /\ \A i \in S : Above(i) \in T
  <2>1. \A j \in S : Above(j) \subseteq Job OBVIOUS
  <2> HIDE DEF Above
  <2> QED BY <2>1
<1> HIDE DEF T
<1>4. PICK x \in T : \A y \in T : <<y, x>> \notin StrictSubsetOrdering(Job) BY <1>2, <1>3, WFMin
<1>5. PICK j \in S : x = Above(j) BY <1>4 DEF T
<1>6. ASSUME NEW i \in S PROVE i <= j
  <2> SUFFICES ASSUME j < i PROVE FALSE BY <1>1
  <2>1. Above(i) \in T
    <3> HIDE DEF Above
    <3> QED BY <1>3
  <2>2. Above(i) \subseteq Above(j)
    <3>1. S \subseteq Int BY <1>1
    <3>2. \A k \in S : i < k => j < k BY <3>1
    <3> QED BY <3>2
  <2>3. i \in Above(j) /\ i \notin Above(i) BY <1>1
  <2>4. <<Above(i), x>> \in StrictSubsetOrdering(Job)
    BY <1>3, <1>4, <1>5, <2>1, <2>2, <2>3 DEF StrictSubsetOrdering
  <2> QED BY <1>4, <2>1, <2>4
<1> QED BY <1>5, <1>6 DEF Newest

\* A job gets another status: the same jobs have been created.
LEMMA CreatedStep ==
    ASSUME JobsInv, NEW j \in Created, NEW x \in {"none"} \cup Open \cup Ended, x # "none",
           jobStatus' = [jobStatus EXCEPT ![j] = x]
    PROVE  Created' = Created /\ InOrder' /\ jobStatus' \in [Job -> {"none"} \cup Open \cup Ended]
<1>1. j \in Job /\ jobStatus \in [Job -> {"none"} \cup Open \cup Ended] BY DEF JobsInv, JobsTypeOK, Created
<1>2. Created' = Created BY <1>1 DEF Created
<1>3. InOrder' BY <1>2 DEF JobsInv, InOrder
<1> QED BY <1>1, <1>2, <1>3

\* A run that ends, or dies, leaves rows and leases in order.
LEMMA EndRunTyping ==
    ASSUME JobsInv, NEW s \in Session, EndRun(s), Created \subseteq Created', InOrder',
           jobStatus' \in [Job -> {"none"} \cup Open \cup Ended],
           jobLeased' \subseteq Created', resumable' \subseteq Created', runFaults' \in 0..MaxRunFaults
    PROVE  JobsInv'
<1> USE DEF JobsInv, JobsTypeOK, OwnJobsOK, EndRun
<1>1. \A t \in Session : /\ t # s => /\ runStep'[t] = runStep[t] /\ runKind'[t] = runKind[t]
                                     /\ ownJob'[t] = ownJob[t] /\ runLocks'[t] = runLocks[t]
                         /\ t = s => runStep'[t] = "idle" /\ ownJob'[t] = NoJob /\ runLocks'[t] = {}
  OBVIOUS
<1>2. /\ runStep' \in [Session -> {"idle", "find", "create", "start", "commit", "page", "mark"}]
      /\ runKind' \in [Session -> Kind \cup {"none"}]
      /\ ownJob' \in [Session -> Job \cup {NoJob}]
      /\ runBlocked' \in [Session -> BOOLEAN]
  OBVIOUS
<1>3. runLocks' \in [Session -> SUBSET Created'] OBVIOUS
<1>4. \A t, u \in Session : t # u => runLocks'[t] \cap runLocks'[u] = {} BY <1>1
<1>5. \A t \in Session : runStep'[t] \in {"start", "commit", "page", "mark"} => ownJob'[t] # NoJob
  BY <1>1
<1>6. OwnJobsOK' BY <1>1
<1> QED BY <1>2, <1>3, <1>4, <1>5, <1>6

\* A run that goes on keeps its job, its locks and its place in order.
LEMMA RunTyping ==
    ASSUME JobsInv, NEW s \in Session, NEW p \in {"find", "create", "start", "commit", "page", "mark"},
           GoOn(s, p), Created \subseteq Created', InOrder',
           jobStatus' \in [Job -> {"none"} \cup Open \cup Ended],
           jobLeased' \subseteq Created', resumable' \subseteq Created', runFaults' \in 0..MaxRunFaults,
           NEW k \in Kind \cup {"none"}, runKind' = [runKind EXCEPT ![s] = k], p = "mark" => k = "full",
           NEW j \in Created' \cup {NoJob}, ownJob' = [ownJob EXCEPT ![s] = j],
           p \in {"start", "commit", "page", "mark"} => j # NoJob,
           runBlocked' \in [Session -> BOOLEAN],
           NEW l, l \subseteq Created', runLocks' = [runLocks EXCEPT ![s] = l],
           \A t \in Session \ {s} : l \cap runLocks[t] = {}
    PROVE  JobsInv'
<1> USE DEF JobsInv, JobsTypeOK, OwnJobsOK, GoOn
<1>0. Created' \subseteq Job BY DEF Created
<1>1. \A t \in Session : /\ t # s => /\ runStep'[t] = runStep[t] /\ runKind'[t] = runKind[t]
                                     /\ ownJob'[t] = ownJob[t] /\ runLocks'[t] = runLocks[t]
                         /\ t = s => /\ runStep'[t] = p /\ runKind'[t] = k
                                     /\ ownJob'[t] = j /\ runLocks'[t] = l
  OBVIOUS
<1>2. /\ runStep' \in [Session -> {"idle", "find", "create", "start", "commit", "page", "mark"}]
      /\ runKind' \in [Session -> Kind \cup {"none"}]
      /\ ownJob' \in [Session -> Job \cup {NoJob}]
  BY <1>0
<1>3. runLocks' \in [Session -> SUBSET Created'] OBVIOUS
<1>4. \A t, u \in Session : t # u => runLocks'[t] \cap runLocks'[u] = {}
  <2> SUFFICES ASSUME NEW t \in Session, NEW u \in Session, t # u
               PROVE  runLocks'[t] \cap runLocks'[u] = {}
    OBVIOUS
  <2>1. CASE t = s BY <1>1, <2>1
  <2>2. CASE u = s BY <1>1, <2>2
  <2>3. CASE t # s /\ u # s BY <1>1, <2>3
  <2> QED BY <2>1, <2>2, <2>3
<1>5. \A t \in Session : runStep'[t] \in {"start", "commit", "page", "mark"} => ownJob'[t] # NoJob
  BY <1>1
<1>6. OwnJobsOK' BY <1>1
<1> QED BY <1>2, <1>3, <1>4, <1>5, <1>6

\* Every step of the runs of a channel, of its recovery and of time keeps the
\* invariant of the refresh jobs.
LEMMA JobsStep ==
    ASSUME JobsInv, [JobsNext]_jobsVars
    PROVE  JobsInv'
<1> USE RefreshJobsAssumption
<1>t. /\ jobStatus \in [Job -> {"none"} \cup Open \cup Ended]
      /\ jobLeased \subseteq Created /\ resumable \subseteq Created /\ runFaults \in 0..MaxRunFaults
      /\ InOrder /\ Created \subseteq Job /\ NoJob \notin Job
      /\ runBlocked \in [Session -> BOOLEAN]
      /\ \A s \in Session : /\ ownJob[s] \in Created \cup {NoJob} /\ runKind[s] \in Kind \cup {"none"}
                            /\ runLocks[s] \subseteq Created
                            /\ \A t \in Session \ {s} : runLocks[s] \cap runLocks[t] = {}
                            /\ RunAt(s, "mark") => runKind[s] = "full"
                            /\ \/ RunAt(s, "start") \/ RunAt(s, "commit") \/ RunAt(s, "page") \/ RunAt(s, "mark")
                               => ownJob[s] \in Created
  BY DEF JobsInv, JobsTypeOK, OwnJobsOK, Created, RunAt, Job, NoJob
<1>f. runKind \in [Session -> Kind \cup {"none"}] /\ ownJob \in [Session -> Job \cup {NoJob}]
      /\ runLocks \in [Session -> SUBSET Created]
  BY DEF JobsInv, JobsTypeOK
<1>p. /\ Pending \subseteq Created /\ Contenders \subseteq Created
      /\ Pending # {} => Newest(Pending) \in Pending
      /\ \A j \in Created : Newest(Created) \in Created
  BY <1>t, NewestIsIn DEF Pending, Contenders, Created, Open
<1>u. UNCHANGED jobStatus => Created' = Created /\ InOrder' BY <1>t DEF Created, InOrder
<1>g. ASSUME UNCHANGED <<jobStatus, resumable, runFaults>>, jobLeased' \subseteq Created
      PROVE  /\ Created \subseteq Created' /\ InOrder' /\ jobStatus' \in [Job -> {"none"} \cup Open \cup Ended]
             /\ jobLeased' \subseteq Created' /\ resumable' \subseteq Created' /\ runFaults' \in 0..MaxRunFaults
             /\ Created' = Created
  BY <1>g, <1>t, <1>u
<1>1. ASSUME NEW s \in Session, Begin(s) PROVE JobsInv'
  <2>1. PICK k \in Kind : runKind' = [runKind EXCEPT ![s] = k] BY <1>1 DEF Begin
  <2>2. ownJob' = [ownJob EXCEPT ![s] = ownJob[s]] /\ runLocks' = [runLocks EXCEPT ![s] = runLocks[s]]
    BY <1>1, <1>f DEF Begin
  <2>3. GoOn(s, "find") /\ UNCHANGED <<jobVars, runBlocked, runFaults>> BY <1>1 DEF Begin
  <2>4. UNCHANGED <<jobStatus, jobLeased, resumable>> BY <2>3 DEF jobVars
  <2> QED BY <1>g, <1>t, <2>1, <2>2, <2>3, <2>4, RunTyping
<1>2. ASSUME NEW s \in Session, ResumeJob(s) PROVE JobsInv'
  <2>1. /\ runKind' = [runKind EXCEPT ![s] = runKind[s]] /\ runLocks' = [runLocks EXCEPT ![s] = runLocks[s]]
        /\ Newest(Pending) \in Created
    BY <1>2, <1>f, <1>p DEF ResumeJob
  <2>2. /\ GoOn(s, "start") /\ UNCHANGED <<jobVars, runBlocked, runFaults>>
        /\ ownJob' = [ownJob EXCEPT ![s] = Newest(Pending)]
    BY <1>2 DEF ResumeJob
  <2>3. UNCHANGED <<jobStatus, jobLeased, resumable>> BY <2>2 DEF jobVars
  <2>4. Newest(Pending) # NoJob BY <1>t, <2>1
  <2> QED BY <1>g, <1>t, <2>1, <2>2, <2>3, <2>4, RunTyping
<1>3. ASSUME NEW s \in Session, SupersedeJob(s) PROVE JobsInv'
  <2>1. /\ runKind' = [runKind EXCEPT ![s] = runKind[s]] /\ runLocks' = [runLocks EXCEPT ![s] = runLocks[s]]
        /\ ownJob' = [ownJob EXCEPT ![s] = ownJob[s]]
        /\ Newest(Pending) \in Created
    BY <1>3, <1>f, <1>p DEF SupersedeJob
  <2>2. Created' = Created /\ InOrder' /\ jobStatus' \in [Job -> {"none"} \cup Open \cup Ended]
    BY <1>3, <2>1, CreatedStep DEF SupersedeJob, Ended
  <2> QED BY ZenonT(60), <1>3, <1>t, <2>1, <2>2, RunTyping DEF SupersedeJob
<1>4. ASSUME NEW s \in Session, FindNothing(s) PROVE JobsInv'
  <2>1. /\ runKind' = [runKind EXCEPT ![s] = runKind[s]] /\ runLocks' = [runLocks EXCEPT ![s] = runLocks[s]]
        /\ ownJob' = [ownJob EXCEPT ![s] = ownJob[s]]
    BY <1>4, <1>f DEF FindNothing
  <2> QED BY ZenonT(60), <1>4, <1>t, <1>u, <2>1, RunTyping DEF FindNothing, jobVars
<1>5. ASSUME NEW s \in Session, CreateJob(s) PROVE JobsInv'
  <2>1. PICK n \in 0..MaxJob : Created = 1..n BY <1>t DEF InOrder
  <2>2. Cardinality(Created) = n BY <2>1, FS_Interval
  <2> DEFINE j == n + 1
  <2>3. /\ n < MaxJob /\ j \in Job /\ j \notin Created
        /\ jobStatus' = [jobStatus EXCEPT ![j] = "pending"] /\ ownJob' = [ownJob EXCEPT ![s] = j]
    <3>1. n < MaxJob /\ jobStatus' = [jobStatus EXCEPT ![j] = "pending"] /\ ownJob' = [ownJob EXCEPT ![s] = j]
      BY <1>5, <2>2 DEF CreateJob
    <3> QED BY <2>1, <3>1 DEF Job
  <2>4. Created' = Created \cup {j} BY <1>t, <2>3 DEF Created
  <2>5. Created' = 1..j BY <2>1, <2>4
  <2>6. InOrder' BY <2>3, <2>5 DEF InOrder
  <2>7. jobStatus' \in [Job -> {"none"} \cup Open \cup Ended] BY <1>t, <2>3 DEF Open
  <2>8. /\ runKind' = [runKind EXCEPT ![s] = runKind[s]] /\ runLocks' = [runLocks EXCEPT ![s] = runLocks[s]]
        /\ GoOn(s, "start") /\ UNCHANGED <<jobLeased, resumable, runBlocked, runFaults>>
    BY <1>5, <1>f DEF CreateJob
  <2> HIDE DEF j
  <2>9. j # NoJob /\ j \in Created' BY <1>t, <2>3, <2>4
  <2> QED BY <1>t, <2>3, <2>4, <2>6, <2>7, <2>8, <2>9, RunTyping
<1>6. ASSUME NEW s \in Session, StartCheck(s) PROVE JobsInv'
  <2>1. /\ runKind' = [runKind EXCEPT ![s] = runKind[s]] /\ ownJob' = [ownJob EXCEPT ![s] = ownJob[s]]
        /\ runBlocked' \in [Session -> BOOLEAN] /\ ownJob[s] \in Created
    BY <1>6, <1>f, <1>t DEF StartCheck
  <2>2. \A t \in Session \ {s} : Contenders \cap runLocks[t] = {} BY <1>6 DEF StartCheck, Locked
  <2>3. Contenders \subseteq Created' BY <1>6, <1>u, <1>p DEF StartCheck, jobVars
  <2>4. /\ GoOn(s, "commit") /\ UNCHANGED <<jobVars, runFaults>>
        /\ runLocks' = [runLocks EXCEPT ![s] = Contenders]
    BY <1>6 DEF StartCheck
  <2>5. UNCHANGED <<jobStatus, jobLeased, resumable>> BY <2>4 DEF jobVars
  <2>6. ownJob[s] # NoJob BY <1>t, <2>1
  <2> QED BY <1>g, <1>t, <2>1, <2>2, <2>3, <2>4, <2>5, <2>6, RunTyping
<1>7. ASSUME NEW s \in Session, Defer(s) PROVE JobsInv'
  <2>1. Created' = Created /\ InOrder' /\ jobStatus' \in [Job -> {"none"} \cup Open \cup Ended]
    BY <1>7, <1>t, CreatedStep DEF Defer, JobToCancel, Ended
  <2> QED BY <1>7, <1>t, <2>1, EndRunTyping DEF Defer
<1>8. ASSUME NEW s \in Session, StartJob(s) PROVE JobsInv'
  <2>1. Created' = Created /\ InOrder' /\ jobStatus' \in [Job -> {"none"} \cup Open \cup Ended]
    BY <1>8, <1>t, CreatedStep DEF StartJob, Open
  <2>2. runKind' = [runKind EXCEPT ![s] = runKind[s]] /\ ownJob' = [ownJob EXCEPT ![s] = ownJob[s]]
    BY <1>8, <1>f DEF StartJob
  <2>3. jobLeased' \subseteq Created' BY <1>8, <1>t, <2>1 DEF StartJob
  <2>4. /\ GoOn(s, "page") /\ UNCHANGED <<resumable, runBlocked, runFaults>>
        /\ runLocks' = [runLocks EXCEPT ![s] = {}] /\ ownJob[s] \in Created
    BY <1>8, <1>t DEF StartJob
  <2>5. ownJob[s] # NoJob BY <1>t, <2>4
  <2>6. /\ Created \subseteq Created' /\ ownJob[s] \in Created' /\ resumable' \subseteq Created'
        /\ runFaults' \in 0..MaxRunFaults /\ runBlocked' \in [Session -> BOOLEAN]
        /\ runKind[s] \in Kind \cup {"none"} /\ {} \subseteq Created'
        /\ \A t \in Session \ {s} : {} \cap runLocks[t] = {}
    BY <1>t, <2>1, <2>4
  <2> QED BY <2>1, <2>2, <2>3, <2>4, <2>5, <2>6, RunTyping
<1>9. ASSUME NEW s \in Session, RenewLease(s) PROVE JobsInv'
  <2>1. /\ runKind' = [runKind EXCEPT ![s] = runKind[s]] /\ ownJob' = [ownJob EXCEPT ![s] = ownJob[s]]
        /\ runLocks' = [runLocks EXCEPT ![s] = runLocks[s]]
    BY <1>9, <1>f DEF RenewLease, refreshVars
  <2>2. GoOn(s, "page") BY <1>9 DEF RenewLease, refreshVars, GoOn, RunAt, JobsInv, JobsTypeOK
  <2>3. jobLeased' \subseteq Created /\ ownJob[s] \in Created BY <1>9, <1>t DEF RenewLease
  <2>4. UNCHANGED <<jobStatus, resumable, runFaults, runBlocked>> /\ ownJob[s] # NoJob
    BY <1>9, <1>t, <2>3 DEF RenewLease, refreshVars
  <2> QED BY <1>g, <1>t, <2>1, <2>2, <2>3, <2>4, RunTyping
<1>10. ASSUME NEW s \in Session, FinishJob(s) PROVE JobsInv'
  <2>1. Created' = Created /\ InOrder' /\ jobStatus' \in [Job -> {"none"} \cup Open \cup Ended]
    BY <1>10, <1>t, CreatedStep DEF FinishJob, Ended
  <2> QED BY <1>10, <1>t, <2>1, EndRunTyping DEF FinishJob
<1>11. ASSUME NEW s \in Session, FailJob(s) PROVE JobsInv'
  <2>1. CASE runKind[s] = "replace"
    <3>1. Created' = Created /\ InOrder' /\ jobStatus' \in [Job -> {"none"} \cup Open \cup Ended]
      BY <1>11, <1>t, <2>1, CreatedStep DEF FailJob, Ended
    <3> QED BY <1>11, <1>t, <2>1, <3>1, EndRunTyping DEF FailJob
  <2>2. CASE runKind[s] # "replace"
    <3>1. Created' = Created /\ InOrder' /\ jobStatus' \in [Job -> {"none"} \cup Open \cup Ended]
      BY <1>11, <1>t, <2>2, CreatedStep DEF FailJob, Open
    <3>2. resumable' \subseteq Created' /\ jobLeased' \subseteq Created' /\ UNCHANGED runFaults
      BY <1>11, <1>t, <2>2, <3>1 DEF FailJob
    <3>3. CASE runKind[s] = "full"
      <4>1. /\ runKind' = [runKind EXCEPT ![s] = "full"] /\ ownJob' = [ownJob EXCEPT ![s] = ownJob[s]]
            /\ runLocks' = [runLocks EXCEPT ![s] = runLocks[s]] /\ "full" \in Kind \cup {"none"}
            /\ GoOn(s, "mark") /\ UNCHANGED runBlocked
        BY <1>11, <1>f, <1>t, <2>2, <3>3 DEF FailJob
      <4>2. ownJob[s] \in Created /\ ownJob[s] # NoJob BY <1>11, <1>t DEF FailJob
      <4>3. Created \subseteq Created' /\ ownJob[s] \in Created' /\ runFaults' \in 0..MaxRunFaults
            /\ runBlocked' \in [Session -> BOOLEAN] /\ runLocks[s] \subseteq Created'
            /\ \A t \in Session \ {s} : runLocks[s] \cap runLocks[t] = {}
        BY <1>t, <3>1, <3>2, <4>1, <4>2
      <4> QED BY <3>1, <3>2, <4>1, <4>2, <4>3, RunTyping
    <3>4. CASE runKind[s] # "full" BY <1>11, <1>t, <2>2, <3>1, <3>2, <3>4, EndRunTyping DEF FailJob
    <3> QED BY <3>3, <3>4
  <2> QED BY <2>1, <2>2
<1>12. ASSUME NEW s \in Session, MarkLatestFailed(s) PROVE JobsInv'
  <2>0. Newest(Created) \in Created BY <1>12, <1>t, <1>p DEF MarkLatestFailed
  <2>1. Created' = Created /\ InOrder' /\ jobStatus' \in [Job -> {"none"} \cup Open \cup Ended]
    BY <1>12, <2>0, CreatedStep DEF MarkLatestFailed, Ended
  <2> QED BY <1>12, <1>t, <2>1, EndRunTyping DEF MarkLatestFailed
<1>13. ASSUME NEW s \in Session, CrashRun(s) PROVE JobsInv'
  <2>1. runFaults' \in 0..MaxRunFaults BY <1>13, <1>t DEF CrashRun
  <2> QED BY <1>13, <1>t, <1>u, <2>1, EndRunTyping DEF CrashRun, jobVars
<1>14. ASSUME UNCHANGED <<refreshVars, resumable>>, Created' = Created, InOrder',
              jobStatus' \in [Job -> {"none"} \cup Open \cup Ended], jobLeased' \subseteq Created,
              runFaults' \in 0..MaxRunFaults
       PROVE  JobsInv'
  BY <1>14 DEF JobsInv, JobsTypeOK, OwnJobsOK, refreshVars
<1>15. CASE RecoverExpired
  <2>1. \A j \in Job : jobStatus'[j] = IF IsExpired(j) THEN "failed" ELSE jobStatus[j]
    BY <1>15 DEF RecoverExpired
  <2>2. Created' = Created BY <1>t, <2>1 DEF Created, IsExpired
  <2>3. InOrder' BY <1>t, <2>2 DEF InOrder
  <2>4. jobStatus' \in [Job -> {"none"} \cup Open \cup Ended] BY <1>15, <1>t DEF RecoverExpired, Ended
  <2> QED BY <1>14, <1>15, <1>t, <2>2, <2>3, <2>4 DEF RecoverExpired
<1>16. CASE LeaseExpires BY <1>14, <1>16, <1>t, <1>u DEF LeaseExpires
<1>17. CASE LeaseExpiresAtWork
  <2>1. runFaults' \in 0..MaxRunFaults BY <1>17, <1>t DEF LeaseExpiresAtWork
  <2> QED BY <1>14, <1>17, <1>t, <1>u, <2>1 DEF LeaseExpiresAtWork
<1>18. CASE UNCHANGED jobsVars BY <1>14, <1>18, <1>t, <1>u DEF jobsVars, jobVars
<1> QED
  BY <1>1, <1>2, <1>3, <1>4, <1>5, <1>6, <1>7, <1>8, <1>9, <1>10, <1>11, <1>12, <1>13, <1>15, <1>16, <1>17,
     <1>18 DEF JobsNext, RefreshStep

\* A channel without jobs satisfies it.
LEMMA JobsStart == JobsInit => JobsInv
<1> SUFFICES ASSUME JobsInit PROVE JobsInv OBVIOUS
<1> USE RefreshJobsAssumption
<1>1. Created = {} BY DEF JobsInit, Created
<1>2. InOrder BY <1>1 DEF InOrder
<1>3. JobsTypeOK BY <1>1 DEF JobsInit, JobsTypeOK
<1>4. OwnJobsOK BY DEF JobsInit, OwnJobsOK
<1> QED BY <1>2, <1>3, <1>4 DEF JobsInv

\* Jobs are numbered without gaps and every run works on a job that exists, in every
\* reachable state.
THEOREM JobsInvariant == JobsSpec => []JobsInv
<1>1. JobsInv /\ [JobsNext]_jobsVars => JobsInv' BY JobsStep
<1> QED BY JobsStart, <1>1, PTL DEF JobsSpec

\* Type correctness of the refresh jobs, and locks of two runs never overlap.
THEOREM JobsTypeIsOK == JobsSpec => []JobsTypeOK
<1>1. JobsInv => JobsTypeOK BY DEF JobsInv
<1> QED BY <1>1, JobsInvariant, PTL

\* A run that is no full refresh goes on: the job of a run that is reading pages
\* stays what it is, unless it is the same.
LEMMA SettlesOwnStep ==
    ASSUME JobsInv, JobsNext, NEW s \in Session, NEW t \in Session, s # t, runKind[s] # "full",
           runStep[s] # runStep'[s], RunAt(t, "page"), ownJob[s] # ownJob[t]
    PROVE  jobStatus'[ownJob[t]] = jobStatus[ownJob[t]]
<1> USE RefreshJobsAssumption
<1>1. /\ ownJob[t] \in Created /\ Created \subseteq Job
      /\ jobStatus \in [Job -> {"none"} \cup Open \cup Ended]
      /\ runStep \in [Session -> {"idle", "find", "create", "start", "commit", "page", "mark"}]
      /\ ~RunAt(s, "mark")
  BY DEF JobsInv, JobsTypeOK, OwnJobsOK, RunAt, Created
<1>2. ASSUME NEW u \in Session, u # s, GoOn(u, "find") \/ GoOn(u, "create") \/ GoOn(u, "start") \/ GoOn(u, "commit")
                                       \/ GoOn(u, "page") \/ GoOn(u, "mark") \/ EndRun(u)
      PROVE  FALSE
  BY <1>1, <1>2 DEF GoOn, EndRun
<1>3. UNCHANGED jobStatus => jobStatus'[ownJob[t]] = jobStatus[ownJob[t]] OBVIOUS
<1>4. ASSUME NEW x, jobStatus' = [jobStatus EXCEPT ![ownJob[s]] = x]
      PROVE  jobStatus'[ownJob[t]] = jobStatus[ownJob[t]]
  BY <1>1, <1>4
<1>5. ASSUME NEW u \in Session, Begin(u) PROVE UNCHANGED jobStatus BY <1>5 DEF Begin, jobVars
<1>6. ASSUME NEW u \in Session, ResumeJob(u) PROVE UNCHANGED jobStatus BY <1>6 DEF ResumeJob, jobVars
<1>7. ASSUME NEW u \in Session, SupersedeJob(u) PROVE FALSE
  <2>1. u = s BY <1>2, <1>7 DEF SupersedeJob
  <2> QED BY <1>7, <2>1 DEF SupersedeJob
<1>8. ASSUME NEW u \in Session, FindNothing(u) PROVE UNCHANGED jobStatus BY <1>8 DEF FindNothing, jobVars
<1>9. ASSUME NEW u \in Session, CreateJob(u) PROVE jobStatus'[ownJob[t]] = jobStatus[ownJob[t]]
  <2>1. PICK n \in 0..MaxJob : Created = 1..n BY DEF JobsInv, InOrder
  <2>2. Cardinality(Created) = n BY <2>1, FS_Interval
  <2>3. jobStatus' = [jobStatus EXCEPT ![n + 1] = "pending"] BY <1>9, <2>2 DEF CreateJob
  <2>4. ownJob[t] # n + 1 BY <1>1, <2>1
  <2> QED BY <1>1, <2>3, <2>4
<1>10. ASSUME NEW u \in Session, StartCheck(u) PROVE UNCHANGED jobStatus BY <1>10 DEF StartCheck, jobVars
<1>11. ASSUME NEW u \in Session, Defer(u) PROVE jobStatus'[ownJob[t]] = jobStatus[ownJob[t]]
  <2>1. u = s BY <1>2, <1>11 DEF Defer
  <2> QED BY <1>4, <1>11, <2>1 DEF Defer, JobToCancel
<1>12. ASSUME NEW u \in Session, StartJob(u) PROVE jobStatus'[ownJob[t]] = jobStatus[ownJob[t]]
  <2>1. u = s BY <1>2, <1>12 DEF StartJob
  <2> QED BY <1>4, <1>12, <2>1 DEF StartJob
<1>13. ASSUME NEW u \in Session, RenewLease(u) PROVE UNCHANGED jobStatus BY <1>13 DEF RenewLease
<1>14. ASSUME NEW u \in Session, FinishJob(u) PROVE jobStatus'[ownJob[t]] = jobStatus[ownJob[t]]
  <2>1. u = s BY <1>2, <1>14 DEF FinishJob
  <2> QED BY <1>4, <1>14, <2>1 DEF FinishJob
<1>15. ASSUME NEW u \in Session, FailJob(u) PROVE jobStatus'[ownJob[t]] = jobStatus[ownJob[t]]
  <2>1. u = s BY <1>2, <1>15 DEF FailJob
  <2> QED BY <1>4, <1>15, <2>1 DEF FailJob
<1>16. ASSUME NEW u \in Session, MarkLatestFailed(u) PROVE FALSE
  <2>1. u = s BY <1>2, <1>16 DEF MarkLatestFailed
  <2> QED BY <1>1, <1>16, <2>1 DEF MarkLatestFailed
<1>17. ASSUME NEW u \in Session, CrashRun(u) PROVE UNCHANGED jobStatus BY <1>17 DEF CrashRun, jobVars
<1>18. ~(RecoverExpired \/ LeaseExpires \/ LeaseExpiresAtWork)
  BY DEF RecoverExpired, LeaseExpires, LeaseExpiresAtWork, refreshVars
<1> QED
  BY <1>3, <1>5, <1>6, <1>7, <1>8, <1>9, <1>10, <1>11, <1>12, <1>13, <1>14, <1>15, <1>16, <1>17, <1>18
     DEF JobsNext, RefreshStep

\* Where no full refresh runs, which records its failure on the newest job of the
\* channel, a run settles its own job only (start, defer, finish, fail).
THEOREM RunsSettleTheirOwnJob ==
    ASSUME "full" \notin Kind
    PROVE  JobsSpec => [][SettlesOwn]_jobsVars
<1>1. JobsInv /\ [JobsNext]_jobsVars => [SettlesOwn]_jobsVars
  <2> SUFFICES ASSUME JobsInv, JobsNext PROVE SettlesOwn BY DEF jobsVars
  <2>1. \A s \in Session : runKind[s] # "full" BY DEF JobsInv, JobsTypeOK
  <2> QED BY <2>1, SettlesOwnStep DEF SettlesOwn
<1> QED BY <1>1, JobsInvariant, PTL DEF JobsSpec

\* A marketplace run at each of its steps: its job is pending until it starts it,
\* locked from the check to the commit, and owns the channel while pages are read.
RunOK(s) ==
    /\ runKind[s] \in {"none", "replace"}
    /\ runStep[s] # "idle" => runKind[s] = "replace"
    /\ runStep[s] \in {"idle", "find", "create"} => ownJob[s] = NoJob
    /\ runStep[s] \in {"start", "commit"} => jobStatus[ownJob[s]] = "pending"
    /\ runStep[s] = "commit" => ownJob[s] \in runLocks[s]
    /\ runStep[s] = "page" => Owns(ownJob[s])

\* Two of them have different jobs, never decide at the same time, and while one
\* reads pages no other has found the channel free.
Apart(s, t) ==
    /\ ownJob[s] # NoJob => ownJob[s] # ownJob[t]
    /\ runStep[s] = "commit" => runStep[t] # "commit"
    /\ runStep[s] = "commit" /\ ~runBlocked[s] => runStep[t] # "page"
    /\ runStep[s] = "page" => runStep[t] # "page"

MarketInv ==
    /\ \A s \in Session : RunOK(s)
    /\ \A s, t \in Session : s # t => Apart(s, t)

\* One run goes on, and the others keep their places.
LEMMA OneRunMoves ==
    ASSUME JobsInv, MarketInv, NEW s \in Session,
           \A t \in Session \ {s} : /\ runStep'[t] = runStep[t] /\ runKind'[t] = runKind[t]
                                    /\ ownJob'[t] = ownJob[t] /\ runBlocked'[t] = runBlocked[t]
                                    /\ runLocks'[t] = runLocks[t],
           \A t \in Session \ {s} : RunOK(t)', RunOK(s)',
           \A t \in Session \ {s} : Apart(s, t)' /\ Apart(t, s)'
    PROVE  MarketInv'
<1>1. \A t, u \in Session \ {s} : t # u => Apart(t, u)' BY DEF MarketInv, Apart
<1>2. \A t, u \in Session : t # u => Apart(t, u)'
  <2> SUFFICES ASSUME NEW t \in Session, NEW u \in Session, t # u PROVE Apart(t, u)' OBVIOUS
  <2> QED BY <1>1
<1>3. \A t \in Session : RunOK(t)' OBVIOUS
<1> QED BY <1>2, <1>3 DEF MarketInv

\* Marketplace runs: start locks every open job of the channel, so that only one
\* run at a time decides whether somebody owns the channel, and the lease of the owner
\* is renewed page by page.
LEMMA MarketStep ==
    ASSUME JobsInv, MarketInv, [JobsNext]_jobsVars, ~LeaseExpiresAtWork,
           \A s \in Session : runKind'[s] \in {"none", "replace"}
    PROVE  MarketInv'
<1> USE RefreshJobsAssumption
<1>t. /\ jobStatus \in [Job -> {"none"} \cup Open \cup Ended] /\ NoJob \notin Job /\ Created \subseteq Job
      /\ runStep \in [Session -> {"idle", "find", "create", "start", "commit", "page", "mark"}]
      /\ runKind \in [Session -> Kind \cup {"none"}] /\ ownJob \in [Session -> Job \cup {NoJob}]
      /\ runBlocked \in [Session -> BOOLEAN] /\ runLocks \in [Session -> SUBSET Created]
      /\ \A s \in Session : /\ ownJob[s] \in Created \cup {NoJob} /\ RunOK(s) /\ runStep[s] # "mark"
                            /\ runStep[s] # "idle" => runKind[s] = "replace"
                            /\ runStep[s] \in {"start", "commit", "page"} => ownJob[s] \in Created
                            /\ \A t \in Session \ {s} : Apart(s, t) /\ Apart(t, s)
  BY DEF JobsInv, JobsTypeOK, OwnJobsOK, MarketInv, RunOK, Created, Job, NoJob
<1>e. ASSUME NEW s \in Session, EndRun(s), \A t \in Session \ {s} : RunOK(t)' PROVE MarketInv'
  <2>1. \A t \in Session \ {s} : /\ runStep'[t] = runStep[t] /\ runKind'[t] = runKind[t]
                                 /\ ownJob'[t] = ownJob[t] /\ runBlocked'[t] = runBlocked[t]
                                 /\ runLocks'[t] = runLocks[t]
    BY <1>e, <1>t DEF EndRun
  <2>2. runStep'[s] = "idle" /\ runKind'[s] = "none" /\ ownJob'[s] = NoJob BY <1>e, <1>t DEF EndRun
  <2>3. RunOK(s)' BY <2>2 DEF RunOK
  <2>4. \A t \in Session \ {s} : Apart(s, t)' /\ Apart(t, s)' BY <2>1, <2>2 DEF Apart
  <2> QED BY <1>e, <2>1, <2>3, <2>4, OneRunMoves
\* A job that is nobody else's changes.
<1>o. ASSUME NEW s \in Session, NEW j \in Job, NEW x, jobStatus' = [jobStatus EXCEPT ![j] = x],
             \A t \in Session \ {s} : ownJob[t] # j, \A t \in Session \ {s} :
                 /\ runStep'[t] = runStep[t] /\ runKind'[t] = runKind[t]
                 /\ ownJob'[t] = ownJob[t] /\ runLocks'[t] = runLocks[t],
             \A i \in Job \ {j} : i \in jobLeased => i \in jobLeased'
      PROVE  \A t \in Session \ {s} : RunOK(t)'
  <2> SUFFICES ASSUME NEW t \in Session \ {s} PROVE RunOK(t)' OBVIOUS
  <2>1. ownJob[t] \in Job \cup {NoJob} /\ ownJob[t] # j BY <1>o, <1>t
  <2>2. ownJob[t] \in Job => jobStatus'[ownJob[t]] = jobStatus[ownJob[t]] /\ (Owns(ownJob[t]) => Owns(ownJob[t])')
    BY <1>o, <1>t, <2>1 DEF Owns
  <2>3. RunOK(t) /\ (runStep[t] \in {"start", "commit", "page"} => ownJob[t] \in Job) BY <1>t
  <2> QED BY <1>o, <2>1, <2>2, <2>3 DEF RunOK
<1>1. ASSUME NEW s \in Session, Begin(s) PROVE MarketInv'
  <2>1. /\ \A t \in Session : t # s => runStep'[t] = runStep[t] /\ runKind'[t] = runKind[t]
        /\ runStep'[s] = "find" /\ runKind'[s] # "none" /\ ownJob[s] = NoJob
        /\ UNCHANGED <<jobVars, ownJob, runBlocked, runLocks>>
    BY <1>1, <1>t DEF Begin, GoOn, RunAt, RunOK
  <2>2. RunOK(s)' BY <2>1 DEF RunOK
  <2>3. \A t \in Session \ {s} : RunOK(t)' BY <1>t, <2>1 DEF RunOK, Owns, jobVars
  <2>4. \A t \in Session \ {s} : Apart(s, t)' /\ Apart(t, s)' BY <1>t, <2>1 DEF Apart
  <2> QED BY <2>1, <2>2, <2>3, <2>4, OneRunMoves
<1>2. ASSUME NEW s \in Session, ResumeJob(s) PROVE FALSE BY <1>2, <1>t DEF ResumeJob, RunAt
<1>3. ASSUME NEW s \in Session, SupersedeJob(s) PROVE FALSE BY <1>3, <1>t DEF SupersedeJob, RunAt
<1>4. ASSUME NEW s \in Session, FindNothing(s) PROVE MarketInv'
  <2>1. /\ \A t \in Session : t # s => runStep'[t] = runStep[t]
        /\ runStep'[s] = "create" /\ runStep[s] = "find"
        /\ UNCHANGED <<jobVars, runKind, ownJob, runBlocked, runLocks>>
    BY <1>4, <1>t DEF FindNothing, GoOn, RunAt
  <2>2. RunOK(s)' BY <1>t, <2>1 DEF RunOK, Owns, jobVars
  <2>3. \A t \in Session \ {s} : RunOK(t)' BY <1>t, <2>1 DEF RunOK, Owns, jobVars
  <2>4. \A t \in Session \ {s} : Apart(s, t)' /\ Apart(t, s)' BY <1>t, <2>1 DEF Apart
  <2> QED BY <2>1, <2>2, <2>3, <2>4, OneRunMoves
<1>5. ASSUME NEW s \in Session, CreateJob(s) PROVE MarketInv'
  <2>1. PICK n \in 0..MaxJob : Created = 1..n BY DEF JobsInv, InOrder
  <2>2. Cardinality(Created) = n BY <2>1, FS_Interval
  <2> DEFINE j == n + 1
  <2>3. /\ n < MaxJob /\ jobStatus' = [jobStatus EXCEPT ![j] = "pending"] /\ ownJob' = [ownJob EXCEPT ![s] = j]
    BY <1>5, <2>2 DEF CreateJob
  <2>4. j \in Job /\ j \notin Created /\ j # NoJob BY <2>1, <2>3 DEF Job, NoJob
  <2> HIDE DEF j
  <2>5. \A t \in Session \ {s} : ownJob[t] # j BY <1>t, <2>4
  <2>6. /\ \A t \in Session : t # s => runStep'[t] = runStep[t] /\ ownJob'[t] = ownJob[t]
        /\ runStep'[s] = "start" /\ runStep[s] = "create" /\ ownJob'[s] = j
        /\ UNCHANGED <<jobLeased, runKind, runBlocked, runLocks>>
    BY <1>5, <1>t, <2>3 DEF CreateJob, GoOn, RunAt
  <2>7. RunOK(s)' BY <1>t, <2>3, <2>4, <2>6 DEF RunOK
  <2>8. \A t \in Session \ {s} : RunOK(t)' BY <1>o, <2>3, <2>4, <2>5, <2>6
  <2>9. \A t \in Session \ {s} : Apart(s, t)' /\ Apart(t, s)' BY <1>t, <2>5, <2>6 DEF Apart
  <2> QED BY <2>6, <2>7, <2>8, <2>9, OneRunMoves
<1>6. ASSUME NEW s \in Session, StartCheck(s) PROVE MarketInv'
  <2>1. /\ \A t \in Session : t # s => /\ runStep'[t] = runStep[t] /\ runBlocked'[t] = runBlocked[t]
                                       /\ runLocks'[t] = runLocks[t]
        /\ runStep'[s] = "commit" /\ runStep[s] = "start" /\ runLocks'[s] = Contenders
        /\ runBlocked'[s] = \E j \in Contenders \ {ownJob[s]} : Owns(j)
        /\ UNCHANGED <<jobVars, runKind, ownJob>> /\ \A j \in Contenders : ~Locked(j)
    BY <1>6, <1>t DEF StartCheck, GoOn, RunAt
  <2>2. ownJob[s] \in Contenders /\ jobStatus[ownJob[s]] = "pending" /\ runKind[s] = "replace"
    BY <1>t, <2>1 DEF RunOK, Contenders, Open
  <2>3. RunOK(s)' BY <2>1, <2>2 DEF RunOK, jobVars
  <2>4. \A t \in Session \ {s} : RunOK(t)' BY <1>t, <2>1 DEF RunOK, Owns, jobVars
  <2>5. ASSUME NEW t \in Session \ {s} PROVE Apart(s, t)' /\ Apart(t, s)'
    <3>1. runStep[t] # "commit"
      <4> SUFFICES ASSUME runStep[t] = "commit" PROVE FALSE OBVIOUS
      <4>1. ownJob[t] \in Contenders /\ ownJob[t] \in runLocks[t]
        BY <1>t DEF RunOK, Contenders, Open
      <4> QED BY <2>1, <4>1 DEF Locked
    <3>2. runStep[t] = "page" => runBlocked'[s]
      <4> SUFFICES ASSUME runStep[t] = "page" PROVE runBlocked'[s] OBVIOUS
      <4>1. Owns(ownJob[t]) /\ ownJob[t] \in Job BY <1>t DEF RunOK
      <4>2. ownJob[t] \in Contenders BY <4>1 DEF Contenders, Owns, Open
      <4>3. ownJob[t] # ownJob[s] BY <1>t, <4>1 DEF Apart
      <4> QED BY <2>1, <4>1, <4>2, <4>3
    <3> QED BY <1>t, <2>1, <3>1, <3>2 DEF Apart
  <2> QED BY <2>1, <2>3, <2>4, <2>5, OneRunMoves
<1>7. ASSUME NEW s \in Session, Defer(s) PROVE MarketInv'
  <2>1. /\ jobStatus' = [jobStatus EXCEPT ![ownJob[s]] = "cancelled"] /\ EndRun(s) /\ ownJob[s] \in Created
        /\ UNCHANGED jobLeased
    BY <1>7, <1>t DEF Defer, JobToCancel, RunAt
  <2>2. \A t \in Session \ {s} : ownJob[t] # ownJob[s] BY <1>t, <2>1 DEF Apart
  <2>3. \A t \in Session \ {s} : /\ runStep'[t] = runStep[t] /\ runKind'[t] = runKind[t]
                                 /\ ownJob'[t] = ownJob[t] /\ runLocks'[t] = runLocks[t]
    BY <1>t, <2>1 DEF EndRun
  <2> QED BY <1>e, <1>o, <1>t, <2>1, <2>2, <2>3
<1>8. ASSUME NEW s \in Session, StartJob(s) PROVE MarketInv'
  <2>1. /\ \A t \in Session : t # s => runStep'[t] = runStep[t] /\ runLocks'[t] = runLocks[t]
        /\ runStep'[s] = "page" /\ runStep[s] = "commit" /\ ~runBlocked[s]
        /\ jobStatus' = [jobStatus EXCEPT ![ownJob[s]] = "running"] /\ jobLeased' = jobLeased \cup {ownJob[s]}
        /\ UNCHANGED <<runKind, ownJob, runBlocked>> /\ ownJob[s] \in Created
    BY <1>8, <1>t DEF StartJob, GoOn, RunAt
  <2>2. \A t \in Session \ {s} : ownJob[t] # ownJob[s] BY <1>t, <2>1 DEF Apart
  <2>3. RunOK(s)' BY <1>t, <2>1 DEF RunOK, Owns
  <2>4. \A t \in Session \ {s} : RunOK(t)' BY <1>o, <1>t, <2>1, <2>2
  <2>5. \A t \in Session \ {s} : Apart(s, t)' /\ Apart(t, s)' BY <1>t, <2>1 DEF Apart
  <2> QED BY <2>1, <2>3, <2>4, <2>5, OneRunMoves
<1>9. ASSUME UNCHANGED <<jobStatus, refreshVars>>, \A s \in Session : RunAt(s, "page") => Owns(ownJob[s])'
      PROVE  MarketInv'
  BY <1>9 DEF MarketInv, RunOK, Apart, refreshVars, RunAt, Owns
<1>10. ASSUME NEW s \in Session, RenewLease(s) PROVE MarketInv'
  BY <1>9, <1>10, <1>t DEF RenewLease, Owns, RunOK, RunAt, refreshVars
<1>11. ASSUME NEW s \in Session, FinishJob(s) \/ FailJob(s) PROVE MarketInv'
  <2>1. /\ \E x : jobStatus' = [jobStatus EXCEPT ![ownJob[s]] = x]
        /\ EndRun(s) /\ ownJob[s] \in Created /\ jobLeased' = jobLeased \ {ownJob[s]}
    BY <1>11, <1>t DEF FinishJob, FailJob, RunAt
  <2>2. \A t \in Session \ {s} : ownJob[t] # ownJob[s] BY <1>t, <2>1 DEF Apart
  <2>3. \A t \in Session \ {s} : /\ runStep'[t] = runStep[t] /\ runKind'[t] = runKind[t]
                                 /\ ownJob'[t] = ownJob[t] /\ runLocks'[t] = runLocks[t]
    BY <1>t, <2>1 DEF EndRun
  <2> QED BY <1>e, <1>o, <1>t, <2>1, <2>2, <2>3
<1>12. ASSUME NEW s \in Session, MarkLatestFailed(s) PROVE FALSE BY <1>12, <1>t DEF MarkLatestFailed, RunAt
<1>13. ASSUME NEW s \in Session, CrashRun(s) PROVE MarketInv'
  <2>1. \A t \in Session \ {s} : RunOK(t)' BY <1>13, <1>t DEF CrashRun, EndRun, jobVars, RunOK, Owns
  <2> QED BY <1>13, <1>e, <2>1 DEF CrashRun
<1>14. CASE RecoverExpired
  <2>1. /\ \A j \in Job : jobStatus'[j] = IF IsExpired(j) THEN "failed" ELSE jobStatus[j]
        /\ \A j \in jobLeased : ~IsExpired(j) => j \in jobLeased'
    BY <1>14 DEF RecoverExpired
  <2>2. ASSUME NEW s \in Session PROVE RunOK(s)'
    <3>1. runStep[s] \in {"start", "commit", "page"} => ownJob[s] \in Job /\ ~IsExpired(ownJob[s])
      BY <1>t DEF RunOK, IsExpired, Owns
    <3> QED BY <1>14, <1>t, <2>1, <3>1 DEF RecoverExpired, refreshVars, RunOK, Owns
  <2> QED BY <1>14, <1>t, <2>2 DEF RecoverExpired, refreshVars, MarketInv, Apart
<1>15. CASE LeaseExpires
  <2>1. ASSUME NEW s \in Session, RunAt(s, "page") PROVE Owns(ownJob[s])'
    <3>1. Owns(ownJob[s]) /\ WorkedOn(ownJob[s]) BY <1>t, <2>1 DEF RunOK, RunAt, WorkedOn
    <3> QED BY <1>15, <3>1 DEF LeaseExpires, Owns, refreshVars
  <2> QED BY <1>9, <1>15, <2>1 DEF LeaseExpires
<1>16. CASE UNCHANGED jobsVars
  BY <1>9, <1>16, <1>t DEF jobsVars, jobVars, refreshVars, RunOK, Owns, RunAt
<1> QED
  BY <1>1, <1>2, <1>3, <1>4, <1>5, <1>6, <1>7, <1>8, <1>10, <1>11, <1>12, <1>13, <1>14, <1>15, <1>16
     DEF JobsNext, RefreshStep

\* Before the first run no run owns the channel.
LEMMA MarketStart ==
    ASSUME JobsInit
    PROVE  MarketInv
<1>1. \A s \in Session : RunOK(s) BY DEF JobsInit, RunOK
<1>2. \A s, t \in Session : Apart(s, t) BY DEF JobsInit, Apart
<1> QED BY <1>1, <1>2 DEF MarketInv

\* Two runs that read pages under live leases would contradict the invariant.
LEMMA MarketIsOwned ==
    ASSUME MarketInv
    PROVE  OneOwner
BY DEF MarketInv, Apart, OneOwner, RunAt

\* One marketplace run owns the channel, crashes of runs included, as long as no
\* page takes longer than the lease (RefreshJobLifecycle.start).
THEOREM OneOwnerPerChannel ==
    ASSUME Kind \subseteq {"replace"}
    PROVE  JobsInit /\ [][JobsNext /\ ~LeaseExpiresAtWork]_jobsVars => []OneOwner
<1> DEFINE Inv == JobsInv /\ MarketInv
<1>1. JobsInit => Inv BY JobsStart, MarketStart
<1>2. Inv /\ [JobsNext /\ ~LeaseExpiresAtWork]_jobsVars => Inv'
  <2> SUFFICES ASSUME Inv, [JobsNext /\ ~LeaseExpiresAtWork]_jobsVars PROVE Inv' OBVIOUS
  <2>1. JobsInv' BY JobsStep
  <2>2. \A s \in Session : runKind'[s] \in {"none", "replace"} BY <2>1 DEF JobsInv, JobsTypeOK
  <2>3. ~LeaseExpiresAtWork
    <3>1. UNCHANGED jobsVars => ~LeaseExpiresAtWork
      BY DEF jobsVars, LeaseExpiresAtWork, JobsInv, JobsTypeOK
    <3> QED BY <3>1
  <2>4. MarketInv' BY <2>2, <2>3, MarketStep
  <2> QED BY <2>1, <2>4
<1>3. Inv => OneOwner BY MarketIsOwned
<1> HIDE DEF Inv
<1> QED BY <1>1, <1>2, <1>3, PTL

\* The invariant of what the order runner works on.
WorkInv == JobsInv /\ (work = "marketplace" => MarketInv)

\* The order runner starts with no refresh job.
LEMMA WorkStart == WorkInit => WorkInv
BY JobsStart, MarketStart DEF WorkInit, WorkInv

\* What the order runner does in MCOrderRunner is a step of the refresh jobs or none.
LEMMA WorkStep ==
    ASSUME WorkInv, [WorkNext]_workVars
    PROVE  WorkInv' /\ [JobsNext]_jobsVars /\ UNCHANGED work
<1>1. UNCHANGED work /\ [JobsNext]_jobsVars BY DEF WorkNext, workVars
<1>2. JobsInv' BY <1>1, JobsStep DEF WorkInv
<1>3. ASSUME work = "marketplace" PROVE MarketInv'
  <2>1. CASE UNCHANGED workVars
    BY <1>3, <2>1 DEF WorkInv, workVars, jobsVars, jobVars, refreshVars, MarketInv, RunOK, Apart, Owns
  <2>2. CASE WorkNext
    <3>1. runFaults' = 0 /\ \A s \in Session : runKind'[s] \in {"none", "replace"} BY <1>3, <2>2 DEF WorkNext
    <3>2. ~LeaseExpiresAtWork
      BY <3>1, RefreshJobsAssumption DEF LeaseExpiresAtWork, WorkInv, JobsInv, JobsTypeOK
    <3> QED BY <1>1, <1>3, <3>1, <3>2, MarketStep DEF WorkInv
  <2> QED BY <2>1, <2>2
<1> QED BY <1>1, <1>2, <1>3 DEF WorkInv

\* The same of the specification that the run order_runner checks.
THEOREM MarketplaceHasOneOwner == WorkSpec => []OneMarketplaceOwner
<1>1. WorkInv /\ [WorkNext]_workVars => WorkInv' BY WorkStep
<1>2. WorkInv => OneMarketplaceOwner BY MarketIsOwned DEF WorkInv, OneMarketplaceOwner
<1> QED BY <1>1, <1>2, WorkStart, PTL DEF WorkSpec

\* A marketplace run settles its own job and no other run's.
THEOREM MarketplaceRunsSettleTheirOwnJob == WorkSpec => MarketplaceSettlesOwnJob
<1>1. WorkInv /\ [WorkNext]_workVars => WorkInv' BY WorkStep
<1>2. WorkInv /\ [WorkNext]_workVars => [work = "marketplace" => SettlesOwn]_workVars
  <2> SUFFICES ASSUME WorkInv, WorkNext, work = "marketplace" PROVE SettlesOwn OBVIOUS
  <2>1. JobsNext /\ JobsInv /\ MarketInv BY DEF WorkNext, WorkInv
  <2>2. \A s \in Session : runKind[s] # "full" BY <2>1 DEF MarketInv, RunOK
  <2> QED BY <2>1, <2>2, SettlesOwnStep DEF SettlesOwn
<1> QED BY <1>1, <1>2, WorkStart, PTL DEF WorkSpec, MarketplaceSettlesOwnJob
=============================================================================
