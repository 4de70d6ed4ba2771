----------------------------- MODULE RefreshJobs -----------------------------
(***************************************************************************)
(* Durable product refresh jobs of one channel (dl_refresh_jobs) and the    *)
(* lease RefreshJobLifecycle keeps on them.  Three kinds of runs create     *)
(* them: "full", the WooCommerce cache refresh (a new job, the pending one  *)
(* superseded); "resume", the incremental manual read (a resumable pending  *)
(* job is taken up again); and "replace", the marketplace synchronization.  *)
(* Jobs are numbered in the order of their creation.                        *)
(***************************************************************************)
EXTENDS Integers, FiniteSets

CONSTANTS
    Session,      \* processes that refresh the channel
    Kind,         \* the kinds of runs that occur
    MaxJob,       \* bound on the jobs created
    MaxRunFaults  \* bound on crashes and on leases that run out at work

ASSUME RefreshJobsAssumption ==
    /\ Kind \subseteq {"full", "resume", "replace"}
    /\ MaxJob \in Nat /\ MaxRunFaults \in Nat

Job == 1..MaxJob

VARIABLES
    jobStatus,   \* status of each job, "none" before it is created
    jobLeased,   \* jobs whose lease_expires_at is in the future
    resumable,   \* jobs with meta.resumable
    runStep,     \* where each session's run is
    runKind,     \* the kind of that run
    ownJob,      \* the job of that run, NoJob before it has one
    runBlocked,  \* the check of start found an unexpired owner
    runLocks,    \* rows the run has locked between that check and its commit
    runFaults

jobVars == <<jobStatus, jobLeased, resumable>>
refreshVars == <<runStep, runKind, ownJob, runBlocked, runLocks>>
jobsVars == <<jobVars, refreshVars, runFaults>>

NoJob == 0
Open == {"pending", "running"}
Ended == {"completed", "failed", "cancelled"}

JobsInit ==
    /\ jobStatus = [j \in Job |-> "none"]
    /\ jobLeased = {}
    /\ resumable = {}
    /\ runStep = [s \in Session |-> "idle"]
    /\ runKind = [s \in Session |-> "none"]
    /\ ownJob = [s \in Session |-> NoJob]
    /\ runBlocked = [s \in Session |-> FALSE]
    /\ runLocks = [s \in Session |-> {}]
    /\ runFaults = 0

RunAt(s, p) == runStep[s] = p
GoOn(s, p) == runStep' = [runStep EXCEPT ![s] = p]

EndRun(s) ==
    /\ runStep' = [runStep EXCEPT ![s] = "idle"]
    /\ runKind' = [runKind EXCEPT ![s] = "none"]
    /\ ownJob' = [ownJob EXCEPT ![s] = NoJob]
    /\ runBlocked' = [runBlocked EXCEPT ![s] = FALSE]
    /\ runLocks' = [runLocks EXCEPT ![s] = {}]

Created == {j \in Job : jobStatus[j] # "none"}
Pending == {j \in Job : jobStatus[j] = "pending"}
Newest(S) == CHOOSE j \in S : \A i \in S : i <= j

\* An error: rows are read without FOR UPDATE.
NeverLocked(j) == FALSE

Locked(j) == \E s \in Session : j \in runLocks[s]

-----------------------------------------------------------------------------
(* IncrementalReadEngine._resume_or_create_job                             *)

Begin(s) ==
    /\ RunAt(s, "idle")
    /\ runKind' \in {[runKind EXCEPT ![s] = k] : k \in Kind}
    /\ GoOn(s, "find")
    /\ UNCHANGED <<jobVars, ownJob, runBlocked, runLocks, runFaults>>

\* The newest pending job is taken up again ...
ResumeJob(s) ==
    /\ RunAt(s, "find") /\ runKind[s] = "resume"
    /\ Pending # {} /\ Newest(Pending) \in resumable
    /\ ownJob' = [ownJob EXCEPT ![s] = Newest(Pending)]
    /\ GoOn(s, "start")
    /\ UNCHANGED <<jobVars, runKind, runBlocked, runLocks, runFaults>>

\* ... or superseded, in a transaction of its own ...
SupersedeJob(s) ==
    /\ RunAt(s, "find") /\ runKind[s] = "full"
    /\ Pending # {} /\ ~Locked(Newest(Pending))
    /\ jobStatus' = [jobStatus EXCEPT ![Newest(Pending)] = "failed"]
    /\ GoOn(s, "create")
    /\ UNCHANGED <<jobLeased, resumable, runKind, ownJob, runBlocked, runLocks, runFaults>>

\* ... before a new one is created.
FindNothing(s) ==
    /\ RunAt(s, "find")
    /\ \/ runKind[s] = "full" /\ Pending = {}
       \/ runKind[s] = "resume" /\ ~(Pending # {} /\ Newest(Pending) \in resumable)
       \/ runKind[s] = "replace"
    /\ GoOn(s, "create")
    /\ UNCHANGED <<jobVars, runKind, ownJob, runBlocked, runLocks, runFaults>>

CreateJob(s) ==
    /\ RunAt(s, "create")
    /\ Cardinality(Created) < MaxJob
    /\ LET j == Cardinality(Created) + 1
       IN /\ jobStatus' = [jobStatus EXCEPT ![j] = "pending"]
          /\ ownJob' = [ownJob EXCEPT ![s] = j]
    /\ GoOn(s, "start")
    /\ UNCHANGED <<jobLeased, resumable, runKind, runBlocked, runLocks, runFaults>>

-----------------------------------------------------------------------------
(* RefreshJobLifecycle                                                     *)

\* A job that owns the channel: running, with an unexpired lease.
Owns(j) == jobStatus[j] = "running" /\ j \in jobLeased

\* An error: only a job that already runs is locked.
RunningJobs == {j \in Job : jobStatus[j] = "running"}

Contenders == {j \in Job : jobStatus[j] \in Open}

\* start locks every open job of the channel and looks for an owner.
StartCheck(s) ==
    /\ RunAt(s, "start")
    /\ \A j \in Contenders : ~Locked(j)
    /\ runBlocked' = [runBlocked EXCEPT ![s] = \E j \in Contenders \ {ownJob[s]} : Owns(j)]
    /\ runLocks' = [runLocks EXCEPT ![s] = Contenders]
    /\ GoOn(s, "commit")
    /\ UNCHANGED <<jobVars, runKind, ownJob, runFaults>>

\* An error: the run that owns the channel is cancelled.
OwnerJob(s) == CHOOSE j \in Job \ {ownJob[s]} : Owns(j)

JobToCancel(s) == ownJob[s]

\* Another run owns the channel: the job is cancelled, the refresh deferred.
Defer(s) ==
    /\ RunAt(s, "commit") /\ runBlocked[s]
    /\ \A t \in Session \ {s} : ownJob[s] \notin runLocks[t]
    /\ jobStatus' = [jobStatus EXCEPT ![JobToCancel(s)] = "cancelled"]
    /\ EndRun(s)
    /\ UNCHANGED <<jobLeased, resumable, runFaults>>

StartJob(s) ==
    /\ RunAt(s, "commit") /\ ~runBlocked[s]
    /\ \A t \in Session \ {s} : ownJob[s] \notin runLocks[t]
    /\ jobStatus' = [jobStatus EXCEPT ![ownJob[s]] = "running"]
    /\ jobLeased' = jobLeased \cup {ownJob[s]}
    /\ runLocks' = [runLocks EXCEPT ![s] = {}]
    /\ GoOn(s, "page")
    /\ UNCHANGED <<resumable, runKind, ownJob, runBlocked, runFaults>>

\* A page was read and stored; heartbeat renews the lease of the row, whatever
\* its status has become.
RenewLease(s) ==
    /\ RunAt(s, "page") /\ ~Locked(ownJob[s])
    /\ jobLeased' = jobLeased \cup {ownJob[s]}
    /\ UNCHANGED <<jobStatus, resumable, refreshVars, runFaults>>

\* finish writes the status without looking at the row.
FinishJob(s) ==
    /\ RunAt(s, "page") /\ ~Locked(ownJob[s])
    /\ jobStatus' = [jobStatus EXCEPT ![ownJob[s]] = "completed"]
    /\ jobLeased' = jobLeased \ {ownJob[s]}
    /\ EndRun(s)
    /\ UNCHANGED <<resumable, runFaults>>

\* An error while reading: a full or incremental run makes its job pending and
\* resumable, a replacing one finishes it as failed.
FailJob(s) ==
    /\ RunAt(s, "page") /\ ~Locked(ownJob[s])
    /\ IF runKind[s] = "replace"
       THEN /\ jobStatus' = [jobStatus EXCEPT ![ownJob[s]] = "failed"]
            /\ jobLeased' = jobLeased \ {ownJob[s]}
            /\ EndRun(s)
            /\ UNCHANGED resumable
       ELSE /\ jobStatus' = [jobStatus EXCEPT ![ownJob[s]] = "pending"]
            /\ resumable' = resumable \cup {ownJob[s]}
            /\ IF runKind[s] = "full"
               THEN GoOn(s, "mark") /\ UNCHANGED <<runKind, ownJob, runBlocked, runLocks>>
               ELSE EndRun(s)
            /\ UNCHANGED jobLeased
    /\ UNCHANGED runFaults

\* The cache refresh then records the failure on the newest job of the channel.
MarkLatestFailed(s) ==
    /\ RunAt(s, "mark") /\ ~Locked(Newest(Created))
    /\ jobStatus' = [jobStatus EXCEPT ![Newest(Created)] = "failed"]
    /\ jobLeased' = jobLeased \ {Newest(Created)}
    /\ EndRun(s)
    /\ UNCHANGED <<resumable, runFaults>>

\* An error: the comparison with the deadline is the wrong way round.
LeaseRuns(j) == jobStatus[j] = "running" /\ j \in jobLeased

\* is_expired, for the running jobs recovery looks at.
IsExpired(j) == jobStatus[j] = "running" /\ j \notin jobLeased

\* recover_expired, at start-up and on every tick of the order runner.
RecoverExpired ==
    /\ \E j \in Job : IsExpired(j)
    /\ \A j \in Job : jobStatus[j] = "running" => ~Locked(j)
    /\ jobStatus' = [j \in Job |-> IF IsExpired(j) THEN "failed" ELSE jobStatus[j]]
    /\ jobLeased' = {j \in jobLeased : ~IsExpired(j)}
    /\ UNCHANGED <<resumable, refreshVars, runFaults>>

-----------------------------------------------------------------------------
WorkedOn(j) == \E s \in Session : ownJob[s] = j /\ runStep[s] \in {"page", "mark"}

LeaseExpires ==
    /\ \E j \in jobLeased : ~WorkedOn(j) /\ jobLeased' = jobLeased \ {j}
    /\ UNCHANGED <<jobStatus, resumable, refreshVars, runFaults>>

\* A page takes longer than the lease.
LeaseExpiresAtWork ==
    /\ runFaults < MaxRunFaults
    /\ runFaults' = runFaults + 1
    /\ \E j \in jobLeased : WorkedOn(j) /\ jobLeased' = jobLeased \ {j}
    /\ UNCHANGED <<jobStatus, resumable, refreshVars>>

CrashRun(s) ==
    /\ ~RunAt(s, "idle")
    /\ runFaults < MaxRunFaults
    /\ runFaults' = runFaults + 1
    /\ EndRun(s)
    /\ UNCHANGED jobVars

RefreshStep(s) ==
    \/ ResumeJob(s) \/ SupersedeJob(s) \/ FindNothing(s) \/ CreateJob(s)
    \/ StartCheck(s) \/ Defer(s) \/ StartJob(s) \/ FinishJob(s) \/ FailJob(s)
    \/ MarkLatestFailed(s)

JobsNext ==
    \/ \E s \in Session : Begin(s) \/ RefreshStep(s) \/ RenewLease(s) \/ CrashRun(s)
    \/ RecoverExpired \/ LeaseExpires \/ LeaseExpiresAtWork

JobsSpec == JobsInit /\ [][JobsNext]_jobsVars

\* A run goes on and ends, leases run out, the order runner recovers.  Its
\* statement waits in line for the rows that others have locked.
JobsFairness ==
    /\ \A s \in Session : WF_jobsVars(RefreshStep(s))
    /\ WF_jobsVars(LeaseExpires) /\ SF_jobsVars(RecoverExpired)

-----------------------------------------------------------------------------
(* Properties                                                              *)

JobsTypeOK ==
    /\ jobStatus \in [Job -> {"none"} \cup Open \cup Ended]
    /\ jobLeased \subseteq Created
    /\ resumable \subseteq Created
    /\ runStep \in [Session -> {"idle", "find", "create", "start", "commit", "page", "mark"}]
    /\ runKind \in [Session -> Kind \cup {"none"}]
    /\ ownJob \in [Session -> Job \cup {NoJob}]
    /\ \A s \in Session : runStep[s] \in {"start", "commit", "page", "mark"} => ownJob[s] # NoJob
    /\ runBlocked \in [Session -> BOOLEAN]
    /\ runLocks \in [Session -> SUBSET Created]
    /\ \A s, t \in Session : s # t => runLocks[s] \cap runLocks[t] = {}
    /\ runFaults \in 0..MaxRunFaults

\* "Locking only an already-running row leaves two pending jobs free to promote
\* themselves at the same time": no two runs read the channel under live leases.
OneOwner ==
    \A s, t \in Session :
        RunAt(s, "page") /\ Owns(ownJob[s]) /\ RunAt(t, "page") /\ Owns(ownJob[t]) => s = t

\* A run settles its own job, never one that another run is working on.
SettlesOwn ==
    \A s, t \in Session :
        s # t /\ runStep[s] # runStep'[s] /\ RunAt(t, "page") /\ ownJob[s] # ownJob[t]
           => jobStatus'[ownJob[t]] = jobStatus[ownJob[t]]

\* A job that runs ends, or waits to be resumed, whoever dies on the way.
RunningEnds == \A j \in Job : []<>(jobStatus[j] # "running")
=============================================================================
