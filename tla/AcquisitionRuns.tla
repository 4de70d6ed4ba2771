-------------------------- MODULE AcquisitionRuns --------------------------
(***************************************************************************)
(* Reads of one Source resource (source_acquisition/).  A request creates  *)
(* a durable Run, or finds the one its idempotency key names, and the      *)
(* process that got it queued executes it: start with a lease, the         *)
(* provider's answer, the decision whether it is new, and one commit of    *)
(* Observation and terminal Run.  Nobody renews the lease meanwhile.       *)
(***************************************************************************)
EXTENDS Naturals, FiniteSets, Sequences

CONSTANTS
    Executor,       \* processes that execute Runs
    Key,            \* idempotency keys
    MaxRuns,        \* bound on Runs
    MaxContent,     \* bound on the changes of the remote file
    MaxRunLosses    \* bound on crashes and expired leases

ASSUME AcquisitionRunsAssumption ==
    MaxRuns \in Nat /\ MaxContent \in Nat /\ MaxRunLosses \in Nat

VARIABLES
    runs,           \* saq_runs rows, in creation order
    observations,   \* saq_observations rows by observation_version: [run, content]
    remote,         \* the file at the provider
    execution,      \* what each executor is doing
    losses          \* crashes and expired leases so far

acquisitionVars == <<runs, observations, remote, execution, losses>>

Resting == [at |-> "idle", run |-> 0, content |-> 0, result |-> "none"]
ActiveStatus == {"queued", "running"}
TerminalStatus == {"succeeded", "failed", "cancelled", "abandoned"}

RunRecord == [key : Key, status : ActiveStatus \cup TerminalStatus, live : BOOLEAN, cancel : BOOLEAN]

AcquisitionTypeOK ==
    /\ runs \in Seq(RunRecord) /\ Len(runs) <= MaxRuns
    /\ observations \in Seq([run : 1..MaxRuns, content : 0..MaxContent])
    /\ remote \in 0..MaxContent
    /\ execution \in [Executor -> [at : {"idle", "start", "check", "capture", "decide", "complete", "fail"},
                                   run : 0..MaxRuns, content : 0..MaxContent,
                                   result : {"none", "captured", "observed", "notModified"}]]
    /\ losses \in 0..MaxRunLosses

AcquisitionInit ==
    /\ runs = <<>> /\ observations = <<>> /\ remote = 0 /\ losses = 0
    /\ execution = [e \in Executor |-> Resting]

Active == {r \in DOMAIN runs : runs[r].status \in ActiveStatus}
Doing(e, step) == execution[e].at = step
RunOf(e) == runs[execution[e].run]
Rest(e) == execution' = [execution EXCEPT ![e] = Resting]
Proceed(e, step) == execution' = [execution EXCEPT ![e].at = step]
SetTerminal(r, status) == runs' = [runs EXCEPT ![r].status = status, ![r].live = FALSE]

------------------------------------------------------------------------------
(* SourceAcquisitionService._request                                       *)

\* The active Run of the scope, which uq_saq_runs_active_scope backs.
NoActiveRun == Active = {}

\* The Run of the key is replayed: executed when it is still queued, else only
\* answered.  Without one a Run is queued, unless the scope has an active one.
RequestRun(e, k) ==
    /\ Doing(e, "idle")
    /\ \/ \E r \in DOMAIN runs :
             /\ runs[r].key = k /\ runs[r].status = "queued"
             /\ execution' = [execution EXCEPT ![e] = [Resting EXCEPT !.at = "start", !.run = r]]
             /\ UNCHANGED runs
       \/ /\ \A r \in DOMAIN runs : runs[r].key # k
          /\ NoActiveRun
          /\ Len(runs) < MaxRuns
          /\ runs' = Append(runs, [key |-> k, status |-> "queued", live |-> FALSE, cancel |-> FALSE])
          /\ execution' = [execution EXCEPT ![e] = [Resting EXCEPT !.at = "start", !.run = Len(runs) + 1]]
    /\ UNCHANGED <<observations, remote, losses>>

------------------------------------------------------------------------------
(* SourceAcquisitionExecutor.execute_run                                   *)

\* A concurrent replay may have claimed the Run: its result is answered.
StartAcquisition(e) ==
    /\ Doing(e, "start")
    /\ IF RunOf(e).status = "queued"
       THEN /\ runs' = [runs EXCEPT ![execution[e].run].status = "running",
                                    ![execution[e].run].live = TRUE]
            /\ Proceed(e, "check")
       ELSE UNCHANGED runs /\ Rest(e)
    /\ UNCHANGED <<observations, remote, losses>>

\* An error: the worker that has the answer writes whatever the row says.
OwnedOnce(e) == execution[e].run # 0

\* _assert_worker_lease
Owned(e) == RunOf(e).status = "running" /\ RunOf(e).live

\* A worker's transition is refused when the Run is not running any more, and
\* abandons it when its lease has expired.
EndOwned(e, status, observed) ==
    \/ Owned(e) /\ SetTerminal(execution[e].run, status) /\ observations' = observed
    \/ /\ ~Owned(e)
       /\ IF RunOf(e).status = "running"
          THEN SetTerminal(execution[e].run, "abandoned") ELSE UNCHANGED runs
       /\ UNCHANGED observations

\* _acknowledge_if_requested, before the provider is asked.
CheckCancellation(e) ==
    /\ Doing(e, "check")
    /\ IF RunOf(e).status = "running" /\ RunOf(e).cancel
       THEN EndOwned(e, "cancelled", observations) /\ Rest(e)
       ELSE UNCHANGED <<runs, observations>> /\ Proceed(e, "capture")
    /\ UNCHANGED <<remote, losses>>

\* The provider sends the file, says that it has not changed, or fails.
Capture(e) ==
    /\ Doing(e, "capture")
    /\ \/ execution' = [execution EXCEPT ![e].at = "decide", ![e].content = remote, ![e].result = "captured"]
       \/ /\ observations # <<>> /\ observations[Len(observations)].content = remote
          /\ execution' = [execution EXCEPT ![e].at = "decide", ![e].content = remote, ![e].result = "notModified"]
       \/ Proceed(e, "fail")
    /\ UNCHANGED <<runs, observations, remote, losses>>

\* An error: only the provider's own word counts.
UnchangedByProvider(e) == execution[e].result = "notModified"

\* The latest Observation, read without a lock, has the same content.
Unchanged(e) ==
    /\ observations # <<>>
    /\ execution[e].result = "notModified" \/ observations[Len(observations)].content = execution[e].content

\* _authoritative_result
Decide(e) ==
    /\ Doing(e, "decide")
    /\ execution' = [execution EXCEPT ![e].at = "complete",
                                      ![e].result = IF Unchanged(e) THEN "notModified" ELSE "observed"]
    /\ UNCHANGED <<runs, observations, remote, losses>>

Cancelled(r) == runs[r].cancel

\* Observation and terminal Run share one commit; a cancellation wins.
Complete(e) ==
    LET r == execution[e].run
        isNew == execution[e].result = "observed" /\ ~Cancelled(r)
    IN  /\ Doing(e, "complete")
        /\ EndOwned(e, IF Cancelled(r) THEN "cancelled" ELSE "succeeded",
                    IF isNew THEN Append(observations, [run |-> r, content |-> execution[e].content])
                    ELSE observations)
        /\ Rest(e)
        /\ UNCHANGED <<remote, losses>>

\* _fail_or_cancel
FailAcquisition(e) ==
    /\ Doing(e, "fail")
    /\ EndOwned(e, IF Cancelled(execution[e].run) THEN "cancelled" ELSE "failed", observations)
    /\ Rest(e)
    /\ UNCHANGED <<remote, losses>>

------------------------------------------------------------------------------
(* Users, time, and the processes                                          *)

RequestCancellation(r) ==
    /\ runs[r].status \in ActiveStatus
    /\ IF runs[r].status = "queued"
       THEN runs' = [runs EXCEPT ![r].status = "cancelled", ![r].cancel = TRUE]
       ELSE runs' = [runs EXCEPT ![r].cancel = TRUE]
    /\ UNCHANGED <<observations, remote, execution, losses>>

ChangeRemote ==
    /\ remote < MaxContent
    /\ remote' = remote + 1
    /\ UNCHANGED <<runs, observations, execution, losses>>

LoseRun == losses < MaxRunLosses /\ losses' = losses + 1

\* An execution takes longer than lease_seconds.
OutlastLease(r) ==
    /\ runs[r].status = "running" /\ runs[r].live
    /\ \E e \in Executor : execution[e].run = r
    /\ LoseRun
    /\ runs' = [runs EXCEPT ![r].live = FALSE]
    /\ UNCHANGED <<observations, remote, execution>>

\* The lease of an executor that is gone runs out.
LeaseRunsOut(r) ==
    /\ runs[r].status = "running" /\ runs[r].live
    /\ \A e \in Executor : execution[e].run # r
    /\ runs' = [runs EXCEPT ![r].live = FALSE]
    /\ UNCHANGED <<observations, remote, execution, losses>>

CrashExecutor(e) ==
    /\ ~Doing(e, "idle")
    /\ LoseRun
    /\ Rest(e)
    /\ UNCHANGED <<runs, observations, remote>>

\* abandon_expired_runs, at the start of an application process
\* (recover_abandoned_durable_jobs) and at no other time.
StartApplication ==
    /\ \E r \in DOMAIN runs : runs[r].status = "running" /\ ~runs[r].live
    /\ runs' = [r \in DOMAIN runs |-> IF runs[r].status = "running" /\ ~runs[r].live
                                      THEN [runs[r] EXCEPT !.status = "abandoned"] ELSE runs[r]]
    /\ UNCHANGED <<observations, remote, execution, losses>>

ExecuteRun(e) ==
    \/ StartAcquisition(e) \/ CheckCancellation(e) \/ Capture(e) \/ Decide(e)
    \/ Complete(e) \/ FailAcquisition(e)

AcquisitionNext ==
    \/ \E e \in Executor : ExecuteRun(e) \/ CrashExecutor(e) \/ \E k \in Key : RequestRun(e, k)
    \/ \E r \in DOMAIN runs : RequestCancellation(r) \/ OutlastLease(r) \/ LeaseRunsOut(r)
    \/ ChangeRemote \/ StartApplication

\* An executor that is not stopped goes on, time passes, and who needs the Source
\* asks for it again.
AcquisitionFairness ==
    /\ \A e \in Executor : WF_acquisitionVars(ExecuteRun(e))
    /\ WF_acquisitionVars(\E r \in DOMAIN runs : LeaseRunsOut(r))
    /\ WF_acquisitionVars(\E e \in Executor, k \in Key : RequestRun(e, k))

AcquisitionSpec == AcquisitionInit /\ [][AcquisitionNext]_acquisitionVars /\ AcquisitionFairness

------------------------------------------------------------------------------

\* A Run ends once ("terminal_run_immutable"), also when a worker comes back after
\* its lease was given up, and a cancellation requested before wins over the answer
\* ("Cancellation wins when requested before the locked completion").
RunEndsAsDecided ==
    [][\A r \in DOMAIN runs :
          /\ runs[r].status \in TerminalStatus => runs'[r] = runs[r]
          /\ runs[r].cancel => runs'[r].status \notin {"succeeded", "failed"}]_acquisitionVars

\* The Observations are the Source's changes: each comes from a Run of its own that
\* succeeded, in the order of the Runs, and none repeats the one before it, although
\* the decision is made on a read without a lock.
ObservationsAreChanges ==
    \A v \in DOMAIN observations :
        /\ runs[observations[v].run].status = "succeeded"
        /\ v > 1 => /\ observations[v - 1].run < observations[v].run
                    /\ observations[v - 1].content # observations[v].content

\* "Expired leases become abandoned before replacement work starts": a Run whose
\* worker is gone does not keep the Source from those who ask for it again, as long
\* as the bound leaves them a Run.
LostRunEnds ==
    \A n \in 1..MaxRuns - 1 :
        (n \in DOMAIN runs /\ runs[n].status = "running" /\ ~runs[n].live)
            ~> (n \in DOMAIN runs /\ runs[n].status # "running")
=============================================================================
