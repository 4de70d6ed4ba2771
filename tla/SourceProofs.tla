---------------------------- MODULE SourceProofs ----------------------------
(***************************************************************************)
(* Proofs about AcquisitionRuns and SourceLifecycle, for any number of     *)
(* executors, users, Runs and revisions: Observations are the Source's     *)
(* changes, a Run ends as it was decided, and what is made of a Source is  *)
(* made of its latest Mapping and data, or not at all once it is retired.  *)
(***************************************************************************)
EXTENDS AcquisitionRuns, SourceLifecycle, SequenceTheorems, TLAPS

(* AcquisitionRuns *)

\* Steps of an executor whose Run has been started.
Started == {"check", "capture", "decide", "complete", "fail"}

ExecutionRecord == [at : {"idle", "start"} \cup Started, run : 0..MaxRuns, content : 0..MaxContent,
                    result : {"none", "captured", "observed", "notModified"}]

\* Only the newest Run of the scope can be under way, and a Run that was asked to
\* stop does not end with an answer.
RunsOK ==
    \A r \in DOMAIN runs :
        /\ runs[r].status \in ActiveStatus => r = Len(runs)
        /\ runs[r].cancel => runs[r].status \notin {"succeeded", "failed"}

\* A Run is started once, and so by one executor.
ExecutionOK ==
    /\ \A e \in Executor : execution[e].at # "idle" => execution[e].run \in DOMAIN runs
    /\ \A e \in Executor : execution[e].at \in Started => runs[execution[e].run].status # "queued"
    /\ \A e, f \in Executor :
          /\ execution[e].at \in Started /\ execution[f].at \in Started
          /\ execution[e].run = execution[f].run
          => e = f

\* What the owner of the active Run has decided on the latest Observation is still
\* so when it commits.
DecisionOK ==
    \A e \in Executor :
        /\ execution[e].at = "complete" /\ execution[e].result = "observed" /\ Owned(e)
        /\ observations # <<>>
        => observations[Len(observations)].content # execution[e].content

\* An Observation is of a Run.
ObservedRuns == \A v \in DOMAIN observations : observations[v].run \in DOMAIN runs

\* The inductive invariant.
AcquisitionInv ==
    /\ AcquisitionTypeOK /\ RunsOK /\ ExecutionOK /\ DecisionOK
    /\ ObservedRuns /\ ObservationsAreChanges

\* Setting a field of a row keeps its type and its other fields.
LEMMA RunTyping ==
    ASSUME NEW r, r \in RunRecord
    PROVE  /\ r.status \in ActiveStatus \cup TerminalStatus /\ r.live \in BOOLEAN /\ r.cancel \in BOOLEAN
           /\ \A s \in ActiveStatus \cup TerminalStatus :
                 /\ [r EXCEPT !.status = s] \in RunRecord
                 /\ [r EXCEPT !.status = s].status = s /\ [r EXCEPT !.status = s].live = r.live
                 /\ [r EXCEPT !.status = s].cancel = r.cancel
           /\ [r EXCEPT !.cancel = TRUE] \in RunRecord
           /\ [r EXCEPT !.cancel = TRUE].status = r.status /\ [r EXCEPT !.cancel = TRUE].live = r.live
           /\ [r EXCEPT !.cancel = TRUE].cancel
           /\ \A b \in BOOLEAN :
                 /\ [r EXCEPT !.live = b] \in RunRecord
                 /\ [r EXCEPT !.live = b].status = r.status /\ [r EXCEPT !.live = b].live = b
                 /\ [r EXCEPT !.live = b].cancel = r.cancel
BY DEF RunRecord

\* What a step that changes the row of one Run leaves of the rows.
LEMMA RunUpdated ==
    ASSUME AcquisitionTypeOK, NEW r \in DOMAIN runs, NEW row \in RunRecord
    PROVE  /\ [runs EXCEPT ![r] = row] \in Seq(RunRecord)
           /\ Len([runs EXCEPT ![r] = row]) = Len(runs)
           /\ DOMAIN [runs EXCEPT ![r] = row] = DOMAIN runs
           /\ [runs EXCEPT ![r] = row][r] = row
           /\ \A q \in DOMAIN runs : q # r => [runs EXCEPT ![r] = row][q] = runs[q]
<1>1. runs \in Seq(RunRecord) /\ r \in 1..Len(runs) BY LenProperties DEF AcquisitionTypeOK
<1> QED BY <1>1, ExceptSeq, LenProperties

\* What a step that queues no Run does to the rows: those that ended stay, none is
\* queued again, and none that was asked to stop ends with an answer.
RunsKept ==
    /\ runs' \in Seq(RunRecord) /\ Len(runs') = Len(runs) /\ DOMAIN runs' = DOMAIN runs
    /\ \A r \in DOMAIN runs :
          /\ runs[r].status \in TerminalStatus => runs'[r] = runs[r]
          /\ runs[r].cancel => runs'[r].cancel
          /\ runs'[r].cancel => runs'[r].status \notin {"succeeded", "failed"}
          /\ runs'[r].status = "queued" => runs[r].status = "queued"
          /\ runs'[r].status = "running" /\ runs'[r].live
                => runs[r].status = "queued" \/ (runs[r].status = "running" /\ runs[r].live)
          /\ runs'[r].status \in ActiveStatus => runs[r].status \in ActiveStatus

\* Changing one row in these limits is such a step ...
LEMMA KeptByUpdate ==
    ASSUME AcquisitionTypeOK, RunsOK, NEW r \in DOMAIN runs, NEW row \in RunRecord,
           runs' = [runs EXCEPT ![r] = row],
           runs[r].status \notin TerminalStatus \/ row = runs[r],
           runs[r].cancel => row.cancel,
           row.cancel => row.status \notin {"succeeded", "failed"},
           row.status = "queued" => runs[r].status = "queued",
           row.status = "running" /\ row.live
              => runs[r].status = "queued" \/ (runs[r].status = "running" /\ runs[r].live)
    PROVE  RunsKept
<1>1. \A q \in DOMAIN runs : runs[q] \in RunRecord BY ElementOfSeq, LenProperties DEF AcquisitionTypeOK
<1>2. ActiveStatus \cap TerminalStatus = {} BY DEF ActiveStatus, TerminalStatus
<1>3. \A q \in DOMAIN runs : runs[q].status \in ActiveStatus \cup TerminalStatus BY <1>1, RunTyping
<1>4. row.status \in ActiveStatus => runs[r].status \in ActiveStatus
  BY <1>2, <1>3
<1> QED BY <1>2, <1>3, <1>4, RunUpdated DEF RunsKept, RunsOK

\* ... and so is leaving all of them alone ...
LEMMA KeptByNothing ==
    ASSUME AcquisitionTypeOK, RunsOK, UNCHANGED runs
    PROVE  RunsKept
BY DEF RunsKept, RunsOK, AcquisitionTypeOK

\* ... and the end of a Run by its worker, who stores an Observation only while it
\* owns the Run.
LEMMA EndKeeps ==
    ASSUME AcquisitionTypeOK, RunsOK, NEW e \in Executor, execution[e].run \in DOMAIN runs,
           NEW status \in TerminalStatus, NEW observed, EndOwned(e, status, observed),
           runs[execution[e].run].cancel => status \notin {"succeeded", "failed"}
    PROVE  /\ RunsKept
           /\ observations' # observations
                => /\ Owned(e) /\ observations' = observed
                   /\ runs'[execution[e].run].status = status
<1> DEFINE r == execution[e].run
<1>1. runs[r] \in RunRecord BY ElementOfSeq, LenProperties DEF AcquisitionTypeOK
<1> DEFINE row(s) == [[runs[r] EXCEPT !.status = s] EXCEPT !.live = FALSE]
<1>2. \A s \in TerminalStatus : SetTerminal(r, s) => runs' = [runs EXCEPT ![r] = row(s)]
  BY <1>1 DEF SetTerminal, RunRecord
<1>3. \A s \in TerminalStatus : /\ row(s) \in RunRecord /\ row(s).status = s /\ row(s).cancel = runs[r].cancel
                                /\ row(s).live = FALSE
  <2> TAKE s \in TerminalStatus
  <2>0. s \in ActiveStatus \cup TerminalStatus OBVIOUS
  <2>1. [runs[r] EXCEPT !.status = s] \in RunRecord /\ [runs[r] EXCEPT !.status = s].status = s
        /\ [runs[r] EXCEPT !.status = s].cancel = runs[r].cancel
    BY <1>1, <2>0 DEF RunRecord
  <2> QED BY <2>1, RunTyping
<1> HIDE DEF row
<1>4. ASSUME NEW s \in TerminalStatus, SetTerminal(r, s), runs[r].status = "running",
             runs[r].cancel => s \notin {"succeeded", "failed"}
      PROVE  RunsKept /\ runs'[r].status = s
  <2>1. runs' = [runs EXCEPT ![r] = row(s)] BY <1>2, <1>4
  <2>2. s \notin {"queued", "running"} /\ runs[r].status \notin TerminalStatus BY <1>4 DEF TerminalStatus
  <2>3. RunsKept BY <2>1, <2>2, <1>3, <1>4, KeptByUpdate
  <2>4. runs'[r] = row(s) BY <2>1, <1>3, RunUpdated
  <2> QED BY <2>3, <2>4, <1>3
<1>5. CASE Owned(e)
  <2>1. SetTerminal(r, status) /\ observations' = observed BY <1>5 DEF EndOwned
  <2> QED BY <2>1, <1>4, <1>5 DEF Owned, RunOf
<1>6. CASE ~Owned(e) /\ RunOf(e).status = "running"
  <2>1. SetTerminal(r, "abandoned") /\ UNCHANGED observations BY <1>6 DEF EndOwned
  <2>2. "abandoned" \in TerminalStatus BY DEF TerminalStatus
  <2> QED BY <2>1, <2>2, <1>4, <1>6 DEF RunOf
<1>7. CASE ~Owned(e) /\ RunOf(e).status # "running"
  BY <1>7, KeptByNothing DEF EndOwned
<1> QED BY <1>5, <1>6, <1>7

\* An executor that goes on keeps the rest of its record.
LEMMA CallTyping ==
    ASSUME NEW x, x \in ExecutionRecord
    PROVE  /\ x.run \in Nat
           /\ \A p \in {"idle", "start"} \cup Started :
                 /\ [x EXCEPT !.at = p] \in ExecutionRecord
                 /\ [x EXCEPT !.at = p].at = p /\ [x EXCEPT !.at = p].run = x.run
                 /\ [x EXCEPT !.at = p].content = x.content /\ [x EXCEPT !.at = p].result = x.result
BY AcquisitionRunsAssumption DEF ExecutionRecord

\* The rows stay consistent in such a step.
LEMMA RunsOKForward ==
    ASSUME RunsOK, RunsKept
    PROVE  RunsOK'
BY DEF RunsOK, RunsKept

\* A step that leaves the Observations alone, and in which no executor comes to
\* hold, decide, or own what it did not.
LEMMA ExecutionForward ==
    ASSUME AcquisitionInv, RunsKept, UNCHANGED <<observations, execution>>
    PROVE  ExecutionOK' /\ DecisionOK' /\ ObservedRuns' /\ ObservationsAreChanges'
<1>0. observations' = observations /\ execution' = execution OBVIOUS
<1>1. ExecutionOK'
  <2>1. \A e \in Executor : execution[e].at \in Started => execution[e].run \in DOMAIN runs
    BY DEF AcquisitionInv, ExecutionOK, Started
  <2> QED BY <1>0, <2>1 DEF AcquisitionInv, ExecutionOK, RunsKept
<1>2. DecisionOK' BY <1>0 DEF AcquisitionInv, DecisionOK, ExecutionOK, RunsKept, Owned, RunOf, Started
<1>3. ObservedRuns' BY DEF AcquisitionInv, ObservedRuns, RunsKept
<1>4. ObservationsAreChanges'
  BY DEF AcquisitionInv, ObservationsAreChanges, ObservedRuns, RunsKept, TerminalStatus
<1> QED BY <1>1, <1>2, <1>3, <1>4

\* The same when one executor moves.
LEMMA ExecutionMoves ==
    ASSUME AcquisitionInv, RunsKept, UNCHANGED observations,
           NEW e \in Executor, NEW x \in ExecutionRecord, execution' = [execution EXCEPT ![e] = x],
           \/ x.at = "idle"
           \/ x.at = "start" /\ x.run \in DOMAIN runs
           \/ /\ x.at = "check" /\ x.run \in DOMAIN runs /\ runs'[x.run].status # "queued"
              /\ \A f \in Executor : execution[f].at \in Started => execution[f].run # x.run
           \/ /\ execution[e].at \in Started /\ x.at \in Started /\ x.run = execution[e].run
              /\ x.at = "complete" /\ x.result = "observed" /\ observations # <<>>
                      => observations[Len(observations)].content # x.content
    PROVE  ExecutionOK' /\ DecisionOK' /\ ObservedRuns' /\ ObservationsAreChanges'
<1>0. /\ execution'[e] = x /\ \A f \in Executor : f # e => execution'[f] = execution[f]
  BY DEF AcquisitionInv, AcquisitionTypeOK
<1>1. ExecutionOK' BY <1>0 DEF AcquisitionInv, ExecutionOK, RunsKept, Started
<1>2. DecisionOK'
  <2> SUFFICES ASSUME NEW f \in Executor, execution'[f].at = "complete", execution'[f].result = "observed",
                      Owned(f)', observations # <<>>
               PROVE  observations[Len(observations)].content # execution'[f].content
    BY DEF DecisionOK
  <2>1. CASE f = e BY <2>1, <1>0 DEF Started
  <2>2. CASE f # e
    <3>1. execution'[f] = execution[f] /\ execution[f].run \in DOMAIN runs
          /\ runs[execution[f].run].status # "queued"
      BY <2>2, <1>0 DEF AcquisitionInv, ExecutionOK, Started
    <3>2. Owned(f) BY <3>1 DEF Owned, RunOf, RunsKept
    <3> QED BY <3>1, <3>2 DEF AcquisitionInv, DecisionOK
  <2> QED BY <2>1, <2>2
<1>3. ObservedRuns' BY DEF AcquisitionInv, ObservedRuns, RunsKept
<1>4. ObservationsAreChanges'
  BY DEF AcquisitionInv, ObservationsAreChanges, ObservedRuns, RunsKept, TerminalStatus
<1> QED BY <1>1, <1>2, <1>3, <1>4

\* The type of the state in terms of the records above.
LEMMA AcquisitionTyping ==
    AcquisitionTypeOK <=>
        /\ runs \in Seq(RunRecord) /\ Len(runs) <= MaxRuns
        /\ observations \in Seq([run : 1..MaxRuns, content : 0..MaxContent])
        /\ remote \in 0..MaxContent
        /\ execution \in [Executor -> ExecutionRecord]
        /\ losses \in 0..MaxRunLosses
BY DEF AcquisitionTypeOK, ExecutionRecord, Started

\* The records of an executor that rests, and that has asked for a Run.
LEMMA RestingTyping ==
    /\ Resting \in ExecutionRecord /\ Resting.at = "idle"
    /\ \A r \in 1..MaxRuns : /\ [Resting EXCEPT !.at = "start", !.run = r] \in ExecutionRecord
                            /\ [Resting EXCEPT !.at = "start", !.run = r].at = "start"
                            /\ [Resting EXCEPT !.at = "start", !.run = r].run = r
<1>1. Resting \in ExecutionRecord /\ Resting.at = "idle"
  BY AcquisitionRunsAssumption DEF Resting, ExecutionRecord
<1>2. ASSUME NEW r \in 1..MaxRuns
      PROVE  /\ [Resting EXCEPT !.at = "start", !.run = r] \in ExecutionRecord
             /\ [Resting EXCEPT !.at = "start", !.run = r].at = "start"
             /\ [Resting EXCEPT !.at = "start", !.run = r].run = r
  <2>1. [Resting EXCEPT !.at = "start"] \in ExecutionRecord /\ [Resting EXCEPT !.at = "start"].at = "start"
    BY <1>1, CallTyping
  <2> DEFINE x == [Resting EXCEPT !.at = "start"]
  <2>2. r \in 0..MaxRuns BY AcquisitionRunsAssumption
  <2>3. x \in ExecutionRecord /\ x.at = "start" BY <2>1
  <2>4. [Resting EXCEPT !.at = "start", !.run = r] = [x EXCEPT !.run = r] OBVIOUS
  <2> HIDE DEF x
  <2>5. [x EXCEPT !.run = r] \in ExecutionRecord /\ [x EXCEPT !.run = r].at = "start" /\ [x EXCEPT !.run = r].run = r
    BY <2>2, <2>3 DEF ExecutionRecord
  <2> QED BY <2>4, <2>5
<1> QED BY <1>1, <1>2

\* A Run is queued because none of the scope is active.
RunAppended(k) ==
    NoActiveRun /\ runs' = Append(runs, [key |-> k, status |-> "queued", live |-> FALSE, cancel |-> FALSE])

\* What every step leaves of the rows that are there.
LEMMA RowsStep ==
    ASSUME AcquisitionInv, AcquisitionNext
    PROVE  RunsKept \/ \E k \in Key : RunAppended(k)
<1> USE DEF AcquisitionInv
<1>0. \A e \in Executor : execution[e].at # "idle" => execution[e].run \in DOMAIN runs
  BY DEF ExecutionOK
<1>r. \A r \in DOMAIN runs : runs[r] \in RunRecord /\ (runs[r].cancel => runs[r].status \notin {"succeeded", "failed"})
  BY ElementOfSeq, LenProperties DEF AcquisitionTypeOK, RunsOK
<1>t. {"queued", "running"} \cap TerminalStatus = {} BY DEF TerminalStatus
<1>1. ASSUME NEW e \in Executor, StartAcquisition(e) PROVE RunsKept
  <2> DEFINE r == execution[e].run
  <2>1. CASE RunOf(e).status = "queued"
    <3> DEFINE x == [runs[r] EXCEPT !.status = "running"]
    <3> DEFINE row == [x EXCEPT !.live = TRUE]
    <3>1. r \in DOMAIN runs /\ runs[r].status = "queued" BY <1>0, <1>1, <2>1 DEF StartAcquisition, Doing, RunOf
    <3>2. runs' = [runs EXCEPT ![r].status = "running", ![r].live = TRUE]
      BY <1>1, <2>1 DEF StartAcquisition
    <3>3. runs' = [runs EXCEPT ![r] = row] BY <3>1, <3>2, <1>r DEF RunRecord
    <3>4. x \in RunRecord /\ x.status = "running" /\ x.cancel = runs[r].cancel
      BY <1>r, <3>1 DEF RunRecord, ActiveStatus, TerminalStatus
    <3>5. row \in RunRecord /\ row.status = "running" /\ row.cancel = runs[r].cancel BY <3>4, RunTyping
    <3>6. runs[r].status \notin TerminalStatus /\ (runs[r].cancel => row.cancel)
          /\ (row.cancel => row.status \notin {"succeeded", "failed"})
      BY <3>1, <3>5, <1>t, <1>r
    <3> HIDE DEF x, row
    <3> QED BY <3>1, <3>3, <3>5, <3>6, KeptByUpdate
  <2>2. CASE RunOf(e).status # "queued" BY <1>1, <2>2, KeptByNothing DEF StartAcquisition
  <2> QED BY <2>1, <2>2
<1>2. ASSUME NEW e \in Executor, CheckCancellation(e) PROVE RunsKept
  <2>1. CASE EndOwned(e, "cancelled", observations)
    <3>1. execution[e].run \in DOMAIN runs /\ "cancelled" \in TerminalStatus
      BY <1>0, <1>2 DEF CheckCancellation, Doing, TerminalStatus
    <3> QED BY <2>1, <3>1, EndKeeps
  <2>2. CASE UNCHANGED runs BY <2>2, KeptByNothing
  <2> QED BY <1>2, <2>1, <2>2 DEF CheckCancellation
<1>3. ASSUME NEW e \in Executor, Complete(e) PROVE RunsKept
  <2> DEFINE r == execution[e].run
  <2>1. r \in DOMAIN runs BY <1>0, <1>3 DEF Complete, Doing
  <2> DEFINE status == IF Cancelled(r) THEN "cancelled" ELSE "succeeded"
  <2>2. status \in TerminalStatus /\ (runs[r].cancel => status \notin {"succeeded", "failed"})
    BY DEF TerminalStatus, Cancelled
  <2>3. \E observed : EndOwned(e, status, observed) BY <1>3 DEF Complete
  <2> HIDE DEF status
  <2> QED BY <2>1, <2>2, <2>3, EndKeeps
<1>4. ASSUME NEW e \in Executor, FailAcquisition(e) PROVE RunsKept
  <2> DEFINE r == execution[e].run
  <2>1. r \in DOMAIN runs BY <1>0, <1>4 DEF FailAcquisition, Doing
  <2> DEFINE status == IF Cancelled(r) THEN "cancelled" ELSE "failed"
  <2>2. status \in TerminalStatus /\ (runs[r].cancel => status \notin {"succeeded", "failed"})
    BY DEF TerminalStatus, Cancelled
  <2>3. EndOwned(e, status, observations) BY <1>4 DEF FailAcquisition
  <2> HIDE DEF status
  <2> QED BY <2>1, <2>2, <2>3, EndKeeps
<1>5. ASSUME NEW e \in Executor, Capture(e) \/ Decide(e) \/ CrashExecutor(e) PROVE RunsKept
  BY <1>5, KeptByNothing DEF Capture, Decide, CrashExecutor
<1>6. ASSUME NEW e \in Executor, NEW k \in Key, RequestRun(e, k) PROVE RunsKept \/ RunAppended(k)
  BY <1>6, KeptByNothing DEF RequestRun, RunAppended
<1>7. ASSUME NEW r \in DOMAIN runs, RequestCancellation(r) PROVE RunsKept
  <2>1. runs[r].status \in ActiveStatus /\ runs[r].status \notin TerminalStatus
    BY <1>7, <1>t DEF RequestCancellation, ActiveStatus
  <2>2. CASE runs[r].status = "queued"
    <3> DEFINE x == [runs[r] EXCEPT !.status = "cancelled"]
    <3> DEFINE row == [x EXCEPT !.cancel = TRUE]
    <3>1. runs' = [runs EXCEPT ![r] = row] BY <1>7, <2>2, <1>r DEF RequestCancellation, RunRecord
    <3>2. x \in RunRecord /\ x.status = "cancelled" BY <1>r DEF RunRecord, ActiveStatus, TerminalStatus
    <3>3. row \in RunRecord /\ row.status = "cancelled" /\ row.cancel BY <3>2, RunTyping
    <3> QED BY <2>1, <3>1, <3>3, KeptByUpdate
  <2>3. CASE runs[r].status # "queued"
    <3> DEFINE row == [runs[r] EXCEPT !.cancel = TRUE]
    <3>1. runs' = [runs EXCEPT ![r] = row] BY <1>7, <2>3, <1>r DEF RequestCancellation, RunRecord
    <3>2. row \in RunRecord /\ row.status = runs[r].status /\ row.live = runs[r].live /\ row.cancel
      BY <1>r, RunTyping
    <3>3. row.status \notin {"succeeded", "failed"} BY <2>1, <3>2 DEF ActiveStatus
    <3> QED BY <2>1, <3>1, <3>2, <3>3, KeptByUpdate
  <2> QED BY <2>2, <2>3
<1>8. ASSUME NEW r \in DOMAIN runs, OutlastLease(r) \/ LeaseRunsOut(r) PROVE RunsKept
  <2> DEFINE row == [runs[r] EXCEPT !.live = FALSE]
  <2>1. runs[r].status = "running" /\ runs' = [runs EXCEPT ![r].live = FALSE]
    BY <1>8 DEF OutlastLease, LeaseRunsOut
  <2>2. runs' = [runs EXCEPT ![r] = row] BY <2>1, <1>r DEF RunRecord
  <2>3. row \in RunRecord /\ row.status = runs[r].status /\ row.cancel = runs[r].cancel BY <1>r, RunTyping
  <2>4. row.status # "queued" /\ row.live = FALSE /\ runs[r].status \notin TerminalStatus
    BY <2>1, <2>3, <1>r, <1>t, RunTyping
  <2> HIDE DEF row
  <2> QED BY <2>1, <2>2, <2>3, <2>4, <1>r, KeptByUpdate
<1>9. CASE ChangeRemote BY <1>9, KeptByNothing DEF ChangeRemote
<1>10. CASE StartApplication
  <2> DEFINE ended(r) == [runs[r] EXCEPT !.status = "abandoned"]
  <2> DEFINE row(r) == IF runs[r].status = "running" /\ ~runs[r].live THEN ended(r) ELSE runs[r]
  <2>1. runs' = [r \in DOMAIN runs |-> row(r)] BY <1>10 DEF StartApplication
  <2>2. \A r \in DOMAIN runs : /\ ended(r) \in RunRecord /\ ended(r).status = "abandoned"
                               /\ ended(r).cancel = runs[r].cancel
    BY <1>r DEF RunRecord, ActiveStatus, TerminalStatus
  <2>3. runs \in Seq(RunRecord) /\ DOMAIN runs = 1..Len(runs) /\ Len(runs) \in Nat
    BY LenProperties DEF AcquisitionTypeOK
  <2> HIDE DEF ended
  <2>4. runs' \in [1..Len(runs) -> RunRecord] BY <2>1, <2>2, <2>3, <1>r
  <2>5. runs' \in Seq(RunRecord) /\ Len(runs') = Len(runs) /\ DOMAIN runs' = DOMAIN runs
    BY <2>3, <2>4
  <2>6. \A r \in DOMAIN runs : runs'[r] = row(r) BY <2>1
  <2>7. \A r \in DOMAIN runs : runs[r].status = "running" => runs[r].status \notin TerminalStatus
    BY <1>t
  <2>8. "abandoned" \notin ActiveStatus BY DEF ActiveStatus
  <2> QED BY <2>2, <2>5, <2>6, <2>7, <2>8, <1>r DEF RunsKept
<1> QED
  BY <1>1, <1>2, <1>3, <1>4, <1>5, <1>6, <1>7, <1>8, <1>9, <1>10 DEF AcquisitionNext, ExecuteRun


\* A Run ends once, and not with an answer after it was asked to stop.
LEMMA RunEndsStep ==
    ASSUME AcquisitionInv, [AcquisitionNext]_acquisitionVars
    PROVE  /\ \A r \in DOMAIN runs :
                 /\ runs[r].status \in TerminalStatus => runs'[r] = runs[r]
                 /\ runs[r].cancel => runs'[r].status \notin {"succeeded", "failed"}
           /\ RunsOK'
<1>0. RunsOK /\ runs \in Seq(RunRecord) BY DEF AcquisitionInv, AcquisitionTypeOK
<1>1. CASE RunsKept BY <1>0, <1>1, RunsOKForward DEF RunsKept
<1>2. ASSUME NEW k \in Key, RunAppended(k)
      PROVE  /\ \A r \in DOMAIN runs : runs'[r] = runs[r]
             /\ RunsOK'
  <2> DEFINE row == [key |-> k, status |-> "queued", live |-> FALSE, cancel |-> FALSE]
  <2>1. row \in RunRecord BY DEF RunRecord, ActiveStatus
  <2>2. runs' = Append(runs, row) /\ NoActiveRun BY <1>2 DEF RunAppended
  <2>3. row.cancel = FALSE OBVIOUS
  <2> HIDE DEF row
  <2>4. /\ Len(runs') = Len(runs) + 1 /\ DOMAIN runs = 1..Len(runs) /\ DOMAIN runs' = 1..Len(runs) + 1
        /\ \A r \in 1..Len(runs) : runs'[r] = runs[r]
        /\ runs'[Len(runs) + 1] = row
    BY <1>0, <2>1, <2>2, AppendProperties, LenProperties
  <2>5. RunsOK'
    <3> SUFFICES ASSUME NEW r \in DOMAIN runs'
                 PROVE  /\ runs'[r].status \in ActiveStatus => r = Len(runs')
                        /\ runs'[r].cancel => runs'[r].status \notin {"succeeded", "failed"}
      BY DEF RunsOK
    <3>1. CASE r = Len(runs) + 1 BY <2>3, <2>4, <3>1
    <3>2. CASE r # Len(runs) + 1
      <4>1. r \in DOMAIN runs /\ runs'[r] = runs[r]
        BY <2>4, <3>2, LenProperties, <1>0
      <4>2. runs[r].status \notin ActiveStatus BY <2>2, <4>1 DEF NoActiveRun, Active
      <4> QED BY <1>0, <4>1, <4>2 DEF RunsOK
    <3> QED BY <3>1, <3>2
  <2> QED BY <2>4, <2>5
<1>3. CASE UNCHANGED acquisitionVars BY <1>0, <1>3 DEF acquisitionVars, RunsOK
<1> QED BY <1>0, <1>1, <1>2, <1>3, RowsStep DEF RunsOK


\* What a step that ends a Run, or lets an executor go on, does to the rest: the
\* executor e has the record x, and observed are the Observations.
LEMMA MoveStep ==
    ASSUME AcquisitionInv, RunsKept, RunsOK', UNCHANGED <<observations, remote>>,
           NEW e \in Executor, NEW x \in ExecutionRecord, execution' = [execution EXCEPT ![e] = x],
           losses' \in 0..MaxRunLosses,
           \/ x.at = "idle"
           \/ x.at = "start" /\ x.run \in DOMAIN runs
           \/ /\ x.at = "check" /\ x.run \in DOMAIN runs /\ runs'[x.run].status # "queued"
              /\ \A f \in Executor : execution[f].at \in Started => execution[f].run # x.run
           \/ /\ execution[e].at \in Started /\ x.at \in Started /\ x.run = execution[e].run
              /\ x.at = "complete" /\ x.result = "observed" /\ observations # <<>>
                      => observations[Len(observations)].content # x.content
    PROVE  AcquisitionInv'
<1>1. ExecutionOK' /\ DecisionOK' /\ ObservedRuns' /\ ObservationsAreChanges' BY ExecutionMoves
<1>2. AcquisitionTypeOK'
  BY AcquisitionTyping DEF AcquisitionInv, RunsKept, AcquisitionTypeOK, ExecutionRecord, Started
<1> QED BY <1>1, <1>2 DEF AcquisitionInv

\* A step in which no executor moves.
LEMMA StayStep ==
    ASSUME AcquisitionInv, RunsKept, RunsOK', UNCHANGED <<observations, execution>>,
           remote' \in 0..MaxContent, losses' \in 0..MaxRunLosses
    PROVE  AcquisitionInv'
<1>1. ExecutionOK' /\ DecisionOK' /\ ObservedRuns' /\ ObservationsAreChanges' BY ExecutionForward
<1>2. AcquisitionTypeOK' BY DEF AcquisitionInv, RunsKept, AcquisitionTypeOK
<1> QED BY <1>1, <1>2 DEF AcquisitionInv

\* The commit of an Observation: its Run is the newest, and its owner decided on
\* the latest Observation.
LEMMA ObserveStep ==
    ASSUME AcquisitionInv, RunsKept, RunsOK', NEW e \in Executor, execution[e].at = "complete",
           execution[e].result = "observed", Owned(e),
           observations' = Append(observations, [run |-> execution[e].run, content |-> execution[e].content]),
           runs'[execution[e].run].status = "succeeded",
           Rest(e), UNCHANGED <<remote, losses>>
    PROVE  AcquisitionInv'
<1> DEFINE r == execution[e].run
<1> DEFINE new == [run |-> r, content |-> execution[e].content]
<1>0. /\ r \in DOMAIN runs /\ runs[r].status = "running" /\ r \in 1..MaxRuns
      /\ observations \in Seq([run : 1..MaxRuns, content : 0..MaxContent])
      /\ execution \in [Executor -> ExecutionRecord]
      /\ runs \in Seq(RunRecord) /\ DOMAIN runs = 1..Len(runs) /\ Len(runs) \in Nat
  <2>1. r \in DOMAIN runs BY DEF AcquisitionInv, ExecutionOK
  <2>2. Len(runs) <= MaxRuns /\ runs \in Seq(RunRecord) BY DEF AcquisitionInv, AcquisitionTypeOK
  <2>3. DOMAIN runs = 1..Len(runs) /\ Len(runs) \in Nat BY <2>2, LenProperties
  <2> QED BY <2>1, <2>2, <2>3, AcquisitionTyping, AcquisitionRunsAssumption DEF AcquisitionInv, Owned, RunOf
<1>1. new \in [run : 1..MaxRuns, content : 0..MaxContent] BY <1>0 DEF ExecutionRecord
<1>2. new.run = r /\ new.content = execution[e].content OBVIOUS
<1> HIDE DEF new
<1>3. observations' = Append(observations, new) BY DEF new
<1>4. /\ observations' \in Seq([run : 1..MaxRuns, content : 0..MaxContent])
      /\ Len(observations') = Len(observations) + 1
      /\ \A v \in 1..Len(observations) : observations'[v] = observations[v]
      /\ observations'[Len(observations) + 1] = new
      /\ DOMAIN observations = 1..Len(observations) /\ DOMAIN observations' = 1..Len(observations) + 1
      /\ Len(observations) \in Nat
  BY <1>0, <1>1, <1>3, AppendProperties, LenProperties
<1>5. execution'[e] = Resting /\ \A f \in Executor : f # e => execution'[f] = execution[f]
  BY <1>0 DEF Rest
<1>6. r = Len(runs) BY <1>0 DEF AcquisitionInv, RunsOK, ActiveStatus
<1>7. AcquisitionTypeOK'
  BY <1>0, <1>4, RestingTyping, AcquisitionTyping DEF AcquisitionInv, AcquisitionTypeOK, RunsKept, Rest,
     ExecutionRecord, Started
<1>8. ExecutionOK'
  <2>1. \A f \in Executor : execution'[f].at # "idle" => f # e /\ execution'[f] = execution[f]
    BY <1>5, RestingTyping
  <2>2. \A f \in Executor : execution'[f].at \in Started => execution'[f].at # "idle"
    BY DEF Started
  <2>3. \A f \in Executor : execution[f].at \in Started => execution[f].run \in DOMAIN runs
    BY DEF AcquisitionInv, ExecutionOK, Started
  <2> QED BY SMTT(30), <2>1, <2>2, <2>3 DEF AcquisitionInv, ExecutionOK, RunsKept
<1>9. DecisionOK'
  <2> SUFFICES ASSUME NEW f \in Executor, execution'[f].at = "complete", Owned(f)' PROVE FALSE
    BY DEF DecisionOK
  <2>1. f # e BY <1>5, RestingTyping
  <2>2. execution[f].at = "complete" /\ execution'[f].run = execution[f].run
        /\ execution[f].run \in DOMAIN runs /\ runs[execution[f].run].status # "queued"
    BY <2>1, <1>5 DEF AcquisitionInv, ExecutionOK, Started
  <2>3. runs'[execution[f].run].status = "running" BY <2>2 DEF Owned, RunOf
  <2>4. execution[f].run = Len(runs)
    BY <2>2, <2>3, <1>0 DEF RunsOK, RunsKept, ActiveStatus
  <2> QED BY <2>1, <2>2, <2>4, <1>6 DEF AcquisitionInv, ExecutionOK, Started
<1>10. ObservedRuns' BY <1>0, <1>2, <1>4 DEF AcquisitionInv, ObservedRuns, RunsKept
<1>11. ObservationsAreChanges'
  <2> SUFFICES ASSUME NEW v \in DOMAIN observations'
               PROVE  /\ runs'[observations'[v].run].status = "succeeded"
                      /\ v > 1 => /\ observations'[v - 1].run < observations'[v].run
                                  /\ observations'[v - 1].content # observations'[v].content
    BY DEF ObservationsAreChanges
  <2>1. \A w \in DOMAIN observations : /\ observations[w].run \in DOMAIN runs
                                       /\ runs[observations[w].run].status = "succeeded"
                                       /\ runs'[observations[w].run].status = "succeeded"
    BY DEF AcquisitionInv, ObservedRuns, ObservationsAreChanges, RunsKept, TerminalStatus
  <2>2. CASE v = Len(observations) + 1
    <3>1. v > 1 => v - 1 = Len(observations) /\ Len(observations) \in DOMAIN observations
                   /\ observations # <<>>
      BY <2>2, <1>4
    <3>2. v > 1 => observations[v - 1].run # r /\ observations[v - 1].run \in 1..Len(runs)
      BY <3>1, <2>1, <1>0
    <3>3. v > 1 => observations[v - 1].run < r BY <3>2, <1>6, <1>0
    <3>4. v > 1 => observations[v - 1].content # new.content
      BY <3>1, <1>2 DEF AcquisitionInv, DecisionOK
    <3> QED BY <2>2, <3>1, <3>3, <3>4, <1>2, <1>4
  <2>3. CASE v # Len(observations) + 1
    <3>1. v \in DOMAIN observations /\ observations'[v] = observations[v]
          /\ (v > 1 => v - 1 \in DOMAIN observations /\ observations'[v - 1] = observations[v - 1])
      BY <2>3, <1>4
    <3> QED BY <3>1, <2>1 DEF AcquisitionInv, ObservationsAreChanges
  <2> QED BY <2>2, <2>3
<1> QED BY <1>7, <1>8, <1>9, <1>10, <1>11 DEF AcquisitionInv


\* Every step of AcquisitionRuns preserves the invariant.
LEMMA AcquisitionStep ==
    ASSUME AcquisitionInv, [AcquisitionNext]_acquisitionVars
    PROVE  AcquisitionInv'
<1> USE AcquisitionRunsAssumption
<1>0. /\ RunsOK' /\ execution \in [Executor -> ExecutionRecord] /\ remote \in 0..MaxContent
      /\ losses \in 0..MaxRunLosses /\ Len(runs) <= MaxRuns /\ runs \in Seq(RunRecord)
      /\ AcquisitionTypeOK /\ RunsOK
      /\ \A e \in Executor : execution[e].at # "idle" => execution[e].run \in DOMAIN runs
  BY RunEndsStep, AcquisitionTyping DEF AcquisitionInv, ExecutionOK
<1>k. ASSUME AcquisitionNext, Len(runs') = Len(runs) PROVE RunsKept
  <2> SUFFICES ASSUME NEW k \in Key, RunAppended(k) PROVE FALSE BY <1>k, RowsStep
  <2> DEFINE row == [key |-> k, status |-> "queued", live |-> FALSE, cancel |-> FALSE]
  <2>1. row \in RunRecord BY DEF RunRecord, ActiveStatus
  <2> HIDE DEF row
  <2>2. Len(runs') = Len(runs) + 1 BY <1>0, <2>1, AppendProperties DEF RunAppended, row
  <2> QED BY <1>0, <1>k, <2>2, LenProperties
<1>r. \A e \in Executor : Rest(e) => execution' = [execution EXCEPT ![e] = Resting] BY DEF Rest
<1>p. \A e \in Executor, p \in Started : 
         LET x == [execution[e] EXCEPT !.at = p]
         IN  /\ Proceed(e, p) => execution' = [execution EXCEPT ![e] = x]
             /\ x \in ExecutionRecord /\ x.at = p /\ x.run = execution[e].run
             /\ x.result = execution[e].result /\ x.content = execution[e].content
  BY <1>0, CallTyping DEF Proceed
<1>1. ASSUME NEW e \in Executor, StartAcquisition(e) PROVE AcquisitionInv'
  <2> DEFINE r == execution[e].run
  <2>0. r \in DOMAIN runs /\ UNCHANGED <<observations, remote, losses>> BY <1>0, <1>1 DEF StartAcquisition, Doing
  <2>1. CASE RunOf(e).status = "queued"
    <3> DEFINE x == [execution[e] EXCEPT !.at = "check"]
    <3>1. runs' = [runs EXCEPT ![r].status = "running", ![r].live = TRUE] /\ Proceed(e, "check")
      BY <1>1, <2>1 DEF StartAcquisition
    <3>2. "check" \in Started BY DEF Started
    <3>3. /\ execution' = [execution EXCEPT ![e] = x] /\ x \in ExecutionRecord
          /\ x.at = "check" /\ x.run = r
      BY <1>p, <3>1, <3>2
    <3> HIDE DEF x
    <3>4. Len(runs') = Len(runs) BY <1>0, <2>0, <3>1, LenProperties
    <3>5. RunsKept BY <1>k, <1>1, <3>4 DEF AcquisitionNext, ExecuteRun
    <3>7. \A f \in Executor : execution[f].at \in Started => execution[f].run # r
      BY <2>1 DEF AcquisitionInv, ExecutionOK, RunOf
    <3>8. runs'[r].status # "queued"
      <4>1. runs[r] \in RunRecord BY <1>0, <2>0, ElementOfSeq, LenProperties
      <4> QED BY <4>1, <2>0, <3>1 DEF RunRecord
    <3> QED BY <1>0, <2>0, <3>3, <3>5, <3>7, <3>8, MoveStep
  <2>2. CASE RunOf(e).status # "queued"
    <3>1. UNCHANGED runs /\ Rest(e) BY <1>1, <2>2 DEF StartAcquisition
    <3>2. RunsKept BY <1>0, <3>1, KeptByNothing
    <3> QED BY <1>0, <1>r, <2>0, <3>1, <3>2, RestingTyping, MoveStep
  <2> QED BY <2>1, <2>2
<1>2. ASSUME NEW e \in Executor, CheckCancellation(e) PROVE AcquisitionInv'
  <2>0. /\ execution[e].run \in DOMAIN runs /\ execution[e].at = "check"
        /\ UNCHANGED <<remote, losses>> /\ "cancelled" \in TerminalStatus /\ "capture" \in Started
        /\ execution[e].at \in Started
    BY <1>0, <1>2 DEF CheckCancellation, Doing, TerminalStatus, Started
  <2>1. CASE EndOwned(e, "cancelled", observations) /\ Rest(e)
    <3>1. RunsKept /\ UNCHANGED observations BY <1>0, <2>0, <2>1, EndKeeps DEF EndOwned
    <3> QED BY <1>0, <1>r, <2>0, <2>1, <3>1, RestingTyping, MoveStep
  <2>2. CASE UNCHANGED <<runs, observations>> /\ Proceed(e, "capture")
    <3>1. RunsKept BY <1>0, <2>2, KeptByNothing
    <3> DEFINE x == [execution[e] EXCEPT !.at = "capture"]
    <3>2. /\ execution' = [execution EXCEPT ![e] = x] /\ x \in ExecutionRecord
          /\ x.at = "capture" /\ x.run = execution[e].run
      BY <1>p, <2>0, <2>2
    <3>3. x.at \in Started /\ x.at # "complete" BY <3>2, <2>0
    <3> HIDE DEF x
    <3> QED BY <1>0, <2>0, <2>2, <3>1, <3>2, <3>3, MoveStep
  <2> QED BY <1>2, <2>1, <2>2 DEF CheckCancellation
<1>3. ASSUME NEW e \in Executor, Capture(e) PROVE AcquisitionInv'
  <2>0. /\ execution[e].at \in Started /\ UNCHANGED <<runs, observations, remote, losses>>
        /\ execution[e] \in ExecutionRecord /\ {"decide", "fail"} \subseteq Started
    BY <1>0, <1>3 DEF Capture, Doing, Started
  <2>1. RunsKept BY <1>0, <2>0, KeptByNothing
  <2>2. ASSUME NEW result \in {"captured", "notModified"},
               execution' = [execution EXCEPT ![e].at = "decide", ![e].content = remote, ![e].result = result]
        PROVE  AcquisitionInv'
    <3> DEFINE x == [execution[e] EXCEPT !.at = "decide", !.content = remote, !.result = result]
    <3>1. execution' = [execution EXCEPT ![e] = x] BY <1>0, <2>2
    <3>2. x \in ExecutionRecord /\ x.at = "decide" /\ x.run = execution[e].run
      BY <1>0, <2>0 DEF ExecutionRecord
    <3>3. x.at \in Started /\ x.at # "complete" BY <2>0, <3>2
    <3> HIDE DEF x
    <3> QED BY <1>0, <2>0, <2>1, <3>1, <3>2, <3>3, MoveStep
  <2>3. CASE Proceed(e, "fail")
    <3> DEFINE x == [execution[e] EXCEPT !.at = "fail"]
    <3>1. /\ execution' = [execution EXCEPT ![e] = x] /\ x \in ExecutionRecord
          /\ x.at = "fail" /\ x.run = execution[e].run
      BY <1>p, <2>0, <2>3
    <3>2. x.at \in Started /\ x.at # "complete" BY <2>0, <3>1
    <3> HIDE DEF x
    <3> QED BY <1>0, <2>0, <2>1, <3>1, <3>2, MoveStep
  <2> QED BY <1>3, <2>2, <2>3 DEF Capture
<1>4. ASSUME NEW e \in Executor, Decide(e) PROVE AcquisitionInv'
  <2> DEFINE result == IF Unchanged(e) THEN "notModified" ELSE "observed"
  <2> DEFINE x == [execution[e] EXCEPT !.at = "complete", !.result = result]
  <2>0. /\ execution[e].at \in Started /\ UNCHANGED <<runs, observations, remote, losses>>
        /\ execution[e] \in ExecutionRecord /\ "complete" \in Started
        /\ execution' = [execution EXCEPT ![e].at = "complete", ![e].result = result]
    BY <1>0, <1>4 DEF Decide, Doing, Started
  <2>1. RunsKept BY <1>0, <2>0, KeptByNothing
  <2>2. result \in {"notModified", "observed"}
        /\ (result = "observed" /\ observations # <<>>
              => observations[Len(observations)].content # execution[e].content)
    BY DEF Unchanged
  <2> HIDE DEF result
  <2>3. execution' = [execution EXCEPT ![e] = x] BY <1>0, <2>0
  <2>4. /\ x \in ExecutionRecord /\ x.at = "complete" /\ x.run = execution[e].run
        /\ x.result = result /\ x.content = execution[e].content
    BY <2>0, <2>2 DEF ExecutionRecord, Started
  <2>5. /\ x.at \in Started
        /\ x.at = "complete" /\ x.result = "observed" /\ observations # <<>>
              => observations[Len(observations)].content # x.content
    BY <2>0, <2>2, <2>4
  <2>6. losses' \in 0..MaxRunLosses BY <1>0, <2>0
  <2> HIDE DEF x
  <2> QED BY <1>0, <2>0, <2>1, <2>3, <2>4, <2>5, <2>6, MoveStep
<1>5. ASSUME NEW e \in Executor, Complete(e) PROVE AcquisitionInv'
  <2> DEFINE r == execution[e].run
  <2> DEFINE status == IF Cancelled(r) THEN "cancelled" ELSE "succeeded"
  <2> DEFINE new == Append(observations, [run |-> r, content |-> execution[e].content])
  <2> DEFINE observed == IF execution[e].result = "observed" /\ ~Cancelled(r) THEN new ELSE observations
  <2>0. /\ r \in DOMAIN runs /\ execution[e].at = "complete" /\ Rest(e) /\ UNCHANGED <<remote, losses>>
        /\ EndOwned(e, status, observed)
    BY <1>0, <1>5 DEF Complete, Doing
  <2>1. status \in TerminalStatus /\ (runs[r].cancel => status \notin {"succeeded", "failed"})
    BY DEF TerminalStatus, Cancelled
  <2>2. observed # observations => /\ status = "succeeded" /\ execution[e].result = "observed"
                                   /\ observed = new
    OBVIOUS
  <2> HIDE DEF status, observed, new
  <2>3. /\ RunsKept
        /\ observations' # observations => Owned(e) /\ observations' = observed /\ runs'[r].status = status
    BY <1>0, <2>0, <2>1, EndKeeps
  <2>4. CASE observations' = observations
    BY <1>0, <1>r, <2>0, <2>3, <2>4, RestingTyping, MoveStep
  <2>5. CASE observations' # observations
    BY <1>0, <2>0, <2>2, <2>3, <2>5, ObserveStep DEF new
  <2> QED BY <2>4, <2>5
<1>6. ASSUME NEW e \in Executor, FailAcquisition(e) PROVE AcquisitionInv'
  <2> DEFINE r == execution[e].run
  <2> DEFINE status == IF Cancelled(r) THEN "cancelled" ELSE "failed"
  <2>0. /\ r \in DOMAIN runs /\ Rest(e) /\ UNCHANGED <<remote, losses>>
        /\ EndOwned(e, status, observations)
    BY <1>0, <1>6 DEF FailAcquisition, Doing
  <2>1. status \in TerminalStatus /\ (runs[r].cancel => status \notin {"succeeded", "failed"})
    BY DEF TerminalStatus, Cancelled
  <2> HIDE DEF status
  <2>2. RunsKept /\ UNCHANGED observations BY <1>0, <2>0, <2>1, EndKeeps DEF EndOwned
  <2> QED BY <1>0, <1>r, <2>0, <2>2, RestingTyping, MoveStep
<1>7. ASSUME NEW e \in Executor, CrashExecutor(e) PROVE AcquisitionInv'
  <2>1. UNCHANGED <<runs, observations, remote>> /\ Rest(e) /\ losses' \in 0..MaxRunLosses
    BY <1>0, <1>7 DEF CrashExecutor, LoseRun
  <2>2. RunsKept BY <1>0, <2>1, KeptByNothing
  <2> QED BY <1>0, <1>r, <2>1, <2>2, RestingTyping, MoveStep
<1>8. ASSUME NEW e \in Executor, NEW k \in Key, RequestRun(e, k) PROVE AcquisitionInv'
  <2>0. UNCHANGED <<observations, remote, losses>> /\ execution[e].at = "idle"
    BY <1>8 DEF RequestRun, Doing
  <2>1. ASSUME NEW r \in DOMAIN runs, UNCHANGED runs,
               execution' = [execution EXCEPT ![e] = [Resting EXCEPT !.at = "start", !.run = r]]
        PROVE  AcquisitionInv'
    <3> DEFINE x == [Resting EXCEPT !.at = "start", !.run = r]
    <3>1. r \in 1..MaxRuns BY <1>0, LenProperties
    <3>2. x \in ExecutionRecord /\ x.at = "start" /\ x.run = r BY <3>1, RestingTyping
    <3>3. RunsKept BY <1>0, <2>1, KeptByNothing
    <3>4. execution' = [execution EXCEPT ![e] = x] BY <2>1
    <3> HIDE DEF x
    <3> QED BY <1>0, <2>0, <2>1, <3>2, <3>3, <3>4, MoveStep
  <2>2. ASSUME RunAppended(k), Len(runs) < MaxRuns,
               execution' = [execution EXCEPT ![e] = [Resting EXCEPT !.at = "start", !.run = Len(runs) + 1]]
        PROVE  AcquisitionInv'
    <3> DEFINE x == [Resting EXCEPT !.at = "start", !.run = Len(runs) + 1]
    <3> DEFINE row == [key |-> k, status |-> "queued", live |-> FALSE, cancel |-> FALSE]
    <3>1. row \in RunRecord BY DEF RunRecord, ActiveStatus
    <3>2. row.status = "queued" OBVIOUS
    <3>3. runs' = Append(runs, row) BY <2>2 DEF RunAppended
    <3> HIDE DEF row
    <3>4. /\ runs' \in Seq(RunRecord) /\ Len(runs') = Len(runs) + 1 /\ Len(runs) \in Nat
          /\ DOMAIN runs = 1..Len(runs) /\ DOMAIN runs' = 1..Len(runs) + 1
          /\ \A r \in DOMAIN runs : runs'[r] = runs[r]
      BY <1>0, <3>1, <3>3, AppendProperties, LenProperties
    <3>5. Len(runs) + 1 \in 1..MaxRuns BY <2>2, <3>4
    <3>6. x \in ExecutionRecord /\ x.at = "start" /\ x.run = Len(runs) + 1 BY <3>5, RestingTyping
    <3>7. execution' = [execution EXCEPT ![e] = x] BY <2>2
    <3> HIDE DEF x
    <3>8. execution'[e] = x /\ \A f \in Executor : f # e => execution'[f] = execution[f] BY <1>0, <3>7
    <3>9. \A f \in Executor : execution'[f].at \in Started
             => f # e /\ execution'[f] = execution[f] /\ execution[f].run \in DOMAIN runs
      BY <1>0, <3>6, <3>8 DEF Started
    <3>10. AcquisitionTypeOK'
      <4>1. observations \in Seq([run : 1..MaxRuns, content : 0..MaxContent])
        BY DEF AcquisitionInv, AcquisitionTypeOK
      <4>2. execution' \in [Executor -> ExecutionRecord] BY <1>0, <3>6, <3>7
      <4>3. Len(runs') <= MaxRuns BY <3>4, <3>5
      <4> QED BY <1>0, <2>0, <3>4, <4>1, <4>2, <4>3 DEF AcquisitionTypeOK, ExecutionRecord, Started
    <3>11. ExecutionOK'
      <4>1. \A f \in Executor : execution'[f].at # "idle" => execution'[f].run \in DOMAIN runs'
        BY <1>0, <3>4, <3>5, <3>6, <3>8
      <4> QED BY <4>1, <3>4, <3>9 DEF AcquisitionInv, ExecutionOK
    <3>12. DecisionOK'
      <4> SUFFICES ASSUME NEW f \in Executor, execution'[f].at = "complete",
                          execution'[f].result = "observed", Owned(f)', observations # <<>>
                   PROVE  observations[Len(observations)].content # execution'[f].content
        BY <2>0 DEF DecisionOK
      <4>1. execution'[f] = execution[f] /\ execution[f].run \in DOMAIN runs BY <3>9 DEF Started
      <4>2. Owned(f) BY <4>1, <3>4 DEF Owned, RunOf
      <4> QED BY <4>1, <4>2 DEF AcquisitionInv, DecisionOK
    <3>13. ObservedRuns' /\ ObservationsAreChanges'
      BY <2>0, <3>4 DEF AcquisitionInv, ObservedRuns, ObservationsAreChanges
    <3> QED BY <1>0, <3>10, <3>11, <3>12, <3>13 DEF AcquisitionInv
  <2> QED BY <1>8, <2>1, <2>2 DEF RequestRun, RunAppended
<1>9. ASSUME NEW r \in DOMAIN runs, RequestCancellation(r) \/ OutlastLease(r) \/ LeaseRunsOut(r)
      PROVE  AcquisitionInv'
  <2>1. /\ UNCHANGED <<observations, execution>> /\ remote' = remote
        /\ losses' \in 0..MaxRunLosses
    BY <1>0, <1>9 DEF RequestCancellation, OutlastLease, LeaseRunsOut, LoseRun
  <2>2. Len(runs') = Len(runs)
    BY <1>0, <1>9, LenProperties DEF RequestCancellation, OutlastLease, LeaseRunsOut
  <2>3. RunsKept BY <1>k, <1>9, <2>2 DEF AcquisitionNext
  <2> QED BY <1>0, <2>1, <2>3, StayStep
<1>10. CASE ChangeRemote
  <2>1. UNCHANGED <<runs, observations, execution, losses>> /\ remote' \in 0..MaxContent
    BY <1>0, <1>10 DEF ChangeRemote
  <2>2. RunsKept BY <1>0, <2>1, KeptByNothing
  <2> QED BY <1>0, <2>1, <2>2, StayStep
<1>11. CASE StartApplication
  <2>1. UNCHANGED <<observations, remote, execution, losses>> BY <1>11 DEF StartApplication
  <2>2. DOMAIN runs' = DOMAIN runs BY <1>11 DEF StartApplication
  <2>3. RunsKept
    <3>1. ASSUME NEW k \in Key, RunAppended(k) PROVE FALSE
      <4> DEFINE row == [key |-> k, status |-> "queued", live |-> FALSE, cancel |-> FALSE]
      <4>1. row \in RunRecord BY DEF RunRecord, ActiveStatus
      <4> HIDE DEF row
      <4>2. /\ Len(runs) \in Nat /\ DOMAIN runs = 1..Len(runs) /\ DOMAIN runs' = 1..Len(runs) + 1
        BY <1>0, <3>1, <4>1, AppendProperties, LenProperties DEF RunAppended, row
      <4> QED BY <2>2, <4>2
    <3> QED BY <1>11, <3>1, RowsStep DEF AcquisitionNext
  <2> QED BY <1>0, <2>1, <2>3, StayStep
<1>12. CASE UNCHANGED acquisitionVars
  <2>1. UNCHANGED <<runs, observations, remote, execution, losses>> BY <1>12 DEF acquisitionVars
  <2>2. RunsKept BY <1>0, <2>1, KeptByNothing
  <2> QED BY <1>0, <2>1, <2>2, StayStep
<1> QED
  BY <1>1, <1>2, <1>3, <1>4, <1>5, <1>6, <1>7, <1>8, <1>9, <1>10, <1>11, <1>12
     DEF AcquisitionNext, ExecuteRun

\* The invariant holds without a Run.
LEMMA AcquisitionStart == AcquisitionInit => AcquisitionInv
<1> SUFFICES ASSUME AcquisitionInit PROVE AcquisitionInv OBVIOUS
<1>1. runs = <<>> /\ observations = <<>> /\ Len(<<>>) = 0 /\ DOMAIN runs = {} /\ DOMAIN observations = {}
  BY DEF AcquisitionInit
<1>2. AcquisitionTypeOK
  <2>1. execution \in [Executor -> ExecutionRecord] BY RestingTyping DEF AcquisitionInit
  <2>2. runs \in Seq(RunRecord) /\ observations \in Seq([run : 1..MaxRuns, content : 0..MaxContent])
        /\ Len(runs) = 0
    BY <1>1
  <2>3. remote = 0 /\ losses = 0 BY DEF AcquisitionInit
  <2> QED BY <2>1, <2>2, <2>3, AcquisitionTyping, AcquisitionRunsAssumption
<1>3. \A e \in Executor : execution[e].at = "idle" BY RestingTyping DEF AcquisitionInit
<1> QED
  BY <1>1, <1>2, <1>3 DEF AcquisitionInv, RunsOK, ExecutionOK, DecisionOK, ObservedRuns,
     ObservationsAreChanges, Started

\* The inductive invariant, and with it the types of AcquisitionRuns.
THEOREM AcquisitionInvariant == AcquisitionSpec => []AcquisitionInv
<1>1. AcquisitionInv /\ [AcquisitionNext]_acquisitionVars => AcquisitionInv' BY AcquisitionStep
<1> QED BY AcquisitionStart, <1>1, PTL DEF AcquisitionSpec

\* Observations are stored in the order of their Runs, each from a Run of its own
\* that succeeded, and none repeats the one before it, although the decision is made
\* on a read without a lock: whoever commits owns the only active Run.
THEOREM ObservationsAreTheChanges == AcquisitionSpec => []ObservationsAreChanges
<1>1. AcquisitionInv => ObservationsAreChanges BY DEF AcquisitionInv
<1> QED BY <1>1, AcquisitionInvariant, PTL

\* A terminal Run never changes, also when a worker comes back after its lease was
\* given up, and a Run that was asked to stop neither succeeds nor fails.
THEOREM RunsEndAsDecided == AcquisitionSpec => RunEndsAsDecided
<1>1. AcquisitionInv /\ [AcquisitionNext]_acquisitionVars
        => [\A r \in DOMAIN runs :
              /\ runs[r].status \in TerminalStatus => runs'[r] = runs[r]
              /\ runs[r].cancel => runs'[r].status \notin {"succeeded", "failed"}]_acquisitionVars
  BY RunEndsStep
<1> QED BY <1>1, AcquisitionInvariant, PTL DEF AcquisitionSpec, RunEndsAsDecided

------------------------------------------------------------------------------
(* SourceLifecycle *)

\* Steps of a request to read the Source's data.
Asked == {"request", "reading", "store"}

\* Every new Mapping and every new binding is a new version of the Source.
CountersOK == Len(mappings) < source.version /\ settings.binding <= source.version

\* A user who sees the version of the Source sees its latest Mapping.
ShownOK ==
    \A u \in User : /\ shown[u].version <= source.version
                    /\ shown[u].version = source.version => shown[u].mapping = Len(mappings)

\* What a request has read before it waits for the Source row.
ReadingOK ==
    \A u \in User :
        /\ doing[u].at = "sheet" => /\ kind = "sheet" /\ doing[u].number <= Len(evidence)
                                    /\ doing[u].number < MaxEvidence
        /\ doing[u].at \in Asked => doing[u].number \in 1..MaxVersion

\* What a request has read that holds the Source row is still so.
CommitOK ==
    \A u \in User : doing[u].at = "commit" =>
        /\ sourceLock = u /\ source.status = "active"
        /\ mappings # <<>> /\ doing[u].mapping = Len(mappings)
        /\ doing[u].number \in DOMAIN evidence
        /\ kind = "sheet" \/ evidence[doing[u].number].binding = settings.binding
        /\ doing[u].product \in CanonicalProduct /\ identity \in {NoProduct, doing[u].product}

\* All Workspaces have the Product the Source's key is bound to.
WorkspacesOK == \A w \in workspaces : w.product = identity

\* The inductive invariant.
LifecycleInv ==
    /\ LifecycleTypeOK /\ CountersOK /\ ShownOK /\ ReadingOK /\ CommitOK
    /\ RetiredIsQuiet /\ RevisionsAreAChain /\ WorkspacesOK

RequestRecord == [at : {"ready", "sheet", "settings", "commit"} \cup Asked,
                  number : 0..MaxVersion + MaxEvidence + MaxRemaps, mapping : 0..MaxVersion,
                  product : CanonicalProduct \cup {NoProduct}]

SourceRecord == [status : Status, version : 1..MaxVersion]
SettingsRecord == [binding : 1..MaxVersion, enabled : BOOLEAN]

\* The types of SourceLifecycle with these records.
LEMMA LifecycleTyping ==
    LifecycleTypeOK <=>
        /\ kind \in {"sheet", "external"}
        /\ source \in SourceRecord
        /\ settings \in SettingsRecord
        /\ mappings \in Seq(0..MaxVersion) /\ Len(mappings) < MaxVersion
        /\ evidence \in Seq(Evidence) /\ Len(evidence) <= MaxEvidence
        /\ activeRead \in User \cup {NoUser} /\ sourceLock \in User \cup {NoUser}
        /\ listing \in [product : CanonicalProduct, remaps : 0..MaxRemaps]
        /\ identity \in CanonicalProduct \cup {NoProduct}
        /\ workspaces \subseteq Workspace
        /\ shown \in [User -> [version : 1..MaxVersion, mapping : 0..MaxVersion, revision : 0..MaxEvidence]]
        /\ doing \in [User -> RequestRecord]
BY DEF LifecycleTypeOK, SourceRecord, SettingsRecord, RequestRecord, Asked

\* Records of requests that go on.
LEMMA RequestTyping ==
    /\ Ready \in RequestRecord /\ Ready.at = "ready"
    /\ \A x \in RequestRecord :
          /\ x.number \in Nat /\ x.mapping \in 0..MaxVersion
          /\ \A p \in {"ready", "sheet", "settings", "commit"} \cup Asked :
                /\ [x EXCEPT !.at = p] \in RequestRecord
                /\ [x EXCEPT !.at = p].at = p /\ [x EXCEPT !.at = p].number = x.number
    /\ \A n \in 0..MaxVersion + MaxEvidence + MaxRemaps, p \in {"sheet", "request"} :
          /\ [Ready EXCEPT !.at = p, !.number = n] \in RequestRecord
          /\ [Ready EXCEPT !.at = p, !.number = n].at = p /\ [Ready EXCEPT !.at = p, !.number = n].number = n
    /\ [Ready EXCEPT !.at = "settings"] \in RequestRecord /\ [Ready EXCEPT !.at = "settings"].at = "settings"
<1> USE SourceLifecycleAssumption
<1>1. Ready \in RequestRecord /\ Ready.at = "ready" BY DEF Ready, RequestRecord
<1>2. ASSUME NEW x \in RequestRecord
      PROVE  /\ x.number \in Nat /\ x.mapping \in 0..MaxVersion
             /\ \A p \in {"ready", "sheet", "settings", "commit"} \cup Asked :
                   /\ [x EXCEPT !.at = p] \in RequestRecord
                   /\ [x EXCEPT !.at = p].at = p /\ [x EXCEPT !.at = p].number = x.number
  BY DEF RequestRecord
<1>3. ASSUME NEW n \in 0..MaxVersion + MaxEvidence + MaxRemaps, NEW p \in {"sheet", "request"}
      PROVE  /\ [Ready EXCEPT !.at = p, !.number = n] \in RequestRecord
             /\ [Ready EXCEPT !.at = p, !.number = n].at = p /\ [Ready EXCEPT !.at = p, !.number = n].number = n
  <2> DEFINE x == [Ready EXCEPT !.at = p]
  <2>1. p \in {"ready", "sheet", "settings", "commit"} \cup Asked BY DEF Asked
  <2>2. x \in RequestRecord /\ x.at = p BY <1>1, <1>2, <2>1
  <2>3. [Ready EXCEPT !.at = p, !.number = n] = [x EXCEPT !.number = n] OBVIOUS
  <2> HIDE DEF x
  <2>4. /\ [x EXCEPT !.number = n] \in RequestRecord
        /\ [x EXCEPT !.number = n].at = p /\ [x EXCEPT !.number = n].number = n
    BY <2>2 DEF RequestRecord
  <2> QED BY <2>3, <2>4
<1>4. [Ready EXCEPT !.at = "settings"] \in RequestRecord /\ [Ready EXCEPT !.at = "settings"].at = "settings"
  BY <1>1 DEF RequestRecord
<1> QED BY <1>1, <1>2, <1>3, <1>4

\* The next version of the Source.
LEMMA SourceTyping ==
    \A s \in SourceRecord :
        /\ s.version \in 1..MaxVersion /\ s.status \in Status
        /\ s.version < MaxVersion =>
              /\ [s EXCEPT !.version = @ + 1] \in SourceRecord
              /\ [s EXCEPT !.version = @ + 1].version = s.version + 1
              /\ [s EXCEPT !.version = @ + 1].status = s.status
              /\ \A t \in Status : [status |-> t, version |-> s.version + 1] \in SourceRecord
BY SourceLifecycleAssumption DEF SourceRecord

\* The row is held by the one request that is going to commit.
LEMMA NobodyCommits ==
    ASSUME LifecycleInv, SourceFree, NEW u \in User
    PROVE  doing[u].at # "commit"
BY SourceLifecycleAssumption DEF LifecycleInv, CommitOK, SourceFree

\* What is said of the Source's data alone.
LEMMA DataFrame ==
    ASSUME LifecycleInv, UNCHANGED <<source, settings, mappings, evidence, workspaces, identity>>
    PROVE  CountersOK' /\ RevisionsAreAChain' /\ WorkspacesOK'
BY DEF LifecycleInv, CountersOK, RevisionsAreAChain, WorkspacesOK

\* One request goes on, to a step in which it does not hold the row.
LEMMA RequestMoves ==
    ASSUME LifecycleInv, NEW u \in User, NEW x \in RequestRecord, doing' = [doing EXCEPT ![u] = x],
           x.at # "commit",
           x.at = "sheet" => kind = "sheet" /\ x.number <= Len(evidence) /\ x.number < MaxEvidence,
           x.at \in Asked => x.number \in 1..MaxVersion,
           UNCHANGED <<kind, source, settings, mappings, evidence, identity>>,
           sourceLock' = sourceLock \/ sourceLock = u
    PROVE  ReadingOK' /\ CommitOK'
<1>1. doing'[u] = x /\ \A v \in User : v # u => doing'[v] = doing[v]
  BY DEF LifecycleInv, LifecycleTypeOK
<1>2. ReadingOK' BY <1>1 DEF LifecycleInv, ReadingOK
<1>3. CommitOK' BY <1>1 DEF LifecycleInv, CommitOK
<1> QED BY <1>2, <1>3

\* A step of one request that changes nothing of the Source.
LEMMA QuietStep ==
    ASSUME LifecycleInv, NEW u \in User, NEW x \in RequestRecord, doing' = [doing EXCEPT ![u] = x],
           x.at # "commit",
           x.at = "sheet" => kind = "sheet" /\ x.number <= Len(evidence) /\ x.number < MaxEvidence,
           x.at \in Asked => x.number \in 1..MaxVersion,
           UNCHANGED <<kind, source, settings, mappings, evidence, listing, identity, workspaces, shown>>,
           sourceLock' = sourceLock \/ (sourceLock = u /\ sourceLock' = NoUser),
           activeRead' \in {activeRead, NoUser} \/ (activeRead' = u /\ IsActive)
    PROVE  LifecycleInv'
<1>1. ReadingOK' /\ CommitOK' BY RequestMoves
<1>2. CountersOK' /\ RevisionsAreAChain' /\ WorkspacesOK' BY DataFrame
<1>3. ShownOK' BY DEF LifecycleInv, ShownOK
<1>4. RetiredIsQuiet' BY DEF LifecycleInv, RetiredIsQuiet, IsActive
<1>5. LifecycleTypeOK'
  <2>1. doing' \in [User -> RequestRecord] BY LifecycleTyping DEF LifecycleInv
  <2>2. activeRead' \in User \cup {NoUser} /\ sourceLock' \in User \cup {NoUser}
    BY DEF LifecycleInv, LifecycleTypeOK
  <2> QED BY <2>1, <2>2 DEF LifecycleInv, LifecycleTypeOK, RequestRecord, Asked
<1> QED BY <1>1, <1>2, <1>3, <1>4, <1>5 DEF LifecycleInv

\* Every step of SourceLifecycle preserves the invariant.
LEMMA LifecycleStep ==
    ASSUME LifecycleInv, [LifecycleNext]_lifecycleVars
    PROVE  LifecycleInv'
<1> USE SourceLifecycleAssumption
<1>t. /\ kind \in {"sheet", "external"}
      /\ source \in SourceRecord
      /\ settings \in SettingsRecord
      /\ mappings \in Seq(0..MaxVersion) /\ Len(mappings) < MaxVersion /\ Len(mappings) \in Nat
      /\ evidence \in Seq(Evidence) /\ Len(evidence) <= MaxEvidence /\ Len(evidence) \in Nat
      /\ DOMAIN mappings = 1..Len(mappings) /\ DOMAIN evidence = 1..Len(evidence)
      /\ activeRead \in User \cup {NoUser} /\ sourceLock \in User \cup {NoUser}
      /\ listing \in [product : CanonicalProduct, remaps : 0..MaxRemaps]
      /\ identity \in CanonicalProduct \cup {NoProduct}
      /\ workspaces \subseteq Workspace
      /\ shown \in [User -> [version : 1..MaxVersion, mapping : 0..MaxVersion, revision : 0..MaxEvidence]]
      /\ doing \in [User -> RequestRecord]
  BY LifecycleTyping, LenProperties DEF LifecycleInv
<1>e. doing \in [User -> RequestRecord] BY <1>t
<1>l. /\ Len(mappings) \in Nat /\ Len(evidence) \in Nat
      /\ DOMAIN mappings = 1..Len(mappings) /\ DOMAIN evidence = 1..Len(evidence)
  BY <1>t
<1>v. source \in SourceRecord /\ source.version \in Nat /\ source.version \in 1..MaxVersion
      /\ settings.binding \in 1..MaxVersion
  BY <1>t DEF SourceRecord, SettingsRecord
<1>d. \A u \in User : Done(u) => doing' = [doing EXCEPT ![u] = Ready] BY DEF Done, Go
<1>f. SourceFree => \A u \in User : doing[u].at # "commit" BY NobodyCommits
<1>x. ASSUME NEW u \in User, doing[u].at # "commit", Done(u), NEW new \in Evidence, Len(evidence) < MaxEvidence,
             new.version = Len(evidence) + 1, new.from = Len(evidence),
             evidence' = Append(evidence, new),
             UNCHANGED <<kind, source, settings, mappings, activeRead, listing, identity, workspaces,
                         sourceLock, shown>>
      PROVE  LifecycleInv'
  <2>1. /\ evidence' \in Seq(Evidence) /\ Len(evidence') = Len(evidence) + 1
        /\ DOMAIN evidence' = 1..Len(evidence) + 1
        /\ \A n \in 1..Len(evidence) : evidence'[n] = evidence[n]
        /\ evidence'[Len(evidence) + 1] = new
    BY <1>t, <1>x, AppendProperties, LenProperties
  <2>2. /\ doing'[u] = Ready /\ Ready.at = "ready" /\ Ready \in RequestRecord
        /\ \A v \in User : v # u => doing'[v] = doing[v]
    <3>1. Ready.at = "ready" /\ Ready \in RequestRecord BY RequestTyping
    <3> QED BY <1>e, <1>d, <1>x, <3>1
  <2>3. LifecycleTypeOK'
    <3>1. doing' \in [User -> RequestRecord] BY <1>t, <1>d, <1>x, <2>2
    <3>2. Len(evidence') <= MaxEvidence BY <1>t, <1>x, <2>1
    <3> QED BY <1>t, <1>x, <2>1, <3>1, <3>2 DEF LifecycleTypeOK, SourceRecord, SettingsRecord, RequestRecord, Asked
  <2>4. CountersOK' /\ ShownOK' /\ RetiredIsQuiet' /\ WorkspacesOK'
    BY <1>x DEF LifecycleInv, CountersOK, ShownOK, RetiredIsQuiet, IsActive, WorkspacesOK
  <2>5. ReadingOK'
    <3>1. \A v \in User : v # u => doing[v].number \in Nat BY <1>e, RequestTyping
    <3>2. ReadingOK BY DEF LifecycleInv
    <3>3. kind' = kind /\ Len(evidence) \in Nat /\ "ready" \notin Asked BY <1>x, <1>l DEF Asked
    <3> QED BY <2>1, <2>2, <3>1, <3>2, <3>3 DEF ReadingOK
  <2>6. CommitOK'
    <3> SUFFICES ASSUME NEW v \in User, doing'[v].at = "commit", v # u, doing'[v] = doing[v]
                 PROVE  /\ sourceLock = v /\ source.status = "active"
                        /\ mappings # <<>> /\ doing[v].mapping = Len(mappings)
                        /\ doing[v].number \in DOMAIN evidence'
                        /\ kind = "sheet" \/ evidence'[doing[v].number].binding = settings.binding
                        /\ doing[v].product \in CanonicalProduct /\ identity \in {NoProduct, doing[v].product}
      BY <1>x, <2>2 DEF CommitOK
    <3>1. doing[v].number \in 1..Len(evidence) BY <1>l DEF LifecycleInv, CommitOK
    <3> QED BY <1>l, <2>1, <3>1 DEF LifecycleInv, CommitOK
  <2>7. RevisionsAreAChain'
    <3> SUFFICES ASSUME NEW n \in DOMAIN evidence' PROVE evidence'[n].version = n /\ evidence'[n].from = n - 1
      BY <1>x DEF LifecycleInv, RevisionsAreAChain
    <3>1. CASE n = Len(evidence) + 1 BY <1>t, <1>x, <2>1, <3>1
    <3>2. CASE n # Len(evidence) + 1
      <4>1. n \in DOMAIN evidence /\ evidence'[n] = evidence[n] BY SMTT(30), <1>t, <2>1, <3>2
      <4> QED BY <4>1 DEF LifecycleInv, RevisionsAreAChain
    <3> QED BY <3>1, <3>2
  <2> QED BY <2>3, <2>4, <2>5, <2>6, <2>7 DEF LifecycleInv
<1>q. ASSUME NEW u \in User, Done(u),
             UNCHANGED <<kind, source, settings, mappings, evidence, listing, identity, workspaces, shown>>,
             sourceLock' = sourceLock \/ (sourceLock = u /\ sourceLock' = NoUser),
             activeRead' \in {activeRead, NoUser}
      PROVE  LifecycleInv'
  <2>1. Ready \in RequestRecord /\ Ready.at = "ready" /\ Ready.at \notin Asked BY RequestTyping DEF Asked
  <2> QED BY <1>d, <1>q, <2>1, QuietStep
<1>1. ASSUME NEW u \in User, ShowSource(u) PROVE LifecycleInv'
  <2> USE DEF ShowSource
  <2>0. shown' \in [User -> [version : 1..MaxVersion, mapping : 0..MaxVersion, revision : 0..MaxEvidence]]
    <3>1. source.version \in 1..MaxVersion /\ Len(mappings) \in 0..MaxVersion /\ Len(evidence) \in 0..MaxEvidence
      BY <1>t, <1>v
    <3> QED BY <1>1, <1>t, <3>1
  <2>1. LifecycleTypeOK'
    BY <1>1, <1>t, <2>0 DEF LifecycleTypeOK, SourceRecord, SettingsRecord, RequestRecord, Asked,
       dataVars, identityVars
  <2>2. CountersOK' /\ RevisionsAreAChain' /\ WorkspacesOK' BY <1>1, DataFrame DEF dataVars, identityVars
  <2>3. ShownOK' BY SMTT(30), <1>1, <1>t DEF LifecycleInv, ShownOK, SourceRecord, dataVars
  <2>4. ReadingOK' /\ CommitOK' /\ RetiredIsQuiet'
    BY <1>1 DEF LifecycleInv, ReadingOK, CommitOK, RetiredIsQuiet, IsActive, dataVars, identityVars
  <2> QED BY <2>1, <2>2, <2>3, <2>4 DEF LifecycleInv
<1>2. ASSUME NEW u \in User, SaveMapping(u) PROVE LifecycleInv'
  <2>0. /\ SourceFree /\ source.status = "active" /\ shown[u].version = source.version
        /\ source.version < MaxVersion /\ source' = [source EXCEPT !.version = @ + 1]
        /\ mappings' = Append(mappings, shown[u].mapping)
        /\ UNCHANGED <<kind, settings, evidence, activeRead, listing, identity, workspaces, sourceLock, shown, doing>>
    BY <1>2 DEF SaveMapping, IsActive, AsShown, NewVersion, identityVars
  <2>1. /\ source' \in SourceRecord /\ source'.version = source.version + 1 /\ source'.status = "active"
        /\ source.version \in Nat
    BY <1>t, <2>0, SourceTyping
  <2>2. shown[u].mapping = Len(mappings) /\ shown[u].mapping \in 0..MaxVersion BY <1>t, <2>0 DEF LifecycleInv, ShownOK
  <2>3. /\ mappings' \in Seq(0..MaxVersion) /\ Len(mappings') = Len(mappings) + 1
        /\ DOMAIN mappings' = 1..Len(mappings) + 1
        /\ \A n \in 1..Len(mappings) : mappings'[n] = mappings[n]
        /\ mappings'[Len(mappings) + 1] = Len(mappings)
    BY <1>t, <2>0, <2>2, AppendProperties, LenProperties
  <2>4. Len(mappings) < source.version /\ settings.binding <= source.version /\ settings.binding \in Nat
    BY SMTT(30), <1>t DEF LifecycleInv, CountersOK, SettingsRecord
  <2>5. LifecycleTypeOK'
    <3>1. Len(mappings') < MaxVersion BY <1>t, <2>0, <2>1, <2>3, <2>4
    <3> QED BY <1>t, <2>0, <2>1, <2>3, <3>1 DEF LifecycleTypeOK, SourceRecord, SettingsRecord, RequestRecord, Asked
  <2>6. CountersOK' BY SMTT(30), <1>t, <2>0, <2>1, <2>3, <2>4 DEF CountersOK
  <2>7. ShownOK'
    <3>1. \A v \in User : shown[v].version <= source.version /\ shown[v].version \in Nat
      BY <1>t DEF LifecycleInv, ShownOK
    <3> QED BY <2>0, <2>1, <3>1 DEF ShownOK
  <2>8. ReadingOK' /\ CommitOK' BY <1>f, <2>0 DEF LifecycleInv, ReadingOK, CommitOK
  <2>9. RetiredIsQuiet' BY <2>1 DEF RetiredIsQuiet, IsActive
  <2>10. RevisionsAreAChain'
    <3>0. \A n \in 1..Len(mappings) : mappings[n] = n - 1
      BY <1>t DEF LifecycleInv, RevisionsAreAChain
    <3>1. \A n \in DOMAIN mappings' : mappings'[n] = n - 1
      <4> TAKE n \in DOMAIN mappings'
      <4>1. CASE n = Len(mappings) + 1 BY <1>l, <2>3, <4>1
      <4>2. CASE n # Len(mappings) + 1 BY <1>l, <2>3, <3>0, <4>2
      <4> QED BY <4>1, <4>2
    <3> QED BY <2>0, <3>1 DEF LifecycleInv, RevisionsAreAChain
  <2>11. WorkspacesOK' BY <2>0 DEF LifecycleInv, WorkspacesOK
  <2> QED BY <2>5, <2>6, <2>7, <2>8, <2>9, <2>10, <2>11 DEF LifecycleInv
<1>3. ASSUME NEW u \in User, LoadSheet(u) PROVE LifecycleInv'
  <2> DEFINE x == [Ready EXCEPT !.at = "sheet", !.number = Len(evidence)]
  <2>1. /\ doing' = [doing EXCEPT ![u] = x] /\ kind = "sheet" /\ Len(evidence) < MaxEvidence
        /\ UNCHANGED <<kind, source, settings, mappings, evidence, listing, identity, workspaces, shown>>
        /\ sourceLock' = sourceLock /\ activeRead' = activeRead
    BY <1>3 DEF LoadSheet, Go, dataVars, identityVars
  <2>2. Len(evidence) \in 0..MaxVersion + MaxEvidence + MaxRemaps BY <1>t, <2>1
  <2>3. x \in RequestRecord /\ x.at = "sheet" /\ x.number = Len(evidence) BY <2>2, RequestTyping
  <2>4. x.at \notin Asked BY <2>3 DEF Asked
  <2>5. x.at # "commit" /\ x.number <= Len(evidence) /\ x.number < MaxEvidence BY <1>t, <2>1, <2>3
  <2> HIDE DEF x
  <2> QED BY <2>1, <2>3, <2>4, <2>5, QuietStep
<1>4. ASSUME NEW u \in User, SaveSheetRevision(u) PROVE LifecycleInv'
  <2> DEFINE new == [version |-> doing[u].number + 1, from |-> doing[u].number, binding |-> 1]
  <2>0. /\ SourceFree /\ Done(u) /\ doing[u].at = "sheet"
        /\ UNCHANGED <<kind, source, settings, mappings, activeRead, listing, identity, workspaces, sourceLock, shown>>
    BY <1>4 DEF SaveSheetRevision, IsAt, identityVars
  <2>1. CASE IsActive /\ UnusedRevision(doing[u].number + 1)
    <3>1. /\ kind = "sheet" /\ doing[u].number <= Len(evidence) /\ doing[u].number < MaxEvidence
          /\ doing[u].number \in Nat
      BY <1>t, <2>0 DEF LifecycleInv, ReadingOK, RequestRecord
    <3>2. doing[u].number = Len(evidence)
      <4> SUFFICES ASSUME doing[u].number < Len(evidence) PROVE FALSE BY <1>t, <3>1
      <4>1. doing[u].number + 1 \in DOMAIN evidence BY SMTT(30), <1>t, <3>1
      <4>2. evidence[doing[u].number + 1].version = doing[u].number + 1
        BY <4>1 DEF LifecycleInv, RevisionsAreAChain
      <4> QED BY <2>1, <4>1, <4>2 DEF UnusedRevision
    <3>3. new \in Evidence /\ new.version = Len(evidence) + 1 /\ new.from = Len(evidence)
      BY <1>t, <3>1, <3>2 DEF Evidence
    <3>4. evidence' = Append(evidence, new) BY <1>4, <2>1 DEF SaveSheetRevision
    <3>5. Len(evidence) < MaxEvidence BY <3>1, <3>2
    <3> HIDE DEF new
    <3> QED BY <1>x, <2>0, <3>3, <3>4, <3>5
  <2>2. CASE ~(IsActive /\ UnusedRevision(doing[u].number + 1))
    <3>1. UNCHANGED evidence BY <1>4, <2>2 DEF SaveSheetRevision
    <3> QED BY <1>q, <2>0, <3>1
  <2> QED BY <2>1, <2>2
<1>5. ASSUME NEW u \in User, OpenSettings(u) PROVE LifecycleInv'
  <2> DEFINE x == [Ready EXCEPT !.at = "settings"]
  <2>1. /\ doing' = [doing EXCEPT ![u] = x]
        /\ UNCHANGED <<kind, source, settings, mappings, evidence, listing, identity, workspaces, shown>>
        /\ sourceLock' = sourceLock /\ activeRead' = activeRead
    BY <1>5 DEF OpenSettings, Go, dataVars, identityVars
  <2>2. x \in RequestRecord /\ x.at = "settings" BY RequestTyping
  <2>3. x.at \notin Asked BY <2>2 DEF Asked
  <2> HIDE DEF x
  <2> QED BY <2>1, <2>2, <2>3, QuietStep
<1>6. ASSUME NEW u \in User, SaveSettings(u) PROVE LifecycleInv'
  <2>0. /\ SourceFree /\ Done(u)
        /\ UNCHANGED <<kind, mappings, evidence, activeRead, listing, identity, workspaces, sourceLock, shown>>
    BY <1>6 DEF SaveSettings, dataVars, identityVars
  <2>1. CASE source.status = "deleted"
    <3>1. UNCHANGED <<source, settings>> BY <1>6, <2>1 DEF SaveSettings
    <3> QED BY <1>q, <2>0, <3>1
  <2>2. CASE source.status # "deleted"
    <3>1. /\ source.version < MaxVersion /\ source' = [source EXCEPT !.version = @ + 1]
          /\ settings' = [binding |-> settings.binding + 1, enabled |-> TRUE]
      BY <1>6, <2>2 DEF SaveSettings, NewVersion
    <3>2. source' \in SourceRecord /\ source'.version = source.version + 1 /\ source'.status = source.status
      BY <1>v, <3>1, SourceTyping
    <3>3. Len(mappings) < source.version /\ settings.binding <= source.version
      BY DEF LifecycleInv, CountersOK
    <3>4. settings' \in SettingsRecord /\ settings'.binding = settings.binding + 1
      BY <1>v, <3>1, <3>3 DEF SettingsRecord
    <3>5. /\ doing'[u] = Ready /\ Ready.at = "ready" /\ Ready \in RequestRecord
          /\ \A v \in User : v # u => doing'[v] = doing[v]
      <4>1. Ready.at = "ready" /\ Ready \in RequestRecord BY RequestTyping
      <4> QED BY <1>e, <1>d, <2>0, <4>1
    <3>6. LifecycleTypeOK'
      <4>1. doing' \in [User -> RequestRecord] BY <1>e, <1>d, <2>0, <3>5
      <4> QED BY <1>t, <2>0, <3>2, <3>4, <4>1 DEF LifecycleTypeOK, SourceRecord, SettingsRecord, RequestRecord, Asked
    <3>7. CountersOK' BY <1>v, <1>l, <2>0, <3>2, <3>3, <3>4 DEF CountersOK
    <3>8. ShownOK'
      <4>1. \A v \in User : shown[v].version <= source.version /\ shown[v].version \in Nat
        BY <1>t DEF LifecycleInv, ShownOK
      <4> QED BY <1>v, <2>0, <3>2, <4>1 DEF ShownOK
    <3>9. ReadingOK' /\ CommitOK'
      <4>1. "ready" \notin Asked BY DEF Asked
      <4> QED BY <1>f, <2>0, <3>5, <4>1 DEF LifecycleInv, ReadingOK, CommitOK
    <3>10. RetiredIsQuiet' /\ RevisionsAreAChain' /\ WorkspacesOK'
      BY <2>0, <3>2 DEF LifecycleInv, RetiredIsQuiet, IsActive, RevisionsAreAChain, WorkspacesOK
    <3> QED BY <3>6, <3>7, <3>8, <3>9, <3>10 DEF LifecycleInv
  <2> QED BY <2>1, <2>2
<1>7. ASSUME NEW u \in User, ReadSettings(u) PROVE LifecycleInv'
  <2> DEFINE x == [Ready EXCEPT !.at = "request", !.number = settings.binding]
  <2>1. /\ doing' = [doing EXCEPT ![u] = x]
        /\ UNCHANGED <<kind, source, settings, mappings, evidence, listing, identity, workspaces, shown>>
        /\ sourceLock' = sourceLock /\ activeRead' = activeRead
    BY <1>7 DEF ReadSettings, Go, dataVars, identityVars
  <2>2. settings.binding \in 1..MaxVersion BY <1>t DEF SettingsRecord
  <2>3. settings.binding \in 0..MaxVersion + MaxEvidence + MaxRemaps BY <2>2
  <2>4. x \in RequestRecord /\ x.at = "request" /\ x.number = settings.binding BY <2>3, RequestTyping
  <2> HIDE DEF x
  <2> QED BY <2>1, <2>2, <2>4, QuietStep
<1>8. ASSUME NEW u \in User, NEW p \in {"reading", "store"}, doing[u].at \in Asked,
             doing' = [doing EXCEPT ![u].at = p],
             UNCHANGED <<kind, source, settings, mappings, evidence, listing, identity, workspaces, shown>>,
             sourceLock' = sourceLock,
             activeRead' \in {activeRead, NoUser} \/ (activeRead' = u /\ IsActive)
      PROVE  LifecycleInv'
  <2> DEFINE x == [doing[u] EXCEPT !.at = p]
  <2>1. p \in Asked /\ p \notin {"commit", "sheet"} BY DEF Asked
  <2>2. x \in RequestRecord /\ x.at = p /\ x.number = doing[u].number
    <3>1. doing[u] \in RequestRecord BY <1>t
    <3> QED BY <2>1, <3>1 DEF RequestRecord
  <2>3. doing' = [doing EXCEPT ![u] = x] BY <1>t, <1>8
  <2>4. doing[u].number \in 1..MaxVersion BY <1>8 DEF LifecycleInv, ReadingOK
  <2> HIDE DEF x
  <2> QED BY <1>8, <2>1, <2>2, <2>3, <2>4, QuietStep
<1>10. ASSUME NEW u \in User, RequestRead(u) PROVE LifecycleInv'
  <2>1. /\ UNCHANGED <<kind, source, settings, mappings, evidence, listing, identity, workspaces, shown>>
        /\ sourceLock' = sourceLock /\ doing[u].at \in Asked
        /\ \/ IsActive /\ activeRead' = u /\ doing' = [doing EXCEPT ![u].at = "reading"]
           \/ activeRead' = activeRead /\ Done(u)
    BY <1>10 DEF RequestRead, IsAt, Asked, dataVars, identityVars
  <2> QED BY <1>8, <1>q, <2>1
<1>11. ASSUME NEW u \in User, EndRead(u) PROVE LifecycleInv'
  <2>1. /\ UNCHANGED <<kind, source, settings, mappings, evidence, listing, identity, workspaces, shown>>
        /\ sourceLock' = sourceLock /\ doing[u].at \in Asked /\ activeRead' = NoUser
        /\ Done(u) \/ doing' = [doing EXCEPT ![u].at = "store"]
    BY <1>11 DEF EndRead, IsAt, Asked, dataVars, identityVars
  <2> QED BY <1>8, <1>q, <2>1
<1>12. ASSUME NEW u \in User, DropRequest(u) PROVE LifecycleInv'
  <2>1. /\ UNCHANGED <<kind, source, settings, mappings, evidence, listing, identity, workspaces, shown>>
        /\ Done(u) /\ activeRead' \in {activeRead, NoUser}
        /\ sourceLock' = sourceLock \/ (sourceLock = u /\ sourceLock' = NoUser)
    BY <1>12 DEF DropRequest, dataVars, identityVars
  <2> QED BY <1>q, <2>1
<1>13. ASSUME NEW u \in User, StoreDataset(u) PROVE LifecycleInv'
  <2> DEFINE new == [version |-> Len(evidence) + 1, from |-> Len(evidence), binding |-> doing[u].number]
  <2>0. /\ Done(u) /\ doing[u].at = "store"
        /\ UNCHANGED <<kind, source, settings, mappings, activeRead, listing, identity, workspaces, sourceLock, shown>>
    BY <1>13 DEF StoreDataset, IsAt, identityVars
  <2>1. CASE Len(evidence) < MaxEvidence /\ source.status # "deleted"
    <3>1. doing[u].number \in 1..MaxVersion BY <2>0 DEF LifecycleInv, ReadingOK, Asked
    <3>2. new \in Evidence /\ new.version = Len(evidence) + 1 /\ new.from = Len(evidence)
      BY <1>t, <2>1, <3>1 DEF Evidence
    <3>3. evidence' = Append(evidence, new) BY <1>13, <2>1 DEF StoreDataset
    <3> HIDE DEF new
    <3> QED BY <1>x, <2>0, <2>1, <3>2, <3>3
  <2>2. CASE ~(Len(evidence) < MaxEvidence /\ source.status # "deleted")
    <3>1. UNCHANGED evidence BY <1>13, <2>2 DEF StoreDataset
    <3> QED BY <1>q, <2>0, <3>1
  <2> QED BY <2>1, <2>2
<1>14. ASSUME NEW u \in User, ReadCandidates(u) PROVE LifecycleInv'
  <2>0. /\ SourceFree /\ source.status = "active" /\ mappings # <<>> /\ sourceLock' = u
        /\ identity \in {NoProduct, listing.product}
        /\ UNCHANGED <<kind, source, settings, mappings, evidence, activeRead, listing, identity, workspaces, shown>>
    BY <1>14 DEF ReadCandidates, IsActive, NoIdentityConflict, dataVars, identityVars
  <2>1. PICK n \in LocalEvidence :
           doing' = [doing EXCEPT ![u] = [at |-> "commit", number |-> n, mapping |-> Len(mappings),
                                          product |-> listing.product]]
    BY <1>14 DEF ReadCandidates, Go
  <2> DEFINE x == [at |-> "commit", number |-> n, mapping |-> Len(mappings), product |-> listing.product]
  <2>2. n \in DOMAIN evidence /\ (kind = "sheet" \/ evidence[n].binding = settings.binding)
    BY DEF LocalEvidence
  <2>3. n \in 0..MaxVersion + MaxEvidence + MaxRemaps /\ Len(mappings) \in 0..MaxVersion
        /\ listing.product \in CanonicalProduct
    BY SMTT(30), <1>t, <2>2
  <2>4. x \in RequestRecord BY <2>3 DEF RequestRecord
  <2>5. x.at = "commit" /\ x.number = n /\ x.mapping = Len(mappings) /\ x.product = listing.product OBVIOUS
  <2>6. doing' = [doing EXCEPT ![u] = x] BY <2>1
  <2> HIDE DEF x
  <2>7. doing'[u] = x /\ \A v \in User : v # u => doing'[v] = doing[v] BY <1>e, <2>6
  <2>8. LifecycleTypeOK'
    <3>1. doing' \in [User -> RequestRecord] BY <1>e, <2>4, <2>6
    <3> QED BY <1>t, <2>0, <3>1 DEF LifecycleTypeOK, SourceRecord, SettingsRecord, RequestRecord, Asked
  <2>9. CommitOK'
    <3>1. \A v \in User : v # u => doing'[v].at # "commit" BY <1>f, <2>0, <2>7
    <3> QED BY <2>0, <2>2, <2>3, <2>5, <2>7, <3>1 DEF CommitOK
  <2>10. ReadingOK'
    <3>1. "commit" \notin Asked BY DEF Asked
    <3> QED BY <2>0, <2>5, <2>7, <3>1 DEF LifecycleInv, ReadingOK
  <2>11. CountersOK' /\ RevisionsAreAChain' /\ WorkspacesOK' BY <2>0, DataFrame
  <2>12. ShownOK' /\ RetiredIsQuiet' BY <2>0 DEF LifecycleInv, ShownOK, RetiredIsQuiet, IsActive
  <2> QED BY <2>8, <2>9, <2>10, <2>11, <2>12 DEF LifecycleInv
<1>15. ASSUME NEW u \in User, CommitWorkspace(u) PROVE LifecycleInv'
  <2> DEFINE w == [mapping |-> doing[u].mapping, evidence |-> doing[u].number, product |-> doing[u].product]
  <2>0. /\ doing[u].at = "commit" /\ Done(u) /\ sourceLock' = NoUser
        /\ UNCHANGED <<kind, source, settings, mappings, evidence, activeRead, listing, shown>>
    BY <1>15 DEF CommitWorkspace, IsAt, dataVars
  <2>c. /\ sourceLock = u /\ source.status = "active"
        /\ mappings # <<>> /\ doing[u].mapping = Len(mappings)
        /\ doing[u].number \in DOMAIN evidence
        /\ doing[u].product \in CanonicalProduct /\ identity \in {NoProduct, doing[u].product}
    BY <2>0 DEF LifecycleInv, CommitOK
  <2>1. CASE ListingUnchanged(u)
    <3>1. identity' = doing[u].product /\ workspaces' = workspaces \cup {w}
      BY <1>15, <2>1, <2>c DEF CommitWorkspace
    <3>2. Len(mappings) \in 1..MaxVersion
      <4>1. Len(mappings) # 0 BY <1>t, <2>c, EmptySeq
      <4> QED BY <1>t, <4>1
    <3>3. doing[u].number \in 1..MaxEvidence BY <1>t, <2>c
    <3>4. w \in Workspace /\ w.product = doing[u].product BY <2>c, <3>2, <3>3 DEF Workspace
    <3> HIDE DEF w
    <3>5. /\ doing'[u] = Ready /\ Ready.at = "ready" /\ Ready \in RequestRecord
          /\ \A v \in User : v # u => doing'[v] = doing[v]
      <4>1. Ready.at = "ready" /\ Ready \in RequestRecord BY RequestTyping
      <4> QED BY <1>e, <1>d, <2>0, <4>1
    <3>6. LifecycleTypeOK'
      <4>1. doing' \in [User -> RequestRecord] BY <1>e, <1>d, <2>0, <3>5
      <4>2. workspaces' \subseteq Workspace BY <1>t, <3>1, <3>4
      <4> QED BY <1>t, <2>0, <2>c, <3>1, <4>1, <4>2
            DEF LifecycleTypeOK, SourceRecord, SettingsRecord, RequestRecord, Asked
    <3>7. ReadingOK'
      <4>1. "ready" \notin Asked BY DEF Asked
      <4> QED BY <2>0, <3>5, <4>1 DEF LifecycleInv, ReadingOK
    <3>8. CommitOK'
      <4>1. \A v \in User : v # u => doing[v].at # "commit" BY <2>c DEF LifecycleInv, CommitOK
      <4> QED BY <3>5, <4>1 DEF CommitOK
    <3>9. WorkspacesOK'
      <4>1. \A v \in workspaces : v.product = identity /\ v.product \in CanonicalProduct
        BY <1>t DEF LifecycleInv, WorkspacesOK, Workspace
      <4> QED BY <2>c, <3>1, <3>4, <4>1 DEF WorkspacesOK
    <3>10. CountersOK' /\ ShownOK' /\ RetiredIsQuiet' /\ RevisionsAreAChain'
      BY <2>0, <2>c DEF LifecycleInv, CountersOK, ShownOK, RetiredIsQuiet, IsActive, RevisionsAreAChain
    <3> QED BY <3>6, <3>7, <3>8, <3>9, <3>10 DEF LifecycleInv
  <2>2. CASE ~ListingUnchanged(u)
    <3>1. UNCHANGED <<identity, workspaces>> BY <1>15, <2>2 DEF CommitWorkspace
    <3> QED BY <1>q, <2>0, <2>c, <3>1
  <2> QED BY <2>1, <2>2
<1>16. ASSUME NEW u \in User, ArchiveSource(u) \/ DeleteSource(u) PROVE LifecycleInv'
  <2>0. /\ SourceFree /\ workspaces = {} /\ activeRead = NoUser /\ source.version < MaxVersion
        /\ \E t \in Status : source' = [status |-> t, version |-> source.version + 1]
        /\ settings' = [settings EXCEPT !.enabled = FALSE]
        /\ UNCHANGED <<kind, mappings, evidence, activeRead, listing, identity, workspaces, sourceLock, shown, doing>>
    BY <1>16 DEF ArchiveSource, DeleteSource, NoBlockers, Status, dataVars, identityVars
  <2>1. source' \in SourceRecord /\ source'.version = source.version + 1
    BY <1>v, <2>0 DEF SourceRecord
  <2>2. settings' \in SettingsRecord /\ settings'.binding = settings.binding
    BY <1>t, <2>0 DEF SettingsRecord
  <2>3. LifecycleTypeOK'
    BY <1>t, <2>0, <2>1, <2>2 DEF LifecycleTypeOK, SourceRecord, SettingsRecord, RequestRecord, Asked
  <2>4. CountersOK' BY <1>v, <1>l, <2>0, <2>1, <2>2 DEF LifecycleInv, CountersOK
  <2>5. ShownOK'
    <3>1. \A v \in User : shown[v].version <= source.version /\ shown[v].version \in Nat
      BY <1>t DEF LifecycleInv, ShownOK
    <3> QED BY <1>v, <2>0, <2>1, <3>1 DEF ShownOK
  <2>6. ReadingOK' /\ CommitOK' BY <1>f, <2>0 DEF LifecycleInv, ReadingOK, CommitOK
  <2>7. RetiredIsQuiet' /\ RevisionsAreAChain' /\ WorkspacesOK'
    BY <2>0 DEF LifecycleInv, RetiredIsQuiet, RevisionsAreAChain, WorkspacesOK
  <2> QED BY <2>3, <2>4, <2>5, <2>6, <2>7 DEF LifecycleInv
<1>17. ASSUME RemapListing PROVE LifecycleInv'
  <2>1. /\ listing' \in [product : CanonicalProduct, remaps : 0..MaxRemaps]
        /\ UNCHANGED <<kind, source, settings, mappings, evidence, activeRead, identity, workspaces, sourceLock, shown, doing>>
    BY <1>t, <1>17 DEF RemapListing, dataVars
  <2>2. LifecycleTypeOK' BY <2>1 DEF LifecycleInv, LifecycleTypeOK
  <2> QED BY <2>1, <2>2 DEF LifecycleInv, CountersOK, ShownOK, ReadingOK, CommitOK, RetiredIsQuiet, IsActive,
         RevisionsAreAChain, WorkspacesOK
<1>18. CASE UNCHANGED lifecycleVars
  BY <1>18 DEF lifecycleVars, dataVars, identityVars, LifecycleInv, LifecycleTypeOK, CountersOK, ShownOK,
     ReadingOK, CommitOK, RetiredIsQuiet, IsActive, RevisionsAreAChain, WorkspacesOK
<1> QED
  BY <1>1, <1>2, <1>3, <1>4, <1>5, <1>6, <1>7, <1>10, <1>11, <1>12, <1>13, <1>14, <1>15, <1>16, <1>17, <1>18
     DEF LifecycleNext

\* The invariant holds of a new Source.
LEMMA LifecycleStart == LifecycleInit => LifecycleInv
<1> SUFFICES ASSUME LifecycleInit PROVE LifecycleInv OBVIOUS
<1> USE SourceLifecycleAssumption
<1>1. /\ mappings = <<>> /\ evidence = <<>> /\ DOMAIN mappings = {} /\ DOMAIN evidence = {}
      /\ Len(mappings) = 0 /\ Len(evidence) = 0
      /\ mappings \in Seq(0..MaxVersion) /\ evidence \in Seq(Evidence)
  BY DEF LifecycleInit
<1>2. source \in SourceRecord /\ source.version = 1 /\ source.status = "active"
  BY DEF LifecycleInit, SourceRecord, Status
<1>3. settings \in SettingsRecord /\ settings.binding = 1 BY DEF LifecycleInit, SettingsRecord
<1>4. /\ shown \in [User -> [version : 1..MaxVersion, mapping : 0..MaxVersion, revision : 0..MaxEvidence]]
      /\ \A u \in User : shown[u].version = 1 /\ shown[u].mapping = 0
  BY DEF LifecycleInit
<1>5. doing \in [User -> RequestRecord] /\ \A u \in User : doing[u].at = "ready"
  BY RequestTyping DEF LifecycleInit
<1>6. LifecycleTypeOK
  <2>1. /\ kind \in {"sheet", "external"} /\ activeRead = NoUser /\ sourceLock = NoUser
        /\ identity = NoProduct /\ workspaces = {}
        /\ listing \in [product : CanonicalProduct, remaps : 0..MaxRemaps]
    BY DEF LifecycleInit
  <2>2. Len(mappings) < MaxVersion /\ Len(evidence) <= MaxEvidence BY <1>1
  <2> QED BY <1>1, <1>2, <1>3, <1>4, <1>5, <2>1, <2>2, LifecycleTyping
<1>7. CountersOK /\ ShownOK BY <1>1, <1>2, <1>3, <1>4 DEF CountersOK, ShownOK
<1>8. ReadingOK /\ CommitOK BY <1>5 DEF ReadingOK, CommitOK, Asked
<1>9. RetiredIsQuiet /\ RevisionsAreAChain /\ WorkspacesOK
  BY <1>1, <1>2 DEF LifecycleInit, RetiredIsQuiet, IsActive, RevisionsAreAChain, WorkspacesOK
<1> QED BY <1>6, <1>7, <1>8, <1>9 DEF LifecycleInv

\* The inductive invariant, and with it the types of SourceLifecycle.
THEOREM LifecycleInvariant == LifecycleSpec => []LifecycleInv
<1>1. LifecycleInv /\ [LifecycleNext]_lifecycleVars => LifecycleInv' BY LifecycleStep
<1> QED BY LifecycleStart, <1>1, PTL DEF LifecycleSpec

\* An archived or deleted Source has no Workspace and no read under way: a request
\* that is about to commit holds the row of a Source that is active.
THEOREM RetiredSourcesAreQuiet == LifecycleSpec => []RetiredIsQuiet
<1>1. LifecycleInv => RetiredIsQuiet BY DEF LifecycleInv
<1> QED BY <1>1, LifecycleInvariant, PTL

\* Each revision of the Mapping, and of the data, was made from the one before it,
\* although the version of a Sheet is read before the Source is locked: the unique
\* constraint refuses whatever was read before the last revision.
THEOREM RevisionsFormAChain == LifecycleSpec => []RevisionsAreAChain
<1>1. LifecycleInv => RevisionsAreAChain BY DEF LifecycleInv
<1> QED BY <1>1, LifecycleInvariant, PTL

\* Only CommitWorkspace makes one, of what the request has read under the row lock.
LEMMA NewWorkspace ==
    ASSUME LifecycleInv, [LifecycleNext]_lifecycleVars, NEW w \in workspaces' \ workspaces
    PROVE  /\ w.mapping = Len(mappings)
           /\ kind = "sheet" \/ evidence[w.evidence].binding = settings.binding
           /\ w.product = listing.product
           /\ \A v \in workspaces : v.product = w.product
<1>1. PICK u \in User : CommitWorkspace(u)
  <2>1. workspaces' # workspaces OBVIOUS
  <2> QED BY <2>1
        DEF LifecycleNext, lifecycleVars, ShowSource, SaveMapping, LoadSheet, SaveSheetRevision, OpenSettings,
            SaveSettings, ReadSettings, RequestRead, EndRead, StoreDataset, ReadCandidates, ArchiveSource,
            DeleteSource, DropRequest, RemapListing
<1>2. /\ ListingUnchanged(u) /\ doing[u].at = "commit"
      /\ w = [mapping |-> doing[u].mapping, evidence |-> doing[u].number, product |-> doing[u].product]
  BY <1>1 DEF CommitWorkspace, IsAt
<1>3. /\ doing[u].mapping = Len(mappings)
      /\ kind = "sheet" \/ evidence[doing[u].number].binding = settings.binding
      /\ identity \in {NoProduct, doing[u].product}
  BY <1>2 DEF LifecycleInv, CommitOK
<1>4. \A v \in workspaces : v.product = identity /\ v.product # NoProduct
  BY SourceLifecycleAssumption DEF LifecycleInv, LifecycleTypeOK, Workspace, WorkspacesOK
<1> QED BY <1>2, <1>3, <1>4 DEF ListingUnchanged

\* A Workspace is made of the latest Mapping, of data of the workbook the Source is
\* bound to, of the Listing as it is now, and of the Product that all Workspaces of
\* the Source have.
THEOREM WorkspacesAreCurrent == LifecycleSpec => WorkspaceIsCurrent
<1>1. LifecycleInv /\ [LifecycleNext]_lifecycleVars
        => [\A w \in workspaces' \ workspaces :
              /\ w.mapping = Len(mappings)
              /\ kind = "sheet" \/ evidence[w.evidence].binding = settings.binding
              /\ w.product = listing.product
              /\ \A v \in workspaces : v.product = w.product]_lifecycleVars
  BY NewWorkspace
<1> QED BY <1>1, LifecycleInvariant, PTL DEF LifecycleSpec, WorkspaceIsCurrent

=============================================================================
