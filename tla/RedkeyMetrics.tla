----------------------------- MODULE RedkeyMetrics -----------------------------
(***************************************************************************)
(* The fleet metrics the operator keeps about a Redkey (metrics.go),       *)
(* composed with the reconciler that feeds them and the queue that wakes   *)
(* it: every step is a step of RedkeyWorkQueue, together with what it does *)
(* to the trackers and to the series of this Redkey.                       *)
(*                                                                         *)
(* A state-set gauge is the set of the values that are 1: empty when the   *)
(* series do not exist or all are 0.  A counter or histogram counts what   *)
(* is observed, over restarts of the operator too, as the monitoring       *)
(* system adds it up.                                                      *)
(* Durations are left out; so are the counters of activity, which no       *)
(* operation of the code ever reads.                                       *)
(***************************************************************************)
EXTENDS RedkeyWorkQueue

VARIABLES
  operation,          \* operationTracker: the operation in flight, or ""
  lastPhase,          \* readinessTracker: the last phase seen, "None" if none
  phaseSeries,        \* redkey_phase
  configPhaseSeries,  \* redkey_config_phase
  inProgressSeries,   \* redkey_operation_in_progress
  completed,          \* redkey_operation_total, by operation and result
  samples,            \* redkey_time_to_ready_seconds: samples
  begun,              \* history: operations Robin began
  readied             \* history: times the phase became Ready, and restarts
                      \* that met a Ready Redkey

trackers == <<operation, lastPhase>>
series == <<phaseSeries, configPhaseSeries, inProgressSeries>>
counters == <<completed, samples>>
history == <<begun, readied>>
metrics == <<trackers, series, counters>>
allVars == <<queueVars, metrics, history>>

Results == {"success", "error", "superseded"}

NoMetrics ==
  /\ operation = "" /\ lastPhase = "None"
  /\ phaseSeries = {} /\ configPhaseSeries = {} /\ inProgressSeries = {}

MetricsInit ==
  /\ QueueInit
  /\ NoMetrics
  /\ completed = [o \in Operations \X Results |-> 0] /\ samples = 0
  /\ begun = [o \in Operations |-> 0] /\ readied = 0

------------------------------------------------------------------------------
(* metrics.go *)

\* How an operation ended that the new status is not.
Result(status, phase) ==
  CASE status \in Operations                                        -> "superseded"
    [] status \notin Operations /\ (phase = "Error" \/ status = "Error") -> "error"
    [] status \notin Operations /\ phase # "Error" /\ status # "Error"   -> "success"

\* Faulty: a settled operation stays tracked.
observeKeeping(status, phase) ==
  /\ operation' = IF status \in Operations THEN status ELSE operation
  /\ completed' = IF operation \in {"", status} THEN completed
                  ELSE [completed EXCEPT ![<<operation, Result(status, phase)>>] = @ + 1]

\* The operation in flight ends when the status is no longer that operation.
observe(status, phase) ==
  /\ operation' = IF status \in Operations THEN status ELSE ""
  /\ completed' = IF operation \in {"", status} THEN completed
                  ELSE [completed EXCEPT ![<<operation, Result(status, phase)>>] = @ + 1]

\* Faulty: a sample for every reconcile of a Ready Redkey.
enteredReadyOnly(phase) ==
  /\ lastPhase' = phase
  /\ samples' = IF phase = "Ready" THEN samples + 1 ELSE samples

\* A sample on every transition into Ready this Redkey is seen to make.
enteredReady(phase) ==
  /\ lastPhase' = phase
  /\ samples' = IF phase = "Ready" /\ lastPhase # "Ready" THEN samples + 1 ELSE samples

\* The config phases that are 1.  A config that Robin has not touched, Pending in
\* the model, has no phase yet, and none of its series is.
configPhasesShown(active) == {c.configPhase : c \in active} \ {"Pending"}

\* Faulty: without an active config its series stay as they were.
recordRedkeyMetricsKeeping(r, active) ==
  /\ observe(r.status, r.phase)
  /\ inProgressSeries' = {r.status} \cap Operations
  /\ phaseSeries' = {r.phase} \ {"None"}
  /\ IF active = {} THEN UNCHANGED <<configPhaseSeries, lastPhase, samples>>
     ELSE configPhaseSeries' = configPhasesShown(active) /\ enteredReady(r.phase)

\* active is the set of the active config, empty for nil: then the readiness
\* tracker is not consulted.
recordRedkeyMetrics(r, active) ==
  /\ observe(r.status, r.phase)
  /\ inProgressSeries' = {r.status} \cap Operations
  /\ phaseSeries' = {r.phase} \ {"None"}
  /\ configPhaseSeries' = configPhasesShown(active)
  /\ IF active = {} THEN UNCHANGED <<lastPhase, samples>> ELSE enteredReady(r.phase)

\* Faulty: the trackers keep what they know of a Redkey that is gone.
deleteSeries ==
  /\ phaseSeries' = {} /\ configPhaseSeries' = {} /\ inProgressSeries' = {}
  /\ UNCHANGED <<trackers, counters>>

\* Also what a restart does to what is in memory.
deleteRedkeyMetrics ==
  /\ phaseSeries' = {} /\ configPhaseSeries' = {} /\ inProgressSeries' = {}
  /\ operation' = "" /\ lastPhase' = "None"
  /\ UNCHANGED counters

------------------------------------------------------------------------------
(* Reconcile with its metrics. *)

\* The steps after which a reconcile records; one that fails records nothing.
Records ==
  \/ StatusAccepted
  \/ pc = "createZeroConfig"
  \/ pc = "listConfigs" /\ pc' = "idle"

\* It records the status it wrote, or, when it wrote none, the one it started
\* with.  Scale to zero passes no active config.
RecordingStep ==
  /\ ReconcileQueued /\ Records
  /\ recordRedkeyMetrics(IF StatusAccepted THEN Stored(redkeys') ELSE cluster,
                         IF pc = "aggregateStatus" /\ cluster.primaries # 0
                         THEN {selectActiveConfig(list)} ELSE {})

SilentStep == ReconcileQueued /\ ~Records /\ UNCHANGED metrics

\* Reconcile starts; it may find that the Redkey is gone.
StartingStep ==
  /\ TakeKey
  /\ IF Exists(Cached(redkeys)) THEN UNCHANGED metrics ELSE deleteRedkeyMetrics

------------------------------------------------------------------------------
(* History: what really happened, to compare the metrics with. *)

\* Robin begins operation o in this step: the status of a config becomes o.
Begins(o) ==
  \E c \in Stored(configs') :
    c.status = o /\ \A d \in Stored(configs) : d.sequence = c.sequence => d.status # o

Remember(A) ==
  /\ A
  /\ begun' = [o \in Operations |-> IF Begins(o) THEN begun[o] + 1 ELSE begun[o]]
  /\ readied' = IF Stored(redkeys').phase = "Ready" /\ Stored(redkeys).phase # "Ready"
                THEN readied + 1 ELSE readied

MetricsReconcile == Remember(StartingStep \/ RecordingStep \/ SilentStep)

\* The memory of the operator is lost.
MetricsRestart ==
  /\ Requeued(Restart)
  /\ deleteRedkeyMetrics
  /\ readied' = IF Stored(redkeys).phase = "Ready" THEN readied + 1 ELSE readied
  /\ UNCHANGED begun

\* Everybody else, and a reconcile that fails.
Elsewhere(A) == Remember(A /\ UNCHANGED metrics)

MetricsNext ==
  \/ MetricsReconcile \/ MetricsRestart
  \/ Elsewhere(Resync) \/ Elsewhere(Requeued(ReconcileFails))
  \/ Elsewhere(Watched(\E p \in Primaries : EditSpec(p)))
  \/ Elsewhere(Watched(DeleteRedkey)) \/ Elsewhere(Watched(Collect))
  \/ Elsewhere(Watched(Deliver)) \/ Elsewhere(Watched(RobinActs))

MetricsSpec == MetricsInit /\ [][MetricsNext]_allVars

\* The fairness of the work queue, for the same steps, and the garbage
\* collector's.
FairMetricsSpec ==
  /\ MetricsSpec
  /\ WF_allVars(Elsewhere(Watched(DeliverRedkey)))
  /\ WF_allVars(Elsewhere(Watched(DeliverConfigs)))
  /\ \A o \in RobinObjects : WF_allVars(Elsewhere(Watched(DeliverRobin(o))))
  /\ WF_allVars(MetricsReconcile)
  /\ WF_allVars(Elsewhere(Watched(RobinStep)))
  /\ WF_allVars(Elsewhere(Watched(Collect)))

------------------------------------------------------------------------------
(* Properties. *)

\* No operation is counted twice, whatever status the reconcile started with:
\* redkey_operation_total and the operation still tracked never exceed what
\* Robin began.
CountedOnce ==
  \A o \in Operations :
    completed[o, "success"] + completed[o, "error"] + completed[o, "superseded"]
      + (IF operation = o THEN 1 ELSE 0) <= begun[o]

\* redkey_time_to_ready_seconds has at most one sample for each time the Redkey
\* became Ready, and one more for a restart that finds it Ready.
SampledOnTransitions == samples <= readied

\* The series show the stored status and the active config, and nothing at all
\* of a Redkey that is gone.
SeriesShowStatus ==
  LET r == Stored(redkeys)
  IN  IF r.deletion = "gone" THEN NoMetrics
      ELSE /\ phaseSeries = {r.phase}
           /\ inProgressSeries = {r.status} \cap Operations
           /\ IF r.primaries = 0 THEN configPhaseSeries = {}
              ELSE /\ Stored(configs) # {}
                   /\ configPhaseSeries = configPhasesShown({selectActiveConfig(Stored(configs))})

\* An operator that nothing will wake shows the truth: no reconcile leaves a
\* series behind that a later write, a restart or the deletion made wrong, unless
\* another reconcile is on its way (the two calls of recordRedkeyMetrics, and
\* deleteRedkeyMetrics when the Redkey is not found).
SeriesTrueWhenIdle == pc = "idle" /\ Quiet => SeriesShowStatus

\* And in the end they do, though a reconcile under way when the Redkey was
\* deleted still records.
SeriesFollowStatus == <>[]SeriesShowStatus
===============================================================================
