-------------------------- MODULE RedkeyMetricsProofs --------------------------
(***************************************************************************)
(* The operator as it runs, with its queue and its metrics.  Both only add *)
(* to RedkeyReconciler: their steps are its steps, so that what            *)
(* RedkeySafetyProofs shows holds of the operator.  What the series show   *)
(* is true when the operator is idle, and redkey_time_to_ready_seconds is  *)
(* not sampled too often.                                                  *)
(***************************************************************************)
EXTENDS RedkeyMetrics, RedkeySafetyProofs

------------------------------------------------------------------------------
(* The metrics: their steps are steps of the queue. *)

\* A step with its metrics is a step of the queue.
LEMMA MetricsStep ==
  ASSUME [MetricsNext]_allVars
  PROVE  [QueueNext]_queueVars
<1>1. CASE MetricsReconcile
  BY <1>1 DEF MetricsReconcile, Remember, StartingStep, RecordingStep, SilentStep, QueueNext
<1>2. CASE MetricsRestart
  BY <1>2 DEF MetricsRestart, QueueNext
<1>3. CASE \/ Elsewhere(Resync) \/ Elsewhere(Requeued(ReconcileFails))
           \/ Elsewhere(Watched(\E p \in Primaries : EditSpec(p)))
           \/ Elsewhere(Watched(DeleteRedkey)) \/ Elsewhere(Watched(Collect))
           \/ Elsewhere(Watched(Deliver)) \/ Elsewhere(Watched(RobinActs))
  BY <1>3 DEF Elsewhere, Remember, QueueNext
<1>4. CASE UNCHANGED allVars
  BY <1>4 DEF allVars
<1>. QED
  BY <1>1, <1>2, <1>3, <1>4 DEF MetricsNext

\* Keeping metrics (recordRedkeyMetrics, deleteRedkeyMetrics) changes nothing of
\* what the operator does.
LEMMA MetricsImplement == MetricsSpec => QueueSpec
<1>1. MetricsInit => QueueInit
  BY DEF MetricsInit
<1>2. [MetricsNext]_allVars => [QueueNext]_queueVars
  BY MetricsStep
<1>. QED
  BY <1>1, <1>2, PTL DEF MetricsSpec, QueueSpec

------------------------------------------------------------------------------
(* redkey_time_to_ready_seconds. *)

\* Only the deletion makes a version of the Redkey that is gone, and the last one.
GoneInv ==
  \A r \in Versions(redkeys) : r.deletion = "gone" => Stored(redkeys).deletion = "gone"

\* There is a sample to come when the stored phase is Ready and the tracker does
\* not know: from then on there must be room for it.
SampleInv ==
  /\ samples \in Nat /\ readied \in Nat /\ samples <= readied
  /\ Stored(redkeys).deletion # "gone" /\ Stored(redkeys).phase = "Ready" /\ lastPhase # "Ready"
     => samples < readied

\* Every step keeps GoneInv, and a Redkey that is gone stays gone.
LEMMA GoneStep ==
  ASSUME TypeInv, GoneInv, [Next]_vars
  PROVE  /\ GoneInv'
         /\ Stored(redkeys').deletion # "gone" => Stored(redkeys).deletion # "gone"
<1>1. CASE SpecKept
  BY <1>1 DEF SpecKept, GoneInv
<1>2. CASE RedkeyDeleted
  BY <1>2 DEF RedkeyDeleted, GoneInv
<1>3. CASE SpecEdited
  <2>1. Stored(redkeys).deletion # "gone"
    BY <1>3 DEF SpecEdited, Alive
  <2>2. Stored(redkeys').deletion # "gone"
    BY <1>3 DEF SpecEdited, Alive
  <2>. QED
    BY <2>1, <2>2, <1>3 DEF SpecEdited, GoneInv
<1>. QED
  BY <1>1, <1>2, <1>3, RedkeyStep

\* What a step does to the trackers and the samples.
LEMMA SampleChange ==
  ASSUME [MetricsNext]_allVars
  PROVE  \/ UNCHANGED <<lastPhase, samples>>
         \/ /\ lastPhase' = Stored(redkeys').phase /\ Stored(redkeys).deletion # "gone"
            /\ samples' = IF Stored(redkeys').phase = "Ready" /\ lastPhase # "Ready"
                          THEN samples + 1 ELSE samples
         \/ /\ UNCHANGED samples /\ Cached(redkeys).deletion = "gone" /\ UNCHANGED redkeys
         \/ UNCHANGED samples /\ MetricsRestart
<1>1. CASE StartingStep
  BY <1>1 DEF StartingStep, TakeKey, StartReconcile, ReconcileGone, Exists, deleteRedkeyMetrics,
         metrics, trackers, counters, storeVars, vars
<1>2. CASE RecordingStep
  <2>1. CASE pc = "aggregateStatus" /\ cluster.primaries # 0
    <3>1. StatusAccepted /\ Stored(redkeys).deletion # "gone"
      BY <1>2, <2>1 DEF RecordingStep, Records, StatusAccepted
    <3>2. enteredReady(Stored(redkeys').phase)
      BY <1>2, <2>1, <3>1 DEF RecordingStep, recordRedkeyMetrics
    <3>. QED
      BY <3>1, <3>2 DEF enteredReady
  <2>2. CASE ~(pc = "aggregateStatus" /\ cluster.primaries # 0)
    BY <1>2, <2>2 DEF RecordingStep, recordRedkeyMetrics
  <2>. QED
    BY <2>1, <2>2
<1>3. CASE UNCHANGED metrics
  BY <1>3 DEF metrics, trackers, counters
<1>4. CASE MetricsRestart
  BY <1>4 DEF MetricsRestart, deleteRedkeyMetrics, counters
<1>. QED
  BY <1>1, <1>2, <1>3, <1>4 DEF MetricsNext, MetricsReconcile, Remember, SilentStep, Elsewhere, allVars

\* What a step does to the history.
LEMMA RestartReadied ==
  ASSUME MetricsRestart
  PROVE  /\ Stored(redkeys') = Stored(redkeys)
         /\ readied' = IF Stored(redkeys').phase = "Ready" THEN readied + 1 ELSE readied
<1>1. redkeys' = <<Stored(redkeys)>>
  BY DEF MetricsRestart, Requeued, Restart
<1>2. Stored(redkeys') = Stored(redkeys)
  BY <1>1 DEF Stored
<1>. QED
  BY <1>2 DEF MetricsRestart

\* The same for every step: the history counts when the phase becomes Ready.
LEMMA ReadiedChange ==
  ASSUME [MetricsNext]_allVars
  PROVE  \/ readied' = readied + 1
         \/ /\ readied' = readied
            /\ Stored(redkeys').phase = "Ready" => Stored(redkeys).phase = "Ready"
<1>1. CASE MetricsRestart
  BY <1>1, RestartReadied
<1>2. CASE readied' = IF Stored(redkeys').phase = "Ready" /\ Stored(redkeys).phase # "Ready"
                      THEN readied + 1 ELSE readied
  BY <1>2
<1>3. CASE UNCHANGED allVars
  BY <1>3 DEF allVars, history, queueVars, vars
<1>. QED
  BY <1>1, <1>2, <1>3 DEF MetricsNext, MetricsReconcile, Remember, Elsewhere

\* The samples of redkey_time_to_ready_seconds are never more than the times the
\* Redkey became Ready, restarts that find it Ready included, though the tracker
\* (enteredReady) forgets what it knows when the operator restarts and when the
\* Redkey is gone.
THEOREM ReadySamples == MetricsSpec => []SampledOnTransitions
<1>. DEFINE SInv == TypeInv /\ GoneInv /\ SampleInv
<1>1. MetricsInit => SInv
  <2>. SUFFICES ASSUME MetricsInit PROVE SInv
    OBVIOUS
  <2>1. Init /\ samples = 0 /\ readied = 0
    BY DEF MetricsInit, QueueInit
  <2>2. TypeInv
    BY <2>1, TypeInit
  <2>3. PICK p \in Primaries : redkeys = <<NewRedkey(p)>>
    BY <2>1 DEF Init
  <2>4. Stored(redkeys) = redkeys[1] /\ Versions(redkeys) = {redkeys[1]}
    BY <2>3 DEF Stored, Versions
  <2>5. redkeys[1].phase = "None"
    BY <2>3 DEF NewRedkey
  <2>. QED
    BY <2>1, <2>2, <2>4, <2>5 DEF GoneInv, SampleInv
<1>2. SInv /\ [MetricsNext]_allVars => SInv'
  <2>. SUFFICES ASSUME SInv, [MetricsNext]_allVars PROVE SInv'
    OBVIOUS
  <2>1. [Next]_vars
    BY MetricsStep, QueueStep
  <2>2. TypeInv' /\ GoneInv'
        /\ (Stored(redkeys').deletion # "gone" => Stored(redkeys).deletion # "gone")
    BY <2>1, TypeStep, GoneStep
  <2>3. Cached(redkeys) \in Versions(redkeys)
    BY FeedVersions DEF TypeInv
  <2>4. SampleInv'
    <3>. DEFINE ready == Stored(redkeys).phase = "Ready"
                ready1 == Stored(redkeys').phase = "Ready"
                gone == Stored(redkeys).deletion = "gone"
                gone1 == Stored(redkeys').deletion = "gone"
    <3>1. /\ samples \in Nat /\ readied \in Nat /\ samples <= readied
          /\ ~gone /\ ready /\ lastPhase # "Ready" => samples < readied
      BY DEF SampleInv
    <3>2. SUFFICES /\ samples' \in Nat /\ readied' \in Nat /\ samples' <= readied'
                   /\ ~gone1 /\ ready1 /\ lastPhase' # "Ready" => samples' < readied'
      BY DEF SampleInv
    <3>3. readied' = readied + 1 \/ (readied' = readied /\ (ready1 => ready))
      BY ReadiedChange
    <3>4. CASE UNCHANGED <<lastPhase, samples>>
      BY <3>1, <3>3, <3>4, <2>2
    <3>5. CASE /\ (lastPhase' = "Ready" <=> ready1) /\ ~gone
               /\ samples' = IF ready1 /\ lastPhase # "Ready" THEN samples + 1 ELSE samples
      BY <3>1, <3>3, <3>5
    <3>6. CASE UNCHANGED samples /\ Cached(redkeys).deletion = "gone" /\ UNCHANGED redkeys
      <4>1. gone1
        BY <3>6, <2>3 DEF GoneInv
      <4>. QED
        BY <4>1, <3>1, <3>3, <3>6
    <3>7. CASE UNCHANGED samples /\ MetricsRestart
      <4>1. readied' = IF ready1 THEN readied + 1 ELSE readied
        BY <3>7, RestartReadied
      <4>. QED
        BY <4>1, <3>1, <3>7
    <3>. QED
      BY <3>4, <3>5, <3>6, <3>7, SampleChange
  <2>. QED
    BY <2>2, <2>4
<1>3. SInv => SampledOnTransitions
  BY DEF SampleInv, SampledOnTransitions
<1>. QED
  BY <1>1, <1>2, <1>3, PTL DEF MetricsSpec

------------------------------------------------------------------------------
(* What the series show of an operator that nothing will wake. *)

\* A reconcile that ends and wakes nobody had its status update accepted; it
\* worked on what is stored.
LEMMA QuietEnd ==
  ASSUME TypeInv, Quiet, Alive, Progress, ReconcileQueued, Quiet',
         UNCHANGED <<redkeys, configs, robinSeen>>, pc' = "idle"
  PROVE  /\ StatusAccepted
         /\ \/ pc = "aggregateStatus" /\ list = Stored(configs) /\ list # {}
            \/ pc = "updateStatusScaledToZero" /\ cluster.primaries = 0
         /\ cluster = Stored(redkeys)
<1>0. pc # "idle" /\ cluster = Stored(redkeys) /\ ~ReturnsError /\ pc # "listConfigs"
  BY DEF Progress, Quiet, ReconcileQueued
<1>1. pc \notin {"ensureRBAC", "ensureRobinDeployment", "deleteRBAC"}
  BY <1>0 DEF ReturnsError
<1>2. ~CreateNewConfig
  <2>. SUFFICES ASSUME CreateNewConfig PROVE FALSE
    OBVIOUS
  <2>1. Cached(configs) = Stored(configs)
    BY DEF Quiet, Cached, Stored
  <2>2. ~CreateConfig(NewConfig(cluster, Cached(configs)))
    BY <2>1, CreationSeen
  <2>3. Cached(configs) # {} /\ AfterList(cluster, Cached(configs))
    BY <2>2 DEF CreateNewConfig
  <2>. QED
    BY <2>3 DEF AfterList, Goto
<1>3. ~CreateZeroConfig
  BY CreationSeen DEF CreateZeroConfig, Progress
<1>4. ~CleanupSupersededConfigs
  <2>. SUFFICES ASSUME CleanupSupersededConfigs PROVE FALSE
    OBVIOUS
  <2>1. list = Stored(configs) /\ list # {}
    BY DEF CleanupSupersededConfigs, Progress
  <2>2. LowestSeq(list) \in Stored(configs)
    BY <2>1, EndsType, ChosenConfigs
  <2>. QED
    BY <2>2, DeletionSeen DEF CleanupSupersededConfigs
<1>5. ~DeleteAllConfigs
  BY DeletionSeen DEF DeleteAllConfigs, Progress
<1>6. ~DeleteRobinDeployment /\ ~ListAllConfigs
  BY DEF DeleteRobinDeployment, ListAllConfigs, AfterDelete, Goto
<1>7. AggregateStatus \/ UpdateStatusScaledToZero
  BY <1>0, <1>1, <1>2, <1>3, <1>4, <1>5, <1>6 DEF ReconcileQueued, ReconcileStep, StartReconcile,
     ReconcileGone, EnsureRBAC, EnsureRobinDeployment, DeleteRBAC, ListConfigs
<1>8. pc \in {"aggregateStatus", "updateStatusScaledToZero"}
  BY <1>7 DEF AggregateStatus, UpdateStatusScaledToZero
<1>9. StatusAccepted
  BY <1>0, <1>8 DEF ReturnsError
<1>. QED
  BY <1>0, <1>8, <1>9 DEF Progress, LeftToRobin

\* What a reconcile that ends and wakes nobody records is what is stored.
LEMMA QuietRecord ==
  ASSUME TypeInv, Quiet, Alive, Progress, RecordingStep, Quiet',
         UNCHANGED <<redkeys, configs, robinSeen>>, pc' = "idle",
         Settled(Stored(redkeys), Stored(configs))'
  PROVE  SeriesShowStatus'
<1>. DEFINE r == Stored(redkeys)
<1>1. Stored(redkeys') = r /\ Stored(configs') = Stored(configs)
  OBVIOUS
<1>2. /\ StatusAccepted /\ cluster = r
      /\ \/ pc = "aggregateStatus" /\ list = Stored(configs) /\ list # {}
         \/ pc = "updateStatusScaledToZero" /\ cluster.primaries = 0
  BY QuietEnd DEF RecordingStep
<1>3. recordRedkeyMetrics(r, IF pc = "aggregateStatus" /\ cluster.primaries # 0
                             THEN {selectActiveConfig(list)} ELSE {})
  BY <1>1, <1>2 DEF RecordingStep
<1>4. r.phase # "None"
  <2>1. CASE SaysScaledToZero(r)
    BY <2>1 DEF SaysScaledToZero
  <2>2. CASE r = AggregatedStatus(r, r.generation, selectActiveConfig(Stored(configs)))
    <3>1. r \in RedkeyType
      BY EndsType
    <3>2. r.phase = computePhaseFromConditions(aggregateConditions(selectActiveConfig(Stored(configs))))
      BY <2>2, <3>1 DEF AggregatedStatus, RedkeyType
    <3>. QED
      BY <3>2 DEF computePhaseFromConditions, aggregateConditions
  <2>. QED
    BY <2>1, <2>2, <1>1 DEF Settled
<1>5. r.deletion # "gone"
  BY DEF Alive
<1>6. phaseSeries' = {r.phase} /\ inProgressSeries' = {r.status} \cap Operations
  BY <1>3, <1>4 DEF recordRedkeyMetrics
<1>7. CASE cluster.primaries # 0
  <2>1. configPhaseSeries' = configPhasesShown({selectActiveConfig(list)})
    BY <1>2, <1>3, <1>7 DEF recordRedkeyMetrics
  <2>. QED
    BY <2>1, <1>1, <1>2, <1>5, <1>6, <1>7 DEF SeriesShowStatus
<1>8. CASE cluster.primaries = 0
  <2>1. configPhaseSeries' = {}
    BY <1>3, <1>8 DEF recordRedkeyMetrics, configPhasesShown
  <2>. QED
    BY <2>1, <1>1, <1>2, <1>5, <1>6, <1>8 DEF SeriesShowStatus
<1>. QED
  BY <1>7, <1>8

\* A Redkey is deleted in the background here, and one that is gone is found to be.
SeriesInv ==
  /\ Alive \/ Stored(redkeys).deletion = "gone"
  /\ Quiet /\ ~Alive => pc = "idle"
  /\ pc = "idle" /\ Quiet => SeriesShowStatus

\* Every step keeps the invariant.
LEMMA SeriesStep ==
  ASSUME TypeInv, FeedsChanging, WakeInv, WakeInv', SeriesInv, [MetricsNext]_allVars
  PROVE  SeriesInv'
<1>0. [QueueNext]_queueVars /\ [Next]_vars
  BY MetricsStep, QueueStep
<1>1. Alive' \/ Stored(redkeys').deletion = "gone"
  BY <1>0, RedkeyStep DEF SeriesInv, SpecKept, SpecEdited, RedkeyDeleted, Alive
<1>. SUFFICES ASSUME Quiet'
              PROVE  (~Alive' => pc' = "idle") /\ (pc' = "idle" => SeriesShowStatus')
  BY <1>1 DEF SeriesInv
<1>2. CASE StartingStep
  <2>1. TakeKey /\ UNCHANGED <<redkeys, configs>> /\ pc = "idle"
    BY <1>2 DEF StartingStep, TakeKey, StartReconcile, ReconcileGone, storeVars, vars
  <2>2. Cached(redkeys) = Stored(redkeys')
    BY <2>1 DEF Quiet, Cached, Stored
  <2>3. CASE Exists(Cached(redkeys))
    <3>1. StartReconcile
      BY <2>1, <2>3 DEF TakeKey, ReconcileGone
    <3>2. pc' # "idle"
      BY <3>1 DEF StartReconcile, Goto
    <3>3. Alive'
      BY <1>1, <2>2, <2>3 DEF Exists
    <3>. QED
      BY <3>2, <3>3
  <2>4. CASE ~Exists(Cached(redkeys))
    <3>1. deleteRedkeyMetrics /\ Stored(redkeys').deletion = "gone"
      BY <1>2, <2>2, <2>4 DEF StartingStep, Exists
    <3>2. NoMetrics'
      BY <3>1 DEF deleteRedkeyMetrics, NoMetrics
    <3>3. pc' = "idle"
      BY <2>1, <2>4 DEF TakeKey, StartReconcile, ReconcileGone, vars
    <3>. QED
      BY <3>1, <3>2, <3>3 DEF SeriesShowStatus
  <2>. QED
    BY <2>3, <2>4
<1>3. CASE RecordingStep \/ SilentStep
  <2>1. ReconcileQueued /\ pc # "idle"
    BY <1>3 DEF RecordingStep, SilentStep, ReconcileQueued
  <2>2. ~TakeKey /\ QueueNext
    BY <2>1 DEF QueueNext, TakeKey, StartReconcile, ReconcileGone
  <2>3. Quiet /\ UNCHANGED <<redkeys, configs, robinSeen>>
    BY <2>2, QuietStep
  <2>4. Alive /\ Alive' /\ Progress
    BY <2>1, <2>3 DEF SeriesInv, WakeInv, Alive
  <2>5. ASSUME pc' = "idle" PROVE SeriesShowStatus'
    <3>1. StatusAccepted
      BY <2>1, <2>3, <2>4, <2>5, QuietEnd
    <3>2. RecordingStep
      BY <1>3, <3>1 DEF SilentStep, Records
    <3>3. Settled(Stored(redkeys), Stored(configs))'
      BY <2>4, <2>5 DEF WakeInv, Progress
    <3>. QED
      BY <2>3, <2>4, <2>5, <3>2, <3>3, QuietRecord
  <2>. QED
    BY <2>4, <2>5
<1>4. CASE UNCHANGED metrics /\ (\/ Resync \/ Requeued(ReconcileFails)
                                 \/ Watched(\E p \in Primaries : EditSpec(p))
                                 \/ Watched(DeleteRedkey) \/ Watched(Collect)
                                 \/ Watched(Deliver) \/ Watched(RobinActs))
  <2>1. \/ \E p \in Primaries : EditSpec(p)
        \/ DeleteRedkey \/ Collect \/ Deliver \/ RobinActs
    BY <1>4 DEF Resync, Requeued, Watched, Quiet
  <2>2. UNCHANGED pc
    BY <2>1 DEF EditSpec, DeleteRedkey, Collect, CollectConfig, CollectRobin, Deliver,
       DeliverRedkey, DeliverConfigs, DeliverRobin, RobinActs, RobinStep, RobinStarts,
       RobinSupersedes, RobinApplies, RobinReports, RobinWrites, localVars
  <2>3. ~TakeKey /\ QueueNext
    <3>1. ~queued
      BY <1>4 DEF Resync, Requeued, Watched, Quiet
    <3>. QED
      BY <3>1, <1>4 DEF TakeKey, QueueNext
  <2>4. Quiet /\ UNCHANGED <<redkeys, configs, robinSeen>>
    BY <2>3, QuietStep
  <2>. QED
    BY <1>4, <2>2, <2>4 DEF SeriesInv, SeriesShowStatus, NoMetrics, metrics, trackers, series, Alive
<1>5. CASE MetricsRestart
  BY <1>5 DEF MetricsRestart, Requeued, Quiet
<1>6. CASE UNCHANGED allVars
  BY <1>6 DEF allVars, queueVars, vars, Quiet, SeriesInv, SeriesShowStatus, NoMetrics, metrics,
     trackers, series, Alive
<1>. QED
  BY <1>2, <1>3, <1>4, <1>5, <1>6 DEF MetricsNext, MetricsReconcile, Remember, Elsewhere

\* When nothing will wake the operator, the series show the stored status and the
\* active config, or nothing when the Redkey is gone: for any lags, edits, faults,
\* restarts and scale-to-zero (recordRedkeyMetrics, deleteRedkeyMetrics).
THEOREM SeriesTrue == MetricsSpec => []SeriesTrueWhenIdle
<1>. DEFINE MInv == TypeInv /\ FeedsChanging /\ WakeInv /\ SeriesInv
<1>1. MetricsInit => MInv
  <2>. SUFFICES ASSUME MetricsInit PROVE MInv
    OBVIOUS
  <2>1. TypeInv
    BY TypeInit DEF MetricsInit, QueueInit
  <2>2. FeedsChanging /\ ~Quiet
    BY DEF MetricsInit, QueueInit, Init, FeedsChanging, Changing, Quiet
  <2>3. Alive
    <3>1. PICK p \in Primaries : redkeys = <<NewRedkey(p)>>
      BY DEF MetricsInit, QueueInit, Init
    <3>2. Stored(redkeys) = NewRedkey(p)
      BY <3>1 DEF Stored
    <3>3. NewRedkey(p).deletion = ""
      BY Zenon DEF NewRedkey
    <3>. QED
      BY <3>2, <3>3 DEF Alive
  <2>. QED
    BY <2>1, <2>2, <2>3 DEF WakeInv, SeriesInv
<1>2. MInv /\ [MetricsNext]_allVars => MInv'
  BY MetricsStep, QueueStep, TypeStep, ChangingStep, WakeStep, SeriesStep
<1>3. MInv => SeriesTrueWhenIdle
  BY DEF SeriesInv, SeriesTrueWhenIdle
<1>. QED
  BY <1>1, <1>2, <1>3, PTL DEF MetricsSpec

------------------------------------------------------------------------------
(* The operations that are counted, and the status that is recorded.         *)

Tally(o) == completed[o, "success"] + completed[o, "error"] + completed[o, "superseded"]

CountTypes ==
  /\ operation \in Operations \cup {""}
  /\ completed \in [Operations \X Results -> Nat]
  /\ begun \in [Operations -> Nat]

\* observe tracks the operation it is given, if it is one, and counts the one it
\* tracked, if that is another.
LEMMA ObserveCounts ==
  ASSUME CountTypes, NEW s, NEW phase, observe(s, phase)
  PROVE  /\ operation' \in Operations \cup {""}
         /\ operation' \in Operations => operation' = s
         /\ completed' \in [Operations \X Results -> Nat]
         /\ \A o \in Operations :
              Tally(o)' = IF operation = o /\ s # o THEN Tally(o) + 1 ELSE Tally(o)
<1>. DEFINE none == ""
            res == Result(s, phase)
<1>1. none \notin Operations
  BY Zenon DEF Operations
<1>2. /\ operation' = IF s \in Operations THEN s ELSE none
      /\ completed' = IF operation = none \/ operation = s THEN completed
                      ELSE [completed EXCEPT ![<<operation, res>>] = @ + 1]
  BY Zenon DEF observe
<1>3. res \in Results
  BY DEF Result, Results
<1>4. /\ operation \in Operations \cup {none}
      /\ completed \in [Operations \X Results -> Nat]
  BY Zenon DEF CountTypes
<1>. HIDE DEF none, res
<1>5. /\ operation' \in Operations \cup {none}
      /\ operation' \in Operations => operation' = s
  BY <1>1, <1>2
<1>6. CASE operation = none \/ operation = s
  <2>1. completed' = completed
    BY <1>2, <1>6
  <2>2. \A o \in Operations : Tally(o)' = Tally(o) /\ ~(operation = o /\ s # o)
    BY <2>1, <1>1, <1>6 DEF Tally
  <2>. QED
    BY <2>1, <2>2, <1>4, <1>5, Zenon DEF none
<1>7. CASE ~(operation = none \/ operation = s)
  <2>1. operation \in Operations /\ <<operation, res>> \in Operations \X Results
    BY <1>3, <1>4, <1>7
  <2>2. completed' = [completed EXCEPT ![<<operation, res>>] = completed[<<operation, res>>] + 1]
    BY <1>2, <1>7
  <2>3. completed' \in [Operations \X Results -> Nat]
    BY <2>1, <2>2, <1>4
  <2>4. ASSUME NEW o \in Operations
        PROVE  Tally(o)' = IF operation = o /\ s # o THEN Tally(o) + 1 ELSE Tally(o)
    <3>1. \A x \in Results : /\ completed[<<o, x>>] \in Nat
                             /\ completed'[<<o, x>>] = IF operation = o /\ x = res
                                                       THEN completed[<<o, x>>] + 1
                                                       ELSE completed[<<o, x>>]
      BY <2>1, <2>2, <1>4
    <3>2. res \in {"success", "error", "superseded"}
      BY <1>3 DEF Results
    <3>3. /\ Tally(o) = completed[<<o, "success">>] + completed[<<o, "error">>]
                        + completed[<<o, "superseded">>]
          /\ Tally(o)' = completed'[<<o, "success">>] + completed'[<<o, "error">>]
                         + completed'[<<o, "superseded">>]
      BY Zenon DEF Tally
    <3>4. CASE operation = o
      BY <3>1, <3>2, <3>3, <3>4, <1>7 DEF Results
    <3>5. CASE operation # o
      BY <3>1, <3>3, <3>5 DEF Results
    <3>. QED
      BY <3>4, <3>5
  <2>5. \A o \in Operations :
          Tally(o)' = IF operation = o /\ s # o THEN Tally(o) + 1 ELSE Tally(o)
    BY <2>4
  <2>. QED
    BY <2>3, <2>5, <1>5, Zenon DEF none
<1>. QED
  BY <1>6, <1>7, Zenon

\* What a step does to the history of the operations.
LEMMA BegunChange ==
  ASSUME CountTypes, [MetricsNext]_allVars
  PROVE  /\ begun' \in [Operations -> Nat]
         /\ \A o \in Operations : /\ begun[o] <= begun'[o]
                                  /\ Begins(o) /\ Stored(configs') # Stored(configs)
                                     => begun'[o] = begun[o] + 1
<1>0. begun \in [Operations -> Nat]
  BY Zenon DEF CountTypes
<1>1. CASE UNCHANGED begun /\ Stored(configs') = Stored(configs)
  BY <1>0, <1>1
<1>2. CASE begun' = [o \in Operations |-> IF Begins(o) THEN begun[o] + 1 ELSE begun[o]]
  BY <1>0, <1>2
<1>3. CASE MetricsRestart
  <2>1. configs' = <<Stored(configs)>> /\ UNCHANGED begun
    BY <1>3 DEF MetricsRestart, Requeued, Restart
  <2>2. Stored(configs') = Stored(configs)
    BY <2>1 DEF Stored
  <2>. QED
    BY <2>1, <2>2, <1>1
<1>4. CASE UNCHANGED allVars
  BY <1>1, <1>4 DEF allVars, history, queueVars, vars
<1>. QED
  BY <1>2, <1>3, <1>4, Zenon DEF MetricsNext, MetricsReconcile, Remember, Elsewhere

\* A step records nothing, and the status stays.
RecordsNothing ==
  /\ Stored(redkeys').status = Stored(redkeys).status
  /\ operation' \in {operation, ""} /\ UNCHANGED completed

\* Reconcile ends without a status update and records the one it started with.
RecordsStarted ==
  /\ pc = "createZeroConfig" \/ (ListConfigs /\ pc' = "idle")
  /\ UNCHANGED redkeys
  /\ \E phase : observe(cluster.status, phase)

\* The status update is accepted and recorded.
RecordsWritten ==
  /\ SpecKept /\ (UNCHANGED redkeys \/ StatusWritten \/ ScaledToZeroWritten)
  /\ \E phase : observe(Stored(redkeys').status, phase)

\* What a step of a reconcile records.
LEMMA RecordStep ==
  ASSUME TypeInv, [MetricsNext]_allVars
  PROVE  RecordsNothing \/ RecordsStarted \/ RecordsWritten
<1>1. ASSUME UNCHANGED metrics, Stored(redkeys').status = Stored(redkeys).status
      PROVE  RecordsNothing
  BY <1>1, Zenon DEF RecordsNothing, metrics, trackers, counters
<1>2. ASSUME deleteRedkeyMetrics, Stored(redkeys').status = Stored(redkeys).status
      PROVE  RecordsNothing
  BY <1>2, Zenon DEF RecordsNothing, deleteRedkeyMetrics, counters
<1>3. CASE StartingStep
  <2>1. UNCHANGED redkeys
    BY <1>3, Zenon DEF StartingStep, TakeKey, StartReconcile, ReconcileGone, storeVars, vars
  <2>. QED
    BY <2>1, <1>1, <1>2, <1>3 DEF StartingStep
<1>4. ASSUME pc # "idle", ReconcileStep
      PROVE  /\ StatusAccepted => SpecKept /\ (UNCHANGED redkeys \/ StatusWritten \/ ScaledToZeroWritten)
             /\ ~StatusAccepted => UNCHANGED redkeys
             /\ pc = "listConfigs" => ListConfigs
  <2>1. CASE AggregateStatus
    BY <2>1, StatusWrites, RedkeyStatusStep DEF AggregateStatus, StatusAccepted
  <2>2. CASE UpdateStatusScaledToZero
    BY <2>2, StatusWrites, RedkeyStatusStep DEF UpdateStatusScaledToZero, StatusAccepted
  <2>3. CASE ~(AggregateStatus \/ UpdateStatusScaledToZero)
    BY <2>3, <1>4, Zenon
       DEF ReconcileStep, StartReconcile, ReconcileGone, EnsureRBAC, EnsureRobinDeployment,
           CreateNewConfig, CreateZeroConfig, ListConfigs, CleanupSupersededConfigs,
           DeleteRobinDeployment, DeleteRBAC, ListAllConfigs, DeleteAllConfigs, storeVars,
           StatusAccepted
  <2>. QED
    BY <2>1, <2>2, <2>3
<1>5. CASE RecordingStep
  <2>1. pc # "idle" /\ ReconcileStep /\ Records
    BY <1>5 DEF RecordingStep, ReconcileQueued
  <2>2. \E phase : observe((IF StatusAccepted THEN Stored(redkeys') ELSE cluster).status, phase)
    BY <1>5 DEF RecordingStep, recordRedkeyMetrics
  <2>3. CASE StatusAccepted
    BY <2>1, <2>2, <2>3, <1>4 DEF RecordsWritten
  <2>4. CASE ~StatusAccepted
    BY <2>1, <2>2, <2>4, <1>4 DEF RecordsStarted, Records
  <2>. QED
    BY <2>3, <2>4
<1>6. CASE SilentStep
  <2>1. ~StatusAccepted /\ pc # "idle" /\ ReconcileStep /\ UNCHANGED metrics
    BY <1>6 DEF SilentStep, ReconcileQueued, Records
  <2>2. UNCHANGED redkeys
    BY <2>1, <1>4
  <2>. QED
    BY <2>1, <2>2, <1>1
<1>7. CASE MetricsRestart
  <2>1. Stored(redkeys') = Stored(redkeys) /\ deleteRedkeyMetrics
    BY <1>7 DEF MetricsRestart, Requeued, Restart, Stored
  <2>. QED
    BY <2>1, <1>2
<1>8. ASSUME UNCHANGED metrics,
             \/ (\E p \in Primaries : EditSpec(p)) \/ DeleteRedkey \/ Collect \/ Deliver
             \/ RobinActs \/ ReconcileFails \/ UNCHANGED vars
      PROVE  RecordsNothing
  <2>1. CASE UNCHANGED redkeys
    BY <2>1, <1>1, <1>8
  <2>2. CASE (\E p \in Primaries : EditSpec(p)) \/ DeleteRedkey
    BY <2>2, <1>1, <1>8, RedkeyUserStep DEF SpecEdited, RedkeyDeleted
  <2>3. CASE DeliverRedkey
    <3>1. Stored(redkeys') = Stored(redkeys)
      BY <2>3, DeliverFeed DEF DeliverRedkey, TypeInv
    <3>. QED
      BY <3>1, <1>1, <1>8
  <2>. QED
    BY <1>8, <2>1, <2>2, <2>3, Zenon
       DEF Collect, CollectConfig, CollectRobin, Deliver, DeliverConfigs, DeliverRobin,
           ReconcileFails, RobinActs, RobinStep, RobinStarts, RobinSupersedes, RobinApplies,
           RobinReports, RobinWrites, storeVars, vars
<1>9. CASE UNCHANGED allVars
  BY <1>8, <1>9 DEF allVars, queueVars
<1>. QED
  BY <1>3, <1>5, <1>6, <1>7, <1>8, <1>9
     DEF MetricsNext, MetricsReconcile, Remember, Elsewhere, Resync, Requeued, Watched

------------------------------------------------------------------------------
(* What is proved of the reconciler alone therefore holds of the operator as a *)
(* whole, with its queue and its metrics.                                      *)

\* Under the work queue and with the metrics recorded, in both regimes, configs
\* follow the generations and cleanup deletes nothing that is not done; with a
\* fresh config cache the scale-to-zero does not remove Robin at work.
THEOREM OperatorSafe ==
  Regime /\ MetricsSpec
  => /\ []SequencesFollowGenerations
     /\ CleanupDeletesOnlyDone
     /\ ConfigLag = 0 => RobinOutlivesWork
BY MetricsImplement, QueueImplements, ConfigsInOrder, CleanupDone, RobinStays, PTL
================================================================================
