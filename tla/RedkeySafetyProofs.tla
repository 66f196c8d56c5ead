-------------------------- MODULE RedkeySafetyProofs --------------------------
(***************************************************************************)
(* The safety properties of RedkeyReconciler, from the inductive invariant *)
(* of RedkeyPipelineProofs and in its two regimes.  Three properties need  *)
(* a regime of their own, two of them a strengthening of the invariant.    *)
(* The last part is about the work queue and holds without a regime: it    *)
(* loses no wake-up, so that an operator that nothing will wake has left   *)
(* nothing undone.                                                         *)
(***************************************************************************)
EXTENDS RedkeyPipelineProofs, RedkeyWorkQueue

------------------------------------------------------------------------------
(* What a step does to the stored configs of a Redkey that is not deleted.   *)

\* The stored configs but the one of name n.
Without(n) == {d \in Stored(configs) : d.sequence # n}

\* A creation, by a reconcile whose copy has the generation of the config.
Created ==
  \E c \in ConfigType : /\ OnTop(c, Stored(configs))
                        /\ c.generation = cluster.generation /\ c.primaries = cluster.primaries
                        /\ c.status \notin Operations
                        /\ pc \in {"createNewConfig", "createZeroConfig"}
                        /\ Stored(configs') = Stored(configs) \cup {c}

\* A delete of cleanupSupersededConfigs: an Applied config stays above it.
Cleaned ==
  \E n \in Nat : /\ Stored(configs') = Without(n)
                 /\ \E b \in Without(n) : b.configPhase = "Applied" /\ n < b.sequence

\* A delete of case C of scale-to-zero: nothing was left to do.
Emptied ==
  \E n \in Nat : /\ Stored(configs') = Without(n)
                 /\ 0 \in Primaries /\ Unfinished(Stored(configs)) = {}
                 /\ pc = "deleteAllConfigs"

\* A write of Robin.
Moved ==
  \E c \in Stored(configs) :
    RobinStarts(c) \/ RobinSupersedes(c) \/ RobinApplies(c) \/ RobinReports(c)

\* A write of the configs stores what is written.
LEMMA ConfigsWritten ==
  ASSUME Going, NEW T \in ConfigSets, WriteConfigs(T)
  PROVE  Stored(configs') = T
BY GoingFacts, PublishFeed DEF WriteConfigs

\* createNewConfig and createZeroConfig.
LEMMA StoredCreate ==
  ASSUME Going, NEW l \in {list, Cached(configs)}, CreateConfig(NewConfig(cluster, l)),
         \/ pc = "createZeroConfig" /\ l = list
         \/ /\ pc = "createNewConfig" /\ l = Cached(configs)
            /\ l # {} => needsNewConfig(cluster, HighestSeq(l))
  PROVE  Stored(configs') = Stored(configs) \/ Created
<1>. DEFINE c == NewConfig(cluster, l)
<1>1. cluster \in RedkeyType /\ l \in ConfigSets /\ Stored(configs) \in ConfigSets
  BY GoingFacts DEF Going, TypeInv
<1>2. c \in ConfigType /\ c.generation = cluster.generation /\ c.primaries = cluster.primaries
  BY <1>1, NewConfigType DEF NewConfig
<1>8. c.status \notin Operations
  BY Zenon DEF NewConfig, Operations
<1>3. ASSUME \A d \in Stored(configs) : d.sequence # c.sequence
      PROVE  OnTop(c, Stored(configs))
  BY <1>3, NewConfigOnTop, ZeroConfigOnTop
<1>. HIDE DEF c
<1>4. Stored(configs) \cup {c} \in ConfigSets
  BY <1>1, <1>2, ConfigSetsClosed
<1>5. CreateConfig(c)
  BY DEF c
<1>6. CASE UNCHANGED configs
  BY <1>6
<1>7. CASE (\A d \in Stored(configs) : d.sequence # c.sequence)
           /\ WriteConfigs(Stored(configs) \cup {c})
  BY <1>2, <1>3, <1>4, <1>7, <1>8, ConfigsWritten DEF Created
<1>. QED
  BY <1>5, <1>6, <1>7 DEF CreateConfig

\* cleanupSupersededConfigs and deleteAllConfigs.
LEMMA StoredDelete ==
  ASSUME Going
  PROVE  /\ CleanupSupersededConfigs => Cleaned
         /\ DeleteAllConfigs => Emptied
<1>0. list \in ConfigSets /\ Stored(configs) \in ConfigSets
  BY GoingFacts
<1>1. \A n : Without(n) \in ConfigSets
  BY <1>0, ConfigSetsClosed DEF Without
<1>2. ASSUME NEW c, DeleteConfig(c) PROVE Stored(configs') = Without(c.sequence)
  BY <1>1, <1>2, ConfigsWritten DEF DeleteConfig, Without
<1>3. ASSUME CleanupSupersededConfigs PROVE Cleaned
  <2>. DEFINE n == LowestSeq(list).sequence
  <2>1. pc = "cleanupSupersededConfigs" /\ Stored(configs') = Without(n)
    BY <1>2, <1>3 DEF CleanupSupersededConfigs
  <2>2. ListInv /\ n \in Nat /\ \E a \in list : a.configPhase = "Applied" /\ n < a.sequence
    BY <2>1, CleanupTarget
  <2>. HIDE DEF n
  <2>3. PICK a \in list : a.configPhase = "Applied" /\ n < a.sequence
    BY <2>2
  <2>4. Follows(list, Stored(configs))
    BY <2>2, GoingFacts DEF ListInv
  <2>5. \E b \in Without(n) : b.configPhase = "Applied" /\ n < b.sequence
    <3>1. PICK b \in Stored(configs) : b.configPhase = "Applied" /\ a.sequence <= b.sequence
      BY <2>3, <2>4 DEF Follows
    <3>2. a.sequence \in Nat /\ b.sequence \in Nat
      BY <1>0, <2>3, <3>1, ConfigNumbers
    <3>3. n < b.sequence /\ b.sequence # n
      BY <2>2, <2>3, <3>1, <3>2
    <3>4. b \in Without(n)
      BY <3>1, <3>3 DEF Without
    <3>. QED
      BY <3>1, <3>3, <3>4
  <2>. QED
    BY <2>1, <2>2, <2>5 DEF Cleaned
<1>4. ASSUME DeleteAllConfigs PROVE Emptied
  <2>1. PICK c \in list : DeleteConfig(c)
    BY <1>4 DEF DeleteAllConfigs
  <2>2. c.sequence \in Nat
    BY <1>0, ConfigNumbers
  <2>3. pc = "deleteAllConfigs" /\ cluster.primaries = 0 /\ Unfinished(Stored(configs)) = {}
    BY <1>4, GoingFacts DEF DeleteAllConfigs, ControlInv, ZeroInv
  <2>4. CopiesInv /\ cluster \in Copies
    BY <2>3, GoingFacts DEF Copies
  <2>5. 0 \in Primaries
    BY <2>3, <2>4 DEF CopiesInv
  <2>. QED
    BY <1>2, <2>1, <2>2, <2>3, <2>5 DEF Emptied
<1>. QED
  BY <1>3, <1>4

\* Every step of a Redkey that is not deleted.
LEMMA StoredStep ==
  ASSUME Going, [Next]_vars
  PROVE  \/ Stored(configs') = Stored(configs)
         \/ UNCHANGED redkeys /\ (Created \/ Cleaned \/ Emptied \/ Moved)
<1>1. CASE UNCHANGED configs
  BY <1>1
<1>2. CASE ReconcileStep
  <2>1. CASE CreateNewConfig
    <3>1. CASE /\ Cached(configs) # {} => needsNewConfig(cluster, HighestSeq(Cached(configs)))
               /\ CreateConfig(NewConfig(cluster, Cached(configs)))
      BY <2>1, <3>1, StoredCreate DEF CreateNewConfig
    <3>. QED
      BY <2>1, <3>1, <1>1 DEF CreateNewConfig
  <2>2. CASE CreateZeroConfig
    BY <2>2, StoredCreate DEF CreateZeroConfig
  <2>3. CASE CleanupSupersededConfigs \/ DeleteAllConfigs
    BY <2>3, StoredDelete DEF CleanupSupersededConfigs, DeleteAllConfigs
  <2>. QED
    BY <1>1, <1>2, <2>1, <2>2, <2>3
     DEF ReconcileStep, StartReconcile, ReconcileGone, EnsureRBAC, EnsureRobinDeployment,
         ListConfigs, AggregateStatus, UpdateStatusScaledToZero,
         DeleteRobinDeployment, DeleteRBAC, ListAllConfigs, storeVars, vars
<1>3. CASE DeliverConfigs
  BY <1>3, GoingFacts, DeliverFeed DEF DeliverConfigs
<1>4. CASE Restart
  BY <1>4 DEF Restart, Stored
<1>5. CASE RobinActs
  BY <1>5, ConfigsRobin DEF RobinActs, RobinStep, Moved
<1>6. CASE Collect
  BY <1>6 DEF Collect, CollectConfig, CollectRobin, Going, Alive
<1>7. CASE (\E p \in Primaries : EditSpec(p)) \/ DeleteRedkey \/ DeliverRedkey
           \/ (\E o \in RobinObjects : DeliverRobin(o)) \/ ReconcileFails \/ UNCHANGED vars
  BY <1>7, <1>1 DEF EditSpec, DeleteRedkey, DeliverRedkey, DeliverRobin, ReconcileFails,
         storeVars, localVars, vars
<1>. QED
  BY <1>2, <1>3, <1>4, <1>5, <1>6, <1>7 DEF Next, Deliver

------------------------------------------------------------------------------
(* The theorems. *)

\* Robin gets the generations in the order the user asked for them, each once:
\* the lists needsNewConfig and createNewConfig decide on may be stale.
THEOREM ConfigsInOrder == Regime /\ Spec => []SequencesFollowGenerations
<1>1. Inv => SequencesFollowGenerations
  <2>. SUFFICES ASSUME Inv, Alive PROVE SequencesFollowGenerations
    BY DEF SequencesFollowGenerations, Alive
  <2>1. FeedInv(configs) /\ Len(configs) \in Nat \ {0}
    BY FeedEnds DEF Inv, PipelineInv, TypeInv
  <2>2. WellFormed(Stored(configs))
    <3>1. Len(configs) \in 1..Len(configs)
      BY <2>1
    <3>. QED
      BY <2>1, <3>1 DEF FeedInv, Stored
  <2>. QED
    BY <2>2 DEF WellFormed, SequencesFollowGenerations
<1>. QED
  BY <1>1, PipelineInductive, PTL

\* What cleanupSupersededConfigs deletes was done and is not the baseline.
LEMMA CleanupStep ==
  ASSUME Going, [Next]_vars, pc = "cleanupSupersededConfigs",
         NEW c \in Removed(Stored(configs), Stored(configs'))
  PROVE  /\ isTerminalConfigPhase(c.configPhase)
         /\ \E d \in Stored(configs') : d.configPhase = "Applied" /\ d.sequence > c.sequence
<1>1. c \in Stored(configs) /\ \A d \in Stored(configs') : d.sequence # c.sequence
  BY DEF Removed
<1>2. ~Created
  BY <1>1 DEF Created
<1>3. ~Moved
  <2>1. Moved => Evolves(Stored(configs), Stored(configs'))
    BY ConfigsRobin DEF Moved
  <2>. QED
    BY <2>1, <1>1 DEF Evolves
<1>4. ~Emptied
  BY DEF Emptied
<1>5. Cleaned
  BY <1>1, <1>2, <1>3, <1>4, StoredStep
<1>6. PICK n \in Nat : /\ Stored(configs') = Without(n)
                       /\ \E b \in Without(n) : b.configPhase = "Applied" /\ n < b.sequence
  BY <1>5 DEF Cleaned
<1>7. PICK b \in Without(n) : b.configPhase = "Applied" /\ n < b.sequence
  BY <1>6
<1>8. c.sequence = n
  BY <1>1, <1>6 DEF Without
<1>9. WellFormed(Stored(configs)) /\ Stored(configs) \in ConfigSets
  BY GoingFacts
<1>10. b \in Stored(configs) /\ b.sequence \in Nat
  BY <1>7, <1>9, ConfigNumbers DEF Without
<1>11. isTerminalConfigPhase(c.configPhase)
  BY <1>1, <1>7, <1>8, <1>9, <1>10 DEF WellFormed
<1>. QED
  BY <1>6, <1>7, <1>8, <1>10, <1>11

\* The invariant, at a step of a Redkey that is not deleted.
LEMMA StepGoing ==
  ASSUME Regime, Inv, Inv', Alive
  PROVE  Going
BY DEF Inv, Going

\* cleanupSupersededConfigs deletes only configs that Robin has finished, though
\* the list it works through may be stale, and names, not objects, are deleted.
THEOREM CleanupDone == Regime /\ Spec => CleanupDeletesOnlyDone
<1>. SUFFICES ASSUME Regime PROVE Spec => CleanupDeletesOnlyDone
  OBVIOUS
<1>1. Inv /\ Inv' /\ [Next]_vars
      => [pc = "cleanupSupersededConfigs" /\ Stored(redkeys).deletion = "" =>
            \A c \in Removed(Stored(configs), Stored(configs)') :
              isTerminalConfigPhase(c.configPhase)]_vars
  BY StepGoing, CleanupStep DEF Alive
<1>. QED
  BY <1>1, PipelineInductive, PTL DEF Spec, CleanupDeletesOnlyDone

\* And it keeps the last Applied config.
THEOREM CleanupBaseline == Regime /\ Spec => CleanupKeepsBaseline
<1>. SUFFICES ASSUME Regime PROVE Spec => CleanupKeepsBaseline
  OBVIOUS
<1>1. Inv /\ Inv' /\ [Next]_vars
      => [pc = "cleanupSupersededConfigs" /\ Stored(redkeys).deletion = "" =>
            \A c \in Removed(Stored(configs), Stored(configs)') :
              \E d \in Stored(configs)' : d.configPhase = "Applied" /\ d.sequence > c.sequence]_vars
  BY StepGoing, CleanupStep DEF Alive
<1>. QED
  BY <1>1, PipelineInductive, PTL DEF Spec, CleanupKeepsBaseline

\* Who takes the Deployment away while the Redkey is not deleted.
LEMMA DeploymentStep ==
  ASSUME TypeInv, Alive, [Next]_vars, "Deployment" \in robin, "Deployment" \notin robin'
  PROVE  DeleteRobinDeployment
<1>1. \A n \in 1..3 : "Deployment" \notin RBACUpTo(n)
  BY DEF RBACUpTo, RBACObjects
<1>2. RBACKinds \in 1..3
  BY RBACKindsAssumption
<1>3. ~DeleteRBAC
  <2>1. CASE robin' = robin \ RBACUpTo(RBACKinds)
    BY <2>1, <1>1, <1>2
  <2>2. CASE \E n \in 1..RBACKinds :
               robin' = robin \ (RobinObjects \ (RBACUpTo(n) \cup {"Deployment"}))
    BY <2>2
  <2>. QED
    BY <2>1, <2>2 DEF DeleteRBAC
<1>4. CASE ReconcileStep
  <2>1. ~UNCHANGED robin
    OBVIOUS
  <2>2. ~EnsureRBAC /\ ~EnsureRobinDeployment
    BY DEF EnsureRBAC, EnsureRobinDeployment
  <2>. QED
    BY <2>1, <2>2, <1>3, <1>4
     DEF ReconcileStep, StartReconcile, ReconcileGone, CreateNewConfig, CreateZeroConfig,
         ListConfigs, CleanupSupersededConfigs, AggregateStatus, UpdateStatusScaledToZero,
         ListAllConfigs, DeleteAllConfigs, storeVars, vars
<1>5. ~Collect
  BY DEF Collect, CollectConfig, CollectRobin, Alive
<1>6. CASE (\E p \in Primaries : EditSpec(p)) \/ DeleteRedkey \/ Deliver
           \/ ReconcileFails \/ Restart \/ RobinActs \/ UNCHANGED vars
  BY <1>6 DEF EditSpec, DeleteRedkey, Deliver, DeliverRedkey, DeliverConfigs, DeliverRobin,
         ReconcileFails, Restart, RobinActs, RobinStep, RobinStarts, RobinSupersedes,
         RobinApplies, RobinReports, RobinWrites, storeVars, localVars, vars
<1>. QED
  BY <1>4, <1>5, <1>6 DEF Next

\* Case C of scale-to-zero takes Robin away only when Robin has nothing left to
\* do, provided the list reconcileScaleToZero decides on is not stale.  The code
\* does not provide for that (run RobinRemovedAtWork); what it does is to decide
\* and delete in one reconcile, and only reconciles create configs: so a stale
\* Redkey, an edit, a failure or a restart between the two does no harm.
THEOREM RobinStays == ConfigLag = 0 /\ Spec => RobinOutlivesWork
<1>. SUFFICES ASSUME ConfigLag = 0 PROVE Spec => RobinOutlivesWork
  OBVIOUS
<1>1. Regime
  BY DEF Regime
<1>2. ASSUME Inv, Inv', [Next]_vars, "Deployment" \in robin \ robin', Alive
      PROVE  Unfinished(Stored(configs)) = {}
  <2>1. Going /\ DeleteRobinDeployment
    BY <1>1, <1>2, StepGoing, DeploymentStep DEF Inv
  <2>. QED
    BY <2>1, GoingFacts DEF DeleteRobinDeployment, ZeroInv
<1>3. Inv /\ Inv' /\ [Next]_vars
      => ["Deployment" \in robin \ robin' /\ Stored(redkeys).deletion = ""
          => Unfinished(Stored(configs)) = {}]_vars
  BY <1>2 DEF Alive
<1>. QED
  BY <1>3, <1>1, PipelineInductive, PTL DEF Spec, RobinOutlivesWork

------------------------------------------------------------------------------
(* What the status says. *)

\* aggregateStatus is accepted.
StatusWritten ==
  /\ pc = "aggregateStatus" /\ Stored(redkeys).deletion # "gone"
  /\ LET active == selectActiveConfig(list)
         r == Stored(redkeys)
         t == Stored(redkeys')
     IN  /\ t.generation = r.generation /\ t.primaries = r.primaries
         /\ t.observedGeneration = cluster.generation
         /\ t.phase = computePhaseFromConditions(aggregateConditions(active))
         /\ t.status = active.status
         /\ t.lastAppliedPrimaries = RecordedTopology(active, r.lastAppliedPrimaries)
  /\ UNCHANGED configs /\ Return

\* updateStatusScaledToZero is accepted.
ScaledToZeroWritten ==
  /\ pc = "updateStatusScaledToZero" /\ cluster = Stored(redkeys)
  /\ Stored(redkeys').status \notin Operations
  /\ Stored(redkeys').primaries = Stored(redkeys).primaries
  /\ Stored(redkeys').lastAppliedPrimaries = Stored(redkeys).lastAppliedPrimaries
  /\ UNCHANGED configs /\ Return

\* The two writes of the status.
LEMMA StatusWrites ==
  ASSUME TypeInv
  PROVE  /\ AggregateStatus => UNCHANGED redkeys \/ StatusWritten
         /\ UpdateStatusScaledToZero => UNCHANGED redkeys \/ ScaledToZeroWritten
<1>0. Stored(redkeys) \in RedkeyType /\ cluster \in RedkeyType /\ cluster.generation \in Nat
  BY EndsType DEF TypeInv, RedkeyType
<1>1. ASSUME AggregateStatus, redkeys' # redkeys PROVE StatusWritten
  <2>. DEFINE r == Stored(redkeys)
              active == selectActiveConfig(list)
              v == AggregatedStatus(r, cluster.generation, active)
  <2>1. /\ WriteRedkey(v) /\ pc = "aggregateStatus" /\ r.deletion # "gone"
        /\ UNCHANGED configs /\ Return
    BY <1>1 DEF AggregateStatus
  <2>2. list \in ConfigSets /\ list # {}
    BY <2>1 DEF TypeInv
  <2>3. v \in RedkeyType
    BY <2>2, <1>0, ChosenConfigs, AggregatedStatusType
  <2>4. /\ v.generation = r.generation /\ v.primaries = r.primaries
        /\ v.observedGeneration = cluster.generation
        /\ v.phase = computePhaseFromConditions(aggregateConditions(active))
        /\ v.status = active.status
        /\ v.lastAppliedPrimaries = RecordedTopology(active, r.lastAppliedPrimaries)
    BY <1>0 DEF AggregatedStatus, RedkeyType
  <2>. HIDE DEF v
  <2>5. Stored(redkeys') = v
    BY <2>1, <2>3, RedkeyWritten
  <2>. QED
    BY <2>1, <2>4, <2>5 DEF StatusWritten
<1>2. ASSUME UpdateStatusScaledToZero, redkeys' # redkeys PROVE ScaledToZeroWritten
  <2>. DEFINE v == [cluster EXCEPT !.phase = "Ready", !.status = "",
                                   !.observedGeneration = cluster.generation]
  <2>1. /\ WriteRedkey(v) /\ pc = "updateStatusScaledToZero" /\ cluster = Stored(redkeys)
        /\ UNCHANGED configs /\ Return
    BY <1>2 DEF UpdateStatusScaledToZero
  <2>2. /\ v \in RedkeyType /\ v.primaries = cluster.primaries
        /\ v.lastAppliedPrimaries = cluster.lastAppliedPrimaries
    BY <1>0 DEF RedkeyType, RedkeyPhases, ConfigStatuses
  <2>4. v.status \notin Operations
    BY <1>0, Zenon DEF RedkeyType, Operations
  <2>. HIDE DEF v
  <2>3. Stored(redkeys') = v
    BY <2>1, <2>2, RedkeyWritten
  <2>. QED
    BY <2>1, <2>2, <2>3, <2>4 DEF ScaledToZeroWritten
<1>. QED
  BY <1>1, <1>2

\* Every step.
LEMMA StatusStep ==
  ASSUME TypeInv, [Next]_vars
  PROVE  \/ Stored(redkeys') = Stored(redkeys)
         \/ SpecEdited \/ RedkeyDeleted \/ StatusWritten \/ ScaledToZeroWritten
<1>1. CASE UNCHANGED redkeys
  BY <1>1
<1>2. CASE ReconcileStep
  BY <1>1, <1>2, StatusWrites
     DEF ReconcileStep, StartReconcile, ReconcileGone, EnsureRBAC, EnsureRobinDeployment,
         CreateNewConfig, CreateZeroConfig, ListConfigs, CleanupSupersededConfigs,
         DeleteRobinDeployment, DeleteRBAC, ListAllConfigs, DeleteAllConfigs, storeVars, vars
<1>3. CASE DeliverRedkey
  BY <1>3, DeliverFeed DEF DeliverRedkey, TypeInv
<1>4. CASE Restart
  BY <1>4 DEF Restart, Stored
<1>5. CASE (\E p \in Primaries : EditSpec(p)) \/ DeleteRedkey
  BY <1>5, RedkeyUserStep
<1>6. CASE Collect \/ DeliverConfigs \/ (\E o \in RobinObjects : DeliverRobin(o))
           \/ ReconcileFails \/ RobinActs \/ UNCHANGED vars
  BY <1>1, <1>6 DEF Collect, CollectConfig, CollectRobin, DeliverConfigs, DeliverRobin,
         ReconcileFails, RobinActs, RobinStep, RobinStarts, RobinSupersedes, RobinApplies,
         RobinReports, RobinWrites, storeVars, vars
<1>. QED
  BY <1>2, <1>3, <1>4, <1>5, <1>6 DEF Next, Deliver

\* The active config, if it is shown as done, is stored with that phase.
LEMMA ActiveDone ==
  ASSUME Going, pc = "aggregateStatus", NEW a, a = selectActiveConfig(list),
         isTerminalConfigPhase(a.configPhase)
  PROVE  \E d \in Stored(configs) : d.configPhase = a.configPhase /\ d.primaries = a.primaries
<1>1. ListInv /\ list \in ConfigSets /\ list # {}
  BY DEF Going, PipelineInv, TypeInv
<1>2. a \in list
  BY <1>1, ChosenConfigs
<1>3. \E d \in Stored(configs) : d.sequence = a.sequence
  <2>1. CASE cluster.primaries # 0
    <3>1. SupersededConfigs(list) = {}
      BY <2>1, GoingFacts DEF ControlInv
    <3>. QED
      BY <3>1, <1>1, <1>2 DEF ListInv, Kept
  <2>2. CASE cluster.primaries = 0
    BY <2>2, <1>2, GoingFacts DEF ZeroInv, Mirrors
  <2>. QED
    BY <2>1, <2>2
<1>4. Follows(list, Stored(configs))
  BY <1>1, GoingFacts DEF ListInv
<1>. QED
  BY <1>2, <1>3, <1>4 DEF Follows, SameWork

\* The topology the scale-from-zero lock compares with is the topology of a config
\* that is Applied when aggregateStatus records it, though the list it is read
\* from may be stale, and it is never cleared.
THEOREM LastApplied == Regime /\ Spec => LastAppliedFollowsApplied
<1>. SUFFICES ASSUME Regime PROVE Spec => LastAppliedFollowsApplied
  OBVIOUS
<1>. DEFINE last == Stored(redkeys).lastAppliedPrimaries
            next == Stored(redkeys)'.lastAppliedPrimaries
<1>1. ASSUME Inv, Inv', [Next]_vars, next # last
      PROVE  next > 0 /\ \E c \in Stored(configs) : c.configPhase = "Applied" /\ c.primaries = next
  <2>1. StatusWritten
    BY <1>1, StatusStep DEF SpecEdited, RedkeyDeleted, ScaledToZeroWritten, Inv
  <2>2. Going
    BY <1>1, <2>1, StepGoing DEF StatusWritten, Inv, PipelineInv
  <2>. DEFINE a == selectActiveConfig(list)
  <2>3. pc = "aggregateStatus" /\ next = RecordedTopology(a, last)
    BY <2>1 DEF StatusWritten
  <2>4. a.configPhase = "Applied" /\ a.primaries > 0 /\ next = a.primaries
    BY <2>3, <1>1 DEF RecordedTopology
  <2>. QED
    BY <2>2, <2>3, <2>4, ActiveDone DEF isTerminalConfigPhase
<1>2. Inv /\ Inv' /\ [Next]_vars
      => [LET last1 == Stored(redkeys).lastAppliedPrimaries
              next1 == Stored(redkeys)'.lastAppliedPrimaries
          IN  next1 # last1 =>
                /\ next1 > 0
                /\ \E c \in Stored(configs) : c.configPhase = "Applied" /\ c.primaries = next1]_vars
  BY <1>1
<1>. QED
  BY <1>2, PipelineInductive, PTL DEF Spec, LastAppliedFollowsApplied

------------------------------------------------------------------------------
(* A generation recorded as observed has its config, as long as the config     *)
(* informer does not lag (with a lag it may not: run LostGeneration).          *)

HasConfig(g) == \E c \in Stored(configs) : c.generation = g

\* No copy of the newest generation claims to be observed without its config,
\* and past createNewConfig the config exists.
ObservedConfigInv ==
  Alive =>
    /\ \A r \in Copies : r.primaries # 0 /\ r.observedGeneration >= r.generation
                         /\ r.generation = Stored(redkeys).generation
                         => HasConfig(r.generation)
    /\ pc \in {"listConfigs", "cleanupSupersededConfigs", "aggregateStatus"}
       /\ cluster.primaries # 0 /\ cluster.generation = Stored(redkeys).generation
       => HasConfig(cluster.generation)

\* The config of the newest generation goes only when the cluster is emptied.
LEMMA NewestConfigStays ==
  ASSUME Going, [Next]_vars, HasConfig(Stored(redkeys).generation), ~Emptied
  PROVE  \E d \in Stored(configs') : d.generation = Stored(redkeys).generation
<1>. DEFINE g == Stored(redkeys).generation
            S == Stored(configs)
            T == Stored(configs')
<1>1. PICK c \in S : c.generation = g
  BY DEF HasConfig
<1>2. \E d \in T : d.generation = g
  <2>1. CASE T = S
    BY <2>1, <1>1
  <2>2. CASE Created
    BY <2>2, <1>1 DEF Created
  <2>3. CASE Moved
    <3>1. Evolves(S, T)
      BY <2>3, ConfigsRobin DEF Moved
    <3>. QED
      BY <3>1, <1>1 DEF Evolves, SameWork
  <2>4. CASE Cleaned
    <3>1. PICK n \in Nat : /\ T = Without(n)
                           /\ \E b \in Without(n) : b.configPhase = "Applied" /\ n < b.sequence
      BY <2>4 DEF Cleaned
    <3>2. PICK b \in S : n < b.sequence
      BY <3>1 DEF Without
    <3>3. WellFormed(S) /\ S \in ConfigSets /\ CopiesInv
      BY GoingFacts
    <3>4. Stored(redkeys) \in Copies
      BY FeedVersions DEF Copies, Going, TypeInv
    <3>5. b.generation <= g /\ b.generation \in Nat /\ g \in Nat
      BY <3>2, <3>3, <3>4, ConfigNumbers, ObservedTypes DEF CopiesInv, Going
    <3>6. ~(c.generation < b.generation)
      BY <3>5, <1>1
    <3>7. c.sequence # n
      BY <3>2, <3>3, <3>6, <1>1 DEF WellFormed
    <3>. QED
      BY <3>1, <3>7, <1>1 DEF Without
  <2>. QED
    BY <2>1, <2>2, <2>3, <2>4, StoredStep
<1>. QED
  BY <1>2

\* createNewConfig on a list that is not stale leaves a config for its generation.
LEMMA CreateNewConfigNoLag ==
  ASSUME Going, ConfigLag = 0, ObservedConfigInv, CreateNewConfig,
         cluster.generation = Stored(redkeys).generation
  PROVE  \E d \in Stored(configs') : d.generation = cluster.generation
<1>. DEFINE S == Stored(configs)
            h == HighestSeq(S)
<1>0. pc = "createNewConfig" /\ cluster.primaries # 0
  BY GoingFacts DEF CreateNewConfig, ControlInv
<1>1. Cached(configs) = S /\ S \in ConfigSets /\ CopiesInv /\ cluster \in RedkeyType
  BY GoingFacts DEF Going, PipelineInv, TypeInv
<1>2. S # {} => h \in S /\ \A d \in S : d.sequence <= h.sequence
  BY <1>1, ListEnds
<1>3. \A d \in S : d.sequence \in Nat /\ d.generation \in Nat
  BY <1>1, ConfigNumbers
<1>4. cluster.generation \in Nat /\ cluster.observedGeneration \in Nat
  BY <1>1 DEF RedkeyType
<1>5. cluster \in Copies
  BY <1>0 DEF Copies
<1>6. CASE CreateConfig(NewConfig(cluster, S))
  <2>. DEFINE c == NewConfig(cluster, S)
  <2>1. c \in ConfigType /\ c.generation = cluster.generation
    BY <1>1, NewConfigType DEF NewConfig
  <2>2. S # {} => c.sequence = h.sequence + 1
    BY DEF NewConfig
  <2>. HIDE DEF c, h, S
  <2>3. \A d \in S : d.sequence # c.sequence
    BY <2>2, <1>2, <1>3
  <2>4. WriteConfigs(S \cup {c})
    BY <2>3, <1>6 DEF CreateConfig, c, S
  <2>5. S \cup {c} \in ConfigSets
    BY <2>1, <1>1, ConfigSetsClosed
  <2>6. Stored(configs') = S \cup {c}
    BY <2>4, <2>5, ConfigsWritten
  <2>. QED
    BY <2>1, <2>6
<1>7. CASE S # {} /\ ~needsNewConfig(cluster, h) /\ UNCHANGED configs
  <2>1. CASE cluster.generation <= h.generation
    BY <2>1, <1>1, <1>2, <1>3, <1>4, <1>5, <1>7, SMTT(30) DEF CopiesInv
  <2>2. CASE cluster.generation <= cluster.observedGeneration
    <3>1. HasConfig(cluster.generation)
      BY <2>2, <1>0, <1>4, <1>5 DEF ObservedConfigInv, Going
    <3>. QED
      BY <3>1, <1>7 DEF HasConfig
  <2>. QED
    BY <2>1, <2>2, <1>2, <1>3, <1>4, <1>7 DEF needsNewConfig
<1>. QED
  BY <1>1, <1>6, <1>7 DEF CreateNewConfig

\* The way to the status of a cluster with primaries leads through createNewConfig.
LEMMA StatusPath ==
  ASSUME [Next]_vars, cluster'.primaries # 0,
         pc' \in {"listConfigs", "cleanupSupersededConfigs", "aggregateStatus"}
  PROVE  /\ cluster' = cluster
         /\ \/ pc \in {"listConfigs", "cleanupSupersededConfigs", "aggregateStatus"}
            \/ CreateNewConfig
<1>1. CASE UNCHANGED <<pc, cluster>>
  BY <1>1
<1>2. CASE ReconcileStep
  <2>1. ~(StartReconcile \/ EnsureRBAC)
    BY DEF StartReconcile, EnsureRBAC, Return, Goto
  <2>2. ~EnsureRobinDeployment
    BY DEF EnsureRobinDeployment, AfterEnsure, Return, Goto
  <2>3. CASE CreateNewConfig \/ ListConfigs \/ CleanupSupersededConfigs
    BY <2>3 DEF CreateNewConfig, ListConfigs, CleanupSupersededConfigs, AfterList, Return, Goto
  <2>4. ~(CreateZeroConfig \/ AggregateStatus \/ UpdateStatusScaledToZero)
    BY DEF CreateZeroConfig, AggregateStatus, UpdateStatusScaledToZero, Return, Goto
  <2>5. ~(DeleteRobinDeployment \/ DeleteRBAC \/ ListAllConfigs \/ DeleteAllConfigs)
    BY DEF DeleteRobinDeployment, DeleteRBAC, ListAllConfigs, DeleteAllConfigs,
           AfterDelete, Return, Goto
  <2>6. CASE ReconcileGone
    BY <2>6, <1>1 DEF ReconcileGone, vars
  <2>. QED
    BY <1>2, <2>1, <2>2, <2>3, <2>4, <2>5, <2>6 DEF ReconcileStep
<1>3. ~(ReconcileFails \/ Restart)
  BY DEF ReconcileFails, Restart, Return, Goto
<1>4. CASE (\E p \in Primaries : EditSpec(p)) \/ DeleteRedkey \/ Collect \/ Deliver
           \/ RobinActs \/ UNCHANGED vars
  BY <1>1, <1>4 DEF EditSpec, DeleteRedkey, Collect, CollectConfig, CollectRobin, Deliver,
         DeliverRedkey, DeliverConfigs, DeliverRobin, RobinActs, RobinStep, RobinStarts,
         RobinSupersedes, RobinApplies, RobinReports, RobinWrites, localVars, vars
<1>. QED
  BY <1>2, <1>3, <1>4 DEF Next

\* The copies after a step: those of before and what is written.
LEMMA CopiesAfter ==
  ASSUME Going, [Next]_vars, SpecKept \/ SpecEdited
  PROVE  /\ Copies' \subseteq Copies \cup {Stored(redkeys')}
         /\ Copies \subseteq RedkeyType /\ Stored(redkeys') \in RedkeyType
         /\ Stored(redkeys) \in Copies /\ (pc # "idle" => cluster \in Copies)
<1>1. /\ redkeys \in Seq(RedkeyType) /\ redkeys # <<>> /\ cluster \in RedkeyType
      /\ redkeys' \in Seq(RedkeyType) /\ redkeys' # <<>>
  BY DEF Going, TypeInv
<1>2. /\ Stored(redkeys) \in Versions(redkeys) /\ Cached(redkeys) \in Versions(redkeys)
      /\ Versions(redkeys) \subseteq RedkeyType /\ Stored(redkeys') \in RedkeyType
  BY <1>1, FeedVersions, FeedEnds
<1>. QED
  BY <1>1, <1>2, LocalStep DEF Copies, SpecKept, SpecEdited

\* The observed generations of the copies, while a reconcile runs and before.
LEMMA ObservedCopies ==
  ASSUME Going
  PROVE  /\ Stored(redkeys).observedGeneration <= Stored(redkeys).generation
         /\ pc # "idle" => \A r \in Versions(redkeys) : r.observedGeneration <= cluster.generation
<1>1. /\ redkeys \in Seq(RedkeyType) /\ redkeys # <<>> /\ ObservedInv
  BY DEF Going, TypeInv
<1>2. /\ Len(redkeys) \in Nat /\ Len(redkeys) > 0
      /\ \A i \in 1..Len(redkeys) : /\ redkeys[i].generation \in Nat
                                    /\ redkeys[i].observedGeneration \in Nat
  BY <1>1, FeedGenerations
<1>3. Cached(redkeys).generation <= Stored(redkeys).generation
  BY <1>1, <1>2 DEF ObservedInv, GenerationsOrdered, Cached, Stored
<1>4. Stored(redkeys).observedGeneration <= Cached(redkeys).generation
  BY <1>1, <1>2 DEF ObservedInv, ObservedBelow, Stored
<1>5. Stored(redkeys).observedGeneration <= Stored(redkeys).generation
  BY <1>2, <1>3, <1>4 DEF Cached, Stored
<1>6. pc # "idle" => \A r \in Versions(redkeys) : r.observedGeneration <= cluster.generation
  BY <1>1 DEF ObservedInv, ObservedBelow, Versions
<1>. QED
  BY <1>5, <1>6

\* Every step keeps ObservedConfigInv.
LEMMA ObservedConfigStep ==
  ASSUME Going, Alive', [Next]_vars, ConfigLag = 0, ObservedConfigInv
  PROVE  ObservedConfigInv'
<1>. DEFINE g == Stored(redkeys).generation
            t == Stored(redkeys')
            S == Stored(configs)
            T == Stored(configs')
            Later == {"listConfigs", "cleanupSupersededConfigs", "aggregateStatus"}
<1>1. SpecKept \/ SpecEdited
  BY RedkeyStep DEF RedkeyDeleted, Going
<1>2. /\ Copies' \subseteq Copies \cup {t} /\ Stored(redkeys) \in Copies
      /\ pc # "idle" => cluster \in Copies
      /\ CopiesInv /\ TypeInv
  BY <1>1, CopiesAfter, GoingFacts DEF Going
<1>3. /\ \A r \in Copies \cup {t} : r.generation \in Nat /\ r.observedGeneration \in Nat
      /\ \A r \in Copies : r.generation <= g
      /\ g \in Nat
  <2>1. \A r \in Copies \cup {t} : r.generation \in Nat /\ r.observedGeneration \in Nat
    BY <1>1, CopiesAfter DEF RedkeyType
  <2>. QED
    BY <2>1, <1>2 DEF CopiesInv
<1>4. /\ \A r \in Copies : r.primaries # 0 /\ r.observedGeneration >= r.generation
                           /\ r.generation = g => \E d \in S : d.generation = g
      /\ pc \in Later /\ cluster.primaries # 0 /\ cluster.generation = g
         => \E d \in S : d.generation = g
  BY DEF ObservedConfigInv, HasConfig, Going
<1>5. (\E d \in S : d.generation = g) /\ ~Emptied => \E d \in T : d.generation = g
  BY NewestConfigStays DEF HasConfig
<1>6. SUFFICES /\ \A r \in Copies' : r.primaries # 0 /\ r.observedGeneration >= r.generation
                                     /\ r.generation = t.generation
                                     => \E d \in T : d.generation = t.generation
               /\ pc' \in Later /\ cluster'.primaries # 0 /\ cluster'.generation = t.generation
                  => \E d \in T : d.generation = t.generation
  BY DEF ObservedConfigInv, HasConfig
<1>. HIDE DEF g, t, S, T
<1>7. CASE SpecEdited
  <2>1. t.generation = g + 1 /\ UNCHANGED <<pc, cluster>>
    BY <1>7 DEF SpecEdited, g, t
  <2>2. t.observedGeneration <= g
    BY <1>7, ObservedCopies DEF SpecEdited, g, t
  <2>3. \A r \in Copies' : ~(r.observedGeneration >= r.generation /\ r.generation = t.generation)
    BY <2>1, <2>2, <1>2, <1>3
  <2>4. pc' \in Later => cluster'.generation # t.generation
    BY <2>1, <1>2, <1>3
  <2>. QED
    BY <2>3, <2>4
<1>8. CASE SpecKept
  <2>0. t.generation = g /\ t.primaries = Stored(redkeys).primaries
    BY <1>8 DEF SpecKept, g, t
  <2>1. ASSUME NEW r \in Copies, r.primaries # 0, r.observedGeneration >= r.generation,
               r.generation = g
        PROVE  \E d \in T : d.generation = g
    <3>1. CASE ~Emptied
      BY <3>1, <2>1, <1>4, <1>5
    <3>2. CASE Emptied
      <4>1. pc = "deleteAllConfigs" /\ cluster.primaries = 0
        BY <3>2, GoingFacts DEF Emptied, ControlInv
      <4>2. r \in Versions(redkeys)
        BY <4>1, <2>1 DEF Copies
      <4>3. r.observedGeneration <= cluster.generation
        BY <4>1, <4>2, ObservedCopies
      <4>4. cluster.generation = r.generation
        BY <4>1, <4>3, <2>1, <1>2, <1>3
      <4>. QED
        BY <4>1, <4>4, <2>1, <1>2 DEF CopiesInv
    <3>. QED
      BY <3>1, <3>2
  <2>2. ASSUME t.primaries # 0, t.observedGeneration >= t.generation
        PROVE  \E d \in T : d.generation = g
    <3>1. CASE t = Stored(redkeys)
      BY <3>1, <2>1, <2>2, <1>2 DEF g
    <3>2. CASE StatusWritten
      <4>1. /\ pc = "aggregateStatus" /\ t.observedGeneration = cluster.generation /\ T = S
        BY <3>2 DEF StatusWritten, t, T, S
      <4>2. cluster.generation = g
        BY <4>1, <2>0, <2>2, <1>2, <1>3
      <4>3. cluster.primaries = t.primaries
        BY <4>1, <4>2, <2>0, <1>2 DEF CopiesInv, g
      <4>. QED
        BY <4>1, <4>2, <4>3, <2>2, <1>4
    <3>3. ~ScaledToZeroWritten
      <4>. SUFFICES ASSUME ScaledToZeroWritten PROVE FALSE
        OBVIOUS
      <4>1. t.primaries = cluster.primaries /\ pc = "updateStatusScaledToZero"
        BY DEF ScaledToZeroWritten, t
      <4>. QED
        BY <4>1, <2>2, GoingFacts DEF ControlInv
    <3>4. ~SpecEdited
      BY <2>0, <1>3 DEF SpecEdited, g, t
    <3>5. ~RedkeyDeleted
      BY DEF RedkeyDeleted
    <3>. QED
      BY <3>1, <3>2, <3>3, <3>4, <3>5, <1>2, StatusStep DEF t
  <2>3. ASSUME pc' \in Later, cluster'.primaries # 0, cluster'.generation = g
        PROVE  \E d \in T : d.generation = g
    <3>1. cluster' = cluster /\ (pc \in Later \/ CreateNewConfig)
      BY <2>3, StatusPath
    <3>2. CASE CreateNewConfig
      BY <3>1, <3>2, <2>3, CreateNewConfigNoLag DEF g, T
    <3>3. CASE pc \in Later
      <4>1. ~Emptied
        BY <3>3 DEF Emptied
      <4>. QED
        BY <4>1, <3>1, <3>3, <2>3, <1>4, <1>5
    <3>. QED
      BY <3>1, <3>2, <3>3
  <2>. QED
    BY <2>0, <2>1, <2>2, <2>3, <1>2
<1>. QED
  BY <1>1, <1>7, <1>8

\* A generation that observedGeneration names has its RedkeyConfig, as long as the
\* config informer does not lag: otherwise needsNewConfig would never create it.
\* The Redkey informer may lag, and calls may fail.
THEOREM ObservedHasConfig == ConfigLag = 0 /\ Spec => []ObservedGenerationHasConfig
<1>. SUFFICES ASSUME ConfigLag = 0 PROVE Spec => []ObservedGenerationHasConfig
  OBVIOUS
<1>1. Regime
  BY DEF Regime
<1>2. Init => ObservedConfigInv
  <2>. SUFFICES ASSUME Init PROVE ObservedConfigInv
    OBVIOUS
  <2>1. PICK p \in Primaries : redkeys = <<NewRedkey(p)>>
    BY DEF Init
  <2>2. Copies = {redkeys[1]} /\ pc = "idle"
    BY <2>1 DEF Init, Copies, Versions
  <2>3. redkeys[1].observedGeneration = 0 /\ redkeys[1].generation = 1
    BY <2>1 DEF NewRedkey
  <2>4. \A r \in Copies : ~(r.observedGeneration >= r.generation)
    BY <2>2, <2>3
  <2>. QED
    BY <2>2, <2>4 DEF ObservedConfigInv
<1>3. Inv /\ Inv' /\ ObservedConfigInv /\ [Next]_vars => ObservedConfigInv'
  <2>. SUFFICES ASSUME Inv, Inv', ObservedConfigInv, [Next]_vars, Alive'
                PROVE  ObservedConfigInv'
    BY DEF ObservedConfigInv
  <2>0. SpecKept => (Alive' => Alive)
    BY DEF SpecKept, Alive
  <2>1. Alive
    BY <2>0, RedkeyStep DEF Inv, SpecEdited, RedkeyDeleted
  <2>. QED
    BY <2>1, <1>1, StepGoing, ObservedConfigStep
<1>4. Inv /\ ObservedConfigInv => ObservedGenerationHasConfig
  <2>. SUFFICES ASSUME Inv, ObservedConfigInv, Alive, Stored(redkeys).primaries # 0,
                       Stored(redkeys).observedGeneration = Stored(redkeys).generation
                PROVE  \E c \in Stored(configs) : c.generation = Stored(redkeys).generation
    BY DEF ObservedGenerationHasConfig, Alive
  <2>1. Stored(redkeys) \in Copies /\ Stored(redkeys).generation \in Nat
    BY FeedVersions, ObservedTypes DEF Copies, Inv, TypeInv
  <2>. QED
    BY <2>1, SMTT(30) DEF ObservedConfigInv, HasConfig
<1>. QED
  BY <1>1, <1>2, <1>3, <1>4, PipelineInductive, PTL DEF Spec

------------------------------------------------------------------------------
(* A Ready Redkey has a baseline, when the cluster is not scaled to zero and   *)
(* skipIfSuperseded is off.  Both are needed: a Superseded config counts as    *)
(* ready, so that a Redkey can be Ready with no config Applied, and a cluster  *)
(* at zero is Ready without configs and stays so just after it is woken.       *)

BaselineInv ==
  Alive =>
    /\ \A c \in Stored(configs) : c.configPhase # "Superseded"
    /\ Stored(redkeys).phase = "Ready" => \E c \in Stored(configs) : c.configPhase = "Applied"

\* Robin has put config c into the phase.
RobinPuts(c, phase) ==
  /\ \E e \in ConfigType : /\ e.sequence = c.sequence /\ e.generation = c.generation
                           /\ e.primaries = c.primaries /\ e.configPhase = phase
                           /\ Stored(configs') = (Stored(configs) \ {c}) \cup {e}
  /\ UNCHANGED redkeys

\* A write of Robin changes one config, and of it the status.
LEMMA RobinPutsPhase ==
  ASSUME Going, NEW c \in Stored(configs), NEW phase \in ConfigPhases,
         NEW status \in ConfigStatuses, NEW healthy \in HealthReports,
         RobinWrites(c, phase, status, healthy)
  PROVE  RobinPuts(c, phase)
<1>. DEFINE e == [c EXCEPT !.configPhase = phase, !.status = status, !.healthy = healthy]
            T == (Stored(configs) \ {c}) \cup {e}
<1>1. c \in ConfigType /\ Stored(configs) \in ConfigSets
  BY GoingFacts, ConfigNumbers
<1>2. /\ e.sequence = c.sequence /\ e.generation = c.generation /\ e.configPhase = phase
      /\ e.primaries = c.primaries /\ e \in ConfigType
  BY <1>1 DEF ConfigType
<1>3. WriteConfigs(T) /\ UNCHANGED redkeys
  BY DEF RobinWrites
<1>. HIDE DEF e
<1>4. T \in ConfigSets
  BY <1>1, <1>2, ConfigSetsClosed
<1>5. Stored(configs') = T
  BY <1>3, <1>4, ConfigsWritten
<1>. QED
  BY <1>2, <1>3, <1>5 DEF RobinPuts

\* Robin's steps by the phase they end in.
LEMMA RobinPhases ==
  ASSUME Going, NEW c \in Stored(configs)
  PROVE  /\ RobinStarts(c) => RobinPuts(c, "InProgress")
         /\ RobinSupersedes(c) => RobinPuts(c, "Superseded")
         /\ RobinApplies(c) \/ RobinReports(c) => RobinPuts(c, "Applied")
<1>1. c \in ConfigType
  BY GoingFacts, ConfigNumbers
<1>2. /\ c.status \in ConfigStatuses /\ c.healthy \in HealthReports
      /\ {"InProgress", "Superseded", "Applied"} \subseteq ConfigPhases
      /\ {"ScalingToZero", "ScalingUp"} \subseteq ConfigStatuses
  BY <1>1 DEF ConfigType, ConfigPhases, ConfigStatuses, Operations
<1>3. RobinStarts(c) => RobinPuts(c, "InProgress")
  BY <1>2, RobinPutsPhase DEF RobinStarts
<1>4. RobinSupersedes(c) => RobinPuts(c, "Superseded")
  BY <1>2, RobinPutsPhase DEF RobinSupersedes
<1>5. RobinApplies(c) => RobinPuts(c, "Applied")
  BY <1>2, RobinPutsPhase, StatusesAssumption DEF RobinApplies
<1>6. RobinReports(c) => RobinPuts(c, "Applied")
  BY <1>2, RobinPutsPhase, StatusesAssumption, ReportsAssumption DEF RobinReports
<1>. QED
  BY <1>3, <1>4, <1>5, <1>6

\* Every step keeps BaselineInv.
LEMMA BaselineStep ==
  ASSUME Going, Alive', [Next]_vars, BaselineInv, 0 \notin Primaries, ~SkipIfSuperseded
  PROVE  BaselineInv'
<1>. DEFINE S == Stored(configs)
            T == Stored(configs')
<1>1. /\ \A c \in S : c.configPhase # "Superseded"
      /\ Stored(redkeys).phase = "Ready" => \E c \in S : c.configPhase = "Applied"
  BY DEF BaselineInv, Going
<1>2. ASSUME NEW c \in S PROVE ~RobinSupersedes(c)
  <2>1. \A z \in S : z.primaries # 0
    BY GoingFacts DEF WellFormed
  <2>2. ZeroAhead(c) = {}
    BY <2>1 DEF ZeroAhead
  <2>. QED
    BY <2>2 DEF RobinSupersedes
<1>3. /\ \A d \in T : d.configPhase # "Superseded"
      /\ (\E c \in S : c.configPhase = "Applied") => \E d \in T : d.configPhase = "Applied"
  <2>1. CASE T = S
    BY <2>1, <1>1
  <2>2. CASE Created
    BY <2>2, <1>1 DEF Created, OnTop
  <2>3. CASE Cleaned
    BY <2>3, <1>1 DEF Cleaned, Without
  <2>4. ~Emptied
    BY DEF Emptied
  <2>5. CASE Moved
    <3>1. PICK c \in S : RobinPuts(c, "InProgress") \/ RobinPuts(c, "Applied")
      BY <2>5, <1>2, RobinPhases DEF Moved
    <3>2. \A d \in T : d.configPhase # "Superseded"
      BY <3>1, <1>1 DEF RobinPuts
    <3>3. Evolves(S, T)
      BY <2>5, ConfigsRobin DEF Moved
    <3>. QED
      BY <3>2, <3>3 DEF Evolves, SameWork, isTerminalConfigPhase
  <2>. QED
    BY <2>1, <2>2, <2>3, <2>4, <2>5, StoredStep
<1>. HIDE DEF S, T
<1>4. ASSUME Stored(redkeys').phase = "Ready" PROVE \E d \in T : d.configPhase = "Applied"
  <2>1. CASE Stored(redkeys').phase = Stored(redkeys).phase
    BY <2>1, <1>1, <1>3, <1>4
  <2>2. CASE StatusWritten
    <3>. DEFINE a == selectActiveConfig(list)
    <3>1. /\ pc = "aggregateStatus" /\ T = S
          /\ computePhaseFromConditions(aggregateConditions(a)) = "Ready"
      BY <2>2, <1>4 DEF StatusWritten, S, T
    <3>. HIDE DEF a
    <3>2. isConfigReady(a)
      BY <3>1 DEF computePhaseFromConditions, aggregateConditions, hasConfigError, isConfigReady
    <3>3. PICK d \in S : d.configPhase = a.configPhase
      BY <3>1, <3>2, ActiveDone DEF isConfigReady, S, a
    <3>. QED
      BY <3>1, <3>2, <3>3, <1>1 DEF isConfigReady, isTerminalConfigPhase
  <2>3. ~ScaledToZeroWritten
    <3>. SUFFICES ASSUME ScaledToZeroWritten PROVE FALSE
      OBVIOUS
    <3>1. pc = "updateStatusScaledToZero"
      BY DEF ScaledToZeroWritten
    <3>2. cluster.primaries = 0 /\ cluster \in Copies /\ CopiesInv
      BY <3>1, GoingFacts DEF ControlInv, Copies
    <3>. QED
      BY <3>2 DEF CopiesInv
  <2>4. ~RedkeyDeleted
    BY DEF RedkeyDeleted
  <2>5. CASE SpecEdited
    BY <2>1, <2>5 DEF SpecEdited
  <2>. QED
    BY <2>1, <2>2, <2>3, <2>4, <2>5, StatusStep DEF Going
<1>. QED
  BY <1>3, <1>4 DEF BaselineInv, T

\* A Redkey that is Ready has a config that is Applied, whatever the caches showed
\* aggregateStatus, on clusters that are not scaled to zero and skip no config.
THEOREM ReadyBaseline ==
  0 \notin Primaries /\ ~SkipIfSuperseded /\ Spec => []ReadyHasBaseline
<1>. SUFFICES ASSUME 0 \notin Primaries, ~SkipIfSuperseded PROVE Spec => []ReadyHasBaseline
  OBVIOUS
<1>1. Regime
  BY DEF Regime
<1>2. Init => BaselineInv
  <2>. SUFFICES ASSUME Init PROVE BaselineInv
    OBVIOUS
  <2>1. PICK p \in Primaries : redkeys = <<NewRedkey(p)>>
    BY DEF Init
  <2>2. Stored(redkeys) = redkeys[1] /\ Stored(configs) = {}
    BY <2>1 DEF Init, Stored
  <2>3. redkeys[1].phase = "None"
    BY <2>1 DEF NewRedkey
  <2>. QED
    BY <2>2, <2>3 DEF BaselineInv
<1>3. Inv /\ Inv' /\ BaselineInv /\ [Next]_vars => BaselineInv'
  <2>. SUFFICES ASSUME Inv, Inv', BaselineInv, [Next]_vars, Alive'
                PROVE  BaselineInv'
    BY DEF BaselineInv
  <2>0. SpecKept => (Alive' => Alive)
    BY DEF SpecKept, Alive
  <2>1. Alive
    BY <2>0, RedkeyStep DEF Inv, SpecEdited, RedkeyDeleted
  <2>. QED
    BY <2>1, <1>1, StepGoing, BaselineStep
<1>4. BaselineInv => ReadyHasBaseline
  BY DEF BaselineInv, ReadyHasBaseline, Alive
<1>. QED
  BY <1>1, <1>2, <1>3, <1>4, PipelineInductive, PTL DEF Spec

------------------------------------------------------------------------------
(* The work queue: its steps are steps of the reconciler. *)

QueueSpec == QueueInit /\ [][QueueNext]_queueVars

\* A step of the queue is a step of the reconciler or leaves it alone.
LEMMA QueueStep ==
  ASSUME [QueueNext]_queueVars
  PROVE  [Next]_vars
BY DEF QueueNext, queueVars, TakeKey, ReconcileQueued, Resync, Requeued, Watched,
       ReconcileStep, Next

\* The operator that is woken by the watches, its errors and the resync only
\* (SetupWithManager) behaves as one that may reconcile at any time.
LEMMA QueueImplements == QueueSpec => Spec
<1>1. QueueInit => Init
  BY DEF QueueInit
<1>2. [QueueNext]_queueVars => [Next]_vars
  BY QueueStep
<1>. QED
  BY <1>1, <1>2, PTL DEF QueueSpec, Spec

------------------------------------------------------------------------------
(* Every version of a feed differs from the one before it, so that every watch *)
(* event changes what the cache shows and queues the key.                      *)

Changing(f) == \A i \in 1..(Len(f) - 1) : f[i] # f[i + 1]

\* A write keeps the versions different, and is still on its way or has changed
\* what the cache shows, unless it changed nothing.
LEMMA PublishChanging ==
  ASSUME NEW S, NEW f \in Seq(S), f # <<>>, Changing(f), NEW v, NEW lag \in Nat
  PROVE  /\ Changing(Publish(f, v, lag))
         /\ \/ Publish(f, v, lag) = f
            \/ Len(Publish(f, v, lag)) > 1
            \/ Cached(Publish(f, v, lag)) # Cached(f)
         /\ Len(Publish(f, v, lag)) >= Len(f)
<1>. DEFINE g == Publish(f, v, lag)
            T == S \cup {v}
<1>0. Len(f) \in Nat /\ Len(f) > 0 /\ f \in Seq(T)
  OBVIOUS
<1>1. CASE v = Stored(f)
  BY <1>1, <1>0 DEF Publish
<1>2. CASE v # Stored(f) /\ Len(f) > lag
  <2>1. g = Append(Tail(f), v)
    BY <1>2, <1>0 DEF Publish
  <2>2. Tail(f) \in Seq(T) /\ Len(Tail(f)) = Len(f) - 1
        /\ \A i \in 1..(Len(f) - 1) : Tail(f)[i] = f[i + 1]
    BY <1>0
  <2>3. Len(g) = Len(f) /\ g[Len(f)] = v /\ \A i \in 1..(Len(f) - 1) : g[i] = f[i + 1]
    BY <2>1, <2>2, <1>0
  <2>4. Changing(g)
    <3>. SUFFICES ASSUME NEW i \in 1..(Len(f) - 1) PROVE g[i] # g[i + 1]
      BY <2>3 DEF Changing
    <3>1. CASE i = Len(f) - 1
      BY <3>1, <2>3, <1>0, <1>2 DEF Stored
    <3>2. CASE i # Len(f) - 1
      BY <3>2, <2>3, <1>0 DEF Changing
    <3>. QED
      BY <3>1, <3>2
  <2>5. Len(f) = 1 => Cached(g) # Cached(f)
    BY <2>3, <1>2 DEF Stored, Cached
  <2>. QED
    BY <2>3, <2>4, <2>5, <1>0
<1>3. CASE v # Stored(f) /\ Len(f) <= lag
  <2>1. g = Append(f, v)
    BY <1>3, <1>0 DEF Publish
  <2>2. Len(g) = Len(f) + 1 /\ g[Len(f) + 1] = v /\ \A i \in 1..Len(f) : g[i] = f[i]
    BY <2>1, <1>0
  <2>3. Changing(g)
    <3>. SUFFICES ASSUME NEW i \in 1..Len(f) PROVE g[i] # g[i + 1]
      BY <2>2, <1>0 DEF Changing
    <3>1. CASE i = Len(f)
      BY <3>1, <2>2, <1>0, <1>3 DEF Stored
    <3>2. CASE i # Len(f)
      BY <3>2, <2>2, <1>0 DEF Changing
    <3>. QED
      BY <3>1, <3>2
  <2>. QED
    BY <2>2, <2>3, <1>0
<1>. QED
  BY <1>1, <1>2, <1>3, <1>0

\* A watch event keeps the versions different and changes what the cache shows.
LEMMA DeliverChanging ==
  ASSUME NEW S, NEW f \in Seq(S), Len(f) > 1, Changing(f)
  PROVE  Changing(Tail(f)) /\ Cached(Tail(f)) # Cached(f)
<1>1. /\ Len(Tail(f)) = Len(f) - 1 /\ Len(f) \in Nat
      /\ \A i \in 1..(Len(f) - 1) : Tail(f)[i] = f[i + 1]
  BY DeliverFeed
<1>2. Cached(Tail(f)) # Cached(f)
  BY <1>1 DEF Cached, Changing
<1>3. ASSUME NEW i \in 1..(Len(f) - 2) PROVE Tail(f)[i] # Tail(f)[i + 1]
  BY <1>1, <1>3 DEF Changing
<1>. QED
  BY <1>1, <1>2, <1>3 DEF Changing

\* The steps of everybody but a restarting operator.
Ordinary ==
  \/ ReconcileStep \/ ReconcileFails
  \/ \E p \in Primaries : EditSpec(p)
  \/ DeleteRedkey \/ Collect \/ Deliver \/ RobinActs

\* What such a step may do to a feed: write a version or deliver one.
Fed(f, g, lag) ==
  \/ g = f
  \/ Len(f) > 1 /\ g = Tail(f)
  \/ \E v : g = Publish(f, v, lag)

\* Every step of the reconciler is one of these on the feed of the Redkey.
LEMMA RedkeysFed ==
  ASSUME Ordinary
  PROVE  Fed(redkeys, redkeys', RedkeyLag)
<1>1. CASE ReconcileStep
  <2>1. CASE AggregateStatus
    BY <2>1 DEF AggregateStatus, WriteRedkey, Fed
  <2>2. CASE UpdateStatusScaledToZero
    <3>1. CASE UNCHANGED redkeys
      BY <3>1 DEF Fed
    <3>2. CASE WriteRedkey([cluster EXCEPT !.phase = "Ready", !.status = "",
                                           !.observedGeneration = cluster.generation])
      <4>. DEFINE v == [cluster EXCEPT !.phase = "Ready", !.status = "",
                                       !.observedGeneration = cluster.generation]
      <4>1. redkeys' = Publish(redkeys, v, RedkeyLag)
        BY <3>2 DEF WriteRedkey
      <4>. HIDE DEF v
      <4>. QED
        BY <4>1 DEF Fed
    <3>. QED
      BY <2>2, <3>1, <3>2 DEF UpdateStatusScaledToZero
  <2>3. CASE ~AggregateStatus /\ ~UpdateStatusScaledToZero
    <3>1. UNCHANGED redkeys
      BY <1>1, <2>3 DEF ReconcileStep, StartReconcile, ReconcileGone, EnsureRBAC,
         EnsureRobinDeployment, CreateNewConfig, CreateZeroConfig, ListConfigs,
         CleanupSupersededConfigs, DeleteRobinDeployment, DeleteRBAC, ListAllConfigs,
         DeleteAllConfigs, storeVars, vars
    <3>. QED
      BY <3>1 DEF Fed
  <2>. QED
    BY <2>1, <2>2, <2>3
<1>2. CASE \/ \E p \in Primaries : EditSpec(p)
           \/ DeleteRedkey
  BY <1>2 DEF EditSpec, DeleteRedkey, WriteRedkey, Fed
<1>3. CASE ReconcileFails \/ Collect \/ RobinActs
  BY <1>3 DEF ReconcileFails, Collect, CollectConfig, CollectRobin, RobinActs, RobinStep,
       RobinStarts, RobinSupersedes, RobinApplies, RobinReports, RobinWrites, storeVars, Fed
<1>4. CASE Deliver
  BY <1>4 DEF Deliver, DeliverRedkey, DeliverConfigs, DeliverRobin, storeVars, Fed
<1>. QED
  BY <1>1, <1>2, <1>3, <1>4 DEF Ordinary

\* And on the feed of the configs.
LEMMA ConfigsFed ==
  ASSUME Ordinary
  PROVE  Fed(configs, configs', ConfigLag)
<1>1. CASE ReconcileStep
  <2>1. CASE CreateNewConfig \/ CreateZeroConfig
    BY <2>1 DEF CreateNewConfig, CreateZeroConfig, CreateConfig, WriteConfigs, Fed
  <2>2. CASE CleanupSupersededConfigs \/ DeleteAllConfigs
    BY <2>2 DEF CleanupSupersededConfigs, DeleteAllConfigs, DeleteConfig, WriteConfigs, Fed
  <2>3. CASE ~(CreateNewConfig \/ CreateZeroConfig \/ CleanupSupersededConfigs \/ DeleteAllConfigs)
    <3>1. UNCHANGED configs
      BY <1>1, <2>3 DEF ReconcileStep, StartReconcile, ReconcileGone, EnsureRBAC,
         EnsureRobinDeployment, ListConfigs, AggregateStatus, UpdateStatusScaledToZero,
         DeleteRobinDeployment, DeleteRBAC, ListAllConfigs, storeVars, vars
    <3>. QED
      BY <3>1 DEF Fed
  <2>. QED
    BY <2>1, <2>2, <2>3
<1>2. CASE RobinActs
  BY <1>2 DEF RobinActs, RobinStep, RobinStarts, RobinSupersedes, RobinApplies, RobinReports,
       RobinWrites, WriteConfigs, Fed
<1>3. CASE Collect
  BY <1>3 DEF Collect, CollectConfig, CollectRobin, WriteConfigs, Fed
<1>4. CASE ReconcileFails \/ DeleteRedkey \/ \E p \in Primaries : EditSpec(p)
  BY <1>4 DEF ReconcileFails, DeleteRedkey, EditSpec, storeVars, Fed
<1>5. CASE Deliver
  BY <1>5 DEF Deliver, DeliverRedkey, DeliverConfigs, DeliverRobin, storeVars, Fed
<1>. QED
  BY <1>1, <1>2, <1>3, <1>4, <1>5 DEF Ordinary

\* What a step that is fed leaves behind: the versions differ, and when only one
\* is left and the cache shows the same, nothing happened.
LEMMA FedChanging ==
  ASSUME NEW S, NEW f \in Seq(S), f # <<>>, Changing(f), NEW g, NEW lag \in Nat, Fed(f, g, lag)
  PROVE  /\ Changing(g)
         /\ Len(g) = 1 /\ Cached(g) = Cached(f) => g = f
<1>1. CASE g = f
  BY <1>1
<1>2. CASE Len(f) > 1 /\ g = Tail(f)
  BY <1>2, DeliverChanging
<1>3. CASE \E v : g = Publish(f, v, lag)
  <2>1. PICK v : g = Publish(f, v, lag)
    BY <1>3
  <2>2. /\ Changing(g)
        /\ g = f \/ Len(g) > 1 \/ Cached(g) # Cached(f)
    BY <2>1, PublishChanging
  <2>3. ASSUME Len(g) = 1 PROVE ~(Len(g) > 1)
    BY <2>3
  <2>. QED
    BY <2>2, <2>3
<1>. QED
  BY <1>1, <1>2, <1>3 DEF Fed

FeedsChanging == Changing(redkeys) /\ Changing(configs)

\* Every step, a restart included, keeps the versions of both feeds different.
LEMMA ChangingStep ==
  ASSUME TypeInv, FeedsChanging, [Next]_vars
  PROVE  FeedsChanging'
<1>0. /\ redkeys \in Seq(RedkeyType) /\ redkeys # <<>> /\ RedkeyLag \in Nat
      /\ configs \in Seq(ConfigSets) /\ configs # <<>> /\ ConfigLag \in Nat
  BY BoundsAssumption DEF TypeInv
<1>1. CASE Ordinary
  <2>1. Fed(redkeys, redkeys', RedkeyLag) /\ Fed(configs, configs', ConfigLag)
    BY <1>1, RedkeysFed, ConfigsFed
  <2>2. Changing(redkeys')
    BY <1>0, <2>1, FedChanging DEF FeedsChanging
  <2>3. Changing(configs')
    BY <1>0, <2>1, FedChanging DEF FeedsChanging
  <2>. QED
    BY <2>2, <2>3 DEF FeedsChanging, Changing
<1>2. CASE Restart
  <2>1. Len(redkeys') = 1 /\ Len(configs') = 1
    BY <1>2 DEF Restart
  <2>. QED
    BY <2>1 DEF FeedsChanging, Changing
<1>3. CASE UNCHANGED vars
  BY <1>3 DEF vars, FeedsChanging, Changing
<1>. QED
  BY <1>1, <1>2, <1>3 DEF Next, Ordinary

\* ensureRBAC and ensureRobinDeployment create only what the caches do not show:
\* a deletion still to be seen is not hidden by a creation.
LEMMA RobinGap ==
  ASSUME Ordinary
  PROVE  robin' \cap robinSeen \subseteq robin
<1>1. CASE EnsureRBAC
  BY <1>1 DEF EnsureRBAC, MissingRBAC
<1>2. CASE EnsureRobinDeployment
  BY <1>2 DEF EnsureRobinDeployment
<1>3. CASE DeleteRobinDeployment \/ DeleteRBAC
  BY <1>3 DEF DeleteRobinDeployment, DeleteRBAC
<1>4. CASE ReconcileStep /\ ~(EnsureRBAC \/ EnsureRobinDeployment \/ DeleteRobinDeployment \/ DeleteRBAC)
  <2>1. UNCHANGED robin
    BY <1>4 DEF ReconcileStep, StartReconcile, ReconcileGone, CreateNewConfig, CreateZeroConfig,
       ListConfigs, CleanupSupersededConfigs, AggregateStatus, ListAllConfigs, DeleteAllConfigs,
       UpdateStatusScaledToZero, storeVars, vars
  <2>. QED
    BY <2>1
<1>5. CASE Collect
  BY <1>5 DEF Collect, CollectConfig, CollectRobin
<1>6. CASE \/ ReconcileFails \/ DeleteRedkey \/ Deliver \/ RobinActs
           \/ \E p \in Primaries : EditSpec(p)
  <2>1. UNCHANGED robin
    BY <1>6 DEF ReconcileFails, DeleteRedkey, Deliver, DeliverRedkey, DeliverConfigs, DeliverRobin,
       RobinActs, RobinStep, RobinStarts, RobinSupersedes, RobinApplies, RobinReports, RobinWrites,
       EditSpec, storeVars
  <2>. QED
    BY <2>1
<1>. QED
  BY <1>1, <1>2, <1>3, <1>4, <1>5, <1>6 DEF Ordinary

\* Only a worker that takes the key makes the queue quiet, and a step between
\* quiet states neither writes nor delivers anything.
LEMMA QuietStep ==
  ASSUME TypeInv, FeedsChanging, QueueNext, ~TakeKey, Quiet'
  PROVE  Quiet /\ UNCHANGED <<redkeys, configs, robinSeen>>
<1>0. /\ redkeys \in Seq(RedkeyType) /\ redkeys # <<>> /\ RedkeyLag \in Nat
      /\ configs \in Seq(ConfigSets) /\ configs # <<>> /\ ConfigLag \in Nat
  BY BoundsAssumption DEF TypeInv
<1>1. ~queued' /\ Len(redkeys') = 1 /\ Len(configs') = 1 /\ robinSeen' \subseteq robin'
  BY DEF Quiet
<1>2. Ordinary /\ ~queued /\ ~RedkeyEvent /\ ~OwnedEvent
  BY <1>1 DEF QueueNext, ReconcileQueued, Resync, Requeued, Watched, Ordinary
<1>3. /\ Cached(redkeys') = Cached(redkeys) /\ Cached(configs') = Cached(configs)
      /\ robinSeen' = robinSeen
  BY <1>2 DEF RedkeyEvent, OwnedEvent
<1>4. Fed(redkeys, redkeys', RedkeyLag) /\ Fed(configs, configs', ConfigLag)
  BY <1>2, RedkeysFed, ConfigsFed
<1>5. redkeys' = redkeys
  BY <1>0, <1>1, <1>3, <1>4, FedChanging DEF FeedsChanging
<1>6. configs' = configs
  BY <1>0, <1>1, <1>3, <1>4, FedChanging DEF FeedsChanging
<1>7. robinSeen \subseteq robin
  BY <1>1, <1>2, <1>3, RobinGap
<1>. QED
  BY <1>1, <1>2, <1>3, <1>5, <1>6, <1>7 DEF Quiet

------------------------------------------------------------------------------
(* While nothing is on its way, a running reconcile works on what is stored, so *)
(* that what it ends with is settled.                                           *)

\* What the reconcile knows at each of its steps.  No step is left to come after
\* a write: the write wakes the operator again.
Progress ==
  /\ pc = "idle" => Settled(Stored(redkeys), Stored(configs))
  /\ pc # "idle" => cluster = Stored(redkeys)
  /\ pc \in {"ensureRBAC", "ensureRobinDeployment"} /\ cluster.primaries = 0 =>
       list = Stored(configs) /\ list # {} /\ ~ScaleToZeroDone(HighestSeq(list))
  /\ pc = "ensureRobinDeployment" => RBACUpTo(RBACKinds) \subseteq robin
  /\ pc = "createNewConfig" => cluster.primaries # 0 /\ robin = RobinObjects
  /\ pc \in {"createZeroConfig", "cleanupSupersededConfigs", "deleteAllConfigs"} =>
       list = Stored(configs) /\ list # {}
  /\ pc # "listConfigs"
  /\ pc = "aggregateStatus" => list = Stored(configs) /\ LeftToRobin(cluster, list)
  /\ pc \in {"deleteRobinDeployment", "deleteRBAC", "listAllConfigs"} => Stored(configs) # {}
  /\ pc = "updateStatusScaledToZero" => cluster.primaries = 0 /\ Stored(configs) = {}

WakeInv == Quiet /\ Alive => Progress

\* A worker takes the key and the caches are fresh: it starts with what is stored.
LEMMA TakenProgress ==
  ASSUME TypeInv, TakeKey, Quiet', Alive'
  PROVE  Progress'
<1>1. UNCHANGED <<redkeys, configs, robin>>
  BY DEF TakeKey, StartReconcile, ReconcileGone, storeVars, vars
<1>2. Cached(redkeys) = Stored(redkeys) /\ Cached(configs) = Stored(configs)
  BY <1>1 DEF Quiet, Cached, Stored
<1>3. Stored(redkeys') = Stored(redkeys) /\ Stored(configs') = Stored(configs)
  BY <1>1
<1>4. ~ReconcileGone
  BY <1>1, <1>2 DEF ReconcileGone, Exists, Alive
<1>5. StartReconcile
  BY <1>4 DEF TakeKey
<1>6. CASE Goto("ensureRBAC", Cached(redkeys), {}) /\ Cached(redkeys).primaries # 0
  BY <1>2, <1>3, <1>6 DEF Goto, Progress
<1>7. CASE Goto("updateStatusScaledToZero", Cached(redkeys), Cached(configs))
           /\ Cached(redkeys).primaries = 0 /\ Cached(configs) = {}
  BY <1>2, <1>3, <1>7 DEF Goto, Progress
<1>8. CASE Goto("deleteRobinDeployment", Cached(redkeys), Cached(configs))
           /\ Cached(configs) # {}
  BY <1>2, <1>3, <1>8 DEF Goto, Progress
<1>9. CASE Goto("ensureRBAC", Cached(redkeys), Cached(configs)) /\ Cached(configs) # {}
           /\ ~ScaleToZeroDone(HighestSeq(Cached(configs)))
  BY <1>2, <1>3, <1>9 DEF Goto, Progress
<1>. QED
  BY <1>5, <1>6, <1>7, <1>8, <1>9 DEF StartReconcile

\* A write that leaves a feed as it was wrote what is stored.
LEMMA WriteSeen ==
  ASSUME TypeInv
  PROVE  /\ \A v : WriteRedkey(v) /\ redkeys' = redkeys => v = Stored(redkeys)
         /\ \A v : WriteConfigs(v) /\ configs' = configs => v = Stored(configs)
<1>1. ASSUME NEW S, NEW f \in Seq(S), f # <<>>, NEW v, NEW lag \in Nat, Publish(f, v, lag) = f
      PROVE  v = Stored(f)
  <2>. DEFINE T == S \cup {v}
  <2>1. f \in Seq(T) /\ v \in T
    BY <1>1
  <2>. HIDE DEF T
  <2>2. Stored(Publish(f, v, lag)) = v
    BY <1>1, <2>1, PublishFeed
  <2>. QED
    BY <1>1, <2>2
<1>2. \A v : WriteRedkey(v) /\ redkeys' = redkeys => v = Stored(redkeys)
  BY <1>1, BoundsAssumption DEF TypeInv, WriteRedkey
<1>3. \A v : WriteConfigs(v) /\ configs' = configs => v = Stored(configs)
  BY <1>1, BoundsAssumption DEF TypeInv, WriteConfigs
<1>. QED
  BY <1>2, <1>3

\* A config with a sequence of its own changes the stored set when it is created.
LEMMA CreationSeen ==
  ASSUME TypeInv, NEW c, CreateConfig(NewConfig(c, Stored(configs)))
  PROVE  configs' # configs
<1>. DEFINE S == Stored(configs)
            n == NewConfig(c, S)
<1>1. S \in ConfigSets
  BY FeedEnds DEF TypeInv
<1>2. \A d \in S : d.sequence # n.sequence
  <2>1. CASE S = {}
    BY <2>1
  <2>2. CASE S # {}
    <3>1. Sequenced(S) /\ IsFiniteSet(S)
      BY <1>1 DEF ConfigSets, ConfigType, Sequenced
    <3>2. HighestSeq(S) \in S /\ \A d \in S : d.sequence <= HighestSeq(S).sequence
      BY <3>1, <2>2, HighestSeqExists
    <3>3. n.sequence = HighestSeq(S).sequence + 1
      BY <2>2 DEF NewConfig
    <3>. QED
      <4>. SUFFICES ASSUME NEW d \in S, d.sequence = n.sequence PROVE FALSE
        OBVIOUS
      <4>1. d.sequence \in Nat /\ HighestSeq(S).sequence \in Nat
        BY <3>1, <3>2 DEF Sequenced
      <4>. QED
        BY <4>1, <3>2, <3>3
  <2>. QED
    BY <2>1, <2>2
<1>3. WriteConfigs(S \cup {n}) /\ n \notin S
  BY <1>2 DEF CreateConfig
<1>. HIDE DEF n
<1>4. configs' = configs => S \cup {n} = S
  BY <1>3, WriteSeen
<1>. QED
  BY <1>3, <1>4

\* A deletion of a stored config changes the stored set.
LEMMA DeletionSeen ==
  ASSUME TypeInv, NEW c \in Stored(configs), DeleteConfig(c)
  PROVE  configs' # configs
<1>1. Stored(configs) # {d \in Stored(configs) : d.sequence # c.sequence}
  OBVIOUS
<1>. QED
  BY <1>1, WriteSeen DEF DeleteConfig

\* A step of the reconcile that wakes nobody knows what it needs to, and ends the
\* reconcile only when nothing is left to do.
LEMMA ReconcileProgress ==
  ASSUME TypeInv, Quiet, Alive, Progress, ReconcileQueued, Quiet',
         UNCHANGED <<redkeys, configs, robinSeen>>
  PROVE  Progress'
<1>0. /\ pc # "idle" /\ cluster = Stored(redkeys) /\ robinSeen \subseteq robin
      /\ Stored(redkeys') = Stored(redkeys) /\ Stored(configs') = Stored(configs)
      /\ pc' = "idle" => ~ReturnsError
  BY DEF Progress, Quiet, ReconcileQueued
<1>1. Cached(redkeys) = Stored(redkeys) /\ Cached(configs) = Stored(configs)
  BY DEF Quiet, Cached, Stored
<1>2. robin \subseteq RobinObjects /\ robinSeen \subseteq RobinObjects
  BY DEF TypeInv
<1>3. CASE EnsureRBAC
  <2>1. pc' # "idle"
    BY <1>0, <1>3 DEF EnsureRBAC, ReturnsError
  <2>2. /\ pc' = "ensureRobinDeployment" /\ cluster' = cluster /\ list' = list
        /\ robin' = robin \cup MissingRBAC(RBACKinds)
    BY <2>1, <1>3 DEF EnsureRBAC, Goto, Return
  <2>3. RBACUpTo(RBACKinds) \subseteq robin'
    BY <2>2, <1>0 DEF MissingRBAC
  <2>. QED
    BY <2>2, <2>3, <1>0, <1>3 DEF Progress, EnsureRBAC
<1>4. CASE EnsureRobinDeployment
  <2>0. pc = "ensureRobinDeployment"
    BY <1>4 DEF EnsureRobinDeployment
  <2>1. pc' # "idle"
    BY <1>0, <2>0 DEF ReturnsError
  <2>2. AfterEnsure /\ robin \subseteq robin' /\ "Deployment" \in robin'
    BY <2>1, <1>0, <1>4 DEF EnsureRobinDeployment, Return, Goto
  <2>3. robin' = RobinObjects
    <3>1. robin' \subseteq RobinObjects
      BY <1>2, <1>4 DEF EnsureRobinDeployment, RobinObjects
    <3>2. RBACUpTo(RBACKinds) \subseteq robin
      BY <2>0 DEF Progress
    <3>. QED
      BY <3>1, <3>2, <2>2 DEF RobinObjects
  <2>4. cluster' = cluster /\ list' = list
    BY <2>2 DEF AfterEnsure, Goto
  <2>5. CASE cluster.primaries # 0
    <3>1. pc' = "createNewConfig"
      BY <2>2, <2>5 DEF AfterEnsure, Goto
    <3>. QED
      BY <3>1, <2>3, <2>4, <2>5, <1>0 DEF Progress, RobinObjects
  <2>6. CASE cluster.primaries = 0
    <3>1. list = Stored(configs) /\ list # {} /\ ~ScaleToZeroDone(HighestSeq(list))
      BY <2>0, <2>6 DEF Progress
    <3>2. CASE HighestSeq(list).primaries # 0
      <4>1. pc' = "createZeroConfig"
        BY <2>2, <2>6, <3>2 DEF AfterEnsure, Goto
      <4>. QED
        BY <4>1, <3>1, <2>4, <1>0 DEF Progress
    <3>3. CASE HighestSeq(list).primaries = 0
      <4>1. pc' = "aggregateStatus"
        BY <2>2, <2>6, <3>3 DEF AfterEnsure, Goto
      <4>2. LeftToRobin(cluster, list)'
        BY <3>1, <3>3, <2>3, <2>4, <2>6 DEF LeftToRobin, RobinObjects, RBACUpTo, RBACObjects
      <4>. QED
        BY <4>1, <4>2, <3>1, <2>4, <1>0 DEF Progress
    <3>. QED
      BY <3>2, <3>3
  <2>. QED
    BY <2>5, <2>6
<1>5. CASE CreateNewConfig
  <2>0. pc = "createNewConfig" /\ UNCHANGED robin /\ cluster.primaries # 0 /\ robin = RobinObjects
    BY <1>5 DEF CreateNewConfig, Progress
  <2>1. ~CreateConfig(NewConfig(cluster, Cached(configs)))
    BY <1>1, CreationSeen
  <2>2. Cached(configs) # {} /\ AfterList(cluster, Cached(configs))
    BY <2>1, <1>5 DEF CreateNewConfig
  <2>3. /\ cluster' = cluster /\ list' = Stored(configs) /\ Stored(configs) # {}
        /\ pc' = IF SupersededConfigs(Stored(configs)) # {} THEN "cleanupSupersededConfigs"
                                                            ELSE "aggregateStatus"
    BY <2>2, <1>1 DEF AfterList, Goto
  <2>4. CASE SupersededConfigs(Stored(configs)) # {}
    BY <2>3, <2>4, <1>0 DEF Progress
  <2>5. CASE SupersededConfigs(Stored(configs)) = {}
    <3>1. LeftToRobin(cluster, list)'
      BY <2>0, <2>3, <2>5 DEF LeftToRobin, RobinObjects, RBACUpTo, RBACObjects
    <3>. QED
      BY <3>1, <2>3, <2>5, <1>0 DEF Progress
  <2>. QED
    BY <2>4, <2>5
<1>6. CASE CreateZeroConfig
  BY <1>6, CreationSeen DEF CreateZeroConfig, Progress
<1>7. CASE ListConfigs
  BY <1>7 DEF ListConfigs, Progress
<1>8. CASE CleanupSupersededConfigs
  <2>1. list = Stored(configs) /\ list # {}
    BY <1>8 DEF CleanupSupersededConfigs, Progress
  <2>2. LowestSeq(list) \in Stored(configs)
    BY <2>1, EndsType, ChosenConfigs
  <2>. QED
    BY <2>2, <1>8, DeletionSeen DEF CleanupSupersededConfigs
<1>9. CASE DeleteAllConfigs
  <2>1. list = Stored(configs)
    BY <1>9 DEF DeleteAllConfigs, Progress
  <2>. QED
    BY <2>1, <1>9, DeletionSeen DEF DeleteAllConfigs

<1>10. CASE AggregateStatus
  <2>1. /\ pc = "aggregateStatus" /\ UNCHANGED robin /\ pc' = "idle"
        /\ list = Stored(configs) /\ LeftToRobin(cluster, list)
    BY <1>10 DEF AggregateStatus, Return, Goto, Progress
  <2>2. WriteRedkey(AggregatedStatus(cluster, cluster.generation, selectActiveConfig(list)))
    <3>1. Stored(redkeys).deletion # "gone"
      BY DEF Alive
    <3>. QED
      BY <3>1, <1>0, <1>1, <1>10 DEF AggregateStatus
  <2>3. AggregatedStatus(cluster, cluster.generation, selectActiveConfig(list)) = cluster
    BY <2>2, <1>0, WriteSeen
  <2>4. LeftToRobin(Stored(redkeys), Stored(configs))'
    BY <2>1, <1>0 DEF LeftToRobin, RobinObjects, RBACUpTo, RBACObjects
  <2>5. Settled(Stored(redkeys), Stored(configs))'
    BY <2>1, <2>3, <2>4, <1>0 DEF Settled
  <2>. QED
    BY <2>1, <2>5 DEF Progress
<1>11. CASE DeleteRobinDeployment
  BY <1>0, <1>11 DEF DeleteRobinDeployment, Goto, Progress
<1>12. CASE DeleteRBAC
  <2>1. pc' # "idle"
    BY <1>0, <1>12 DEF DeleteRBAC, ReturnsError
  <2>2. pc = "deleteRBAC" /\ pc' = "listAllConfigs" /\ cluster' = cluster
    BY <2>1, <1>12 DEF DeleteRBAC, Goto, Return
  <2>. QED
    BY <2>2, <1>0 DEF Progress
<1>13. CASE ListAllConfigs
  <2>1. pc = "listAllConfigs" /\ AfterDelete(Cached(configs))
    BY <1>13 DEF ListAllConfigs
  <2>2. Cached(configs) # {} /\ cluster' = cluster
        /\ pc' = "deleteAllConfigs" /\ list' = Cached(configs)
    BY <2>1, <1>1 DEF AfterDelete, Goto, Progress
  <2>. QED
    BY <2>2, <1>0, <1>1 DEF Progress
<1>14. CASE UpdateStatusScaledToZero
  <2>. DEFINE v == [cluster EXCEPT !.phase = "Ready", !.status = "",
                                   !.observedGeneration = cluster.generation]
  <2>1. /\ pc = "updateStatusScaledToZero" /\ pc' = "idle"
        /\ cluster.primaries = 0 /\ Stored(configs) = {}
    BY <1>14 DEF UpdateStatusScaledToZero, Return, Goto, Progress
  <2>2. WriteRedkey(v)
    BY <1>0, <1>14 DEF UpdateStatusScaledToZero
  <2>3. SaysScaledToZero(v)
    BY DEF SaysScaledToZero, RedkeyType, TypeInv
  <2>. HIDE DEF v
  <2>4. v = cluster
    BY <2>2, <1>0, WriteSeen
  <2>5. Settled(Stored(redkeys), Stored(configs))'
    BY <2>1, <2>3, <2>4, <1>0 DEF Settled
  <2>. QED
    BY <2>1, <2>5 DEF Progress
<1>. QED
  BY <1>0, <1>3, <1>4, <1>5, <1>6, <1>7, <1>8, <1>9, <1>10, <1>11, <1>12, <1>13, <1>14
  DEF ReconcileQueued, ReconcileStep, StartReconcile, ReconcileGone

\* Every step keeps the invariant.
LEMMA WakeStep ==
  ASSUME TypeInv, FeedsChanging, WakeInv, [QueueNext]_queueVars
  PROVE  WakeInv'
<1>. SUFFICES ASSUME Quiet', Alive' PROVE Progress'
  BY DEF WakeInv
<1>1. CASE TakeKey
  BY <1>1, TakenProgress
<1>2. CASE QueueNext /\ ~TakeKey
  <2>1. Quiet /\ UNCHANGED <<redkeys, configs, robinSeen>>
    BY <1>2, QuietStep
  <2>2. Alive /\ Progress
    BY <2>1 DEF Alive, WakeInv
  <2>3. CASE ReconcileQueued
    BY <2>1, <2>2, <2>3, ReconcileProgress
  <2>4. CASE ~ReconcileQueued
    <3>1. \/ \E p \in Primaries : EditSpec(p)
          \/ DeleteRedkey \/ Collect \/ Deliver \/ RobinActs
      BY <1>2, <2>4 DEF QueueNext, Requeued, Resync, Watched, Quiet
    <3>2. UNCHANGED localVars
      BY <3>1 DEF EditSpec, DeleteRedkey, Collect, CollectConfig, CollectRobin, Deliver,
         DeliverRedkey, DeliverConfigs, DeliverRobin, RobinActs, RobinStep, RobinStarts,
         RobinSupersedes, RobinApplies, RobinReports, RobinWrites
    <3>3. UNCHANGED robin
      <4>1. ~Collect
        BY <2>2 DEF Collect, CollectConfig, CollectRobin, Alive
      <4>. QED
        BY <3>1, <4>1 DEF EditSpec, DeleteRedkey, Deliver, DeliverRedkey, DeliverConfigs,
           DeliverRobin, RobinActs, RobinStep, RobinStarts, RobinSupersedes, RobinApplies,
           RobinReports, RobinWrites, storeVars
    <3>. QED
      BY <2>1, <2>2, <3>2, <3>3 DEF Progress, Settled, LeftToRobin, localVars
  <2>. QED
    BY <2>3, <2>4
<1>3. CASE UNCHANGED queueVars
  <2>1. Quiet /\ Alive
    BY <1>3 DEF queueVars, vars, Quiet, Alive
  <2>. QED
    BY <1>3, <2>1 DEF WakeInv, Progress, Settled, LeftToRobin, queueVars, vars
<1>. QED
  BY <1>1, <1>2, <1>3

\* No wake-up is lost, for informers that lag by any number of versions, any
\* edits, faults, restarts and scale-to-zero: when no event is on its way, no key
\* is queued and no reconcile runs, the operator has nothing left to do.  The
\* resync is not needed for it (SetupWithManager, Reconcile's returned errors).
THEOREM NoLostWakeUp == QueueSpec => []SettledWhenIdle
<1>. DEFINE QInv == TypeInv /\ FeedsChanging /\ WakeInv
<1>1. QueueInit => QInv
  <2>. SUFFICES ASSUME QueueInit PROVE QInv
    OBVIOUS
  <2>1. TypeInv
    BY TypeInit DEF QueueInit
  <2>2. FeedsChanging
    BY DEF QueueInit, Init, FeedsChanging, Changing
  <2>3. ~Quiet
    BY DEF QueueInit, Quiet
  <2>. QED
    BY <2>1, <2>2, <2>3 DEF WakeInv
<1>2. QInv /\ [QueueNext]_queueVars => QInv'
  BY QueueStep, TypeStep, ChangingStep, WakeStep
<1>3. QInv => SettledWhenIdle
  BY DEF WakeInv, Progress, SettledWhenIdle, Alive
<1>. QED
  BY <1>1, <1>2, <1>3, PTL DEF QueueSpec
===============================================================================
