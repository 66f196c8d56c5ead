---------------------------- MODULE RedkeyConfigs ----------------------------
(***************************************************************************)
(* The decisions the operator takes on a list of RedkeyConfigs, as pure    *)
(* operators (redkey_config.go).                                           *)
(*                                                                         *)
(* listConfigs sorts by sequence, and names (<cluster>-<sequence>) are     *)
(* unique, so a list is modelled as the SET of its configs: "the last      *)
(* element" is the config of highest sequence, "the first" the lowest.     *)
(*                                                                         *)
(* A config is a record                                                    *)
(*   sequence     spec.sequence, also its name                             *)
(*   generation   the cluster-generation annotation: the generation of the *)
(*                Redkey whose spec it snapshots                           *)
(*   primaries    spec.primaries; stands for the whole topology            *)
(*                (primaries, replicasPerPrimary), 0 = scale to zero       *)
(*   configPhase  status.configPhase, written by Robin                     *)
(*   status       status.status, written by Robin: "" until it starts,     *)
(*                "Ready", "Error" or an operation; three operations stand *)
(*                for the eight there are                                  *)
(*   healthy      the health conditions Robin reports, which the operator  *)
(*                all treats alike: one stands for the six, "None" when    *)
(*                there is no report                                       *)
(* An empty configPhase (a config Robin has not touched) behaves like      *)
(* Pending in every decision below and is not kept apart.                  *)
(***************************************************************************)
EXTENDS Naturals, FiniteSets

ConfigPhases == {"Pending", "InProgress", "Superseded", "Applied"}
Operations == {"ScalingUp", "ScalingToZero", "Rebalancing"}
ConfigStatuses == Operations \cup {"", "Ready", "Error"}
HealthReports == {"None", "Unknown", "True", "False"}
RedkeyPhases == {"None", "Ready", "Configuring", "Error"}

\* &configs[len(configs)-1] and &configs[0] of a non-empty sorted list.
HighestSeq(list) == CHOOSE c \in list : \A d \in list : d.sequence <= c.sequence
LowestSeq(list) == CHOOSE c \in list : \A d \in list : c.sequence <= d.sequence

isTerminalConfigPhase(phase) == phase \in {"Applied", "Superseded"}

\* Faulty: a config in progress counts as ready.
isConfigReadyUnfinished(c) == c.status # "Error"

isConfigReady(c) == isTerminalConfigPhase(c.configPhase) /\ c.status # "Error"

\* Faulty: only an unfinished config can be in error.
hasConfigErrorUnfinished(c) == ~isTerminalConfigPhase(c.configPhase) /\ c.status = "Error"

hasConfigError(c) == isTerminalConfigPhase(c.configPhase) /\ c.status = "Error"

\* The only config, else the first InProgress one, else the first one.
selectActiveConfig(list) ==
  LET first == LowestSeq(list)
      inProgress == {c \in list : c.configPhase = "InProgress"}
  IN  IF list = {first} \/ inProgress = {} THEN first ELSE LowestSeq(inProgress)

\* The conditions Ready, ConfigPending and Error of the Redkey.
aggregateConditions(c) ==
  [Ready         |-> isConfigReady(c),
   ConfigPending |-> ~isTerminalConfigPhase(c.configPhase),
   Error         |-> hasConfigError(c)]

\* Faulty: the name of a condition for the name of a phase.
phaseNamedAfterCondition(conditions) ==
  CASE conditions.Error                       -> "Error"
    [] ~conditions.Error /\ conditions.Ready  -> "Ready"
    [] ~conditions.Error /\ ~conditions.Ready -> "ConfigPending"

computePhaseFromConditions(conditions) ==
  CASE conditions.Error                       -> "Error"
    [] ~conditions.Error /\ conditions.Ready  -> "Ready"
    [] ~conditions.Error /\ ~conditions.Ready -> "Configuring"

\* Faulty: the report is mirrored while Robin works on the cluster.
aggregateHealthUnsettled(c) ==
  IF isTerminalConfigPhase(c.configPhase) /\ c.healthy # "None" THEN c.healthy
                                                                ELSE "Unknown"

\* Robin's report counts only while the cluster is applied and Ready.
aggregateHealthConditions(c) ==
  IF isTerminalConfigPhase(c.configPhase) /\ c.status = "Ready" /\ c.healthy # "None"
  THEN c.healthy ELSE "Unknown"

\* Faulty: only the newest config is kept.
SupersededByNewest(list) == {c \in list : \E d \in list : c.sequence < d.sequence}

\* Faulty: the last Applied config is deleted too.
SupersededConfigsInclusive(list) ==
  {c \in list : \E d \in list : d.configPhase = "Applied" /\ c.sequence <= d.sequence}

\* What cleanupSupersededConfigs deletes: every config below the last Applied.
SupersededConfigs(list) ==
  {c \in list : \E d \in list : d.configPhase = "Applied" /\ c.sequence < d.sequence}

\* Faulty: the annotation of the newest config is ignored.
needsNewConfigByStatus(cluster, latest) ==
  cluster.observedGeneration < cluster.generation

\* The newest config was made for an older generation than the one seen, and
\* that generation is not recorded as observed yet.  (A config whose annotation
\* is missing or no number counts as older; createNewConfig writes a number on
\* each, and nothing in the code takes it away.)
needsNewConfig(cluster, latest) ==
  /\ latest.generation < cluster.generation
  /\ cluster.observedGeneration < cluster.generation

\* Faulty: Robin may still be at work.
ScaleToZeroRequested(latest) == latest.primaries = 0

\* Robin has finished the scale-to-zero (case C of reconcileScaleToZero).
ScaleToZeroDone(latest) == latest.primaries = 0 /\ latest.configPhase = "Applied"

\* The snapshot createNewConfig makes of the cluster's spec.
NewConfig(cluster, list) ==
  [sequence    |-> IF list = {} THEN 1 ELSE HighestSeq(list).sequence + 1,
   generation  |-> cluster.generation,
   primaries   |-> cluster.primaries,
   configPhase |-> "Pending",
   status      |-> "",
   healthy     |-> "None"]
==============================================================================
