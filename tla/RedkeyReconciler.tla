--------------------------- MODULE RedkeyReconciler ---------------------------
(***************************************************************************)
(* The Redkey controller for one Redkey: Reconcile and everything it calls *)
(* (redkey_controller.go, redkey_config.go, redkey_scale_zero.go), against *)
(* a Kubernetes API server it reads through informer caches that lag, the  *)
(* user who edits the Redkey, and Robin, which applies the RedkeyConfigs.  *)
(*                                                                         *)
(* redkeys and configs are FEEDS: the versions of the Redkey, and of the   *)
(* set of its RedkeyConfigs, that are still of interest to the operator's  *)
(* informer.  The last version is what the API server stores, the first is *)
(* what the informer cache returns, and the ones between are watch events  *)
(* on their way.  The two informers are independent of each other.         *)
(*                                                                         *)
(* One reconcile runs at a time (the work queue never hands a key to two   *)
(* workers); it is split at every API call, so that the user, Robin and    *)
(* the watches run between any two of them.  Since a cache may lag, a      *)
(* cached read is merged with the API call that follows it.  Reconcile     *)
(* always comes back: an error is requeued with backoff and every other    *)
(* return asks for RequeueAfter.                                           *)
(*                                                                         *)
(* The optimistic lock of a status update (resourceVersion) is modelled by *)
(* comparing the whole object: two versions with equal contents can stand  *)
(* for each other.  An update that changes nothing makes no new version    *)
(* (every status update of the code also sets lastUpdatedAt; time is left  *)
(* out).                                                                   *)
(***************************************************************************)
EXTENDS RedkeyConfigs, Sequences

CONSTANTS
  Primaries,        \* values the user sets spec.primaries to (0: scale to zero)
  Ephemeral,        \* spec.ephemeral (immutable)
  SkipIfSuperseded, \* spec.skipIfSuperseded
  DeletePVC,        \* spec.deletePVC
  AppliedStatuses,  \* statuses Robin reports for an Applied config
  Reports,          \* health Robin reports for an Applied config that is Ready
  RBACKinds,        \* bound: how many of the three RBAC objects are modelled
  MaxGeneration,    \* bound: the user makes at most this many generations
  LastDeletable,    \* bound: the last generation at which the Redkey may be deleted, 0 for never
  RedkeyLag,        \* bound: versions the Redkey informer may lag behind
  ConfigLag,        \* bound: versions the RedkeyConfig informer may lag behind
  MaxFaults         \* bound: failing API calls and operator restarts

ASSUME PrimariesAssumption == Primaries \subseteq Nat
ASSUME FlagsAssumption == {Ephemeral, SkipIfSuperseded, DeletePVC} \subseteq BOOLEAN
ASSUME StatusesAssumption == AppliedStatuses \subseteq ConfigStatuses
ASSUME ReportsAssumption == Reports \subseteq HealthReports
ASSUME RBACKindsAssumption == RBACKinds \in 1..3
ASSUME BoundsAssumption == {MaxGeneration, LastDeletable, RedkeyLag, ConfigLag, MaxFaults} \subseteq Nat

VARIABLES
  redkeys,    \* feed of the Redkey
  configs,    \* feed of the set of RedkeyConfigs of the Redkey
  robin,      \* which of Robin's objects exist
  robinSeen,  \* the same, in the informer caches
  pc,         \* where the running reconcile is, "idle" between reconciles
  cluster,    \* Reconcile's copy of the Redkey
  list,       \* Reconcile's list of RedkeyConfigs
  pvcs,       \* topology whose data the volumes hold, 0 when there is none
  faults      \* faults so far

storeVars == <<redkeys, configs, robin>>
localVars == <<pc, cluster, list>>
vars == <<redkeys, configs, robin, robinSeen, pc, cluster, list, pvcs, faults>>

Steps == {"idle", "ensureRBAC", "ensureRobinDeployment", "createNewConfig",
          "createZeroConfig", "listConfigs", "cleanupSupersededConfigs",
          "aggregateStatus", "deleteRobinDeployment", "deleteRBAC",
          "listAllConfigs", "deleteAllConfigs", "updateStatusScaledToZero"}

\* deletion is "foreground" once the object has a deletionTimestamp and waits
\* for its dependents, "gone" once the API server answers NotFound.
RedkeyType == [generation : Nat, primaries : Nat, deletion : {"", "foreground", "gone"},
               observedGeneration : Nat, phase : RedkeyPhases, status : ConfigStatuses,
               healthy : HealthReports, lastAppliedPrimaries : Nat]
ConfigType == [sequence : Nat, generation : Nat, primaries : Nat,
               configPhase : ConfigPhases, status : ConfigStatuses,
               healthy : HealthReports]

\* The objects of Robin the operator owns, RBAC in the order it creates them.
RBACObjects == <<"ServiceAccount", "Role", "RoleBinding">>
RBACUpTo(n) == {RBACObjects[i] : i \in 1..n}
RobinObjects == RBACUpTo(RBACKinds) \cup {"Deployment"}

\* What the API server stores and what the informer cache returns.
Stored(feed) == feed[Len(feed)]
Cached(feed) == feed[1]

\* A write to the API server.  An informer that already lags by its bound
\* receives its oldest event first.
Publish(feed, v, lag) ==
  CASE v = Stored(feed)                      -> feed
    [] v # Stored(feed) /\ Len(feed) > lag   -> Append(Tail(feed), v)
    [] v # Stored(feed) /\ Len(feed) <= lag  -> Append(feed, v)

WriteRedkey(r) == redkeys' = Publish(redkeys, r, RedkeyLag)
WriteConfigs(S) == configs' = Publish(configs, S, ConfigLag)

\* A Redkey just created by the user: generation 1, empty status.
NewRedkey(p) ==
  [generation |-> 1, primaries |-> p, deletion |-> "", observedGeneration |-> 0,
   phase |-> "None", status |-> "", healthy |-> "None", lastAppliedPrimaries |-> 0]

\* The locals of Reconcile between two reconciles.
NoCluster == NewRedkey(0)

Init ==
  /\ \E p \in Primaries : redkeys = <<NewRedkey(p)>>
  /\ configs = <<{}>>
  /\ robin = {} /\ robinSeen = {}
  /\ pc = "idle" /\ cluster = NoCluster /\ list = {}
  /\ pvcs = 0
  /\ faults = 0

------------------------------------------------------------------------------
(* The user and the API server's admission rules. *)

\* The root CEL rules: waking a storage cluster that has run before must
\* restore the topology recorded in the status.
ScaleFromZeroAllowed(old, p) ==
  \/ Ephemeral
  \/ old.primaries # 0
  \/ p = 0
  \/ old.lastAppliedPrimaries = 0
  \/ p = old.lastAppliedPrimaries

\* Any edit of the spec makes a generation; one that keeps primaries stands
\* for a change of another field.
EditSpec(p) ==
  LET r == Stored(redkeys)
  IN  /\ r.deletion = ""
      /\ r.generation < MaxGeneration
      /\ ScaleFromZeroAllowed(r, p)
      /\ WriteRedkey([r EXCEPT !.generation = @ + 1, !.primaries = p])
      /\ UNCHANGED <<configs, robin, robinSeen, localVars, pvcs, faults>>

\* The Redkey has no finalizer: it goes at once, what it owns is collected later.
DeleteRedkey ==
  /\ Stored(redkeys).deletion = "" /\ Stored(redkeys).generation <= LastDeletable
  /\ WriteRedkey([Stored(redkeys) EXCEPT !.deletion = "gone"])
  /\ UNCHANGED <<configs, robin, robinSeen, localVars, pvcs, faults>>

\* With foreground propagation it goes after what it owns.  Marking it for
\* deletion makes a generation, as the API server has it.
DeleteInForeground ==
  /\ Stored(redkeys).deletion = ""
  /\ WriteRedkey([Stored(redkeys) EXCEPT !.deletion = "foreground", !.generation = @ + 1])
  /\ UNCHANGED <<configs, robin, robinSeen, localVars, pvcs, faults>>

FinishDeletion ==
  /\ Stored(redkeys).deletion = "foreground"
  /\ Stored(configs) = {} /\ robin = {}
  /\ WriteRedkey([Stored(redkeys) EXCEPT !.deletion = "gone"])
  /\ UNCHANGED <<configs, robin, robinSeen, localVars, pvcs, faults>>

\* The garbage collector deletes the objects owned by a deleted Redkey, one by
\* one and in any order, also those created after the deletion.
CollectConfig(c) ==
  /\ Stored(redkeys).deletion # ""
  /\ WriteConfigs(Stored(configs) \ {c})
  /\ UNCHANGED <<redkeys, robin, robinSeen, localVars, pvcs, faults>>

CollectRobin(o) ==
  /\ Stored(redkeys).deletion # "" /\ o \in robin
  /\ robin' = robin \ {o}
  /\ UNCHANGED <<redkeys, configs, robinSeen, localVars, pvcs, faults>>

Collect ==
  \/ \E c \in Stored(configs) : CollectConfig(c)
  \/ \E o \in RobinObjects : CollectRobin(o)

------------------------------------------------------------------------------
(* Watch events reach the informer caches. *)

DeliverRedkey ==
  /\ Len(redkeys) > 1
  /\ redkeys' = Tail(redkeys)
  /\ UNCHANGED <<configs, robin, robinSeen, localVars, pvcs, faults>>

DeliverConfigs ==
  /\ Len(configs) > 1
  /\ configs' = Tail(configs)
  /\ UNCHANGED <<redkeys, robin, robinSeen, localVars, pvcs, faults>>

DeliverRobin(o) ==
  /\ (o \in robinSeen) # (o \in robin)
  /\ robinSeen' = IF o \in robin THEN robinSeen \cup {o} ELSE robinSeen \ {o}
  /\ UNCHANGED <<storeVars, localVars, pvcs, faults>>

Deliver == DeliverRedkey \/ DeliverConfigs \/ \E o \in RobinObjects : DeliverRobin(o)

------------------------------------------------------------------------------
(* Reconcile. *)

Goto(step, c, l) == pc' = step /\ cluster' = c /\ list' = l
Return == Goto("idle", NoCluster, {})

\* After the list of configs is final: cleanup, then status.
AfterList(c, l) ==
  IF l = {} THEN Return
  ELSE Goto(IF SupersededConfigs(l) # {} THEN "cleanupSupersededConfigs"
                                         ELSE "aggregateStatus", c, l)

\* Faulty: a Redkey the API server no longer has is reconciled all the same.
ExistsAlways(c) == TRUE

\* Get finds the Redkey; one that is being deleted is reconciled like any other.
Exists(c) == c.deletion # "gone"

\* Get the Redkey.  With primaries = 0, reconcileScaleToZero lists the configs
\* and takes case A (none), B (newest has primaries), C (scaled to zero) or
\* D (still scaling).
StartReconcile ==
  LET c == Cached(redkeys)
      l == Cached(configs)
      latest == HighestSeq(l)
  IN  /\ pc = "idle"
      /\ Exists(c)
      /\ \/ /\ c.primaries # 0
            /\ Goto("ensureRBAC", c, {})
         \/ /\ c.primaries = 0 /\ l = {}
            /\ Goto("updateStatusScaledToZero", c, l)
         \/ /\ c.primaries = 0 /\ l # {}
            /\ ScaleToZeroDone(latest)
            /\ Goto("deleteRobinDeployment", c, l)
         \/ /\ c.primaries = 0 /\ l # {}
            /\ ~ScaleToZeroDone(latest)
            /\ Goto("ensureRBAC", c, l)
      /\ UNCHANGED <<storeVars, robinSeen, pvcs, faults>>

\* The Redkey is gone: nothing is done but to drop its metrics (RedkeyMetrics).
ReconcileGone ==
  /\ pc = "idle" /\ ~Exists(Cached(redkeys))
  /\ UNCHANGED vars

\* The RBAC objects up to the nth that the cache does not show.
MissingRBAC(n) == RBACUpTo(n) \ robinSeen

\* In order, create what the cache does not show; creating what exists is an
\* error, and so is any call that fails: the objects before it are left created.
EnsureRBAC ==
  /\ pc = "ensureRBAC"
  /\ \/ /\ MissingRBAC(RBACKinds) \cap robin = {}
        /\ robin' = robin \cup MissingRBAC(RBACKinds)
        /\ Goto("ensureRobinDeployment", cluster, list)
        /\ UNCHANGED faults
     \/ \E n \in 1..RBACKinds :
          /\ RBACObjects[n] \in MissingRBAC(n) /\ MissingRBAC(n - 1) \cap robin = {}
          /\ \/ RBACObjects[n] \in robin /\ UNCHANGED faults
             \/ faults < MaxFaults /\ faults' = faults + 1
          /\ robin' = robin \cup MissingRBAC(n - 1)
          /\ Return
  /\ UNCHANGED <<redkeys, configs, robinSeen, pvcs>>

\* Where the reconcile goes on once Robin is ensured.
AfterEnsure ==
  Goto(CASE cluster.primaries # 0 -> "createNewConfig"
         [] cluster.primaries = 0 /\ HighestSeq(list).primaries # 0 -> "createZeroConfig"
         [] cluster.primaries = 0 /\ HighestSeq(list).primaries = 0 -> "aggregateStatus",
       cluster, list)

EnsureRobinDeployment ==
  /\ pc = "ensureRobinDeployment"
  /\ \/ /\ "Deployment" \in robinSeen
        /\ AfterEnsure
        /\ UNCHANGED robin
     \/ /\ "Deployment" \notin robinSeen /\ "Deployment" \notin robin
        /\ robin' = robin \cup {"Deployment"}
        /\ AfterEnsure
     \/ /\ "Deployment" \notin robinSeen /\ "Deployment" \in robin
        /\ Return
        /\ UNCHANGED robin
  /\ UNCHANGED <<redkeys, configs, robinSeen, pvcs, faults>>

\* r.Create: a config of that name (sequence) may exist already, and then
\* nothing is created and no error is reported.
CreateConfig(c) ==
  IF \E d \in Stored(configs) : d.sequence = c.sequence
  THEN UNCHANGED configs
  ELSE WriteConfigs(Stored(configs) \cup {c})

\* List the configs and create one when the generation has none.
CreateNewConfig ==
  LET l == Cached(configs)
  IN  /\ pc = "createNewConfig"
      /\ \/ /\ l # {} => needsNewConfig(cluster, HighestSeq(l))
            /\ CreateConfig(NewConfig(cluster, l))
            /\ Goto("listConfigs", cluster, {})
         \/ /\ l # {} /\ ~needsNewConfig(cluster, HighestSeq(l))
            /\ AfterList(cluster, l)
            /\ UNCHANGED configs
      /\ UNCHANGED <<redkeys, robin, robinSeen, pvcs, faults>>

\* Case B of scale-to-zero: no status is written.
CreateZeroConfig ==
  /\ pc = "createZeroConfig"
  /\ CreateConfig(NewConfig(cluster, list))
  /\ Return
  /\ UNCHANGED <<redkeys, robin, robinSeen, pvcs, faults>>

\* The list after a creation; the cache may not show the new config yet.
ListConfigs ==
  /\ pc = "listConfigs"
  /\ AfterList(cluster, Cached(configs))
  /\ UNCHANGED <<storeVars, robinSeen, pvcs, faults>>

\* r.Delete: by name, whatever object has it now; NotFound is ignored.
DeleteConfig(c) == WriteConfigs({d \in Stored(configs) : d.sequence # c.sequence})

CleanupSupersededConfigs ==
  LET c == LowestSeq(list)
  IN  /\ pc = "cleanupSupersededConfigs"
      /\ DeleteConfig(c)
      /\ AfterList(cluster, list \ {c})
      /\ UNCHANGED <<redkeys, robin, robinSeen, pvcs, faults>>

\* Faulty: a topology still being applied is recorded.
RecordedTarget(active, recorded) ==
  IF ~Ephemeral /\ active.primaries > 0 THEN active.primaries ELSE recorded

\* The recorded topology of a storage cluster once the active config applied it.
RecordedTopology(active, recorded) ==
  IF ~Ephemeral /\ active.configPhase = "Applied" /\ active.primaries > 0
  THEN active.primaries ELSE recorded

\* Faulty: the generation just fetched, which may have no config.
AggregatedStatusLive(latest, generation, active) ==
  [latest EXCEPT !.phase = computePhaseFromConditions(aggregateConditions(active)),
                 !.status = active.status,
                 !.healthy = aggregateHealthConditions(active),
                 !.observedGeneration = latest.generation,
                 !.lastAppliedPrimaries = RecordedTopology(active, @)]

\* Faulty: while a config is being applied, the generation of that config.
AggregatedStatusAtWork(latest, generation, active) ==
  [latest EXCEPT !.phase = computePhaseFromConditions(aggregateConditions(active)),
                 !.status = active.status,
                 !.healthy = aggregateHealthConditions(active),
                 !.observedGeneration = IF isConfigReady(active) THEN generation
                                                                 ELSE active.generation,
                 !.lastAppliedPrimaries = RecordedTopology(active, @)]

\* The status computed from the active config.  observedGeneration comes from
\* the copy the reconcile started with, everything else is set on the copy
\* fetched just before the update.
AggregatedStatus(latest, generation, active) ==
  [latest EXCEPT !.phase = computePhaseFromConditions(aggregateConditions(active)),
                 !.status = active.status,
                 !.healthy = aggregateHealthConditions(active),
                 !.observedGeneration = generation,
                 !.lastAppliedPrimaries = RecordedTopology(active, @)]

AggregateStatus ==
  /\ pc = "aggregateStatus"
  /\ \/ /\ Cached(redkeys) = Stored(redkeys) /\ Stored(redkeys).deletion # "gone"
        /\ WriteRedkey(AggregatedStatus(Cached(redkeys), cluster.generation,
                                        selectActiveConfig(list)))
     \/ \* NotFound, or conflicts until the retries are used up: an error.
        /\ Cached(redkeys) # Stored(redkeys) \/ Stored(redkeys).deletion = "gone"
        /\ UNCHANGED redkeys
  /\ Return
  /\ UNCHANGED <<configs, robin, robinSeen, pvcs, faults>>

\* Case C of scale-to-zero: Robin first, its configs last.
DeleteRobinDeployment ==
  /\ pc = "deleteRobinDeployment"
  /\ robin' = robin \ {"Deployment"}
  /\ Goto("deleteRBAC", cluster, list)
  /\ UNCHANGED <<redkeys, configs, robinSeen, pvcs, faults>>

\* RoleBinding, Role, ServiceAccount; a call that fails leaves the rest.
DeleteRBAC ==
  /\ pc = "deleteRBAC"
  /\ \/ /\ robin' = robin \ RBACUpTo(RBACKinds)
        /\ Goto("listAllConfigs", cluster, {})
        /\ UNCHANGED faults
     \/ /\ faults < MaxFaults /\ faults' = faults + 1
        /\ \E n \in 1..RBACKinds : robin' = robin \ (RobinObjects \ (RBACUpTo(n) \cup {"Deployment"}))
        /\ Return
  /\ UNCHANGED <<redkeys, configs, robinSeen, pvcs>>

\* Faulty: the configs are left behind.
AfterDeleteNothing(l) == Goto("updateStatusScaledToZero", cluster, l)

AfterDelete(l) ==
  Goto(IF l = {} THEN "updateStatusScaledToZero" ELSE "deleteAllConfigs", cluster, l)

ListAllConfigs ==
  /\ pc = "listAllConfigs"
  /\ AfterDelete(Cached(configs))
  /\ UNCHANGED <<storeVars, robinSeen, pvcs, faults>>

\* The list is not sorted: the deletes come in any order.
DeleteAllConfigs ==
  /\ pc = "deleteAllConfigs"
  /\ \E c \in list : DeleteConfig(c) /\ AfterDelete(list \ {c})
  /\ UNCHANGED <<redkeys, robin, robinSeen, pvcs, faults>>

\* Updates the copy the reconcile started with: it fails on any change since.
UpdateStatusScaledToZero ==
  /\ pc = "updateStatusScaledToZero"
  /\ \/ /\ cluster = Stored(redkeys)
        /\ WriteRedkey([cluster EXCEPT !.phase = "Ready", !.status = "",
                                       !.observedGeneration = cluster.generation])
     \/ /\ cluster # Stored(redkeys)
        /\ UNCHANGED redkeys
  /\ Return
  /\ UNCHANGED <<configs, robin, robinSeen, pvcs, faults>>

\* The status update a reconcile is at will be accepted.
StatusAccepted ==
  \/ pc = "aggregateStatus" /\ Cached(redkeys) = Stored(redkeys)
     /\ Stored(redkeys).deletion # "gone"
  \/ pc = "updateStatusScaledToZero" /\ cluster = Stored(redkeys)

\* Any API call of a reconcile may fail: the error is returned and requeued.
ReconcileFails ==
  /\ pc # "idle"
  /\ faults < MaxFaults
  /\ faults' = faults + 1
  /\ Return
  /\ UNCHANGED <<storeVars, robinSeen, pvcs>>

\* The operator restarts: the reconcile is lost, the caches are listed anew.
Restart ==
  /\ faults < MaxFaults
  /\ faults' = faults + 1
  /\ Return
  /\ redkeys' = <<Stored(redkeys)>>
  /\ configs' = <<Stored(configs)>>
  /\ robinSeen' = robin
  /\ UNCHANGED <<robin, pvcs>>

ReconcileStep ==
  \/ StartReconcile \/ ReconcileGone \/ EnsureRBAC \/ EnsureRobinDeployment
  \/ CreateNewConfig \/ CreateZeroConfig \/ ListConfigs
  \/ CleanupSupersededConfigs \/ AggregateStatus
  \/ DeleteRobinDeployment \/ DeleteRBAC \/ ListAllConfigs \/ DeleteAllConfigs
  \/ UpdateStatusScaledToZero

------------------------------------------------------------------------------
(* Robin: another program, modelled from what the operator, the API types  *)
(* and the tests under src/ rely on.  It runs while its Deployment and its *)
(* RBAC objects exist and writes the status of the configs.                *)

RobinRuns == robin = RobinObjects

Unfinished(S) == {c \in S : ~isTerminalConfigPhase(c.configPhase)}

\* Pending configs that scale to zero after config c.
ZeroAhead(c) ==
  {z \in Stored(configs) : z.primaries = 0 /\ z.configPhase = "Pending"
                           /\ z.sequence > c.sequence}

RobinWrites(c, phase, status, healthy) ==
  /\ WriteConfigs((Stored(configs) \ {c})
                  \cup {[c EXCEPT !.configPhase = phase, !.status = status, !.healthy = healthy]})
  /\ UNCHANGED <<redkeys, robin, robinSeen, localVars, faults>>

\* Configs are processed one at a time, in sequence.
RobinStarts(c) ==
  /\ RobinRuns /\ c.configPhase = "Pending"
  /\ c = LowestSeq(Unfinished(Stored(configs)))
  /\ \A d \in Stored(configs) : d.configPhase # "InProgress"
  /\ ZeroAhead(c) = {}
  /\ RobinWrites(c, "InProgress", IF c.primaries = 0 THEN "ScalingToZero" ELSE "ScalingUp",
                 c.healthy)
  /\ UNCHANGED pvcs

\* skipIfSuperseded, and the lookahead to a pending scale-to-zero, which stops
\* work in progress only when the data is discarded anyway.
RobinSupersedes(c) ==
  /\ RobinRuns
  /\ \/ /\ c.configPhase = "Pending"
        /\ \/ ZeroAhead(c) # {}
           \/ /\ SkipIfSuperseded
              /\ c = LowestSeq(Unfinished(Stored(configs)))
              /\ \E d \in Stored(configs) : d.configPhase = "Pending"
                                            /\ d.sequence > c.sequence
     \/ /\ c.configPhase = "InProgress"
        /\ c.primaries # 0
        /\ ZeroAhead(c) # {} /\ (Ephemeral \/ DeletePVC)
  /\ RobinWrites(c, "Superseded", c.status, c.healthy)
  /\ UNCHANGED pvcs

\* The data plane has the topology of the config, or is gone: the volumes
\* outlive a scale-to-zero unless the data is discarded.
RobinApplies(c) ==
  /\ RobinRuns /\ c.configPhase = "InProgress"
  /\ \E s \in AppliedStatuses : RobinWrites(c, "Applied", s, c.healthy)
  /\ pvcs' = IF c.primaries > 0 THEN c.primaries
             ELSE IF Ephemeral \/ DeletePVC THEN 0 ELSE pvcs

\* Health and maintenance reports on an applied config; the health conditions
\* are only refreshed while the status is Ready.
RobinReports(c) ==
  /\ RobinRuns /\ c.configPhase = "Applied"
  /\ \/ \E s \in AppliedStatuses \ {c.status} : RobinWrites(c, "Applied", s, c.healthy)
     \/ \E h \in Reports \ {c.healthy} : c.status = "Ready" /\ RobinWrites(c, "Applied", c.status, h)
  /\ UNCHANGED pvcs

RobinStep ==
  \E c \in Stored(configs) : RobinStarts(c) \/ RobinSupersedes(c) \/ RobinApplies(c)

RobinActs == RobinStep \/ \E c \in Stored(configs) : RobinReports(c)

------------------------------------------------------------------------------
Next ==
  \/ \E p \in Primaries : EditSpec(p)
  \/ DeleteRedkey \/ Collect
  \/ Deliver
  \/ ReconcileStep \/ ReconcileFails \/ Restart
  \/ RobinActs

Spec == Init /\ [][Next]_vars

\* Watches deliver, the work queue keeps running reconciles, Robin polls.  The
\* user, the faults and the health reports are not fair.
Fairness ==
  /\ WF_vars(DeliverRedkey) /\ WF_vars(DeliverConfigs) /\ \A o \in RobinObjects : WF_vars(DeliverRobin(o))
  /\ WF_vars(ReconcileStep)
  /\ WF_vars(RobinStep)

FairSpec == Spec /\ Fairness

\* Deletion in the foreground; the garbage collector forgets no object, and
\* takes any of infinitely many chances to end the deletion.
FairForegroundSpec ==
  /\ Init /\ [][Next \/ DeleteInForeground \/ FinishDeletion]_vars
  /\ Fairness
  /\ WF_vars(\E c \in Stored(configs) : CollectConfig(c))
  /\ \A o \in RobinObjects : WF_vars(CollectRobin(o))
  /\ SF_vars(FinishDeletion)

------------------------------------------------------------------------------
(* Properties. *)

\* Types: every version of a feed and every local of Reconcile is well formed.
TypeOK ==
  /\ redkeys \in Seq(RedkeyType) /\ redkeys # <<>>
  /\ configs \in Seq(SUBSET ConfigType) /\ configs # <<>>
  /\ robin \subseteq RobinObjects /\ robinSeen \subseteq RobinObjects
  /\ pc \in Steps
  /\ cluster \in RedkeyType
  /\ list \in SUBSET ConfigType
  /\ pvcs \in Nat
  /\ faults \in 0..MaxFaults

\* The order in which Robin applies configs (their sequence) is the order in
\* which the user asked for them, and no generation has two configs
\* (needsNewConfig, createNewConfig).  Not so once the Redkey is deleted: a
\* reconcile that has not seen the deletion may then reuse a sequence that the
\* garbage collector has freed.
SequencesFollowGenerations ==
  Stored(redkeys).deletion = "" =>
    \A c, d \in Stored(configs) :
      /\ c.sequence = d.sequence => c = d
      /\ c.sequence < d.sequence => c.generation < d.generation

\* status.observedGeneration never decreases, whatever the caches showed the
\* reconcile and whatever was written meanwhile (aggregateStatus,
\* updateStatusScaledToZero).
ObservedNeverGoesBack ==
  [][Stored(redkeys)'.observedGeneration >= Stored(redkeys).observedGeneration]_vars

\* A generation recorded as observed has its config: otherwise needsNewConfig
\* never creates it and the cluster stays at the old spec.
ObservedGenerationHasConfig ==
  LET r == Stored(redkeys)
  IN  r.deletion = "" /\ r.primaries # 0 /\ r.observedGeneration = r.generation
      => \E c \in Stored(configs) : c.generation = r.generation

Removed(S, T) == {c \in S : \A d \in T : d.sequence # c.sequence}

\* cleanupSupersededConfigs never deletes a config that Robin has not finished,
\* though it decides on a list that may be stale.  (Once the Redkey is deleted
\* the garbage collector may.)
CleanupDeletesOnlyDone ==
  [][pc = "cleanupSupersededConfigs" /\ Stored(redkeys).deletion = "" =>
       \A c \in Removed(Stored(configs), Stored(configs)') :
         isTerminalConfigPhase(c.configPhase)]_vars

\* cleanupSupersededConfigs never deletes the last Applied config, the baseline
\* the status is read from, as its comment and its test have it.
\* (docs/architecture.md has it deleted: see LeadingTerminalDeleted.)
CleanupKeepsBaseline ==
  [][pc = "cleanupSupersededConfigs" /\ Stored(redkeys).deletion = "" =>
       \A c \in Removed(Stored(configs), Stored(configs)') :
         \E d \in Stored(configs)' : d.configPhase = "Applied" /\ d.sequence > c.sequence]_vars

\* What docs/architecture.md says of the cleanup: it deletes the configs in a
\* terminal phase from the start of the list, up to the first that is in none
\* and never the newest.  When cleanupSupersededConfigs is done, the list would
\* then be the newest config alone or start with one that is not terminal.
LeadingTerminalDeleted ==
  pc = "aggregateStatus" /\ cluster.primaries # 0 =>
    list = {HighestSeq(list)} \/ ~isTerminalConfigPhase(LowestSeq(list).configPhase)

\* Robin's Deployment is only taken away when no config is left unfinished, as
\* long as the Redkey is not deleted (reconcileScaleToZero, case C).
RobinOutlivesWork ==
  []["Deployment" \in robin \ robin' /\ Stored(redkeys).deletion = "" => Unfinished(Stored(configs)) = {}]_vars

\* The topology the scale-from-zero lock is built on is only ever replaced by
\* that of a config which is Applied at that moment, and is never cleared.
LastAppliedFollowsApplied ==
  [][LET last == Stored(redkeys).lastAppliedPrimaries
         next == Stored(redkeys)'.lastAppliedPrimaries
     IN  next # last =>
           /\ next > 0
           /\ \E c \in Stored(configs) : c.configPhase = "Applied" /\ c.primaries = next]_vars

\* A Ready Redkey has a baseline: some config of it is Applied
\* (aggregateConditions on the config selectActiveConfig returns).
ReadyHasBaseline ==
  LET r == Stored(redkeys)
  IN  r.deletion = "" /\ r.primaries # 0 /\ r.phase = "Ready"
      => \E c \in Stored(configs) : c.configPhase = "Applied"

\* Once scaled to zero, the lock knows the topology of the volumes that are kept.
LockKnowsTopology ==
  LET r == Stored(redkeys)
  IN  r.primaries = 0 /\ Stored(configs) = {} /\ r.observedGeneration = r.generation
      => r.lastAppliedPrimaries = pvcs

\* What the user asked for last is applied and reported.
Converged ==
  LET r == Stored(redkeys)
  IN  /\ r.phase = "Ready" /\ r.observedGeneration = r.generation
      /\ r.primaries # 0 =>
           /\ Stored(configs) # {}
           /\ LET latest == HighestSeq(Stored(configs))
              IN  /\ latest.configPhase = "Applied"
                  /\ latest.generation = r.generation
                  /\ latest.primaries = r.primaries
                  /\ Stored(configs) = {latest}

\* Once the user stops editing and Robin stops reporting errors, the cluster
\* converges to the last spec: whatever the caches showed and whichever call
\* failed, the reconciles that follow create, clean up and report what is missing.
Converges ==
  <>[](\A c \in Stored(configs) : c.status # "Error")
  => <>[](Stored(redkeys).deletion = "" => Converged)

\* The phase follows the health Robin reports, in both directions.
PhaseFollowsHealth ==
  /\ <>[](\A c \in Stored(configs) : c.status # "Error")
     => <>[](Stored(redkeys).deletion = "" => Stored(redkeys).phase # "Error")
  /\ <>[](Stored(configs) # {} /\ \A c \in Stored(configs) : c.status = "Error")
     => <>[](Stored(redkeys).deletion = "" => Stored(redkeys).phase = "Error")

\* A cluster left at zero primaries ends with no Robin and no configs.
ScaleToZeroCompletes ==
  <>[](Stored(redkeys).primaries = 0 => Stored(configs) = {} /\ robin = {})

\* The health conditions follow Robin's reports on a cluster that stays Ready,
\* and are Unknown on one that stays at anything else: a report of before the
\* last operation does not survive it (aggregateHealthConditions).
HealthFollowsReports ==
  /\ \A h \in Reports :
       <>[](\A c \in Stored(configs) : c.status = "Ready" /\ c.healthy = h)
       => <>[](Stored(redkeys).deletion = "" => Stored(redkeys).healthy = h)
  /\ <>[](Stored(configs) # {} /\ \A c \in Stored(configs) : c.status # "Ready")
     => <>[](Stored(redkeys).deletion = "" => Stored(redkeys).healthy = "Unknown")

\* A Redkey that is gone leaves nothing behind: what it owned is collected, also
\* what a reconcile that had not seen the deletion created after it.
GoneLeavesNothing ==
  <>[](Stored(redkeys).deletion = "gone" => Stored(configs) = {} /\ robin = {})

\* A Redkey deleted in the foreground is gone once what it owns is collected.
ForegroundDeletionEnds ==
  (Stored(redkeys).deletion = "foreground") ~> (Stored(redkeys).deletion = "gone")
===============================================================================
