# Verification of the Redkey operator

TLA+ models of the Redkey operator (`internal/controller`, `api/v1beta1`), the TLC
configurations that check them and TLAPS proofs about them. `PROJECT.json` maps every
definition to the Go lines it translates.

## The system

The operator is a controller-runtime manager with one controller. For each `Redkey` (the
user's description of a Redis cluster) `Reconcile`

1. creates and repairs four objects for **Robin**: a ServiceAccount, a Role, a
   RoleBinding and a Deployment (`redkey_robin.go`);
2. creates a `RedkeyConfig`, a numbered snapshot of the spec, for every new generation
   of the Redkey (`redkey_config.go`);
3. deletes configs older than an applied one;
4. aggregates the configs' status into the Redkey's.

With `primaries = 0` it takes another path (`redkey_scale_zero.go`): ask Robin to scale
to zero with one more config, wait until it is Applied, then remove Robin and the
configs. Robin, a program of another repository, applies the configs in sequence and
writes their status. The API server enforces CEL rules, among them a lock: a storage
cluster that was scaled to zero must come back with the topology recorded in
`status.lastAppliedPrimaries`.

What makes this hard is that every read comes from an informer cache that lags, every
write is a separate call that may fail, the user and Robin write between any two of
them, and a restart forgets everything that is not stored.

| Part | Source | Module | State |
|---|---|---|---|
| What the pipeline of configs promises | `redkey_config.go`, `redkey_scale_zero.go` | `ConfigPipeline`; `RedkeyPipeline` for how it is implemented | abstract specification |
| Decisions on a list of configs, conditions, phase, health | `redkey_config.go`, `redkey_scale_zero.go` | `RedkeyConfigs` | modelled |
| Reconcile, scale to zero, deletion | `redkey_controller.go`, `redkey_config.go`, `redkey_scale_zero.go` | `RedkeyReconciler` | modelled |
| Watches and work queue | `redkey_controller.go` | `RedkeyWorkQueue` | modelled |
| Fleet metrics | `metrics.go` | `RedkeyMetrics` | trackers and series; no durations or activity counters |
| Admission lock | `redkey_types.go` | `RedkeyReconciler` | the scale-from-zero rule |
| Robin's objects | `redkey_robin.go` | `RobinResources` (contents), `RedkeyReconciler` (existence) | modelled |
| Robin | external | `RedkeyReconciler` | its writes of config status |
| Manager set-up, leader election | `cmd/main.go` | `RedkeyReconciler` | restart only |
| Generated code, charts, test frameworks | `zz_generated.deepcopy.go`, `charts/`, `test/` | none | no protocol state |

## Modules

**ConfigPipeline** is what operator and Robin together promise, without caches, steps,
names or sequence numbers: generations enter a queue in the order in which the user
asked, are worked on in that order and one at a time, and leave it only when a newer one
is applied or the cluster is at zero (`AtZero`: nothing in the queue is unfinished, and
the generation that entered last is an applied scale-to-zero or has left already).
`entered`, the generation that entered last, keeps a generation that has left from
coming back, with one exception: `deleteAllConfigs` deletes in the order of the list it
gets, which is not sorted, and may fail in between. When it has deleted the
scale-to-zero config and not the older ones, the next reconcile asks for the
scale-to-zero once more. Deleting the Redkey ends the promise.

**RedkeyPipeline** shows how `RedkeyReconciler` implements it (`ImplementsPipeline`): a
config is an item, its `configPhase` the item's phase. The stored configs do not tell
which generations have had one, so a history variable records the generation of the
config created last; it constrains nothing.

**RedkeyConfigs** has no state. `selectActiveConfig`, `aggregateConditions`,
`aggregateHealthConditions`, `computePhaseFromConditions`, `needsNewConfig` and the
others are operators on the set of listed configs; sequence numbers order it.
`primaries` stands for the whole topology, a config's other fields for its generation,
one health condition for the six, which the code treats alike.

**RedkeyReconciler** is one Redkey. `redkeys` and `configs` are *feeds*: the last
version is stored, the first is what the cache returns, those between are events under
way. `pc`, `cluster` and `list` are `Reconcile`'s position and locals. There is one
action per API call, with the exceptions below; a cached read belongs to the call after
it. `robin` and `robinSeen` are the objects that exist and that the caches show. `pvcs`
is the topology whose data the volumes hold. `EnsureRBAC` and `DeleteRBAC` take their
calls in one step when all succeed (nothing but the garbage collector touches these
objects in between) and stop after any of them when one fails. A status update succeeds
only on the stored version (optimistic lock). `ReconcileFails` and `Restart` are the
faults. `DeleteRedkey` removes the Redkey at once and the garbage collector (`Collect`)
what it owned, object by object; a reconcile that has not seen it goes on, and may
create more. Deletion in the foreground makes a generation and keeps the Redkey until
what it owns is gone.

**RedkeyWorkQueue** adds what wakes a reconcile: `queued` says whether the key is in the
work queue. Watch events put it there (a step that changes what a cache shows), also
while a reconcile is running, and so do an error, the list of a starting operator and
the resync. The module extends `RedkeyReconciler`, whose own specification lets a
reconcile start at any time.

**RedkeyMetrics** extends the work queue with the in-memory trackers of operations and
readiness and the series they feed. Every step is one of the work queue's;
`RecordingStep` is a reconcile that reaches `recordRedkeyMetrics`, `SilentStep` one that
does not. `begun` and `readied` are history: what Robin really began and how often the
Redkey became Ready.

**RobinResources** is what Robin's objects contain. An object is three maps (metadata,
pod metadata, other fields). A reconcile compares the cached object with the desired one
and sends a merge patch computed from the cached object, which the API server applies to
the live one. Other clients edit and delete objects, the API server fills in defaults
and the Deployment controller stamps its revision. `MCRobinResources` gives it specs to
check.

Operators marked *Faulty* are plausible mistakes in the definition that follows them;
replacing that definition by its faulty form breaks a property, which shows that the
property depends on the code it is about.

### Abstractions to know about

- `SkipIfSuperseded`, `DeletePVC` and `Ephemeral` are constants, not edited fields.
- Every config carries its generation. `needsNewConfig` falls back to
  `observedGeneration` for one whose annotation is missing or no number; the operator
  writes the annotation on each and nothing in the code removes it.
- A config that Robin has not touched is Pending. Robin takes configs in sequence, so a
  Pending config below an Applied one, which `redkey_config_test.go:365-440` sets up for
  the cleanup, is not reached here.
- Time (`lastUpdatedAt`, requeue delays) is left out, and an update that changes nothing
  makes no version. In the cluster `lastUpdatedAt` has a resolution of a second, so an
  unchanged status usually does make one, and an event.
- `ConfigLag = 0` means that listing configs and creating one is atomic. It is an
  assumption, not a fact about the code: see *LostGeneration*.
- One incarnation of the Redkey: it is not created again under its name. One operator at
  a time, as with leader election; a takeover is `Restart`.
- Owned objects go only by the operator's hand or the garbage collector's. Edits by
  other clients are in `RobinResources`, which in turn does not scale to zero: the two
  are not composed, since existence and contents of the objects meet only in the two
  calls that `RedkeyReconciler` makes one step each.
- In `RobinResources` labels and annotations are one map, environment variables are
  unordered, lists in the pod template are patched by field, users do not set the
  revision annotation themselves, and an informer catches up with the latest version.

## Runs that pass

| Run | Bounds | Shows |
|---|---|---|
| RunningStaleCaches | `RedkeyPipeline`: primaries {1,2}, 3 generations, both lags 2, 1 fault, 2 RBAC objects, deletion at generation 1 | `ImplementsPipeline`: only steps of `ConfigPipeline`. `SequencesFollowGenerations`: configs are numbered in the order of the generations, one each, until the Redkey is deleted (the garbage collector takes them in any order). `ObservedNeverGoesBack`. `CleanupDeletesOnlyDone`, `CleanupKeepsBaseline`: a stale list deletes neither work nor the baseline. `LastAppliedFollowsApplied`: the lock records applied topologies only. `ReadyHasBaseline`. |
| RunningHealth | `RedkeyWorkQueue`: primaries {1}, 2 generations, Redkey lag 1, config lag 0, 1 fault, 1 RBAC object, errors and health reported, deletion at generation 1 | `ObservedGenerationHasConfig`; `PhaseFollowsHealth` into Error and back; `HealthFollowsReports`: the health conditions are those Robin reports on a Ready cluster and Unknown on one at work; `Converges` to the last spec. `SettledWhenIdle`: when no reconcile runs, the key is not queued and nothing is on its way, the last reconcile left nothing undone. |
| ScaleToZeroSafe | `RedkeyPipeline`: primaries {0,1}, 4 generations, no lag, 1 fault, 1 RBAC object, volumes deleted, one health report | `ImplementsPipeline` with scale-to-zero, also when the removal of the configs is cut short; configs stay ordered, no generation is lost, and `RobinOutlivesWork`: Robin goes only when no config is unfinished. |
| ScaleToZeroLive | `RedkeyWorkQueue`: primaries {0,1}, 4 generations, Redkey lag 1, no faults, 1 RBAC object | The same without faults, and `Converges`, `ScaleToZeroCompletes`. |
| FleetMetrics | `RedkeyMetrics`: primaries {0,1}, 2 generations, no lag, 1 fault, 1 RBAC object, deletion at any time | `CountedOnce`: no operation is counted twice. `SampledOnTransitions`: at most one time-to-ready sample for each time the Redkey became Ready, or was found Ready by a new process. `SeriesTrueWhenIdle`: an operator that nothing will wake shows the stored status, and nothing of a Redkey that is gone. `SettledWhenIdle` with scale-to-zero. `SeriesFollowStatus`: the series end up showing the stored status, and nothing of a Redkey that is gone. `GoneLeavesNothing`: what a late reconcile creates is collected too. |
| RobinObjectsSettle | `MCRobinResources`: 2 specs, 1 edit, 1 drift, 1 fault | `RepairsWhatItSees`: one reconcile on fresh caches misses no drift and repairs it. `Settles`: the objects end up as specified. `StopsWriting`: no endless patching. `RevisionKept`. |

Why the bounds are enough to be interesting: three generations give a baseline, a config
at work and one waiting; four allow zero, wake-up and zero again; a lag of two lets a
cache be older than two successive writes; one fault falls between any two calls; two
RBAC objects are enough for a call that fails between them. Where `RBACKinds` is 1 the
first stands for the three (the safety of scale-to-zero is proved for any number of
them). `LastDeletable` bounds deletion to the first generations because a deleted Redkey
multiplies the states by the orders in which its objects are collected. They are small
instances: more edits, faults or lag are not covered except where a theorem says so.

Some bounds are narrower than the code:

- Scale to zero and `ObservedGenerationHasConfig` are checked with `ConfigLag = 0`
  because with a stale config list they fail (below).
- `SequencesFollowGenerations` and `CleanupDeletesOnlyDone` also fail when scale-to-zero
  meets a stale config list: sequences restart at 1 once all configs are gone
  (`redkey_config.go:61`), so a name can be used twice.
- `ReadyHasBaseline` is checked without `skipIfSuperseded`; with it, a Superseded first
  config makes the Redkey Ready with nothing applied. It is weaker than
  `docs/redkey-cluster-status.md:84` ("`Ready` means the highest-sequence `RedkeyConfig`
  was **applied**"): while the newest config is Pending, `selectActiveConfig` falls back
  to the Applied baseline, so the phase stays Ready with `observedGeneration` already
  that of the new spec.
- `ScaleToZeroCompletes` is checked without faults for the reason *RobinLeft* shows.
- `CountedOnce` is checked with `RedkeyLag = 0` and for a cluster that keeps its
  volumes. With scale-to-zero and a Redkey cache one version behind it fails: case B
  writes no status and records the copy it started with; when that copy is older than
  the last status, an operation in progress is counted as a success, and again when it
  ends. With `deletePVC`, or for an ephemeral cluster, a scale-to-zero discards work
  that has begun; the discarded config keeps its status, can become the active config
  again and is counted a second time. When a Redkey is deleted, a reconcile with an old
  copy may still record the status of that copy.
- After scale-to-zero the health conditions stay as they were unless a config at work
  was aggregated on the way; `HealthFollowsReports` speaks only of Redkeys that have
  configs.
- `RobinResources` asks only for the fields the template sets. A field that is removed
  from `spec.robin.template` stays in the Deployment until something else differs, since
  `DeepDerivative` does not compare what the desired template leaves out
  (`redkey_robin.go:509`).
- The topology lock judges one edit at a time: from zero to the old topology and on to
  another one before the first reconcile is accepted.

### Fairness

Weak fairness of the watches (informers deliver), of reconciles (a worker takes a queued
key, and a reconcile that runs goes on), of Robin's work (it polls), of the garbage
collector in *FleetMetrics* and *ForegroundDeletion*, and, in `RobinResources`, of the
Deployment controller. Users, other clients, faults and health reports are not fair, and
are bounded.

The resync is *not* fair in `RedkeyWorkQueue` and `RedkeyMetrics`: what these runs show
holds by watch events and error requeues alone, as `redkey_controller.go:162` says ("The
controller should be fully event-driven under normal operation"). Without
`Owns(RedkeyConfig)` it would not. In these runs the requeue after a lost optimistic
lock is redundant: the write that won is itself an event still to come. That nothing is
left undone when nothing is on its way is a safety property (`SettledWhenIdle`) and is
proved.

*RobinLeft* and *ForegroundDeletion* use `RedkeyReconciler`, where reconciles are fair
whether queued or not: what fails there fails with the resync too. *ForegroundDeletion*
also gives the garbage collector strong fairness to finish.

## Runs that show a disagreement

Each checks one statement of the code's comments or the docs and finds a behaviour of
the model that contradicts it. None has been reproduced on a running cluster.

| Run | The statement fails because |
|---|---|
| LostGeneration | `AlreadyExists` is taken for "our config is there"; it may be an older generation's, and the new one is recorded as observed without a config. Needs a config cache one version behind. |
| LockRace | Scaling to zero before the reconcile that follows Applied leaves the topology unrecorded. |
| RobinLeft | An empty config list is taken for nothing to clean up; objects of a reconcile that failed before its first config stay. |
| RobinRemovedAtWork | A stale list shows an old Applied scale-to-zero config as the newest. |
| ForegroundDeletion | A Redkey that is being deleted in the foreground is reconciled like any other: what the garbage collector takes is created again. |
| LeadingTerminal | `docs/architecture.md:281-282`, 300-305 and 507-508 have the cleanup delete every leading terminal config but the newest, so the Applied one goes as soon as a newer one exists. The code, its comment and its test keep the last Applied config until a newer one is Applied (`CleanupKeepsBaseline`). |

Most depend on the timing of watches, edits and faults; whether they matter in practice
depends on how long caches lag there. Those that involve Robin depend on the model of
Robin, which is inferred and not translated.

## Proofs

Checked by TLAPS for every value of the constants that satisfies the named assumptions
(`PrimariesAssumption`, `FlagsAssumption`, `StatusesAssumption`, `ReportsAssumption`,
`RBACKindsAssumption`, `BoundsAssumption`), hence for any topologies, lag, number of
generations and faults, with deletion (in the background) at any time. The invariants
below were model-checked on small instances before they were proved.

### The reconciler

`RedkeyReconcilerProofs`, without further hypotheses:

- `TypeCorrect`: `Spec => []TypeOK`. `TypeOK` is not inductive: `HighestSeq` and
  `LowestSeq` are a choice, which needs a finite, non-empty list. `TypeInv` adds that
  config sets are finite and that `list` is non-empty where the reconcile takes its
  first or active element. The lemmas on lists of configs prove that such elements
  exist.
- `ObservedMonotone`: `Spec => ObservedNeverGoesBack`. A reconcile may write the
  generation of an old copy. `ObservedInv` says why that is never a step back: the
  generations in the feed are ordered, nothing observed exceeds the *cached* generation,
  and while a reconcile runs nothing observed exceeds the generation of its own copy.
  This rests on reconciles of one key being serial.

`RedkeySafetyProofs`, under `Regime`: either the cluster is never scaled to zero (`0
\notin Primaries`), and then both informers may lag arbitrarily, or the RedkeyConfig
informer does not lag (`ConfigLag = 0`), and then the cluster may be scaled to zero and
the Redkey informer may lag. With both at once the configs can leave their order and
Robin can be removed at work (*RobinRemovedAtWork*). The code does not provide
`ConfigLag = 0`; the theorems say what holds as long as the list is fresh.

| Theorem | Property | Hypothesis |
|---|---|---|
| `ConfigsInOrder` | `SequencesFollowGenerations` | `Regime` |
| `CleanupDone`, `CleanupBaseline` | `CleanupDeletesOnlyDone`, `CleanupKeepsBaseline` | `Regime` |
| `RobinStays` | `RobinOutlivesWork` | `ConfigLag = 0`; *RobinRemovedAtWork* shows it is needed |
| `LastApplied` | `LastAppliedFollowsApplied` | `Regime` |
| `ObservedHasConfig` | `ObservedGenerationHasConfig` | `ConfigLag = 0`; *LostGeneration* shows it is needed |
| `ReadyBaseline` | `ReadyHasBaseline` | no scale-to-zero, `skipIfSuperseded` off; TLC refutes it without either |

The argument is one inductive invariant, `PipelineInv` of `RedkeyPipelineProofs`,
together with the two above. It speaks of Redkeys that are not deleted; deletion ends
what is promised. What it says:

- every version of the config list in the feed, and the list the reconcile holds, is
  `WellFormed`: unique sequences that follow the generations, and everything below a
  config Robin has taken up is done;
- a later version `Follows` an earlier one: it reaches as far, the same name is the same
  snapshot, what was done is still done, the baseline is not older. This is what makes a
  decision on a stale list harmless: what it deletes was done and stays done, what it
  would create again exists;
- what a list shows is still stored, or the list itself shows that it may go (`Kept`),
  and nothing above what the cache shows has been deleted (`NoGapAbove`): the next
  number of a stale list is either free and right, or taken;
- no config is newer than any copy of the Redkey that somebody may still act on, and a
  generation has one topology in all of them (`CopiesInv`);
- on the scale-to-zero path the list has exactly the stored configs, and where the
  reconcile tears Robin down nothing is unfinished (`ZeroInv`); `ControlInv` records
  which path and which checks led to each step.

`SequencesFollowGenerations` alone is far from inductive: that a new config gets a free
number depends on what the lists under way show, and that its generation is the newest
on what every copy of the Redkey says. Each step of the model is shown to be one of a
handful of kinds of change (Redkey edited, status written, configs grown, trimmed or
worked on by Robin, a delivery, a reconcile moving on), and each kind to preserve the
invariant. `ObservedHasConfig` needs `ObservedConfigInv` (every copy's observed
generation has a config, also where the reconcile is about to write one),
`ReadyBaseline` needs `BaselineInv` (no config is Superseded; a copy that says Ready is
of a time when a config was Applied, and one still is).

`RedkeyRefinementProofs`:

- `ImplementsConfigPipeline`: `Regime /\ PipelineSpec => ImplementsPipeline`. The
  invariant `EnteredInv` says that the generation that entered last is the newest of the
  configs, that when it has no config any more nothing is left to do and every copy of
  the Redkey that is at it asks for zero, and that while case C tears down, the config
  of that generation, where it is left, is an Applied scale-to-zero. Then each kind of
  change of the stored configs is mapped: a creation to `Enqueue`, by the second
  disjunct when the scale-to-zero is asked for again, a cleanup or a delete of case C to
  `Retire`, a write of Robin to `Begin`, `Finish` or `Skip`, everything else to no step.

### Queue and metrics

A step of `RedkeyWorkQueue` is one of `RedkeyReconciler` (`QueueStep`), and a step of
`RedkeyMetrics` is one of `RedkeyWorkQueue` (`MetricsStep`), by the way these modules
are built. Every theorem above therefore holds of the operator as a whole, which
`OperatorSafe` of `RedkeyMetricsProofs` spells out for three of them. The following hold
for all constants, so for any lag and with scale-to-zero.

- `NoLostWakeUp` (`RedkeySafetyProofs`): `QueueSpec => []SettledWhenIdle`. The
  property says nothing about states in which a reconcile runs or an event is on its
  way, and these are most of them. The invariant `WakeInv` follows what a running
  reconcile has checked so far (`Progress`). As long as the key is not queued, both
  caches show what the reconcile saw when it started, so every check it made still
  holds: its copy is the stored Redkey, its list the stored configs, the objects it
  ensured are there, and what it is about to write is the status that belongs to them.
  Any step that invalidates one of these is an event, now or when it is delivered
  (`FeedsChanging`: no two successive versions are alike), and queues the key. A return
  without an error therefore ends in a settled state, and a return with one is queued.
- `ReadySamples` (`RedkeyMetricsProofs`): `MetricsSpec => []SampledOnTransitions`. The
  invariant `SampleInv`: while the tracker has not seen the Redkey Ready and it is, a
  sample is still owed. `GoneInv`: once the cache shows that the Redkey is gone, it is;
  the tracker is reset then, and no reconcile records again.
- `SeriesTrue` (`RedkeyMetricsProofs`): `MetricsSpec => []SeriesTrueWhenIdle`, on top of
  the invariant of `NoLostWakeUp`: the reconcile that leaves the operator idle recorded
  what it wrote, or found the Redkey gone.

`RedkeyStatusProofs` and `RedkeyCountProofs` are about `CountedOnce`. The hypothesis
`Steady` leaves two cases: the cluster is never scaled to zero; or both informers are
fresh, the cluster keeps its volumes and Robin reports no operation for an Applied
config. TLC refutes `CountedOnce` with scale-to-zero and a lagging Redkey informer, and
for an ephemeral cluster.

- `CountedOnceUntilDeleted`: under `Steady`, `CountedOnce` holds while the Redkey is not
  deleted, or always when the Redkey informer does not lag.

A status travels from Robin's write over the feed of the configs and the list of a
reconcile to the Redkey and the tracker. The argument is a numbering (`Tracks`, in
`RedkeyStatusProofs`): for each operation every place on this way is given the number of
times the operation has begun as far as that place can tell. The numbers never decrease
along the way, and grow by one from a place that does not show the operation to a later
one that does. What is counted is at most the number of the Redkey, and the number of
the newest version at most what Robin began. A read, a write, a delivery and a cleanup
each keep such a numbering, because `selectActiveConfig` picks the same config before
and after the cleanup of what an Applied config made obsolete (`Active`). `CountInv`
adds that the tracked operation is the one the Redkey reports, and that a reconcile
which writes no status has a copy with the stored status (`FreshInv`) or one without an
operation (`EmptyInv`).

### Robin's objects

`RobinResourcesProofs`, for any specs, drift and faults:

- `RobinTypeCorrect`: `Spec => []TypeOK`. Merge patches from stale objects, edits by
  others and defaulting leave each object the fields its kind must have.
- `RevisionSafe`: `NoUserRevision /\ Spec => RevisionKept`. The merge patch touches only
  keys in which the cached and the desired object differ, and
  `preserveManagedAnnotations` makes them agree on the revision.
- `RepairComplete`: `NoUserRevision /\ Spec => RepairsWhatItSees`. When the cached
  object is the live one, the patch yields exactly the desired maps (`MergeSame`), and
  what `robinDeploymentNeedsUpdate` lets pass differs only in the revision and in fields
  the template does not set.

`NoUserRevision` says that users do not put `deployment.kubernetes.io/revision` among
their own annotations. A user who does has it overwritten by the controller.

### Only model-checked

- All liveness (`Converges`, `ScaleToZeroCompletes`, `PhaseFollowsHealth`,
  `HealthFollowsReports`, `SeriesFollowStatus`, `GoneLeavesNothing`, `Settles`,
  `StopsWriting`): the proof system does not reason about fairness. What is proved on
  the way to the first five is that nothing is left undone, or shown wrongly, when
  nothing is on its way (`NoLostWakeUp`, `SeriesTrue`).
- The disagreements above, which are counterexamples.

## Not modelled, and why

- A Redkey created again under its name before its configs are collected (`listConfigs`
  matches by label): every object would need an identity.
- Two operators at once, without `--leader-elect`: the model has one reconcile at a
  time.
- Per-config `skipIfSuperseded` and `deletePVC`: each is one constant for a run.
- Substatus, nodes and replicas in the status: copied, and read by no decision.
- Durations, and the counters of stage errors, config creations, cleanup and Deployment
  changes: nothing reads them.
- The admission rules of single fields: they only restrict which specs exist.
- Flags, TLS, cache options, health endpoints and leader election (`cmd/main.go`):
  handed to controller-runtime. API structs, generated deep copies, charts and test
  frameworks have no behaviour of the protocol.
