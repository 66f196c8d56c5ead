---------------------------- MODULE RobinResources ----------------------------
(***************************************************************************)
(* The contents of Robin's ServiceAccount, Role, RoleBinding and           *)
(* Deployment (redkey_robin.go): what the operator wants them to be, how   *)
(* it detects drift in an informer cache that lags, and how it repairs it, *)
(* while the user edits the Redkey, other clients edit or delete the       *)
(* objects and the Deployment controller stamps its revision.              *)
(*                                                                         *)
(* RedkeyReconciler models when these objects come and go; this module     *)
(* models what they contain.  An object is a record of three maps:         *)
(*   meta     its labels and annotations, in one map                       *)
(*   podMeta  the same of the Deployment's pod template, else empty        *)
(*   body     the other fields that are set, each with one value           *)
(* A map is a function on the keys it has.  live and seen map the kinds    *)
(* that exist, in the API server and in the informer caches, to objects.   *)
(* An informer that catches up catches up with the latest version.         *)
(***************************************************************************)
EXTENDS Naturals

CONSTANTS
  Specs,      \* specs of the Redkey: see SpecType
  MaxEdits,   \* bound: edits of the Redkey
  MaxDrifts,  \* bound: edits of the objects by other clients
  MaxFaults   \* bound: failing API calls

ASSUME SpecsAssumption ==
  \A s \in Specs : DOMAIN s = {"meta", "tplMeta", "template"}
ASSUME BoundsAssumption == {MaxEdits, MaxDrifts, MaxFaults} \subseteq Nat

VARIABLES
  spec,      \* spec of the Redkey: spec.labels and spec.annotations (meta),
             \* spec.robin.template.metadata (tplMeta) and .spec (template)
  specSeen,  \* the same, in the informer cache
  live,      \* the objects in the API server
  seen,      \* the objects in the informer caches
  pc,        \* the object being ensured, "idle" between reconciles
  cluster,   \* the spec of the reconcile's copy of the Redkey
  edits, drifts, faults

vars == <<spec, specSeen, live, seen, pc, cluster, edits, drifts, faults>>
environment == <<spec, specSeen, edits, drifts>>

Kinds == {"ServiceAccount", "Role", "RoleBinding", "Deployment"}
Steps == Kinds \cup {"idle", "recreateRoleBinding"}

------------------------------------------------------------------------------
(* Maps. *)

Empty == <<>>
Single(k, v) == [j \in {k} |-> v]
Without(m, K) == [k \in DOMAIN m \ K |-> m[k]]

\* maps.Copy(dst, src), as a new map.
Copy(dst, src) ==
  [k \in DOMAIN dst \cup DOMAIN src |-> IF k \in DOMAIN src THEN src[k] ELSE dst[k]]

\* equality.Semantic.DeepDerivative: what is not set in d is not compared.
DeepDerivative(d, e) == \A k \in DOMAIN d : k \in DOMAIN e /\ e[k] = d[k]

\* client.MergeFrom: a JSON merge patch from base to modified, applied to m.
MergeFrom(base, modified, m) ==
  LET changed == {k \in DOMAIN modified : k \notin DOMAIN base \/ base[k] # modified[k]}
      removed == DOMAIN base \ DOMAIN modified
  IN  [k \in (DOMAIN m \ removed) \cup changed |->
         IF k \in changed THEN modified[k] ELSE m[k]]

------------------------------------------------------------------------------
(* The desired objects. *)

\* Internal labels, and the environment Robin must not lose.
BaseLabels == [cluster |-> "own"]
robinDefaultEnvVars == [CLUSTER_NAME |-> "own"]

mergeMeta(s, override, base) ==
  Copy(IF DOMAIN override # {} THEN override ELSE s, base)

DesiredRobinRules == [rules |-> "own"]

\* Faulty: the number of replicas is left out.
buildDesiredWithoutReplicas(s) ==
  [meta    |-> mergeMeta(s.meta, Empty, BaseLabels),
   podMeta |-> mergeMeta(s.meta, s.tplMeta, BaseLabels),
   body    |-> Copy(Copy([image |-> "own"], s.template), robinDefaultEnvVars)]

\* The template overrides the defaults, except for Robin's own environment.
buildDesiredRobinDeployment(s) ==
  [meta    |-> mergeMeta(s.meta, Empty, BaseLabels),
   podMeta |-> mergeMeta(s.meta, s.tplMeta, BaseLabels),
   body    |-> Copy(Copy([image |-> "own", replicas |-> "own"], s.template),
                    robinDefaultEnvVars)]

desiredRBAC(s, body) ==
  [meta |-> mergeMeta(s.meta, Empty, BaseLabels), podMeta |-> Empty, body |-> body]

Desired(o, s) ==
  CASE o = "ServiceAccount" -> desiredRBAC(s, Empty)
    [] o = "Role"           -> desiredRBAC(s, DesiredRobinRules)
    [] o = "RoleBinding"    -> desiredRBAC(s, [subjects |-> "own", roleRef |-> "own"])
    [] o = "Deployment"     -> buildDesiredRobinDeployment(s)

------------------------------------------------------------------------------
(* Drift. *)

\* Faulty: the revision counts as drift.
stripNothing(annotations) == annotations

stripManagedAnnotations(annotations) == Without(annotations, {"revision"})

\* Faulty: the patch removes the revision.
preserveNothing(existing, desired) == desired

preserveManagedAnnotations(existing, desired) ==
  IF "revision" \in DOMAIN existing
  THEN Copy(desired, [revision |-> existing["revision"]]) ELSE desired

\* Faulty: labels and annotations that were removed are not missed.
needsUpdateDerivative(existing, desired) ==
  \/ existing.body["replicas"] # desired.body["replicas"]
  \/ ~DeepDerivative(desired.meta, existing.meta)
  \/ ~DeepDerivative(desired.podMeta, existing.podMeta)
  \/ ~DeepDerivative(desired.body, existing.body)

robinDeploymentNeedsUpdate(existing, desired) ==
  \/ existing.body["replicas"] # desired.body["replicas"]
  \/ stripManagedAnnotations(existing.meta) # desired.meta
  \/ existing.podMeta # desired.podMeta
  \/ ~DeepDerivative(desired.body, existing.body)

\* RoleRef is immutable.
NeedsRecreate(o, existing, desired) ==
  o = "RoleBinding" /\ existing.body["roleRef"] # desired.body["roleRef"]

NeedsPatch(o, existing, desired) ==
  IF o = "Deployment" THEN robinDeploymentNeedsUpdate(existing, desired)
                      ELSE existing # desired

\* The object after the patch the operator sends: from the cached object to the
\* desired one, applied to the live one.
Patched(o, existing, desired, object) ==
  LET meta == IF o = "Deployment"
              THEN preserveManagedAnnotations(existing.meta, desired.meta)
              ELSE desired.meta
  IN  [meta    |-> MergeFrom(existing.meta, meta, object.meta),
       podMeta |-> MergeFrom(existing.podMeta, desired.podMeta, object.podMeta),
       body    |-> MergeFrom(existing.body, desired.body, object.body)]

\* What the API server stores: a pod template always has its defaults.
Admit(o, object) ==
  IF o = "Deployment"
  THEN [object EXCEPT !.body = Copy([defaulted |-> "k8s"], @)] ELSE object

Put(o, object) == live' = Copy(live, Single(o, Admit(o, object)))

------------------------------------------------------------------------------
Init ==
  /\ spec \in Specs /\ specSeen = spec /\ cluster = spec
  /\ live = Empty /\ seen = Empty
  /\ pc = "idle"
  /\ edits = 0 /\ drifts = 0 /\ faults = 0

(* The user, other clients, Kubernetes. *)

EditSpec ==
  /\ edits < MaxEdits
  /\ edits' = edits + 1
  /\ spec' \in Specs \ {spec}
  /\ UNCHANGED <<specSeen, live, seen, pc, cluster, drifts, faults>>

\* Another client deletes an object, adds a label, or changes a field (a
\* RoleRef by replacing the RoleBinding).
Drift(o) ==
  /\ drifts < MaxDrifts
  /\ drifts' = drifts + 1
  /\ \/ live' = Without(live, {o})
     \/ Put(o, [live[o] EXCEPT !.meta = Copy(@, [extra |-> "other"])])
     \/ \E k \in DOMAIN live[o].body \ {"defaulted"} :
          Put(o, [live[o] EXCEPT !.body[k] = "other"])
  /\ UNCHANGED <<spec, specSeen, seen, pc, cluster, edits, faults>>

Template(object) == [podMeta |-> object.podMeta, body |-> Without(object.body, {"replicas"})]

\* The Deployment controller stamps the revision of the pod template.
StampRevision ==
  /\ "Deployment" \in DOMAIN live
  /\ LET d == live["Deployment"]
     IN  /\ "revision" \in DOMAIN d.meta => d.meta["revision"] # Template(d)
         /\ Put("Deployment", [d EXCEPT !.meta = Copy(@, [revision |-> Template(d)])])
  /\ UNCHANGED <<environment, seen, pc, cluster, faults>>

DeliverSpec ==
  /\ specSeen # spec
  /\ specSeen' = spec
  /\ UNCHANGED <<spec, live, seen, pc, cluster, edits, drifts, faults>>

DeliverRobin(o) ==
  /\ seen' = IF o \in DOMAIN live THEN Copy(seen, Single(o, live[o])) ELSE Without(seen, {o})
  /\ seen' # seen
  /\ UNCHANGED <<environment, live, pc, cluster, faults>>

------------------------------------------------------------------------------
(* ensureRBAC and ensureRobinDeployment within a reconcile. *)

Following(o) ==
  CASE o = "ServiceAccount" -> "Role" [] o = "Role" -> "RoleBinding"
    [] o = "RoleBinding" -> "Deployment" [] o = "Deployment" -> "idle"

StartReconcile ==
  /\ pc = "idle"
  /\ pc' = "ServiceAccount"
  /\ cluster' = specSeen
  /\ UNCHANGED <<environment, live, seen, faults>>

\* r.Create: an error when the object exists.
Create(o) ==
  \/ /\ o \notin DOMAIN live
     /\ Put(o, Desired(o, cluster))
     /\ pc' = Following(o)
  \/ /\ o \in DOMAIN live
     /\ pc' = "idle"
     /\ UNCHANGED live

CreateMissing(o) ==
  /\ pc = o /\ o \notin DOMAIN seen
  /\ Create(o)
  /\ UNCHANGED <<environment, seen, cluster, faults>>

KeepMatching(o) ==
  /\ pc = o /\ o \in DOMAIN seen
  /\ ~NeedsRecreate(o, seen[o], Desired(o, cluster))
  /\ ~NeedsPatch(o, seen[o], Desired(o, cluster))
  /\ pc' = Following(o)
  /\ UNCHANGED <<environment, live, seen, cluster, faults>>

\* r.Patch: an error when the object is gone.
PatchDrifted(o) ==
  /\ pc = o /\ o \in DOMAIN seen
  /\ ~NeedsRecreate(o, seen[o], Desired(o, cluster))
  /\ NeedsPatch(o, seen[o], Desired(o, cluster))
  /\ \/ /\ o \in DOMAIN live
        /\ Put(o, Patched(o, seen[o], Desired(o, cluster), live[o]))
        /\ pc' = Following(o)
     \/ /\ o \notin DOMAIN live
        /\ pc' = "idle"
        /\ UNCHANGED live
  /\ UNCHANGED <<environment, seen, cluster, faults>>

\* r.Delete: here an error when the RoleBinding is gone.
DeleteRoleBinding ==
  LET o == "RoleBinding"
  IN  /\ pc = o /\ o \in DOMAIN seen
      /\ NeedsRecreate(o, seen[o], Desired(o, cluster))
      /\ live' = Without(live, {o})
      /\ pc' = IF o \in DOMAIN live THEN "recreateRoleBinding" ELSE "idle"
      /\ UNCHANGED <<environment, seen, cluster, faults>>

RecreateRoleBinding ==
  /\ pc = "recreateRoleBinding"
  /\ Create("RoleBinding")
  /\ UNCHANGED <<environment, seen, cluster, faults>>

\* A call fails: the reconcile ends with an error and is retried.
ReconcileFails ==
  /\ pc # "idle" /\ faults < MaxFaults
  /\ faults' = faults + 1
  /\ pc' = "idle"
  /\ UNCHANGED <<environment, live, seen, cluster>>

ReconcileStep ==
  \/ StartReconcile
  \/ \E o \in Kinds : CreateMissing(o) \/ KeepMatching(o) \/ PatchDrifted(o)
  \/ DeleteRoleBinding \/ RecreateRoleBinding

Next ==
  \/ EditSpec \/ \E o \in DOMAIN live : Drift(o)
  \/ StampRevision \/ DeliverSpec \/ \E o \in Kinds : DeliverRobin(o)
  \/ ReconcileStep \/ ReconcileFails

Spec == Init /\ [][Next]_vars

\* Reconciles keep running, watches deliver, the Deployment controller works.
Fairness ==
  /\ WF_vars(ReconcileStep) /\ WF_vars(StampRevision)
  /\ WF_vars(DeliverSpec) /\ \A o \in Kinds : WF_vars(DeliverRobin(o))

FairSpec == Spec /\ Fairness

------------------------------------------------------------------------------
(* Properties. *)

\* Types: the maps of objects are maps of objects, and the fields drift
\* detection dereferences are there.
TypeOK ==
  /\ spec \in Specs /\ specSeen \in Specs /\ cluster \in Specs
  /\ \A m \in {live, seen} :
       /\ DOMAIN m \subseteq Kinds
       /\ \A o \in DOMAIN m :
            /\ DOMAIN m[o] = {"meta", "podMeta", "body"}
            /\ o = "RoleBinding" => {"subjects", "roleRef"} = DOMAIN m[o].body
            /\ o = "Deployment" => {"replicas", "image", "CLUSTER_NAME"} \subseteq DOMAIN m[o].body
  /\ pc \in Steps
  /\ edits \in 0..MaxEdits /\ drifts \in 0..MaxDrifts /\ faults \in 0..MaxFaults

\* No step of a reconcile removes or changes the revision the Deployment
\* controller stamped, though it patches from a cached copy that may have none or
\* an older one (preserveManagedAnnotations, the merge patch).
RevisionKept ==
  [][pc # "idle" /\ drifts' = drifts /\ pc' # pc /\ "Deployment" \in DOMAIN live
     /\ "revision" \in DOMAIN live["Deployment"].meta
     => /\ "Deployment" \in DOMAIN live'
        /\ "revision" \in DOMAIN live'["Deployment"].meta
        /\ live'["Deployment"].meta["revision"] = live["Deployment"].meta["revision"]]_vars

\* Everything the user asked for is in the objects, the labels and annotations
\* are no more than that, and the internal ones are the operator's.
Matches(o) ==
  LET d == Desired(o, spec)
  IN  /\ o \in DOMAIN live
      /\ Without(live[o].meta, {"revision"}) = d.meta
      /\ live[o].podMeta = d.podMeta
      /\ DeepDerivative(d.body, live[o].body)

\* What the informer cache shows of an object is what the API server stores.
Current(o) ==
  /\ o \in DOMAIN seen <=> o \in DOMAIN live
  /\ o \in DOMAIN live => seen[o] = live[o]

\* A reconcile that has seen the latest spec and object, and goes on without an
\* error, leaves the object as the spec wants it: it misses no drift, and one
\* patch is enough (robinDeploymentNeedsUpdate, the merge patch).
RepairsWhatItSees ==
  [][\A o \in Kinds :
       pc = o /\ pc' \notin {o, "recreateRoleBinding"} /\ faults' = faults
       /\ cluster = spec /\ Current(o)
       => Matches(o)']_vars

\* Drift is repaired: once the user and the other clients stop, every object
\* exists and matches the spec, in spite of stale caches, patches computed from
\* them, a RoleBinding deleted and not recreated, and failing calls.
Settles == <>[](\A o \in Kinds : Matches(o))

\* The reconcile is about to create, patch or recreate something.
AboutToWrite ==
  \E o \in Kinds : /\ pc = o
                   /\ \/ o \notin DOMAIN seen
                      \/ NeedsRecreate(o, seen[o], Desired(o, cluster))
                      \/ NeedsPatch(o, seen[o], Desired(o, cluster))

\* The operator does not fight Kubernetes over its own objects: in the end no
\* reconcile finds anything to write (robinDeploymentNeedsUpdate).
StopsWriting == <>[]~AboutToWrite
===============================================================================
