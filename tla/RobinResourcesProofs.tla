------------------------- MODULE RobinResourcesProofs -------------------------
(***************************************************************************)
(* Robin's objects, for any specs and any number of edits, drifts and      *)
(* failing calls: the fields drift detection dereferences are always       *)
(* there, the revision of the Deployment survives the operator's patches,  *)
(* and a reconcile that sees the present repairs it.                       *)
(***************************************************************************)
EXTENDS RobinResources, TLAPS

\* What TypeOK says of an object of kind o.
Object(o, x) ==
  /\ DOMAIN x = {"meta", "podMeta", "body"}
  /\ o = "RoleBinding" => {"subjects", "roleRef"} = DOMAIN x.body
  /\ o = "Deployment" => {"replicas", "image", "CLUSTER_NAME"} \subseteq DOMAIN x.body

Objects(m) == DOMAIN m \subseteq Kinds /\ \A o \in DOMAIN m : Object(o, m[o])

\* The user does not set the annotation that belongs to the Deployment controller.
NoUserRevision == \A s \in Specs : "revision" \notin DOMAIN s.meta

------------------------------------------------------------------------------
(* Maps. *)

\* maps.Copy.
LEMMA CopyMap ==
  ASSUME NEW dst, NEW src
  PROVE  /\ DOMAIN Copy(dst, src) = DOMAIN dst \cup DOMAIN src
         /\ \A k \in DOMAIN src : Copy(dst, src)[k] = src[k]
         /\ \A k \in DOMAIN dst \ DOMAIN src : Copy(dst, src)[k] = dst[k]
BY DEF Copy

\* The merge patch: keys of the modified map stay or are added, keys that are the
\* same in both, or in neither, are not touched.
LEMMA MergeMap ==
  ASSUME NEW base, NEW modified, NEW m
  PROVE  /\ DOMAIN m \cap DOMAIN modified \subseteq DOMAIN MergeFrom(base, modified, m)
         /\ DOMAIN MergeFrom(base, modified, m) \subseteq DOMAIN m \cup DOMAIN modified
         /\ \A k \in DOMAIN m :
              \/ k \in DOMAIN base /\ k \in DOMAIN modified /\ base[k] = modified[k]
              \/ k \notin DOMAIN base /\ k \notin DOMAIN modified
              => /\ k \in DOMAIN MergeFrom(base, modified, m)
                 /\ MergeFrom(base, modified, m)[k] = m[k]
BY DEF MergeFrom

\* A patch applied to the version it was computed from makes it the modified one.
LEMMA MergeSame ==
  ASSUME NEW base, NEW modified
  PROVE  MergeFrom(base, modified, base) = [k \in DOMAIN modified |-> modified[k]]
<1>. DEFINE changed == {k \in DOMAIN modified : k \notin DOMAIN base \/ base[k] # modified[k]}
            removed == DOMAIN base \ DOMAIN modified
            D == (DOMAIN base \ removed) \cup changed
<1>1. D = DOMAIN modified
  OBVIOUS
<1>2. \A k \in D : (IF k \in changed THEN modified[k] ELSE base[k]) = modified[k]
  OBVIOUS
<1>3. MergeFrom(base, modified, base) = [k \in D |-> IF k \in changed THEN modified[k] ELSE base[k]]
  BY DEF MergeFrom
<1>. QED
  BY <1>1, <1>2, <1>3

\* A write stores the admitted object and leaves the others alone.
LEMMA PutObject ==
  ASSUME NEW o, NEW x, Put(o, x)
  PROVE  /\ DOMAIN live' = DOMAIN live \cup {o}
         /\ live'[o] = Admit(o, x)
         /\ \A p \in DOMAIN live \ {o} : live'[p] = live[p]
<1>. DEFINE src == Single(o, Admit(o, x))
<1>1. DOMAIN src = {o} /\ src[o] = Admit(o, x)
  BY DEF Single
<1>2. live' = Copy(live, src)
  BY DEF Put
<1>. HIDE DEF src
<1>3. /\ DOMAIN live' = DOMAIN live \cup DOMAIN src
      /\ \A k \in DOMAIN src : live'[k] = src[k]
      /\ \A k \in DOMAIN live \ DOMAIN src : live'[k] = live[k]
  BY <1>2 DEF Copy
<1>. QED
  BY <1>1, <1>3

\* The API server's defaults make no object of an object's kind another one.
LEMMA AdmitObject ==
  ASSUME NEW o, NEW x, Object(o, x)
  PROVE  /\ Object(o, Admit(o, x))
         /\ Admit(o, x).meta = x.meta /\ Admit(o, x).podMeta = x.podMeta
         /\ \A k \in DOMAIN x.body : /\ k \in DOMAIN Admit(o, x).body
                                     /\ Admit(o, x).body[k] = x.body[k]
<1>1. CASE o # "Deployment"
  BY <1>1 DEF Admit
<1>2. CASE o = "Deployment"
  <2>. DEFINE b == Copy([defaulted |-> "k8s"], x.body)
              y == [x EXCEPT !.body = b]
  <2>1. Admit(o, x) = y
    BY <1>2 DEF Admit
  <2>2. /\ DOMAIN x.body \subseteq DOMAIN b
        /\ \A k \in DOMAIN x.body : b[k] = x.body[k]
    BY DEF Copy
  <2>. HIDE DEF b
  <2>3. /\ DOMAIN y = DOMAIN x /\ y.body = b /\ y.meta = x.meta /\ y.podMeta = x.podMeta
    BY DEF Object
  <2>. HIDE DEF y
  <2>. QED
    BY <1>2, <2>1, <2>2, <2>3 DEF Object
<1>. QED
  BY <1>1, <1>2

\* What the operator wants is an object of the kind.
LEMMA DesiredObject ==
  ASSUME NEW o \in Kinds, NEW s \in Specs
  PROVE  /\ Object(o, Desired(o, s))
         /\ Desired(o, s).meta = Copy(s.meta, BaseLabels)
<1>1. DOMAIN Empty = {}
  BY DEF Empty
<1>2. mergeMeta(s.meta, Empty, BaseLabels) = Copy(s.meta, BaseLabels)
  BY <1>1 DEF mergeMeta
<1>3. \A b : desiredRBAC(s, b) = [meta |-> Copy(s.meta, BaseLabels), podMeta |-> Empty, body |-> b]
  BY <1>2 DEF desiredRBAC
<1>4. CASE o = "ServiceAccount"
  BY <1>3, <1>4 DEF Desired, Object
<1>5. CASE o = "Role"
  BY <1>3, <1>5 DEF Desired, Object
<1>6. CASE o = "RoleBinding"
  BY <1>3, <1>6 DEF Desired, Object
<1>7. CASE o = "Deployment"
  <2>. DEFINE b == Copy(Copy([image |-> "own", replicas |-> "own"], s.template), robinDefaultEnvVars)
              p == mergeMeta(s.meta, s.tplMeta, BaseLabels)
  <2>1. {"replicas", "image", "CLUSTER_NAME"} \subseteq DOMAIN b
    BY DEF Copy, robinDefaultEnvVars
  <2>2. Desired(o, s) = [meta |-> Copy(s.meta, BaseLabels), podMeta |-> p, body |-> b]
    BY <1>2, <1>7 DEF Desired, buildDesiredRobinDeployment
  <2>. HIDE DEF b, p
  <2>. QED
    BY <2>1, <2>2, <1>7 DEF Object
<1>. QED
  BY <1>4, <1>5, <1>6, <1>7 DEF Kinds

\* A patch makes an object of the kind.
LEMMA PatchedObject ==
  ASSUME NEW o, NEW e, NEW d, NEW x, Object(o, e), Object(o, d), Object(o, x)
  PROVE  /\ Object(o, Patched(o, e, d, x))
         /\ Patched(o, e, d, x).meta =
              MergeFrom(e.meta, IF o = "Deployment" THEN preserveManagedAnnotations(e.meta, d.meta)
                                                    ELSE d.meta, x.meta)
         /\ Patched(o, e, d, x).podMeta = MergeFrom(e.podMeta, d.podMeta, x.podMeta)
         /\ Patched(o, e, d, x).body = MergeFrom(e.body, d.body, x.body)
<1>1. Patched(o, e, d, x) =
        [meta    |-> MergeFrom(e.meta, IF o = "Deployment"
                                       THEN preserveManagedAnnotations(e.meta, d.meta)
                                       ELSE d.meta, x.meta),
         podMeta |-> MergeFrom(e.podMeta, d.podMeta, x.podMeta),
         body    |-> MergeFrom(e.body, d.body, x.body)]
  BY DEF Patched
<1>2. /\ DOMAIN x.body \cap DOMAIN d.body \subseteq DOMAIN MergeFrom(e.body, d.body, x.body)
      /\ DOMAIN MergeFrom(e.body, d.body, x.body) \subseteq DOMAIN x.body \cup DOMAIN d.body
  BY MergeMap
<1>3. o = "RoleBinding" => DOMAIN MergeFrom(e.body, d.body, x.body) = {"subjects", "roleRef"}
  BY <1>2 DEF Object
<1>4. o = "Deployment" => {"replicas", "image", "CLUSTER_NAME"} \subseteq DOMAIN MergeFrom(e.body, d.body, x.body)
  BY <1>2 DEF Object
<1>. QED
  BY <1>1, <1>3, <1>4 DEF Object

\* Writing or deleting an object, or copying it into the cache, keeps the maps.
LEMMA ObjectsKept ==
  ASSUME Objects(live), Objects(seen)
  PROVE  /\ \A x : \A o \in Kinds : Put(o, x) /\ Object(o, x) => Objects(live')
         /\ \A o : Objects(Without(live, {o})) /\ Objects(Without(seen, {o}))
         /\ \A o \in DOMAIN live : Objects(Copy(seen, Single(o, live[o])))
<1>1. ASSUME NEW o \in Kinds, NEW x, Put(o, x), Object(o, x) PROVE Objects(live')
  <2>1. /\ DOMAIN live' = DOMAIN live \cup {o} /\ live'[o] = Admit(o, x)
        /\ \A p \in DOMAIN live \ {o} : live'[p] = live[p]
    BY <1>1, PutObject
  <2>2. Object(o, Admit(o, x))
    BY <1>1, AdmitObject
  <2>. QED
    BY <2>1, <2>2 DEF Objects
<1>2. ASSUME NEW o PROVE Objects(Without(live, {o})) /\ Objects(Without(seen, {o}))
  BY DEF Objects, Without
<1>3. ASSUME NEW o \in DOMAIN live PROVE Objects(Copy(seen, Single(o, live[o])))
  <2>. DEFINE m == Copy(seen, Single(o, live[o]))
  <2>1. /\ DOMAIN m = DOMAIN seen \cup {o} /\ m[o] = live[o]
        /\ \A p \in DOMAIN seen \ {o} : m[p] = seen[p]
    BY DEF Copy, Single
  <2>. HIDE DEF m
  <2>2. Objects(m)
    BY <2>1, <1>3 DEF Objects
  <2>. QED
    BY <2>2 DEF m
<1>. QED
  BY <1>1, <1>2, <1>3

------------------------------------------------------------------------------
(* The invariant. *)

\* TypeOK, by parts.
LEMMA TypeParts ==
  TypeOK <=> /\ spec \in Specs /\ specSeen \in Specs /\ cluster \in Specs
             /\ Objects(live) /\ Objects(seen)
             /\ pc \in Steps
             /\ edits \in 0..MaxEdits /\ drifts \in 0..MaxDrifts /\ faults \in 0..MaxFaults
BY DEF TypeOK, Objects, Object

\* The reconcile.
LEMMA TypeReconcile ==
  ASSUME TypeOK, ReconcileStep
  PROVE  /\ Objects(live') /\ pc' \in Steps /\ cluster' \in Specs
         /\ UNCHANGED <<environment, seen, faults>>
<1>1. /\ spec \in Specs /\ specSeen \in Specs /\ cluster \in Specs
      /\ Objects(live) /\ Objects(seen) /\ pc \in Steps
  BY TypeParts
<1>2. \A o \in Kinds : Object(o, Desired(o, cluster))
  BY <1>1, DesiredObject
<1>3. \A o \in Kinds : Following(o) \in Steps
  BY DEF Following, Kinds, Steps
<1>4. ASSUME NEW o \in Kinds, Create(o) PROVE Objects(live') /\ pc' \in Steps
  BY <1>1, <1>2, <1>3, <1>4, ObjectsKept DEF Create, Steps
<1>5. CASE StartReconcile
  BY <1>1, <1>5 DEF StartReconcile, Steps, Kinds
<1>6. CASE \E o \in Kinds : CreateMissing(o)
  BY <1>1, <1>4, <1>6 DEF CreateMissing
<1>7. CASE \E o \in Kinds : KeepMatching(o)
  BY <1>1, <1>3, <1>7 DEF KeepMatching
<1>8. CASE \E o \in Kinds : PatchDrifted(o)
  <2>1. PICK o \in Kinds : PatchDrifted(o)
    BY <1>8
  <2>2. CASE UNCHANGED live
    BY <2>1, <2>2, <1>1, <1>3 DEF PatchDrifted, Steps
  <2>3. CASE o \in DOMAIN live /\ Put(o, Patched(o, seen[o], Desired(o, cluster), live[o]))
    <3>1. Object(o, seen[o]) /\ Object(o, live[o])
      BY <2>1, <2>3, <1>1 DEF PatchDrifted, Objects
    <3>2. Object(o, Patched(o, seen[o], Desired(o, cluster), live[o]))
      BY <3>1, <1>2, PatchedObject
    <3>3. Objects(live')
      BY <3>2, <2>3, <1>1, ObjectsKept
    <3>. QED
      BY <3>3, <2>1, <1>1, <1>3 DEF PatchDrifted, Steps
  <2>. QED
    BY <2>1, <2>2, <2>3 DEF PatchDrifted
<1>9. CASE DeleteRoleBinding
  BY <1>1, <1>9, ObjectsKept DEF DeleteRoleBinding, Steps
<1>10. CASE RecreateRoleBinding
  <2>1. "RoleBinding" \in Kinds
    BY DEF Kinds
  <2>. QED
    BY <2>1, <1>1, <1>4, <1>10 DEF RecreateRoleBinding
<1>. QED
  BY <1>5, <1>6, <1>7, <1>8, <1>9, <1>10 DEF ReconcileStep

\* The other clients and the Deployment controller change objects of a kind into
\* objects of that kind.
LEMMA TypeOthers ==
  ASSUME TypeOK, StampRevision \/ \E o \in DOMAIN live : Drift(o)
  PROVE  Objects(live')
<1>1. Objects(live) /\ Objects(seen)
  BY TypeParts
<1>2. \A o \in DOMAIN live : o \in Kinds /\ Object(o, live[o])
  BY <1>1 DEF Objects
<1>3. ASSUME NEW o \in DOMAIN live, NEW m PROVE Object(o, [live[o] EXCEPT !.meta = m])
  BY <1>2 DEF Object
<1>4. ASSUME NEW o \in DOMAIN live, NEW k, NEW v PROVE Object(o, [live[o] EXCEPT !.body[k] = v])
  <2>. DEFINE b == [live[o].body EXCEPT ![k] = v]
  <2>1. DOMAIN b = DOMAIN live[o].body
    OBVIOUS
  <2>2. [live[o] EXCEPT !.body[k] = v] = [live[o] EXCEPT !.body = b]
    OBVIOUS
  <2>. HIDE DEF b
  <2>. QED
    BY <2>1, <2>2, <1>2 DEF Object
<1>5. CASE StampRevision
  BY <1>1, <1>2, <1>3, <1>5, ObjectsKept DEF StampRevision
<1>6. CASE \E o \in DOMAIN live : Drift(o)
  <2>1. PICK o \in DOMAIN live : Drift(o)
    BY <1>6
  <2>2. \/ live' = Without(live, {o})
        \/ \E x : Put(o, x) /\ Object(o, x)
    BY <2>1, <1>3, <1>4 DEF Drift
  <2>. QED
    BY <2>2, <1>1, <1>2, ObjectsKept
<1>. QED
  BY <1>5, <1>6

\* Every step keeps TypeOK.
LEMMA RobinTypeStep == TypeOK /\ [Next]_vars => TypeOK'
<1>. SUFFICES ASSUME TypeOK, [Next]_vars PROVE TypeOK'
  OBVIOUS
<1>1. /\ spec \in Specs /\ specSeen \in Specs /\ cluster \in Specs
      /\ Objects(live) /\ Objects(seen) /\ pc \in Steps
      /\ edits \in 0..MaxEdits /\ drifts \in 0..MaxDrifts /\ faults \in 0..MaxFaults
  BY TypeParts
<1>2. SUFFICES /\ spec' \in Specs /\ specSeen' \in Specs /\ cluster' \in Specs
               /\ Objects(live') /\ Objects(seen') /\ pc' \in Steps
               /\ edits' \in 0..MaxEdits /\ drifts' \in 0..MaxDrifts /\ faults' \in 0..MaxFaults
  BY DEF TypeOK, Objects, Object
<1>3. {MaxEdits, MaxDrifts, MaxFaults} \subseteq Nat
  BY BoundsAssumption
<1>4. CASE EditSpec
  BY <1>1, <1>3, <1>4 DEF EditSpec
<1>5. CASE \E o \in DOMAIN live : Drift(o)
  <2>1. Objects(live')
    BY <1>5, TypeOthers
  <2>2. /\ drifts < MaxDrifts /\ drifts' = drifts + 1
        /\ UNCHANGED <<spec, specSeen, seen, pc, cluster, edits, faults>>
    BY <1>5 DEF Drift
  <2>. QED
    BY <2>1, <2>2, <1>1, <1>3
<1>6. CASE StampRevision
  BY <1>1, <1>6, TypeOthers DEF StampRevision, environment
<1>7. CASE DeliverSpec
  BY <1>1, <1>7 DEF DeliverSpec
<1>8. CASE \E o \in Kinds : DeliverRobin(o)
  BY <1>1, <1>8, ObjectsKept DEF DeliverRobin, environment
<1>9. CASE ReconcileStep
  BY <1>1, <1>9, TypeReconcile DEF environment
<1>10. CASE ReconcileFails
  BY <1>1, <1>3, <1>10 DEF ReconcileFails, environment, Steps
<1>11. CASE UNCHANGED vars
  BY <1>1, <1>11 DEF vars
<1>. QED
  BY <1>4, <1>5, <1>6, <1>7, <1>8, <1>9, <1>10, <1>11 DEF Next

\* Every object is complete enough for drift detection, which dereferences the
\* replicas of the Deployment and the RoleRef of the RoleBinding without a check:
\* no merge patch from a stale copy leaves one of them out.
THEOREM RobinTypeCorrect == Spec => []TypeOK
<1>1. Init => TypeOK
  BY TypeParts, BoundsAssumption DEF Init, Objects, Empty, Steps
<1>. QED
  BY <1>1, RobinTypeStep, PTL DEF Spec

------------------------------------------------------------------------------
(* The revision, and the repair. *)

\* Only a patch of the Deployment writes to a Deployment that exists.
LEMMA DeploymentWrites ==
  ASSUME TypeOK, [Next]_vars, pc # "idle", drifts' = drifts, pc' # pc,
         "Deployment" \in DOMAIN live
  PROVE  \/ "Deployment" \in DOMAIN live' /\ live'["Deployment"] = live["Deployment"]
         \/ /\ PatchDrifted("Deployment")
            /\ Put("Deployment", Patched("Deployment", seen["Deployment"],
                                         Desired("Deployment", cluster), live["Deployment"]))
<1>1. CASE UNCHANGED live
  BY <1>1
<1>2. ASSUME NEW o, NEW x, Put(o, x), o # "Deployment"
      PROVE  "Deployment" \in DOMAIN live' /\ live'["Deployment"] = live["Deployment"]
  BY <1>2, PutObject
<1>3. ASSUME NEW o, Create(o)
      PROVE  "Deployment" \in DOMAIN live' /\ live'["Deployment"] = live["Deployment"]
  BY <1>2, <1>3 DEF Create
<1>4. CASE ReconcileStep
  <2>1. CASE \E o \in Kinds : PatchDrifted(o)
    <3>1. PICK o \in Kinds : PatchDrifted(o)
      BY <2>1
    <3>2. UNCHANGED live \/ Put(o, Patched(o, seen[o], Desired(o, cluster), live[o]))
      BY <3>1 DEF PatchDrifted
    <3>. QED
      BY <3>1, <3>2, <1>2
  <2>2. CASE DeleteRoleBinding
    BY <2>2 DEF DeleteRoleBinding, Without
  <2>. QED
    BY <1>3, <1>4, <2>1, <2>2
     DEF ReconcileStep, StartReconcile, CreateMissing, KeepMatching, RecreateRoleBinding
<1>5. ~(\E o \in DOMAIN live : Drift(o))
  BY BoundsAssumption, TypeParts DEF Drift
<1>. QED
  BY <1>1, <1>4, <1>5 DEF Next, EditSpec, StampRevision, DeliverSpec, DeliverRobin, ReconcileFails, vars

\* A patch of the Deployment, computed from any cached copy, leaves the revision
\* of the live one alone.
LEMMA PatchKeepsRevision ==
  ASSUME NEW e, NEW d, NEW x, Object("Deployment", e), Object("Deployment", d),
         Object("Deployment", x), "revision" \notin DOMAIN d.meta, "revision" \in DOMAIN x.meta
  PROVE  LET p == Patched("Deployment", e, d, x)
         IN  "revision" \in DOMAIN p.meta /\ p.meta["revision"] = x.meta["revision"]
<1>. DEFINE r == "revision"
            meta == preserveManagedAnnotations(e.meta, d.meta)
            p == Patched("Deployment", e, d, x)
<1>1. p.meta = MergeFrom(e.meta, meta, x.meta)
  BY PatchedObject
<1>2. \/ r \in DOMAIN e.meta /\ r \in DOMAIN meta /\ e.meta[r] = meta[r]
      \/ r \notin DOMAIN e.meta /\ r \notin DOMAIN meta
  <2>1. CASE r \notin DOMAIN e.meta
    BY <2>1 DEF preserveManagedAnnotations
  <2>2. CASE r \in DOMAIN e.meta
    <3>1. meta = Copy(d.meta, [revision |-> e.meta[r]])
      BY <2>2 DEF preserveManagedAnnotations
    <3>2. r \in DOMAIN meta /\ meta[r] = e.meta[r]
      BY <3>1 DEF Copy
    <3>. QED
      BY <2>2, <3>2
  <2>. QED
    BY <2>1, <2>2
<1>. HIDE DEF meta, p
<1>3. r \in DOMAIN p.meta /\ p.meta[r] = x.meta[r]
  BY <1>1, <1>2, MergeMap
<1>. QED
  BY <1>3 DEF p

\* No step of a reconcile removes or changes the revision the Deployment
\* controller stamped: preserveManagedAnnotations makes every patch silent about
\* it, whatever the cache showed.
THEOREM RevisionSafe == NoUserRevision /\ Spec => RevisionKept
<1>. SUFFICES ASSUME NoUserRevision PROVE Spec => RevisionKept
  OBVIOUS
<1>1. ASSUME TypeOK, [Next]_vars, pc # "idle", drifts' = drifts, pc' # pc,
             "Deployment" \in DOMAIN live, "revision" \in DOMAIN live["Deployment"].meta
      PROVE  /\ "Deployment" \in DOMAIN live'
             /\ "revision" \in DOMAIN live'["Deployment"].meta
             /\ live'["Deployment"].meta["revision"] = live["Deployment"].meta["revision"]
  <2>. DEFINE o == "Deployment"
              p == Patched(o, seen[o], Desired(o, cluster), live[o])
  <2>1. CASE o \in DOMAIN live' /\ live'[o] = live[o]
    BY <2>1, <1>1
  <2>2. CASE PatchDrifted(o) /\ Put(o, p)
    <3>1. o \in Kinds /\ cluster \in Specs /\ o \in DOMAIN seen
      BY <1>1, <2>2, TypeParts DEF Kinds, PatchDrifted
    <3>2. Object(o, seen[o]) /\ Object(o, live[o])
      BY <1>1, <3>1, TypeParts DEF Objects
    <3>3. Object(o, Desired(o, cluster)) /\ "revision" \notin DOMAIN Desired(o, cluster).meta
      <4>1. DOMAIN Copy(cluster.meta, BaseLabels) = DOMAIN cluster.meta \cup {"cluster"}
        BY DEF Copy, BaseLabels
      <4>. QED
        BY <4>1, <3>1, DesiredObject DEF NoUserRevision
    <3>4. Object(o, p)
      BY <3>2, <3>3, PatchedObject
    <3>5. "revision" \in DOMAIN p.meta /\ p.meta["revision"] = live[o].meta["revision"]
      BY <1>1, <3>2, <3>3, PatchKeepsRevision
    <3>. HIDE DEF p
    <3>6. o \in DOMAIN live' /\ live'[o] = Admit(o, p)
      BY <2>2, PutObject
    <3>7. live'[o].meta = p.meta
      BY <3>4, <3>6, AdmitObject
    <3>. QED
      BY <3>5, <3>6, <3>7
  <2>. QED
    BY <1>1, <2>1, <2>2, DeploymentWrites
<1>2. TypeOK /\ [Next]_vars
      => [pc # "idle" /\ drifts' = drifts /\ pc' # pc /\ "Deployment" \in DOMAIN live
          /\ "revision" \in DOMAIN live["Deployment"].meta
          => /\ "Deployment" \in DOMAIN live'
             /\ "revision" \in DOMAIN live'["Deployment"].meta
             /\ live'["Deployment"].meta["revision"] = live["Deployment"].meta["revision"]]_vars
  BY <1>1
<1>. QED
  BY <1>2, RobinTypeCorrect, PTL DEF Spec, RevisionKept

\* An object is as the spec s wants it (Matches).
Fits(o, x, s) ==
  LET d == Desired(o, s)
  IN  /\ Without(x.meta, {"revision"}) = d.meta
      /\ x.podMeta = d.podMeta
      /\ DeepDerivative(d.body, x.body)

\* The maps of a desired object are functions, and have no revision.
LEMMA DesiredMaps ==
  ASSUME NoUserRevision, NEW o \in Kinds, NEW s \in Specs, NEW d, d = Desired(o, s)
  PROVE  /\ d.meta = [k \in DOMAIN d.meta |-> d.meta[k]] /\ "revision" \notin DOMAIN d.meta
         /\ d.podMeta = [k \in DOMAIN d.podMeta |-> d.podMeta[k]]
<1>1. d.meta = Copy(s.meta, BaseLabels)
  BY DesiredObject
<1>2. DOMAIN Copy(s.meta, BaseLabels) = DOMAIN s.meta \cup {"cluster"}
  BY DEF Copy, BaseLabels
<1>3. \A x, y : Copy(x, y) = [k \in DOMAIN Copy(x, y) |-> Copy(x, y)[k]]
  BY DEF Copy
<1>4. d.podMeta = Empty \/ \E x, y : d.podMeta = Copy(x, y)
  <2>1. CASE o = "Deployment"
    BY <2>1 DEF Desired, buildDesiredRobinDeployment, mergeMeta
  <2>2. CASE o # "Deployment"
    BY <2>2 DEF Desired, desiredRBAC, Kinds
  <2>. QED
    BY <2>1, <2>2
<1>5. Empty = [k \in DOMAIN Empty |-> Empty[k]]
  BY DEF Empty
<1>. QED
  BY <1>1, <1>2, <1>3, <1>4, <1>5 DEF NoUserRevision

\* What the operator creates is as the spec wants it.
LEMMA DesiredFits ==
  ASSUME NoUserRevision, NEW o \in Kinds, NEW s \in Specs
  PROVE  Fits(o, Desired(o, s), s)
<1>. DEFINE d == Desired(o, s)
<1>1. d.meta = [k \in DOMAIN d.meta |-> d.meta[k]] /\ "revision" \notin DOMAIN d.meta
  BY DesiredMaps
<1>. HIDE DEF d
<1>2. Without(d.meta, {"revision"}) = d.meta
  <2>1. DOMAIN d.meta \ {"revision"} = DOMAIN d.meta
    BY <1>1
  <2>. QED
    BY <2>1, <1>1 DEF Without
<1>. QED
  BY <1>2 DEF Fits, DeepDerivative, d

\* What drift detection lets pass is as the spec wants it.
LEMMA KeptFits ==
  ASSUME NoUserRevision, NEW o \in Kinds, NEW s \in Specs, NEW e,
         ~NeedsPatch(o, e, Desired(o, s))
  PROVE  Fits(o, e, s)
<1>1. CASE o = "Deployment"
  BY <1>1 DEF NeedsPatch, robinDeploymentNeedsUpdate, stripManagedAnnotations, Fits
<1>2. CASE o # "Deployment"
  BY <1>2, DesiredFits DEF NeedsPatch
<1>. QED
  BY <1>1, <1>2

\* A patch computed from the live object makes it what the spec wants.
LEMMA PatchedFits ==
  ASSUME NoUserRevision, NEW o \in Kinds, NEW s \in Specs, NEW e, Object(o, e)
  PROVE  Fits(o, Patched(o, e, Desired(o, s), e), s)
<1>. DEFINE d == Desired(o, s)
            m == IF o = "Deployment" THEN preserveManagedAnnotations(e.meta, d.meta) ELSE d.meta
            p == Patched(o, e, d, e)
<1>1. /\ d.meta = [k \in DOMAIN d.meta |-> d.meta[k]] /\ "revision" \notin DOMAIN d.meta
      /\ d.podMeta = [k \in DOMAIN d.podMeta |-> d.podMeta[k]]
  BY DesiredMaps
<1>2. Object(o, d)
  BY DesiredObject
<1>. HIDE DEF d
<1>3. /\ p.meta = MergeFrom(e.meta, m, e.meta)
      /\ p.podMeta = MergeFrom(e.podMeta, d.podMeta, e.podMeta)
      /\ p.body = MergeFrom(e.body, d.body, e.body)
  BY <1>2, PatchedObject
<1>4. /\ p.meta = [k \in DOMAIN m |-> m[k]] /\ p.podMeta = d.podMeta
      /\ p.body = [k \in DOMAIN d.body |-> d.body[k]]
  BY <1>1, <1>3, MergeSame
<1>. HIDE DEF p
<1>5. /\ DOMAIN m \ {"revision"} = DOMAIN d.meta
      /\ \A k \in DOMAIN d.meta : m[k] = d.meta[k]
  <2>1. CASE m = d.meta
    BY <2>1, <1>1
  <2>2. CASE m = Copy(d.meta, [revision |-> e.meta["revision"]])
    BY <2>2, <1>1 DEF Copy
  <2>. QED
    BY <2>1, <2>2 DEF preserveManagedAnnotations
<1>. HIDE DEF m
<1>6. Without(p.meta, {"revision"}) = d.meta
  <2>1. /\ DOMAIN p.meta \ {"revision"} = DOMAIN d.meta
        /\ \A k \in DOMAIN d.meta : p.meta[k] = d.meta[k]
    BY <1>4, <1>5
  <2>. QED
    BY <2>1, <1>1 DEF Without
<1>7. DeepDerivative(d.body, p.body)
  BY <1>4 DEF DeepDerivative
<1>. QED
  BY <1>4, <1>6, <1>7 DEF Fits, d, p

\* The API server's defaults do not disturb that.
LEMMA AdmittedFits ==
  ASSUME NEW o, NEW s, NEW x, Object(o, x), Fits(o, x, s)
  PROVE  Fits(o, Admit(o, x), s)
BY AdmitObject DEF Fits, DeepDerivative

\* A reconcile that sees the present leaves every object it passes as the user
\* wants it: drift detection with its exceptions (stripManagedAnnotations,
\* DeepDerivative) lets nothing pass, and the merge patch with the managed
\* annotations put back removes what is not wanted.
THEOREM RepairComplete == NoUserRevision /\ Spec => RepairsWhatItSees
<1>. SUFFICES ASSUME NoUserRevision PROVE Spec => RepairsWhatItSees
  OBVIOUS
<1>1. ASSUME TypeOK, [Next]_vars, NEW o \in Kinds, pc = o,
             pc' \notin {o, "recreateRoleBinding"}, faults' = faults,
             cluster = spec, Current(o)
      PROVE  Matches(o)'
  <2>1. /\ o \in Kinds /\ spec \in Specs /\ pc # "idle" /\ pc # "recreateRoleBinding"
        /\ Objects(live) /\ faults \in Nat /\ drifts \in Nat
    BY <1>1, TypeParts, BoundsAssumption DEF Kinds
  <2>2. ReconcileStep
    <3>1. ~ReconcileFails
      BY <1>1, <2>1 DEF ReconcileFails
    <3>2. ~(EditSpec \/ DeliverSpec \/ StampRevision \/ vars' = vars)
      BY <1>1 DEF EditSpec, DeliverSpec, StampRevision, vars
    <3>3. ~\E p \in DOMAIN live : Drift(p)
      BY <1>1 DEF Drift
    <3>4. ~\E p \in Kinds : DeliverRobin(p)
      BY <1>1 DEF DeliverRobin
    <3>. QED
      BY <1>1, <3>1, <3>2, <3>3, <3>4 DEF Next
  <2>3. CreateMissing(o) \/ KeepMatching(o) \/ PatchDrifted(o)
    BY <1>1, <2>1, <2>2 DEF ReconcileStep, StartReconcile, CreateMissing, KeepMatching,
           PatchDrifted, DeleteRoleBinding, RecreateRoleBinding, Current
  <2>4. spec' = spec
    BY <2>3 DEF CreateMissing, KeepMatching, PatchDrifted, environment
  <2>5. SUFFICES o \in DOMAIN live' /\ Fits(o, live'[o], spec)
    BY <2>4 DEF Matches, Fits
  <2>6. ASSUME NEW x, Put(o, x), Object(o, x), Fits(o, x, spec)
        PROVE  o \in DOMAIN live' /\ Fits(o, live'[o], spec)
    <3>1. o \in DOMAIN live' /\ live'[o] = Admit(o, x)
      BY <2>6, PutObject
    <3>2. Fits(o, Admit(o, x), spec)
      BY <2>6, AdmittedFits
    <3>. QED
      BY <3>1, <3>2
  <2>7. CASE CreateMissing(o)
    <3>1. Put(o, Desired(o, spec))
      BY <1>1, <2>7 DEF CreateMissing, Create, Current
    <3>. QED
      BY <3>1, <2>1, <2>6, DesiredObject, DesiredFits
  <2>8. CASE KeepMatching(o)
    <3>1. /\ o \in DOMAIN live /\ live' = live /\ ~NeedsPatch(o, live[o], Desired(o, spec))
      BY <1>1, <2>8 DEF KeepMatching, Current
    <3>. QED
      BY <3>1, <2>1, KeptFits
  <2>9. CASE PatchDrifted(o)
    <3>1. o \in DOMAIN live /\ Put(o, Patched(o, live[o], Desired(o, spec), live[o]))
      BY <1>1, <2>9 DEF PatchDrifted, Current
    <3>2. Object(o, live[o]) /\ Object(o, Desired(o, spec))
      BY <3>1, <2>1, DesiredObject DEF Objects
    <3>3. Object(o, Patched(o, live[o], Desired(o, spec), live[o]))
      BY <3>2, PatchedObject
    <3>. QED
      BY <3>1, <3>2, <3>3, <2>1, <2>6, PatchedFits
  <2>. QED
    BY <2>3, <2>7, <2>8, <2>9
<1>2. TypeOK /\ [Next]_vars
      => [\A o \in Kinds :
            pc = o /\ pc' \notin {o, "recreateRoleBinding"} /\ faults' = faults
            /\ cluster = spec /\ Current(o)
            => Matches(o)']_vars
  BY <1>1
<1>. QED
  BY <1>2, RobinTypeCorrect, PTL DEF Spec, RepairsWhatItSees
===============================================================================
