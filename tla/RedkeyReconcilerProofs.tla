------------------------ MODULE RedkeyReconcilerProofs ------------------------
(***************************************************************************)
(* Theorems about RedkeyReconciler for every choice of its constants: any  *)
(* topologies, any number of generations and faults, informers that lag by *)
(* any number of versions.                                                 *)
(***************************************************************************)
EXTENDS RedkeyReconciler, WellFoundedInduction, TLAPS

------------------------------------------------------------------------------
(* Lists of configs: they stay finite when configs come and go, the first and *)
(* the last config of a sorted list exist, and the active one is in the list. *)

\* What the lemmas need to know of a list: its sequences are naturals.
Sequenced(L) == \A c \in L : c.sequence \in Nat

\* Every non-empty set of naturals has a least element.
LEMMA LeastNatural ==
  ASSUME NEW T, T \subseteq Nat, T # {}
  PROVE  \E x \in T : \A y \in T : x <= y
<1>1. PICK x \in T : \A y \in T : ~(<<y, x>> \in OpToRel(<, Nat))
  BY WFMin, NatLessThanWellFounded
<1>2. \A y \in T : ~(y < x)
  BY <1>1 DEF OpToRel
<1>. QED
  BY <1>2

\* Lists of configs are finite. The empty one is.
LEMMA FiniteEmpty == IsFiniteSet({})
<1>1. <<>> \in Seq({})
  OBVIOUS
<1>. QED
  BY <1>1 DEF IsFiniteSet

\* So is a list with one config more, after createConfig.
LEMMA FiniteAdd ==
  ASSUME NEW S, IsFiniteSet(S), NEW x
  PROVE  IsFiniteSet(S \cup {x})
<1>1. PICK seq \in Seq(S) : \A s \in S : \E n \in 1..Len(seq) : seq[n] = s
  BY DEF IsFiniteSet
<1>. DEFINE e == Append(seq, x)
<1>2. e \in Seq(S \cup {x}) /\ Len(e) = Len(seq) + 1 /\ e[Len(seq) + 1] = x
      /\ \A n \in 1..Len(seq) : e[n] = seq[n]
  OBVIOUS
<1>3. Len(seq) \in Nat
  OBVIOUS
<1>. HIDE DEF e
<1>4. \A s \in S \cup {x} : \E n \in 1..Len(e) : e[n] = s
  BY <1>1, <1>2, <1>3
<1>. QED
  BY <1>2, <1>4 DEF IsFiniteSet

\* So is what is left of a list, after deletions.
LEMMA FiniteSubset ==
  ASSUME NEW S, IsFiniteSet(S), NEW T \in SUBSET S
  PROVE  IsFiniteSet(T)
<1>1. CASE T = {}
  BY <1>1, FiniteEmpty
<1>2. CASE T # {}
  <2>1. PICK seq \in Seq(S) : \A s \in S : \E n \in 1..Len(seq) : seq[n] = s
    BY DEF IsFiniteSet
  <2>2. PICK t \in T : TRUE
    BY <1>2
  <2>. DEFINE e == [n \in 1..Len(seq) |-> IF seq[n] \in T THEN seq[n] ELSE t]
  <2>3. e \in Seq(T) /\ Len(e) = Len(seq)
    BY <2>2
  <2>4. \A s \in T : \E n \in 1..Len(e) : e[n] = s
    BY <2>1, <2>3
  <2>. HIDE DEF e
  <2>. QED
    BY <2>3, <2>4 DEF IsFiniteSet
<1>. QED
  BY <1>1, <1>2

\* configs[0] of a non-empty list is one of its configs, and the lowest.
LEMMA LowestSeqExists ==
  ASSUME NEW L, Sequenced(L), L # {}
  PROVE  /\ LowestSeq(L) \in L
         /\ \A d \in L : LowestSeq(L).sequence <= d.sequence
<1>. DEFINE T == {c.sequence : c \in L}
<1>1. T \subseteq Nat /\ T # {}
  BY DEF Sequenced
<1>. HIDE DEF T
<1>2. PICK x \in T : \A y \in T : x <= y
  BY <1>1, LeastNatural
<1>3. PICK c \in L : c.sequence = x
  BY <1>2 DEF T
<1>4. \A d \in L : c.sequence <= d.sequence
  BY <1>2, <1>3 DEF T
<1>. QED
  BY <1>4 DEF LowestSeq

\* configs[len(configs)-1] of a non-empty finite list is one of its configs,
\* and the highest.
LEMMA HighestSeqExists ==
  ASSUME NEW L, Sequenced(L), L # {}, IsFiniteSet(L)
  PROVE  /\ HighestSeq(L) \in L
         /\ \A d \in L : d.sequence <= HighestSeq(L).sequence
<1>1. PICK seq \in Seq(L) : \A c \in L : \E n \in 1..Len(seq) : seq[n] = c
  BY DEF IsFiniteSet
<1>. DEFINE Reached(c, n) == \A i \in 1..n : seq[i].sequence <= c.sequence
            Bad == {n \in 0..Len(seq) : ~\E c \in L : Reached(c, n)}
<1>2. Len(seq) \in Nat /\ \A i \in 1..Len(seq) : seq[i] \in L /\ seq[i].sequence \in Nat
  BY DEF Sequenced
<1>3. \A n : n \in Bad <=> n \in 0..Len(seq) /\ ~\E c \in L : Reached(c, n)
  OBVIOUS
<1>. HIDE DEF Bad
<1>4. Bad = {}
  <2>. SUFFICES ASSUME Bad # {} PROVE FALSE
    OBVIOUS
  <2>. HIDE DEF Reached
  <2>1. Bad \subseteq Nat
    BY <1>2, <1>3
  <2>2. PICK n \in Bad : \A m \in Bad : n <= m
    BY <2>1, LeastNatural
  <2>3. n \in 1..Len(seq)
    <3>1. \A c \in L : Reached(c, 0)
      BY DEF Reached
    <3>. QED
      BY <1>2, <1>3, <3>1
  <2>4. n - 1 \in 0..Len(seq) /\ n - 1 \notin Bad
    BY <1>2, <2>2, <2>3
  <2>5. PICK c \in L : Reached(c, n - 1)
    BY <1>3, <2>4
  <2>6. c.sequence \in Nat /\ seq[n] \in L /\ seq[n].sequence \in Nat
    BY <1>2, <2>3 DEF Sequenced
  <2>7. \A i \in 1..n : i # n => seq[i].sequence \in Nat /\ seq[i].sequence <= c.sequence
    <3>1. \A i \in 1..n : i # n => i \in 1..(n - 1) /\ i \in 1..Len(seq)
      BY <1>2, <2>3
    <3>2. \A i \in 1..(n - 1) : seq[i].sequence <= c.sequence
      BY <2>5 DEF Reached
    <3>. QED
      BY <1>2, <3>1, <3>2
  <2>8. CASE seq[n].sequence <= c.sequence
    <3>1. Reached(c, n)
      BY <2>7, <2>8 DEF Reached
    <3>. QED
      BY <3>1, <1>3
  <2>9. CASE c.sequence <= seq[n].sequence
    <3>1. Reached(seq[n], n)
      BY <2>6, <2>7, <2>9 DEF Reached
    <3>. QED
      BY <3>1, <1>3, <2>6
  <2>. QED
    BY <2>6, <2>8, <2>9
<1>5. PICK c \in L : Reached(c, Len(seq))
  <2>. HIDE DEF Reached
  <2>1. Len(seq) \in 0..Len(seq)
    BY <1>2
  <2>. QED
    BY <2>1, <1>3, <1>4
<1>6. \A d \in L : d.sequence <= c.sequence
  BY <1>1, <1>5
<1>. QED
  BY <1>6 DEF HighestSeq

\* selectActiveConfig returns a config of the list.
LEMMA ActiveConfigListed ==
  ASSUME NEW L, Sequenced(L), L # {}
  PROVE  selectActiveConfig(L) \in L
<1>. DEFINE inProgress == {c \in L : c.configPhase = "InProgress"}
<1>1. Sequenced(inProgress)
  BY DEF Sequenced
<1>2. inProgress # {} => LowestSeq(inProgress) \in L
  BY <1>1, LowestSeqExists
<1>3. LowestSeq(L) \in L
  BY LowestSeqExists
<1>. QED
  BY <1>2, <1>3 DEF selectActiveConfig

\* The Redkey is not deleted.
Alive == Stored(redkeys).deletion = ""

------------------------------------------------------------------------------
(* Feeds. *)

\* A write becomes what the API server stores; the versions before it keep
\* their order, and at most the oldest one is dropped.
LEMMA PublishFeed ==
  ASSUME NEW S, NEW f \in Seq(S), f # <<>>, NEW v \in S, NEW lag \in Nat
  PROVE  /\ Publish(f, v, lag) \in Seq(S)
         /\ Publish(f, v, lag) # <<>>
         /\ Stored(Publish(f, v, lag)) = v
         /\ \E k \in {0, 1} :
              /\ Len(Publish(f, v, lag)) \in {Len(f) - k, Len(f) - k + 1}
              /\ \A i \in 1..Len(Publish(f, v, lag)) :
                   \/ Publish(f, v, lag)[i] = v /\ i = Len(Publish(f, v, lag))
                   \/ i + k \in 1..Len(f) /\ Publish(f, v, lag)[i] = f[i + k]
<1>. DEFINE g == Publish(f, v, lag)
<1>0. Len(f) \in Nat /\ Len(f) > 0
  OBVIOUS
<1>1. CASE v = Stored(f)
  <2>1. g = f
    BY <1>1 DEF Publish
  <2>. QED
    BY <2>1, <1>1, <1>0 DEF Stored
<1>2. CASE v # Stored(f) /\ Len(f) > lag
  <2>1. g = Append(Tail(f), v)
    BY <1>2, <1>0 DEF Publish
  <2>2. Tail(f) \in Seq(S) /\ Len(Tail(f)) = Len(f) - 1
        /\ \A i \in 1..(Len(f) - 1) : Tail(f)[i] = f[i + 1]
    BY <1>0
  <2>3. g \in Seq(S) /\ Len(g) = Len(f) /\ g[Len(f)] = v
        /\ \A i \in 1..(Len(f) - 1) : g[i] = f[i + 1]
    BY <2>1, <2>2, <1>0
  <2>. QED
    BY <2>3, <1>0 DEF Stored
<1>3. CASE v # Stored(f) /\ Len(f) <= lag
  <2>1. g = Append(f, v)
    BY <1>3, <1>0 DEF Publish
  <2>2. g \in Seq(S) /\ Len(g) = Len(f) + 1 /\ g[Len(f) + 1] = v
        /\ \A i \in 1..Len(f) : g[i] = f[i]
    BY <2>1, <1>0
  <2>. QED
    BY <2>2, <1>0 DEF Stored
<1>. QED
  BY <1>1, <1>2, <1>3, <1>0

\* A watch event removes the oldest version only.
LEMMA DeliverFeed ==
  ASSUME NEW S, NEW f \in Seq(S), Len(f) > 1
  PROVE  /\ Tail(f) \in Seq(S) /\ Tail(f) # <<>>
         /\ Stored(Tail(f)) = Stored(f)
         /\ Len(Tail(f)) = Len(f) - 1
         /\ \A i \in 1..(Len(f) - 1) : Tail(f)[i] = f[i + 1]
BY DEF Stored

\* What is stored is a version of the feed, and so is what is cached.
LEMMA FeedEnds ==
  ASSUME NEW S, NEW f \in Seq(S), f # <<>>
  PROVE  Stored(f) \in S /\ Cached(f) \in S /\ Len(f) \in Nat \ {0}
BY DEF Stored, Cached

------------------------------------------------------------------------------
(* Type correctness.  It needs two facts of its own: the lists of configs are *)
(* finite, or the config of highest sequence would not exist, and the steps   *)
(* that take the lowest or active config have a list to take it from.         *)

ConfigSets == {S \in SUBSET ConfigType : IsFiniteSet(S)}

TypeInv ==
  /\ redkeys \in Seq(RedkeyType) /\ redkeys # <<>>
  /\ configs \in Seq(ConfigSets) /\ configs # <<>>
  /\ robin \subseteq RobinObjects /\ robinSeen \subseteq RobinObjects
  /\ pc \in Steps
  /\ cluster \in RedkeyType
  /\ list \in ConfigSets
  /\ pvcs \in Nat
  /\ faults \in 0..MaxFaults
  /\ pc \in {"cleanupSupersededConfigs", "aggregateStatus"} => list # {}
  /\ pc \in {"ensureRBAC", "ensureRobinDeployment"} /\ cluster.primaries = 0
     => list # {}

\* The empty list, a list with one config more and a sublist are lists.
LEMMA ConfigSetsClosed ==
  /\ {} \in ConfigSets
  /\ \A S \in ConfigSets, c \in ConfigType : S \cup {c} \in ConfigSets
  /\ \A S \in ConfigSets : \A T \in SUBSET S : T \in ConfigSets
<1>1. {} \in ConfigSets
  BY FiniteEmpty DEF ConfigSets
<1>2. \A S \in ConfigSets, c \in ConfigType : S \cup {c} \in ConfigSets
  BY FiniteAdd DEF ConfigSets
<1>3. \A S \in ConfigSets : \A T \in SUBSET S : T \in ConfigSets
  BY FiniteSubset DEF ConfigSets
<1>. QED
  BY <1>1, <1>2, <1>3

\* The first, the last and the active config of a list are configs.
LEMMA ChosenConfigs ==
  ASSUME NEW S \in ConfigSets, S # {}
  PROVE  /\ LowestSeq(S) \in S /\ HighestSeq(S) \in S /\ selectActiveConfig(S) \in S
         /\ LowestSeq(S) \in ConfigType /\ HighestSeq(S) \in ConfigType
         /\ selectActiveConfig(S) \in ConfigType
<1>1. Sequenced(S) /\ IsFiniteSet(S)
  BY DEF ConfigSets, ConfigType, Sequenced
<1>2. S \subseteq ConfigType
  BY DEF ConfigSets
<1>. QED
  BY <1>1, <1>2, LowestSeqExists, HighestSeqExists, ActiveConfigListed

\* createNewConfig builds a config.
LEMMA NewConfigType ==
  ASSUME NEW c \in RedkeyType, NEW S \in ConfigSets
  PROVE  NewConfig(c, S) \in ConfigType
<1>1. S # {} => HighestSeq(S).sequence \in Nat
  BY ChosenConfigs DEF ConfigType
<1>2. (IF S = {} THEN 1 ELSE HighestSeq(S).sequence + 1) \in Nat
  BY <1>1
<1>3. c.generation \in Nat /\ c.primaries \in Nat
  BY DEF RedkeyType
<1>4. \A n, g, p \in Nat :
        [sequence |-> n, generation |-> g, primaries |-> p, configPhase |-> "Pending",
         status |-> "", healthy |-> "None"] \in ConfigType
  BY DEF ConfigType, ConfigPhases, ConfigStatuses, HealthReports
<1>. QED
  BY <1>2, <1>3, <1>4 DEF NewConfig

\* aggregateStatus builds a Redkey with a status.
LEMMA AggregatedStatusType ==
  ASSUME NEW r \in RedkeyType, NEW g \in Nat, NEW c \in ConfigType
  PROVE  AggregatedStatus(r, g, c) \in RedkeyType
<1>1. computePhaseFromConditions(aggregateConditions(c)) \in RedkeyPhases
  BY DEF computePhaseFromConditions, aggregateConditions, isConfigReady,
         hasConfigError, RedkeyPhases
<1>2. RecordedTopology(c, r.lastAppliedPrimaries) \in Nat
  BY DEF RecordedTopology, ConfigType, RedkeyType
<1>3. aggregateHealthConditions(c) \in HealthReports /\ c.status \in ConfigStatuses
  BY DEF aggregateHealthConditions, ConfigType, HealthReports
<1>. QED
  BY <1>1, <1>2, <1>3 DEF AggregatedStatus, RedkeyType

\* Writing configs keeps their feed well formed.
LEMMA WriteConfigsType ==
  ASSUME TypeInv, NEW S \in ConfigSets, WriteConfigs(S)
  PROVE  configs' \in Seq(ConfigSets) /\ configs' # <<>>
BY PublishFeed, BoundsAssumption DEF WriteConfigs, TypeInv

\* Writing the Redkey keeps its feed well formed.
LEMMA WriteRedkeyType ==
  ASSUME TypeInv, NEW r \in RedkeyType, WriteRedkey(r)
  PROVE  redkeys' \in Seq(RedkeyType) /\ redkeys' # <<>>
BY PublishFeed, BoundsAssumption DEF WriteRedkey, TypeInv

\* Ends of the feeds in a well-formed state.
LEMMA EndsType ==
  ASSUME TypeInv
  PROVE  /\ Stored(redkeys) \in RedkeyType /\ Cached(redkeys) \in RedkeyType
         /\ Stored(configs) \in ConfigSets /\ Cached(configs) \in ConfigSets
BY FeedEnds DEF TypeInv

\* Initially.
LEMMA TypeInit == Init => TypeInv
<1>. SUFFICES ASSUME Init PROVE TypeInv
  OBVIOUS
<1>1. PICK p \in Primaries : redkeys = <<NewRedkey(p)>>
  BY DEF Init
<1>2. NewRedkey(p) \in RedkeyType /\ NewRedkey(0) \in RedkeyType
  BY PrimariesAssumption DEF NewRedkey, RedkeyType, RedkeyPhases, ConfigStatuses, HealthReports
<1>3. redkeys \in Seq(RedkeyType) /\ redkeys # <<>>
  BY <1>1, <1>2
<1>4. configs \in Seq(ConfigSets) /\ configs # <<>>
  BY ConfigSetsClosed DEF Init
<1>. QED
  BY <1>2, <1>3, <1>4, ConfigSetsClosed, BoundsAssumption
     DEF Init, TypeInv, Steps, NoCluster

\* An action that leaves Reconcile and the bookkeeping alone keeps TypeInv if
\* it keeps the two feeds well formed.
LEMMA TypeFrame ==
  ASSUME TypeInv, UNCHANGED <<robin, localVars, faults>>,
         redkeys' \in Seq(RedkeyType) /\ redkeys' # <<>>,
         configs' \in Seq(ConfigSets) /\ configs' # <<>>,
         robinSeen' \subseteq RobinObjects, pvcs' \in Nat
  PROVE  TypeInv'
BY DEF TypeInv, localVars

\* So does an action that ends the reconcile.
LEMMA TypeReturn ==
  ASSUME TypeInv, Return, UNCHANGED pvcs, faults' \in 0..MaxFaults,
         redkeys' \in Seq(RedkeyType) /\ redkeys' # <<>>,
         configs' \in Seq(ConfigSets) /\ configs' # <<>>,
         robin' \subseteq RobinObjects, robinSeen' \subseteq RobinObjects
  PROVE  TypeInv'
<1>1. NoCluster \in RedkeyType
  BY DEF NoCluster, NewRedkey, RedkeyType, RedkeyPhases, ConfigStatuses, HealthReports
<1>. QED
  BY <1>1, ConfigSetsClosed DEF TypeInv, Return, Goto, Steps

\* And one that goes on to a step with the list that step needs.
LEMMA TypeGoto ==
  ASSUME TypeInv, NEW step \in Steps, NEW c \in RedkeyType, NEW l \in ConfigSets,
         Goto(step, c, l), UNCHANGED <<redkeys, robinSeen, pvcs, faults>>,
         configs' \in Seq(ConfigSets) /\ configs' # <<>>, robin' \subseteq RobinObjects,
         step \in {"cleanupSupersededConfigs", "aggregateStatus"} => l # {},
         step \in {"ensureRBAC", "ensureRobinDeployment"} /\ c.primaries = 0 => l # {}
  PROVE  TypeInv'
BY DEF TypeInv, Goto

\* The steps of a reconcile after its list is final.
LEMMA TypeAfterList ==
  ASSUME TypeInv, NEW c \in RedkeyType, NEW l \in ConfigSets, AfterList(c, l),
         UNCHANGED <<redkeys, robin, robinSeen, pvcs, faults>>,
         configs' \in Seq(ConfigSets) /\ configs' # <<>>
  PROVE  TypeInv'
<1>1. CASE l = {}
  BY <1>1, TypeReturn DEF AfterList, TypeInv
<1>2. CASE l # {}
  BY <1>2, TypeGoto DEF AfterList, TypeInv, Steps
<1>. QED
  BY <1>1, <1>2

\* Creating a config, or finding its name taken, keeps the feed well formed.
LEMMA TypeCreate ==
  ASSUME TypeInv, NEW c \in ConfigType, CreateConfig(c)
  PROVE  configs' \in Seq(ConfigSets) /\ configs' # <<>>
<1>1. Stored(configs) \cup {c} \in ConfigSets
  BY EndsType, ConfigSetsClosed
<1>. QED
  BY <1>1, WriteConfigsType DEF CreateConfig, TypeInv

\* Deleting one as well.
LEMMA TypeDelete ==
  ASSUME TypeInv, NEW c, DeleteConfig(c)
  PROVE  configs' \in Seq(ConfigSets) /\ configs' # <<>>
<1>1. {d \in Stored(configs) : d.sequence # c.sequence} \in ConfigSets
  BY EndsType, ConfigSetsClosed
<1>. QED
  BY <1>1, WriteConfigsType DEF DeleteConfig

\* What Robin writes is a config.
LEMMA TypeRobinWrites ==
  ASSUME TypeInv, NEW c \in Stored(configs), NEW phase \in ConfigPhases,
         NEW status \in ConfigStatuses, NEW healthy \in HealthReports,
         RobinWrites(c, phase, status, healthy), pvcs' \in Nat
  PROVE  TypeInv'
<1>1. c \in ConfigType
  BY EndsType DEF ConfigSets
<1>. DEFINE d == [c EXCEPT !.configPhase = phase, !.status = status, !.healthy = healthy]
<1>2. d \in ConfigType
  BY <1>1 DEF ConfigType
<1>3. (Stored(configs) \ {c}) \cup {d} \in ConfigSets
  BY <1>2, EndsType, ConfigSetsClosed
<1>4. configs' \in Seq(ConfigSets) /\ configs' # <<>>
  BY <1>3, WriteConfigsType DEF RobinWrites
<1>. QED
  BY <1>4, TypeFrame DEF RobinWrites, TypeInv

\* Every step of a reconcile keeps TypeInv.
LEMMA TypeReconcileStep ==
  ASSUME TypeInv, ReconcileStep
  PROVE  TypeInv'
<1>. USE EndsType
<1>0. /\ cluster \in RedkeyType /\ list \in ConfigSets /\ faults \in 0..MaxFaults
      /\ redkeys \in Seq(RedkeyType) /\ redkeys # <<>>
      /\ configs \in Seq(ConfigSets) /\ configs # <<>>
      /\ robin \subseteq RobinObjects /\ robinSeen \subseteq RobinObjects
      /\ cluster.generation \in Nat
  BY DEF TypeInv, RedkeyType
<1>1. CASE StartReconcile
  <2>. DEFINE c == Cached(redkeys)
              l == Cached(configs)
  <2>1. PICK step \in Steps, m \in ConfigSets :
          /\ Goto(step, c, m)
          /\ step \notin {"cleanupSupersededConfigs", "aggregateStatus"}
          /\ c.primaries = 0 /\ step \in {"ensureRBAC", "ensureRobinDeployment"} => m # {}
    BY <1>1, ConfigSetsClosed DEF StartReconcile, Steps
  <2>. QED
    BY <2>1, <1>1, <1>0, TypeGoto DEF StartReconcile, storeVars
<1>2. CASE EnsureRBAC
  <2>1. faults' \in 0..MaxFaults
    BY <1>2, <1>0, BoundsAssumption DEF EnsureRBAC
  <2>2. \A n \in 0..RBACKinds : MissingRBAC(n) \subseteq RobinObjects
    BY RBACKindsAssumption DEF MissingRBAC, RBACUpTo, RobinObjects
  <2>3. robin' \subseteq RobinObjects
    <3>1. CASE robin' = robin \cup MissingRBAC(RBACKinds)
      BY <3>1, <2>2, <1>0, RBACKindsAssumption
    <3>2. ASSUME NEW n \in 1..RBACKinds, robin' = robin \cup MissingRBAC(n - 1)
          PROVE  robin' \subseteq RobinObjects
      <4>1. n - 1 \in 0..RBACKinds
        BY RBACKindsAssumption
      <4>. QED
        BY <4>1, <3>2, <2>2, <1>0
    <3>. QED
      BY <3>1, <3>2, <1>2 DEF EnsureRBAC
  <2>4. CASE Return
    BY <2>1, <2>4, <2>3, <1>0, <1>2, TypeReturn DEF EnsureRBAC
  <2>5. CASE Goto("ensureRobinDeployment", cluster, list) /\ UNCHANGED faults
    <3>1. cluster.primaries = 0 => list # {}
      BY <1>2 DEF EnsureRBAC, TypeInv
    <3>. QED
      BY <3>1, <2>5, <2>3, <1>0, <1>2, TypeGoto DEF EnsureRBAC, Steps
  <2>. QED
    BY <2>4, <2>5, <1>2 DEF EnsureRBAC
<1>3. CASE EnsureRobinDeployment
  <2>1. robin' \subseteq RobinObjects
    BY <1>3, <1>0 DEF EnsureRobinDeployment, RobinObjects
  <2>2. CASE Return
    BY <2>1, <2>2, <1>0, <1>3, TypeReturn DEF EnsureRobinDeployment
  <2>3. CASE AfterEnsure
    <3>1. cluster.primaries = 0 => list # {}
      BY <1>3 DEF EnsureRobinDeployment, TypeInv
    <3>2. PICK step \in {"createNewConfig", "createZeroConfig", "aggregateStatus"} :
            Goto(step, cluster, list) /\ (step = "aggregateStatus" => list # {})
      BY <3>1, <2>3 DEF AfterEnsure
    <3>. QED
      BY <3>2, <2>1, <1>0, <1>3, TypeGoto DEF EnsureRobinDeployment, Steps
  <2>. QED
    BY <2>2, <2>3, <1>3 DEF EnsureRobinDeployment
<1>4. CASE CreateNewConfig
  <2>1. NewConfig(cluster, Cached(configs)) \in ConfigType
    BY <1>0, NewConfigType
  <2>2. configs' \in Seq(ConfigSets) /\ configs' # <<>>
    BY <2>1, <1>4, <1>0, TypeCreate DEF CreateNewConfig
  <2>3. CASE Goto("listConfigs", cluster, {})
    BY <2>2, <2>3, <1>0, <1>4, TypeGoto, ConfigSetsClosed DEF CreateNewConfig, Steps
  <2>4. CASE AfterList(cluster, Cached(configs))
    BY <2>2, <2>4, <1>0, <1>4, TypeAfterList DEF CreateNewConfig
  <2>. QED
    BY <2>3, <2>4, <1>4 DEF CreateNewConfig
<1>5. CASE CreateZeroConfig
  <2>1. NewConfig(cluster, list) \in ConfigType
    BY <1>0, NewConfigType
  <2>2. configs' \in Seq(ConfigSets) /\ configs' # <<>>
    BY <2>1, <1>5, TypeCreate DEF CreateZeroConfig
  <2>. QED
    BY <2>2, <1>0, <1>5, TypeReturn DEF CreateZeroConfig
<1>6. CASE ListConfigs
  BY <1>6, <1>0, TypeAfterList DEF ListConfigs, storeVars
<1>7. CASE CleanupSupersededConfigs
  <2>1. configs' \in Seq(ConfigSets) /\ configs' # <<>>
    BY <1>7, TypeDelete DEF CleanupSupersededConfigs
  <2>2. list \ {LowestSeq(list)} \in ConfigSets
    BY <1>0, ConfigSetsClosed
  <2>. QED
    BY <2>1, <2>2, <1>0, <1>7, TypeAfterList DEF CleanupSupersededConfigs
<1>8. CASE AggregateStatus
  <2>1. list # {}
    BY <1>8 DEF AggregateStatus, TypeInv
  <2>2. AggregatedStatus(Cached(redkeys), cluster.generation, selectActiveConfig(list))
        \in RedkeyType
    BY <2>1, <1>0, ChosenConfigs, AggregatedStatusType
  <2>3. redkeys' \in Seq(RedkeyType) /\ redkeys' # <<>>
    BY <2>2, <1>0, <1>8, WriteRedkeyType DEF AggregateStatus
  <2>. QED
    BY <2>3, <1>0, <1>8, TypeReturn DEF AggregateStatus
<1>9. CASE DeleteRobinDeployment
  <2>1. robin' \subseteq RobinObjects
    BY <1>9, <1>0 DEF DeleteRobinDeployment
  <2>. QED
    BY <2>1, <1>0, <1>9, TypeGoto DEF DeleteRobinDeployment, Steps
<1>10. CASE DeleteRBAC
  <2>1. robin' \subseteq RobinObjects /\ faults' \in 0..MaxFaults
    BY <1>10, <1>0, BoundsAssumption DEF DeleteRBAC
  <2>2. CASE Return
    BY <2>1, <2>2, <1>0, <1>10, TypeReturn DEF DeleteRBAC
  <2>3. CASE Goto("listAllConfigs", cluster, {}) /\ UNCHANGED faults
    BY <2>1, <2>3, <1>0, <1>10, TypeGoto, ConfigSetsClosed DEF DeleteRBAC, Steps
  <2>. QED
    BY <2>2, <2>3, <1>10 DEF DeleteRBAC
<1>11. CASE ListAllConfigs
  BY <1>11, <1>0, TypeGoto DEF ListAllConfigs, AfterDelete, storeVars, Steps
<1>12. CASE DeleteAllConfigs
  <2>1. PICK c \in list : DeleteConfig(c) /\ AfterDelete(list \ {c})
    BY <1>12 DEF DeleteAllConfigs
  <2>2. configs' \in Seq(ConfigSets) /\ configs' # <<>>
    BY <2>1, TypeDelete
  <2>3. list \ {c} \in ConfigSets
    BY <1>0, ConfigSetsClosed
  <2>. QED
    BY <2>1, <2>2, <2>3, <1>0, <1>12, TypeGoto DEF DeleteAllConfigs, AfterDelete, Steps
<1>13. CASE UpdateStatusScaledToZero
  <2>1. [cluster EXCEPT !.phase = "Ready", !.status = "",
                        !.observedGeneration = cluster.generation] \in RedkeyType
    BY <1>0 DEF RedkeyType, RedkeyPhases, ConfigStatuses
  <2>2. redkeys' \in Seq(RedkeyType) /\ redkeys' # <<>>
    BY <2>1, <1>0, <1>13, WriteRedkeyType DEF UpdateStatusScaledToZero
  <2>. QED
    BY <2>2, <1>0, <1>13, TypeReturn DEF UpdateStatusScaledToZero
<1>14. CASE ReconcileGone
  BY <1>14 DEF ReconcileGone, vars, TypeInv
<1>. QED
  BY <1>1, <1>2, <1>3, <1>4, <1>5, <1>6, <1>7, <1>8, <1>9, <1>10, <1>11, <1>12, <1>13, <1>14
     DEF ReconcileStep

\* An edit of the spec yields a Redkey.
LEMMA EditedRedkeyType ==
  ASSUME NEW r \in RedkeyType, NEW p \in Nat
  PROVE  [r EXCEPT !.generation = @ + 1, !.primaries = p] \in RedkeyType
<1>1. r.generation \in Nat
  BY DEF RedkeyType
<1>2. r.generation + 1 \in Nat
  BY <1>1
<1>3. \A n \in Nat : [r EXCEPT !.generation = n, !.primaries = p] \in RedkeyType
  BY DEF RedkeyType
<1>. QED
  BY <1>2, <1>3

\* Every step keeps TypeInv.
LEMMA TypeStep == TypeInv /\ [Next]_vars => TypeInv'
<1>. SUFFICES ASSUME TypeInv, [Next]_vars PROVE TypeInv'
  OBVIOUS
<1>. USE EndsType
<1>0. /\ redkeys \in Seq(RedkeyType) /\ redkeys # <<>>
      /\ configs \in Seq(ConfigSets) /\ configs # <<>>
      /\ robin \subseteq RobinObjects /\ robinSeen \subseteq RobinObjects
      /\ pvcs \in Nat /\ faults \in 0..MaxFaults
  BY DEF TypeInv
<1>1. ASSUME NEW p \in Primaries, EditSpec(p) PROVE TypeInv'
  <2>1. [Stored(redkeys) EXCEPT !.generation = @ + 1, !.primaries = p] \in RedkeyType
    BY PrimariesAssumption, EditedRedkeyType
  <2>2. redkeys' \in Seq(RedkeyType) /\ redkeys' # <<>>
    BY <2>1, <1>1, WriteRedkeyType DEF EditSpec
  <2>. QED
    BY <2>2, <1>0, <1>1, TypeFrame DEF EditSpec
<1>2. CASE DeliverRedkey
  BY <1>2, <1>0, DeliverFeed, TypeFrame DEF DeliverRedkey
<1>3. CASE DeliverConfigs
  BY <1>3, <1>0, DeliverFeed, TypeFrame DEF DeliverConfigs
<1>4. ASSUME NEW o \in RobinObjects, DeliverRobin(o) PROVE TypeInv'
  BY <1>4, <1>0, TypeFrame DEF DeliverRobin, storeVars
<1>5. CASE ReconcileStep
  BY <1>5, TypeReconcileStep
<1>6. CASE ReconcileFails
  <2>1. faults' \in 0..MaxFaults
    BY <1>6, <1>0, BoundsAssumption DEF ReconcileFails
  <2>. QED
    BY <2>1, <1>6, <1>0, TypeReturn DEF ReconcileFails, storeVars
<1>7. CASE Restart
  <2>1. faults' \in 0..MaxFaults
    BY <1>7, <1>0, BoundsAssumption DEF Restart
  <2>2. redkeys' \in Seq(RedkeyType) /\ redkeys' # <<>>
    BY <1>7 DEF Restart
  <2>3. configs' \in Seq(ConfigSets) /\ configs' # <<>>
    BY <1>7 DEF Restart
  <2>. QED
    BY <2>1, <2>2, <2>3, <1>7, <1>0, TypeReturn DEF Restart
<1>8. ASSUME NEW c \in Stored(configs),
             RobinStarts(c) \/ RobinSupersedes(c) \/ RobinApplies(c) \/ RobinReports(c)
      PROVE  TypeInv'
  <2>1. c \in ConfigType
    BY DEF ConfigSets
  <2>2. PICK phase \in ConfigPhases, status \in ConfigStatuses, healthy \in HealthReports :
          RobinWrites(c, phase, status, healthy)
    <3>1. /\ c.status \in ConfigStatuses /\ c.healthy \in HealthReports
          /\ {"InProgress", "Superseded", "Applied"} \subseteq ConfigPhases
          /\ {"ScalingToZero", "ScalingUp"} \subseteq ConfigStatuses
      BY <2>1 DEF ConfigType, ConfigPhases, ConfigStatuses, Operations
    <3>. QED
      BY <1>8, <3>1, StatusesAssumption, ReportsAssumption
         DEF RobinStarts, RobinSupersedes, RobinApplies, RobinReports
  <2>3. pvcs' \in Nat
    BY <1>8, <2>1, <1>0
       DEF RobinStarts, RobinSupersedes, RobinApplies, RobinReports, ConfigType
  <2>. QED
    BY <2>2, <2>3, TypeRobinWrites
<1>9. CASE DeleteRedkey
  <2>1. [Stored(redkeys) EXCEPT !.deletion = "gone"] \in RedkeyType
    BY DEF RedkeyType
  <2>2. redkeys' \in Seq(RedkeyType) /\ redkeys' # <<>>
    BY <2>1, <1>9, WriteRedkeyType DEF DeleteRedkey
  <2>. QED
    BY <2>2, <1>0, <1>9, TypeFrame DEF DeleteRedkey
<1>10. ASSUME NEW c, CollectConfig(c) PROVE TypeInv'
  <2>1. configs' \in Seq(ConfigSets) /\ configs' # <<>>
    BY <1>10, ConfigSetsClosed, WriteConfigsType DEF CollectConfig
  <2>. QED
    BY <2>1, <1>0, <1>10, TypeFrame DEF CollectConfig
<1>11. ASSUME NEW o \in RobinObjects, CollectRobin(o) PROVE TypeInv'
  BY <1>11, <1>0 DEF CollectRobin, TypeInv, localVars
<1>12. CASE UNCHANGED vars
  BY <1>12 DEF vars, TypeInv
<1>. QED
  BY <1>1, <1>2, <1>3, <1>4, <1>5, <1>6, <1>7, <1>8, <1>9, <1>10, <1>11, <1>12
     DEF Next, Deliver, RobinActs, RobinStep, Collect

\* The state of the controller, the API server and the caches is always well
\* formed.  The invariant behind it, TypeInv, also says that no step of Reconcile
\* takes the first, last or active config of an empty list (configs[0],
\* configs[len(configs)-1]).
THEOREM TypeCorrect == Spec => []TypeOK
<1>1. Spec => []TypeInv
  BY TypeInit, TypeStep, PTL DEF Spec
<1>2. TypeInv => TypeOK
  BY DEF TypeInv, TypeOK, ConfigSets
<1>. QED
  BY <1>1, <1>2, PTL

------------------------------------------------------------------------------
(* observedGeneration.  Every observedGeneration still in the feed was the    *)
(* generation of a copy some earlier reconcile started with, so it is not     *)
(* newer than the version now in the cache, nor than the copy the running     *)
(* reconcile has; and generations never decrease along the feed.              *)

GenerationsOrdered(f) ==
  \A i, j \in 1..Len(f) : i <= j => f[i].generation <= f[j].generation

ObservedBelow(f, g) == \A i \in 1..Len(f) : f[i].observedGeneration <= g

ObservedInv ==
  /\ GenerationsOrdered(redkeys)
  /\ ObservedBelow(redkeys, Cached(redkeys).generation)
  /\ pc # "idle" =>
       /\ cluster.generation <= Cached(redkeys).generation
       /\ ObservedBelow(redkeys, cluster.generation)

\* The generations of the versions of a feed are naturals.
LEMMA FeedGenerations ==
  ASSUME NEW f \in Seq(RedkeyType), f # <<>>
  PROVE  /\ Len(f) \in Nat /\ Len(f) > 0
         /\ \A i \in 1..Len(f) : f[i].generation \in Nat /\ f[i].observedGeneration \in Nat
<1>1. Len(f) \in Nat /\ Len(f) > 0 /\ \A i \in 1..Len(f) : f[i] \in RedkeyType
  OBVIOUS
<1>. QED
  BY <1>1 DEF RedkeyType

\* Writing a version that is not of an older generation.
LEMMA PublishObserved ==
  ASSUME NEW f \in Seq(RedkeyType), f # <<>>, NEW v \in RedkeyType, NEW lag \in Nat,
         GenerationsOrdered(f), Stored(f).generation <= v.generation
  PROVE  /\ GenerationsOrdered(Publish(f, v, lag))
         /\ Cached(f).generation <= Cached(Publish(f, v, lag)).generation
         /\ \A b \in Nat : ObservedBelow(f, b) /\ v.observedGeneration <= b
                           => ObservedBelow(Publish(f, v, lag), b)
<1>. DEFINE g == Publish(f, v, lag)
            n == Len(f)
            m == Len(g)
<1>1. g \in Seq(RedkeyType) /\ g # <<>>
  BY PublishFeed
<1>2. PICK k \in {0, 1} :
        \A i \in 1..m : \/ g[i] = v /\ i = m
                        \/ i + k \in 1..n /\ g[i] = f[i + k]
  BY PublishFeed
<1>. HIDE DEF g
<1>3. /\ n \in Nat /\ n > 0 /\ m \in Nat /\ m > 0
      /\ \A i \in 1..n : f[i].generation \in Nat /\ f[i].observedGeneration \in Nat
      /\ \A i \in 1..m : g[i].generation \in Nat /\ g[i].observedGeneration \in Nat
      /\ v.generation \in Nat /\ v.observedGeneration \in Nat
  BY <1>1, FeedGenerations DEF RedkeyType
<1>. HIDE DEF n, m
<1>4. \A i, j \in 1..n : i <= j => f[i].generation <= f[j].generation
  BY DEF GenerationsOrdered, n
<1>5. \A i \in 1..n : f[i].generation <= v.generation
  <2>1. f[n].generation <= v.generation
    BY DEF Stored, n
  <2>2. ASSUME NEW i \in 1..n PROVE f[i].generation <= v.generation
    <3>1. n \in 1..n /\ i <= n
      BY <1>3
    <3>2. f[i].generation <= f[n].generation
      BY <3>1, <1>4
    <3>3. f[i].generation \in Nat /\ f[n].generation \in Nat
      BY <3>1, <1>3
    <3>. QED
      BY <2>1, <3>2, <3>3, <1>3
  <2>. QED
    BY <2>2
<1>6. \A i, j \in 1..m : i <= j => g[i].generation <= g[j].generation
  <2>. SUFFICES ASSUME NEW i \in 1..m, NEW j \in 1..m, i <= j
                PROVE  g[i].generation <= g[j].generation
    OBVIOUS
  <2>1. CASE g[i] = v /\ i = m
    BY <2>1, <1>3
  <2>2. CASE i + k \in 1..n /\ g[i] = f[i + k]
    <3>1. CASE g[j] = v
      BY <2>2, <3>1, <1>5
    <3>2. CASE j + k \in 1..n /\ g[j] = f[j + k]
      BY <2>2, <3>2, <1>4, <1>3
    <3>. QED
      BY <3>1, <3>2, <1>2
  <2>. QED
    BY <2>1, <2>2, <1>2
<1>7. f[1].generation <= g[1].generation
  <2>1. CASE g[1] = v
    BY <2>1, <1>3, <1>5
  <2>2. CASE 1 + k \in 1..n /\ g[1] = f[1 + k]
    BY <2>2, <1>3, <1>4
  <2>. QED
    BY <2>1, <2>2, <1>2, <1>3
<1>8. ASSUME NEW b \in Nat, ObservedBelow(f, b), v.observedGeneration <= b
      PROVE  \A i \in 1..m : g[i].observedGeneration <= b
  <2>1. \A i \in 1..n : f[i].observedGeneration <= b
    BY <1>8 DEF ObservedBelow, n
  <2>. QED
    BY <2>1, <1>2, <1>8
<1>9. GenerationsOrdered(g)
  BY <1>6 DEF GenerationsOrdered, m
<1>10. \A b \in Nat : ObservedBelow(f, b) /\ v.observedGeneration <= b => ObservedBelow(g, b)
  BY <1>8 DEF ObservedBelow, m
<1>. QED
  BY <1>7, <1>9, <1>10 DEF g, Cached

\* A suffix of a feed: deliveries and restarts.
LEMMA SuffixObserved ==
  ASSUME NEW f \in Seq(RedkeyType), f # <<>>, GenerationsOrdered(f),
         NEW g \in Seq(RedkeyType), g # <<>>, NEW k \in Nat,
         \A i \in 1..Len(g) : i + k \in 1..Len(f) /\ g[i] = f[i + k]
  PROVE  /\ GenerationsOrdered(g)
         /\ Cached(f).generation <= Cached(g).generation
         /\ \A b \in Nat : ObservedBelow(f, b) => ObservedBelow(g, b)
<1>1. /\ Len(f) \in Nat /\ Len(f) > 0 /\ Len(g) \in Nat /\ Len(g) > 0
      /\ \A i \in 1..Len(f) : f[i].generation \in Nat /\ f[i].observedGeneration \in Nat
  BY FeedGenerations
<1>. DEFINE n == Len(f)
            m == Len(g)
<1>2. /\ \A i, j \in 1..n : i <= j => f[i].generation <= f[j].generation
      /\ \A i \in 1..m : i + k \in 1..n /\ g[i] = f[i + k]
  BY DEF GenerationsOrdered
<1>3. n \in Nat /\ n > 0 /\ m \in Nat /\ m > 0
  BY <1>1
<1>. HIDE DEF n, m
<1>4. \A i, j \in 1..m : i <= j => g[i].generation <= g[j].generation
  <2>. SUFFICES ASSUME NEW i \in 1..m, NEW j \in 1..m, i <= j
                PROVE  g[i].generation <= g[j].generation
    OBVIOUS
  <2>1. i + k \in 1..n /\ j + k \in 1..n /\ g[i] = f[i + k] /\ g[j] = f[j + k]
    BY <1>2
  <2>2. i + k <= j + k
    BY <1>3
  <2>3. f[i + k].generation <= f[j + k].generation
    BY <2>1, <2>2, <1>2
  <2>. QED
    BY <2>1, <2>3
<1>5. f[1].generation <= g[1].generation
  <2>1. 1 \in 1..m /\ 1 \in 1..n /\ 1 + k \in 1..n /\ 1 <= 1 + k
    BY <1>2, <1>3
  <2>2. f[1].generation <= f[1 + k].generation
    BY <2>1, <1>2
  <2>. QED
    BY <2>1, <2>2, <1>2
<1>6. \A b \in Nat : ObservedBelow(f, b) => ObservedBelow(g, b)
  BY <1>2 DEF ObservedBelow, n, m
<1>7. GenerationsOrdered(g)
  BY <1>4 DEF GenerationsOrdered, m
<1>. QED
  BY <1>5, <1>6, <1>7 DEF Cached

\* The naturals the argument compares.
LEMMA ObservedTypes ==
  ASSUME TypeInv
  PROVE  /\ redkeys \in Seq(RedkeyType) /\ redkeys # <<>>
         /\ Cached(redkeys).generation \in Nat
         /\ Stored(redkeys).generation \in Nat
         /\ Stored(redkeys).observedGeneration \in Nat
         /\ cluster.generation \in Nat
<1>1. Stored(redkeys) \in RedkeyType /\ Cached(redkeys) \in RedkeyType /\ cluster \in RedkeyType
  BY EndsType DEF TypeInv
<1>. QED
  BY <1>1 DEF RedkeyType, TypeInv

\* What a step must establish.
ObservedGoal ==
  ObservedInv' /\ Stored(redkeys)'.observedGeneration >= Stored(redkeys).observedGeneration

\* Steps that do not write the Redkey: they end the reconcile, go on with the
\* copy it has, or take the cached version as a new copy.
LEMMA ObservedFrame ==
  ASSUME TypeInv, ObservedInv, UNCHANGED redkeys,
         \/ pc' = "idle"
         \/ pc # "idle" /\ cluster' = cluster
         \/ cluster' = Cached(redkeys)
  PROVE  ObservedGoal
<1>1. Stored(redkeys)'.observedGeneration >= Stored(redkeys).observedGeneration
  BY ObservedTypes DEF Stored
<1>2. GenerationsOrdered(redkeys') /\ ObservedBelow(redkeys', Cached(redkeys').generation)
  BY DEF ObservedInv
<1>3. pc' # "idle" => /\ cluster'.generation <= Cached(redkeys').generation
                      /\ ObservedBelow(redkeys', cluster'.generation)
  BY ObservedTypes DEF ObservedInv
<1>. QED
  BY <1>1, <1>2, <1>3 DEF ObservedGoal, ObservedInv

\* Steps that move the feed: to g, whose versions bound the same generations.
LEMMA ObservedMove ==
  ASSUME TypeInv, TypeInv', ObservedInv,
         GenerationsOrdered(redkeys'),
         Cached(redkeys).generation <= Cached(redkeys').generation,
         ObservedBelow(redkeys', Cached(redkeys).generation),
         \/ pc' = "idle"
         \/ UNCHANGED <<pc, cluster>> /\ \A b \in Nat : ObservedBelow(redkeys, b)
                                                        => ObservedBelow(redkeys', b)
  PROVE  ObservedInv'
<1>1. /\ Cached(redkeys).generation \in Nat /\ Cached(redkeys').generation \in Nat
      /\ cluster.generation \in Nat
  <2>1. Cached(redkeys') \in RedkeyType
    BY FeedEnds DEF TypeInv
  <2>2. Cached(redkeys').generation \in Nat
    BY <2>1 DEF RedkeyType
  <2>. QED
    BY <2>2, ObservedTypes
<1>2. \A i \in 1..Len(redkeys') : redkeys'[i].observedGeneration \in Nat
  BY FeedGenerations DEF TypeInv
<1>3. ObservedBelow(redkeys', Cached(redkeys').generation)
  BY <1>1, <1>2 DEF ObservedBelow
<1>4. pc' # "idle" => /\ cluster'.generation <= Cached(redkeys').generation
                      /\ ObservedBelow(redkeys', cluster'.generation)
  BY <1>1 DEF ObservedInv
<1>. QED
  BY <1>3, <1>4 DEF ObservedInv

\* Steps that write the Redkey.
LEMMA ObservedWrite ==
  ASSUME TypeInv, TypeInv', ObservedInv, NEW v \in RedkeyType, WriteRedkey(v),
         Stored(redkeys).generation <= v.generation,
         v.observedGeneration >= Stored(redkeys).observedGeneration,
         \/ pc' = "idle" /\ v.observedGeneration <= Cached(redkeys).generation
         \/ UNCHANGED <<pc, cluster>>
            /\ v.observedGeneration = Stored(redkeys).observedGeneration
  PROVE  ObservedGoal
<1>1. /\ redkeys' = Publish(redkeys, v, RedkeyLag) /\ RedkeyLag \in Nat
      /\ redkeys \in Seq(RedkeyType) /\ redkeys # <<>>
  BY BoundsAssumption DEF WriteRedkey, TypeInv
<1>2. Stored(redkeys') = v
  BY <1>1, PublishFeed
<1>3. /\ GenerationsOrdered(redkeys')
      /\ Cached(redkeys).generation <= Cached(redkeys').generation
      /\ \A b \in Nat : ObservedBelow(redkeys, b) /\ v.observedGeneration <= b
                        => ObservedBelow(redkeys', b)
  BY <1>1, PublishObserved DEF ObservedInv
<1>4. \A b \in Nat : ObservedBelow(redkeys, b) => Stored(redkeys).observedGeneration <= b
  BY <1>1, FeedEnds DEF ObservedBelow, Stored
<1>5. ObservedBelow(redkeys', Cached(redkeys).generation)
  BY <1>3, <1>4, ObservedTypes DEF ObservedInv
<1>6. ObservedInv'
  <2>1. CASE pc' = "idle"
    BY <2>1, <1>3, <1>5, ObservedMove
  <2>2. CASE UNCHANGED <<pc, cluster>>
             /\ v.observedGeneration = Stored(redkeys).observedGeneration
    <3>1. \A b \in Nat : ObservedBelow(redkeys, b) => ObservedBelow(redkeys', b)
      BY <2>2, <1>3, <1>4
    <3>. QED
      BY <3>1, <2>2, <1>3, <1>5, ObservedMove
  <2>. QED
    BY <2>1, <2>2
<1>. QED
  BY <1>2, <1>6 DEF ObservedGoal, Stored

\* Steps that drop the oldest versions of the feed.
LEMMA ObservedSuffix ==
  ASSUME TypeInv, TypeInv', ObservedInv, NEW k \in Nat,
         \A i \in 1..Len(redkeys') : i + k \in 1..Len(redkeys) /\ redkeys'[i] = redkeys[i + k],
         Stored(redkeys') = Stored(redkeys),
         pc' = "idle" \/ UNCHANGED <<pc, cluster>>
  PROVE  ObservedGoal
<1>1. /\ redkeys \in Seq(RedkeyType) /\ redkeys # <<>>
      /\ redkeys' \in Seq(RedkeyType) /\ redkeys' # <<>>
  BY DEF TypeInv
<1>2. /\ GenerationsOrdered(redkeys')
      /\ Cached(redkeys).generation <= Cached(redkeys').generation
      /\ \A b \in Nat : ObservedBelow(redkeys, b) => ObservedBelow(redkeys', b)
  BY <1>1, SuffixObserved DEF ObservedInv
<1>3. ObservedInv'
  BY <1>2, ObservedTypes, ObservedMove DEF ObservedInv
<1>. QED
  BY <1>3, ObservedTypes DEF ObservedGoal, Stored

\* The steps of a reconcile.
LEMMA ObservedReconcileStep ==
  ASSUME TypeInv, TypeInv', ObservedInv, ReconcileStep
  PROVE  ObservedGoal
<1>1. CASE StartReconcile
  BY <1>1, ObservedFrame DEF StartReconcile, Goto, storeVars
<1>2. CASE EnsureRBAC
  BY <1>2, ObservedFrame DEF EnsureRBAC, Return, Goto
<1>3. CASE EnsureRobinDeployment
  BY <1>3, ObservedFrame DEF EnsureRobinDeployment, AfterEnsure, Return, Goto
<1>4. CASE CreateNewConfig
  BY <1>4, ObservedFrame DEF CreateNewConfig, AfterList, Return, Goto
<1>5. CASE CreateZeroConfig
  BY <1>5, ObservedFrame DEF CreateZeroConfig, Return, Goto
<1>6. CASE ListConfigs
  BY <1>6, ObservedFrame DEF ListConfigs, AfterList, Return, Goto, storeVars
<1>7. CASE CleanupSupersededConfigs
  BY <1>7, ObservedFrame DEF CleanupSupersededConfigs, AfterList, Return, Goto
<1>8. CASE AggregateStatus
  <2>1. pc' = "idle" /\ pc # "idle"
    BY <1>8 DEF AggregateStatus, Return, Goto
  <2>2. CASE UNCHANGED redkeys
    BY <2>1, <2>2, ObservedFrame
  <2>3. CASE Cached(redkeys) = Stored(redkeys) /\
             WriteRedkey(AggregatedStatus(Cached(redkeys), cluster.generation,
                                          selectActiveConfig(list)))
    <3>. DEFINE v == AggregatedStatus(Cached(redkeys), cluster.generation,
                                      selectActiveConfig(list))
    <3>1. list \in ConfigSets /\ list # {} /\ Cached(redkeys) \in RedkeyType
      BY <1>8, EndsType DEF AggregateStatus, TypeInv
    <3>2. v \in RedkeyType
      BY <3>1, ChosenConfigs, AggregatedStatusType, ObservedTypes
    <3>3. v.generation = Cached(redkeys).generation /\ v.observedGeneration = cluster.generation
      BY <3>1 DEF AggregatedStatus, RedkeyType
    <3>4. /\ cluster.generation <= Cached(redkeys).generation
          /\ Stored(redkeys).observedGeneration <= cluster.generation
      BY <2>1, ObservedTypes, FeedEnds DEF ObservedInv, ObservedBelow, Stored
    <3>. HIDE DEF v
    <3>5. WriteRedkey(v)
      BY <2>3 DEF v
    <3>6. Stored(redkeys).generation <= v.generation
      BY <2>3, <3>3, ObservedTypes
    <3>7. v.observedGeneration >= Stored(redkeys).observedGeneration
      BY <3>3, <3>4, ObservedTypes
    <3>. QED
      BY <2>1, <3>2, <3>3, <3>4, <3>5, <3>6, <3>7, ObservedWrite
  <2>. QED
    BY <2>2, <2>3, <1>8 DEF AggregateStatus
<1>9. CASE DeleteRobinDeployment
  BY <1>9, ObservedFrame DEF DeleteRobinDeployment, Goto
<1>10. CASE DeleteRBAC
  BY <1>10, ObservedFrame DEF DeleteRBAC, Return, Goto
<1>11. CASE ListAllConfigs
  BY <1>11, ObservedFrame DEF ListAllConfigs, AfterDelete, Goto, storeVars
<1>12. CASE DeleteAllConfigs
  BY <1>12, ObservedFrame DEF DeleteAllConfigs, AfterDelete, Goto
<1>13. CASE UpdateStatusScaledToZero
  <2>1. pc' = "idle" /\ pc # "idle"
    BY <1>13 DEF UpdateStatusScaledToZero, Return, Goto
  <2>2. CASE UNCHANGED redkeys
    BY <2>1, <2>2, ObservedFrame
  <2>3. CASE cluster = Stored(redkeys) /\
             WriteRedkey([cluster EXCEPT !.phase = "Ready", !.status = "",
                                         !.observedGeneration = cluster.generation])
    <3>. DEFINE v == [cluster EXCEPT !.phase = "Ready", !.status = "",
                                     !.observedGeneration = cluster.generation]
    <3>1. cluster \in RedkeyType
      BY DEF TypeInv
    <3>2. v \in RedkeyType /\ v.generation = cluster.generation
          /\ v.observedGeneration = cluster.generation
      BY <3>1 DEF RedkeyType, RedkeyPhases, ConfigStatuses
    <3>3. /\ cluster.generation <= Cached(redkeys).generation
          /\ Stored(redkeys).observedGeneration <= cluster.generation
      BY <2>1, ObservedTypes, FeedEnds DEF ObservedInv, ObservedBelow, Stored
    <3>. HIDE DEF v
    <3>4. WriteRedkey(v)
      BY <2>3 DEF v
    <3>5. Stored(redkeys).generation <= v.generation
      BY <2>3, <3>2, ObservedTypes
    <3>6. v.observedGeneration >= Stored(redkeys).observedGeneration
      BY <3>2, <3>3, ObservedTypes
    <3>. QED
      BY <2>1, <3>2, <3>3, <3>4, <3>5, <3>6, ObservedWrite
  <2>. QED
    BY <2>2, <2>3, <1>13 DEF UpdateStatusScaledToZero
<1>14. CASE ReconcileGone
  <2>1. UNCHANGED <<redkeys, pc, cluster>> /\ pc = "idle"
    BY <1>14 DEF ReconcileGone, vars
  <2>. QED
    BY <2>1, ObservedFrame
<1>. QED
  BY <1>1, <1>2, <1>3, <1>4, <1>5, <1>6, <1>7, <1>8, <1>9, <1>10, <1>11, <1>12, <1>13, <1>14
     DEF ReconcileStep

\* Every step.
LEMMA ObservedStep ==
  ASSUME TypeInv, TypeInv', ObservedInv, [Next]_vars
  PROVE  ObservedGoal
<1>0. redkeys \in Seq(RedkeyType) /\ redkeys # <<>>
  BY DEF TypeInv
<1>1. ASSUME NEW p \in Primaries, EditSpec(p) PROVE ObservedGoal
  <2>. DEFINE v == [Stored(redkeys) EXCEPT !.generation = @ + 1, !.primaries = p]
  <2>1. v \in RedkeyType
    BY PrimariesAssumption, EditedRedkeyType, EndsType
  <2>2. v.generation = Stored(redkeys).generation + 1
        /\ v.observedGeneration = Stored(redkeys).observedGeneration
    BY EndsType DEF RedkeyType
  <2>3. WriteRedkey(v) /\ UNCHANGED <<pc, cluster>>
    BY <1>1 DEF EditSpec, localVars
  <2>. HIDE DEF v
  <2>4. Stored(redkeys).generation <= v.generation
        /\ v.observedGeneration >= Stored(redkeys).observedGeneration
    BY <2>2, ObservedTypes
  <2>. QED
    BY <2>1, <2>2, <2>3, <2>4, ObservedWrite
<1>2. CASE DeliverRedkey
  <2>1. /\ Len(redkeys') = Len(redkeys) - 1
        /\ \A i \in 1..(Len(redkeys) - 1) : redkeys'[i] = redkeys[i + 1]
        /\ Stored(redkeys') = Stored(redkeys)
    BY <1>2, <1>0, DeliverFeed DEF DeliverRedkey
  <2>2. Len(redkeys) \in Nat
    BY <1>0
  <2>3. \A i \in 1..Len(redkeys') : i + 1 \in 1..Len(redkeys) /\ redkeys'[i] = redkeys[i + 1]
    BY <2>1, <2>2
  <2>4. UNCHANGED <<pc, cluster>>
    BY <1>2 DEF DeliverRedkey, localVars
  <2>. QED
    BY <2>1, <2>3, <2>4, ObservedSuffix
<1>3. CASE DeliverConfigs \/ \E o \in RobinObjects : DeliverRobin(o)
  BY <1>3, ObservedFrame DEF DeliverConfigs, DeliverRobin, localVars, storeVars
<1>4. CASE ReconcileStep
  BY <1>4, ObservedReconcileStep
<1>5. CASE ReconcileFails
  BY <1>5, ObservedFrame DEF ReconcileFails, Return, Goto, storeVars
<1>6. CASE Restart
  <2>. DEFINE k == Len(redkeys) - 1
  <2>1. Len(redkeys) \in Nat /\ Len(redkeys) > 0
    BY <1>0
  <2>2. redkeys' = <<redkeys[Len(redkeys)]>>
    BY <1>6 DEF Restart, Stored
  <2>3. k \in Nat /\ 1 + k = Len(redkeys)
    BY <2>1
  <2>4. Len(redkeys') = 1 /\ redkeys'[1] = redkeys[Len(redkeys)]
    BY <2>2
  <2>5. \A i \in 1..Len(redkeys') : i + k \in 1..Len(redkeys) /\ redkeys'[i] = redkeys[i + k]
    BY <2>1, <2>3, <2>4
  <2>6. Stored(redkeys') = Stored(redkeys) /\ pc' = "idle"
    BY <2>4, <1>6 DEF Stored, Restart, Return, Goto
  <2>. QED
    BY <2>3, <2>5, <2>6, ObservedSuffix
<1>7. ASSUME NEW c \in Stored(configs),
             RobinStarts(c) \/ RobinSupersedes(c) \/ RobinApplies(c) \/ RobinReports(c)
      PROVE  ObservedGoal
  <2>1. UNCHANGED <<redkeys, pc, cluster>>
    BY <1>7 DEF RobinStarts, RobinSupersedes, RobinApplies, RobinReports, RobinWrites, localVars
  <2>. QED
    BY <2>1, ObservedFrame
<1>8. CASE DeleteRedkey
  <2>. DEFINE v == [Stored(redkeys) EXCEPT !.deletion = "gone"]
  <2>1. v \in RedkeyType /\ v.generation = Stored(redkeys).generation
        /\ v.observedGeneration = Stored(redkeys).observedGeneration
    BY EndsType DEF RedkeyType
  <2>2. WriteRedkey(v) /\ UNCHANGED <<pc, cluster>>
    BY <1>8 DEF DeleteRedkey, localVars
  <2>. HIDE DEF v
  <2>3. Stored(redkeys).generation <= v.generation
        /\ v.observedGeneration >= Stored(redkeys).observedGeneration
    BY <2>1, ObservedTypes
  <2>. QED
    BY <2>1, <2>2, <2>3, ObservedWrite
<1>9. CASE Collect
  BY <1>9, ObservedFrame DEF Collect, CollectConfig, CollectRobin, localVars
<1>10. CASE UNCHANGED vars
  BY <1>10, ObservedFrame DEF vars
<1>. QED
  BY <1>1, <1>2, <1>3, <1>4, <1>5, <1>6, <1>7, <1>8, <1>9, <1>10
     DEF Next, Deliver, RobinActs, RobinStep

\* Initially.
LEMMA ObservedInit == Init => ObservedInv
<1>. SUFFICES ASSUME Init PROVE ObservedInv
  OBVIOUS
<1>1. PICK p \in Primaries : redkeys = <<NewRedkey(p)>>
  BY DEF Init
<1>2. Len(redkeys) = 1 /\ redkeys[1].generation = 1 /\ redkeys[1].observedGeneration = 0
  BY <1>1 DEF NewRedkey
<1>. QED
  BY <1>2 DEF Init, ObservedInv, GenerationsOrdered, ObservedBelow, Cached

\* observedGeneration never decreases: neither aggregateStatus, which puts the
\* generation a reconcile started with on a freshly fetched copy, nor the
\* scale-to-zero path ever overwrites a newer observation, however stale the
\* caches, whatever fails, and across restarts.
THEOREM ObservedMonotone == Spec => ObservedNeverGoesBack
<1>1. Init => TypeInv /\ ObservedInv
  BY TypeInit, ObservedInit
<1>2. TypeInv /\ ObservedInv /\ [Next]_vars => (TypeInv /\ ObservedInv)'
  BY TypeStep, ObservedStep DEF ObservedGoal
<1>3. TypeInv /\ TypeInv' /\ ObservedInv /\ [Next]_vars
      => [Stored(redkeys)'.observedGeneration >= Stored(redkeys).observedGeneration]_vars
  BY ObservedStep DEF ObservedGoal
<1>4. Spec => [](TypeInv /\ ObservedInv)
  BY <1>1, <1>2, PTL DEF Spec
<1>. QED
  BY <1>3, <1>4, PTL DEF Spec, ObservedNeverGoesBack
===============================================================================
