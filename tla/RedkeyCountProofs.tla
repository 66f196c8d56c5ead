--------------------------- MODULE RedkeyCountProofs ---------------------------
(***************************************************************************)
(* redkey_operation_total counts no operation twice: the status that is    *)
(* recorded comes through the configs and the Redkey in the order that     *)
(* RedkeyStatusProofs shows, under its hypothesis Steady.                  *)
(***************************************************************************)
EXTENDS RedkeyMetricsProofs, RedkeyStatusProofs

\* Tallies are numbers.
LEMMA TallyNat ==
  ASSUME CountTypes, NEW o \in Operations
  PROVE  Tally(o) \in Nat /\ begun[o] \in Nat /\ Reported(o) \in 0..1 /\ Carried(o) \in 0..1
<1>1. completed \in [Operations \X Results -> Nat] /\ begun \in [Operations -> Nat]
  BY Zenon DEF CountTypes
<1>2. \A x \in Results : <<o, x>> \in Operations \X Results
  OBVIOUS
<1>3. \A x \in Results : completed[<<o, x>>] \in Nat
  BY <1>1, <1>2
<1>4. Tally(o) \in Nat
  <2>1. /\ completed[<<o, "success">>] \in Nat /\ completed[<<o, "error">>] \in Nat
        /\ completed[<<o, "superseded">>] \in Nat
    BY <1>3 DEF Results
  <2>2. Tally(o) = completed[<<o, "success">>] + completed[<<o, "error">>]
                   + completed[<<o, "superseded">>]
    BY Zenon DEF Tally
  <2>. QED
    BY <2>1, <2>2
<1>. QED
  BY <1>1, <1>4, ShownBit DEF Reported, Carried

------------------------------------------------------------------------------
(* The status that is recorded. *)

\* Without lag, a running reconcile has the status that is stored, and the
\* Redkey was there when it started.
FreshInv ==
  RedkeyLag = 0 =>
    /\ Len(redkeys) = 1
    /\ pc # "idle" => cluster.status = Stored(redkeys).status /\ cluster.deletion # "gone"

\* Every step keeps FreshInv.
LEMMA FreshStep ==
  ASSUME TypeInv, FreshInv, [Next]_vars
  PROVE  FreshInv'
<1>. SUFFICES ASSUME RedkeyLag = 0
              PROVE  /\ Len(redkeys') = 1
                     /\ pc' # "idle" => /\ cluster'.status = Stored(redkeys').status
                                        /\ cluster'.deletion # "gone"
  BY DEF FreshInv
<1>0. /\ redkeys = <<redkeys[1]>> /\ Len(redkeys) = 1
      /\ Cached(redkeys) = Stored(redkeys)
      /\ pc # "idle" => cluster.status = Stored(redkeys).status /\ cluster.deletion # "gone"
  <2>1. redkeys \in Seq(RedkeyType)
    BY DEF TypeInv
  <2>2. /\ Len(redkeys) = 1
        /\ pc # "idle" => cluster.status = Stored(redkeys).status /\ cluster.deletion # "gone"
    BY DEF FreshInv
  <2>3. redkeys = <<redkeys[1]>> /\ Cached(redkeys) = Stored(redkeys)
    BY <2>1, <2>2 DEF Cached, Stored
  <2>. QED
    BY <2>2, <2>3
<1>1. Len(redkeys') = 1
  <2>1. CASE Ordinary
    <3>1. Fed(redkeys, redkeys', 0)
      BY <2>1, RedkeysFed
    <3>2. ASSUME NEW v, redkeys' = Publish(redkeys, v, 0) PROVE Len(redkeys') = 1
      <4>1. redkeys' = <<v>>
        BY <3>2, <1>0, PublishNoLag
      <4>. QED
        BY <4>1
    <3>. QED
      BY <3>1, <3>2, <1>0 DEF Fed
  <2>2. CASE Restart
    BY <2>2 DEF Restart
  <2>3. CASE UNCHANGED vars
    BY <2>3, <1>0 DEF vars
  <2>. QED
    BY <2>1, <2>2, <2>3 DEF Next, Ordinary
<1>2. ASSUME pc' # "idle"
      PROVE  cluster'.status = Stored(redkeys').status /\ cluster'.deletion # "gone"
  <2>1. ~StatusWritten /\ ~ScaledToZeroWritten
    BY <1>2 DEF StatusWritten, ScaledToZeroWritten, Return, Goto
  <2>2. Stored(redkeys').status = Stored(redkeys).status
    BY <2>1, StatusStep DEF SpecEdited, RedkeyDeleted
  <2>3. CASE pc # "idle" /\ cluster' = cluster
    BY <2>2, <2>3, <1>0
  <2>4. CASE cluster' = Cached(redkeys) /\ Exists(Cached(redkeys)) /\ UNCHANGED redkeys
    BY <2>4, <1>0 DEF Exists
  <2>. QED
    BY <1>2, <2>3, <2>4, LocalStep
<1>. QED
  BY <1>1, <1>2

\* What a step does to the feed of the configs, as a list of versions.
LEMMA ConfigsShape ==
  ASSUME TypeInv, [Next]_vars
  PROVE  \E k \in Nat : \A i \in 1..(Len(configs') - 1) :
           i + k \in 1..Len(configs) /\ configs'[i] = configs[i + k]
<1>0. configs \in Seq(ConfigSets) /\ configs # <<>> /\ ConfigLag \in Nat
      /\ Len(configs) \in Nat /\ Len(configs) > 0
  BY BoundsAssumption DEF TypeInv
<1>1. CASE configs' = configs
  <2>1. \A i \in 1..(Len(configs') - 1) : i + 0 \in 1..Len(configs) /\ configs'[i] = configs[i + 0]
    BY <1>0, <1>1
  <2>. QED
    BY <2>1
<1>2. CASE Len(configs) > 1 /\ configs' = Tail(configs)
  <2>1. /\ Len(configs') = Len(configs) - 1
        /\ \A i \in 1..(Len(configs) - 1) : configs'[i] = configs[i + 1]
    BY <1>0, <1>2, DeliverFeed
  <2>2. \A i \in 1..(Len(configs') - 1) : i + 1 \in 1..Len(configs) /\ configs'[i] = configs[i + 1]
    BY <1>0, <2>1
  <2>. QED
    BY <2>2, Zenon
<1>3. ASSUME NEW v, configs' = Publish(configs, v, ConfigLag)
      PROVE  \E k \in Nat : \A i \in 1..(Len(configs') - 1) :
               i + k \in 1..Len(configs) /\ configs'[i] = configs[i + k]
  <2>. DEFINE T == ConfigSets \cup {v}
              g == configs'
  <2>1. configs \in Seq(T) /\ v \in T
    BY <1>0
  <2>. HIDE DEF T
  <2>2. /\ g \in Seq(T)
        /\ \E k \in {0, 1} : \A i \in 1..Len(g) :
             \/ g[i] = v /\ i = Len(g)
             \/ i + k \in 1..Len(configs) /\ g[i] = configs[i + k]
    BY <1>0, <1>3, <2>1, PublishFeed
  <2>3. Len(g) \in Nat
    BY <2>2
  <2>4. \A i \in 1..(Len(g) - 1) : i \in 1..Len(g) /\ i # Len(g)
    BY <2>3
  <2>. HIDE DEF g
  <2>5. \E k \in Nat : \A i \in 1..(Len(g) - 1) :
               i + k \in 1..Len(configs) /\ g[i] = configs[i + k]
    BY <2>2, <2>4, Zenon
  <2>. QED
    BY <2>5, Zenon DEF g
<1>4. CASE Restart
  <2>1. Len(configs') = 1
    BY <1>4 DEF Restart
  <2>2. \A i \in 1..(Len(configs') - 1) : i + 0 \in 1..Len(configs) /\ configs'[i] = configs[i + 0]
    BY <2>1
  <2>. QED
    BY <2>2
<1>5. CASE Ordinary
  BY <1>1, <1>2, <1>3, <1>5, ConfigsFed DEF Fed
<1>6. CASE UNCHANGED vars
  BY <1>1, <1>6 DEF vars
<1>. QED
  BY <1>4, <1>5, <1>6, Zenon DEF Next, Ordinary

\* Without scale-to-zero the operator never sees the configs disappear.
LEMMA CachedNotEmptied ==
  ASSUME Going, 0 \notin Primaries, [Next]_vars, Cached(configs') = {}
  PROVE  Cached(configs) = {}
<1>1. /\ configs' \in Seq(ConfigSets) /\ configs' # <<>>
      /\ \A X : Follows(X, {}) => X = {}
  BY GoingFacts DEF Follows
<1>2. CASE Len(configs') # 1
  <2>1. PICK k \in Nat : \A i \in 1..(Len(configs') - 1) :
                           i + k \in 1..Len(configs) /\ configs'[i] = configs[i + k]
    BY ConfigsShape DEF Going
  <2>2. 1 \in 1..(Len(configs') - 1)
    <3>. DEFINE n == Len(configs')
    <3>1. n \in Nat /\ n # 0 /\ n # 1
      BY <1>1, <1>2, FeedEnds
    <3>. HIDE DEF n
    <3>2. 1 \in 1..(n - 1)
      BY <3>1
    <3>. QED
      BY <3>2 DEF n
  <2>3. 1 + k \in 1..Len(configs) /\ configs[1 + k] = {}
    BY <2>1, <2>2 DEF Cached
  <2>4. Follows(Cached(configs), configs[1 + k])
    BY <2>3, GoingFacts, Zenon
  <2>. QED
    BY <2>3, <2>4, <1>1
<1>3. CASE Len(configs') = 1
  <2>1. Stored(configs') = {}
    BY <1>3 DEF Cached, Stored
  <2>2. ~Created /\ ~Cleaned /\ ~Emptied
    BY <2>1 DEF Created, Cleaned, Emptied
  <2>3. ~Moved
    <3>. SUFFICES ASSUME NEW c \in Stored(configs),
                         RobinStarts(c) \/ RobinSupersedes(c) \/ RobinApplies(c) \/ RobinReports(c)
                  PROVE  FALSE
      BY DEF Moved
    <3>1. Evolves(Stored(configs), Stored(configs'))
      BY ConfigsRobin
    <3>. QED
      BY <3>1, <2>1 DEF Evolves
  <2>4. Stored(configs) = {}
    BY <2>1, <2>2, <2>3, StoredStep
  <2>5. Follows(Cached(configs), Stored(configs))
    BY GoingFacts
  <2>. QED
    BY <2>4, <2>5, <1>1
<1>. QED
  BY <1>2, <1>3

\* Without scale-to-zero no operation is reported before the operator has seen a
\* config.
EmptyInv ==
  Alive /\ 0 \notin Primaries /\ Cached(configs) = {}
  => \A r \in Copies : r.status \notin Operations

\* Every step keeps EmptyInv.
LEMMA EmptyStep ==
  ASSUME Going, EmptyInv, [Next]_vars
  PROVE  EmptyInv'
<1>. SUFFICES ASSUME Alive', 0 \notin Primaries, Cached(configs') = {}
              PROVE  \A r \in Copies' : r.status \notin Operations
  BY DEF EmptyInv
<1>1. Cached(configs) = {}
  BY CachedNotEmptied
<1>2. \A r \in Copies : r.status \notin Operations
  BY <1>1 DEF EmptyInv, Going
<1>3. ~RedkeyDeleted
  BY DEF RedkeyDeleted
<1>4. /\ Copies' \subseteq Copies \cup {Stored(redkeys')}
      /\ Stored(redkeys) \in Copies
  BY <1>3, RedkeyStep, CopiesAfter DEF Going
<1>5. ~StatusWritten
  <2>. SUFFICES ASSUME pc = "aggregateStatus" PROVE FALSE
    BY DEF StatusWritten
  <2>1. list # {} /\ ListInv
    BY DEF Going, TypeInv, PipelineInv
  <2>2. 1 \in 1..Len(configs) /\ Cached(configs) = configs[1]
    BY GoingFacts
  <2>3. Follows(list, Cached(configs))
    BY <2>1, <2>2 DEF ListInv
  <2>. QED
    BY <2>1, <2>3, <1>1 DEF Follows
<1>6. Stored(redkeys').status = Stored(redkeys).status \/ ScaledToZeroWritten
  BY <1>3, <1>5, StatusStep DEF Going, SpecEdited
<1>7. Stored(redkeys').status \notin Operations
  BY <1>2, <1>4, <1>6 DEF ScaledToZeroWritten
<1>. QED
  BY <1>2, <1>4, <1>7

\* What the counters rest on.  A reconcile that was under way when the Redkey was
\* deleted may record a stale status once more, if the Redkey informer lags.
CountInv ==
  /\ CountTypes /\ FreshInv /\ EmptyInv
  /\ Alive \/ RedkeyLag = 0 =>
       /\ operation \in Operations => operation = Stored(redkeys).status
       /\ \A o \in Operations : Tally(o) + Reported(o) <= begun[o]
  /\ Alive =>
       /\ AtWork
       /\ \A o \in Operations :
            Tracks(o, configs, Reported(o), Carried(o), Tally(o), begun[o])

\* What a step may do to the count of operation o: nothing, or with a status
\* update count the operation that the Redkey reported and reports no more.
CountStep(o) ==
  \/ Tally(o)' = Tally(o) /\ Reported(o)' = Reported(o)
  \/ /\ Alive /\ Alive' /\ (StatusWritten \/ ScaledToZeroWritten)
     /\ \/ Tally(o)' = Tally(o)
        \/ Tally(o)' = Tally(o) + 1 /\ Reported(o) = 1 /\ Reported(o)' = 0

\* Recording keeps the tracked operation what the Redkey reports.
LEMMA CountedStatus ==
  ASSUME Steady, Inv, CountInv, [MetricsNext]_allVars, Alive' \/ RedkeyLag = 0
  PROVE  /\ operation' \in Operations \cup {""}
         /\ completed' \in [Operations \X Results -> Nat]
         /\ operation' \in Operations => operation' = Stored(redkeys').status
         /\ \A o \in Operations : CountStep(o)
<1>. DEFINE none == ""
            s == Stored(redkeys).status
            t == Stored(redkeys').status
<1>0. /\ TypeInv /\ [Next]_vars /\ CountTypes /\ none \notin Operations
      /\ operation \in Operations \cup {none} /\ completed \in [Operations \X Results -> Nat]
  BY MetricsStep, QueueStep, Zenon DEF Inv, CountInv, CountTypes, Operations
<1>. HIDE DEF none
<1>1. Alive' => Alive
  BY <1>0, RedkeyStep, Zenon DEF SpecKept, SpecEdited, RedkeyDeleted, Alive
<1>2. operation \in Operations => operation = s
  BY <1>1 DEF CountInv
<1>3. CASE RecordsNothing
  <2>1. t = s /\ operation' \in {operation, none} /\ completed' = completed
    BY <1>3, Zenon DEF RecordsNothing, none
  <2>. HIDE DEF s, t
  <2>2. /\ operation' \in Operations \cup {none} /\ completed' \in [Operations \X Results -> Nat]
        /\ operation' \in Operations => operation' = t
    BY <2>1, <1>0, <1>2
  <2>3. \A o \in Operations : Tally(o)' = Tally(o) /\ Reported(o)' = Reported(o)
    BY <2>1 DEF Tally, Reported, s, t
  <2>. QED
    BY <2>2, <2>3, Zenon DEF CountStep, none, t
<1>4. ASSUME NEW u, NEW phase, observe(u, phase), t = s,
             u = s \/ (u \notin Operations /\ s \notin Operations)
      PROVE  /\ operation' \in Operations \cup {none}
             /\ completed' \in [Operations \X Results -> Nat]
             /\ operation' \in Operations => operation' = t
             /\ \A o \in Operations : CountStep(o)
  <2>1. /\ operation' \in Operations \cup {none}
        /\ operation' \in Operations => operation' = u
        /\ completed' \in [Operations \X Results -> Nat]
        /\ \A o \in Operations :
             Tally(o)' = IF operation = o /\ u # o THEN Tally(o) + 1 ELSE Tally(o)
    BY <1>0, <1>4, ObserveCounts, Zenon DEF none
  <2>2. operation' \in Operations => operation' = t
    BY <2>1, <1>4
  <2>3. \A o \in Operations : ~(operation = o /\ u # o)
    BY <1>2, <1>4
  <2>4. \A o \in Operations : Tally(o)' = Tally(o) /\ Reported(o)' = Reported(o)
    BY <2>1, <2>3, <1>4 DEF Reported
  <2>. QED
    BY <2>1, <2>2, <2>4 DEF CountStep
<1>5. CASE RecordsStarted
  <2>1. PICK phase : observe(cluster.status, phase)
    BY <1>5 DEF RecordsStarted
  <2>2. t = s /\ pc # "idle" /\ (pc = "createZeroConfig" \/ (ListConfigs /\ pc' = "idle"))
    BY <1>5 DEF RecordsStarted, ListConfigs
  <2>3. CASE RedkeyLag = 0
    <3>1. cluster.status = s
      BY <2>2, <2>3 DEF CountInv, FreshInv
    <3>. QED
      BY <2>1, <2>2, <3>1, <1>4, Zenon DEF none
  <2>4. CASE RedkeyLag # 0
    <3>1. Alive /\ 0 \notin Primaries /\ CopiesInv /\ ControlInv
      BY <2>4, <1>1 DEF Steady, Inv, PipelineInv
    <3>2. cluster \in Copies /\ Stored(redkeys) \in Copies
      BY <2>2, <1>0, FeedVersions DEF Copies, TypeInv
    <3>3. cluster.primaries # 0
      BY <3>1, <3>2 DEF CopiesInv
    <3>4. ListConfigs /\ pc' = "idle"
      BY <2>2, <3>1, <3>3 DEF ControlInv
    <3>5. Cached(configs) = {}
      BY <3>4 DEF ListConfigs, AfterList, Goto
    <3>6. cluster.status \notin Operations /\ s \notin Operations
      BY <3>1, <3>2, <3>5 DEF CountInv, EmptyInv
    <3>. QED
      BY <2>1, <2>2, <3>6, <1>4, Zenon DEF none
  <2>. QED
    BY <2>3, <2>4, Zenon
<1>6. CASE RecordsWritten
  <2>1. PICK phase : observe(t, phase)
    BY <1>6 DEF RecordsWritten
  <2>2. CASE UNCHANGED redkeys
    BY <2>1, <2>2, <1>4, Zenon DEF none
  <2>3. CASE StatusWritten \/ ScaledToZeroWritten
    <3>1. Alive /\ Alive'
      <4>1. SpecKept
        BY <1>6 DEF RecordsWritten
      <4>2. Alive' = Alive
        BY <4>1, Zenon DEF SpecKept, Alive
      <4>3. Stored(redkeys).deletion = "gone" \/ Alive
        BY DEF Inv, PipelineInv
      <4>4. CASE RedkeyLag = 0
        BY <2>3, <4>2, <4>3, <4>4, Zenon DEF StatusWritten, ScaledToZeroWritten, CountInv, FreshInv
      <4>. QED
        BY <4>2, <4>4
    <3>2. /\ operation' \in Operations \cup {none}
          /\ operation' \in Operations => operation' = t
          /\ completed' \in [Operations \X Results -> Nat]
          /\ \A o \in Operations :
               Tally(o)' = IF operation = o /\ t # o THEN Tally(o) + 1 ELSE Tally(o)
      BY <1>0, <2>1, ObserveCounts, Zenon DEF none
    <3>3. ASSUME NEW o \in Operations, operation = o, t # o
          PROVE  Reported(o) = 1 /\ Reported(o)' = 0
      BY <3>3, <1>2 DEF Reported
    <3>4. \A o \in Operations : CountStep(o)
      BY <2>3, <3>1, <3>2, <3>3 DEF CountStep
    <3>. QED
      BY <3>2, <3>4, Zenon DEF none
  <2>. QED
    BY <1>6, <2>2, <2>3, Zenon DEF RecordsWritten
<1>. QED
  BY <1>0, <1>3, <1>5, <1>6, RecordStep, Zenon

\* What a reconcile and its status updates do, seen along the feed as it was.
LEMMA TracksLocal ==
  ASSUME Going, AtWork, CountTypes, [Next]_vars, NEW o \in Operations, CountStep(o),
         NEW u \in Nat, u = Tally(o)',
         Tracks(o, configs, Reported(o), Carried(o), Tally(o), begun[o])
  PROVE  Tracks(o, configs, Reported(o)', Carried(o)', u, begun[o])
<1>. DEFINE a == Reported(o)
            b == Carried(o)
            t == Tally(o)
            n == begun[o]
            x == Reported(o)'
            y == Carried(o)'
<1>0. /\ configs \in Seq(ConfigSets) /\ configs # <<>>
      /\ a \in 0..1 /\ b \in 0..1 /\ t \in Nat /\ n \in Nat
      /\ Tracks(o, configs, a, b, t, n)
  BY GoingFacts, TallyNat
<1>1. y = x \/ y = Shown(Cached(configs), o) \/ y = b
  BY CarriedStep
<1>2. CASE u = t /\ x = a
  <2>1. Tracks(o, configs, a, a, t, n) /\ Tracks(o, configs, a, Shown(Cached(configs), o), t, n)
    <3>. HIDE DEF a, b, t, n
    <3>. QED
      BY <1>0, TracksRead
  <2>. QED
    BY <2>1, <1>0, <1>1, <1>2
<1>3. ASSUME StatusWritten \/ ScaledToZeroWritten, u = t \/ (u = t + 1 /\ a = 1 /\ x = 0)
      PROVE  Tracks(o, configs, x, y, u, n)
  <2>1. pc' = "idle"
    BY <1>3, Zenon DEF StatusWritten, ScaledToZeroWritten, Return, Goto
  <2>2. y = x
    BY <2>1 DEF Carried, Carries
  <2>3. CASE StatusWritten
    <3>1. x = IF selectActiveConfig(list).status = o THEN 1 ELSE 0
      BY <2>3, Zenon DEF StatusWritten, Reported
    <3>2. b = x
      BY <2>3, <3>1, AggregatedShown DEF StatusWritten
    <3>3. u <= t \/ (u <= t + 1 /\ a = 1 /\ b = 0)
      BY <1>0, <1>3, <3>2
    <3>4. Tracks(o, configs, b, b, u, n)
      <4>. HIDE DEF a, b, t, n
      <4>. QED
        BY <1>0, <3>3, TracksWrite, Zenon
    <3>. QED
      BY <2>2, <3>2, <3>4
  <2>4. CASE ScaledToZeroWritten
    <3>1. x = 0
      BY <2>4 DEF ScaledToZeroWritten, Reported
    <3>2. pc = "updateStatusScaledToZero" /\ cluster.primaries = 0 /\ CopiesInv /\ ZeroInv
      BY <2>4, GoingFacts, Zenon DEF ScaledToZeroWritten, ControlInv
    <3>3. 0 \in Primaries
      BY <3>2 DEF CopiesInv, Copies
    <3>4. configs = <<Stored(configs)>> /\ Unfinished(Stored(configs)) = {}
      BY <3>2, <3>3, NoLag DEF ZeroInv
    <3>5. \A c \in Stored(configs) : c.status # o
      BY <3>3, <3>4, Zenon DEF AtWork, Unfinished, isTerminalConfigPhase
    <3>6. Shown(Stored(configs), o) = 0
      BY <3>5 DEF Shown, Active
    <3>7. Len(configs) = 1 /\ configs[1] = Stored(configs)
      BY <3>3, NoLag DEF Stored
    <3>8. \A i \in 1..Len(configs) : Shown(configs[i], o) = 0
      BY <3>6, <3>7
    <3>9. u <= t \/ (u <= t + 1 /\ a = 1)
      BY <1>0, <1>3
    <3>10. Tracks(o, configs, 0, 0, u, n)
      <4>. HIDE DEF a, b, t, n
      <4>. QED
        BY <1>0, <3>8, <3>9, TracksZero, Zenon
    <3>. QED
      BY <2>2, <3>1, <3>10
  <2>. QED
    BY <1>3, <2>3, <2>4
<1>. QED
  BY <1>2, <1>3 DEF CountStep

\* What Robin, the informer and the operator do to the configs.
LEMMA TracksAlong ==
  ASSUME Going, Steady, AtWork, AtWork', CountTypes, [MetricsNext]_allVars,
         NEW o \in Operations, NEW a \in 0..1, NEW b \in 0..1, NEW t \in Nat,
         Tracks(o, configs, a, b, t, begun[o])
  PROVE  Tracks(o, configs', a, b, t, begun'[o])
<1>0. /\ configs \in Seq(ConfigSets) /\ configs # <<>>
      /\ configs' \in Seq(ConfigSets) /\ configs' # <<>>
      /\ TypeInv /\ [Next]_vars
  BY GoingFacts, MetricsStep, QueueStep DEF Going
<1>1. PICK k \in Nat : \A i \in 1..(Len(configs') - 1) :
                         i + k \in 1..Len(configs) /\ configs'[i] = configs[i + k]
  BY <1>0, ConfigsShape
<1>. DEFINE n == begun[o]
            m == begun'[o]
            p == Shown(Stored(configs), o)
            q == Shown(Stored(configs'), o)
            g == configs'
<1>2. n \in Nat /\ m \in Nat /\ n <= m /\ p \in 0..1 /\ q \in 0..1
  BY BegunChange, ShownBit, Zenon DEF CountTypes
<1>3. q <= p \/ m = n + 1
  BY <1>0, ShownBegins, BegunChange
<1>4. n + q - p <= m
  <2>. HIDE DEF n, m, p, q
  <2>. QED
    BY <1>2, <1>3
<1>5. /\ g \in Seq(ConfigSets) /\ g # <<>>
      /\ \A i \in 1..(Len(g) - 1) : i + k \in 1..Len(configs) /\ g[i] = configs[i + k]
      /\ n + Shown(Stored(g), o) - Shown(Stored(configs), o) <= m
      /\ Tracks(o, configs, a, b, t, n)
  BY <1>0, <1>1, <1>4
<1>. HIDE DEF n, m, g
<1>6. Tracks(o, g, a, b, t, m)
  BY <1>0, <1>2, <1>5, TracksFeed, Zenon
<1>. QED
  BY <1>6 DEF m, g

\* The types of what is counted.
LEMMA CountTypesStep ==
  ASSUME TypeInv, CountTypes, [MetricsNext]_allVars
  PROVE  CountTypes'
<1>1. begun' \in [Operations -> Nat]
  BY BegunChange
<1>2. operation' \in Operations \cup {""} /\ completed' \in [Operations \X Results -> Nat]
  <2>1. CASE RecordsNothing
    BY <2>1, Zenon DEF RecordsNothing, CountTypes
  <2>2. CASE RecordsStarted
    BY <2>2, ObserveCounts, Zenon DEF RecordsStarted
  <2>3. CASE RecordsWritten
    BY <2>3, ObserveCounts, Zenon DEF RecordsWritten
  <2>. QED
    BY <2>1, <2>2, <2>3, RecordStep, Zenon
<1>. QED
  BY <1>1, <1>2, Zenon DEF CountTypes

\* Every step keeps CountInv.
LEMMA CountInvStep ==
  ASSUME Steady, Inv, Inv', CountInv, [MetricsNext]_allVars
  PROVE  CountInv'
<1>0. [Next]_vars /\ TypeInv /\ Regime
  BY MetricsStep, QueueStep DEF Inv, Steady, Regime
<1>1. CountTypes /\ CountTypes'
  BY <1>0, CountTypesStep DEF CountInv
<1>2. FreshInv'
  BY <1>0, FreshStep DEF CountInv
<1>3. Alive' => Alive
  BY <1>0, RedkeyStep, Zenon DEF SpecKept, SpecEdited, RedkeyDeleted, Alive
<1>4. ASSUME Alive PROVE Going /\ AtWork /\ AtWork'
  BY <1>0, <1>4, StepGoing, AtWorkStep, Zenon DEF CountInv
<1>5. EmptyInv'
  <2>1. CASE Alive'
    BY <2>1, <1>0, <1>3, <1>4, EmptyStep, Zenon DEF CountInv
  <2>2. CASE ~Alive'
    BY <2>2 DEF EmptyInv
  <2>. QED
    BY <2>1, <2>2
<1>6. ASSUME Alive' \/ RedkeyLag = 0
      PROVE  /\ operation' \in Operations => operation' = Stored(redkeys').status
             /\ \A o \in Operations : CountStep(o)
  BY <1>6, CountedStatus, Zenon
<1>7. ASSUME NEW o \in Operations
      PROVE  /\ Tally(o) \in Nat /\ Tally(o)' \in Nat
             /\ Reported(o) \in 0..1 /\ Reported(o)' \in 0..1
             /\ Carried(o) \in 0..1 /\ Carried(o)' \in 0..1
             /\ begun[o] \in Nat /\ begun'[o] \in Nat /\ begun[o] <= begun'[o]
  <2>1. CountTypes => Tally(o) \in Nat /\ begun[o] \in Nat /\ Reported(o) \in 0..1
                      /\ Carried(o) \in 0..1
    BY TallyNat
  <2>2. (CountTypes => Tally(o) \in Nat /\ begun[o] \in Nat /\ Reported(o) \in 0..1
                       /\ Carried(o) \in 0..1)'
    BY TallyNat, PTL
  <2>. QED
    BY <2>1, <2>2, <1>1, BegunChange
<1>8. ASSUME Alive', NEW o \in Operations
      PROVE  Tracks(o, configs', Reported(o)', Carried(o)', Tally(o)', begun'[o])
  <2>1. Tracks(o, configs, Reported(o), Carried(o), Tally(o), begun[o])
    BY <1>3, <1>8 DEF CountInv
  <2>. DEFINE u == Tally(o)'
              x == Reported(o)'
              y == Carried(o)'
  <2>2. u \in Nat /\ x \in 0..1 /\ y \in 0..1
    BY <1>7
  <2>3. Tracks(o, configs, x, y, u, begun[o])
    BY <2>1, <2>2, <1>0, <1>1, <1>3, <1>4, <1>6, <1>8, TracksLocal
  <2>4. Going /\ AtWork /\ AtWork'
    BY <1>3, <1>4, <1>8
  <2>. HIDE DEF u, x, y
  <2>5. Tracks(o, configs', x, y, u, begun'[o])
    BY <2>2, <2>3, <2>4, <1>1, TracksAlong
  <2>. QED
    BY <2>5 DEF u, x, y
<1>9. ASSUME Alive' \/ RedkeyLag = 0, NEW o \in Operations
      PROVE  Tally(o)' + Reported(o)' <= begun'[o]
  <2>1. CASE Tally(o)' = Tally(o) /\ Reported(o)' = Reported(o)
    <3>1. Tally(o) + Reported(o) <= begun[o]
      BY <1>3, <1>9 DEF CountInv
    <3>2. /\ Tally(o) \in Nat /\ Reported(o) \in 0..1
          /\ begun[o] \in Nat /\ begun'[o] \in Nat /\ begun[o] <= begun'[o]
      BY <1>7
    <3>. QED
      BY <3>1, <3>2, <2>1
  <2>2. CASE Alive'
    <3>. DEFINE u == Tally(o)'
                x == Reported(o)'
                y == Carried(o)'
                m == begun'[o]
                g == configs'
    <3>1. u \in Nat /\ x \in 0..1 /\ y \in 0..1 /\ m \in Nat
      BY <1>7
    <3>2. Tracks(o, g, x, y, u, m)
      BY <2>2, <1>8
    <3>3. g \in Seq(ConfigSets) /\ g # <<>>
      BY DEF Inv, TypeInv
    <3>. HIDE DEF u, x, y, m, g
    <3>4. u + x <= m
      BY <3>1, <3>2, <3>3, TracksCounts, Zenon
    <3>. QED
      BY <3>4 DEF u, x, m
  <2>. QED
    BY <2>1, <2>2, <1>6, <1>9 DEF CountStep
<1>. QED
  BY <1>1, <1>2, <1>3, <1>4, <1>5, <1>6, <1>8, <1>9, Zenon DEF CountInv

\* Initially nothing has begun and nothing is counted.
LEMMA CountInvInit == MetricsInit => CountInv
<1>. SUFFICES ASSUME MetricsInit PROVE CountInv
  OBVIOUS
<1>. DEFINE none == ""
<1>1. PICK p \in Primaries : redkeys = <<NewRedkey(p)>>
  BY DEF MetricsInit, QueueInit, Init
<1>2. /\ configs = <<{}>> /\ pc = "idle" /\ list = {} /\ operation = none
      /\ completed = [o \in Operations \X Results |-> 0] /\ begun = [o \in Operations |-> 0]
  BY Zenon DEF MetricsInit, NoMetrics, QueueInit, Init
<1>3. none \notin Operations /\ NewRedkey(p).status = none
  BY Zenon DEF Operations, NewRedkey
<1>. HIDE DEF none
<1>4. /\ Len(redkeys) = 1 /\ Stored(redkeys) = NewRedkey(p) /\ redkeys[1] = NewRedkey(p)
      /\ Len(configs) = 1 /\ Stored(configs) = {} /\ configs[1] = {}
  BY <1>1, <1>2 DEF Stored
<1>5. CountTypes
  <2>1. /\ operation \in Operations \cup {none} /\ completed \in [Operations \X Results -> Nat]
        /\ begun \in [Operations -> Nat]
    BY <1>2
  <2>. QED
    BY <2>1, Zenon DEF CountTypes, none
<1>6. FreshInv
  BY <1>2, <1>4 DEF FreshInv
<1>7. EmptyInv
  <2>1. Copies = {NewRedkey(p)}
    BY <1>2, <1>4 DEF Copies, Versions
  <2>. QED
    BY <2>1, <1>3 DEF EmptyInv
<1>8. AtWork
  BY <1>2, <1>4 DEF AtWork
<1>9. ASSUME NEW o \in Operations
      PROVE  Tally(o) = 0 /\ Reported(o) = 0 /\ Carried(o) = 0 /\ begun[o] = 0
  <2>1. Reported(o) = 0 /\ Carried(o) = 0
    BY <1>2, <1>3, <1>4 DEF Reported, Carried, Carries
  <2>2. \A x \in Results : completed[<<o, x>>] = 0
    BY <1>2
  <2>3. /\ completed[<<o, "success">>] = 0 /\ completed[<<o, "error">>] = 0
        /\ completed[<<o, "superseded">>] = 0
    BY <2>2 DEF Results
  <2>4. Tally(o) = completed[<<o, "success">>] + completed[<<o, "error">>]
                   + completed[<<o, "superseded">>]
    BY Zenon DEF Tally
  <2>5. Tally(o) = 0
    BY <2>3, <2>4
  <2>. QED
    BY <2>1, <2>5, <1>2
<1>10. ASSUME NEW o \in Operations PROVE Tracks(o, configs, 0, 0, 0, 0)
  <2>1. Shown(configs[1], o) = 0
    BY <1>4 DEF Shown, Active
  <2>2. \A i \in 1..Len(configs) : i = 1 /\ Shown(configs[i], o) = 0
    BY <2>1, <1>4
  <2>. DEFINE lf == [i \in 1..Len(configs) |-> 0]
  <2>3. lf \in [1..Len(configs) -> Nat] /\ \A i \in 1..Len(configs) : lf[i] = 0
    OBVIOUS
  <2>4. lf[Len(configs)] = 0
    BY <2>3, <1>4
  <2>. HIDE DEF lf
  <2>. QED
    BY <2>2, <2>3, <2>4 DEF Tracks
<1>11. \A o \in Operations : /\ Tally(o) + Reported(o) <= begun[o]
                             /\ Tracks(o, configs, Reported(o), Carried(o), Tally(o), begun[o])
  BY <1>9, <1>10
<1>. QED
  BY <1>2, <1>3, <1>5, <1>6, <1>7, <1>8, <1>11, Zenon DEF CountInv

------------------------------------------------------------------------------
(* The theorem. *)

\* As long as the Redkey is not deleted, or its informer does not lag,
\* redkey_operation_total counts no operation that Robin did not begin, and none
\* twice (observe, and the two calls of recordRedkeyMetrics in Reconcile).
THEOREM CountedOnceUntilDeleted ==
  Steady /\ MetricsSpec => [](Alive \/ RedkeyLag = 0 => CountedOnce)
<1>. SUFFICES ASSUME Steady PROVE MetricsSpec => [](Alive \/ RedkeyLag = 0 => CountedOnce)
  OBVIOUS
<1>1. Regime
  BY DEF Steady, Regime
<1>2. MetricsSpec => []Inv
  BY <1>1, MetricsImplement, QueueImplements, PipelineInductive, PTL
<1>3. MetricsInit => CountInv
  BY CountInvInit
<1>4. Inv /\ Inv' /\ CountInv /\ [MetricsNext]_allVars => CountInv'
  BY CountInvStep
<1>5. CountInv => (Alive \/ RedkeyLag = 0 => CountedOnce)
  <2>. SUFFICES ASSUME CountInv, Alive \/ RedkeyLag = 0, NEW o \in Operations
                PROVE  Tally(o) + (IF operation = o THEN 1 ELSE 0) <= begun[o]
    BY Zenon DEF CountedOnce, Tally
  <2>1. /\ Tally(o) \in Nat /\ begun[o] \in Nat /\ Reported(o) \in 0..1
        /\ Tally(o) + Reported(o) <= begun[o]
    BY TallyNat DEF CountInv
  <2>2. operation = o => Reported(o) = 1
    BY DEF CountInv, Reported
  <2>. QED
    BY <2>1, <2>2
<1>. QED
  BY <1>2, <1>3, <1>4, <1>5, PTL DEF MetricsSpec
==============================================================================
