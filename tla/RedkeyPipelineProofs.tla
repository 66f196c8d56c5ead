------------------------- MODULE RedkeyPipelineProofs -------------------------
(***************************************************************************)
(* Why the generations of a Redkey are applied in order although the       *)
(* operator decides on stale lists.  Proved for any topologies, bounds and *)
(* faults, and in one of two regimes: the cluster is never scaled to zero, *)
(* and then the informers may lag by any number of versions; or the        *)
(* RedkeyConfig informer does not lag, and then the cluster may be scaled  *)
(* to zero and back and the Redkey informer may lag.  With both at once a  *)
(* list can be empty while a config is stored: the sequences start again   *)
(* below it and the order is lost (see also run RobinRemovedAtWork).       *)
(***************************************************************************)
EXTENDS RedkeyReconcilerProofs

Regime == 0 \notin Primaries \/ ConfigLag = 0

------------------------------------------------------------------------------
(* The invariant. *)

\* A list of configs: sequences count from 1 and follow the generations, and
\* what is below a config that Robin has taken up is done.
WellFormed(X) ==
  /\ \A c \in X : c.sequence >= 1 /\ c.primaries \in Primaries
  /\ \A c, d \in X : /\ c.sequence = d.sequence => c = d
                     /\ c.sequence < d.sequence => c.generation < d.generation
                     /\ c.sequence < d.sequence /\ d.configPhase \in {"InProgress", "Applied"}
                        => isTerminalConfigPhase(c.configPhase)

\* Config c, seen again later as d: the snapshot is immutable, done is done.
SameWork(c, d) ==
  /\ c.generation = d.generation /\ c.primaries = d.primaries
  /\ isTerminalConfigPhase(c.configPhase) => d.configPhase = c.configPhase

\* Y is a later version than X: it reaches at least as far, has the same
\* configs under the same names, and a baseline that is not older.
Follows(X, Y) ==
  /\ \A c \in X : \E d \in Y : c.sequence <= d.sequence
  /\ \A c \in X, d \in Y : c.sequence = d.sequence => SameWork(c, d)
  /\ \A c \in X : c.configPhase = "Applied"
                  => \E d \in Y : d.configPhase = "Applied" /\ c.sequence <= d.sequence

\* Every config X shows is stored in S, or X itself shows that it may be deleted.
Kept(X, S) ==
  \A c \in X : c \in SupersededConfigs(X) \/ \E d \in S : d.sequence = c.sequence

\* Nothing above what X shows has been deleted from S: a free name is the next one.
NoGapAbove(X, S) ==
  \A d \in S : \A n \in 1..d.sequence :
    (\A c \in X : c.sequence < n) => \E e \in S : e.sequence = n

FeedInv(f) ==
  /\ \A i \in 1..Len(f) : WellFormed(f[i]) /\ Kept(f[i], Stored(f))
  /\ \A i, j \in 1..Len(f) : i <= j => Follows(f[i], f[j])
  /\ NoGapAbove(Cached(f), Stored(f))

\* Reconcile's list is older than every version of the feed.
ListInv ==
  /\ WellFormed(list) /\ Kept(list, Stored(configs))
  /\ \A i \in 1..Len(configs) : Follows(list, configs[i])

Versions(f) == {f[i] : i \in 1..Len(f)}

\* The versions of the Redkey that anyone may still act on.
Copies == Versions(redkeys) \cup (IF pc = "idle" THEN {} ELSE {cluster})

\* A generation has one topology, and no config is newer than any copy.
CopiesInv ==
  /\ \A r \in Copies : /\ r.primaries \in Primaries
                       /\ r.generation \in 1..Stored(redkeys).generation
  /\ \A r, q \in Copies : r.generation = q.generation => r.primaries = q.primaries
  /\ \A c \in Stored(configs), r \in Copies :
       /\ c.generation <= r.generation
       /\ c.generation = r.generation => c.primaries = r.primaries

\* X has exactly the configs of S, by name.
Mirrors(X, S) ==
  /\ \A c \in X : \E d \in S : d.sequence = c.sequence
  /\ \A d \in S : \E c \in X : d.sequence = c.sequence

\* Which path of Reconcile a step is on, and what that path has checked.
ControlInv ==
  /\ pc \in {"createNewConfig", "listConfigs", "cleanupSupersededConfigs"}
     => cluster.primaries # 0
  /\ pc \in {"createZeroConfig", "deleteRobinDeployment", "deleteRBAC", "listAllConfigs",
             "deleteAllConfigs", "updateStatusScaledToZero"}
     => cluster.primaries = 0
  /\ pc = "createZeroConfig" => list # {} /\ HighestSeq(list).primaries # 0
  /\ pc = "cleanupSupersededConfigs" => SupersededConfigs(list) # {}
  /\ pc = "aggregateStatus" /\ cluster.primaries # 0 => SupersededConfigs(list) = {}

\* On the scale-to-zero path nothing is created or deleted behind Reconcile's
\* back, and it tears Robin down only when Robin has nothing left to do.
ZeroInv ==
  /\ pc \in {"ensureRBAC", "ensureRobinDeployment", "createZeroConfig", "aggregateStatus"}
     /\ cluster.primaries = 0 => Mirrors(list, Stored(configs))
  /\ pc \in {"deleteRobinDeployment", "deleteRBAC", "listAllConfigs", "deleteAllConfigs",
             "updateStatusScaledToZero"}
     => Unfinished(Stored(configs)) = {}

PipelineInv ==
  /\ Alive \/ Stored(redkeys).deletion = "gone"
  /\ ConfigLag = 0 => Len(configs) = 1
  /\ ControlInv
  /\ Alive =>
       /\ FeedInv(configs)
       /\ pc # "deleteAllConfigs" => ListInv
       /\ CopiesInv
       /\ ZeroInv

------------------------------------------------------------------------------
(* Lists of configs.  Three things happen to the stored set of configs: Robin *)
(* moves one on, the operator adds one on top, or deletes one by name.        *)

\* What the comparisons of configs need to know of their types.
LEMMA ConfigNumbers ==
  ASSUME NEW X \in ConfigSets
  PROVE  X \in SUBSET ConfigType
         /\ \A c \in X : c.sequence \in Nat /\ c.generation \in Nat /\ c.primaries \in Nat
BY DEF ConfigSets, ConfigType

\* A version follows itself, and every config it shows is kept.
LEMMA FollowsItself ==
  ASSUME NEW X \in ConfigSets, WellFormed(X)
  PROVE  Follows(X, X) /\ Kept(X, X) /\ NoGapAbove(X, X) /\ Mirrors(X, X)
<1>1. \A c \in X : c.sequence \in Nat
  BY ConfigNumbers
<1>2. Follows(X, X)
  BY <1>1 DEF Follows, SameWork, WellFormed
<1>3. NoGapAbove(X, X)
  <2>1. \A d \in X : \A n \in 1..d.sequence : ~(\A c \in X : c.sequence < n)
    BY <1>1
  <2>. QED
    BY <2>1 DEF NoGapAbove
<1>. QED
  BY <1>2, <1>3 DEF Kept, Mirrors

\* A part of a list is as well formed, and as old.
LEMMA SubList ==
  ASSUME NEW X, NEW Y \in SUBSET X
  PROVE  /\ WellFormed(X) => WellFormed(Y)
         /\ \A Z : Follows(X, Z) => Follows(Y, Z)
BY DEF WellFormed, Follows

\* What has no gap above an older version has none above a newer one.
LEMMA NoGapAboveNewer ==
  ASSUME NEW X \in ConfigSets, NEW Y \in ConfigSets, NEW S \in ConfigSets,
         Follows(X, Y), NoGapAbove(X, S)
  PROVE  NoGapAbove(Y, S)
<1>1. /\ \A c \in X : c.sequence \in Nat
      /\ \A c \in Y : c.sequence \in Nat
      /\ \A c \in S : c.sequence \in Nat
  BY ConfigNumbers
<1>. SUFFICES ASSUME NEW d \in S, NEW n \in 1..d.sequence, \A c \in Y : c.sequence < n
              PROVE  \E e \in S : e.sequence = n
  BY DEF NoGapAbove
<1>2. \A c \in X : c.sequence < n
  BY <1>1 DEF Follows
<1>. QED
  BY <1>2 DEF NoGapAbove

\* Robin's part: every config is still there, with the same work.
Evolves(S, T) ==
  /\ \A d \in S : \E e \in T : e.sequence = d.sequence /\ SameWork(d, e)
  /\ \A e \in T : \E d \in S : e.sequence = d.sequence /\ SameWork(d, e)

\* A list that relates to the configs before Robin's write relates to them after.
LEMMA EvolvesKeeps ==
  ASSUME NEW S \in ConfigSets, NEW T \in ConfigSets, Evolves(S, T), NEW X \in ConfigSets
  PROVE  /\ Follows(X, S) => Follows(X, T)
         /\ Kept(X, S) => Kept(X, T)
         /\ NoGapAbove(X, S) => NoGapAbove(X, T)
         /\ Mirrors(X, S) => Mirrors(X, T)
         /\ Unfinished(S) = {} => Unfinished(T) = {}
<1>1. ASSUME Follows(X, S) PROVE Follows(X, T)
  <2>1. \A c \in X : \E d \in T : c.sequence <= d.sequence
    BY <1>1 DEF Follows, Evolves
  <2>2. \A c \in X, d \in T : c.sequence = d.sequence => SameWork(c, d)
    BY <1>1 DEF Follows, Evolves, SameWork
  <2>3. \A c \in X : c.configPhase = "Applied"
                     => \E d \in T : d.configPhase = "Applied" /\ c.sequence <= d.sequence
    BY <1>1 DEF Follows, Evolves, SameWork, isTerminalConfigPhase
  <2>. QED
    BY <2>1, <2>2, <2>3 DEF Follows
<1>2. Kept(X, S) => Kept(X, T)
  BY DEF Kept, Evolves
<1>3. ASSUME NoGapAbove(X, S) PROVE NoGapAbove(X, T)
  BY <1>3 DEF NoGapAbove, Evolves
<1>4. Mirrors(X, S) => Mirrors(X, T)
  BY DEF Mirrors, Evolves
<1>5. Unfinished(S) = {} => Unfinished(T) = {}
  BY DEF Unfinished, Evolves, SameWork
<1>. QED
  BY <1>1, <1>2, <1>3, <1>4, <1>5

\* Robin's write of the status of one config.
LEMMA RobinEvolves ==
  ASSUME NEW S \in ConfigSets, WellFormed(S), NEW c \in S, NEW phase \in ConfigPhases,
         NEW status, NEW healthy,
         isTerminalConfigPhase(c.configPhase) => phase = c.configPhase,
         phase \in {"InProgress", "Applied"} =>
           \A d \in S : d.sequence < c.sequence => isTerminalConfigPhase(d.configPhase),
         NEW T, T = (S \ {c}) \cup
           {[c EXCEPT !.configPhase = phase, !.status = status, !.healthy = healthy]}
  PROVE  Evolves(S, T) /\ WellFormed(T)
<1>. DEFINE e == [c EXCEPT !.configPhase = phase, !.status = status, !.healthy = healthy]
<1>1. c \in ConfigType
  BY ConfigNumbers
<1>2. /\ e.sequence = c.sequence /\ e.generation = c.generation /\ e.primaries = c.primaries
      /\ e.configPhase = phase
  BY <1>1 DEF ConfigType
<1>3. T = (S \ {c}) \cup {e}
  OBVIOUS
<1>. HIDE DEF e
<1>4. \A d \in S : d.sequence \in Nat
  BY ConfigNumbers
<1>5. Evolves(S, T)
  BY <1>2, <1>3 DEF Evolves, SameWork
<1>6. \A d \in T : d.sequence >= 1 /\ d.primaries \in Primaries
  BY <1>2, <1>3 DEF WellFormed
<1>7. \A d \in S \ {c} : d.sequence # e.sequence
  BY <1>2 DEF WellFormed
<1>8. \A a, d \in T : /\ a.sequence = d.sequence => a = d
                      /\ a.sequence < d.sequence => a.generation < d.generation
  BY <1>2, <1>3, <1>4, <1>7 DEF WellFormed
<1>9. ASSUME NEW a \in T, NEW d \in T, a.sequence < d.sequence,
             d.configPhase \in {"InProgress", "Applied"}
      PROVE  isTerminalConfigPhase(a.configPhase)
  <2>1. CASE a = e /\ d = e
    BY <2>1, <1>9, <1>2, <1>4
  <2>2. CASE a = e /\ d \in S \ {c}
    BY <2>2, <1>9, <1>2 DEF WellFormed
  <2>3. CASE a \in S \ {c} /\ d = e
    BY <2>3, <1>9, <1>2
  <2>4. CASE a \in S \ {c} /\ d \in S \ {c}
    BY <2>4, <1>9 DEF WellFormed
  <2>. QED
    BY <2>1, <2>2, <2>3, <2>4, <1>3
<1>. QED
  BY <1>5, <1>6, <1>8, <1>9 DEF WellFormed

\* c is a new config on top of the configs S.
OnTop(c, S) ==
  /\ c.sequence >= 1 /\ c.primaries \in Primaries /\ c.configPhase = "Pending"
  /\ \A d \in S : d.sequence < c.sequence /\ d.generation < c.generation

\* A list that relates to the configs before a creation relates to them after.
LEMMA CreateKeeps ==
  ASSUME NEW S \in ConfigSets, NEW c \in ConfigType, OnTop(c, S), NEW X \in ConfigSets
  PROVE  /\ WellFormed(S) => WellFormed(S \cup {c})
         /\ Follows(X, S) => Follows(X, S \cup {c})
         /\ Kept(X, S) => Kept(X, S \cup {c})
         /\ NoGapAbove(X, S) /\ (X = {} => c.sequence = 1)
            /\ (X # {} => \E h \in X : c.sequence = h.sequence + 1)
            => NoGapAbove(X, S \cup {c})
<1>1. /\ \A d \in S : d.sequence \in Nat /\ d.generation \in Nat
      /\ \A d \in X : d.sequence \in Nat
      /\ c.sequence \in Nat /\ c.generation \in Nat
  BY ConfigNumbers DEF ConfigType
<1>2. WellFormed(S) => WellFormed(S \cup {c})
  BY <1>1 DEF WellFormed, OnTop
<1>3. ASSUME Follows(X, S) PROVE Follows(X, S \cup {c})
  <2>1. \A x \in X : x.sequence < c.sequence
    BY <1>1, <1>3 DEF Follows, OnTop
  <2>2. \A x \in X, d \in S \cup {c} : x.sequence = d.sequence => SameWork(x, d)
    BY <2>1, <1>1, <1>3 DEF Follows
  <2>. QED
    BY <2>2, <1>3 DEF Follows
<1>4. Kept(X, S) => Kept(X, S \cup {c})
  BY DEF Kept
<1>5. ASSUME NoGapAbove(X, S), X = {} => c.sequence = 1,
             X # {} => \E h \in X : c.sequence = h.sequence + 1
      PROVE  NoGapAbove(X, S \cup {c})
  <2>. SUFFICES ASSUME NEW d \in S \cup {c}, NEW n \in 1..d.sequence,
                       \A x \in X : x.sequence < n
                PROVE  \E e \in S \cup {c} : e.sequence = n
    BY DEF NoGapAbove
  <2>1. CASE d \in S
    BY <2>1, <1>5 DEF NoGapAbove
  <2>2. CASE d = c
    BY <2>2, <1>5, <1>1
  <2>. QED
    BY <2>1, <2>2
<1>. QED
  BY <1>2, <1>3, <1>4, <1>5

\* A list that relates to the configs before cleanupSupersededConfigs deletes
\* the name n relates to them after, if it is not older than the list l that
\* showed an Applied config above n.
LEMMA CleanupKeeps ==
  ASSUME NEW S \in ConfigSets, NEW l \in ConfigSets, NEW n \in Nat,
         NEW a \in l, a.configPhase = "Applied", n < a.sequence, Follows(l, S),
         NEW X \in ConfigSets, NEW T, T = {d \in S : d.sequence # n}
  PROVE  /\ \E b \in T : b.configPhase = "Applied" /\ n < b.sequence
         /\ WellFormed(S) => WellFormed(T)
         /\ Follows(X, S) => Follows(X, T)
         /\ Follows(l, X) /\ Kept(X, S) => Kept(X, T)
         /\ Follows(l, X) /\ NoGapAbove(X, S) => NoGapAbove(X, T)
<1>1. /\ \A d \in S : d.sequence \in Nat
      /\ \A d \in X : d.sequence \in Nat
      /\ \A d \in l : d.sequence \in Nat
  BY ConfigNumbers
<1>2. PICK b \in S : b.configPhase = "Applied" /\ a.sequence <= b.sequence
  BY DEF Follows
<1>3. b \in T /\ n < b.sequence
  BY <1>1, <1>2
<1>4. WellFormed(S) => WellFormed(T)
  BY SubList
<1>5. ASSUME Follows(X, S) PROVE Follows(X, T)
  <2>1. \A x \in X : \E d \in T : x.sequence <= d.sequence
    BY <1>1, <1>3, <1>5 DEF Follows
  <2>2. \A x \in X : x.configPhase = "Applied"
                     => \E d \in T : d.configPhase = "Applied" /\ x.sequence <= d.sequence
    BY <1>1, <1>2, <1>3, <1>5 DEF Follows
  <2>. QED
    BY <2>1, <2>2, <1>5 DEF Follows
<1>6. ASSUME Follows(l, X), Kept(X, S) PROVE Kept(X, T)
  <2>1. PICK e \in X : e.configPhase = "Applied" /\ a.sequence <= e.sequence
    BY <1>6 DEF Follows
  <2>2. \A x \in X : x.sequence = n => x \in SupersededConfigs(X)
    BY <2>1, <1>1 DEF SupersededConfigs
  <2>. QED
    BY <2>2, <1>6 DEF Kept
<1>7. ASSUME Follows(l, X), NoGapAbove(X, S) PROVE NoGapAbove(X, T)
  <2>. SUFFICES ASSUME NEW d \in T, NEW m \in 1..d.sequence, \A x \in X : x.sequence < m
                PROVE  \E e \in T : e.sequence = m
    BY DEF NoGapAbove
  <2>1. PICK e \in X : a.sequence <= e.sequence
    BY <1>7 DEF Follows
  <2>2. n < m
    BY <2>1, <1>1
  <2>3. \E f \in S : f.sequence = m
    BY <1>7 DEF NoGapAbove
  <2>. QED
    BY <2>2, <2>3
<1>. QED
  BY <1>2, <1>3, <1>4, <1>5, <1>6, <1>7

\* What is left of the list itself, once its first config is deleted.
LEMMA CleanupKeepsList ==
  ASSUME NEW S \in ConfigSets, NEW l \in ConfigSets, l # {}, WellFormed(l), Kept(l, S)
  PROVE  LET c == LowestSeq(l)
         IN  Kept(l \ {c}, {d \in S : d.sequence # c.sequence})
<1>. DEFINE c == LowestSeq(l)
            m == l \ {c}
<1>1. c \in l /\ \A d \in l : c.sequence <= d.sequence
  BY LowestSeqExists, ConfigNumbers DEF Sequenced
<1>2. \A d \in l : d.sequence \in Nat
  BY ConfigNumbers
<1>. HIDE DEF c
<1>3. \A d \in m : d.sequence # c.sequence
  BY <1>1 DEF WellFormed
<1>4. \A d \in m : d \in SupersededConfigs(l) => d \in SupersededConfigs(m)
  BY <1>1, <1>2 DEF SupersededConfigs
<1>5. Kept(m, {d \in S : d.sequence # c.sequence})
  BY <1>3, <1>4 DEF Kept
<1>. QED
  BY <1>5 DEF c

------------------------------------------------------------------------------
(* Feeds of configs. *)

\* Writing a version that follows every version of the feed.
LEMMA FeedPublish ==
  ASSUME NEW f \in Seq(ConfigSets), f # <<>>, FeedInv(f), NEW v \in ConfigSets,
         NEW lag \in Nat, WellFormed(v), NoGapAbove(Cached(f), v),
         \A i \in 1..Len(f) : Follows(f[i], v) /\ Kept(f[i], v)
  PROVE  /\ FeedInv(Publish(f, v, lag))
         /\ \A X : (\A i \in 1..Len(f) : Follows(X, f[i])) /\ Follows(X, v)
                   => \A i \in 1..Len(Publish(f, v, lag)) : Follows(X, Publish(f, v, lag)[i])
<1>. DEFINE g == Publish(f, v, lag)
            n == Len(f)
            m == Len(g)
<1>1. g \in Seq(ConfigSets) /\ g # <<>> /\ Stored(g) = v
  BY PublishFeed
<1>2. PICK k \in {0, 1} :
        \A i \in 1..m : \/ g[i] = v /\ i = m
                        \/ i + k \in 1..n /\ g[i] = f[i + k]
  BY PublishFeed
<1>. HIDE DEF g
<1>3. /\ n \in Nat /\ n > 0 /\ m \in Nat /\ m > 0
      /\ \A i \in 1..n : f[i] \in ConfigSets
      /\ \A i \in 1..m : g[i] \in ConfigSets
  BY <1>1
<1>4. /\ \A i \in 1..n : WellFormed(f[i]) /\ Follows(f[i], v) /\ Kept(f[i], v)
      /\ \A i, j \in 1..n : i <= j => Follows(f[i], f[j])
      /\ NoGapAbove(f[1], v)
  BY DEF FeedInv, Cached
<1>5. Follows(v, v) /\ Kept(v, v)
  BY FollowsItself
<1>. HIDE DEF n, m
<1>6. \A i \in 1..m : WellFormed(g[i]) /\ Kept(g[i], v)
  BY <1>2, <1>4, <1>5
<1>7. \A i, j \in 1..m : i <= j => Follows(g[i], g[j])
  <2>. SUFFICES ASSUME NEW i \in 1..m, NEW j \in 1..m, i <= j
                PROVE  Follows(g[i], g[j])
    OBVIOUS
  <2>1. CASE g[i] = v /\ i = m
    BY <2>1, <1>3, <1>5
  <2>2. CASE i + k \in 1..n /\ g[i] = f[i + k]
    <3>1. CASE g[j] = v
      BY <2>2, <3>1, <1>4
    <3>2. CASE j + k \in 1..n /\ g[j] = f[j + k]
      BY <2>2, <3>2, <1>4, <1>3
    <3>. QED
      BY <3>1, <3>2, <1>2
  <2>. QED
    BY <2>1, <2>2, <1>2
<1>8. NoGapAbove(g[1], v)
  <2>1. Follows(f[1], g[1])
    <3>1. CASE g[1] = v
      BY <3>1, <1>3, <1>4
    <3>2. CASE 1 + k \in 1..n /\ g[1] = f[1 + k]
      BY <3>2, <1>3, <1>4
    <3>. QED
      BY <3>1, <3>2, <1>2, <1>3
  <2>2. f[1] \in ConfigSets /\ g[1] \in ConfigSets
    BY <1>3
  <2>. QED
    BY <2>1, <2>2, <1>4, NoGapAboveNewer
<1>9. FeedInv(g)
  BY <1>1, <1>6, <1>7, <1>8 DEF FeedInv, Cached, m
<1>10. ASSUME NEW X, \A i \in 1..n : Follows(X, f[i]), Follows(X, v)
       PROVE  \A i \in 1..m : Follows(X, g[i])
  BY <1>2, <1>10
<1>. QED
  BY <1>9, <1>10 DEF g, n, m

\* Deliveries and restarts drop the oldest versions.
LEMMA FeedSuffix ==
  ASSUME NEW f \in Seq(ConfigSets), f # <<>>, FeedInv(f),
         NEW g \in Seq(ConfigSets), g # <<>>, NEW k \in Nat, Stored(g) = Stored(f),
         \A i \in 1..Len(g) : i + k \in 1..Len(f) /\ g[i] = f[i + k]
  PROVE  FeedInv(g)
<1>. DEFINE n == Len(f)
            m == Len(g)
            v == Stored(f)
<1>1. n \in Nat /\ n > 0 /\ m \in Nat /\ m > 0 /\ v \in ConfigSets
      /\ f[1] \in ConfigSets /\ g[1] \in ConfigSets
  BY FeedEnds
<1>2. /\ \A i \in 1..n : WellFormed(f[i]) /\ Kept(f[i], v)
      /\ \A i, j \in 1..n : i <= j => Follows(f[i], f[j])
      /\ NoGapAbove(f[1], v)
  BY DEF FeedInv, Cached
<1>3. \A i \in 1..m : i + k \in 1..n /\ g[i] = f[i + k]
  OBVIOUS
<1>4. Stored(g) = v
  OBVIOUS
<1>. HIDE DEF n, m, v
<1>5. \A i \in 1..m : WellFormed(g[i]) /\ Kept(g[i], v)
  BY <1>2, <1>3
<1>6. \A i, j \in 1..m : i <= j => Follows(g[i], g[j])
  <2>. SUFFICES ASSUME NEW i \in 1..m, NEW j \in 1..m, i <= j
                PROVE  Follows(g[i], g[j])
    OBVIOUS
  <2>1. i + k \in 1..n /\ j + k \in 1..n /\ g[i] = f[i + k] /\ g[j] = f[j + k]
    BY <1>3
  <2>2. i + k <= j + k
    BY <1>1
  <2>. QED
    BY <2>1, <2>2, <1>2
<1>7. NoGapAbove(g[1], v)
  <2>1. 1 \in 1..m /\ 1 \in 1..n /\ 1 + k \in 1..n /\ 1 <= 1 + k /\ g[1] = f[1 + k]
    BY <1>1, <1>3
  <2>2. Follows(f[1], g[1])
    BY <2>1, <1>2
  <2>. QED
    BY <2>2, <1>1, <1>2, NoGapAboveNewer
<1>. QED
  BY <1>4, <1>5, <1>6, <1>7 DEF FeedInv, Cached, m

\* A feed of one version.
LEMMA FeedSingle ==
  ASSUME NEW v \in ConfigSets, WellFormed(v), NEW f, f = <<v>>
  PROVE  FeedInv(f) /\ Stored(f) = v /\ \A X : Follows(X, v) => Follows(X, f[1])
<1>1. Len(f) = 1 /\ f[1] = v
  OBVIOUS
<1>2. Follows(v, v) /\ Kept(v, v) /\ NoGapAbove(v, v)
  BY FollowsItself
<1>. QED
  BY <1>1, <1>2 DEF FeedInv, Stored, Cached

------------------------------------------------------------------------------
(* What a step does to the Redkey and to Reconcile's locals. *)

\* What is stored or cached is a version, and a write adds one version.
LEMMA FeedVersions ==
  ASSUME NEW V, NEW f \in Seq(V), f # <<>>
  PROVE  /\ Stored(f) \in Versions(f) /\ Cached(f) \in Versions(f) /\ Versions(f) \subseteq V
         /\ \A v \in V, lag \in Nat : Versions(Publish(f, v, lag)) \subseteq Versions(f) \cup {v}
<1>1. Len(f) \in Nat /\ Len(f) > 0 /\ \A i \in 1..Len(f) : f[i] \in V
  OBVIOUS
<1>2. ASSUME NEW v \in V, NEW lag \in Nat
      PROVE  Versions(Publish(f, v, lag)) \subseteq Versions(f) \cup {v}
  <2>1. PICK k \in {0, 1} :
          \A i \in 1..Len(Publish(f, v, lag)) :
            \/ Publish(f, v, lag)[i] = v
            \/ i + k \in 1..Len(f) /\ Publish(f, v, lag)[i] = f[i + k]
    BY PublishFeed
  <2>. QED
    BY <2>1 DEF Versions
<1>3. Stored(f) \in Versions(f) /\ Cached(f) \in Versions(f) /\ Versions(f) \subseteq V
  BY <1>1 DEF Versions, Stored, Cached
<1>. QED
  BY <1>2, <1>3

\* The Redkey keeps its spec; at most its status is written.
SpecKept ==
  /\ Versions(redkeys') \subseteq Versions(redkeys) \cup {Stored(redkeys')}
  /\ Stored(redkeys').generation = Stored(redkeys).generation
  /\ Stored(redkeys').primaries = Stored(redkeys).primaries
  /\ Stored(redkeys').deletion = Stored(redkeys).deletion

\* The user edits the spec.
SpecEdited ==
  /\ Versions(redkeys') \subseteq Versions(redkeys) \cup {Stored(redkeys')}
  /\ Stored(redkeys').generation = Stored(redkeys).generation + 1
  /\ Stored(redkeys').primaries \in Primaries
  /\ Alive /\ Alive'
  /\ Stored(redkeys').observedGeneration = Stored(redkeys).observedGeneration
  /\ Stored(redkeys').phase = Stored(redkeys).phase
  /\ Stored(redkeys').status = Stored(redkeys).status
  /\ Stored(redkeys').lastAppliedPrimaries = Stored(redkeys).lastAppliedPrimaries
  /\ UNCHANGED <<configs, robin, pc, cluster, list>>

\* The user deletes the Redkey.
RedkeyDeleted ==
  /\ DeleteRedkey
  /\ Stored(redkeys').deletion = "gone" /\ ~Alive'
  /\ Stored(redkeys').status = Stored(redkeys).status
  /\ Stored(redkeys').lastAppliedPrimaries = Stored(redkeys).lastAppliedPrimaries

\* A write of the Redkey, seen through its versions.
LEMMA RedkeyWritten ==
  ASSUME TypeInv, NEW v \in RedkeyType, WriteRedkey(v)
  PROVE  Stored(redkeys') = v /\ Versions(redkeys') \subseteq Versions(redkeys) \cup {v}
<1>1. redkeys \in Seq(RedkeyType) /\ redkeys # <<>> /\ RedkeyLag \in Nat
  BY BoundsAssumption DEF TypeInv
<1>. QED
  BY <1>1, PublishFeed, FeedVersions DEF WriteRedkey

\* Steps that leave the Redkey alone.
LEMMA RedkeyUnchanged ==
  ASSUME UNCHANGED redkeys
  PROVE  SpecKept
BY DEF SpecKept

\* aggregateStatus and updateStatusScaledToZero write the status only.
LEMMA RedkeyStatusStep ==
  ASSUME TypeInv, AggregateStatus \/ UpdateStatusScaledToZero
  PROVE  SpecKept
<1>0. Stored(redkeys) \in RedkeyType /\ cluster \in RedkeyType /\ cluster.generation \in Nat
  BY EndsType DEF TypeInv, RedkeyType
<1>1. CASE UNCHANGED redkeys
  BY <1>1, RedkeyUnchanged
<1>2. CASE pc = "aggregateStatus" /\ Cached(redkeys) = Stored(redkeys) /\
           WriteRedkey(AggregatedStatus(Cached(redkeys), cluster.generation,
                                        selectActiveConfig(list)))
  <2>. DEFINE v == AggregatedStatus(Cached(redkeys), cluster.generation, selectActiveConfig(list))
  <2>1. list \in ConfigSets /\ list # {}
    BY <1>2 DEF TypeInv
  <2>2. v \in RedkeyType
    BY <2>1, <1>0, <1>2, ChosenConfigs, AggregatedStatusType
  <2>3. /\ v.generation = Stored(redkeys).generation /\ v.primaries = Stored(redkeys).primaries
        /\ v.deletion = Stored(redkeys).deletion
    BY <1>0, <1>2 DEF AggregatedStatus, RedkeyType
  <2>. HIDE DEF v
  <2>4. WriteRedkey(v)
    BY <1>2 DEF v
  <2>. QED
    BY <2>2, <2>3, <2>4, RedkeyWritten DEF SpecKept
<1>3. CASE cluster = Stored(redkeys) /\
           WriteRedkey([cluster EXCEPT !.phase = "Ready", !.status = "",
                                       !.observedGeneration = cluster.generation])
  <2>. DEFINE v == [cluster EXCEPT !.phase = "Ready", !.status = "",
                                   !.observedGeneration = cluster.generation]
  <2>1. /\ v \in RedkeyType /\ v.generation = cluster.generation
        /\ v.primaries = cluster.primaries /\ v.deletion = cluster.deletion
    BY <1>0 DEF RedkeyType, RedkeyPhases, ConfigStatuses
  <2>. HIDE DEF v
  <2>2. WriteRedkey(v)
    BY <1>3 DEF v
  <2>. QED
    BY <2>1, <2>2, <1>3, RedkeyWritten DEF SpecKept
<1>. QED
  BY <1>1, <1>2, <1>3 DEF AggregateStatus, UpdateStatusScaledToZero

\* Every step of a reconcile keeps the spec.
LEMMA ReconcileKeepsSpec ==
  ASSUME TypeInv, ReconcileStep
  PROVE  SpecKept
<1>1. CASE AggregateStatus \/ UpdateStatusScaledToZero
  BY <1>1, RedkeyStatusStep
<1>2. CASE UNCHANGED redkeys
  BY <1>2, RedkeyUnchanged
<1>. QED
  BY <1>1, <1>2
     DEF ReconcileStep, StartReconcile, ReconcileGone, EnsureRBAC, EnsureRobinDeployment,
         CreateNewConfig, CreateZeroConfig, ListConfigs, CleanupSupersededConfigs,
         DeleteRobinDeployment, DeleteRBAC, ListAllConfigs, DeleteAllConfigs, storeVars, vars

\* Steps that drop the oldest versions.
LEMMA RedkeySuffix ==
  ASSUME TypeInv, DeliverRedkey \/ Restart
  PROVE  SpecKept
<1>0. redkeys \in Seq(RedkeyType) /\ redkeys # <<>> /\ Len(redkeys) \in Nat /\ Len(redkeys) > 0
  BY DEF TypeInv
<1>1. CASE DeliverRedkey
  <2>1. /\ Stored(redkeys') = Stored(redkeys) /\ Len(redkeys') = Len(redkeys) - 1
        /\ \A i \in 1..(Len(redkeys) - 1) : redkeys'[i] = redkeys[i + 1]
    BY <1>0, <1>1, DeliverFeed DEF DeliverRedkey
  <2>2. \A i \in 1..Len(redkeys') : i + 1 \in 1..Len(redkeys) /\ redkeys'[i] = redkeys[i + 1]
    BY <2>1, <1>0
  <2>3. Versions(redkeys') \subseteq Versions(redkeys)
    BY <2>2 DEF Versions
  <2>. QED
    BY <2>1, <2>3 DEF SpecKept
<1>2. CASE Restart
  <2>1. redkeys' = <<Stored(redkeys)>>
    BY <1>2 DEF Restart
  <2>2. Stored(redkeys') = Stored(redkeys) /\ Versions(redkeys') \subseteq {Stored(redkeys)}
    BY <2>1 DEF Stored, Versions
  <2>. QED
    BY <2>2 DEF SpecKept
<1>. QED
  BY <1>1, <1>2

\* The user's edits.
LEMMA RedkeyUserStep ==
  ASSUME TypeInv
  PROVE  /\ \A p \in Primaries : EditSpec(p) => SpecEdited
         /\ DeleteRedkey => RedkeyDeleted
<1>0. Stored(redkeys) \in RedkeyType
  BY EndsType
<1>1. ASSUME NEW p \in Primaries, EditSpec(p) PROVE SpecEdited
  <2>. DEFINE v == [Stored(redkeys) EXCEPT !.generation = @ + 1, !.primaries = p]
  <2>1. v \in RedkeyType
    BY <1>0, PrimariesAssumption, EditedRedkeyType
  <2>2. /\ v.generation = Stored(redkeys).generation + 1 /\ v.primaries = p
        /\ v.deletion = Stored(redkeys).deletion /\ v.phase = Stored(redkeys).phase
        /\ v.observedGeneration = Stored(redkeys).observedGeneration
        /\ v.status = Stored(redkeys).status
        /\ v.lastAppliedPrimaries = Stored(redkeys).lastAppliedPrimaries
    BY <1>0 DEF RedkeyType
  <2>3. /\ WriteRedkey(v) /\ Alive
        /\ UNCHANGED <<configs, robin, pc, cluster, list>>
    BY <1>1 DEF EditSpec, localVars, Alive
  <2>. HIDE DEF v
  <2>4. /\ Stored(redkeys') = v /\ Versions(redkeys') \subseteq Versions(redkeys) \cup {v}
    BY <2>1, <2>3, RedkeyWritten
  <2>5. Alive'
    BY <2>2, <2>3, <2>4 DEF Alive
  <2>. QED
    BY <2>2, <2>3, <2>4, <2>5 DEF SpecEdited
<1>2. ASSUME DeleteRedkey PROVE RedkeyDeleted
  <2>. DEFINE v == [Stored(redkeys) EXCEPT !.deletion = "gone"]
  <2>1. v \in RedkeyType /\ v.deletion = "gone" /\ v.status = Stored(redkeys).status
        /\ v.lastAppliedPrimaries = Stored(redkeys).lastAppliedPrimaries
    BY <1>0 DEF RedkeyType
  <2>2. WriteRedkey(v)
    BY <1>2 DEF DeleteRedkey
  <2>. HIDE DEF v
  <2>3. /\ Stored(redkeys').deletion = "gone"
        /\ Stored(redkeys').status = Stored(redkeys).status
        /\ Stored(redkeys').lastAppliedPrimaries = Stored(redkeys).lastAppliedPrimaries
    BY <2>1, <2>2, RedkeyWritten
  <2>4. ~Alive'
    BY <2>3 DEF Alive
  <2>. QED
    BY <2>3, <2>4, <1>2 DEF RedkeyDeleted
<1>. QED
  BY <1>1, <1>2

\* Every step but the user's keeps the spec.
LEMMA NotEdited ==
  ASSUME TypeInv, [Next]_vars, ~(\E p \in Primaries : EditSpec(p)), ~DeleteRedkey
  PROVE  SpecKept
<1>1. CASE DeliverRedkey \/ Restart
  BY <1>1, RedkeySuffix
<1>2. CASE ReconcileStep
  BY <1>2, ReconcileKeepsSpec
<1>3. CASE UNCHANGED redkeys
  BY <1>3, RedkeyUnchanged
<1>4. CASE Collect \/ DeliverConfigs \/ (\E o \in RobinObjects : DeliverRobin(o))
           \/ ReconcileFails \/ RobinActs \/ UNCHANGED vars
  BY <1>3, <1>4 DEF Collect, CollectConfig, CollectRobin, DeliverConfigs, DeliverRobin,
         ReconcileFails, RobinActs, RobinStep, RobinStarts, RobinSupersedes, RobinApplies,
         RobinReports, RobinWrites, storeVars, vars
<1>. QED
  BY <1>1, <1>2, <1>4 DEF Next, Deliver

\* Every step keeps the spec, edits it or deletes the Redkey.
LEMMA RedkeyStep ==
  ASSUME TypeInv, [Next]_vars
  PROVE  SpecKept \/ SpecEdited \/ RedkeyDeleted
BY NotEdited, RedkeyUserStep

\* A reconcile ends, goes on with its copy of the Redkey, or starts with the
\* cached one.
LEMMA LocalStep ==
  ASSUME [Next]_vars
  PROVE  \/ pc' = "idle"
         \/ pc # "idle" /\ cluster' = cluster
         \/ cluster' = Cached(redkeys) /\ Exists(Cached(redkeys)) /\ UNCHANGED redkeys
<1>1. CASE ReconcileStep
  <2>1. CASE StartReconcile \/ ReconcileGone
    BY <2>1 DEF StartReconcile, ReconcileGone, Goto, storeVars, vars
  <2>2. CASE EnsureRBAC \/ EnsureRobinDeployment
    BY <2>2 DEF EnsureRBAC, EnsureRobinDeployment, AfterEnsure, Return, Goto
  <2>3. CASE CreateNewConfig \/ CreateZeroConfig \/ ListConfigs \/ CleanupSupersededConfigs
    BY <2>3 DEF CreateNewConfig, CreateZeroConfig, ListConfigs, CleanupSupersededConfigs,
                AfterList, Return, Goto
  <2>4. CASE AggregateStatus \/ UpdateStatusScaledToZero
    BY <2>4 DEF AggregateStatus, UpdateStatusScaledToZero, Return, Goto
  <2>5. CASE DeleteRobinDeployment \/ DeleteRBAC \/ ListAllConfigs \/ DeleteAllConfigs
    BY <2>5 DEF DeleteRobinDeployment, DeleteRBAC, ListAllConfigs, DeleteAllConfigs,
                AfterDelete, Return, Goto
  <2>. QED
    BY <1>1, <2>1, <2>2, <2>3, <2>4, <2>5 DEF ReconcileStep
<1>2. CASE ReconcileFails \/ Restart
  BY <1>2 DEF ReconcileFails, Restart, Return, Goto
<1>3. CASE UNCHANGED <<pc, cluster>>
  BY <1>3
<1>4. CASE (\E p \in Primaries : EditSpec(p)) \/ DeleteRedkey \/ Collect \/ Deliver
           \/ RobinActs \/ UNCHANGED vars
  BY <1>3, <1>4 DEF EditSpec, DeleteRedkey, Collect, CollectConfig, CollectRobin, Deliver,
         DeliverRedkey, DeliverConfigs, DeliverRobin, RobinActs, RobinStep, RobinStarts,
         RobinSupersedes, RobinApplies, RobinReports, RobinWrites, localVars, vars
<1>. QED
  BY <1>1, <1>2, <1>4 DEF Next

\* Every step stays on the path of Reconcile it is on.
LEMMA ControlStep ==
  ASSUME TypeInv, ControlInv, [Next]_vars
  PROVE  ControlInv'
<1>1. CASE pc' = "idle"
  BY <1>1 DEF ControlInv
<1>2. CASE UNCHANGED <<pc, cluster, list>>
  BY <1>2 DEF ControlInv
<1>3. CASE ReconcileStep
  <2>1. CASE StartReconcile
    <3>1. \/ pc' = "ensureRBAC"
          \/ /\ pc' \in {"updateStatusScaledToZero", "deleteRobinDeployment"}
             /\ cluster'.primaries = 0
      BY <2>1 DEF StartReconcile, Goto
    <3>. QED
      BY <3>1 DEF ControlInv
  <2>2. CASE EnsureRBAC
    BY <1>1, <2>2 DEF EnsureRBAC, Return, Goto, ControlInv
  <2>3. CASE EnsureRobinDeployment
    <3>1. CASE AfterEnsure
      <4>1. cluster.primaries = 0 => list # {}
        BY <2>3 DEF EnsureRobinDeployment, TypeInv
      <4>. QED
        BY <4>1, <3>1 DEF AfterEnsure, Goto, ControlInv
    <3>. QED
      BY <1>1, <2>3, <3>1 DEF EnsureRobinDeployment, Return, Goto
  <2>4. CASE CreateNewConfig \/ ListConfigs \/ CleanupSupersededConfigs
    <3>1. cluster.primaries # 0
      BY <2>4 DEF CreateNewConfig, ListConfigs, CleanupSupersededConfigs, ControlInv
    <3>2. CASE Goto("listConfigs", cluster, {})
      BY <3>1, <3>2 DEF Goto, ControlInv
    <3>3. ASSUME NEW l, AfterList(cluster, l) PROVE ControlInv'
      BY <1>1, <3>1, <3>3 DEF AfterList, Return, Goto, ControlInv
    <3>. QED
      BY <2>4, <3>2, <3>3 DEF CreateNewConfig, ListConfigs, CleanupSupersededConfigs
  <2>5. CASE DeleteRobinDeployment \/ DeleteRBAC
    BY <1>1, <2>5 DEF DeleteRobinDeployment, DeleteRBAC, Return, Goto, ControlInv
  <2>6. CASE ListAllConfigs \/ DeleteAllConfigs
    BY <2>6 DEF ListAllConfigs, DeleteAllConfigs, AfterDelete, Goto, ControlInv
  <2>7. CASE CreateZeroConfig \/ AggregateStatus \/ UpdateStatusScaledToZero
    BY <1>1, <2>7 DEF CreateZeroConfig, AggregateStatus, UpdateStatusScaledToZero, Return, Goto
  <2>8. CASE ReconcileGone
    BY <1>2, <2>8 DEF ReconcileGone, vars
  <2>. QED
    BY <1>3, <2>1, <2>2, <2>3, <2>4, <2>5, <2>6, <2>7, <2>8 DEF ReconcileStep
<1>4. CASE ReconcileFails \/ Restart
  BY <1>1, <1>4 DEF ReconcileFails, Restart, Return, Goto
<1>5. CASE (\E p \in Primaries : EditSpec(p)) \/ DeleteRedkey \/ Collect \/ Deliver
           \/ RobinActs \/ UNCHANGED vars
  BY <1>2, <1>5 DEF EditSpec, DeleteRedkey, Collect, CollectConfig, CollectRobin, Deliver,
         DeliverRedkey, DeliverConfigs, DeliverRobin, RobinActs, RobinStep, RobinStarts,
         RobinSupersedes, RobinApplies, RobinReports, RobinWrites, localVars, vars
<1>. QED
  BY <1>3, <1>4, <1>5 DEF Next

\* Where the configs stored after a step come from: they were stored before, or
\* are snapshots of the copy the reconcile has.
ConfigsFrom ==
  \A e \in Stored(configs') :
    \/ \E c \in Stored(configs) : c.generation = e.generation /\ c.primaries = e.primaries
    \/ pc # "idle" /\ e.generation = cluster.generation /\ e.primaries = cluster.primaries

\* Every step keeps CopiesInv.
LEMMA CopiesStep ==
  ASSUME TypeInv, TypeInv', ObservedInv, CopiesInv, ConfigsFrom, SpecKept \/ SpecEdited,
         [Next]_vars
  PROVE  CopiesInv'
<1>. DEFINE s == Stored(redkeys)
            t == Stored(redkeys')
            old == Copies
            new == Copies'
<1>0. /\ redkeys \in Seq(RedkeyType) /\ redkeys # <<>> /\ cluster \in RedkeyType
      /\ redkeys' \in Seq(RedkeyType) /\ redkeys' # <<>> /\ cluster' \in RedkeyType
      /\ Stored(configs) \in ConfigSets /\ Stored(configs') \in ConfigSets
  BY FeedEnds DEF TypeInv
<1>1. s \in old /\ Cached(redkeys) \in old /\ (pc # "idle" => cluster \in old)
  BY <1>0, FeedVersions DEF Copies
<1>2. new \subseteq old \cup {t}
  BY <1>1, LocalStep DEF Copies, SpecKept, SpecEdited
<1>3. old \subseteq RedkeyType /\ t \in RedkeyType
  BY <1>0, FeedVersions, FeedEnds DEF Copies
<1>4. \A r \in old \cup {t} : r.generation \in Nat /\ r.primaries \in Nat
  BY <1>3 DEF RedkeyType
<1>5. pc # "idle" => \A r \in old : cluster.generation <= r.generation
  <2>1. \A i \in 1..Len(redkeys) : Cached(redkeys).generation <= redkeys[i].generation
    BY <1>0 DEF ObservedInv, GenerationsOrdered, Cached
  <2>2. \A r \in Versions(redkeys) : Cached(redkeys).generation <= r.generation
    BY <2>1 DEF Versions
  <2>. QED
    BY <2>2, <1>1, <1>4 DEF ObservedInv, Copies
<1>6. /\ \A r \in old : r.primaries \in Primaries /\ r.generation \in 1..s.generation
      /\ \A r, q \in old : r.generation = q.generation => r.primaries = q.primaries
      /\ \A c \in Stored(configs), r \in old :
           /\ c.generation <= r.generation
           /\ c.generation = r.generation => c.primaries = r.primaries
  BY DEF CopiesInv
<1>7. \A c \in Stored(configs) : c.generation \in Nat
  BY <1>0, ConfigNumbers
<1>8. \A e \in Stored(configs'), r \in old :
           /\ e.generation <= r.generation
           /\ e.generation = r.generation => e.primaries = r.primaries
  BY <1>1, <1>5, <1>6 DEF ConfigsFrom
<1>9. \A e \in Stored(configs') : e.generation \in Nat
  BY <1>0, ConfigNumbers
<1>. HIDE DEF s, t, old, new
<1>10. CASE t.generation = s.generation /\ t.primaries = s.primaries
  <2>1. /\ \A r \in new : r.primaries \in Primaries /\ r.generation \in 1..t.generation
        /\ \A r, q \in new : r.generation = q.generation => r.primaries = q.primaries
        /\ \A c \in Stored(configs'), r \in new :
             /\ c.generation <= r.generation
             /\ c.generation = r.generation => c.primaries = r.primaries
    BY <1>10, <1>1, <1>2, <1>6, <1>8
  <2>. QED
    BY <2>1 DEF CopiesInv, new, t
<1>11. CASE t.generation = s.generation + 1 /\ t.primaries \in Primaries
  <2>1. \A r \in new : r.primaries \in Primaries /\ r.generation \in 1..t.generation
    BY <1>11, <1>1, <1>2, <1>4, <1>6
  <2>2. \A r, q \in new : r.generation = q.generation => r.primaries = q.primaries
    BY <1>11, <1>1, <1>2, <1>4, <1>6
  <2>3. \A c \in Stored(configs'), r \in new :
             /\ c.generation <= r.generation
             /\ c.generation = r.generation => c.primaries = r.primaries
    BY <1>11, <1>1, <1>2, <1>4, <1>8, <1>9
  <2>. QED
    BY <2>1, <2>2, <2>3 DEF CopiesInv, new, t
<1>. QED
  BY <1>10, <1>11 DEF SpecKept, SpecEdited, s, t

------------------------------------------------------------------------------
(* What a step does to the configs, as long as the Redkey is not deleted. *)

\* What a step must establish.
ConfigsGoal ==
  /\ FeedInv(configs')
  /\ pc' # "deleteAllConfigs" => ListInv'
  /\ ZeroInv'
  /\ ConfigsFrom

\* The hypotheses of the lemmas that follow.
Going ==
  /\ Regime /\ TypeInv /\ TypeInv' /\ ObservedInv
  /\ PipelineInv /\ Alive

\* Types and the invariant, taken apart.
LEMMA GoingFacts ==
  ASSUME Going
  PROVE  /\ configs \in Seq(ConfigSets) /\ configs # <<>> /\ list \in ConfigSets
         /\ configs' \in Seq(ConfigSets) /\ configs' # <<>> /\ list' \in ConfigSets
         /\ Len(configs) \in Nat \ {0} /\ ConfigLag \in Nat
         /\ Stored(configs) \in ConfigSets /\ Cached(configs) \in ConfigSets
         /\ Stored(configs) = configs[Len(configs)] /\ Cached(configs) = configs[1]
         /\ FeedInv(configs) /\ CopiesInv /\ ZeroInv /\ ControlInv
         /\ WellFormed(Stored(configs)) /\ WellFormed(Cached(configs))
         /\ \A i \in 1..Len(configs) :
              /\ configs[i] \in ConfigSets
              /\ Follows(configs[i], Stored(configs)) /\ Kept(configs[i], Stored(configs))
              /\ Follows(Cached(configs), configs[i])
         /\ NoGapAbove(Cached(configs), Stored(configs))
         /\ Follows(Cached(configs), Stored(configs))
<1>1. /\ configs \in Seq(ConfigSets) /\ configs # <<>> /\ list \in ConfigSets
      /\ configs' \in Seq(ConfigSets) /\ configs' # <<>> /\ list' \in ConfigSets
      /\ ConfigLag \in Nat
  BY BoundsAssumption DEF Going, TypeInv
<1>2. /\ Len(configs) \in Nat \ {0}
      /\ Stored(configs) = configs[Len(configs)] /\ Cached(configs) = configs[1]
      /\ \A i \in 1..Len(configs) : configs[i] \in ConfigSets
  BY <1>1 DEF Stored, Cached
<1>3. FeedInv(configs) /\ CopiesInv /\ ZeroInv /\ ControlInv
  BY DEF Going, PipelineInv
<1>4. 1 \in 1..Len(configs) /\ Len(configs) \in 1..Len(configs)
  BY <1>2
<1>5. /\ \A i \in 1..Len(configs) : WellFormed(configs[i]) /\ Kept(configs[i], Stored(configs))
      /\ \A i \in 1..Len(configs) :
           Follows(configs[i], Stored(configs)) /\ Follows(Cached(configs), configs[i])
      /\ NoGapAbove(Cached(configs), Stored(configs))
  BY <1>2, <1>3, <1>4 DEF FeedInv
<1>. QED
  BY <1>1, <1>2, <1>3, <1>4, <1>5

\* With an informer that does not lag, the cache shows what is stored.
LEMMA NoLag ==
  ASSUME Going, 0 \in Primaries
  PROVE  /\ ConfigLag = 0 /\ Len(configs) = 1 /\ Cached(configs) = Stored(configs)
         /\ configs = <<Stored(configs)>>
<1>1. ConfigLag = 0 /\ Len(configs) = 1
  BY DEF Going, Regime, PipelineInv
<1>. QED
  BY <1>1, GoingFacts

\* The empty list is older than anything.
LEMMA EmptyList ==
  /\ WellFormed({}) /\ \A S : Kept({}, S) /\ Follows({}, S)
BY DEF WellFormed, Kept, Follows

\* Steps that leave the configs alone, and the list as it is, empty or as cached.
LEMMA ConfigsUnchanged ==
  ASSUME Going, UNCHANGED configs,
         list' = {} \/ list' = Cached(configs) \/ (list' = list /\ pc # "deleteAllConfigs")
  PROVE  FeedInv(configs') /\ ListInv' /\ ConfigsFrom
<1>. USE GoingFacts
<1>1. FeedInv(configs') /\ ConfigsFrom
  BY DEF ConfigsFrom
<1>2. CASE list' = {}
  BY <1>1, <1>2, EmptyList DEF ListInv
<1>3. CASE list' = Cached(configs)
  BY <1>1, <1>3 DEF ListInv
<1>4. CASE list' = list /\ pc # "deleteAllConfigs"
  BY <1>1, <1>4 DEF ListInv, Going, PipelineInv
<1>. QED
  BY <1>2, <1>3, <1>4

\* Steps that end the reconcile without touching the configs.
LEMMA ConfigsReturn ==
  ASSUME Going, UNCHANGED configs, Return
  PROVE  ConfigsGoal
<1>1. list' = {} /\ pc' = "idle"
  BY DEF Return, Goto
<1>. QED
  BY <1>1, ConfigsUnchanged DEF ConfigsGoal, ZeroInv

\* Steps of the others that leave the configs alone.
LEMMA ConfigsFrame ==
  ASSUME Going, UNCHANGED <<configs, pc, cluster, list>>
  PROVE  ConfigsGoal
<1>1. ZeroInv'
  BY GoingFacts DEF ZeroInv
<1>2. CASE pc # "deleteAllConfigs"
  BY <1>1, <1>2, ConfigsUnchanged DEF ConfigsGoal
<1>3. CASE pc = "deleteAllConfigs"
  BY <1>1, <1>3, GoingFacts DEF ConfigsGoal, ConfigsFrom
<1>. QED
  BY <1>2, <1>3

\* Steps that drop the oldest versions.
LEMMA ConfigsSuffix ==
  ASSUME Going, DeliverConfigs \/ Restart
  PROVE  ConfigsGoal
<1>. USE GoingFacts
<1>1. PICK k \in Nat :
        /\ Stored(configs') = Stored(configs)
        /\ \A i \in 1..Len(configs') : i + k \in 1..Len(configs) /\ configs'[i] = configs[i + k]
  <2>1. CASE DeliverConfigs
    <3>1. /\ Stored(configs') = Stored(configs) /\ Len(configs') = Len(configs) - 1
          /\ \A i \in 1..(Len(configs) - 1) : configs'[i] = configs[i + 1]
      BY <2>1, DeliverFeed DEF DeliverConfigs
    <3>2. \A i \in 1..Len(configs') : i + 1 \in 1..Len(configs) /\ configs'[i] = configs[i + 1]
      BY <3>1
    <3>. QED
      BY <3>1, <3>2
  <2>2. CASE Restart
    <3>1. configs' = <<configs[Len(configs)]>>
      BY <2>2 DEF Restart
    <3>2. Len(configs') = 1 /\ configs'[1] = configs[Len(configs)]
      BY <3>1
    <3>3. Len(configs) - 1 \in Nat /\ 1 + (Len(configs) - 1) = Len(configs)
      OBVIOUS
    <3>4. \A i \in 1..Len(configs') : /\ i + (Len(configs) - 1) \in 1..Len(configs)
                                      /\ configs'[i] = configs[i + (Len(configs) - 1)]
      BY <3>2, <3>3
    <3>5. Stored(configs') = Stored(configs)
      BY <3>2 DEF Stored
    <3>. QED
      BY <3>3, <3>4, <3>5
  <2>. QED
    BY <2>1, <2>2
<1>2. FeedInv(configs')
  BY <1>1, FeedSuffix
<1>3. ConfigsFrom
  BY <1>1 DEF ConfigsFrom
<1>4. (pc' = "idle" /\ list' = {}) \/ UNCHANGED <<pc, cluster, list>>
  BY DEF DeliverConfigs, Restart, Return, Goto, localVars
<1>5. ZeroInv'
  BY <1>1, <1>4 DEF ZeroInv
<1>6. pc' # "deleteAllConfigs" => ListInv'
  <2>1. CASE list' = {}
    BY <2>1, EmptyList DEF ListInv
  <2>2. CASE UNCHANGED <<pc, list>> /\ pc # "deleteAllConfigs"
    <3>1. ListInv
      BY <2>2 DEF Going, PipelineInv
    <3>. QED
      BY <3>1, <2>2, <1>1 DEF ListInv
  <2>. QED
    BY <2>1, <2>2, <1>4
<1>. QED
  BY <1>2, <1>3, <1>5, <1>6 DEF ConfigsGoal

\* Robin's writes.
LEMMA ConfigsRobin ==
  ASSUME Going, NEW c \in Stored(configs),
         RobinStarts(c) \/ RobinSupersedes(c) \/ RobinApplies(c) \/ RobinReports(c)
  PROVE  /\ ConfigsGoal /\ UNCHANGED <<redkeys, robin, pc, cluster, list>>
         /\ Evolves(Stored(configs), Stored(configs'))
<1>. USE GoingFacts
<1>. DEFINE S == Stored(configs)
<1>0. c \in ConfigType /\ \A d \in S : d.sequence \in Nat
  BY ConfigNumbers
<1>1. PICK phase \in ConfigPhases, status \in ConfigStatuses, healthy \in HealthReports :
        /\ RobinWrites(c, phase, status, healthy)
        /\ isTerminalConfigPhase(c.configPhase) => phase = c.configPhase
        /\ phase \in {"InProgress", "Applied"} =>
             \A d \in S : d.sequence < c.sequence => isTerminalConfigPhase(d.configPhase)
  <2>0. /\ c.status \in ConfigStatuses /\ c.healthy \in HealthReports
        /\ {"InProgress", "Superseded", "Applied"} \subseteq ConfigPhases
        /\ {"ScalingToZero", "ScalingUp"} \subseteq ConfigStatuses
    BY <1>0 DEF ConfigType, ConfigPhases, ConfigStatuses, Operations
  <2>1. CASE RobinStarts(c)
    <3>1. c \in Unfinished(S) /\ c = LowestSeq(Unfinished(S))
      BY <2>1 DEF RobinStarts, Unfinished, isTerminalConfigPhase
    <3>2. \A d \in Unfinished(S) : c.sequence <= d.sequence
      BY <3>1, <1>0, LowestSeqExists DEF Sequenced, Unfinished
    <3>3. \A d \in S : d.sequence < c.sequence => isTerminalConfigPhase(d.configPhase)
      BY <3>2, <1>0 DEF Unfinished
    <3>. QED
      BY <2>0, <2>1, <3>3 DEF RobinStarts, isTerminalConfigPhase
  <2>2. CASE RobinSupersedes(c)
    BY <2>0, <2>2 DEF RobinSupersedes, isTerminalConfigPhase
  <2>3. CASE RobinApplies(c) \/ RobinReports(c)
    <3>1. c.configPhase \in {"InProgress", "Applied"}
      BY <2>3 DEF RobinApplies, RobinReports
    <3>2. \A d \in S : d.sequence < c.sequence => isTerminalConfigPhase(d.configPhase)
      BY <3>1 DEF WellFormed
    <3>. QED
      BY <2>0, <2>3, <3>1, <3>2, StatusesAssumption, ReportsAssumption
         DEF RobinApplies, RobinReports, isTerminalConfigPhase
  <2>. QED
    BY <2>1, <2>2, <2>3
<1>. DEFINE e == [c EXCEPT !.configPhase = phase, !.status = status, !.healthy = healthy]
            T == (S \ {c}) \cup {e}
<1>2. configs' = Publish(configs, T, ConfigLag) /\ UNCHANGED <<redkeys, robin, pc, cluster, list>>
  BY <1>1 DEF RobinWrites, WriteConfigs, localVars
<1>3. Evolves(S, T) /\ WellFormed(T)
  BY <1>1, RobinEvolves
<1>4. e \in ConfigType
  BY <1>0 DEF ConfigType
<1>. HIDE DEF e
<1>5. T \in ConfigSets
  BY <1>4, ConfigSetsClosed
<1>. HIDE DEF T
<1>6. Stored(configs') = T
  BY <1>2, <1>5, PublishFeed, SMTT(30)
<1>7. /\ \A i \in 1..Len(configs) : Follows(configs[i], T) /\ Kept(configs[i], T)
      /\ NoGapAbove(Cached(configs), T)
  BY <1>3, <1>5, EvolvesKeeps
<1>8. FeedInv(configs')
  BY <1>2, <1>3, <1>5, <1>7, FeedPublish
<1>9. ASSUME pc' # "deleteAllConfigs" PROVE ListInv'
  <2>1. ListInv
    BY <1>2, <1>9 DEF Going, PipelineInv
  <2>2. Follows(list, S)
    BY <2>1 DEF ListInv
  <2>3. Follows(list, T) /\ Kept(list, T)
    BY <2>1, <2>2, <1>3, <1>5, EvolvesKeeps DEF ListInv
  <2>4. \A i \in 1..Len(configs') : Follows(list, configs'[i])
    BY <2>1, <2>3, <1>2, <1>3, <1>5, <1>7, FeedPublish DEF ListInv
  <2>. QED
    BY <2>1, <2>3, <2>4, <1>2, <1>6 DEF ListInv
<1>10. ZeroInv'
  <2>1. /\ Mirrors(list, S) => Mirrors(list, T)
        /\ Unfinished(S) = {} => Unfinished(T) = {}
    BY <1>3, <1>5, EvolvesKeeps
  <2>. QED
    BY <2>1, <1>2, <1>6 DEF ZeroInv
<1>11. ConfigsFrom
  BY <1>3, <1>6 DEF ConfigsFrom, Evolves, SameWork
<1>. QED
  BY <1>2, <1>3, <1>6, <1>8, <1>9, <1>10, <1>11 DEF ConfigsGoal

\* Creating a config on top of the stored ones, by a reconcile that keeps no list.
LEMMA ConfigsCreate ==
  ASSUME Going, NEW c \in ConfigType, CreateConfig(c), pc # "idle",
         c.generation = cluster.generation, c.primaries = cluster.primaries,
         (\A d \in Stored(configs) : d.sequence # c.sequence) =>
           /\ OnTop(c, Stored(configs))
           /\ Cached(configs) = {} => c.sequence = 1
           /\ Cached(configs) # {} => \E h \in Cached(configs) : c.sequence = h.sequence + 1,
         list' = {}, pc' \in {"idle", "listConfigs"}
  PROVE  ConfigsGoal
<1>. USE GoingFacts
<1>1. ZeroInv'
  BY DEF ZeroInv
<1>2. CASE UNCHANGED configs
  BY <1>1, <1>2, ConfigsUnchanged DEF ConfigsGoal
<1>3. CASE (\A d \in Stored(configs) : d.sequence # c.sequence)
           /\ WriteConfigs(Stored(configs) \cup {c})
  <2>. DEFINE T == Stored(configs) \cup {c}
  <2>1. T \in ConfigSets
    BY ConfigSetsClosed
  <2>2. WellFormed(T)
    BY <1>3, CreateKeeps
  <2>3. \A i \in 1..Len(configs) : Follows(configs[i], T) /\ Kept(configs[i], T)
    BY <1>3, CreateKeeps
  <2>4. NoGapAbove(Cached(configs), T)
    BY <1>3, CreateKeeps
  <2>5. configs' = Publish(configs, T, ConfigLag)
    BY <1>3 DEF WriteConfigs
  <2>. HIDE DEF T
  <2>6. FeedInv(configs') /\ Stored(configs') = T
    <3>1. Stored(configs') = T
      <4>1. configs \in Seq(ConfigSets) /\ configs # <<>> /\ ConfigLag \in Nat
        OBVIOUS
      <4>. HIDE GoingFacts
      <4>. QED
        BY <4>1, <2>1, <2>5, PublishFeed, SMTT(30)
    <3>2. FeedInv(Publish(configs, T, ConfigLag))
      BY <2>1, <2>2, <2>3, <2>4, FeedPublish
    <3>. QED
      BY <2>5, <3>1, <3>2
  <2>7. ConfigsFrom
    BY <2>6 DEF ConfigsFrom, T
  <2>8. ListInv'
    BY EmptyList DEF ListInv
  <2>. QED
    BY <1>1, <2>6, <2>7, <2>8 DEF ConfigsGoal
<1>. QED
  BY <1>2, <1>3 DEF CreateConfig

\* The first and the last config of a list, by sequence.
LEMMA ListEnds ==
  ASSUME NEW X \in ConfigSets, X # {}
  PROVE  /\ HighestSeq(X) \in X /\ \A d \in X : d.sequence <= HighestSeq(X).sequence
         /\ LowestSeq(X) \in X /\ \A d \in X : LowestSeq(X).sequence <= d.sequence
<1>1. Sequenced(X) /\ IsFiniteSet(X)
  BY ConfigNumbers DEF Sequenced, ConfigSets
<1>. QED
  BY <1>1, HighestSeqExists, LowestSeqExists

\* createNewConfig on a list that may be stale: a name that is free is the next
\* one, and no stored config is of the generation it is for.
LEMMA NewConfigOnTop ==
  ASSUME Going, pc = "createNewConfig", NEW l, l = Cached(configs),
         l # {} => needsNewConfig(cluster, HighestSeq(l)),
         NEW c, c = NewConfig(cluster, l),
         \A d \in Stored(configs) : d.sequence # c.sequence
  PROVE  /\ OnTop(c, Stored(configs))
         /\ l = {} => c.sequence = 1
         /\ l # {} => \E h \in l : c.sequence = h.sequence + 1
<1>. DEFINE S == Stored(configs)
<1>1. /\ l \in ConfigSets /\ S \in ConfigSets /\ WellFormed(S)
      /\ Follows(l, S) /\ NoGapAbove(l, S)
  <2>1. /\ Cached(configs) \in ConfigSets /\ S \in ConfigSets /\ WellFormed(S)
        /\ Follows(Cached(configs), S) /\ NoGapAbove(Cached(configs), S)
    BY GoingFacts
  <2>. QED
    BY <2>1
<1>2. /\ \A d \in S : d.sequence \in Nat /\ d.generation \in Nat
      /\ \A d \in l : d.sequence \in Nat /\ d.generation \in Nat
  BY <1>1, ConfigNumbers
<1>0. /\ \A d \in S : d.sequence >= 1
      /\ \A d, e \in S : /\ d.sequence = e.sequence => d = e
                         /\ d.sequence < e.sequence => d.generation < e.generation
  BY <1>1 DEF WellFormed
<1>3. cluster.generation \in Nat /\ cluster.primaries \in Primaries
  <2>1. cluster \in Copies
    BY DEF Copies
  <2>2. CopiesInv /\ TypeInv
    BY GoingFacts DEF Going
  <2>. QED
    BY <2>1, <2>2, ObservedTypes DEF CopiesInv
<1>4. /\ c.generation = cluster.generation /\ c.primaries = cluster.primaries
      /\ c.configPhase = "Pending"
      /\ c.sequence = IF l = {} THEN 1 ELSE HighestSeq(l).sequence + 1
  BY DEF NewConfig
<1>. HIDE DEF S
<1>5. CASE l = {}
  <2>1. c.sequence = 1
    BY <1>4, <1>5
  <2>2. S = {}
    <3>. SUFFICES ASSUME NEW d \in S PROVE FALSE
      OBVIOUS
    <3>1. 1 \in 1..d.sequence
      BY <1>0, <1>2, SMTT(30)
    <3>2. \E e \in S : e.sequence = 1
      BY <3>1, <1>1, <1>5 DEF NoGapAbove
    <3>. QED
      BY <3>2, <2>1 DEF S
  <2>3. OnTop(c, S)
    BY <2>1, <2>2, <1>3, <1>4, SMTT(30) DEF OnTop
  <2>. QED
    BY <2>1, <2>3, <1>5 DEF S
<1>6. CASE l # {}
  <2>. DEFINE h == HighestSeq(l)
  <2>1. h \in l /\ \A d \in l : d.sequence <= h.sequence
    BY <1>1, <1>6, ListEnds
  <2>2. c.sequence = h.sequence + 1 /\ h.generation < cluster.generation
    BY <1>4, <1>6 DEF needsNewConfig
  <2>. HIDE DEF h
  <2>3. ASSUME NEW d \in S PROVE d.sequence < c.sequence
    <3>. SUFFICES ASSUME c.sequence <= d.sequence PROVE FALSE
      BY <1>2, <2>1, <2>2
    <3>1. c.sequence \in 1..d.sequence
      BY <1>2, <2>1, <2>2
    <3>2. \A x \in l : x.sequence < c.sequence
      BY <1>2, <2>1, <2>2
    <3>3. \E e \in S : e.sequence = c.sequence
      BY <3>1, <3>2, <1>1 DEF NoGapAbove
    <3>. QED
      BY <3>3 DEF S
  <2>4. PICK e \in S : h.sequence <= e.sequence
    BY <1>1, <2>1 DEF Follows
  <2>5. e.sequence = h.sequence
    BY <1>2, <2>1, <2>2, <2>3, <2>4
  <2>6. e.generation = h.generation
    BY <1>1, <2>1, <2>5 DEF Follows, SameWork
  <2>7. ASSUME NEW d \in S PROVE d.generation < c.generation
    <3>1. d.sequence <= e.sequence
      BY <1>2, <2>1, <2>2, <2>3, <2>5
    <3>2. d.generation <= e.generation
      <4>1. d.sequence \in Nat /\ e.sequence \in Nat /\ d.generation \in Nat /\ e.generation \in Nat
        BY <1>2
      <4>2. CASE d.sequence = e.sequence
        <5>1. d = e
          BY <4>2, <1>0
        <5>. QED
          BY <5>1, <4>1
      <4>3. CASE d.sequence < e.sequence
        <5>1. d.generation < e.generation
          BY <4>3, <1>0
        <5>. QED
          BY <5>1, <4>1
      <4>. QED
        BY <3>1, <4>1, <4>2, <4>3, SMTT(30)
    <3>3. d.generation \in Nat /\ e.generation \in Nat /\ c.generation \in Nat
      BY <1>2, <1>3, <1>4
    <3>4. e.generation < c.generation
      BY <2>2, <2>6, <1>4
    <3>. QED
      BY <3>2, <3>3, <3>4, SMTT(30)
  <2>8. c.sequence >= 1
    BY <1>2, <2>1, <2>2
  <2>9. OnTop(c, S)
    BY <2>3, <2>7, <2>8, <1>3, <1>4 DEF OnTop
  <2>. QED
    BY <2>1, <2>2, <2>9, <1>6 DEF S
<1>. QED
  BY <1>5, <1>6

\* Case B of scale-to-zero: nothing has been created or deleted since the list.
LEMMA ZeroConfigOnTop ==
  ASSUME Going, pc = "createZeroConfig", NEW c, c = NewConfig(cluster, list)
  PROVE  /\ OnTop(c, Stored(configs)) /\ Cached(configs) # {}
         /\ \E h \in Cached(configs) : c.sequence = h.sequence + 1
<1>. DEFINE S == Stored(configs)
            h == HighestSeq(list)
<1>1. /\ cluster.primaries = 0 /\ list # {} /\ h.primaries # 0
      /\ Mirrors(list, S)
  BY GoingFacts DEF ControlInv, ZeroInv
<1>2. cluster \in Copies
  BY DEF Copies
<1>3. /\ cluster.generation \in Nat /\ cluster.primaries \in Primaries
      /\ \A d \in S : /\ d.generation <= cluster.generation
                      /\ d.generation = cluster.generation => d.primaries = cluster.primaries
  <2>1. CopiesInv /\ TypeInv
    BY GoingFacts DEF Going
  <2>. QED
    BY <2>1, <1>2, ObservedTypes DEF CopiesInv
<1>4. Cached(configs) = S
  BY <1>1, <1>3, NoLag
<1>5. /\ list \in ConfigSets /\ S \in ConfigSets /\ WellFormed(S) /\ Follows(list, S)
  <2>1. ListInv
    BY DEF Going, PipelineInv
  <2>. QED
    BY <2>1, GoingFacts DEF ListInv
<1>6. /\ \A d \in S : d.sequence \in Nat /\ d.generation \in Nat
      /\ \A d \in list : d.sequence \in Nat
  BY <1>5, ConfigNumbers
<1>7. h \in list /\ \A d \in list : d.sequence <= h.sequence
  BY <1>1, <1>5, ListEnds
<1>8. /\ c.generation = cluster.generation /\ c.primaries = cluster.primaries
      /\ c.configPhase = "Pending" /\ c.sequence = h.sequence + 1
  BY <1>1 DEF NewConfig
<1>. HIDE DEF S, h
<1>9. PICK e \in S : e.sequence = h.sequence
  BY <1>1, <1>7 DEF Mirrors
<1>10. e.primaries = h.primaries
  BY <1>5, <1>7, <1>9 DEF Follows, SameWork
<1>11. e.generation < c.generation
  BY <1>1, <1>3, <1>6, <1>8, <1>10
<1>12. ASSUME NEW d \in S PROVE d.sequence < c.sequence /\ d.generation < c.generation
  <2>1. d.sequence <= h.sequence
    BY <1>1, <1>7 DEF Mirrors
  <2>2. d.generation <= e.generation
    <3>1. CASE d.sequence = e.sequence
      BY <3>1, <1>5, <1>6 DEF WellFormed
    <3>2. CASE d.sequence < e.sequence
      BY <3>2, <1>5, <1>6 DEF WellFormed
    <3>. QED
      BY <2>1, <3>1, <3>2, <1>6, <1>7, <1>9
  <2>. QED
    BY <2>1, <2>2, <1>3, <1>6, <1>7, <1>8, <1>11
<1>13. OnTop(c, S)
  <2>1. c.sequence >= 1
    BY <1>6, <1>7, <1>8
  <2>. QED
    BY <2>1, <1>3, <1>8, <1>12 DEF OnTop
<1>. QED
  BY <1>4, <1>8, <1>9, <1>13 DEF S

\* createNewConfig, with a creation, and case B of scale-to-zero.
LEMMA ConfigsCreateSteps ==
  ASSUME Going,
         \/ CreateZeroConfig
         \/ /\ pc = "createNewConfig"
            /\ Cached(configs) # {} => needsNewConfig(cluster, HighestSeq(Cached(configs)))
            /\ CreateConfig(NewConfig(cluster, Cached(configs)))
            /\ Goto("listConfigs", cluster, {})
  PROVE  ConfigsGoal
<1>0. /\ cluster \in RedkeyType /\ list \in ConfigSets /\ Cached(configs) \in ConfigSets
  BY GoingFacts DEF Going, TypeInv
<1>1. CASE CreateZeroConfig
  <2>. DEFINE c == NewConfig(cluster, list)
  <2>1. c \in ConfigType
    BY <1>0, NewConfigType
  <2>2. c.generation = cluster.generation /\ c.primaries = cluster.primaries
    BY DEF NewConfig
  <2>3. /\ CreateConfig(c) /\ pc = "createZeroConfig" /\ list' = {} /\ pc' = "idle"
    BY <1>1 DEF CreateZeroConfig, Return, Goto
  <2>4. /\ OnTop(c, Stored(configs)) /\ Cached(configs) # {}
        /\ \E h \in Cached(configs) : c.sequence = h.sequence + 1
    BY <2>3, ZeroConfigOnTop
  <2>. HIDE DEF c
  <2>. QED
    BY <2>1, <2>2, <2>3, <2>4, ConfigsCreate
<1>2. CASE /\ pc = "createNewConfig"
           /\ Cached(configs) # {} => needsNewConfig(cluster, HighestSeq(Cached(configs)))
           /\ CreateConfig(NewConfig(cluster, Cached(configs)))
           /\ Goto("listConfigs", cluster, {})
  <2>. DEFINE c == NewConfig(cluster, Cached(configs))
  <2>1. c \in ConfigType
    BY <1>0, NewConfigType
  <2>2. c.generation = cluster.generation /\ c.primaries = cluster.primaries
    BY DEF NewConfig
  <2>3. CreateConfig(c) /\ pc = "createNewConfig" /\ list' = {} /\ pc' = "listConfigs"
    BY <1>2 DEF Goto
  <2>4. (\A d \in Stored(configs) : d.sequence # c.sequence) =>
           /\ OnTop(c, Stored(configs))
           /\ Cached(configs) = {} => c.sequence = 1
           /\ Cached(configs) # {} => \E h \in Cached(configs) : c.sequence = h.sequence + 1
    BY <1>2, NewConfigOnTop
  <2>. HIDE DEF c
  <2>. QED
    BY <2>1, <2>2, <2>3, <2>4, ConfigsCreate
<1>. QED
  BY <1>1, <1>2

\* What cleanupSupersededConfigs deletes: the first name of a list that shows an
\* Applied config above it.
LEMMA CleanupTarget ==
  ASSUME Going, pc = "cleanupSupersededConfigs"
  PROVE  /\ ListInv /\ list # {} /\ LowestSeq(list) \in list /\ LowestSeq(list).sequence \in Nat
         /\ \E a \in list : a.configPhase = "Applied" /\ LowestSeq(list).sequence < a.sequence
<1>1. ListInv
  BY DEF Going, PipelineInv
<1>2. list \in ConfigSets /\ SupersededConfigs(list) # {}
  BY GoingFacts DEF ControlInv
<1>3. PICK s \in list, a \in list : a.configPhase = "Applied" /\ s.sequence < a.sequence
  BY <1>2 DEF SupersededConfigs
<1>4. LowestSeq(list) \in list /\ LowestSeq(list).sequence <= s.sequence
  BY <1>2, <1>3, ListEnds
<1>5. \A d \in list : d.sequence \in Nat
  BY <1>2, ConfigNumbers
<1>6. LowestSeq(list).sequence < a.sequence
  BY <1>3, <1>4, <1>5
<1>. QED
  BY <1>1, <1>3, <1>4, <1>5, <1>6

\* One delete of cleanupSupersededConfigs.
LEMMA ConfigsCleanup ==
  ASSUME Going, CleanupSupersededConfigs
  PROVE  ConfigsGoal
<1>. DEFINE S == Stored(configs)
            n == LowestSeq(list).sequence
            T == {d \in S : d.sequence # n}
            m == list \ {LowestSeq(list)}
<1>1. pc = "cleanupSupersededConfigs" /\ DeleteConfig(LowestSeq(list)) /\ AfterList(cluster, m)
  BY DEF CleanupSupersededConfigs
<1>2. /\ ListInv /\ list # {} /\ n \in Nat
      /\ \E a \in list : a.configPhase = "Applied" /\ n < a.sequence
  BY <1>1, CleanupTarget
<1>3. PICK a \in list : a.configPhase = "Applied" /\ n < a.sequence
  BY <1>2
<1>4. /\ list \in ConfigSets /\ S \in ConfigSets /\ Cached(configs) \in ConfigSets
      /\ \A i \in 1..Len(configs) :
           /\ configs[i] \in ConfigSets /\ Follows(list, configs[i])
           /\ Follows(configs[i], S) /\ Kept(configs[i], S)
      /\ Follows(list, S) /\ Follows(list, Cached(configs))
      /\ WellFormed(S) /\ NoGapAbove(Cached(configs), S)
  <2>1. \A i \in 1..Len(configs) : Follows(list, configs[i])
    BY <1>2 DEF ListInv
  <2>2. /\ Len(configs) \in Nat \ {0} /\ S = configs[Len(configs)] /\ Cached(configs) = configs[1]
    BY GoingFacts
  <2>3. Follows(list, S) /\ Follows(list, Cached(configs))
    BY <2>1, <2>2
  <2>. QED
    BY <2>1, <2>3, GoingFacts
<1>5. T \in ConfigSets
  BY <1>4, ConfigSetsClosed
<1>6. configs' = Publish(configs, T, ConfigLag)
  BY <1>1 DEF DeleteConfig, WriteConfigs
<1>7. Kept(m, T)
  BY <1>2, <1>4, CleanupKeepsList DEF ListInv
<1>. HIDE DEF T, S, n
<1>8. \A X \in ConfigSets :
        /\ WellFormed(S) => WellFormed(T)
        /\ Follows(X, S) => Follows(X, T)
        /\ Follows(list, X) /\ Kept(X, S) => Kept(X, T)
        /\ Follows(list, X) /\ NoGapAbove(X, S) => NoGapAbove(X, T)
  <2>1. n \in Nat /\ n < a.sequence /\ T = {d \in S : d.sequence # n}
    BY <1>2, <1>3 DEF T
  <2>2. /\ S \in ConfigSets /\ list \in ConfigSets /\ a \in list
        /\ a.configPhase = "Applied" /\ Follows(list, S)
    BY <1>3, <1>4
  <2>3. ASSUME NEW X \in ConfigSets
        PROVE  /\ WellFormed(S) => WellFormed(T)
               /\ Follows(X, S) => Follows(X, T)
               /\ Follows(list, X) /\ Kept(X, S) => Kept(X, T)
               /\ Follows(list, X) /\ NoGapAbove(X, S) => NoGapAbove(X, T)
    BY <2>1, <2>2, CleanupKeeps
  <2>. QED
    BY <2>3
<1>9. /\ WellFormed(T) /\ NoGapAbove(Cached(configs), T) /\ Follows(list, T)
      /\ \A i \in 1..Len(configs) : Follows(configs[i], T) /\ Kept(configs[i], T)
  BY <1>4, <1>8
<1>10. /\ configs \in Seq(ConfigSets) /\ configs # <<>> /\ FeedInv(configs) /\ ConfigLag \in Nat
  BY GoingFacts
<1>11. FeedInv(configs') /\ Stored(configs') = T
       /\ \A i \in 1..Len(configs') : Follows(list, configs'[i])
  <2>1. Stored(configs') = T
    BY <1>5, <1>6, <1>10, PublishFeed
  <2>. DEFINE P == Publish(configs, T, ConfigLag)
  <2>2. /\ FeedInv(P)
        /\ \A X : (\A i \in 1..Len(configs) : Follows(X, configs[i])) /\ Follows(X, T)
                  => \A i \in 1..Len(P) : Follows(X, P[i])
    BY <1>5, <1>9, <1>10, FeedPublish
  <2>3. \A i \in 1..Len(P) : Follows(list, P[i])
    BY <2>2, <1>4, <1>9
  <2>. QED
    BY <2>1, <2>2, <2>3, <1>6
<1>12. list' \in {{}, m} /\ cluster.primaries # 0
       /\ pc' \in {"idle", "cleanupSupersededConfigs", "aggregateStatus"}
       /\ (pc' # "idle" => cluster' = cluster)
  BY <1>1, GoingFacts DEF AfterList, Return, Goto, ControlInv
<1>13. ListInv'
  <2>1. CASE list' = {}
    BY <2>1, EmptyList DEF ListInv
  <2>2. CASE list' = m
    <3>1. WellFormed(m) /\ \A i \in 1..Len(configs') : Follows(m, configs'[i])
      BY <1>2, <1>11, SubList DEF ListInv
    <3>. QED
      BY <3>1, <2>2, <1>7, <1>11 DEF ListInv
  <2>. QED
    BY <2>1, <2>2, <1>12
<1>14. ZeroInv'
  BY <1>12 DEF ZeroInv
<1>15. ConfigsFrom
  BY <1>11 DEF ConfigsFrom, T, S
<1>. QED
  BY <1>11, <1>13, <1>14, <1>15 DEF ConfigsGoal

\* A write through an informer that does not lag.
LEMMA PublishNoLag ==
  ASSUME NEW S, NEW T
  PROVE  Publish(<<S>>, T, 0) = <<T>>
<1>. DEFINE f == <<S>>
<1>1. Len(f) = 1 /\ Stored(f) = S /\ Tail(f) = <<>> /\ Append(<<>>, T) = <<T>>
  BY DEF Stored
<1>2. Publish(f, T, 0) = IF T = S THEN f ELSE Append(Tail(f), T)
  <2>. HIDE DEF f
  <2>. QED
    BY <1>1 DEF Publish
<1>. QED
  BY <1>1, <1>2

\* A reconcile on the scale-to-zero path: the config informer does not lag.
LEMMA ZeroNoLag ==
  ASSUME Going, pc # "idle", cluster.primaries = 0
  PROVE  /\ ConfigLag = 0 /\ Cached(configs) = Stored(configs)
         /\ configs = <<Stored(configs)>>
<1>1. CopiesInv /\ cluster \in Copies
  BY GoingFacts DEF Copies
<1>2. 0 \in Primaries
  BY <1>1 DEF CopiesInv
<1>. QED
  BY <1>2, NoLag

\* One delete of case C of scale-to-zero.
LEMMA ConfigsDeleteAll ==
  ASSUME Going, DeleteAllConfigs
  PROVE  ConfigsGoal
<1>. DEFINE S == Stored(configs)
<1>1. PICK c \in list : DeleteConfig(c) /\ AfterDelete(list \ {c})
  BY DEF DeleteAllConfigs
<1>2. pc = "deleteAllConfigs" /\ cluster.primaries = 0 /\ Unfinished(S) = {}
  BY GoingFacts DEF DeleteAllConfigs, ControlInv, ZeroInv
<1>3. ConfigLag = 0 /\ configs = <<S>> /\ S \in ConfigSets /\ WellFormed(S)
  BY <1>2, ZeroNoLag, GoingFacts
<1>. DEFINE T == {d \in S : d.sequence # c.sequence}
<1>. HIDE DEF S
<1>4. configs' = <<T>>
  BY <1>1, <1>3, PublishNoLag DEF DeleteConfig, WriteConfigs, S
<1>5. T \in ConfigSets /\ T \subseteq S
  BY <1>3, ConfigSetsClosed
<1>. HIDE DEF T
<1>6. WellFormed(T)
  BY <1>3, <1>5, SubList
<1>7. FeedInv(configs') /\ Stored(configs') = T
  BY <1>4, <1>5, <1>6, FeedSingle
<1>8. Unfinished(T) = {}
  BY <1>2, <1>5 DEF Unfinished
<1>9. pc' = "deleteAllConfigs" \/ (pc' = "updateStatusScaledToZero" /\ list' = {})
  BY <1>1 DEF AfterDelete, Goto
<1>10. pc' # "deleteAllConfigs" => ListInv'
  BY <1>9, EmptyList DEF ListInv
<1>11. ZeroInv'
  BY <1>7, <1>8, <1>9 DEF ZeroInv
<1>12. ConfigsFrom
  BY <1>5, <1>7 DEF ConfigsFrom, S
<1>. QED
  BY <1>7, <1>10, <1>11, <1>12 DEF ConfigsGoal

\* Case C of scale-to-zero: the newest config is Applied, so all below it are done.
LEMMA ScaledToZeroAllDone ==
  ASSUME NEW X \in ConfigSets, WellFormed(X), X # {}, ScaleToZeroDone(HighestSeq(X))
  PROVE  Unfinished(X) = {}
<1>1. HighestSeq(X) \in X /\ \A d \in X : d.sequence <= HighestSeq(X).sequence
  BY ListEnds
<1>2. HighestSeq(X).configPhase = "Applied"
  BY DEF ScaleToZeroDone
<1>3. \A d \in X : d.sequence \in Nat
  BY ConfigNumbers
<1>. DEFINE h == HighestSeq(X)
<1>. HIDE DEF h
<1>4. \A d \in X : isTerminalConfigPhase(d.configPhase)
  <2>. SUFFICES ASSUME NEW d \in X PROVE isTerminalConfigPhase(d.configPhase)
    OBVIOUS
  <2>1. CASE d.sequence < h.sequence
    BY <2>1, <1>1, <1>2 DEF WellFormed, h
  <2>2. CASE d.sequence = h.sequence
    BY <2>2, <1>1, <1>2 DEF WellFormed, isTerminalConfigPhase, h
  <2>. QED
    BY <2>1, <2>2, <1>1, <1>3 DEF h
<1>. QED
  BY <1>4 DEF Unfinished

\* The start of a reconcile.
LEMMA ConfigsStart ==
  ASSUME Going, StartReconcile
  PROVE  ConfigsGoal
<1>. DEFINE c == Cached(redkeys)
            S == Stored(configs)
            l == Cached(configs)
<1>1. /\ UNCHANGED configs /\ cluster' = c /\ pc = "idle"
      /\ list' = {} \/ list' = l
      /\ pc' \in {"ensureRBAC", "updateStatusScaledToZero", "deleteRobinDeployment"}
      /\ pc' = "deleteRobinDeployment" => c.primaries = 0 /\ l # {} /\ ScaleToZeroDone(HighestSeq(l))
      /\ pc' = "updateStatusScaledToZero" => c.primaries = 0 /\ l = {}
      /\ pc' = "ensureRBAC" /\ c.primaries = 0 => list' = l
  BY DEF StartReconcile, Goto, storeVars
<1>2. FeedInv(configs') /\ ListInv' /\ ConfigsFrom
  BY <1>1, ConfigsUnchanged
<1>3. c.primaries = 0 => l = S
  <2>1. c \in Copies /\ CopiesInv
    BY GoingFacts, FeedVersions DEF Copies, Going, TypeInv
  <2>. QED
    BY <2>1, NoLag DEF CopiesInv
<1>4. S \in ConfigSets /\ WellFormed(S)
  BY GoingFacts
<1>5. Mirrors(S, S)
  BY <1>4, FollowsItself
<1>6. pc' \in {"deleteRobinDeployment", "updateStatusScaledToZero"} => Unfinished(S) = {}
  BY <1>1, <1>3, <1>4, ScaledToZeroAllDone DEF Unfinished
<1>. HIDE DEF c, S, l
<1>7. Stored(configs') = S
  BY <1>1 DEF S
<1>8. ZeroInv'
  BY <1>1, <1>3, <1>5, <1>6, <1>7 DEF ZeroInv
<1>. QED
  BY <1>2, <1>8 DEF ConfigsGoal

\* The steps of a reconcile that leave the configs alone.
LEMMA ConfigsLocal ==
  ASSUME Going,
         \/ EnsureRBAC \/ EnsureRobinDeployment \/ ListConfigs
         \/ DeleteRobinDeployment \/ DeleteRBAC \/ ListAllConfigs
         \/ CreateNewConfig /\ UNCHANGED configs /\ AfterList(cluster, Cached(configs))
  PROVE  ConfigsGoal
<1>. DEFINE S == Stored(configs)
            l == Cached(configs)
<1>0. ZeroInv /\ ControlInv
  BY GoingFacts
<1>1. UNCHANGED configs
  BY DEF EnsureRBAC, EnsureRobinDeployment, ListConfigs, DeleteRobinDeployment, DeleteRBAC,
         ListAllConfigs, storeVars
<1>2. CASE Return
  BY <1>1, <1>2, ConfigsReturn
<1>3. CASE EnsureRBAC /\ Goto("ensureRobinDeployment", cluster, list)
  <2>1. pc = "ensureRBAC" /\ UNCHANGED <<cluster, list>> /\ pc' = "ensureRobinDeployment"
    BY <1>3 DEF EnsureRBAC, Goto
  <2>2. ZeroInv'
    BY <2>1, <1>0, <1>1 DEF ZeroInv
  <2>. QED
    BY <2>1, <2>2, <1>1, ConfigsUnchanged DEF ConfigsGoal
<1>4. CASE EnsureRobinDeployment /\ AfterEnsure
  <2>1. /\ pc = "ensureRobinDeployment" /\ UNCHANGED <<cluster, list>>
        /\ pc' \in {"createNewConfig", "createZeroConfig", "aggregateStatus"}
    BY <1>4 DEF EnsureRobinDeployment, AfterEnsure, Goto
  <2>2. ZeroInv'
    BY <2>1, <1>0, <1>1 DEF ZeroInv
  <2>. QED
    BY <2>1, <2>2, <1>1, ConfigsUnchanged DEF ConfigsGoal
<1>5. CASE (ListConfigs \/ CreateNewConfig) /\ AfterList(cluster, l)
  <2>1. cluster.primaries # 0
    BY <1>5, <1>0 DEF ListConfigs, CreateNewConfig, ControlInv
  <2>2. CASE l # {}
    <3>1. /\ list' = l /\ UNCHANGED cluster
          /\ pc' \in {"cleanupSupersededConfigs", "aggregateStatus"}
      BY <2>2, <1>5 DEF AfterList, Goto
    <3>2. ZeroInv'
      BY <3>1, <2>1 DEF ZeroInv
    <3>. QED
      BY <3>1, <3>2, <1>1, ConfigsUnchanged DEF ConfigsGoal
  <2>. QED
    BY <2>2, <1>2, <1>5 DEF AfterList
<1>6. CASE DeleteRobinDeployment \/ (DeleteRBAC /\ Goto("listAllConfigs", cluster, {}))
  <2>1. /\ pc \in {"deleteRobinDeployment", "deleteRBAC"} /\ list' \in {{}, list}
        /\ pc' \in {"deleteRBAC", "listAllConfigs"}
    BY <1>6 DEF DeleteRobinDeployment, DeleteRBAC, Goto
  <2>2. ZeroInv'
    BY <2>1, <1>0, <1>1 DEF ZeroInv
  <2>. QED
    BY <2>1, <2>2, <1>1, ConfigsUnchanged DEF ConfigsGoal
<1>7. CASE ListAllConfigs
  <2>1. /\ pc = "listAllConfigs" /\ list' = l
        /\ pc' \in {"updateStatusScaledToZero", "deleteAllConfigs"}
    BY <1>7 DEF ListAllConfigs, AfterDelete, Goto
  <2>2. ZeroInv'
    BY <2>1, <1>0, <1>1 DEF ZeroInv
  <2>. QED
    BY <2>1, <2>2, <1>1, ConfigsUnchanged DEF ConfigsGoal
<1>. QED
  BY <1>2, <1>3, <1>4, <1>5, <1>6, <1>7
     DEF EnsureRBAC, EnsureRobinDeployment, ListConfigs, DeleteRBAC

\* Every step of a Redkey that is not deleted.
LEMMA ConfigsStep ==
  ASSUME Going, [Next]_vars
  PROVE  ConfigsGoal
<1>1. CASE ReconcileStep
  <2>1. CASE CreateNewConfig
    BY <2>1, ConfigsCreateSteps, ConfigsLocal DEF CreateNewConfig
  <2>2. CASE CreateZeroConfig
    BY <2>2, ConfigsCreateSteps
  <2>3. CASE AggregateStatus \/ UpdateStatusScaledToZero
    BY <2>3, ConfigsReturn DEF AggregateStatus, UpdateStatusScaledToZero
  <2>4. CASE ReconcileGone
    BY <2>4, ConfigsFrame DEF ReconcileGone, vars
  <2>5. CASE EnsureRBAC \/ EnsureRobinDeployment \/ ListConfigs
             \/ DeleteRobinDeployment \/ DeleteRBAC \/ ListAllConfigs
    BY <2>5, ConfigsLocal
  <2>. QED
    BY <1>1, <2>1, <2>2, <2>3, <2>4, <2>5, ConfigsStart, ConfigsCleanup, ConfigsDeleteAll
       DEF ReconcileStep
<1>2. CASE (\E p \in Primaries : EditSpec(p)) \/ DeleteRedkey \/ DeliverRedkey
           \/ (\E o \in RobinObjects : DeliverRobin(o)) \/ UNCHANGED vars
  <2>1. UNCHANGED <<configs, pc, cluster, list>>
    BY <1>2 DEF EditSpec, DeleteRedkey, DeliverRedkey, DeliverRobin, storeVars, localVars, vars
  <2>. QED
    BY <2>1, ConfigsFrame
<1>3. CASE DeliverConfigs \/ Restart
  BY <1>3, ConfigsSuffix
<1>4. CASE ReconcileFails
  BY <1>4, ConfigsReturn DEF ReconcileFails, storeVars
<1>5. CASE RobinActs
  BY <1>5, ConfigsRobin DEF RobinActs, RobinStep
<1>6. CASE Collect
  BY <1>6 DEF Collect, CollectConfig, CollectRobin, Going, Alive
<1>. QED
  BY <1>1, <1>2, <1>3, <1>4, <1>5, <1>6 DEF Next, Deliver

\* The config informer that does not lag.
LEMMA LengthStep ==
  ASSUME TypeInv, ConfigLag = 0, Len(configs) = 1, [Next]_vars
  PROVE  Len(configs') = 1
<1>1. CASE UNCHANGED configs
  BY <1>1
<1>2. ASSUME NEW T, WriteConfigs(T) PROVE Len(configs') = 1
  <2>1. configs = <<configs[1]>>
    BY DEF TypeInv
  <2>2. configs' = <<T>>
    BY <2>1, <1>2, PublishNoLag DEF WriteConfigs
  <2>. QED
    BY <2>2
<1>3. CASE ReconcileStep
  <2>1. CASE CreateNewConfig \/ CreateZeroConfig
    BY <2>1, <1>1, <1>2 DEF CreateNewConfig, CreateZeroConfig, CreateConfig
  <2>2. CASE CleanupSupersededConfigs \/ DeleteAllConfigs
    BY <2>2, <1>2 DEF CleanupSupersededConfigs, DeleteAllConfigs, DeleteConfig
  <2>. QED
    BY <1>1, <1>3, <2>1, <2>2
     DEF ReconcileStep, StartReconcile, ReconcileGone, EnsureRBAC, EnsureRobinDeployment,
         ListConfigs, AggregateStatus, UpdateStatusScaledToZero,
         DeleteRobinDeployment, DeleteRBAC, ListAllConfigs, storeVars, vars
<1>4. CASE Restart
  BY <1>4 DEF Restart
<1>5. CASE RobinActs
  BY <1>5, <1>2 DEF RobinActs, RobinStep, RobinStarts, RobinSupersedes, RobinApplies,
         RobinReports, RobinWrites
<1>6. CASE Collect
  BY <1>6, <1>1, <1>2 DEF Collect, CollectConfig, CollectRobin
<1>7. CASE (\E p \in Primaries : EditSpec(p)) \/ DeleteRedkey \/ DeliverRedkey
           \/ (\E o \in RobinObjects : DeliverRobin(o)) \/ ReconcileFails \/ UNCHANGED vars
  BY <1>7, <1>1 DEF EditSpec, DeleteRedkey, DeliverRedkey, DeliverRobin, ReconcileFails,
         storeVars, localVars, vars
<1>8. ~DeliverConfigs
  BY DEF DeliverConfigs
<1>. QED
  BY <1>3, <1>4, <1>5, <1>6, <1>7, <1>8 DEF Next, Deliver

\* Initially.
LEMMA PipelineInit == Init => PipelineInv
<1>. SUFFICES ASSUME Init PROVE PipelineInv
  OBVIOUS
<1>1. PICK p \in Primaries : redkeys = <<NewRedkey(p)>>
  BY DEF Init
<1>2. Len(redkeys) = 1 /\ redkeys[1] = NewRedkey(p) /\ Len(configs) = 1 /\ configs[1] = {}
  BY <1>1 DEF Init
<1>3. pc = "idle" /\ list = {}
  BY DEF Init
<1>4. ControlInv /\ ZeroInv
  BY <1>3 DEF ControlInv, ZeroInv
<1>5. Stored(configs) = {} /\ Cached(configs) = {} /\ Stored(redkeys) = NewRedkey(p)
  BY <1>2 DEF Stored, Cached
<1>6. FeedInv(configs)
  <2>1. \A i \in 1..Len(configs) : configs[i] = {}
    BY <1>2
  <2>2. NoGapAbove(Cached(configs), Stored(configs))
    BY <1>5 DEF NoGapAbove
  <2>. QED
    BY <2>1, <2>2, EmptyList DEF FeedInv
<1>7. ListInv
  BY <1>2, <1>3, EmptyList DEF ListInv
<1>8. NewRedkey(p).generation = 1 /\ NewRedkey(p).primaries = p /\ Alive
  <2>1. /\ NewRedkey(p).generation = 1 /\ NewRedkey(p).primaries = p
        /\ NewRedkey(p).deletion = ""
    BY DEF NewRedkey
  <2>. QED
    BY <2>1, <1>5 DEF Alive
<1>9. Copies = {NewRedkey(p)}
  BY <1>2, <1>3 DEF Copies, Versions
<1>. DEFINE r == NewRedkey(p)
<1>. HIDE DEF r
<1>10. Copies = {r} /\ Stored(redkeys) = r /\ r.generation = 1 /\ r.primaries \in Primaries
  BY <1>5, <1>8, <1>9 DEF r
<1>11. CopiesInv
  <2>1. r.generation \in 1..Stored(redkeys).generation
    BY <1>10
  <2>. QED
    BY <2>1, <1>5, <1>10 DEF CopiesInv
<1>. QED
  BY <1>2, <1>4, <1>5, <1>6, <1>7, <1>8, <1>11 DEF PipelineInv

\* Every step.
LEMMA PipelineStep ==
  ASSUME Regime, TypeInv, TypeInv', ObservedInv, PipelineInv, [Next]_vars
  PROVE  PipelineInv'
<1>1. ControlInv' /\ (ConfigLag = 0 => Len(configs') = 1)
  BY ControlStep, LengthStep DEF PipelineInv
<1>2. SpecKept \/ SpecEdited \/ RedkeyDeleted
  BY RedkeyStep
<1>3. Alive' \/ Stored(redkeys').deletion = "gone"
  <2>1. SpecKept => (Alive => Alive')
    BY DEF SpecKept, Alive
  <2>. QED
    BY <2>1, <1>2 DEF SpecKept, SpecEdited, RedkeyDeleted, PipelineInv
<1>4. ASSUME Alive'
      PROVE  /\ FeedInv(configs') /\ CopiesInv' /\ ZeroInv'
             /\ pc' # "deleteAllConfigs" => ListInv'
  <2>0. SpecKept => (Alive' => Alive)
    BY DEF SpecKept, Alive
  <2>1. (SpecKept \/ SpecEdited) /\ Alive
    BY <2>0, <1>2, <1>4 DEF SpecEdited, RedkeyDeleted
  <2>2. Going
    BY <2>1 DEF Going
  <2>3. ConfigsGoal
    BY <2>2, ConfigsStep
  <2>4. CopiesInv'
    BY <2>1, <2>3, CopiesStep DEF ConfigsGoal, PipelineInv
  <2>. QED
    BY <2>3, <2>4 DEF ConfigsGoal
<1>. QED
  BY <1>1, <1>3, <1>4 DEF PipelineInv

\* The three invariants together.
Inv == TypeInv /\ ObservedInv /\ PipelineInv

\* They are inductive.
LEMMA PipelineInductive == Regime /\ Spec => []Inv
<1>. SUFFICES ASSUME Regime PROVE Spec => []Inv
  OBVIOUS
<1>1. Init => Inv
  BY TypeInit, ObservedInit, PipelineInit DEF Inv
<1>2. Inv /\ [Next]_vars => Inv'
  BY TypeStep, ObservedStep, PipelineStep DEF Inv, ObservedGoal
<1>. QED
  BY <1>1, <1>2, PTL DEF Spec
==============================================================================
