-------------------------- MODULE RedkeyStatusProofs --------------------------
(***************************************************************************)
(* How the status that Robin writes on a config travels: the informer      *)
(* delivers it, a reconcile lists it and writes it on the Redkey.  On that *)
(* way a status is repeated and skipped, but never shown again once it has *)
(* passed.  RedkeyCountProofs counts operations with it.                   *)
(***************************************************************************)
EXTENDS RedkeyMetrics, RedkeySafetyProofs

\* Two things would show a status again: a reconcile that records the status of
\* a stale copy of the Redkey (case B of scale-to-zero), and a config below the
\* newest Applied one that kept the status of an operation and becomes the active
\* config again (scale-to-zero cleans up nothing until it is done).
Steady ==
  \/ 0 \notin Primaries
  \/ /\ RedkeyLag = 0 /\ ConfigLag = 0 /\ ~Ephemeral /\ ~DeletePVC
     /\ AppliedStatuses \cap Operations = {}

------------------------------------------------------------------------------
(* Operation o on its way through a feed of configs.                        *)

\* The config whose status is aggregated once X is cleaned up: the one in
\* progress, else the lowest that is not below an Applied one.
Active(X) ==
  {c \in X : \/ c.configPhase = "InProgress"
             \/ /\ \A d \in X : d.configPhase # "InProgress"
                /\ c \notin SupersededConfigs(X)
                /\ \A d \in X \ SupersededConfigs(X) : c.sequence <= d.sequence}

\* 1 when X shows operation o, else 0; so for the numbers a and b below.
Shown(X, o) == IF \E c \in Active(X) : c.status = o THEN 1 ELSE 0

\* Let a be 1 when the Redkey reports o, b when the list of the reconcile shows
\* o, and f the feed of the configs.  Then o can be told to have begun la times
\* when the Redkey was written, lb times when the list was read and lf[i] times
\* in version i: wherever o appears that did not show before, it has begun once
\* more.  t times it is counted, n times it really began.
Tracks(o, f, a, b, t, n) ==
  \E la \in Nat, lb \in Nat, lf \in [1..Len(f) -> Nat] :
    /\ t + a <= la
    /\ la <= lb /\ la + b - a <= lb
    /\ \A i \in 1..Len(f) : /\ lb <= lf[i]
                            /\ lb + Shown(f[i], o) - b <= lf[i]
                            /\ la + Shown(f[i], o) - a <= lf[i]
    /\ \A i, j \in 1..Len(f) :
         i < j => lf[i] <= lf[j] /\ lf[i] + Shown(f[j], o) - Shown(f[i], o) <= lf[j]
    /\ lf[Len(f)] <= n

\* The counted and the reported operations have all begun.
LEMMA TracksCounts ==
  ASSUME NEW o, NEW S, NEW f \in Seq(S), f # <<>>, NEW a \in 0..1, NEW b \in 0..1,
         NEW t \in Nat, NEW n \in Nat, Tracks(o, f, a, b, t, n)
  PROVE  t + a <= n
<1>1. Len(f) \in Nat /\ Len(f) \in 1..Len(f)
  OBVIOUS
<1>2. PICK la \in Nat, lb \in Nat, lf \in [1..Len(f) -> Nat] :
        t + a <= la /\ la <= lb /\ lb <= lf[Len(f)] /\ lf[Len(f)] <= n
  BY <1>1 DEF Tracks
<1>3. lf[Len(f)] \in Nat
  BY <1>1
<1>. QED
  BY <1>2, <1>3

\* 0 or 1.
LEMMA ShownBit ==
  ASSUME NEW X, NEW o
  PROVE  Shown(X, o) \in 0..1
BY DEF Shown

\* The list is dropped (Reconcile returns), or read anew from the cache.
LEMMA TracksRead ==
  ASSUME NEW o, NEW S, NEW f \in Seq(S), f # <<>>, NEW a \in 0..1, NEW b \in 0..1,
         NEW t \in Nat, NEW n \in Nat, Tracks(o, f, a, b, t, n)
  PROVE  Tracks(o, f, a, a, t, n) /\ Tracks(o, f, a, Shown(Cached(f), o), t, n)
<1>0. Len(f) \in Nat /\ Len(f) \in 1..Len(f) /\ 1 \in 1..Len(f)
  OBVIOUS
<1>. DEFINE s(i) == Shown(f[i], o)
<1>1. \A i : s(i) \in 0..1
  BY ShownBit
<1>2. PICK la \in Nat, lb \in Nat, lf \in [1..Len(f) -> Nat] :
        /\ t + a <= la
        /\ la <= lb /\ la + b - a <= lb
        /\ \A i \in 1..Len(f) : lb <= lf[i] /\ lb + s(i) - b <= lf[i] /\ la + s(i) - a <= lf[i]
        /\ \A i, j \in 1..Len(f) : i < j => lf[i] <= lf[j] /\ lf[i] + s(j) - s(i) <= lf[j]
        /\ lf[Len(f)] <= n
  BY Zenon DEF Tracks
<1>. HIDE DEF s
<1>3. \A i \in 1..Len(f) : lf[i] \in Nat
  OBVIOUS
<1>4. Tracks(o, f, a, a, t, n)
  <2>1. /\ t + a <= la
        /\ la <= la /\ la + a - a <= la
        /\ \A i \in 1..Len(f) : la <= lf[i] /\ la + s(i) - a <= lf[i] /\ la + s(i) - a <= lf[i]
        /\ \A i, j \in 1..Len(f) : i < j => lf[i] <= lf[j] /\ lf[i] + s(j) - s(i) <= lf[j]
        /\ lf[Len(f)] <= n
    BY <1>1, <1>2, <1>3
  <2>. QED
    BY <2>1, Zenon DEF Tracks, s
<1>5. Tracks(o, f, a, s(1), t, n)
  <2>. DEFINE l1 == lf[1]
  <2>0. l1 \in Nat
    BY <1>0
  <2>1. \A i \in 1..Len(f) : l1 <= lf[i] /\ l1 + s(i) - s(1) <= lf[i]
    <3>. TAKE i \in 1..Len(f)
    <3>1. CASE i = 1
      BY <3>1, <1>0, <1>1, <1>3
    <3>2. CASE 1 < i
      BY <3>2, <1>0, <1>2
    <3>. QED
      BY <3>1, <3>2
  <2>2. la <= l1 /\ la + s(1) - a <= l1
    BY <1>0, <1>2, <1>3
  <2>3. /\ t + a <= la
        /\ la <= l1 /\ la + s(1) - a <= l1
        /\ \A i \in 1..Len(f) : l1 <= lf[i] /\ l1 + s(i) - s(1) <= lf[i] /\ la + s(i) - a <= lf[i]
        /\ \A i, j \in 1..Len(f) : i < j => lf[i] <= lf[j] /\ lf[i] + s(j) - s(i) <= lf[j]
        /\ lf[Len(f)] <= n
    BY <1>2, <2>1, <2>2
  <2>. HIDE DEF l1
  <2>. QED
    BY <2>0, <2>3, Zenon DEF Tracks, s
<1>. QED
  BY <1>4, <1>5 DEF s, Cached

\* The Redkey is written with what the list shows, and the operation it reported
\* is counted if it is another one.
LEMMA TracksWrite ==
  ASSUME NEW o, NEW S, NEW f \in Seq(S), f # <<>>, NEW a \in 0..1, NEW b \in 0..1,
         NEW t \in Nat, NEW n \in Nat, Tracks(o, f, a, b, t, n),
         NEW u \in Nat, u <= t \/ (u <= t + 1 /\ a = 1 /\ b = 0)
  PROVE  Tracks(o, f, b, b, u, n)
<1>. DEFINE s(i) == Shown(f[i], o)
<1>1. \A i : s(i) \in 0..1
  BY ShownBit
<1>2. PICK la \in Nat, lb \in Nat, lf \in [1..Len(f) -> Nat] :
        /\ t + a <= la
        /\ la <= lb /\ la + b - a <= lb
        /\ \A i \in 1..Len(f) : lb <= lf[i] /\ lb + s(i) - b <= lf[i] /\ la + s(i) - a <= lf[i]
        /\ \A i, j \in 1..Len(f) : i < j => lf[i] <= lf[j] /\ lf[i] + s(j) - s(i) <= lf[j]
        /\ lf[Len(f)] <= n
  BY Zenon DEF Tracks
<1>. HIDE DEF s
<1>3. u + b <= lb
  BY <1>2
<1>4. /\ u + b <= lb
      /\ lb <= lb /\ lb + b - b <= lb
      /\ \A i \in 1..Len(f) : lb <= lf[i] /\ lb + s(i) - b <= lf[i] /\ lb + s(i) - b <= lf[i]
      /\ \A i, j \in 1..Len(f) : i < j => lf[i] <= lf[j] /\ lf[i] + s(j) - s(i) <= lf[j]
      /\ lf[Len(f)] <= n
  BY <1>2, <1>3
<1>. QED
  BY <1>4, Zenon DEF Tracks, s

\* The Redkey is written as scaled to zero, which no list shows: so is the feed.
LEMMA TracksZero ==
  ASSUME NEW o, NEW S, NEW f \in Seq(S), f # <<>>, NEW a \in 0..1, NEW b \in 0..1,
         NEW t \in Nat, NEW n \in Nat, Tracks(o, f, a, b, t, n),
         NEW u \in Nat, u <= t \/ (u <= t + 1 /\ a = 1),
         \A i \in 1..Len(f) : Shown(f[i], o) = 0
  PROVE  Tracks(o, f, 0, 0, u, n)
<1>. DEFINE s(i) == Shown(f[i], o)
<1>2. PICK la \in Nat, lb \in Nat, lf \in [1..Len(f) -> Nat] :
        /\ t + a <= la
        /\ la <= lb /\ la + b - a <= lb
        /\ \A i \in 1..Len(f) : lb <= lf[i] /\ lb + s(i) - b <= lf[i] /\ la + s(i) - a <= lf[i]
        /\ \A i, j \in 1..Len(f) : i < j => lf[i] <= lf[j] /\ lf[i] + s(j) - s(i) <= lf[j]
        /\ lf[Len(f)] <= n
  BY Zenon DEF Tracks
<1>1. \A i \in 1..Len(f) : s(i) = 0
  OBVIOUS
<1>. HIDE DEF s
<1>3. \A i \in 1..Len(f) : lf[i] \in Nat
  OBVIOUS
<1>4. u + 0 <= la
  BY <1>2
<1>5. \A i \in 1..Len(f) : la <= lf[i] /\ la + s(i) - 0 <= lf[i]
  BY <1>1, <1>2, <1>3
<1>6. /\ u + 0 <= la
      /\ la <= la /\ la + 0 - 0 <= la
      /\ \A i \in 1..Len(f) : la <= lf[i] /\ la + s(i) - 0 <= lf[i] /\ la + s(i) - 0 <= lf[i]
      /\ \A i, j \in 1..Len(f) : i < j => lf[i] <= lf[j] /\ lf[i] + s(j) - s(i) <= lf[j]
      /\ lf[Len(f)] <= n
  BY <1>2, <1>4, <1>5
<1>. QED
  BY <1>6, Zenon DEF Tracks, s

\* Two begins on the way from l to m, of which the second may be the same.
LEMMA BeginsAdd ==
  ASSUME NEW l \in Nat, NEW h \in Nat, NEW n \in Nat, NEW m \in Nat,
         NEW c \in 0..1, NEW x \in 0..1, NEW y \in 0..1,
         l + x - c <= h, h <= n, n + y - x <= m
  PROVE  l + y - c <= m
OBVIOUS

\* The configs are written, delivered or listed anew: g ends with what is stored,
\* and has versions of f before it.  Where the stored configs newly show o, it
\* began.
LEMMA TracksFeed ==
  ASSUME NEW o, NEW S, NEW f \in Seq(S), f # <<>>, NEW a \in 0..1, NEW b \in 0..1,
         NEW t \in Nat, NEW n \in Nat, Tracks(o, f, a, b, t, n),
         NEW T, NEW g \in Seq(T), g # <<>>, NEW k \in Nat,
         \A i \in 1..(Len(g) - 1) : i + k \in 1..Len(f) /\ g[i] = f[i + k],
         NEW m \in Nat, n <= m, n + Shown(Stored(g), o) - Shown(Stored(f), o) <= m
  PROVE  Tracks(o, g, a, b, t, m)
<1>0. /\ Len(f) \in Nat /\ Len(f) \in 1..Len(f) /\ Len(g) \in Nat /\ Len(g) \in 1..Len(g)
  OBVIOUS
<1>. DEFINE p == Len(f)
            q == Len(g)
            s(i) == Shown(f[i], o)
            r(i) == Shown(g[i], o)
<1>1. \A i : s(i) \in 0..1 /\ r(i) \in 0..1
  BY ShownBit
<1>2. PICK la \in Nat, lb \in Nat, lf \in [1..p -> Nat] :
        /\ t + a <= la
        /\ la <= lb /\ la + b - a <= lb
        /\ \A i \in 1..p : lb <= lf[i] /\ lb + s(i) - b <= lf[i] /\ la + s(i) - a <= lf[i]
        /\ \A i, j \in 1..p : i < j => lf[i] <= lf[j] /\ lf[i] + s(j) - s(i) <= lf[j]
        /\ lf[p] <= n
  BY Zenon DEF Tracks
<1>3. n + r(q) - s(p) <= m
  BY DEF Stored
<1>4. \A i \in 1..(q - 1) : i + k \in 1..p /\ r(i) = s(i + k)
  OBVIOUS
<1>5. \A i \in 1..p : lf[i] \in Nat
  BY Zenon
<1>6. p \in 1..p /\ q \in 1..q /\ p \in Nat /\ q \in Nat
  BY <1>0
<1>. DEFINE lg == [i \in 1..q |-> IF i = q THEN m ELSE lf[i + k]]
<1>. HIDE DEF p, q, s, r
<1>7. lg[q] = m /\ \A i \in 1..(q - 1) : lg[i] = lf[i + k]
  BY <1>4, <1>6
<1>8. lg \in [1..q -> Nat]
  <2>1. \A i \in 1..(q - 1) : lf[i + k] \in Nat
    BY <1>4, <1>5
  <2>2. \A i \in 1..q : i = q \/ i \in 1..(q - 1)
    BY <1>6
  <2>. QED
    BY <2>1, <2>2
<1>. HIDE DEF lg
<1>9. \A i \in 1..q : lb <= lg[i] /\ lb + r(i) - b <= lg[i] /\ la + r(i) - a <= lg[i]
  <2>. TAKE i \in 1..q
  <2>1. CASE i = q
    <3>1. lb <= lf[p] /\ lb + s(p) - b <= lf[p] /\ la + s(p) - a <= lf[p] /\ lf[p] <= n
      BY <1>2, <1>6
    <3>2. lf[p] \in Nat /\ s(p) \in 0..1 /\ r(q) \in 0..1
      BY <1>1, <1>5, <1>6
    <3>3. lb <= m
      BY <3>1, <3>2
    <3>4. lb + r(q) - b <= m /\ la + r(q) - a <= m
      BY <3>1, <3>2, <1>3, BeginsAdd, Zenon
    <3>. QED
      BY <2>1, <3>3, <3>4, <1>7
  <2>2. CASE i \in 1..(q - 1)
    BY <2>2, <1>2, <1>4, <1>7
  <2>. QED
    BY <2>1, <2>2, <1>6
<1>10. \A i, j \in 1..q : i < j => lg[i] <= lg[j] /\ lg[i] + r(j) - r(i) <= lg[j]
  <2>. SUFFICES ASSUME NEW i \in 1..q, NEW j \in 1..q, i < j
                PROVE  lg[i] <= lg[j] /\ lg[i] + r(j) - r(i) <= lg[j]
    OBVIOUS
  <2>1. i \in 1..(q - 1) /\ i + k \in 1..p /\ lg[i] = lf[i + k] /\ r(i) = s(i + k)
    BY <1>4, <1>6, <1>7
  <2>2. CASE j = q
    <3>1. lf[i + k] <= lf[p] /\ lf[i + k] + s(p) - s(i + k) <= lf[p]
      <4>1. CASE i + k = p
        <5>1. lf[p] \in Nat /\ s(p) \in 0..1
          BY <1>1, <1>5, <1>6
        <5>2. lf[p] <= lf[p] /\ lf[p] + s(p) - s(p) <= lf[p]
          BY <5>1
        <5>. QED
          BY <4>1, <5>2
      <4>2. CASE i + k < p
        BY <4>2, <2>1, <1>2, <1>6
      <4>. QED
        BY <4>1, <4>2, <2>1, <1>6
    <3>2. lf[i + k] \in Nat /\ lf[p] \in Nat /\ lf[p] <= n
      BY <2>1, <1>2, <1>5, <1>6
    <3>3. s(p) \in 0..1 /\ r(q) \in 0..1 /\ s(i + k) \in 0..1
      BY <1>1
    <3>. QED
      BY <2>1, <2>2, <3>1, <3>2, <3>3, <1>3, <1>7
  <2>3. CASE j \in 1..(q - 1)
    <3>1. j + k \in 1..p /\ lg[j] = lf[j + k] /\ r(j) = s(j + k) /\ i + k < j + k
      BY <2>3, <1>4, <1>7
    <3>. QED
      BY <2>1, <3>1, <1>2
  <2>. QED
    BY <2>2, <2>3, <1>6
<1>11. lg[q] <= m
  BY <1>7
<1>. QED
  BY <1>2, <1>8, <1>9, <1>10, <1>11, Zenon DEF Tracks, q, r

------------------------------------------------------------------------------
(* What a step does to the active config. *)

\* cleanupSupersededConfigs takes away what is never the active config.
LEMMA ActiveWithout ==
  ASSUME NEW X \in ConfigSets, WellFormed(X), NEW n \in Nat,
         NEW b \in X, b.configPhase = "Applied", n < b.sequence,
         NEW T, T = {d \in X : d.sequence # n}
  PROVE  Active(T) = Active(X)
<1>1. /\ \A d \in X : d.sequence \in Nat
      /\ b \in T /\ T \subseteq X
  BY ConfigNumbers
<1>2. \A d \in X \ T : isTerminalConfigPhase(d.configPhase) /\ d \in SupersededConfigs(X)
  BY DEF WellFormed, SupersededConfigs
<1>3. \A d \in T : d \in SupersededConfigs(T) <=> d \in SupersededConfigs(X)
  <2>. SUFFICES ASSUME NEW d \in T, NEW a \in X, a.configPhase = "Applied", d.sequence < a.sequence
                PROVE  \E e \in T : e.configPhase = "Applied" /\ d.sequence < e.sequence
    BY <1>1 DEF SupersededConfigs
  <2>1. CASE a.sequence = n
    <3>1. d.sequence \in Nat /\ b.sequence \in Nat
      BY <1>1
    <3>2. d.sequence < b.sequence
      BY <2>1, <3>1
    <3>. QED
      BY <3>2, <1>1
  <2>2. CASE a.sequence # n
    BY <2>2
  <2>. QED
    BY <2>1, <2>2
<1>4. X \ SupersededConfigs(X) = T \ SupersededConfigs(T)
  BY <1>1, <1>2, <1>3
<1>5. \A d \in X \ T : d.configPhase # "InProgress"
  BY <1>2 DEF isTerminalConfigPhase
<1>6. (\A d \in X : d.configPhase # "InProgress") <=> (\A d \in T : d.configPhase # "InProgress")
  BY <1>1, <1>5
<1>7. ASSUME NEW c \in X PROVE c \in Active(T) <=> c \in Active(X)
  <2>1. CASE c \in T
    BY <2>1, <1>3, <1>4, <1>6 DEF Active
  <2>2. CASE c \notin T
    BY <2>2, <1>2, <1>5 DEF Active
  <2>. QED
    BY <2>1, <2>2
<1>. QED
  BY <1>1, <1>7 DEF Active

\* The same of the list it works through.
LEMMA ActiveCleanup ==
  ASSUME NEW l \in ConfigSets, l # {}, WellFormed(l), SupersededConfigs(l) # {}
  PROVE  Active(l \ {LowestSeq(l)}) = Active(l)
<1>. DEFINE c == LowestSeq(l)
            n == c.sequence
<1>1. c \in l /\ \A d \in l : c.sequence <= d.sequence
  BY LowestSeqExists, ConfigNumbers DEF Sequenced
<1>2. \A d \in l : d.sequence \in Nat
  BY ConfigNumbers
<1>3. l \ {c} = {d \in l : d.sequence # n}
  BY <1>1 DEF WellFormed
<1>. HIDE DEF c
<1>4. PICK e \in l, b \in l : b.configPhase = "Applied" /\ e.sequence < b.sequence
  BY DEF SupersededConfigs
<1>5. n \in Nat /\ n < b.sequence
  <2>1. c.sequence <= e.sequence /\ c.sequence \in Nat /\ e.sequence \in Nat /\ b.sequence \in Nat
    BY <1>1, <1>2
  <2>. QED
    BY <2>1, <1>4
<1>6. Active(l \ {c}) = Active(l)
  BY <1>3, <1>4, <1>5, ActiveWithout
<1>. QED
  BY <1>6 DEF c

\* A new config that shows no operation does not hide what is at work.
LEMMA ActiveCreated ==
  ASSUME NEW S \in ConfigSets, NEW c \in ConfigType, OnTop(c, S),
         NEW x \in Active(S \cup {c}), x # c
  PROVE  x \in Active(S)
<1>. DEFINE V == S \cup {c}
<1>1. /\ \A d \in S : d.sequence \in Nat
      /\ c.sequence \in Nat /\ c.configPhase = "Pending"
      /\ \A d \in S : d.sequence < c.sequence
  BY ConfigNumbers DEF OnTop, ConfigType
<1>2. \A d \in S : d \in SupersededConfigs(V) <=> d \in SupersededConfigs(S)
  BY <1>1 DEF SupersededConfigs
<1>3. x \in S
  BY DEF Active
<1>4. (\A d \in V : d.configPhase # "InProgress") => \A d \in S : d.configPhase # "InProgress"
  OBVIOUS
<1>5. \A d \in S \ SupersededConfigs(S) : d \in V \ SupersededConfigs(V)
  BY <1>2
<1>6. \/ x.configPhase = "InProgress"
      \/ /\ \A d \in V : d.configPhase # "InProgress"
         /\ x \notin SupersededConfigs(V)
         /\ \A d \in V \ SupersededConfigs(V) : x.sequence <= d.sequence
  BY DEF Active
<1>. QED
  BY <1>2, <1>3, <1>4, <1>5, <1>6 DEF Active

\* A write of Robin that neither takes c up nor finishes it.
LEMMA ActiveRewritten ==
  ASSUME NEW S \in ConfigSets, NEW c \in S, NEW e, e.sequence = c.sequence,
         e.configPhase = "InProgress" <=> c.configPhase = "InProgress",
         e.configPhase = "Applied" <=> c.configPhase = "Applied",
         NEW x \in Active((S \ {c}) \cup {e})
  PROVE  IF x = e THEN c \in Active(S) ELSE x \in Active(S)
<1>. DEFINE V == (S \ {c}) \cup {e}
            y == IF x = e THEN c ELSE x
<1>1. x \in V /\ y \in S /\ y.sequence = x.sequence
      /\ (y.configPhase = "InProgress" <=> x.configPhase = "InProgress")
  BY DEF Active
<1>3. (\A d \in V : d.configPhase # "InProgress") => \A d \in S : d.configPhase # "InProgress"
  OBVIOUS
<1>4. \A d \in S : d \in SupersededConfigs(S)
                   => \E a \in V : a.configPhase = "Applied" /\ d.sequence < a.sequence
  BY DEF SupersededConfigs
<1>5. \A d \in S : (\E a \in V : a.configPhase = "Applied" /\ d.sequence < a.sequence)
                   => d \in SupersededConfigs(S)
  BY DEF SupersededConfigs
<1>6. x \notin SupersededConfigs(V) => y \notin SupersededConfigs(S)
  BY <1>1, <1>4 DEF SupersededConfigs
<1>7. ASSUME \A d \in V \ SupersededConfigs(V) : x.sequence <= d.sequence,
             NEW d \in S \ SupersededConfigs(S)
      PROVE  y.sequence <= d.sequence
  <2>. DEFINE z == IF d = c THEN e ELSE d
  <2>1. z \in V /\ z.sequence = d.sequence
    OBVIOUS
  <2>2. z \notin SupersededConfigs(V)
    BY <2>1, <1>5, <1>7 DEF SupersededConfigs
  <2>. QED
    BY <2>1, <2>2, <1>1, <1>7
<1>8. \/ x.configPhase = "InProgress"
      \/ /\ \A d \in V : d.configPhase # "InProgress"
         /\ x \notin SupersededConfigs(V)
         /\ \A d \in V \ SupersededConfigs(V) : x.sequence <= d.sequence
  BY DEF Active
<1>9. y \in Active(S)
  <2>. HIDE DEF y, V
  <2>. QED
    BY <1>1, <1>3, <1>6, <1>7, <1>8 DEF Active
<1>. QED
  BY <1>9

\* Robin gives config c another phase and status.
Puts(c, phase, status) ==
  \E e : /\ e.sequence = c.sequence /\ e.configPhase = phase /\ e.status = status
         /\ Stored(configs') = (Stored(configs) \ {c}) \cup {e}

\* Robin's steps by what they write.  A config in progress is not given up: in one
\* case no config asks for zero primaries, in the other the data is to be kept.
LEMMA RobinPutsStatus ==
  ASSUME Going, Steady, NEW c \in Stored(configs)
  PROVE  /\ RobinStarts(c) => /\ c.configPhase = "Pending"
                              /\ \A d \in Stored(configs) : d.configPhase # "InProgress"
                              /\ \E s : Puts(c, "InProgress", s)
         /\ RobinSupersedes(c) => c.configPhase = "Pending" /\ Puts(c, "Superseded", c.status)
         /\ RobinApplies(c) => /\ c.configPhase = "InProgress"
                               /\ \E s \in AppliedStatuses : Puts(c, "Applied", s)
         /\ RobinReports(c) => /\ c.configPhase = "Applied"
                               /\ \E s \in AppliedStatuses \cup {c.status} : Puts(c, "Applied", s)
<1>1. c \in ConfigType /\ Stored(configs) \in ConfigSets
  BY GoingFacts, ConfigNumbers
<1>2. /\ c.status \in ConfigStatuses /\ c.healthy \in HealthReports
      /\ {"InProgress", "Superseded", "Applied"} \subseteq ConfigPhases
      /\ {"ScalingToZero", "ScalingUp"} \subseteq ConfigStatuses
  BY <1>1, Zenon DEF ConfigType, ConfigPhases, ConfigStatuses, Operations
<1>3. ASSUME NEW phase \in ConfigPhases, NEW status \in ConfigStatuses, NEW healthy \in HealthReports,
             RobinWrites(c, phase, status, healthy)
      PROVE  Puts(c, phase, status)
  <2>. DEFINE e == [c EXCEPT !.configPhase = phase, !.status = status, !.healthy = healthy]
              T == (Stored(configs) \ {c}) \cup {e}
  <2>1. /\ e.sequence = c.sequence /\ e.configPhase = phase /\ e.status = status
        /\ e \in ConfigType
    BY <1>1, Zenon DEF ConfigType
  <2>2. WriteConfigs(T)
    BY <1>3 DEF RobinWrites
  <2>. HIDE DEF e
  <2>3. T \in ConfigSets
    BY <1>1, <2>1, ConfigSetsClosed, Zenon
  <2>4. Stored(configs') = T
    BY <2>2, <2>3, ConfigsWritten
  <2>. QED
    BY <2>1, <2>4 DEF Puts
<1>4. RobinStarts(c) => /\ c.configPhase = "Pending"
                        /\ \A d \in Stored(configs) : d.configPhase # "InProgress"
                        /\ \E s : Puts(c, "InProgress", s)
  BY <1>2, <1>3 DEF RobinStarts
<1>5. RobinSupersedes(c) => c.configPhase = "Pending" /\ Puts(c, "Superseded", c.status)
  <2>1. 0 \notin Primaries => ZeroAhead(c) = {}
    BY GoingFacts DEF WellFormed, ZeroAhead
  <2>2. RobinSupersedes(c) => c.configPhase = "Pending"
    BY <2>1 DEF RobinSupersedes, Steady
  <2>. QED
    BY <2>2, <1>2, <1>3 DEF RobinSupersedes
<1>6. RobinApplies(c) => /\ c.configPhase = "InProgress"
                         /\ \E s \in AppliedStatuses : Puts(c, "Applied", s)
  BY <1>2, <1>3, StatusesAssumption DEF RobinApplies
<1>7. ASSUME RobinReports(c)
      PROVE  /\ c.configPhase = "Applied"
             /\ \E s \in AppliedStatuses \cup {c.status} : Puts(c, "Applied", s)
  <2>1. CASE \E s \in AppliedStatuses \ {c.status} : RobinWrites(c, "Applied", s, c.healthy)
    BY <2>1, <1>2, <1>3, <1>7, StatusesAssumption DEF RobinReports
  <2>2. CASE \E h \in Reports \ {c.healthy} : RobinWrites(c, "Applied", c.status, h)
    BY <2>2, <1>2, <1>3, <1>7, ReportsAssumption DEF RobinReports
  <2>. QED
    BY <2>1, <2>2, <1>7 DEF RobinReports
<1>. QED
  BY <1>4, <1>5, <1>6, <1>7

\* Robin sets the status of an operation on a config it takes up, and, where the
\* cluster can be scaled to zero, on no other.
AtWork ==
  /\ \A c \in Stored(configs) : c.configPhase = "Pending" => c.status \notin Operations
  /\ 0 \in Primaries => \A c \in Stored(configs) \cup list :
                          c.status \in Operations => c.configPhase = "InProgress"

\* Reconcile's list is a part of the one it had, or what the cache shows.
LEMMA ListFrom ==
  ASSUME [Next]_vars
  PROVE  list' \subseteq list \/ list' = Cached(configs)
<1>1. CASE ReconcileStep
  <2>1. CASE StartReconcile \/ ReconcileGone
    BY <2>1 DEF StartReconcile, ReconcileGone, Goto, vars
  <2>2. CASE EnsureRBAC \/ EnsureRobinDeployment
    BY <2>2 DEF EnsureRBAC, EnsureRobinDeployment, AfterEnsure, Return, Goto
  <2>3. CASE CreateNewConfig \/ CreateZeroConfig \/ ListConfigs
    BY <2>3 DEF CreateNewConfig, CreateZeroConfig, ListConfigs, AfterList, Return, Goto
  <2>4. CASE CleanupSupersededConfigs
    BY <2>4 DEF CleanupSupersededConfigs, AfterList, Return, Goto
  <2>5. CASE AggregateStatus \/ UpdateStatusScaledToZero \/ DeleteRobinDeployment \/ DeleteRBAC
    BY <2>5 DEF AggregateStatus, UpdateStatusScaledToZero, DeleteRobinDeployment, DeleteRBAC,
       Return, Goto
  <2>6. CASE ListAllConfigs \/ DeleteAllConfigs
    BY <2>6 DEF ListAllConfigs, DeleteAllConfigs, AfterDelete, Goto
  <2>. QED
    BY <1>1, <2>1, <2>2, <2>3, <2>4, <2>5, <2>6 DEF ReconcileStep
<1>2. CASE ReconcileFails \/ Restart
  BY <1>2 DEF ReconcileFails, Restart, Return, Goto
<1>3. CASE UNCHANGED list
  BY <1>3
<1>4. CASE (\E p \in Primaries : EditSpec(p)) \/ DeleteRedkey \/ Collect \/ Deliver \/ RobinActs
           \/ UNCHANGED vars
  BY <1>3, <1>4, Zenon DEF EditSpec, DeleteRedkey, Collect, CollectConfig, CollectRobin, Deliver,
     DeliverRedkey, DeliverConfigs, DeliverRobin, RobinActs, RobinStep, RobinStarts,
     RobinSupersedes, RobinApplies, RobinReports, RobinWrites, localVars, vars
<1>. QED
  BY <1>1, <1>2, <1>4 DEF Next

\* Every step keeps AtWork.
LEMMA AtWorkStep ==
  ASSUME Going, Steady, AtWork, [Next]_vars
  PROVE  AtWork'
<1>. DEFINE S == Stored(configs)
            V == Stored(configs')
            Z == 0 \in Primaries
<1>1. /\ \A c \in S : c.configPhase = "Pending" => c.status \notin Operations
      /\ Z => \A c \in S \cup list : c.status \in Operations => c.configPhase = "InProgress"
      /\ Z => \A s \in AppliedStatuses : s \notin Operations
  BY DEF AtWork, Steady
<1>2. Z => list' \subseteq list \cup S
  BY ListFrom, NoLag
<1>3. \A d \in V : \/ d \in S
                   \/ d.configPhase = "InProgress"
                   \/ d.status \notin Operations
                   \/ d.configPhase # "Pending" /\ ~Z
  <2>1. CASE V = S
    BY <2>1
  <2>2. CASE Created
    BY <2>2 DEF Created
  <2>3. CASE Cleaned \/ Emptied
    BY <2>3 DEF Cleaned, Emptied, Without
  <2>4. CASE Moved
    <3>1. PICK c \in S : RobinStarts(c) \/ RobinSupersedes(c) \/ RobinApplies(c) \/ RobinReports(c)
      BY <2>4 DEF Moved
    <3>. HIDE DEF Z
    <3>2. CASE RobinStarts(c)
      BY <3>2, RobinPutsStatus DEF Puts
    <3>3. CASE RobinSupersedes(c)
      <4>1. c.status \notin Operations /\ Puts(c, "Superseded", c.status)
        BY <3>3, <1>1, RobinPutsStatus
      <4>. QED
        BY <4>1 DEF Puts
    <3>4. CASE RobinApplies(c) \/ RobinReports(c)
      <4>1. PICK s : /\ Puts(c, "Applied", s)
                     /\ s \in AppliedStatuses \/ (s = c.status /\ c.configPhase = "Applied")
        BY <3>4, RobinPutsStatus
      <4>2. Z => s \notin Operations
        BY <4>1, <1>1
      <4>. QED
        BY <4>1, <4>2 DEF Puts
    <3>. QED
      BY <3>1, <3>2, <3>3, <3>4
  <2>. QED
    BY <2>1, <2>2, <2>3, <2>4, StoredStep
<1>. HIDE DEF S, V
<1>4. \A d \in V : d.configPhase = "Pending" => d.status \notin Operations
  BY <1>1, <1>3
<1>5. Z => \A d \in V \cup list' : d.status \in Operations => d.configPhase = "InProgress"
  BY <1>1, <1>2, <1>3
<1>. QED
  BY <1>4, <1>5 DEF AtWork, V

\* Where the stored configs newly show an operation, Robin begins it.
LEMMA ShownBegins ==
  ASSUME Going, Steady, AtWork, AtWork', [Next]_vars, NEW o \in Operations
  PROVE  \/ Shown(Stored(configs'), o) <= Shown(Stored(configs), o)
         \/ Begins(o) /\ Stored(configs') # Stored(configs)
<1>. DEFINE S == Stored(configs)
            V == Stored(configs')
<1>0. S \in ConfigSets /\ WellFormed(S)
  BY GoingFacts
<1>1. SUFFICES ASSUME NEW x \in Active(V), x.status = o,
                      \A y \in Active(S) : y.status # o
               PROVE  Begins(o) /\ V # S
  BY DEF Shown
<1>2. V # S
  BY <1>1
<1>3. x \in V
  BY DEF Active
<1>4. CASE Created
  <2>1. PICK c \in ConfigType : OnTop(c, S) /\ c.status \notin Operations /\ V = S \cup {c}
    BY <1>4 DEF Created
  <2>. QED
    BY <2>1, <1>0, <1>1, ActiveCreated
<1>5. CASE Cleaned
  <2>1. PICK n \in Nat : /\ V = Without(n)
                         /\ \E b \in Without(n) : b.configPhase = "Applied" /\ n < b.sequence
    BY <1>5 DEF Cleaned
  <2>2. Active(V) = Active(S)
    BY <2>1, <1>0, ActiveWithout DEF Without
  <2>. QED
    BY <2>2, <1>1
<1>6. CASE Emptied
  <2>1. 0 \in Primaries /\ Unfinished(S) = {} /\ V \subseteq S
    BY <1>6 DEF Emptied, Without
  <2>. QED
    BY <2>1, <1>1, <1>3 DEF AtWork, Unfinished, isTerminalConfigPhase
<1>7. CASE Moved
  <2>1. PICK c \in S : RobinStarts(c) \/ RobinSupersedes(c) \/ RobinApplies(c) \/ RobinReports(c)
    BY <1>7 DEF Moved
  <2>2. ASSUME NEW e \in V, e.sequence = c.sequence, e.status = o, c.status # o
        PROVE  Begins(o)
    <3>1. \A d \in S : d.sequence = e.sequence => d.status # o
      BY <1>0, <2>2 DEF WellFormed
    <3>. QED
      BY <2>2, <3>1 DEF Begins
  <2>3. c.configPhase = "Pending" => c.status # o
    BY DEF AtWork
  <2>4. CASE RobinStarts(c)
    <3>1. PICK e : /\ e.sequence = c.sequence /\ e.configPhase = "InProgress"
                   /\ V = (S \ {c}) \cup {e}
      BY <2>4, RobinPutsStatus DEF Puts
    <3>2. /\ c.configPhase = "Pending"
          /\ \A d \in S : d.configPhase # "InProgress"
      BY <2>4, RobinPutsStatus
    <3>3. x = e
      BY <3>1, <3>2, <1>3 DEF Active
    <3>. QED
      BY <3>1, <3>2, <3>3, <1>1, <1>2, <1>3, <2>2, <2>3
  <2>5. CASE RobinSupersedes(c)
    <3>1. PICK e : /\ e.sequence = c.sequence /\ e.configPhase = "Superseded"
                   /\ e.status = c.status /\ V = (S \ {c}) \cup {e}
      BY <2>5, RobinPutsStatus DEF Puts
    <3>2. c.configPhase = "Pending"
      BY <2>5, RobinPutsStatus
    <3>3. IF x = e THEN c \in Active(S) ELSE x \in Active(S)
      BY <3>1, <3>2, <1>0, ActiveRewritten
    <3>. QED
      BY <3>1, <3>2, <3>3, <1>1, <2>3
  <2>6. CASE RobinReports(c)
    <3>1. PICK e : /\ e.sequence = c.sequence /\ e.configPhase = "Applied"
                   /\ V = (S \ {c}) \cup {e}
      BY <2>6, RobinPutsStatus DEF Puts
    <3>2. c.configPhase = "Applied"
      BY <2>6, RobinPutsStatus
    <3>3. IF x = e THEN c \in Active(S) ELSE x \in Active(S)
      BY <3>1, <3>2, <1>0, ActiveRewritten
    <3>. QED
      BY <3>1, <3>3, <1>1, <1>2, <1>3, <2>2
  <2>7. CASE RobinApplies(c)
    <3>1. PICK e : /\ e.sequence = c.sequence /\ e.configPhase = "Applied"
                   /\ V = (S \ {c}) \cup {e}
      BY <2>7, RobinPutsStatus DEF Puts
    <3>2. c.configPhase = "InProgress" /\ c \in Active(S)
      BY <2>7, RobinPutsStatus DEF Active
    <3>3. CASE x = e
      BY <3>1, <3>2, <3>3, <1>1, <1>2, <1>3, <2>2
    <3>4. CASE x # e
      <4>1. x \in S \ {c} /\ x.configPhase # "InProgress"
        BY <3>1, <3>4, <1>1, <1>3 DEF Active
      <4>2. x \notin SupersededConfigs(V)
            /\ \A d \in V \ SupersededConfigs(V) : x.sequence <= d.sequence
        BY <4>1 DEF Active
      <4>3. x.sequence \in Nat /\ c.sequence \in Nat /\ x.sequence # c.sequence
        BY <4>1, <1>0, ConfigNumbers DEF WellFormed
      <4>4. ~(x.sequence < c.sequence)
        BY <3>1, <4>2, <1>3 DEF SupersededConfigs
      <4>5. e \notin SupersededConfigs(V)
        <5>1. \A d \in S : d.configPhase = "Applied" => ~(c.sequence < d.sequence)
          BY <1>0, <3>2 DEF WellFormed, isTerminalConfigPhase
        <5>2. ~(c.sequence < e.sequence)
          BY <3>1, <4>3
        <5>. QED
          BY <5>1, <5>2, <3>1 DEF SupersededConfigs
      <4>. QED
        BY <4>2, <4>3, <4>4, <4>5, <3>1
    <3>. QED
      BY <3>3, <3>4
  <2>. QED
    BY <2>1, <2>4, <2>5, <2>6, <2>7
<1>. QED
  BY <1>2, <1>4, <1>5, <1>6, <1>7, StoredStep

\* selectActiveConfig takes the config that X shows.
LEMMA ActiveSelected ==
  ASSUME NEW X \in ConfigSets, X # {}, WellFormed(X), NEW o \in Operations,
         \/ SupersededConfigs(X) = {}
         \/ \A c \in X : c.status \in Operations => c.configPhase = "InProgress"
  PROVE  Shown(X, o) = IF selectActiveConfig(X).status = o THEN 1 ELSE 0
<1>. DEFINE P == {c \in X : c.configPhase = "InProgress"}
            a == selectActiveConfig(X)
            first == LowestSeq(X)
<1>1. first \in X /\ \A d \in X : first.sequence <= d.sequence
  BY LowestSeqExists, ConfigNumbers DEF Sequenced
<1>2. \A d \in X : d.sequence \in Nat
  BY ConfigNumbers
<1>3. \A c, d \in P : c = d
  BY <1>2 DEF WellFormed, isTerminalConfigPhase
<1>4. CASE P # {}
  <2>1. PICK c \in P : P = {c}
    BY <1>3, <1>4
  <2>2. Active(X) = {c}
    BY <2>1 DEF Active
  <2>3. LowestSeq(P) = c
    BY <2>1 DEF LowestSeq
  <2>4. a = c
    <3>. HIDE DEF first, P
    <3>1. a = IF X = {first} \/ P = {} THEN first ELSE LowestSeq(P)
      BY DEF selectActiveConfig, first, P
    <3>2. X = {first} => first = c
      BY <2>1 DEF P
    <3>. QED
      BY <3>1, <3>2, <2>3, <1>4
  <2>. QED
    BY <2>2, <2>4 DEF Shown
<1>5. CASE P = {}
  <2>1. a = first
    BY <1>5 DEF selectActiveConfig
  <2>2. \A d \in X : d.configPhase # "InProgress"
    BY <1>5
  <2>3. CASE SupersededConfigs(X) = {}
    <3>1. ASSUME NEW c \in X PROVE c \in Active(X) <=> c = first
      <4>1. c \in Active(X) <=> \A d \in X : c.sequence <= d.sequence
        BY <2>2, <2>3 DEF Active
      <4>2. (\A d \in X : c.sequence <= d.sequence) => c.sequence = first.sequence
        BY <1>1, <1>2
      <4>. QED
        BY <4>1, <4>2, <1>1 DEF WellFormed
    <3>2. Active(X) = {first}
      BY <3>1, <1>1 DEF Active
    <3>. QED
      BY <3>2, <2>1 DEF Shown
  <2>4. CASE \A c \in X : c.status \in Operations => c.configPhase = "InProgress"
    <3>1. \A c \in X : c.status # o
      BY <2>2, <2>4
    <3>2. Active(X) \subseteq X
      BY DEF Active
    <3>. QED
      BY <3>1, <3>2, <2>1, <1>1 DEF Shown
  <2>. QED
    BY <2>3, <2>4
<1>. QED
  BY <1>4, <1>5

------------------------------------------------------------------------------
(* What the Redkey reports, and what a reconcile is going to write on it. *)

Reported(o) == IF Stored(redkeys).status = o THEN 1 ELSE 0

\* The steps of a reconcile that may still write what its list shows.
Carries == list # {} /\ pc \in {"ensureRBAC", "ensureRobinDeployment",
                                "cleanupSupersededConfigs", "aggregateStatus"}

Carried(o) == IF Carries THEN Shown(list, o) ELSE Reported(o)

\* A reconcile goes on with the list it has, reads one, or has none to write from.
LEMMA CarriedStep ==
  ASSUME Going, [Next]_vars, NEW o
  PROVE  \/ Carried(o)' = Reported(o)'
         \/ Carried(o)' = Shown(Cached(configs), o)
         \/ Carries /\ Carried(o)' = Carried(o)
<1>. SUFFICES ASSUME Carries'
              PROVE  \/ Shown(list', o) = Shown(Cached(configs), o)
                     \/ Carries /\ Shown(list', o) = Shown(list, o)
  BY DEF Carried
<1>0. pc' \in {"ensureRBAC", "ensureRobinDeployment", "cleanupSupersededConfigs", "aggregateStatus"}
      /\ list' # {} /\ pc' # "idle"
  BY DEF Carries
<1>1. CASE list' = Cached(configs)
  BY <1>1
<1>2. CASE UNCHANGED <<pc, list>>
  BY <1>2, <1>0 DEF Carries
<1>3. CASE ReconcileStep
  <2>1. CASE StartReconcile \/ ReconcileGone
    BY <2>1, <1>0, <1>1, <1>2 DEF StartReconcile, ReconcileGone, Goto, vars
  <2>2. CASE EnsureRBAC \/ EnsureRobinDeployment
    <3>1. list' = list /\ pc \in {"ensureRBAC", "ensureRobinDeployment"}
      BY <2>2, <1>0 DEF EnsureRBAC, EnsureRobinDeployment, AfterEnsure, Return, Goto
    <3>. QED
      BY <3>1, <1>0 DEF Carries
  <2>3. CASE CreateNewConfig \/ CreateZeroConfig \/ ListConfigs
    BY <2>3, <1>0, <1>1 DEF CreateNewConfig, CreateZeroConfig, ListConfigs, AfterList, Return, Goto
  <2>4. CASE CleanupSupersededConfigs
    <3>1. pc = "cleanupSupersededConfigs" /\ list' = list \ {LowestSeq(list)}
      BY <2>4, <1>0 DEF CleanupSupersededConfigs, AfterList, Return, Goto
    <3>2. list # {} /\ list \in ConfigSets
      BY <3>1, <1>0, GoingFacts
    <3>3. WellFormed(list) /\ SupersededConfigs(list) # {}
      BY <3>1, CleanupTarget, GoingFacts DEF ListInv, ControlInv
    <3>4. Active(list') = Active(list)
      BY <3>1, <3>2, <3>3, ActiveCleanup
    <3>5. Carries
      BY <3>1, <3>2 DEF Carries
    <3>. QED
      BY <3>4, <3>5 DEF Shown
  <2>5. CASE AggregateStatus \/ UpdateStatusScaledToZero \/ DeleteRobinDeployment \/ DeleteRBAC
    BY <2>5, <1>0 DEF AggregateStatus, UpdateStatusScaledToZero, DeleteRobinDeployment, DeleteRBAC,
       Return, Goto
  <2>6. CASE ListAllConfigs \/ DeleteAllConfigs
    BY <2>6, <1>0 DEF ListAllConfigs, DeleteAllConfigs, AfterDelete, Goto
  <2>. QED
    BY <1>3, <2>1, <2>2, <2>3, <2>4, <2>5, <2>6 DEF ReconcileStep
<1>4. CASE ReconcileFails \/ Restart
  BY <1>4, <1>0 DEF ReconcileFails, Restart, Return, Goto
<1>5. CASE (\E p \in Primaries : EditSpec(p)) \/ DeleteRedkey \/ Collect \/ Deliver \/ RobinActs
           \/ UNCHANGED vars
  BY <1>2, <1>5, Zenon DEF EditSpec, DeleteRedkey, Collect, CollectConfig, CollectRobin, Deliver,
     DeliverRedkey, DeliverConfigs, DeliverRobin, RobinActs, RobinStep, RobinStarts,
     RobinSupersedes, RobinApplies, RobinReports, RobinWrites, localVars, vars
<1>. QED
  BY <1>3, <1>4, <1>5 DEF Next

\* Where the status is aggregated, it is that of the config the list shows.
LEMMA AggregatedShown ==
  ASSUME Going, AtWork, pc = "aggregateStatus", NEW o \in Operations
  PROVE  Carried(o) = IF selectActiveConfig(list).status = o THEN 1 ELSE 0
<1>1. list \in ConfigSets /\ list # {} /\ Carries
  BY GoingFacts DEF Carries, Going, TypeInv
<1>2. WellFormed(list)
  BY DEF Going, PipelineInv, ListInv
<1>3. cluster.primaries = 0 => 0 \in Primaries
  BY GoingFacts DEF CopiesInv, Copies
<1>4. \/ SupersededConfigs(list) = {}
      \/ \A c \in list : c.status \in Operations => c.configPhase = "InProgress"
  BY <1>3, GoingFacts DEF ControlInv, AtWork
<1>5. Shown(list, o) = IF selectActiveConfig(list).status = o THEN 1 ELSE 0
  BY <1>1, <1>2, <1>4, ActiveSelected
<1>. QED
  BY <1>1, <1>5 DEF Carried
===============================================================================
