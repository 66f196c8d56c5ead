------------------------ MODULE RedkeyRefinementProofs ------------------------
(***************************************************************************)
(* RedkeyReconciler implements ConfigPipeline, in the two regimes of       *)
(* RedkeyPipelineProofs: an invariant about the generation that entered    *)
(* the queue last, and then every step of the operator, the user, Robin    *)
(* and the caches as a step of the queue or none.                          *)
(***************************************************************************)
EXTENDS RedkeySafetyProofs, RedkeyPipeline

------------------------------------------------------------------------------
(* The generation that entered the queue last.                                 *)

\* The steps of case C of scale-to-zero up to its last delete.
Teardown == {"deleteRobinDeployment", "deleteRBAC", "listAllConfigs", "deleteAllConfigs"}

\* The generation that entered last is the newest.  When it has no config any
\* more it was a scale-to-zero: nothing is left to do, and whoever still asks for
\* it asks for zero.  Case C has seen it applied.
EnteredInv ==
  /\ ~Alive => entered = 0
  /\ Alive =>
       /\ entered \in Nat
       /\ \A c \in Stored(configs) : c.generation <= entered
       /\ ~HasConfig(entered) =>
            /\ Unfinished(Stored(configs)) = {}
            /\ \A r \in Copies : /\ entered <= r.generation
                                 /\ r.generation = entered => r.primaries = 0
       /\ pc \in Teardown =>
            \A c \in Stored(configs) :
              c.generation = entered => c.primaries = 0 /\ c.configPhase = "Applied"

\* What RecordEntered records.
LEMMA EnteredNext ==
  ASSUME RecordEntered
  PROVE  /\ ~Alive' => entered' = 0
         /\ Alive' /\ Appeared = {} => entered' = entered
         /\ \A c : Alive' /\ Appeared = {c} => entered' = c.generation
BY Zenon DEF RecordEntered, Alive

\* Only a creation makes a config appear.
LEMMA AppearedStep ==
  ASSUME Going
  PROVE  /\ Stored(configs') = Stored(configs) => Appeared = {}
         /\ Cleaned \/ Emptied \/ Moved => Appeared = {}
         /\ \A c : /\ OnTop(c, Stored(configs)) /\ c.sequence \in Nat
                   /\ Stored(configs') = Stored(configs) \cup {c}
                   => Appeared = {c}
<1>1. Stored(configs)' = Stored(configs')
  BY DEF Stored
<1>2. ASSUME \A e \in Stored(configs') : \E d \in Stored(configs) : d.sequence = e.sequence
      PROVE  Appeared = {}
  BY <1>1, <1>2 DEF Appeared, Removed
<1>3. Cleaned \/ Emptied => Appeared = {}
  BY <1>2 DEF Cleaned, Emptied, Without
<1>4. Moved => Appeared = {}
  BY <1>2, ConfigsRobin DEF Moved, Evolves
<1>5. ASSUME NEW c, OnTop(c, Stored(configs)), c.sequence \in Nat,
             Stored(configs') = Stored(configs) \cup {c}
      PROVE  Appeared = {c}
  <2>1. \A d \in Stored(configs) : d.sequence \in Nat
    BY GoingFacts, ConfigNumbers
  <2>2. \A d \in Stored(configs) : d.sequence # c.sequence
    BY <1>5, <2>1 DEF OnTop
  <2>. QED
    BY <1>1, <1>5, <2>2 DEF Appeared, Removed
<1>. QED
  BY <1>2, <1>3, <1>4, <1>5

\* The way into case C of scale-to-zero: the newest config is its scale-to-zero.
LEMMA TeardownPath ==
  ASSUME Going, [Next]_vars, pc' \in Teardown
  PROVE  \/ pc \in Teardown
         \/ /\ UNCHANGED configs /\ Stored(configs) # {} /\ pc = "idle"
            /\ ScaleToZeroDone(HighestSeq(Stored(configs)))
<1>1. CASE UNCHANGED pc
  BY <1>1
<1>2. CASE ReconcileStep
  <2>1. CASE StartReconcile
    <3>. DEFINE c == Cached(redkeys)
                l == Cached(configs)
    <3>1. /\ UNCHANGED configs /\ c.primaries = 0 /\ l # {} /\ pc = "idle"
          /\ ScaleToZeroDone(HighestSeq(l))
      BY <2>1 DEF StartReconcile, Goto, storeVars, Teardown
    <3>2. c \in Copies /\ CopiesInv
      BY GoingFacts, FeedVersions DEF Copies, Going, TypeInv
    <3>3. l = Stored(configs)
      BY <3>1, <3>2, NoLag DEF CopiesInv
    <3>. QED
      BY <3>1, <3>3
  <2>2. ~(EnsureRBAC \/ EnsureRobinDeployment)
    BY DEF EnsureRBAC, EnsureRobinDeployment, AfterEnsure, Return, Goto, Teardown
  <2>3. ~(CreateNewConfig \/ ListConfigs \/ CleanupSupersededConfigs)
    BY DEF CreateNewConfig, ListConfigs, CleanupSupersededConfigs, AfterList, Return, Goto,
           Teardown
  <2>4. ~(CreateZeroConfig \/ AggregateStatus \/ UpdateStatusScaledToZero)
    BY DEF CreateZeroConfig, AggregateStatus, UpdateStatusScaledToZero, Return, Goto, Teardown
  <2>5. CASE DeleteRobinDeployment \/ DeleteRBAC \/ ListAllConfigs \/ DeleteAllConfigs
    BY <2>5 DEF DeleteRobinDeployment, DeleteRBAC, ListAllConfigs, DeleteAllConfigs, Teardown
  <2>6. CASE ReconcileGone
    BY <2>6, <1>1 DEF ReconcileGone, vars
  <2>. QED
    BY <1>2, <2>1, <2>2, <2>3, <2>4, <2>5, <2>6 DEF ReconcileStep
<1>3. ~(ReconcileFails \/ Restart)
  BY DEF ReconcileFails, Restart, Return, Goto, Teardown
<1>4. CASE (\E p \in Primaries : EditSpec(p)) \/ DeleteRedkey \/ Collect \/ Deliver
           \/ RobinActs \/ UNCHANGED vars
  BY <1>1, <1>4 DEF EditSpec, DeleteRedkey, Collect, CollectConfig, CollectRobin, Deliver,
         DeliverRedkey, DeliverConfigs, DeliverRobin, RobinActs, RobinStep, RobinStarts,
         RobinSupersedes, RobinApplies, RobinReports, RobinWrites, localVars, vars
<1>. QED
  BY <1>2, <1>3, <1>4 DEF Next

\* The copies of the Redkey after a step are not older than those of before.
LEMMA EnteredCopies ==
  ASSUME Going, Alive', [Next]_vars, NEW n \in Nat,
         \A r \in Copies : n <= r.generation /\ (r.generation = n => r.primaries = 0)
  PROVE  \A r \in Copies' : n <= r.generation /\ (r.generation = n => r.primaries = 0)
<1>. DEFINE r == Stored(redkeys)
            t == Stored(redkeys')
<1>1. SpecKept \/ SpecEdited
  BY RedkeyStep DEF RedkeyDeleted, Going
<1>2. Copies' \subseteq Copies \cup {t} /\ r \in Copies /\ r.generation \in Nat
  BY <1>1, CopiesAfter DEF RedkeyType
<1>. HIDE DEF r, t
<1>3. n <= t.generation /\ (t.generation = n => t.primaries = 0)
  <2>1. CASE t.generation = r.generation /\ t.primaries = r.primaries
    BY <2>1, <1>2
  <2>2. CASE t.generation = r.generation + 1
    BY <2>2, <1>2
  <2>. QED
    BY <2>1, <2>2, <1>1 DEF SpecKept, SpecEdited, r, t
<1>. QED
  BY <1>2, <1>3

\* A creation: the generation is newer than any that entered, or it is that of a
\* scale-to-zero whose clean-up was cut short.
LEMMA EnteredCreate ==
  ASSUME Going, EnteredInv, NEW c \in ConfigType, OnTop(c, Stored(configs)),
         c.generation = cluster.generation, c.primaries = cluster.primaries,
         pc \in {"createNewConfig", "createZeroConfig"}
  PROVE  \/ c.generation > entered
         \/ /\ c.generation = entered /\ c.primaries = 0 /\ ~HasConfig(entered)
            /\ Unfinished(Stored(configs)) = {} /\ Stored(configs) # {}
<1>1. /\ c.generation \in Nat /\ entered \in Nat
      /\ \A d \in Stored(configs) : d.generation < c.generation
  BY DEF ConfigType, OnTop, EnteredInv, Going
<1>2. CASE HasConfig(entered)
  BY <1>1, <1>2 DEF HasConfig
<1>3. CASE ~HasConfig(entered)
  <2>1. /\ Unfinished(Stored(configs)) = {}
        /\ entered <= c.generation /\ (c.generation = entered => c.primaries = 0)
    BY <1>3 DEF EnteredInv, Going, Copies
  <2>2. c.primaries = 0 => Stored(configs) # {}
    BY GoingFacts DEF ControlInv, ZeroInv, Mirrors
  <2>. QED
    BY <2>1, <2>2, <1>1, <1>3
<1>. QED
  BY <1>2, <1>3

\* What a step of each kind does to the configs, as far as EnteredInv looks.
LEMMA EnteredConfigs ==
  ASSUME Going, Alive', [Next]_vars, RecordEntered, EnteredInv,
         Stored(configs') = Stored(configs) \/ Created \/ Cleaned \/ Emptied \/ Moved
  PROVE  /\ entered' \in Nat
         /\ \A e \in Stored(configs') : e.generation <= entered'
         /\ (\A e \in Stored(configs') : e.generation # entered') =>
              /\ entered' = entered /\ Unfinished(Stored(configs')) = {}
              /\ \A r \in Copies : /\ entered <= r.generation
                                   /\ r.generation = entered => r.primaries = 0
<1>. DEFINE S == Stored(configs)
            T == Stored(configs')
<1>1. /\ S \in ConfigSets /\ WellFormed(S) /\ CopiesInv
      /\ \A c \in S : c.sequence \in Nat /\ c.generation \in Nat
  BY GoingFacts, ConfigNumbers
<1>2. /\ entered \in Nat /\ \A c \in S : c.generation <= entered
      /\ (\A c \in S : c.generation # entered) =>
           /\ Unfinished(S) = {}
           /\ \A r \in Copies : /\ entered <= r.generation
                                /\ r.generation = entered => r.primaries = 0
      /\ pc \in Teardown =>
           \A c \in S : c.generation = entered => c.primaries = 0 /\ c.configPhase = "Applied"
  BY DEF EnteredInv, Going, HasConfig
<1>. HIDE DEF S, T
<1>3. CASE T = S
  <2>1. entered' = entered
    BY <1>3, AppearedStep, EnteredNext DEF S, T
  <2>. QED
    BY <2>1, <1>2, <1>3 DEF S, T
<1>4. CASE Created
  <2>1. PICK c \in ConfigType : OnTop(c, S) /\ T = S \cup {c}
    BY <1>4 DEF Created, S, T
  <2>2. c.generation \in Nat /\ c.sequence \in Nat
    BY DEF ConfigType
  <2>3. entered' = c.generation
    BY <2>1, <2>2, AppearedStep, EnteredNext DEF S, T
  <2>4. \A e \in T : e.generation <= c.generation
    BY <2>1, <2>2, <1>1 DEF OnTop
  <2>. QED
    BY <2>1, <2>2, <2>3, <2>4 DEF T
<1>5. CASE Cleaned \/ Emptied
  <2>1. entered' = entered
    BY <1>5, AppearedStep, EnteredNext
  <2>2. T \subseteq S
    BY <1>5 DEF Cleaned, Emptied, Without, S, T
  <2>3. Unfinished(S) = {} => Unfinished(T) = {}
    BY <2>2 DEF Unfinished
  <2>4. ASSUME NEW d \in S, d.generation = entered, \A e \in T : e.generation # entered
        PROVE  /\ Unfinished(S) = {}
               /\ \A r \in Copies : /\ entered <= r.generation
                                    /\ r.generation = entered => r.primaries = 0
    <3>1. ~Cleaned
      <4>. SUFFICES ASSUME Cleaned PROVE FALSE
        OBVIOUS
      <4>1. PICK n \in Nat : T = Without(n)
                             /\ \E b \in Without(n) : b.configPhase = "Applied" /\ n < b.sequence
        BY DEF Cleaned, T
      <4>2. PICK b \in S : n < b.sequence /\ b \in T
        BY <4>1 DEF Without, S
      <4>3. d.sequence = n
        BY <4>1, <2>4 DEF Without, S
      <4>. QED
        BY <4>2, <4>3, <2>4, <1>1, <1>2 DEF WellFormed
    <3>2. Unfinished(S) = {} /\ pc = "deleteAllConfigs"
      BY <3>1, <1>5 DEF Emptied, S
    <3>3. d.primaries = 0
      BY <3>2, <2>4, <1>2 DEF Teardown
    <3>4. \A r \in Copies : d.generation <= r.generation
                            /\ (d.generation = r.generation => d.primaries = r.primaries)
      BY <1>1 DEF CopiesInv, S
    <3>. QED
      BY <3>2, <3>3, <3>4, <2>4
  <2>. QED
    BY <2>1, <2>2, <2>3, <2>4, <1>2 DEF T
<1>6. CASE Moved
  <2>1. entered' = entered
    BY <1>6, AppearedStep, EnteredNext
  <2>2. Evolves(S, T)
    BY <1>6, ConfigsRobin DEF Moved, S, T
  <2>3. /\ \A d \in S : \E e \in T : e.generation = d.generation
        /\ \A e \in T : \E d \in S : e.generation = d.generation
        /\ Unfinished(S) = {} => Unfinished(T) = {}
    BY <2>2 DEF Evolves, SameWork, Unfinished
  <2>. QED
    BY <2>1, <2>3, <1>2 DEF T
<1>. QED
  BY <1>3, <1>4, <1>5, <1>6 DEF S, T

\* Case C goes on with the scale-to-zero it has seen applied.
LEMMA EnteredTeardown ==
  ASSUME Going, Alive', [Next]_vars, RecordEntered, EnteredInv, pc' \in Teardown,
         Stored(configs') = Stored(configs) \/ Created \/ Cleaned \/ Emptied \/ Moved
  PROVE  \A e \in Stored(configs') :
           e.generation = entered' => e.primaries = 0 /\ e.configPhase = "Applied"
<1>. DEFINE S == Stored(configs)
            T == Stored(configs')
<1>1. /\ S \in ConfigSets /\ WellFormed(S)
      /\ \A c \in S : c.sequence \in Nat /\ c.generation \in Nat
      /\ entered \in Nat /\ \A c \in S : c.generation <= entered
  BY GoingFacts, ConfigNumbers DEF EnteredInv, Going
<1>2. ~Created
  BY TeardownPath DEF Created, Teardown
<1>3. entered' = entered
  BY <1>2, AppearedStep, EnteredNext
<1>4. ASSUME pc \in Teardown
      PROVE  \A c \in S : c.generation = entered => c.primaries = 0 /\ c.configPhase = "Applied"
  BY <1>4 DEF EnteredInv, Going
<1>. HIDE DEF S, T
<1>5. CASE pc \in Teardown
  <2>1. CASE T \subseteq S
    BY <2>1, <1>3, <1>4, <1>5 DEF T
  <2>2. CASE Moved
    <3>1. Evolves(S, T)
      BY <2>2, ConfigsRobin DEF Moved, S, T
    <3>2. ASSUME NEW e \in T, e.generation = entered
          PROVE  e.primaries = 0 /\ e.configPhase = "Applied"
      <4>1. PICK d \in S : SameWork(d, e)
        BY <3>1 DEF Evolves
      <4>2. d.primaries = 0 /\ d.configPhase = "Applied"
        BY <4>1, <3>2, <1>4, <1>5 DEF SameWork
      <4>. QED
        BY <4>1, <4>2 DEF SameWork, isTerminalConfigPhase
    <3>. QED
      BY <3>2, <1>3 DEF T
  <2>3. Cleaned \/ Emptied => T \subseteq S
    BY DEF Cleaned, Emptied, Without, S, T
  <2>. QED
    BY <2>1, <2>2, <2>3, <1>2 DEF S, T
<1>6. CASE /\ UNCHANGED configs /\ S # {} /\ ScaleToZeroDone(HighestSeq(S))
  <2>1. HighestSeq(S) \in S /\ \A d \in S : d.sequence <= HighestSeq(S).sequence
    BY <1>1, <1>6, ListEnds
  <2>2. ASSUME NEW e \in S, e.generation = entered PROVE e = HighestSeq(S)
    BY <2>1, <2>2, <1>1 DEF WellFormed
  <2>3. T = S
    BY <1>6 DEF S, T
  <2>. QED
    BY <2>2, <2>3, <1>3, <1>6 DEF ScaleToZeroDone, T
<1>. QED
  BY <1>5, <1>6, TeardownPath DEF S

\* Every step keeps EnteredInv.
LEMMA EnteredStep ==
  ASSUME Regime, Inv, Inv', EnteredInv, [Next /\ RecordEntered]_pipelineVars
  PROVE  EnteredInv'
<1>1. CASE UNCHANGED pipelineVars
  BY <1>1 DEF pipelineVars, vars, EnteredInv, Alive, Copies, HasConfig
<1>2. CASE (Next /\ RecordEntered) /\ ~Alive'
  BY <1>2, EnteredNext DEF EnteredInv
<1>3. CASE (Next /\ RecordEntered) /\ Alive'
  <2>1. Alive
    <3>1. SpecKept \/ SpecEdited \/ RedkeyDeleted
      BY <1>3, RedkeyStep DEF Inv
    <3>. QED
      BY <3>1, <1>3 DEF SpecKept, SpecEdited, RedkeyDeleted, Alive
  <2>2. Going
    BY <2>1, StepGoing
  <2>3. Stored(configs') = Stored(configs) \/ Created \/ Cleaned \/ Emptied \/ Moved
    BY <2>2, <1>3, StoredStep
  <2>4. /\ entered' \in Nat
        /\ \A e \in Stored(configs') : e.generation <= entered'
        /\ (\A e \in Stored(configs') : e.generation # entered') =>
             /\ entered' = entered /\ Unfinished(Stored(configs')) = {}
             /\ \A r \in Copies : /\ entered <= r.generation
                                  /\ r.generation = entered => r.primaries = 0
    BY <2>2, <2>3, <1>3, EnteredConfigs
  <2>5. entered \in Nat
    BY <2>1 DEF EnteredInv
  <2>6. (\A e \in Stored(configs') : e.generation # entered') =>
          \A r \in Copies' : entered' <= r.generation /\ (r.generation = entered' => r.primaries = 0)
    BY <2>2, <2>4, <2>5, <1>3, EnteredCopies
  <2>7. pc' \in Teardown =>
          \A e \in Stored(configs') :
            e.generation = entered' => e.primaries = 0 /\ e.configPhase = "Applied"
    BY <2>2, <2>3, <1>3, EnteredTeardown
  <2>. QED
    BY <2>4, <2>6, <2>7, <1>3 DEF EnteredInv, HasConfig
<1>. QED
  BY <1>1, <1>2, <1>3
------------------------------------------------------------------------------
(* The refinement: the steps of the operator, the user and Robin are steps of  *)
(* ConfigPipeline on the generations and phases of the stored configs.         *)

\* The state of ConfigPipeline, and the entry of one config and of a set of them.
Asked == IF Stored(redkeys).deletion = "" THEN Stored(redkeys).generation ELSE 0
Queue == IF Stored(redkeys).deletion = ""
         THEN {[generation |-> c.generation, primaries |-> c.primaries, phase |-> c.configPhase]
                : c \in Stored(configs)}
         ELSE {}
Entry(c) == Pipeline!Item(c.generation, c.primaries, c.configPhase)
Entries(S) == {Entry(c) : c \in S}

\* What the mapping shows of a Redkey, and of a deleted one.
LEMMA Mapped ==
  /\ Alive => Asked = Stored(redkeys).generation /\ Queue = Entries(Stored(configs))
  /\ ~Alive => Asked = 0 /\ Queue = {}
BY DEF Alive, Asked, Queue, Entries, Entry, Pipeline!Item

\* The same after a step.
LEMMA MappedNext ==
  /\ Alive' => Asked' = Stored(redkeys').generation /\ Queue' = Entries(Stored(configs'))
  /\ ~Alive' => Asked' = 0 /\ Queue' = {}
BY DEF Alive, Asked, Queue, Entries, Entry, Pipeline!Item

\* The steps of ConfigPipeline, in terms of Asked and Queue: no change of the
\* queue, a generation that enters, and one that moves on or leaves.
LEMMA MapsToNext ==
  /\ UNCHANGED <<Asked, Queue, entered>> => [Pipeline!Next]_(Pipeline!vars)
  /\ Asked \in 1..(MaxGeneration - 1) /\ Asked' = Asked + 1 /\ UNCHANGED <<Queue, entered>>
     => Pipeline!Next
  /\ Asked' = 0 /\ Queue' = {} /\ entered' = 0 => Pipeline!Next
<1>1. UNCHANGED <<Asked, Queue, entered>> => [Pipeline!Next]_(Pipeline!vars)
  BY DEF Pipeline!vars, Asked, Queue
<1>2. Asked \in 1..(MaxGeneration - 1) /\ Asked' = Asked + 1 /\ UNCHANGED <<Queue, entered>>
      => Pipeline!Ask
  BY DEF Pipeline!Ask, Asked, Queue
<1>3. Asked' = 0 /\ Queue' = {} /\ entered' = 0 => Pipeline!Withdraw
  BY DEF Pipeline!Withdraw, Asked, Queue
<1>. QED
  BY <1>1, <1>2, <1>3 DEF Pipeline!Next

LEMMA MapsToEnqueue ==
  ASSUME NEW g \in 1..Asked, NEW p \in Primaries,
         \/ g > entered
         \/ /\ g = entered /\ p = 0 /\ Queue # {}
            /\ \A q \in Queue : Pipeline!Done(q) /\ q.generation < g,
         Queue' = Queue \cup {Pipeline!Item(g, p, "Pending")}, entered' = g, UNCHANGED Asked
  PROVE  Pipeline!Next
<1>1. CASE g > entered
  BY <1>1 DEF Pipeline!Next, Pipeline!Enqueue, Asked, Queue
<1>2. CASE /\ g = entered /\ p = 0 /\ Queue # {}
           /\ \A q \in Queue : Pipeline!Done(q) /\ q.generation < g
  <2>1. \A q \in Queue : q.generation # entered
    BY <1>2
  <2>. QED
    BY <2>1, <1>2 DEF Pipeline!Next, Pipeline!Enqueue, Pipeline!AtZero, Asked, Queue
<1>. QED
  BY <1>1, <1>2

LEMMA MapsToTurn ==
  ASSUME NEW q \in Queue, UNCHANGED <<Asked, entered>>
  PROVE  /\ /\ q.phase = "Pending"
            /\ \A d \in Queue : d.generation < q.generation => Pipeline!Done(d)
            /\ Queue' = (Queue \ {q}) \cup {Pipeline!Item(q.generation, q.primaries, "InProgress")}
            => Pipeline!Next
         /\ /\ q.phase = "InProgress"
            /\ Queue' = (Queue \ {q}) \cup {Pipeline!Item(q.generation, q.primaries, "Applied")}
            => Pipeline!Next
         /\ /\ ~Pipeline!Done(q) /\ \E d \in Queue : d.generation > q.generation
            /\ Queue' = (Queue \ {q}) \cup {Pipeline!Item(q.generation, q.primaries, "Superseded")}
            => Pipeline!Next
         /\ /\ Pipeline!Done(q) /\ Queue' = Queue \ {q}
            /\ \/ \E d \in Queue : d.phase = "Applied" /\ d.generation > q.generation
               \/ \A d \in Queue :
                    /\ Pipeline!Done(d)
                    /\ d.generation = entered => d.primaries = 0 /\ d.phase = "Applied"
            => Pipeline!Next
<1>1. Pipeline!Begin(q) \/ Pipeline!Finish(q) \/ Pipeline!Skip(q) \/ Pipeline!Retire(q)
      => Pipeline!Next
  BY DEF Pipeline!Next, Queue
<1>. QED
  BY <1>1 DEF Pipeline!Begin, Pipeline!Finish, Pipeline!Skip, Pipeline!Retire, Pipeline!Turn,
              Pipeline!AtZero, Asked, Queue

\* In a well-formed set an entry belongs to one config, and the order of the
\* generations is that of the sequences.
LEMMA EntriesDistinct ==
  ASSUME NEW S \in ConfigSets, WellFormed(S)
  PROVE  /\ \A c, d \in S : Entry(c) = Entry(d) => c = d
         /\ \A c, d \in S : c.generation < d.generation => c.sequence < d.sequence
         /\ \A c \in S : /\ Entry(c).generation = c.generation /\ Entry(c).phase = c.configPhase
                         /\ Entry(c).primaries = c.primaries
         /\ \A c, d \in S : c.generation = d.generation => c = d
<1>1. \A c \in S : c.sequence \in Nat /\ c.generation \in Nat
  BY ConfigNumbers
<1>2. \A c \in S : /\ Entry(c).generation = c.generation /\ Entry(c).phase = c.configPhase
                   /\ Entry(c).primaries = c.primaries
  BY DEF Entry, Pipeline!Item
<1>3. ASSUME NEW c \in S, NEW d \in S, c.generation = d.generation PROVE c = d
  <2>1. ~(c.sequence < d.sequence) /\ ~(d.sequence < c.sequence)
    BY <1>1, <1>3 DEF WellFormed
  <2>. QED
    BY <2>1, <1>1 DEF WellFormed
<1>4. ASSUME NEW c \in S, NEW d \in S, c.generation < d.generation PROVE c.sequence < d.sequence
  <2>1. ~(d.sequence < c.sequence) /\ c # d
    BY <1>1, <1>4 DEF WellFormed
  <2>. QED
    BY <2>1, <1>1 DEF WellFormed
<1>. QED
  BY <1>2, <1>3, <1>4, SMTT(30)

\* What the three changes of the stored configs are on their entries.
LEMMA EntriesChange ==
  ASSUME NEW S \in ConfigSets, WellFormed(S)
  PROVE  /\ \A c : Entries(S \cup {c}) = Entries(S) \cup {Entry(c)}
         /\ \A c \in S : Entries(S \ {c}) = Entries(S) \ {Entry(c)}
         /\ \A e : \A c \in S :
              Entries((S \ {c}) \cup {e}) = (Entries(S) \ {Entry(c)}) \cup {Entry(e)}
<1>1. \A T, c : Entries(T \cup {c}) = Entries(T) \cup {Entry(c)}
  BY DEF Entries
<1>2. \A c \in S : Entries(S \ {c}) = Entries(S) \ {Entry(c)}
  BY EntriesDistinct DEF Entries
<1>. QED
  BY <1>1, <1>2

\* Creations, deletions and Robin's writes.
LEMMA ConfigsMapped ==
  ASSUME Going, [Next]_vars, RecordEntered, EnteredInv, UNCHANGED redkeys,
         Created \/ Cleaned \/ Emptied \/ Moved
  PROVE  [Pipeline!Next]_(Pipeline!vars)
<1>. DEFINE S == Stored(configs)
            T == Stored(configs')
<1>1. /\ S \in ConfigSets /\ WellFormed(S) /\ CopiesInv
      /\ \A c \in S : c.sequence \in Nat /\ c.generation \in Nat
  BY GoingFacts, ConfigNumbers
<1>2. Alive /\ Alive'
  <2>1. Alive
    BY DEF Going
  <2>. QED
    BY <2>1 DEF Alive
<1>3. /\ Asked = Stored(redkeys).generation /\ Asked' = Asked
      /\ Queue = Entries(S) /\ Queue' = Entries(T)
  BY <1>2, Mapped, MappedNext
<1>4. Cleaned \/ Emptied \/ Moved => UNCHANGED <<Asked, entered>>
  BY <1>2, <1>3, AppearedStep, EnteredNext
<1>5. /\ \A c \in S : Entry(c) \in Queue /\ Entry(c).generation = c.generation
                      /\ Entry(c).phase = c.configPhase /\ Entry(c).primaries = c.primaries
                      /\ (Pipeline!Done(Entry(c)) <=> isTerminalConfigPhase(c.configPhase))
      /\ \A q \in Queue : \E c \in S : q = Entry(c)
  BY <1>1, <1>3, EntriesDistinct DEF Entries, Pipeline!Done, isTerminalConfigPhase
<1>. HIDE DEF S, T
<1>6. CASE Created
  <2>1. PICK c \in ConfigType :
          /\ OnTop(c, S) /\ c.generation = cluster.generation /\ c.primaries = cluster.primaries
          /\ pc \in {"createNewConfig", "createZeroConfig"} /\ T = S \cup {c}
    BY <1>6 DEF Created, S, T
  <2>2. Entry(c) = Pipeline!Item(c.generation, c.primaries, "Pending")
    BY <2>1 DEF Entry, OnTop
  <2>3. Queue' = Queue \cup {Pipeline!Item(c.generation, c.primaries, "Pending")}
    BY <2>1, <2>2, <1>1, <1>3, EntriesChange, SMTT(30)
  <2>4. \A q \in Queue : q.generation < c.generation
    BY <2>1, <1>5 DEF OnTop
  <2>5. c.generation \in 1..Asked /\ c.primaries \in Primaries
    BY <2>1, <1>1, <1>3 DEF CopiesInv, Copies
  <2>6. \/ c.generation > entered
        \/ /\ c.generation = entered /\ c.primaries = 0
           /\ Unfinished(S) = {} /\ S # {}
    BY <2>1, EnteredCreate DEF S
  <2>7. Unfinished(S) = {} => \A q \in Queue : Pipeline!Done(q)
    BY <1>5 DEF Unfinished
  <2>8. S # {} => Queue # {}
    BY <1>5
  <2>9. c.sequence \in Nat
    BY DEF ConfigType
  <2>10. entered' = c.generation
    BY <2>1, <2>9, <1>2, AppearedStep, EnteredNext DEF S, T
  <2>11. UNCHANGED Asked
    BY <1>3
  <2>12. Pipeline!Next
    BY <2>3, <2>4, <2>5, <2>6, <2>7, <2>8, <2>10, <2>11, MapsToEnqueue
  <2>. QED
    BY <2>12
<1>7. ASSUME NEW n \in Nat, T = {d \in S : d.sequence # n}, UNCHANGED <<Asked, entered>>,
             \/ \E b \in S : b.configPhase = "Applied" /\ n < b.sequence
             \/ \A d \in S : /\ isTerminalConfigPhase(d.configPhase)
                             /\ d.generation = entered => d.primaries = 0 /\ d.configPhase = "Applied"
      PROVE  [Pipeline!Next]_(Pipeline!vars)
  <2>1. CASE \A d \in S : d.sequence # n
    <3>1. T = S
      BY <2>1, <1>7
    <3>. QED
      BY <3>1, <1>3, <1>7, MapsToNext
  <2>2. CASE \E d \in S : d.sequence = n
    <3>1. PICK d \in S : d.sequence = n
      BY <2>2
    <3>2. T = S \ {d}
      BY <3>1, <1>1, <1>7 DEF WellFormed
    <3>3. Queue' = Queue \ {Entry(d)}
      BY <3>2, <1>1, <1>3, EntriesChange
    <3>4. CASE \E b \in S : b.configPhase = "Applied" /\ n < b.sequence
      <4>1. PICK b \in S : b.configPhase = "Applied" /\ n < b.sequence
        BY <3>4
      <4>2. isTerminalConfigPhase(d.configPhase) /\ d.generation < b.generation
        BY <4>1, <3>1, <1>1 DEF WellFormed
      <4>3. Entry(b).phase = "Applied" /\ Entry(b).generation > Entry(d).generation
        BY <4>1, <4>2, <3>1, <1>1, <1>5
      <4>4. Entry(d) \in Queue /\ Entry(b) \in Queue /\ Pipeline!Done(Entry(d))
        BY <4>1, <4>2, <3>1, <1>5
      <4>. QED
        BY <4>3, <4>4, <3>3, <1>7, MapsToTurn
    <3>5. CASE \A e \in S : /\ isTerminalConfigPhase(e.configPhase)
                            /\ e.generation = entered => e.primaries = 0 /\ e.configPhase = "Applied"
      <4>1. \A q \in Queue : /\ Pipeline!Done(q)
                             /\ q.generation = entered => q.primaries = 0 /\ q.phase = "Applied"
        BY <3>5, <1>5
      <4>2. Entry(d) \in Queue
        BY <3>1, <1>5
      <4>. QED
        BY <4>1, <4>2, <3>3, <1>7, MapsToTurn
    <3>. QED
      BY <3>4, <3>5, <1>7
  <2>. QED
    BY <2>1, <2>2
<1>8. CASE Cleaned
  <2>1. PICK n \in Nat : /\ T = Without(n)
                         /\ \E b \in Without(n) : b.configPhase = "Applied" /\ n < b.sequence
    BY <1>8 DEF Cleaned, T
  <2>. QED
    BY <2>1, <1>4, <1>7, <1>8 DEF Without, S
<1>9. CASE Emptied
  <2>1. PICK n \in Nat : T = Without(n) /\ Unfinished(S) = {} /\ pc = "deleteAllConfigs"
    BY <1>9 DEF Emptied, S, T
  <2>2. \A d \in S : /\ isTerminalConfigPhase(d.configPhase)
                     /\ d.generation = entered => d.primaries = 0 /\ d.configPhase = "Applied"
    BY <2>1 DEF Unfinished, EnteredInv, Going, Teardown, S
  <2>3. T = {d \in S : d.sequence # n} /\ UNCHANGED <<Asked, entered>>
    BY <2>1, <1>4, <1>9 DEF Without, S
  <2>. QED
    BY <2>2, <2>3, <1>7
<1>10. CASE Moved
  <2>1. PICK c \in S : RobinStarts(c) \/ RobinSupersedes(c) \/ RobinApplies(c) \/ RobinReports(c)
    BY <1>10 DEF Moved, S
  <2>2. UNCHANGED <<Asked, entered>>
    BY <1>4, <1>10
  <2>3. ASSUME NEW phase, RobinPuts(c, phase)
        PROVE  Queue' = (Queue \ {Entry(c)})
                         \cup {Pipeline!Item(Entry(c).generation, Entry(c).primaries, phase)}
    <3>1. PICK e \in ConfigType : /\ e.generation = c.generation /\ e.configPhase = phase
                                  /\ e.primaries = c.primaries
                                  /\ T = (S \ {c}) \cup {e}
      BY <2>3 DEF RobinPuts, S, T
    <3>2. Entry(e) = Pipeline!Item(Entry(c).generation, Entry(c).primaries, phase)
      BY <3>1, <2>1, <1>5 DEF Entry
    <3>. QED
      BY <3>1, <3>2, <2>1, <1>1, <1>3, EntriesChange, SMTT(30)
  <2>4. CASE RobinStarts(c)
    <3>1. /\ RobinPuts(c, "InProgress") /\ c.configPhase = "Pending"
          /\ c = LowestSeq(Unfinished(S))
      BY <2>1, <2>4, RobinPhases DEF RobinStarts, S
    <3>2. c \in Unfinished(S) /\ Sequenced(Unfinished(S))
      BY <3>1, <2>1, <1>1 DEF Unfinished, isTerminalConfigPhase, Sequenced
    <3>3. \A d \in Unfinished(S) : c.sequence <= d.sequence
      BY <3>1, <3>2, LowestSeqExists
    <3>4. ASSUME NEW d \in S, d.generation < c.generation
          PROVE  isTerminalConfigPhase(d.configPhase)
      <4>1. d.sequence < c.sequence
        BY <3>4, <2>1, <1>1, EntriesDistinct
      <4>. QED
        BY <4>1, <3>3, <2>1, <1>1 DEF Unfinished
    <3>5. \A q \in Queue : q.generation < Entry(c).generation => Pipeline!Done(q)
      BY <3>4, <2>1, <1>5
    <3>. QED
      <4>1. Entry(c) \in Queue /\ Entry(c).phase = "Pending"
        BY <3>1, <2>1, <1>5
      <4>2. Queue' = (Queue \ {Entry(c)})
                     \cup {Pipeline!Item(Entry(c).generation, Entry(c).primaries, "InProgress")}
        BY <3>1, <2>3
      <4>. QED
        BY <4>1, <4>2, <3>5, <2>2, MapsToTurn
  <2>5. CASE RobinSupersedes(c)
    <3>1. RobinPuts(c, "Superseded") /\ ~isTerminalConfigPhase(c.configPhase)
      BY <2>1, <2>5, RobinPhases DEF RobinSupersedes, isTerminalConfigPhase, S
    <3>2. PICK d \in S : d.sequence > c.sequence
      BY <2>5 DEF RobinSupersedes, ZeroAhead, S
    <3>3. d.generation > c.generation
      BY <3>2, <2>1, <1>1 DEF WellFormed
    <3>4. Entry(d).generation > Entry(c).generation
      BY <3>2, <3>3, <2>1, <1>5
    <3>. QED
      <4>1. Entry(c) \in Queue /\ Entry(d) \in Queue /\ ~Pipeline!Done(Entry(c))
        BY <3>1, <3>2, <2>1, <1>5
      <4>2. Queue' = (Queue \ {Entry(c)})
                     \cup {Pipeline!Item(Entry(c).generation, Entry(c).primaries, "Superseded")}
        BY <3>1, <2>3
      <4>. QED
        BY <4>1, <4>2, <3>4, <2>2, MapsToTurn
  <2>6. CASE RobinApplies(c)
    <3>1. RobinPuts(c, "Applied") /\ c.configPhase = "InProgress"
      BY <2>1, <2>6, RobinPhases DEF RobinApplies, S
    <3>. QED
      <4>1. Entry(c) \in Queue /\ Entry(c).phase = "InProgress"
        BY <3>1, <2>1, <1>5
      <4>2. Queue' = (Queue \ {Entry(c)})
                     \cup {Pipeline!Item(Entry(c).generation, Entry(c).primaries, "Applied")}
        BY <3>1, <2>3
      <4>. QED
        BY <4>1, <4>2, <2>2, MapsToTurn
  <2>7. CASE RobinReports(c)
    <3>1. RobinPuts(c, "Applied") /\ c.configPhase = "Applied"
      BY <2>1, <2>7, RobinPhases DEF RobinReports, S
    <3>2. Entry(c) = Pipeline!Item(Entry(c).generation, Entry(c).primaries, "Applied")
      BY <3>1, <2>1, <1>5 DEF Entry
    <3>3. Queue' = Queue
      BY <3>1, <3>2, <2>1, <2>3, <1>5
    <3>. QED
      BY <3>3, <2>2, MapsToNext
  <2>. QED
    BY <2>1, <2>4, <2>5, <2>6, <2>7
<1>. QED
  BY <1>6, <1>8, <1>9, <1>10

\* The user: an edit asks for the next generation, a deletion withdraws all.
LEMMA UserMapped ==
  ASSUME TypeInv, Inv, Alive, [Next]_vars, RecordEntered
  PROVE  /\ (\E p \in Primaries : EditSpec(p)) => Pipeline!Next
         /\ DeleteRedkey => Pipeline!Next
<1>1. ASSUME NEW p \in Primaries, EditSpec(p) PROVE Pipeline!Next
  <2>1. SpecEdited
    BY <1>1, RedkeyUserStep
  <2>2. /\ Asked = Stored(redkeys).generation /\ Asked' = Stored(redkeys').generation
        /\ Queue = Entries(Stored(configs)) /\ Queue' = Entries(Stored(configs'))
    BY <2>1, Mapped, MappedNext DEF SpecEdited
  <2>3. Asked' = Asked + 1 /\ Queue' = Queue
    BY <2>1, <2>2 DEF SpecEdited
  <2>9. UNCHANGED entered
    <3>1. Alive' /\ UNCHANGED configs
      BY <2>1 DEF SpecEdited
    <3>2. Appeared = {}
      BY <3>1 DEF Appeared, Removed, Stored
    <3>. QED
      BY <3>1, <3>2, EnteredNext
  <2>4. Stored(redkeys).generation < MaxGeneration
    BY <1>1 DEF EditSpec
  <2>5. Stored(redkeys) \in Copies /\ CopiesInv
    BY FeedVersions DEF Copies, TypeInv, Inv, PipelineInv
  <2>6. Stored(redkeys).generation \in 1..Stored(redkeys).generation
    BY <2>5 DEF CopiesInv
  <2>7. Stored(redkeys).generation \in Nat /\ MaxGeneration \in Nat
    BY ObservedTypes, BoundsAssumption
  <2>8. Asked \in 1..(MaxGeneration - 1)
    BY <2>2, <2>4, <2>6, <2>7
  <2>. QED
    BY <2>3, <2>8, <2>9, MapsToNext
<1>2. ASSUME DeleteRedkey PROVE Pipeline!Next
  <2>1. ~Alive'
    BY <1>2, RedkeyUserStep DEF RedkeyDeleted
  <2>. QED
    BY <2>1, MappedNext, EnteredNext, MapsToNext
<1>. QED
  BY <1>1, <1>2

\* Every step.
LEMMA PipelineMapped ==
  ASSUME Regime, Inv, Inv', EnteredInv, EnteredInv', [Next /\ RecordEntered]_pipelineVars
  PROVE  [Pipeline!Next]_(Pipeline!vars)
<1>1. TypeInv /\ [Next]_vars
  BY DEF Inv, pipelineVars
<1>2. CASE UNCHANGED pipelineVars
  BY <1>2, MapsToNext DEF pipelineVars, vars, Asked, Queue
<1>3. CASE RecordEntered /\ ~Alive
  <2>1. ~Alive'
    <3>1. SpecKept => (Alive' => Alive)
      BY DEF SpecKept, Alive
    <3>. QED
      BY <3>1, <1>1, <1>3, RedkeyStep DEF SpecEdited, RedkeyDeleted
  <2>2. entered = 0 /\ entered' = 0
    BY <2>1, <1>3 DEF EnteredInv
  <2>. QED
    BY <2>1, <2>2, <1>3, Mapped, MappedNext, MapsToNext
<1>4. CASE RecordEntered /\ Alive /\ ((\E p \in Primaries : EditSpec(p)) \/ DeleteRedkey)
  BY <1>1, <1>4, UserMapped
<1>5. CASE RecordEntered /\ Alive /\ ~(\E p \in Primaries : EditSpec(p)) /\ ~DeleteRedkey
  <2>1. Going
    BY <1>5, StepGoing
  <2>2. CASE UNCHANGED redkeys /\ (Created \/ Cleaned \/ Emptied \/ Moved)
    BY <2>1, <2>2, <1>1, <1>5, ConfigsMapped
  <2>3. CASE Stored(configs') = Stored(configs)
    <3>1. SpecKept
      BY <1>1, <1>5, NotEdited
    <3>2. Alive'
      BY <3>1, <1>5 DEF SpecKept, Alive
    <3>3. Stored(redkeys').generation = Stored(redkeys).generation
      BY <3>1 DEF SpecKept
    <3>4. UNCHANGED entered
      BY <3>2, <2>1, <2>3, <1>5, AppearedStep, EnteredNext
    <3>5. UNCHANGED <<Asked, Queue>>
      BY <3>2, <3>3, <2>3, <1>5, Mapped, MappedNext
    <3>. QED
      BY <3>4, <3>5, MapsToNext
  <2>. QED
    BY <2>1, <2>2, <2>3, <1>1, StoredStep
<1>. QED
  BY <1>2, <1>3, <1>4, <1>5

\* In both regimes, the operator, with its stale caches, its crashes and its
\* failing calls, and Robin implement ConfigPipeline: the generations are queued
\* and worked on in order; each is queued once, unless it is a scale-to-zero
\* whose deleteAllConfigs was cut short; and it leaves the queue only when it is
\* done, and a newer one is applied or the cluster is at zero.
THEOREM ImplementsConfigPipeline == Regime /\ PipelineSpec => ImplementsPipeline
<1>. SUFFICES ASSUME Regime PROVE PipelineSpec => ImplementsPipeline
  OBVIOUS
<1>1. PipelineStart => Pipeline!Init /\ EnteredInv /\ Init
  <2>. SUFFICES ASSUME PipelineStart PROVE Pipeline!Init /\ EnteredInv
    BY DEF PipelineStart
  <2>1. PICK p \in Primaries : redkeys = <<NewRedkey(p)>>
    BY DEF PipelineStart, Init
  <2>2. Stored(redkeys) = NewRedkey(p) /\ Stored(configs) = {} /\ entered = 0 /\ pc = "idle"
    BY <2>1 DEF PipelineStart, Init, Stored
  <2>3. NewRedkey(p).generation = 1 /\ NewRedkey(p).deletion = ""
    BY DEF NewRedkey
  <2>4. Alive
    BY <2>2, <2>3 DEF Alive
  <2>5. Asked = 1 /\ Queue = {}
    BY <2>2, <2>3, <2>4, Mapped DEF Entries
  <2>6. Pipeline!Init
    BY <2>2, <2>5 DEF Pipeline!Init, Asked, Queue
  <2>7. \A r \in Copies : r.generation = 1
    <3>1. NewRedkey(p).generation = 1
      BY <2>3
    <3>. QED
      BY <3>1, <2>1, <2>2 DEF Copies, Versions
  <2>8. EnteredInv
    <3>1. Unfinished(Stored(configs)) = {} /\ pc \notin Teardown
      BY <2>2 DEF Unfinished, Teardown
    <3>2. \A r \in Copies : entered <= r.generation /\ r.generation # entered
      BY <2>2, <2>7
    <3>. QED
      BY <3>1, <3>2, <2>2, <2>4 DEF EnteredInv
  <2>. QED
    BY <2>6, <2>8
<1>2. [Next /\ RecordEntered]_pipelineVars => [Next]_vars
  BY DEF pipelineVars
<1>3. PipelineSpec => []Inv
  BY <1>1, <1>2, PipelineInductive, PTL DEF PipelineSpec, Spec
<1>4. Inv /\ Inv' /\ EnteredInv /\ [Next /\ RecordEntered]_pipelineVars => EnteredInv'
  BY EnteredStep
<1>5. Inv /\ Inv' /\ EnteredInv /\ EnteredInv' /\ [Next /\ RecordEntered]_pipelineVars
      => [Pipeline!Next]_(Pipeline!vars)
  BY PipelineMapped
<1>. QED
  BY <1>1, <1>3, <1>4, <1>5, PTL DEF PipelineSpec, ImplementsPipeline, Pipeline!Spec
==============================================================================
