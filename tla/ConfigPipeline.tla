---------------------------- MODULE ConfigPipeline ----------------------------
(***************************************************************************)
(* What the operator and Robin together promise about the generations of a *)
(* Redkey, without caches, reconcile steps, names or sequence numbers: the *)
(* generations enter a queue in the order in which the user asked for      *)
(* them, are worked on in that order and one at a time, and leave the      *)
(* queue only when a newer one is applied or the cluster is at zero.  A    *)
(* generation enters once, with one exception: a scale-to-zero that has    *)
(* left the queue before older generations did may be asked for again.     *)
(* Deleting the Redkey ends the promise.                                   *)
(*                                                                         *)
(* RedkeyReconciler implements this (ImplementsPipeline of RedkeyPipeline).*)
(***************************************************************************)
EXTENDS Naturals

CONSTANTS
  Primaries,      \* topologies the user asks for, 0 to scale to zero
  MaxGeneration   \* bound: generations the user asks for

VARIABLES
  asked,    \* the generation the user asked for last, 0 once the Redkey is deleted
  queue,    \* the generations in the queue, each with its phase
  entered   \* the generation that entered the queue last, 0 for none

vars == <<asked, queue, entered>>

Item(g, p, phase) == [generation |-> g, primaries |-> p, phase |-> phase]
Done(q) == q.phase \in {"Applied", "Superseded"}
Turn(q, phase) == queue' = (queue \ {q}) \cup {Item(q.generation, q.primaries, phase)}

\* Nothing is left to do, and the last thing done was a scale-to-zero: the
\* generation that entered last is one and is applied, or has left the queue
\* already, which it can only do when it was.
AtZero ==
  /\ \A q \in queue : Done(q)
  /\ \A q \in queue : q.generation = entered => q.primaries = 0 /\ q.phase = "Applied"

Init == asked = 1 /\ queue = {} /\ entered = 0

Ask ==
  /\ asked \in 1..(MaxGeneration - 1) /\ asked' = asked + 1
  /\ UNCHANGED <<queue, entered>>

\* Generations may be skipped, never reordered, and none enters a second time
\* but a scale-to-zero that has left a queue which is still being emptied.
Enqueue(g, p) ==
  /\ \/ g > entered
     \/ /\ g = entered /\ p = 0 /\ AtZero
        /\ queue # {} /\ \A q \in queue : q.generation < g
  /\ queue' = queue \cup {Item(g, p, "Pending")}
  /\ entered' = g
  /\ UNCHANGED asked

\* Work starts on the oldest generation that is not done.
Begin(q) ==
  /\ q.phase = "Pending"
  /\ \A d \in queue : d.generation < q.generation => Done(d)
  /\ Turn(q, "InProgress")
  /\ UNCHANGED <<asked, entered>>

Finish(q) ==
  q.phase = "InProgress" /\ Turn(q, "Applied") /\ UNCHANGED <<asked, entered>>

\* Work is skipped or given up only for a newer generation.
Skip(q) ==
  /\ ~Done(q)
  /\ \E d \in queue : d.generation > q.generation
  /\ Turn(q, "Superseded")
  /\ UNCHANGED <<asked, entered>>

\* Either a newer generation is applied, or the cluster is at zero.
Retire(q) ==
  /\ Done(q)
  /\ AtZero \/ \E d \in queue : d.phase = "Applied" /\ d.generation > q.generation
  /\ queue' = queue \ {q}
  /\ UNCHANGED <<asked, entered>>

Withdraw == asked' = 0 /\ queue' = {} /\ entered' = 0

Next ==
  \/ Ask \/ Withdraw
  \/ \E g \in 1..asked, p \in Primaries : Enqueue(g, p)
  \/ \E q \in queue : Begin(q) \/ Finish(q) \/ Skip(q) \/ Retire(q)

Spec == Init /\ [][Next]_vars
===============================================================================
