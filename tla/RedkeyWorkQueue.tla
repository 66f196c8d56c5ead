---------------------------- MODULE RedkeyWorkQueue ----------------------------
(***************************************************************************)
(* What makes the operator reconcile: the watches of SetupWithManager and  *)
(* the work queue between them and Reconcile, composed with the reconciler *)
(* (redkey_controller.go).                                                 *)
(*                                                                         *)
(* RedkeyReconciler lets a reconcile start at any time.  Here one starts   *)
(* only when the key of the Redkey is queued: by a watch event, by a       *)
(* reconcile that returned an error, by the list a starting operator makes *)
(* or by the resync.  The resync may come at any time but is not fair, so  *)
(* what holds here holds without it: "The controller should be fully       *)
(* event-driven under normal operation, so this is just a fallback."       *)
(*                                                                         *)
(* The resync stands for the watch events on what the model leaves out too *)
(* (the contents of Robin's objects, lastUpdatedAt).                       *)
(***************************************************************************)
EXTENDS RedkeyReconciler

VARIABLE queued  \* whether the work queue has the key, dirty ones included

queueVars == <<vars, queued>>

\* For(Redkey): this step shows the informer another version of the Redkey.
RedkeyEvent == Cached(redkeys') # Cached(redkeys)

\* Faulty: Owns(RedkeyConfig) is forgotten.
OwnedEventRobinOnly == robinSeen' # robinSeen

\* Owns(RedkeyConfig), Owns(Deployment) and the RBAC kinds.
OwnedEvent == Cached(configs') # Cached(configs) \/ robinSeen' # robinSeen

\* Faulty: only the error of a refused status update is returned.
ReturnsErrorOfUpdate ==
  pc \in {"aggregateStatus", "updateStatusScaledToZero"} /\ ~StatusAccepted

\* A reconcile that ends in this step returns an error, which is requeued.
ReturnsError ==
  \/ pc \in {"ensureRBAC", "ensureRobinDeployment", "deleteRBAC"}
  \/ pc \in {"aggregateStatus", "updateStatusScaledToZero"} /\ ~StatusAccepted

QueueInit == Init /\ queued = TRUE

\* The key leaves the queue when a worker takes it; an event that comes during
\* the reconcile queues it again.
TakeKey == queued /\ (StartReconcile \/ ReconcileGone) /\ queued' = FALSE

ReconcileQueued ==
  /\ pc # "idle" /\ ReconcileStep
  /\ queued' = (queued \/ RedkeyEvent \/ OwnedEvent \/ (pc' = "idle" /\ ReturnsError))

Watched(A) == A /\ queued' = (queued \/ RedkeyEvent \/ OwnedEvent)

\* A starting operator lists every Redkey.
Requeued(A) == A /\ queued' = TRUE

Resync == ~queued /\ Requeued(UNCHANGED vars)

QueueNext ==
  \/ TakeKey \/ ReconcileQueued \/ Resync
  \/ Requeued(ReconcileFails) \/ Requeued(Restart)
  \/ Watched(\E p \in Primaries : EditSpec(p))
  \/ Watched(DeleteRedkey) \/ Watched(Collect)
  \/ Watched(Deliver) \/ Watched(RobinActs)

\* The fairness of the reconciler, for reconciles that are queued.
FairQueueSpec ==
  /\ QueueInit /\ [][QueueNext]_queueVars
  /\ WF_queueVars(Watched(DeliverRedkey)) /\ WF_queueVars(Watched(DeliverConfigs))
  /\ \A o \in RobinObjects : WF_queueVars(Watched(DeliverRobin(o)))
  /\ WF_queueVars(TakeKey \/ ReconcileQueued)
  /\ WF_queueVars(Watched(RobinStep))

------------------------------------------------------------------------------
(* Properties. *)

\* Nothing is on its way that would wake the operator: the key is not queued, the
\* caches of the Redkey and of its configs are fresh, and no deletion of one of
\* Robin's objects is still to be seen.
Quiet ==
  /\ ~queued
  /\ Len(redkeys) = 1 /\ Len(configs) = 1 /\ robinSeen \subseteq robin

SaysScaledToZero(r) ==
  r.phase = "Ready" /\ r.status = "" /\ r.observedGeneration = r.generation

\* No config of S is to be cleaned up or, at zero primaries, to be created or torn
\* down, and Robin has everything it runs on.
LeftToRobin(r, S) ==
  /\ S # {} /\ robin = RobinObjects
  /\ IF r.primaries = 0
     THEN HighestSeq(S).primaries = 0 /\ ~ScaleToZeroDone(HighestSeq(S))
     ELSE SupersededConfigs(S) = {}

\* Nothing is left for a reconcile of r with configs S to do: r is scaled to zero
\* and says so, or the next step is Robin's and the status is that of the active
\* config.
Settled(r, S) ==
  \/ r.primaries = 0 /\ S = {} /\ SaysScaledToZero(r)
  \/ LeftToRobin(r, S) /\ r = AggregatedStatus(r, r.generation, selectActiveConfig(S))

\* No wake-up is lost: when nothing is on its way and no reconcile runs, the last
\* one has left nothing undone.  So every edit, every write of Robin, every
\* returned error and every change made under a running reconcile is followed by
\* another reconcile, without the resync (SetupWithManager, and the returns of
\* Reconcile with an error and without one).
SettledWhenIdle ==
  pc = "idle" /\ Quiet /\ Stored(redkeys).deletion = ""
  => Settled(Stored(redkeys), Stored(configs))
===============================================================================
