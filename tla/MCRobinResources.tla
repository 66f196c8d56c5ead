--------------------------- MODULE MCRobinResources ---------------------------
(***************************************************************************)
(* Specs for model checking RobinResources.                                *)
(***************************************************************************)
EXTENDS RobinResources

SetsNothing == [meta |-> Empty, tplMeta |-> Empty, template |-> Empty]

\* Adds a label, collides with the internal label and environment, and
\* overrides the pod's metadata, its image and an option.
SetsAll ==
  [meta     |-> [cluster |-> "a", user |-> "a"],
   tplMeta  |-> [user |-> "b"],
   template |-> [CLUSTER_NAME |-> "a", image |-> "a", option |-> "a"]]

MCSpecs == {SetsNothing, SetsAll}
===============================================================================
