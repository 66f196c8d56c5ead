---------------------------- MODULE RedkeyPipeline ----------------------------
(***************************************************************************)
(* RedkeyReconciler seen as ConfigPipeline.  The stored configs do not     *)
(* tell which generations had one before: deleteAllConfigs forgets them.   *)
(* A history variable remembers the one that got its config last.  It      *)
(* observes the steps and restricts none of them.                          *)
(***************************************************************************)
EXTENDS RedkeyReconciler

VARIABLE entered  \* generation of the config created last, 0 for none

pipelineVars == <<vars, entered>>

PipelineStart == Init /\ entered = 0

\* Configs that are stored after the step under a name that was free before it.
Appeared == Removed(Stored(configs)', Stored(configs))

\* The promise ends with the Redkey.
RecordEntered ==
  entered' = CASE Stored(redkeys)'.deletion # "" -> 0
               [] Stored(redkeys)'.deletion = "" /\ Appeared = {} -> entered
               [] Stored(redkeys)'.deletion = "" /\ Appeared # {} ->
                    (CHOOSE c \in Appeared : TRUE).generation

PipelineSpec == PipelineStart /\ [][Next /\ RecordEntered]_pipelineVars

\* The generations of the Redkey and its configs as ConfigPipeline sees them.
Pipeline == INSTANCE ConfigPipeline WITH
  asked <- IF Stored(redkeys).deletion = "" THEN Stored(redkeys).generation ELSE 0,
  queue <- IF Stored(redkeys).deletion = ""
           THEN {[generation |-> c.generation, primaries |-> c.primaries, phase |-> c.configPhase]
                  : c \in Stored(configs)}
           ELSE {}

\* Whatever the caches show and whichever call fails, createNewConfig,
\* cleanupSupersededConfigs, deleteAllConfigs and Robin together take only the
\* steps of ConfigPipeline: no generation is queued out of order or a second
\* time, unless it scales to zero and its clean-up was cut short; and none
\* leaves the queue unfinished, or while it is the baseline of a cluster that is
\* not at zero.
ImplementsPipeline == Pipeline!Spec
===============================================================================
