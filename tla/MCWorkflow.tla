----------------------------- MODULE MCWorkflow -----------------------------
(* Instances of Workflow for TLC: steps are numbers, and a step may depend  *)
(* on smaller ones, which gives every DAG up to renaming.                   *)
EXTENDS Workflow

CONSTANT Size

StepSet == 1..Size

EveryDAG == {d \in [StepSet -> SUBSET StepSet] : \A t \in StepSet : d[t] \subseteq 1..(t - 1)}
=============================================================================
