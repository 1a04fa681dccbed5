-------------------------- MODULE MCWorkflowStore --------------------------
(***************************************************************************)
(* WorkflowStore on a small plan: one node visited twice (a loop) and one  *)
(* node that is not reached.                                               *)
(***************************************************************************)
EXTENDS WorkflowStore

CONSTANTS a1, a2

MCActivations == {a1, a2}
MCSteps == {"a", "b"}
MCStepOf == [x \in MCActivations |-> "a"]

=============================================================================
