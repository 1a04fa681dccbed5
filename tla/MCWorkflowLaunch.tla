------------------------- MODULE MCWorkflowLaunch -------------------------
(***************************************************************************)
(* WorkflowLaunch on a plan of one node.                                   *)
(***************************************************************************)
EXTENDS WorkflowLaunch, TLC

CONSTANTS nodeA, l1, l2

MCStepOf == nodeA :> "a"
MCFailures == {"launch", "graph", "internal"}
LauncherSymmetry == Permutations({l1, l2})

=============================================================================
