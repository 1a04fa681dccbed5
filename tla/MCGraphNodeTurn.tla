-------------------------- MODULE MCGraphNodeTurn --------------------------
(***************************************************************************)
(* Plans for GraphNodeTurn: one node; two parallel nodes; two nodes, the   *)
(* second reading the output of the first.                                 *)
(***************************************************************************)
EXTENDS GraphNodeTurn, TLC

CONSTANTS nodeA, nodeB, t1, t2

One == {nodeA}
OneStepOf == nodeA :> "a"
OneDeps == nodeA :> {}

Two == {nodeA, nodeB}
TwoStepOf == nodeA :> "a" @@ nodeB :> "b"
TwoDeps == nodeA :> {} @@ nodeB :> {}

ChainDeps == nodeA :> {nodeB} @@ nodeB :> {}

Codes == {nodeA, nodeB, "overdue", "internal"}

TurnSymmetry == Permutations({t1, t2})

=============================================================================
