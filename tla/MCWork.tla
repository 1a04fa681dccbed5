------------------------------- MODULE MCWork -------------------------------
(***************************************************************************)
(* What the work of an Agent goes through, checked side by side: the graph *)
(* of its Workflow, the managed repositories that its Codex tasks work in, *)
(* and the MCP servers whose tools it may call.  The first state chooses a *)
(* system; the variables of the others stay as they are.                   *)
(***************************************************************************)
EXTENDS MCWorkflowGraph, ManagedRepositories, McpServers, TLC

CONSTANTS k1, k2, k3, o1, o2, urlA, urlB

VARIABLE system

\* k2 continues the branch of k1.
TaskBranch == k1 :> k1 @@ k2 :> k1 @@ k3 :> k3

WorkInit ==
  /\ system \in {"graph", "repositories", "mcp"}
  /\ GraphInit /\ ManagedInit /\ McpInit
  /\ system # "graph" => graph = NoGraph

\* Bound: two operators change the server together only in its first two revisions,
\* in the first one if a call has failed.
Alone == Cardinality({o \in Operators : request'[o] # Quiet}) <= 1

WorkNext ==
  \/ system = "graph" /\ GraphNext /\ UNCHANGED <<system, managedVars, mcpVars>>
  \/ system = "repositories" /\ ManagedNext /\ UNCHANGED <<system, graphVars, mcpVars>>
  \/ system = "mcp" /\ McpNext /\ (shas' + mcpFaults' > 2 => Alone) /\ UNCHANGED <<system, graphVars, managedVars>>

WorkSpec == WorkInit /\ [][WorkNext]_<<system, graphVars, managedVars, mcpVars>>

WorkSymmetry == Permutations({o1, o2}) \cup Permutations({urlA, urlB})

=============================================================================
