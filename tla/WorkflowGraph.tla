---------------------------- MODULE WorkflowGraph ----------------------------
(***************************************************************************)
(* Which Workflow graphs may be saved and launched (validateGraphTopology, *)
(* lib/workflow-definitions.ts) and how the engine runs one that may       *)
(* (compileGenericStateGraph and advanceGenericGraph,                      *)
(* adt-runtime/src/langgraph.ts).                                          *)
(*                                                                         *)
(* A graph has nodes 1..n, numbered as they are met from its entry, node   *)
(* 1.  type gives a node's block; next its edges' targets, true before     *)
(* false for a condition; publisher the agent that publishes its output    *)
(* and parent the node whose conversation an agent continues, 0 for none.  *)
(* "agent" stands for every block that produces an output of its own;      *)
(* reusable Workflows are expanded before a launch.  Texts are left out:   *)
(* a condition may go either way at each visit.                            *)
(***************************************************************************)
EXTENDS Naturals, Sequences, FiniteSets, FiniteSetsExt, SequencesExt

CONSTANTS MaxNodes,          \* bound: nodes of a graph that is drawn edge by edge
          Samples,           \* larger graphs, drawn at once
          MaxStepExecutions  \* limits.maxStepExecutions of every graph

MAX_GRAPH_FRONTIER == 3

VARIABLES graph, phase,
          triggers,    \* the scheduled nodes, each with the outputs that led to it
          arrived,     \* what each join has received of its branches
          sequence,    \* when each node's current output was made; 0: it has none
          executions
graphVars == <<graph, phase, triggers, arrived, sequence, executions>>

Nodes(g) == DOMAIN g.type
EdgeTargets(g, n) == ToSet(g.next[n])
Sources(g, n) == {m \in Nodes(g) : n \in EdgeTargets(g, m)}
Incoming(g, n) ==
  Cardinality({e \in Nodes(g) \X (1..3) : e[2] \in DOMAIN g.next[e[1]] /\ g.next[e[1]][e[2]] = n})
Is(g, n, type) == g.type[n] = type
Of(g, type) == {n \in Nodes(g) : Is(g, n, type)}

\* What each node reaches when the nodes in stop are not passed, itself included.
Reach(g, stop) ==
  LET near == [n \in Nodes(g) |-> {n} \cup IF n \in stop THEN {} ELSE EdgeTargets(g, n)]
      far[i \in Nodes(g)] ==
        IF i = 1 THEN near ELSE [n \in Nodes(g) |-> UNION {near[m] : m \in far[i - 1][n]}]
  IN far[Len(g.type)]

-----------------------------------------------------------------------------
(* validateGraphTopology: one operator for each of its rules               *)

Roots(g) == {n \in Nodes(g) : Incoming(g, n) = 0}
CycleRoots(g) ==
  LET reach == Reach(g, {}) IN
  UNION {{n \in EdgeTargets(g, c) : c \in reach[n]} : c \in Of(g, "condition")}
Terminals(g) == {n \in Nodes(g) : g.next[n] = <<>>}

\* The numbering starts at the entry.
OneEntry(g) == (IF Roots(g) # {} THEN Roots(g) ELSE CycleRoots(g)) = {1}

OneTerminal(g) == \E n \in Nodes(g) : Terminals(g) = {n} /\ Is(g, n, "agent")

ConditionRule(g) ==
  \A n \in Of(g, "condition") : Incoming(g, n) = 1 /\ Len(g.next[n]) = 2

JoinRule(g) ==
  \A n \in Of(g, "join") :
    /\ Incoming(g, n) >= 2
    /\ Len(g.next[n]) = 1
    /\ \E origin \in Nodes(g) \ Of(g, "condition") :
         /\ Len(g.next[origin]) = Incoming(g, n)
         /\ \A m \in Sources(g, n) :
              Sources(g, m) = {origin} /\ Incoming(g, m) = 1 /\ Len(g.next[m]) = 1

\* Of several ways into a node, one comes back to it through a condition, or some
\* condition decides between two of them.
ControlledCycleMerge(g, n) ==
  LET reach == Reach(g, {}) IN
  \E s \in Sources(g, n), c \in Of(g, "condition") : c \in reach[n] /\ s \in reach[c]
Exclusive(g, n) ==
  LET reach == Reach(g, {n}) IN
  \E c \in Of(g, "condition") : \A m \in EdgeTargets(g, c) : reach[m] \cap Sources(g, n) # {}
MergeRule(g) ==
  \A n \in Nodes(g) \ (Of(g, "condition") \cup Of(g, "join")) :
    Incoming(g, n) > 1 => Exclusive(g, n) \/ ControlledCycleMerge(g, n)

FanOuts(g) == {n \in Nodes(g) \ Of(g, "condition") : Len(g.next[n]) > 1}
CommonJoins(g, n) ==
  LET reach == Reach(g, Of(g, "join")) IN
  {j \in Of(g, "join") : \A m \in EdgeTargets(g, n) : j \in reach[m]}

FanOutRule(g) ==
  \A n \in FanOuts(g) :
    /\ Len(g.next[n]) <= MAX_GRAPH_FRONTIER
    /\ \E j \in CommonJoins(g, n) :
         LET reach == Reach(g, {j}) IN
         \A m \in EdgeTargets(g, n) : reach[m] \cap Of(g, "approval") = {}

\* canReach, and where a conversation that a node continues began.
CanReach(g, m, n) == n \in Reach(g, {})[m]
ConversationRoot(g, n) ==
  LET back[i \in 0..Len(g.type)] ==
        IF i = 0 THEN n
        ELSE IF g.parent[back[i - 1]] = 0 THEN back[i - 1] ELSE g.parent[back[i - 1]]
  IN back[Len(g.type)]
Continuing(g) == {n \in Nodes(g) : g.parent[n] # 0}
ConversationRule(g) ==
  \A n \in Continuing(g) :
    /\ Is(g, n, "agent") /\ Is(g, g.parent[n], "agent")
    /\ g.parent[n] # n /\ CanReach(g, g.parent[n], n)
    /\ ConversationRoot(g, n) \notin Continuing(g)
    /\ \A m \in Continuing(g) :
         ConversationRoot(g, m) = ConversationRoot(g, n) => CanReach(g, m, n) \/ CanReach(g, n, m)

AllReachable(g) == Reach(g, {})[1] = Nodes(g)
AllLeadToTerminal(g) ==
  LET reach == Reach(g, {}) IN \A n \in Nodes(g) : reach[n] \cap Terminals(g) # {}

\* A cyclic region is a strong component of the graph.
CyclesAreControlled(g) ==
  LET reach == Reach(g, {})
      region(n) == {m \in reach[n] : n \in reach[m]} IN
  \A n \in Nodes(g) :
    region(n) # {n} \/ n \in EdgeTargets(g, n) =>
      \E c \in region(n) \cap Of(g, "condition") : ~(EdgeTargets(g, c) \subseteq region(n))

Accepts(g) ==
  /\ OneTerminal(g) /\ OneEntry(g)
  /\ ConditionRule(g) /\ JoinRule(g) /\ MergeRule(g) /\ FanOutRule(g)
  /\ ConversationRule(g)
  /\ AllReachable(g) /\ AllLeadToTerminal(g) /\ CyclesAreControlled(g)

-----------------------------------------------------------------------------
(* Drawing a graph, and launching it                                       *)

Known(g) == Max({1} \cup UNION {EdgeTargets(g, n) : n \in Nodes(g)})

\* A block with the edges it may have, two at most; a new target gets the next number.
BlockEdges(type, known) ==
  {t \in BoundedSeq(1..MaxNodes, 2) :
    /\ \A i \in 1..(Len(t) - 1) : t[i] < t[i + 1] \/ (type = "condition" /\ t[i] = t[i + 1])
    /\ type = "condition" => Len(t) = 2
    /\ type = "join" => Len(t) = 1
    /\ (1..Max({known} \cup ToSet(t))) = (1..known) \cup ToSet(t)}

\* A bound: what no further edge can repair is not drawn to its end.
Promising(g) ==
  /\ Cardinality(Terminals(g)) <= 2 /\ Terminals(g) \subseteq Of(g, "agent")
  /\ \A n \in FanOuts(g) : EdgeTargets(g, n) \cap Terminals(g) = {}
  /\ \A c \in Of(g, "condition") : Incoming(g, c) <= 1
  /\ \A j \in Of(g, "join") :
       /\ \A m \in Sources(g, j) : ~Is(g, m, "condition") /\ Len(g.next[m]) = 1 /\ Incoming(g, m) <= 1
       /\ Cardinality(UNION {Sources(g, m) : m \in Sources(g, j)}) <= 1
  /\ \A n \in Nodes(g) : ~Is(g, n, "condition") => n \notin EdgeTargets(g, n)

Draw ==
  /\ phase = "drawing"
  /\ Len(graph.type) < Known(graph) \/ graph.type = <<>>
  /\ \E type \in {"agent", "condition", "join"} :
       \E t \in BlockEdges(type, Known(graph)) :
         graph' = [graph EXCEPT !.type = Append(@, type), !.next = Append(@, t), !.parent = Append(@, 0)]
  /\ Promising(graph')
  /\ UNCHANGED <<phase, triggers, arrived, sequence, executions>>

\* One agent may be an approval instead, and one may publish.
\* compileWorkflowV2ExecutionPlan parses the definition again; the engine starts at
\* the entry with no outputs.
Launch ==
  /\ phase = "drawing"
  /\ graph.type # <<>> /\ Len(graph.type) = Known(graph)
  /\ Accepts(graph)
  /\ \E approval \in {0} \cup Of(graph, "agent") :
       LET g == [graph EXCEPT !.type = [n \in DOMAIN @ |-> IF n = approval THEN "approval" ELSE @[n]]] IN
       /\ Accepts(g)
       /\ \E n \in {0} \cup Of(g, "agent") : graph' = [g EXCEPT !.publisher = n]
  /\ phase' = "running"
  /\ triggers' = [n \in Nodes(graph) |-> IF n = 1 THEN {0} ELSE {}]
  /\ arrived' = [n \in Nodes(graph) |-> {}]
  /\ sequence' = [n \in Nodes(graph) |-> 0]
  /\ UNCHANGED executions

-----------------------------------------------------------------------------
(* The engine.  One step runs every scheduled node on the same state and   *)
(* merges their updates, as LangGraph does.                                *)

Scheduled == {n \in Nodes(graph) : triggers[n] # {}}
Frontier == Scheduled \cap Of(graph, "agent")

\* A condition hands on what it was given.
EffectiveSources(n) ==
  LET passing == Of(graph, "condition")
      up[i \in 0..Len(graph.type)] ==
        IF i = 0 THEN {n}
        ELSE up[i - 1] \cup {c \in passing : EdgeTargets(graph, c) \cap up[i - 1] # {}}
  IN {m \in Nodes(graph) \ passing : EdgeTargets(graph, m) \cap up[Len(graph.type)] # {}}

\* Where nodeInput takes a node's text from; nothing: the Workflow's input, which
\* only the entry, or a node that no output leads to, may fall back on.
NodeInput(n) ==
  LET held == {m \in EffectiveSources(n) : sequence[m] # 0} IN
  {m \in held : \A k \in held : sequence[k] <= sequence[m]}
InputUnavailable(n) ==
  IF Is(graph, n, "join") THEN \E m \in Sources(graph, n) : sequence[m] = 0
  ELSE n # 1 /\ EffectiveSources(n) # {} /\ NodeInput(n) = {}

Publishes(n) == n = graph.publisher

\* Mutant: an agent clears the state as a join does.
ConsumedAll(n) ==
  IF Is(graph, n, "condition") THEN {} ELSE {m \in Nodes(graph) : m # n /\ ~Publishes(m)}

\* The outputs that a node's update deletes.
Consumed(n) ==
  CASE Is(graph, n, "condition") -> {}
    [] Is(graph, n, "join") -> {m \in Nodes(graph) : m # n /\ ~Publishes(m)}
    [] OTHER -> {m \in EffectiveSources(n) : ~Publishes(m) /\ Len(graph.next[m]) = 1}

\* mergeOutputs: when one update makes an output that another deletes, the order in
\* which they are applied decides.
MergeOutputs ==
  LET made == {n \in Scheduled : ~Is(graph, n, "condition")}
      deleted == UNION {Consumed(n) : n \in Scheduled}
      contested == {m \in made : \E n \in Scheduled \ {m} : m \in Consumed(n)} IN
  \E lost \in SUBSET contested :
    sequence' = [n \in Nodes(graph) |->
      IF n \in made \ lost THEN executions + 1 ELSE IF n \in deleted THEN 0 ELSE sequence[n]]

\* The nodes that the step leads to: a condition picks a route, a join waits for all
\* of its branches, and both are told where the text comes from.
Schedule ==
  \E route \in [Scheduled \cap Of(graph, "condition") -> 1..2] :
    LET hands(m) == IF Is(graph, m, "condition") THEN triggers[m] ELSE {m}
        goes(m, n) == IF Is(graph, m, "condition") THEN graph.next[m][route[m]] = n ELSE n \in EdgeTargets(graph, m)
        given == [n \in Nodes(graph) |-> UNION {hands(m) : m \in {k \in Scheduled : goes(k, n)}}]
        got == [n \in Of(graph, "join") |-> (IF n \in Scheduled THEN {} ELSE arrived[n]) \cup given[n]] IN
    /\ triggers' = [n \in Nodes(graph) |->
         IF Is(graph, n, "join") THEN (IF got[n] = Sources(graph, n) THEN got[n] ELSE {}) ELSE given[n]]
    /\ arrived' = [n \in Nodes(graph) |-> IF Is(graph, n, "join") THEN got[n] ELSE {}]

\* Mutant: only the engine's own check is left.
LimitByNode == executions >= MaxStepExecutions

\* advanceGenericGraph's check before it admits agents; each node's check when it runs.
LimitReached ==
  \/ executions + Cardinality(Frontier) > MaxStepExecutions
  \/ executions >= MaxStepExecutions

EndsAs(how) == phase' = how /\ UNCHANGED <<graph, triggers, arrived, sequence, executions>>

Superstep ==
  /\ phase = "running" /\ Scheduled # {}
  /\ Cardinality(Frontier) <= MAX_GRAPH_FRONTIER
  /\ ~LimitReached
  /\ \A n \in Scheduled : ~InputUnavailable(n)
  /\ MergeOutputs
  /\ Schedule
  /\ executions' = executions + Cardinality(Scheduled)
  /\ UNCHANGED <<graph, phase>>

CompleteGraph == phase = "running" /\ Scheduled = {} /\ EndsAs("completed")
ExecutionLimit == phase = "running" /\ Scheduled # {} /\ LimitReached /\ EndsAs("execution_limit")
GraphFailure ==
  /\ phase = "running"
  /\ ~LimitReached
  /\ Cardinality(Frontier) <= MAX_GRAPH_FRONTIER => \E n \in Scheduled : InputUnavailable(n)
  /\ EndsAs("graph_failure")

NoGraph == [type |-> <<>>, next |-> <<>>, publisher |-> 0, parent |-> <<>>]
GraphInit ==
  /\ graph \in {NoGraph} \cup Samples
  /\ phase = "drawing"
  /\ triggers = <<>> /\ arrived = <<>> /\ sequence = <<>>
  /\ executions = 0
GraphNext == Draw \/ Launch \/ Superstep \/ CompleteGraph \/ ExecutionLimit \/ GraphFailure
GraphSpec == GraphInit /\ [][GraphNext]_graphVars

-----------------------------------------------------------------------------

\* What the rules intend: every branch of a fan-out goes straight to its join, and the
\* first block is not a condition on nothing.  Some larger graphs are accepted without
\* it, such as one whose two branches meet again at the head of a loop.
IsStructured(g) ==
  /\ ~Is(g, 1, "condition")
  /\ \A n \in FanOuts(g) : \E j \in Of(g, "join") : \A m \in EdgeTargets(g, n) : EdgeTargets(g, m) = {j}

\* In a structured graph that was accepted no node is ever
\* scheduled without its input: neither graph_input_unavailable nor
\* join_input_unavailable is raised, whatever routes the conditions take and
\* whatever outputs have been consumed on the way.
InputsAreAvailable == phase = "graph_failure" => ~IsStructured(graph)

\* No run executes more blocks than its definition allows, although the blocks of
\* one frontier all read the count before any of them is added to it.
ExecutionsAreBounded == executions > MaxStepExecutions => ~IsStructured(graph)

\* specs/agent-workflows.md: "Independent parallel appends to the same lineage are
\* rejected before execution": no two agents of one conversation are run together.
LineageIsOrdered ==
  phase = "running" =>
    \A m, n \in Frontier \cap Continuing(graph) :
      m # n => ConversationRoot(graph, m) # ConversationRoot(graph, n)
=============================================================================
