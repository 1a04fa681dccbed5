--------------------------- MODULE MCWorkflowGraph ---------------------------
(***************************************************************************)
(* Graphs for WorkflowGraph beside those that it draws.                    *)
(***************************************************************************)
EXTENDS WorkflowGraph

\* Graphs larger than those that are enumerated: a fan-out of three reviewed in a loop,
\* and an accepted graph whose branches meet again at the head of a loop.
ThreeBranches ==
  [type |-> <<"agent", "agent", "agent", "agent", "join", "condition", "agent">>,
   next |-> <<<<2, 3, 4>>, <<5>>, <<5>>, <<5>>, <<6>>, <<1, 7>>, <<>>>>,
   publisher |-> 0, parent |-> <<0, 0, 2, 0, 0, 0, 0>>]
MeetAtLoop ==
  [type |-> <<"agent", "agent", "agent", "agent", "agent", "join", "condition", "agent">>,
   next |-> <<<<2, 3>>, <<3>>, <<4, 5>>, <<6>>, <<6>>, <<7>>, <<3, 8>>, <<>>>>,
   publisher |-> 0, parent |-> <<0, 0, 0, 0, 0, 0, 0, 0>>]
LargerGraphs == {ThreeBranches, MeetAtLoop}

\* Two branches that continue their author's conversation, reviewed in a loop.
BranchesContinue ==
  [type |-> <<"agent", "agent", "agent", "join", "condition", "agent">>,
   next |-> <<<<2, 3>>, <<4>>, <<4>>, <<5>>, <<1, 6>>, <<>>>>,
   publisher |-> 0, parent |-> <<0, 1, 1, 0, 0, 0>>]
OneGraph == {BranchesContinue}

=============================================================================
