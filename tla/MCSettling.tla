----------------------------- MODULE MCSettling -----------------------------
(***************************************************************************)
(* That runs end, on two plans checked side by side: the first state       *)
(* chooses a plan, and the behaviour is a fair one of GraphNodeTurn with   *)
(* that plan's constants.                                                  *)
(*   chain:    the constants of the configuration: a node that reads the   *)
(*             output of another, polls and automatic retries;             *)
(*   branches: two parallel nodes, one turn of which may crash.            *)
(***************************************************************************)
EXTENDS MCGraphNodeTurn

VARIABLE plan

Branches == INSTANCE GraphNodeTurn WITH
  Deps <- TwoDeps, AutoLimit <- 1, ManualLimit <- 1, MaxPolls <- 0, MaxCrashes <- 1, FlakyChecks <- TRUE

settlingVars == <<vars, plan>>

SettlingInit ==
  \/ plan = "chain" /\ TurnInit
  \/ plan = "branches" /\ Branches!TurnInit

SettlingNext ==
  /\ UNCHANGED plan
  /\ \/ plan = "chain" /\ TurnNext
     \/ plan = "branches" /\ Branches!TurnNext

\* The fairness of FairTurnSpec in the plan that was chosen.
In(chain, branches) == UNCHANGED plan /\ IF plan = "chain" THEN chain ELSE branches
FairSettlingSpec ==
  /\ SettlingInit /\ [][SettlingNext]_settlingVars
  /\ \A t \in Turns : WF_settlingVars(In(TurnStep(t), Branches!TurnStep(t)))
  /\ \A a \in Activations :
       /\ SF_settlingVars(In(\E t \in Turns : BeginTurn(t, a), \E t \in Turns : Branches!BeginTurn(t, a)))
       /\ \A n \in Attempts : WF_settlingVars(In(Age(a, n), n \in Branches!Attempts /\ Branches!Age(a, n)))
  /\ WF_settlingVars(In(OuterStep, Branches!OuterStep))

\* TerminalMeansReconciled with polls, automatic retries and a crash: a run is reported
\* failed or completed only when no branch has work outstanding at its provider.
EndedMeansReconciled == IF plan = "chain" THEN TerminalMeansReconciled ELSE Branches!TerminalMeansReconciled

=============================================================================
