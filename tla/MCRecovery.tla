----------------------------- MODULE MCRecovery -----------------------------
(***************************************************************************)
(* Two systems that must come round after a failure, checked side by side  *)
(* under fair scheduling: the launch of workflow runs, and the footer that *)
(* shows and redeploys what is stale.  The first state chooses a system;   *)
(* the variables of the other stay as they are.                            *)
(***************************************************************************)
EXTENDS MCWorkflowLaunch, InfrastructureFreshness

VARIABLE system

recoveryVars == <<system, vars, infraVars>>

RecoveryInit == system \in {"launch", "footer"} /\ LaunchInit /\ InfraInit

RecoveryNext ==
  \/ system = "launch" /\ LaunchNext /\ UNCHANGED <<system, infraVars>>
  \/ system = "footer" /\ InfraNext /\ UNCHANGED <<system, vars>>

\* The fairness of FairLaunchSpec and of FairInfraSpec, where that system was chosen:
\* each condition is one of the launch and one of the footer.
Either(launching, showing) ==
  /\ UNCHANGED system
  /\ IF system = "launch" THEN launching /\ UNCHANGED infraVars ELSE showing /\ UNCHANGED vars

FairRecoverySpec ==
  /\ RecoveryInit /\ [][RecoveryNext]_recoveryVars
  /\ WF_recoveryVars(Either(RequestStep(l1), Run))
  /\ WF_recoveryVars(Either(RequestStep(l2), Focus))
  /\ WF_recoveryVars(Either(InstanceStep(1), Collected))
  /\ WF_recoveryVars(Either(LeaseExpires, ClientCacheExpires))
  /\ WF_recoveryVars(Either(\E l \in Launchers : GetRun(l), ServerCacheExpires))
  /\ \A q \in Queries : WF_recoveryVars(Either(FALSE, Get(q))) /\ WF_recoveryVars(Either(FALSE, Answered(q)))
  /\ \A t \in Targets : WF_recoveryVars(Either(FALSE, Collect(t))) /\ WF_recoveryVars(Either(FALSE, Poll(t)))

=============================================================================
