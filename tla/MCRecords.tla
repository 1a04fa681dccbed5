------------------------------ MODULE MCRecords ------------------------------
(***************************************************************************)
(* Six systems whose records must survive what happens to their            *)
(* processes, checked side by side: the store of workflow runs, the jobs   *)
(* of the Codex Runner, the Runner's SQLite home, the executions of agents *)
(* by ADT Runtime, the bundle of a delegated connection and the sessions   *)
(* of the application.  The first state chooses a system; the variables of *)
(* the others stay as they are.                                            *)
(***************************************************************************)
EXTENDS MCWorkflowStore, RunnerJobs, RunnerStorage, AgentExecution, DelegatedAccess, Sessions, TLC

CONSTANTS d1, d2

VARIABLE system

TwoDatabases == {d1, d2}
AllKinds == {"openai-responses"} \cup Mediated
RecordsSymmetry == Permutations(TwoDatabases) \cup Permutations({a1, a2})

recordVars == <<system, storeVars, jobVars, storageVars, executionVars, delegatedVars, sessionVars>>

RecordsInit ==
  /\ system \in {"store", "jobs", "storage", "execution", "delegated", "sessions"}
  /\ Init /\ RunnerJobsInit /\ StorageInit /\ ExecutionInit /\ DelegatedInit /\ SessionsInit
  /\ system # "storage" => legacy = Empty
  /\ system # "execution" => \A n \in Nodes : node[n].kind = "openai-responses"

RecordsNext ==
  /\ UNCHANGED system
  /\ \/ system = "store" /\ Next /\ UNCHANGED <<jobVars, storageVars, executionVars, delegatedVars, sessionVars>>
     \/ system = "jobs" /\ RunnerJobsNext /\ UNCHANGED <<storeVars, storageVars, executionVars, delegatedVars, sessionVars>>
     \/ system = "storage" /\ StorageNext /\ UNCHANGED <<storeVars, jobVars, executionVars, delegatedVars, sessionVars>>
     \/ system = "execution" /\ ExecutionNext /\ UNCHANGED <<storeVars, jobVars, storageVars, delegatedVars, sessionVars>>
     \/ system = "delegated" /\ DelegatedNext /\ UNCHANGED <<storeVars, jobVars, storageVars, executionVars, sessionVars>>
     \/ system = "sessions" /\ SessionsNext /\ UNCHANGED <<storeVars, jobVars, storageVars, executionVars, delegatedVars>>

RecordsSpec == RecordsInit /\ [][RecordsNext]_recordVars

=============================================================================
