------------------------ MODULE WorkflowLaunchProofs ------------------------
(***************************************************************************)
(* Requests and instances implement the store, and attach a run only to an *)
(* instance that exists, for any number of requests, generations and       *)
(* faults.                                                                 *)
(***************************************************************************)
EXTENDS WorkflowLaunch, WorkflowStoreProofs

MaybeActivation == Activations \cup {"none"}
RequestLabels == {"idle", "insert", "update", "claim", "create", "attach", "attachDuplicate",
                  "recordFailure"}
RequestRecord == [pc : RequestLabels, g : Nat, a : MaybeActivation, n : Nat]

\* A request in flight carries the generation it read; one that is about to insert
\* a retry, the attempt it follows; one that is about to attach has created its
\* instance, or was told that somebody has.
RequestsOK ==
  /\ req \in [Launchers -> RequestRecord]
  /\ \A l \in Launchers :
       /\ req[l].pc # "idle" => req[l].g \in Generations
       /\ req[l].pc = "insert" => req[l].a \in Activations /\ req[l].n \in Attempts
       /\ req[l].pc \in {"attach", "attachDuplicate"} => wf[req[l].g] # "none"

InstanceLabels == {"none", "attach", "loop", "work", "complete", "fail", "failGeneration",
                   "cancelAttempts", "cancelRun", "done", "dead"}

LaunchInv ==
  /\ StoreInv
  /\ RequestsOK
  /\ wf \in [Generations -> InstanceLabels]
  /\ AttachedInstanceExists

-----------------------------------------------------------------------------
(***************************************************************************)
(* Every step is a statement of the store, or leaves its row alone.        *)
(***************************************************************************)

StoreOrNot == Next \/ UNCHANGED storeVars

\* A statement of the store, named by the action it belongs to.
LEMMA Claims == ASSUME TypeOK, NEW g, ClaimLaunchStmt(g) PROVE Next
<1>1. g \in 1 .. gen
  BY DEF TypeOK, ClaimLaunchStmt
<1> QED
  BY <1>1 DEF Next, LaunchStmts

LEMMA Attaches == ASSUME TypeOK, LaunchColumnsAgree, NEW g, NEW i, AttachStmt(g, i) PROVE Next /\ i = g
<1>1. g \in 1 .. gen /\ i = g
  BY DEF TypeOK, LaunchColumnsAgree, AttachStmt
<1> QED
  BY <1>1 DEF Next, LaunchStmts

LEMMA LaunchFails == ASSUME TypeOK, NEW g, LaunchFailureStmt(g, g, "launch") PROVE Next
<1>1. g \in 1 .. gen /\ "launch" \in Failures
  BY LaunchAssumption DEF TypeOK, LaunchFailureStmt
<1> QED
  BY <1>1 DEF Next, LaunchStmts

LEMMA Reopens == ASSUME TypeOK, NEW g, RetryRunStmt(g) PROVE Next
<1>1. g \in 1 .. gen
  BY DEF TypeOK, RetryRunStmt
<1> QED
  BY <1>1 DEF Next, LaunchStmts

LEMMA RunFails == ASSUME NEW f \in Failures, FailRunStmt(f) \/ GraphFailureStmt(f) PROVE Next
BY DEF Next, RunStmts

LEMMA RequestStepsAreStatements ==
  ASSUME LaunchInv, NEW l \in Launchers, RequestStep(l)
  PROVE  StoreOrNot
<1> USE DEF StoreOrNot
<1>0. TypeOK /\ LaunchColumnsAgree /\ RequestsOK
  BY DEF LaunchInv, StoreInv
<1>1. CASE RetryInsert(l)
  BY <1>0, <1>1 DEF RetryInsert, RequestsOK, Next, AttemptStmts
<1>2. CASE RetryUpdate(l)
  BY <1>0, <1>2, Reopens DEF RetryUpdate
<1>3. CASE Claim(l)
  BY <1>0, <1>3, Claims DEF Claim
<1>4. CASE Create(l)
  BY <1>4 DEF Create
<1>5. CASE Attach(l)
  BY <1>0, <1>5, Attaches DEF Attach
<1>6. CASE RecordFailure(l)
  BY <1>0, <1>6, LaunchFails DEF RecordFailure
<1> QED
  BY <1>1, <1>2, <1>3, <1>4, <1>5, <1>6 DEF RequestStep

LEMMA InstanceStepsAreStatements ==
  ASSUME LaunchInv, NEW i \in Generations, InstanceStep(i)
  PROVE  StoreOrNot
<1> USE DEF StoreOrNot
<1>0. TypeOK /\ LaunchColumnsAgree
  BY DEF LaunchInv, StoreInv
<1>1. CASE Enter(i)
  BY <1>0, <1>1, Attaches DEF Enter
<1>2. CASE LoopHead(i) \/ Again(i) \/ Result(i)
  BY <1>2 DEF LoopHead, Again, Result
<1>3. CASE CompleteRun(i)
  BY <1>3, LaunchAssumption DEF CompleteRun, Next, RunStmts
<1>4. CASE FailRun(i)
  BY <1>4, RunFails, LaunchAssumption DEF FailRun
<1>5. CASE CancelAttempts(i)
  BY <1>5 DEF CancelAttempts, Next, RunStmts
<1>6. CASE CancelRun(i)
  BY <1>6 DEF CancelRun, Next, RunStmts
<1> QED
  BY <1>1, <1>2, <1>3, <1>4, <1>5, <1>6 DEF InstanceStep

LEMMA NodeWorkIsStatements == ASSUME TypeOK, NodeWork PROVE StoreOrNot
<1> USE DEF StoreOrNot
<1>1. CASE \E a \in Activations : ActivationInsert(a)
  BY <1>1 DEF Next, AttemptStmts
<1>2. CASE \E a \in Activations, n \in Attempts :
             ClaimAttemptStmt(a, n) \/ CompleteStepStmt(a, n) \/ FailStepStmt(a, n)
  BY <1>2 DEF Next, AttemptStmts
<1>3. CASE RunningStmt
  BY <1>3 DEF Next, RunStmts
<1>4. CASE GraphFailureStmt("graph")
  BY <1>4, RunFails, LaunchAssumption
<1>5. CASE failure # NoFailure /\ FailRunStmt(failure)
  <2>1. failure \in Failures
    BY <1>5 DEF TypeOK
  <2> QED
    BY <1>5, <2>1, RunFails
<1> QED
  BY <1>1, <1>2, <1>3, <1>4, <1>5 DEF NodeWork

LEMMA StepsAreStatements == ASSUME LaunchInv, LaunchNext PROVE StoreOrNot
<1>1. ASSUME NEW l \in Launchers,
             \/ PostRun(l) \/ GetRun(l) \/ CrashRequest(l)
             \/ \E a \in Activations : RetryRead(l, a)
      PROVE  StoreOrNot
  BY <1>1 DEF PostRun, GetRun, CrashRequest, RetryRead, StoreOrNot
<1>2. CASE LeaseExpires
  BY <1>2 DEF LeaseExpires, StoreOrNot
<1>3. ASSUME NEW i \in Generations, Replay(i) PROVE StoreOrNot
  BY <1>3 DEF Replay, StoreOrNot
<1>4. CASE NodeWork
  BY <1>4, NodeWorkIsStatements DEF LaunchInv, StoreInv
<1>5. CASE RequestCancellation
  BY <1>5 DEF RequestCancellation, StoreOrNot, Next, RunStmts
<1> QED
  BY <1>1, <1>2, <1>3, <1>4, <1>5, RequestStepsAreStatements, InstanceStepsAreStatements
  DEF LaunchNext

-----------------------------------------------------------------------------
(***************************************************************************)
(* The control of requests and instances.                                  *)
(***************************************************************************)

RequestOK(r, w) ==
  /\ r \in RequestRecord
  /\ r.pc # "idle" => r.g \in Generations
  /\ r.pc = "insert" => r.a \in Activations /\ r.n \in Attempts
  /\ r.pc \in {"attach", "attachDuplicate"} => w[r.g] # "none"

LEMMA RequestsSplit ==
  RequestsOK <=> req \in [Launchers -> RequestRecord] /\ \A l \in Launchers : RequestOK(req[l], wf)
BY DEF RequestsOK, RequestOK, RequestRecord

\* A step that replaces the record of one request and lets no instance vanish.
LEMMA OneRequest ==
  ASSUME RequestsOK, NEW l \in Launchers, NEW r, RequestOK(r, wf'), req' = [req EXCEPT ![l] = r],
         \A i \in Generations : wf[i] # "none" => wf'[i] # "none"
  PROVE  RequestsOK'
<1>1. req \in [Launchers -> RequestRecord] /\ \A k \in Launchers : RequestOK(req[k], wf)
  BY RequestsSplit
<1>2. r \in RequestRecord
  BY DEF RequestOK, RequestRecord
<1>3. req' \in [Launchers -> RequestRecord]
  BY <1>1, <1>2
<1>4. ASSUME NEW k \in Launchers PROVE RequestOK(req'[k], wf')
  <2>1. CASE k = l
    <3>1. req'[k] = r
      BY <1>1, <2>1
    <3> QED
      BY <3>1
  <2>2. CASE k # l
    <3>1. req'[k] = req[k]
      BY <1>1, <2>2
    <3> QED
      BY <3>1, <1>1 DEF RequestOK, Generations, RequestRecord
  <2> QED
    BY <2>1, <2>2
<1> QED
  BY <1>3, <1>4, RequestsSplit DEF RequestsOK, RequestOK, RequestRecord

\* A request that ends or moves on with the same locals.
LEMMA RequestEnds == ASSUME RequestsOK, NEW l \in Launchers, Ends(l),
                            \A i \in Generations : wf[i] # "none" => wf'[i] # "none"
                     PROVE  RequestsOK'
<1>0. "none" \in MaybeActivation
  BY DEF MaybeActivation
<1>1. NoRequest \in RequestRecord /\ NoRequest.pc = "idle"
  BY <1>0 DEF RequestRecord, RequestLabels, NoRequest
<1>2. RequestOK(NoRequest, wf')
  BY <1>1 DEF RequestOK
<1> QED
  BY <1>2, OneRequest, Zenon DEF Ends

LEMMA RequestMoves ==
  ASSUME RequestsOK, NEW l \in Launchers, NEW label \in RequestLabels, Goto(l, label),
         req[l].pc # "idle", label # "insert",
         label \in {"attach", "attachDuplicate"} => wf'[req[l].g] # "none",
         \A i \in Generations : wf[i] # "none" => wf'[i] # "none"
  PROVE  RequestsOK'
<1> DEFINE r == [req[l] EXCEPT !.pc = label]
<1>1. req[l] \in RequestRecord /\ req[l].g \in Generations
  BY RequestsSplit DEF RequestOK
<1>2. /\ r \in RequestRecord /\ r.pc = label /\ r.g = req[l].g
  BY <1>1 DEF RequestRecord
<1>3. req' = [req EXCEPT ![l] = r]
  BY DEF Goto
<1> HIDE DEF r
<1>4. RequestOK(r, wf')
  BY <1>1, <1>2 DEF RequestOK, Generations, RequestRecord
<1> QED
  BY <1>3, <1>4, OneRequest, Zenon

\* A request that starts again from the claim of generation g.
LEMMA RequestClaims ==
  ASSUME RequestsOK, NEW l \in Launchers, NEW g \in Generations,
         req' = [req EXCEPT ![l] = Launching(g)], UNCHANGED wf
  PROVE  RequestsOK'
<1>0. "none" \in MaybeActivation
  BY DEF MaybeActivation
<1>1. Launching(g) \in RequestRecord /\ Launching(g).pc = "claim" /\ Launching(g).g = g
  BY <1>0, GenAssumption DEF RequestRecord, RequestLabels, Generations, Launching
<1>2. RequestOK(Launching(g), wf')
  BY <1>1 DEF RequestOK
<1> QED
  BY <1>2, OneRequest, Zenon

\* What a step of an instance does to its control.
LEMMA InstanceMoves ==
  ASSUME LaunchInv, NEW i \in Generations, NEW label \in InstanceLabels, label # "none",
         InstanceAt(i, label)
  PROVE  /\ wf' \in [Generations -> InstanceLabels] /\ wf'[i] = label
         /\ \A j \in Generations : wf[j] # "none" => wf'[j] # "none"
         /\ RequestsOK'
<1>1. /\ wf' \in [Generations -> InstanceLabels] /\ wf'[i] = label
      /\ \A j \in Generations : wf[j] # "none" => wf'[j] # "none"
  BY DEF InstanceAt, LaunchInv
<1>2. req' = req
  BY DEF InstanceAt
<1>3. RequestsOK'
  BY <1>1, <1>2 DEF LaunchInv, RequestsOK, Generations, Attempts
<1> QED
  BY <1>1, <1>3

\* The launch columns change only by their own statements.
LEMMA InstanceKept ==
  ASSUME LaunchInv, UNCHANGED launchVars,
         \A j \in Generations : wf[j] # "none" => wf'[j] # "none"
  PROVE  AttachedInstanceExists'
<1>1. launch = "attached" => instance \in Generations
  BY DEF LaunchInv, StoreInv, LaunchColumnsAgree, TypeOK, Generations
<1> QED
  BY <1>1 DEF LaunchInv, AttachedInstanceExists, launchVars

ControlOK ==
  /\ RequestsOK
  /\ wf \in [Generations -> InstanceLabels]
  /\ AttachedInstanceExists

LEMMA RequestKeeps ==
  ASSUME LaunchInv, NEW l \in Launchers, RequestStep(l)
  PROVE  ControlOK'
<1>0. TypeOK /\ LaunchColumnsAgree /\ RequestsOK /\ wf \in [Generations -> InstanceLabels]
  BY DEF LaunchInv, StoreInv
<1>1. CASE RetryInsert(l)
  <2>1. UNCHANGED <<wf, launchVars>> /\ Goto(l, "update") /\ req[l].pc = "insert"
    BY <1>1 DEF RetryInsert, ManualRetryInsert, storeVars, runVars
  <2>2. RequestsOK'
    BY <1>0, <2>1, RequestMoves DEF RequestLabels
  <2> QED
    BY <1>0, <2>1, <2>2, InstanceKept DEF ControlOK
<1>2. CASE RetryUpdate(l)
  <2> DEFINE g == req[l].g
  <2>1. wf' = wf /\ req[l].pc = "update" /\ g \in Generations
    BY <1>0, <1>2 DEF RetryUpdate, RequestsOK
  <2>2. CASE RetryRunStmt(g) /\ req' = [req EXCEPT ![l] = Launching(g + 1)]
    <3>1. g + 1 \in Generations /\ launch' = "unclaimed"
      BY <2>1, <2>2, GenAssumption DEF RetryRunStmt, Generations
    <3>2. RequestsOK'
      BY <1>0, <2>1, <2>2, <3>1, RequestClaims, Zenon
    <3> QED
      BY <1>0, <2>1, <3>1, <3>2 DEF ControlOK, AttachedInstanceExists
  <2>3. CASE gen = g + 1 /\ req' = [req EXCEPT ![l] = Launching(g + 1)] /\ UNCHANGED storeVars
    <3>1. g + 1 \in Generations /\ UNCHANGED launchVars
      BY <1>0, <2>3 DEF TypeOK, Generations, storeVars, runVars
    <3>2. RequestsOK'
      BY <1>0, <2>1, <2>3, <3>1, RequestClaims, Zenon
    <3> QED
      BY <1>0, <2>1, <3>1, <3>2, InstanceKept DEF ControlOK
  <2>4. CASE Ends(l) /\ UNCHANGED storeVars
    <3>1. UNCHANGED launchVars
      BY <2>4 DEF storeVars, runVars
    <3>2. RequestsOK'
      BY <1>0, <2>1, <2>4, RequestEnds
    <3> QED
      BY <1>0, <2>1, <3>1, <3>2, InstanceKept DEF ControlOK
  <2> QED
    BY <1>2, <2>2, <2>3, <2>4 DEF RetryUpdate, Ends
<1>3. CASE Claim(l)
  <2>1. wf' = wf /\ req[l].pc = "claim" /\ (Goto(l, "create") \/ Ends(l))
    BY <1>3 DEF Claim
  <2>2. RequestsOK'
    BY <1>0, <2>1, RequestMoves, RequestEnds DEF RequestLabels
  <2>3. launch' = "launching" \/ UNCHANGED launchVars
    BY <1>3 DEF Claim, ClaimLaunchStmt, storeVars, runVars
  <2> QED
    BY <1>0, <2>1, <2>2, <2>3, InstanceKept DEF ControlOK, AttachedInstanceExists
<1>4. CASE Create(l)
  <2> DEFINE g == req[l].g
  <2>1. req[l].pc = "create" /\ g \in Generations /\ UNCHANGED launchVars
    BY <1>0, <1>4 DEF Create, RequestsOK, storeVars, runVars
  <2>2. /\ wf' \in [Generations -> InstanceLabels]
        /\ \A j \in Generations : wf[j] # "none" => wf'[j] # "none"
    BY <1>0, <1>4, <2>1 DEF Create, InstanceLabels
  <2>3. \/ Goto(l, "attach") /\ wf'[g] # "none"
        \/ Goto(l, "attachDuplicate") /\ wf'[g] # "none"
        \/ Goto(l, "recordFailure")
    BY <1>0, <1>4, <2>1 DEF Create
  <2>4. RequestsOK'
    BY <1>0, <2>1, <2>2, <2>3, RequestMoves DEF RequestLabels
  <2> QED
    BY <2>1, <2>2, <2>4, InstanceKept DEF ControlOK
<1>5. CASE Attach(l)
  <2> DEFINE g == req[l].g
  <2>1. /\ req[l].pc \in {"attach", "attachDuplicate"}
        /\ wf' = wf /\ (Goto(l, "recordFailure") \/ Ends(l))
    BY <1>5 DEF Attach
  <2>2. wf[g] # "none"
    BY <1>0, <2>1 DEF RequestsOK
  <2>3. RequestsOK'
    BY <1>0, <2>1, RequestMoves, RequestEnds DEF RequestLabels
  <2>4. instance' = g \/ UNCHANGED launchVars
    BY <1>5 DEF Attach, AttachStmt, storeVars, runVars
  <2> QED
    BY <1>0, <2>1, <2>2, <2>3, <2>4, InstanceKept DEF ControlOK, AttachedInstanceExists
<1>6. CASE RecordFailure(l)
  <2>1. wf' = wf /\ Ends(l)
    BY <1>6 DEF RecordFailure
  <2>2. RequestsOK'
    BY <1>0, <2>1, RequestEnds
  <2>3. launch' = "launch_failed" \/ UNCHANGED launchVars
    BY <1>6 DEF RecordFailure, LaunchFailureStmt, storeVars, runVars
  <2> QED
    BY <1>0, <2>1, <2>2, <2>3, InstanceKept DEF ControlOK, AttachedInstanceExists
<1> QED
  BY <1>1, <1>2, <1>3, <1>4, <1>5, <1>6 DEF RequestStep

LEMMA InstanceKeeps ==
  ASSUME LaunchInv, NEW i \in Generations, InstanceStep(i) \/ Replay(i)
  PROVE  ControlOK'
<1>1. \E label \in InstanceLabels : label # "none" /\ InstanceAt(i, label)
  BY DEF InstanceStep, Enter, LoopHead, Again, Result, CompleteRun, FailRun, CancelAttempts,
       CancelRun, Replay, InstanceLabels
<1>2. /\ wf' \in [Generations -> InstanceLabels] /\ wf'[i] # "none"
      /\ \A j \in Generations : wf[j] # "none" => wf'[j] # "none"
      /\ RequestsOK'
  BY <1>1, InstanceMoves
<1>3. instance' = i \/ UNCHANGED launchVars
  <2>1. CASE Enter(i)
    BY <2>1 DEF Enter, AttachStmt, storeVars, runVars
  <2>2. CASE ~Enter(i)
    BY <2>2 DEF InstanceStep, LoopHead, Again, Result, CompleteRun, CompleteRunStmt, FailRun,
         FailRunStmt, CancelAttempts, CancelAttemptsStmt, CancelRun, CancelRunStmt, Replay,
         storeVars, runVars
  <2> QED
    BY <2>1, <2>2
<1> QED
  BY <1>2, <1>3, InstanceKept DEF ControlOK, AttachedInstanceExists

LEMMA OthersKeep ==
  ASSUME LaunchInv, LaunchNext,
         ~\E l \in Launchers : RequestStep(l), ~\E i \in Generations : InstanceStep(i) \/ Replay(i)
  PROVE  ControlOK'
<1>0. TypeOK /\ RequestsOK /\ wf \in [Generations -> InstanceLabels]
  BY DEF LaunchInv, StoreInv
<1>1. ASSUME NEW l \in Launchers, PostRun(l) \/ GetRun(l) PROVE ControlOK'
  <2>1. gen \in Generations /\ wf' = wf /\ UNCHANGED launchVars
    BY <1>0, <1>1 DEF TypeOK, Generations, PostRun, GetRun, storeVars, runVars
  <2>2. RequestsOK'
    BY <1>0, <1>1, <2>1, RequestClaims DEF PostRun, GetRun
  <2> QED
    BY <1>0, <2>1, <2>2, InstanceKept DEF ControlOK
<1>2. ASSUME NEW l \in Launchers, CrashRequest(l) PROVE ControlOK'
  <2>1. wf' = wf /\ UNCHANGED launchVars
    BY <1>2 DEF CrashRequest, storeVars, runVars
  <2>2. RequestsOK'
    BY <1>0, <1>2, <2>1, RequestEnds DEF CrashRequest
  <2> QED
    BY <1>0, <2>1, <2>2, InstanceKept DEF ControlOK
<1>3. ASSUME NEW l \in Launchers, NEW a \in Activations, RetryRead(l, a) PROVE ControlOK'
  <2> DEFINE r == [pc |-> "insert", g |-> gen, a |-> a, n |-> LastAttempt(a)]
  <2>1. /\ wf' = wf /\ UNCHANGED launchVars
        /\ LastAttempt(a) \in 1 .. ManualLimit - 1
        /\ req' = [req EXCEPT ![l] = r]
    BY <1>3 DEF RetryRead, storeVars, runVars
  <2>2. LastAttempt(a) \in Attempts /\ LastAttempt(a) \in Nat
    BY <2>1, LimitAssumption DEF Attempts
  <2>3. gen \in Generations /\ gen \in Nat
    BY <1>0 DEF TypeOK, Generations
  <2>4. a \in MaybeActivation
    BY DEF MaybeActivation
  <2>5. RequestOK(r, wf')
    BY <2>2, <2>3, <2>4 DEF RequestOK, RequestRecord, RequestLabels
  <2> HIDE DEF r
  <2>6. RequestsOK'
    BY <1>0, <2>1, <2>5, OneRequest, Zenon
  <2> QED
    BY <1>0, <2>1, <2>6, InstanceKept DEF ControlOK
<1>4. CASE LeaseExpires \/ NodeWork \/ RequestCancellation
  <2>1. UNCHANGED <<req, wf>>
    BY <1>4 DEF LeaseExpires, NodeWork, RequestCancellation, launchSysVars
  <2>2. UNCHANGED launchVars
    BY <1>4 DEF LeaseExpires, NodeWork, RequestCancellation, storeVars, runVars, ActivationInsert,
         ClaimAttemptStmt, CompleteStepStmt, FailStepStmt, RunningStmt, GraphFailureStmt,
         FailRunStmt, RequestCancellationStmt
  <2> QED
    BY <1>0, <2>1, <2>2, InstanceKept DEF ControlOK, RequestsOK
<1> QED
  BY <1>1, <1>2, <1>3, <1>4 DEF LaunchNext

-----------------------------------------------------------------------------
(***************************************************************************)
(* The theorems.                                                           *)
(***************************************************************************)

LEMMA LaunchInvInit == LaunchInit => LaunchInv
<1> SUFFICES ASSUME LaunchInit PROVE LaunchInv
  OBVIOUS
<1>1. StoreInv
  BY StoreInit DEF LaunchInit
<1>2. "none" \in MaybeActivation
  BY DEF MaybeActivation
<1>3. NoRequest \in RequestRecord /\ NoRequest.pc = "idle"
  BY <1>2 DEF RequestRecord, RequestLabels, NoRequest
<1>4. RequestsOK
  BY <1>3 DEF LaunchInit, RequestsOK
<1>5. wf \in [Generations -> InstanceLabels]
  BY DEF LaunchInit, InstanceLabels
<1>6. AttachedInstanceExists
  BY DEF LaunchInit, Init, AttachedInstanceExists
<1> QED
  BY <1>1, <1>4, <1>5, <1>6 DEF LaunchInv

LEMMA LaunchInvStep == LaunchInv /\ [LaunchNext]_vars => LaunchInv' /\ StoreOrNot
<1> SUFFICES ASSUME LaunchInv, [LaunchNext]_vars PROVE LaunchInv' /\ StoreOrNot
  OBVIOUS
<1>1. CASE LaunchNext
  <2>1. StoreOrNot
    BY <1>1, StepsAreStatements
  <2>2. StoreInv'
    BY <2>1, StoreStep DEF LaunchInv, StoreOrNot
  <2>3. ControlOK'
    BY <1>1, RequestKeeps, InstanceKeeps, OthersKeep
  <2> QED
    BY <2>1, <2>2, <2>3 DEF LaunchInv, ControlOK
<1>2. CASE UNCHANGED vars
  <2>1. UNCHANGED storeVars /\ UNCHANGED <<req, wf, launchVars>>
    BY <1>2 DEF vars, launchSysVars, storeVars, runVars
  <2>2. StoreInv'
    BY <2>1, StoreStep DEF LaunchInv
  <2>3. ControlOK'
    BY <2>1, InstanceKept DEF LaunchInv, ControlOK, RequestsOK
  <2> QED
    BY <2>1, <2>2, <2>3 DEF LaunchInv, ControlOK, StoreOrNot
<1> QED
  BY <1>1, <1>2

\* Every behaviour of requests and instances is a behaviour of the store, however
\* they interleave, fail and are taken over: the theorems of WorkflowStoreProofs
\* hold of the launch.
THEOREM LaunchImplementsStore == LaunchSpec => ImplementsStore
<1>1. LaunchInit => Init
  BY DEF LaunchInit
<1>2. LaunchInv /\ [LaunchNext]_vars => [UNCHANGED storeVars \/ Next]_storeVars
  BY LaunchInvStep DEF StoreOrNot
<1> QED
  BY <1>1, <1>2, LaunchInvInit, LaunchInvStep, PTL DEF LaunchSpec, ImplementsStore

\* A run is attached only to an instance that exists: whoever attaches it, the
\* request that created it, one that was told of a duplicate, or the instance itself.
THEOREM AttachedExists == LaunchSpec => []AttachedInstanceExists
<1>1. LaunchInv => AttachedInstanceExists
  BY DEF LaunchInv
<1> QED
  BY <1>1, LaunchInvInit, LaunchInvStep, PTL DEF LaunchSpec
=============================================================================
