------------------------ MODULE GraphNodeTurnProofs ------------------------
(***************************************************************************)
(* What GraphNodeTurn promises, proved for every plan, every number of     *)
(* turns, attempts, generations, polls and crashes, and with slow starts:  *)
(*   - its steps are statements of WorkflowStore, so the store's promises  *)
(*     hold of a run that turns drive;                                     *)
(*   - every call of runtime.start spends a claim of its own;              *)
(*   - dependents are admitted on stored output only;                      *)
(*   - the failure a run reports is that of a failed attempt.              *)
(***************************************************************************)
EXTENDS GraphNodeControlProofs, WorkflowStoreProofs, WellFoundedInduction

-----------------------------------------------------------------------------
\* A non-empty set of numbers up to a bound has a greatest element.
LEMMA GreatestExists ==
  ASSUME NEW N \in Nat, NEW S, S \subseteq 1 .. N, S # {}
  PROVE  \E n \in S : \A m \in S : m <= n
<1> DEFINE T == {k \in Nat : N - k \in S}
<1>1. T \subseteq Nat
  OBVIOUS
<1>2. PICK s \in S : TRUE
  BY Zenon
<1>3. N - s \in T
  BY <1>2
<1>4. T # {}
  BY <1>3, Zenon
<1> HIDE DEF T
<1>5. \E x \in T : \A y \in T : ~(<<y, x>> \in OpToRel(<, Nat))
  BY <1>1, <1>4, NatLessThanWellFounded, WFMin, Zenon
<1>6. PICK x \in T : \A y \in T : ~(<<y, x>> \in OpToRel(<, Nat))
  BY <1>5, Zenon
<1>7. \A y \in T : x <= y
  <2> SUFFICES ASSUME NEW y \in T, ~(x <= y) PROVE FALSE
    OBVIOUS
  <2>1. x \in Nat /\ y \in Nat
    BY <1>1
  <2>2. y < x
    BY <2>1
  <2>3. <<y, x>> \in OpToRel(<, Nat)
    BY <2>1, <2>2 DEF OpToRel
  <2> QED
    BY <2>3, <1>6, Zenon
<1>8. N - x \in S /\ x \in Nat
  BY DEF T
<1>9. \A m \in S : N - m \in T
  BY DEF T
<1>10. \A m \in S : m <= N - x
  BY <1>7, <1>8, <1>9
<1> QED
  BY <1>8, <1>10

\* The latest attempt of an activation that has one.
LEMMA LastIsAttempt ==
  ASSUME NEW a \in Activations, Rows(a) # {}
  PROVE  LastAttempt(a) \in Attempts /\ att[a][LastAttempt(a)] # "none"
<1>1. ManualLimit \in Nat /\ Rows(a) \subseteq 1 .. ManualLimit
  BY LimitAssumption DEF Rows, Attempts
<1>2. \E n \in Rows(a) : \A m \in Rows(a) : m <= n
  BY <1>1, GreatestExists
<1>3. LastAttempt(a) \in Rows(a)
  BY <1>2 DEF LastAttempt
<1> QED
  BY <1>3 DEF Rows

-----------------------------------------------------------------------------
\* The inductive invariant.
TurnInv ==
  /\ StoreInv /\ TurnsOK /\ ClaimsOK /\ EnvOK
  /\ FailureIsBacked /\ OutputBeforeDependents

LEMMA ControlOf == ASSUME TurnInv PROVE ControlInv
  BY LastIsAttempt DEF TurnInv, ControlInv, LatestOK, StoreInv, HasRow, Rows

-----------------------------------------------------------------------------
(***************************************************************************)
(* What a step does to the store.                                          *)
(***************************************************************************)

\* The statements that admit no activation and record no failure.
QuietStmt ==
  \/ \E a \in Activations, n \in Attempts :
       \/ ClaimAttemptStmt(a, n) \/ PersistTaskStmt(a, n) \/ CompleteStepStmt(a, n)
       \/ FailStepStmt(a, n) \/ AutoRetryInsert(a, n) \/ ManualRetryInsert(a, n)
  \/ RunningStmt \/ RequestCancellationStmt \/ CancelAttemptsStmt \/ CancelRunStmt
  \/ \E s \in Steps : CompleteRunStmt(s)
  \/ \E c \in Results, r \in CancellationResult : CancellationResultStmt(c, r)
  \/ \E g \in 1 .. gen : ClaimLaunchStmt(g) \/ AttachStmt(g, g) \/ RetryRunStmt(g)

Effect ==
  \/ UNCHANGED storeVars
  \/ QuietStmt
  \/ \E f \in Failures : /\ GraphFailureStmt(f) \/ FailRunStmt(f)
                         /\ f \in Activations => Failed(att, f)
  \/ \E a \in Activations : ActivationInsert(a) /\ \A d \in Deps[a] : Succeeded(att, d)

LEMMA EffectIsStatement == ASSUME Effect PROVE UNCHANGED storeVars \/ Next
  BY DEF Effect, QuietStmt, Results, Next, LaunchStmts, AttemptStmts, RunStmts

LEMMA TurnEffects == ASSUME TurnInv, NEW t \in Turns, TurnStep(t) PROVE Effect
<1>0. pc[t] # "idle"
  BY Zenon DEF TurnStep, ReadRun, ReadAttempts, Claim, Claim2, Claimed, Recheck, Start, Persist, Stop,
       Poll, Check, Progress, Complete, FailStep, Defer, AutoRetry, Finish, FailRun, Expire,
       CancelTasks, Record, RecordCas, Cancel1, Cancel2
<1> DEFINE a == act[t]
           n == num[t]
           m == LastAttempt(a)
<1>1. /\ a \in Activations /\ m \in Attempts /\ TurnOK(pc[t], a, n, loc[t], att)
      /\ pc[t] \notin Unread => n \in Attempts
  BY <1>0, ControlOf, BusyTurn DEF TurnOK
<1>2. CASE \/ ReadRun(t) \/ ReadAttempts(t) \/ Claimed(t) \/ Recheck(t) \/ Start(t) \/ Stop(t)
           \/ Poll(t) \/ Check(t) \/ Progress(t) \/ Finish(t) \/ CancelTasks(t) \/ Record(t)
  BY <1>2, Zenon DEF Effect, ReadRun, ReadAttempts, Claimed, Recheck, Start, Stop, Poll, Check, Progress,
       Finish, CancelTasks, Record
<1>3. CASE Claim(t)
  <2>1. ClaimAttemptStmt(a, m) \/ UNCHANGED storeVars
    BY <1>3, Zenon DEF Claim
  <2> QED
    BY <1>1, <2>1 DEF Effect, QuietStmt
<1>4. CASE Claim2(t)
  BY <1>4 DEF Claim2, Effect, QuietStmt
<1>5. CASE Persist(t)
  <2>1. n \in Attempts
    BY <1>1, <1>5 DEF Persist, Unread
  <2>2. PersistTaskStmt(a, n) \/ UNCHANGED storeVars
    BY <1>5, Zenon DEF Persist
  <2> QED
    BY <1>1, <2>1, <2>2 DEF Effect, QuietStmt
<1>6. CASE Complete(t)
  <2>1. n \in Attempts
    BY <1>1, <1>6 DEF Complete, Unread
  <2>2. CompleteStepStmt(a, n) \/ UNCHANGED storeVars
    BY <1>6, Zenon DEF Complete
  <2> QED
    BY <1>1, <2>1, <2>2 DEF Effect, QuietStmt
<1>7. CASE FailStep(t)
  <2>1. n \in Attempts
    BY <1>1, <1>7 DEF FailStep, Unread
  <2>2. FailStepStmt(a, n) \/ UNCHANGED storeVars
    BY <1>7 DEF FailStep
  <2> QED
    BY <1>1, <2>1, <2>2 DEF Effect, QuietStmt
<1>8. CASE Defer(t)
  <2>1. Failed(att, a) /\ a \in Failures
    BY <1>1, <1>8, TurnAssumption DEF Defer, TurnOK
  <2>2. GraphFailureStmt(a) \/ UNCHANGED storeVars
    BY <1>8 DEF Defer
  <2> QED
    BY <2>1, <2>2 DEF Effect
<1>9. CASE AutoRetry(t)
  <2>1. AutoRetryInsert(a, m) \/ UNCHANGED storeVars
    BY <1>9 DEF AutoRetry
  <2> QED
    BY <1>1, <2>1 DEF Effect, QuietStmt
<1>10. CASE FailRun(t)
  <2>1. loc[t].orig \in Failures /\ (loc[t].orig \in Activations => Failed(att, loc[t].orig))
    BY <1>1, <1>10 DEF FailRun, TurnOK, LocalsOK
  <2>2. FailRunStmt(loc[t].orig) \/ UNCHANGED storeVars
    BY <1>10 DEF FailRun
  <2> QED
    BY <2>1, <2>2 DEF Effect
<1>11. CASE Expire(t)
  <2>1. "overdue" \in Failures /\ "overdue" \notin Activations
    BY TurnAssumption
  <2>2. FailRunStmt("overdue") \/ UNCHANGED storeVars
    BY <1>11 DEF Expire
  <2> QED
    BY <2>1, <2>2 DEF Effect
<1>12. CASE RecordCas(t)
  <2>1. loc[t].cur \in Results /\ loc[t].out \in CancellationResult
    BY <1>1, <1>12 DEF RecordCas, TurnOK, LocalsOK, Locals
  <2>2. CancellationResultStmt(loc[t].cur, loc[t].out) \/ UNCHANGED storeVars
    BY <1>12 DEF RecordCas
  <2> QED
    BY <2>1, <2>2 DEF Effect, QuietStmt
<1>13. CASE Cancel1(t) \/ Cancel2(t)
  BY <1>13, Zenon DEF Cancel1, Cancel2, Effect, QuietStmt
<1> QED
  BY <1>2, <1>3, <1>4, <1>5, <1>6, <1>7, <1>8, <1>9, <1>10, <1>11, <1>12, <1>13 DEF TurnStep

LEMMA OuterEffects == ASSUME TurnInv, OuterStep PROVE Effect
<1>1. CASE (\E a \in Activations : AdmitRead(a)) \/ OuterDone \/ OuterGiveUp \/ OuterRefuse
  BY <1>1 DEF AdmitRead, OuterDone, OuterGiveUp, OuterRefuse, Effect
<1>2. CASE AdmitInsert
  <2>1. outer.a \in Activations /\ \A d \in Deps[outer.a] : Succeeded(att, d)
    BY <1>2 DEF AdmitInsert, TurnInv, EnvOK
  <2>2. ActivationInsert(outer.a) \/ UNCHANGED storeVars
    BY <1>2 DEF AdmitInsert
  <2> QED
    BY <2>1, <2>2 DEF Effect
<1>3. CASE OuterCancel1 \/ OuterCancel2
  BY <1>3 DEF OuterCancel1, OuterCancel2, Effect, QuietStmt
<1>4. CASE OuterComplete
  <2>1. CompleteRunStmt(TerminalStep) \/ UNCHANGED storeVars
    BY <1>4 DEF OuterComplete
  <2> QED
    BY <2>1, TurnAssumption DEF Effect, QuietStmt
<1>5. CASE OuterFailRun
  <2>1. "internal" \in Failures /\ "internal" \notin Activations
    BY TurnAssumption
  <2>2. FailRunStmt("internal") \/ UNCHANGED storeVars
    BY <1>5 DEF OuterFailRun
  <2> QED
    BY <2>1, <2>2 DEF Effect
<1> QED
  BY <1>1, <1>2, <1>3, <1>4, <1>5 DEF OuterStep

LEMMA RouteEffects ==
  ASSUME TurnInv, RequestCancellation \/ RetryRead \/ RetryInsert \/ RetryUpdate \/ CrashRetry \/ Relaunch
  PROVE  Effect
<1>0. gen \in 1 .. MaxGen
  BY DEF TurnInv, StoreInv, TypeOK
<1>1. CASE RequestCancellation
  BY <1>1 DEF RequestCancellation, Effect, QuietStmt
<1>2. CASE RetryRead \/ CrashRetry
  BY <1>2, Zenon DEF RetryRead, CrashRetry, Effect
<1>3. CASE RetryInsert
  <2>1. retrier.a \in Activations /\ retrier.n \in Attempts
    BY <1>3 DEF RetryInsert, TurnInv, EnvOK
  <2>2. ManualRetryInsert(retrier.a, retrier.n) \/ UNCHANGED storeVars
    BY <1>3 DEF RetryInsert
  <2> QED
    BY <2>1, <2>2 DEF Effect, QuietStmt
<1>4. CASE RetryUpdate
  <2>1. RetryRunStmt(gen) \/ UNCHANGED storeVars
    BY <1>4 DEF RetryUpdate, RetryRunStmt
  <2> QED
    BY <1>0, <2>1 DEF Effect, QuietStmt
<1>5. CASE Relaunch
  <2>1. ClaimLaunchStmt(gen) \/ AttachStmt(gen, gen)
    BY <1>5 DEF Relaunch
  <2> QED
    BY <1>0, <2>1 DEF Effect, QuietStmt
<1> QED
  BY <1>1, <1>2, <1>3, <1>4, <1>5

LEMMA Effects == ASSUME TurnInv, [TurnNext]_vars PROVE Effect
<1>1. CASE \E t \in Turns, a \in Activations : BeginTurn(t, a)
  BY <1>1 DEF BeginTurn, Effect
<1>2. CASE \E t \in Turns : CrashTurn(t)
  BY <1>2 DEF CrashTurn, Effect
<1>3. CASE \E a \in Activations, n \in Attempts : Age(a, n)
  BY <1>3 DEF Age, Effect
<1>4. CASE UNCHANGED vars
  BY <1>4 DEF vars, Effect
<1> QED
  BY <1>1, <1>2, <1>3, <1>4, TurnEffects, OuterEffects, RouteEffects DEF TurnNext

-----------------------------------------------------------------------------
(***************************************************************************)
(* What is known stays known, whatever the effect.                         *)
(***************************************************************************)

LEMMA EffectKeeps == ASSUME TurnInv, Effect PROVE StoreInv' /\ RowsKept
<1>1. [Next]_storeVars
  BY EffectIsStatement
<1>2. StoreInv' /\ HistoryStep
  BY <1>1, StoreStep, HistoryStepHolds DEF TurnInv
<1>3. /\ \A a \in Activations, n \in Attempts : att[a][n] \in StepStatus \cup {"none"}
      /\ \A a \in Activations, n \in Attempts : att'[a][n] \in StepStatus \cup {"none"}
  BY <1>2 DEF TurnInv, StoreInv, TypeOK
<1>4. \A a \in Activations, n \in Attempts :
        /\ att[a][n] # "none" => att'[a][n] # "none"
        /\ att[a][n] \in {"failed", "succeeded"} => att'[a][n] = att[a][n]
        /\ att[a][n] \notin {"none", "pending"} => att'[a][n] \notin {"none", "pending"}
  BY <1>2, <1>3 DEF HistoryStep, TerminalSteps, StepStatus
<1> QED
  BY <1>2, <1>4 DEF RowsKept, HasRow, Failed, Succeeded

\* A quiet statement gives no activation its first row.
LEMMA QuietRows ==
  ASSUME TurnInv, QuietStmt
  PROVE  \A b \in Activations : HasRow(att', b) => HasRow(att, b)
<1>0. att \in [Activations -> [Attempts -> StepStatus \cup {"none"}]]
  BY DEF TurnInv, StoreInv, TypeOK
<1>1. ASSUME NEW a \in Activations, NEW n \in Attempts, NEW k, NEW v, att[a][n] # "none",
             att' = [att EXCEPT ![a][k] = v]
      PROVE  \A b \in Activations : HasRow(att', b) => HasRow(att, b)
  <2>1. HasRow(att, a)
    BY <1>1 DEF HasRow
  <2>2. \A b \in Activations \ {a} : att'[b] = att[b]
    BY <1>0, <1>1
  <2> QED
    BY <2>1, <2>2 DEF HasRow
<1>2. ASSUME NEW a \in Activations, NEW n \in Attempts,
             \/ ClaimAttemptStmt(a, n) \/ PersistTaskStmt(a, n) \/ CompleteStepStmt(a, n)
             \/ FailStepStmt(a, n) \/ AutoRetryInsert(a, n) \/ ManualRetryInsert(a, n)
      PROVE  \A b \in Activations : HasRow(att', b) => HasRow(att, b)
  <2>1. /\ att[a][n] # "none"
        /\ \E k \in {n, n + 1}, v \in StepStatus : att' = [att EXCEPT ![a][k] = v]
    BY <1>2 DEF ClaimAttemptStmt, PersistTaskStmt, CompleteStepStmt, FailStepStmt, AutoRetryInsert,
         ManualRetryInsert, StepStatus
  <2> QED
    BY <1>1, <2>1, Zenon
<1>3. CASE CancelAttemptsStmt
  <2>1. \A b \in Activations, m \in Attempts : att'[b][m] # "none" => att[b][m] # "none"
    BY <1>3 DEF CancelAttemptsStmt, LiveSteps
  <2> QED
    BY <2>1 DEF HasRow
<1>4. CASE att' = att
  BY <1>4
<1> QED
  BY <1>2, <1>3, <1>4 DEF QuietStmt, RunningStmt, RequestCancellationStmt, CancelRunStmt,
     CompleteRunStmt, CancellationResultStmt, ClaimLaunchStmt, AttachStmt, RetryRunStmt, attVars

LEMMA QuietFailure == ASSUME QuietStmt PROVE failure' \in {failure, NoFailure}
  BY DEF QuietStmt, ClaimAttemptStmt, PersistTaskStmt, CompleteStepStmt, FailStepStmt,
     AutoRetryInsert, ManualRetryInsert, RunningStmt, RequestCancellationStmt, CancelAttemptsStmt,
     CancelRunStmt, CompleteRunStmt, CancellationResultStmt, ClaimLaunchStmt, AttachStmt,
     RetryRunStmt, runVars

LEMMA EffectPromises ==
  ASSUME TurnInv, Effect PROVE FailureIsBacked' /\ OutputBeforeDependents'
<1>0. RowsKept /\ Activations \subseteq Failures /\ NoFailure \notin Activations
  BY EffectKeeps, TurnAssumption, FailureAssumption
<1>1. FailureIsBacked <=> (failure \in Activations => Failed(att, failure))
  BY DEF FailureIsBacked, Failed
<1>2. FailureIsBacked' <=> (failure' \in Activations => Failed(att', failure'))
  BY DEF FailureIsBacked, Failed
<1>3. OutputBeforeDependents <=>
        \A a \in Activations : HasRow(att, a) => \A d \in Deps[a] : Succeeded(att, d)
  BY DEF OutputBeforeDependents, HasRow, Succeeded, Rows
<1>4. OutputBeforeDependents' <=>
        \A a \in Activations : HasRow(att', a) => \A d \in Deps[a] : Succeeded(att', d)
  BY DEF OutputBeforeDependents, HasRow, Succeeded, Rows
<1>5. \A a \in Activations : \A d \in Deps[a] : d \in Activations
  BY TurnAssumption
<1>6. FailureIsBacked'
  <2>1. CASE failure' \in {failure, NoFailure}
    BY <1>0, <1>1, <1>2, <2>1 DEF TurnInv, RowsKept
  <2>2. ASSUME NEW f \in Failures, GraphFailureStmt(f) \/ FailRunStmt(f), f \in Activations => Failed(att, f)
        PROVE  FailureIsBacked'
    <3>1. failure' \in {failure, f}
      BY <2>2 DEF GraphFailureStmt, FailRunStmt
    <3> QED
      BY <1>0, <1>1, <1>2, <2>2, <3>1 DEF TurnInv, RowsKept
  <2> QED
    BY <2>1, <2>2, QuietFailure DEF Effect, storeVars, runVars, ActivationInsert
<1>7. OutputBeforeDependents'
  <2>1. ASSUME NEW b \in Activations, \A a \in Activations \ {b} : HasRow(att', a) => HasRow(att, a),
               \A d \in Deps[b] : Succeeded(att, d)
        PROVE  OutputBeforeDependents'
    BY <1>0, <1>3, <1>4, <1>5, <2>1 DEF TurnInv, RowsKept
  <2>2. CASE \A a \in Activations : HasRow(att', a) => HasRow(att, a)
    BY <1>0, <1>3, <1>4, <1>5, <2>2 DEF TurnInv, RowsKept
  <2>3. CASE \E b \in Activations : ActivationInsert(b) /\ \A d \in Deps[b] : Succeeded(att, d)
    <3>1. PICK b \in Activations : ActivationInsert(b) /\ \A d \in Deps[b] : Succeeded(att, d)
      BY <2>3
    <3>2. \A a \in Activations \ {b} : att'[a] = att[a]
      BY <3>1 DEF ActivationInsert, TurnInv, StoreInv, TypeOK
    <3> QED
      BY <2>1, <3>1, <3>2 DEF HasRow
  <2>4. CASE UNCHANGED storeVars \/ \E f \in Failures : GraphFailureStmt(f) \/ FailRunStmt(f)
    <3>1. att' = att
      BY <2>4 DEF storeVars, attVars, GraphFailureStmt, FailRunStmt
    <3> QED
      BY <2>2, <3>1
  <2> QED
    BY <2>2, <2>3, <2>4, QuietRows DEF Effect
<1> QED
  BY <1>6, <1>7

-----------------------------------------------------------------------------
(***************************************************************************)
(* The manual-retry route.                                                 *)
(***************************************************************************)

\* The row prepareManualRetry reads exists: the node whose failure makes a retry
\* eligible has a latest visit, and that visit has an attempt.
LEMMA PriorExists ==
  ASSUME TurnInv, NEW x \in EligibleRows
  PROVE  LET p == Prior(StepOf[x[1]]) IN p[1] \in Activations /\ p[2] \in Attempts
<1> DEFINE s == StepOf[x[1]]
           b == CHOOSE c \in Activations : StepOf[c] = s /\ iter[c] = MaxIteration(s)
<1>1. x[1] \in Activations /\ x[2] \in Attempts /\ att[x[1]][x[2]] = "failed" /\ s \in Steps
  BY StepAssumption DEF EligibleRows, AllAttempts
<1>2. AttTypeOK /\ RetryHistory /\ Iterations
  BY TypeSplits DEF TurnInv, StoreInv
<1>3. att[x[1]][1] # "none"
  <2>1. x[2] \in Nat /\ 1 <= x[2]
    BY <1>1, LimitAssumption DEF Attempts
  <2>2. CASE x[2] = 1
    BY <1>1, <2>2
  <2>3. CASE x[2] # 1
    <3>1. 1 \in 1 .. x[2] - 1
      BY <2>1, <2>3
    <3> QED
      BY <1>1, <1>2, <3>1 DEF RetryHistory
  <2> QED
    BY <2>2, <2>3
<1>4. PICK k \in Nat : Numbered(s, k)
  BY <1>1, <1>2 DEF Iterations
<1>5. MaxIteration(s) = k
  BY <1>1, <1>2, <1>4, MaxIsCount
<1>6. iter[x[1]] \in Nat /\ iter[x[1]] # 0 /\ iter[x[1]] <= k
  BY <1>1, <1>2, <1>3, <1>4 DEF Iterations, Numbered, AttTypeOK
<1>7. k \in 1 .. k
  BY <1>6
<1>8. \E c \in Activations : StepOf[c] = s /\ iter[c] = MaxIteration(s)
  BY <1>4, <1>5, <1>7 DEF Numbered
<1>9. b \in Activations /\ iter[b] = k
  BY <1>5, <1>8
<1> HIDE DEF b
<1>10. att[b][1] # "none" /\ 1 \in Attempts
  BY <1>2, <1>7, <1>9, LimitAssumption DEF Iterations, Attempts
<1>11. LastAttempt(b) \in Attempts
  BY <1>9, <1>10, LastIsAttempt DEF Rows
<1>12. Prior(s) = <<b, LastAttempt(b)>>
  BY DEF Prior, b
<1> QED
  BY <1>9, <1>11, <1>12

LEMMA RetrierKeeps ==
  ASSUME TurnInv, RetryRead \/ RetryInsert \/ RetryUpdate \/ CrashRetry
  PROVE  RetrierOK(retrier')
<1>1. CASE RetryRead
  <2>1. PICK x \in EligibleRows :
          LET p == Prior(StepOf[x[1]]) IN retrier' = [pc |-> "insert", a |-> p[1], n |-> p[2], g |-> gen]
    BY <1>1, Zenon DEF RetryRead
  <2> DEFINE p == Prior(StepOf[x[1]])
  <2>2. p[1] \in Activations /\ p[2] \in Attempts /\ p[2] \in 0 .. ManualLimit
    BY PriorExists, AttemptRange
  <2>3. gen \in Nat
    BY GenAssumption DEF TurnInv, StoreInv, TypeOK
  <2>4. retrier' = [pc |-> "insert", a |-> p[1], n |-> p[2], g |-> gen]
    BY <2>1
  <2> HIDE DEF p
  <2> QED
    BY <2>2, <2>3, <2>4 DEF RetrierOK
<1>2. CASE RetryInsert
  <2>1. retrier' = [retrier EXCEPT !.pc = "update"] /\ RetrierOK(retrier)
    BY <1>2, EnvForms DEF RetryInsert, TurnInv
  <2> QED
    BY <2>1 DEF RetrierOK
<1>3. CASE RetryUpdate \/ CrashRetry
  BY <1>3, LimitAssumption DEF RetryUpdate, CrashRetry, NoRetry, RetrierOK
<1> QED
  BY <1>1, <1>2, <1>3

-----------------------------------------------------------------------------
(***************************************************************************)
(* The invariant holds, step by step.                                      *)
(***************************************************************************)

LEMMA TurnsStart == TurnInit => TurnInv
<1> SUFFICES ASSUME TurnInit PROVE TurnInv
  OBVIOUS
<1>1. StoreInv
  <2>1. TypeOK
    <3>1. status \in RunStatus /\ launch \in LaunchState
      BY DEF TurnInit, RunStatus, LaunchState
    <3>2. gen \in 1 .. MaxGen /\ reserved \in 0 .. MaxGen /\ instance \in 0 .. MaxGen
      BY GenAssumption DEF TurnInit
    <3> QED
      BY <3>1, <3>2, Zenon DEF TurnInit, TypeOK
  <2>2. RetryHistory
    BY DEF TurnInit, RetryHistory
  <2>3. Iterations
    <3>1. \A a \in Activations : iter[a] = 0 /\ att[a][1] = "none"
      BY AttemptNumbers DEF TurnInit
    <3>2. \A s \in Steps : Numbered(s, 0)
      BY <3>1 DEF Numbered
    <3> QED
      BY <3>1, <3>2 DEF Iterations
  <2>4. LaunchColumnsAgree /\ OutcomesAreBacked
    BY DEF TurnInit, LaunchColumnsAgree, OutcomesAreBacked
  <2> QED
    BY <2>1, <2>2, <2>3, <2>4 DEF StoreInv
<1>2. TurnsOK
  <2>1. TurnOK("idle", "none", 0, NoLocals, att)
    BY NoLocalsOK, LimitAssumption, FailureAssumption, TurnAssumption
       DEF TurnOK, LocalsOK, Labels, Unread, Holding
  <2> QED
    BY <2>1 DEF TurnInit, TurnsOK
<1>3. ClaimsOK
  BY DEF TurnInit, ClaimsOK, Holding
<1>4. EnvOK
  <2>1. OuterOK(outer, att) /\ RetrierOK(retrier)
    BY LimitAssumption DEF TurnInit, Orchestrating, NoRetry, OuterOK, RetrierOK
  <2> QED
    BY <2>1, EnvForms DEF TurnInit, ReturnedOK
<1>5. FailureIsBacked
  BY TurnAssumption, FailureAssumption DEF TurnInit, FailureIsBacked
<1>6. OutputBeforeDependents
  BY DEF TurnInit, OutputBeforeDependents, Rows
<1> QED
  BY <1>1, <1>2, <1>3, <1>4, <1>5, <1>6 DEF TurnInv

LEMMA TurnsStep ==
  TurnInv /\ [TurnNext]_vars =>
    /\ TurnInv'
    /\ UNCHANGED storeVars \/ Next
    /\ SpendStep \/ UNCHANGED vars
<1> SUFFICES ASSUME TurnInv, [TurnNext]_vars
             PROVE  TurnInv' /\ (UNCHANGED storeVars \/ Next) /\ (SpendStep \/ UNCHANGED vars)
  OBVIOUS
<1>1. Effect
  BY Effects
<1>2. StoreInv' /\ RowsKept /\ FailureIsBacked' /\ OutputBeforeDependents'
  BY <1>1, EffectKeeps, EffectPromises
<1>3. TurnsOK' /\ ClaimsOK' /\ EnvOK' /\ (SpendStep \/ UNCHANGED vars)
  BY <1>2, ControlOf, RetrierKeeps, ControlStep
<1> QED
  BY <1>1, <1>2, <1>3, EffectIsStatement DEF TurnInv

\* The invariant of node turns holds, whatever turns, orchestrator and routes do.
THEOREM TurnInvariant == TurnSpec => []TurnInv
  BY TurnsStart, TurnsStep, PTL DEF TurnSpec

\* Turns, orchestrator and routes change the store by its statements only:
\* GraphNodeTurn, after its own initial state, implements WorkflowStore.
THEOREM TurnsAreStatements == TurnSpec => StoreSteps
<1>1. TurnInv /\ [TurnNext]_vars => [UNCHANGED storeVars \/ Next]_storeVars
  BY TurnsStep
<1> QED
  BY <1>1, TurnInvariant, PTL DEF TurnSpec, StoreSteps

\* So the promises of the store hold of a run driven by node turns: its retry
\* history, its launch columns and its outcomes.
THEOREM TurnsKeepStore == TurnSpec => [](RetryHistory /\ LaunchColumnsAgree /\ OutcomesAreBacked)
<1>1. TurnInv => RetryHistory /\ LaunchColumnsAgree /\ OutcomesAreBacked
  BY DEF TurnInv, StoreInv
<1> QED
  BY <1>1, TurnInvariant, PTL

\* No step of a turn, of the orchestrator or of a route rewrites the history of a
\* run, and none reopens a settled one.
THEOREM TurnsKeepHistory == TurnSpec => HistoryKept /\ SettledStays
<1>1. TurnInv /\ [TurnNext]_vars => [HistoryStep]_storeVars /\ [SettledStep]_storeVars
  <2> SUFFICES ASSUME TurnInv, [TurnNext]_vars PROVE HistoryStep /\ SettledStep
    OBVIOUS
  <2>1. StoreInv /\ [Next]_storeVars
    BY TurnsStep DEF TurnInv
  <2> QED
    BY <2>1, HistoryStepHolds, SettledStepHolds
<1> QED
  BY <1>1, TurnInvariant, PTL DEF TurnSpec, HistoryKept, SettledStays

\* Every call of runtime.start spends a claim of its own, however many turns of an
\* activation run at once, crash, are called again or belong to an old generation.
THEOREM ClaimsAreSpentOnce == TurnSpec => StartsAreClaimed
<1>1. TurnInv /\ [TurnNext]_vars => [SpendStep]_vars
  BY TurnsStep
<1> QED
  BY <1>1, TurnInvariant, PTL DEF TurnSpec, StartsAreClaimed

\* An activation is admitted on the stored output of those it reads.
THEOREM DependentsHaveInput == TurnSpec => []OutputBeforeDependents
  BY TurnInvariant, PTL DEF TurnInv

\* The failure a run reports is the failure of an attempt.
THEOREM FailuresHaveBacking == TurnSpec => []FailureIsBacked
  BY TurnInvariant, PTL DEF TurnInv

=============================================================================

