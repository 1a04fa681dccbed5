------------------------ MODULE WorkflowStoreProofs ------------------------
(***************************************************************************)
(* What WorkflowStore promises, proved for every plan, every limit and     *)
(* every number of generations.                                            *)
(***************************************************************************)
EXTENDS WorkflowStore, TLAPS

AttType == [Activations -> [Attempts -> StepStatus \cup {"none"}]]

-----------------------------------------------------------------------------
\* The statements that touch the attempts, and the shape of what they do.
AttStmt ==
  \/ \E a \in Activations : ActivationInsert(a)
  \/ \E a \in Activations, n \in Attempts :
       \/ ClaimAttemptStmt(a, n) \/ PersistTaskStmt(a, n) \/ CompleteStepStmt(a, n)
       \/ FailStepStmt(a, n) \/ AutoRetryInsert(a, n) \/ ManualRetryInsert(a, n)
  \/ CancelAttemptsStmt

\* Every other statement leaves the rows of workflow_step_attempts alone.
LEMMA OthersKeepAttempts == Next => AttStmt \/ UNCHANGED attVars
<1> SUFFICES ASSUME Next, ~AttStmt PROVE UNCHANGED attVars
  OBVIOUS
<1>1. CASE LaunchStmts
  BY <1>1 DEF LaunchStmts, ClaimLaunchStmt, AttachStmt, LaunchFailureStmt, RetryRunStmt, attVars
<1>2. CASE AttemptStmts
  BY <1>2 DEF AttemptStmts, AttStmt
<1>3. CASE RunStmts
  BY <1>3 DEF RunStmts, AttStmt, RunningStmt, CompleteRunStmt, GraphFailureStmt, FailRunStmt,
       RequestCancellationStmt, CancellationResultStmt, CancelRunStmt, WaitApprovalStmt,
       ResumeApprovalStmt, attVars
<1> QED
  BY <1>1, <1>2, <1>3 DEF Next

\* Every statement on the attempts leaves the row of the run alone.
LEMMA AttemptsKeepRun == AttStmt => UNCHANGED runVars
BY DEF AttStmt, ActivationInsert, ClaimAttemptStmt, PersistTaskStmt, CompleteStepStmt,
     FailStepStmt, AutoRetryInsert, ManualRetryInsert, CancelAttemptsStmt

\* The other statements, which change the row of the run.
RunStmt ==
  \/ LaunchStmts
  \/ RunningStmt
  \/ \E s \in Steps : CompleteRunStmt(s)
  \/ \E f \in Failures : GraphFailureStmt(f) \/ FailRunStmt(f)
  \/ RequestCancellationStmt
  \/ \E c \in CancellationResult \cup {"none"}, r \in CancellationResult :
       CancellationResultStmt(c, r)
  \/ CancelRunStmt
  \/ \E g \in 1 .. gen : WaitApprovalStmt(g)
  \/ ResumeApprovalStmt

LEMMA NextSplits == Next => AttStmt \/ (RunStmt /\ UNCHANGED attVars)
<1> SUFFICES ASSUME Next, ~AttStmt PROVE RunStmt
  BY OthersKeepAttempts
<1> QED
  BY DEF Next, AttemptStmts, RunStmts, AttStmt, RunStmt

-----------------------------------------------------------------------------
(***************************************************************************)
(* Types.                                                                  *)
(***************************************************************************)

LEMMA TypeInit == Init => TypeOK
<1> SUFFICES ASSUME Init PROVE TypeOK
  OBVIOUS
<1>1. status \in RunStatus /\ launch \in LaunchState
  BY DEF Init, RunStatus, LaunchState
<1>2. gen \in 1 .. MaxGen /\ reserved \in 0 .. MaxGen /\ instance \in 0 .. MaxGen
  BY GenAssumption DEF Init
<1>3. cancelReq \in BOOLEAN /\ cancelRes \in CancellationResult \cup {"none"}
  BY DEF Init
<1>4. failure \in Failures \cup {NoFailure}
  BY DEF Init
<1>5. iter \in [Activations -> Nat]
  BY DEF Init
<1>6. att \in [Activations -> [Attempts -> StepStatus \cup {"none"}]]
  BY DEF Init
<1> QED
  BY <1>1, <1>2, <1>3, <1>4, <1>5, <1>6 DEF TypeOK

RunTypeOK ==
  /\ status \in RunStatus
  /\ launch \in LaunchState
  /\ gen \in 1 .. MaxGen
  /\ reserved \in 0 .. MaxGen
  /\ instance \in 0 .. MaxGen
  /\ cancelReq \in BOOLEAN
  /\ cancelRes \in CancellationResult \cup {"none"}
  /\ failure \in Failures \cup {NoFailure}

\* A statement on the run keeps its columns within their types.
LEMMA RunTypes == ASSUME RunTypeOK, RunStmt PROVE RunTypeOK'
<1> USE GenAssumption DEF RunTypeOK, RunStatus, LaunchState, launchVars, cancelVars
<1>1. ASSUME NEW g \in 1 .. gen, ClaimLaunchStmt(g) PROVE RunTypeOK'
  BY <1>1 DEF ClaimLaunchStmt
<1>2. ASSUME NEW g \in 1 .. gen, AttachStmt(g, g) PROVE RunTypeOK'
  BY <1>2 DEF AttachStmt
<1>3. ASSUME NEW g \in 1 .. gen, NEW f \in Failures, LaunchFailureStmt(g, g, f) PROVE RunTypeOK'
  BY <1>3 DEF LaunchFailureStmt
<1>4. ASSUME NEW g \in 1 .. gen, RetryRunStmt(g) PROVE RunTypeOK'
  BY <1>4 DEF RetryRunStmt
<1>5. ASSUME RunningStmt PROVE RunTypeOK'
  BY <1>5 DEF RunningStmt
<1>6. ASSUME NEW s \in Steps, CompleteRunStmt(s) PROVE RunTypeOK'
  BY <1>6 DEF CompleteRunStmt
<1>7. ASSUME NEW f \in Failures, GraphFailureStmt(f) PROVE RunTypeOK'
  BY <1>7 DEF GraphFailureStmt
<1>8. ASSUME NEW f \in Failures, FailRunStmt(f) PROVE RunTypeOK'
  BY <1>8 DEF FailRunStmt
<1>9. ASSUME RequestCancellationStmt PROVE RunTypeOK'
  BY <1>9 DEF RequestCancellationStmt
<1>10. ASSUME NEW c \in CancellationResult \cup {"none"}, NEW r \in CancellationResult,
              CancellationResultStmt(c, r) PROVE RunTypeOK'
  BY <1>10 DEF CancellationResultStmt
<1>11. ASSUME CancelRunStmt PROVE RunTypeOK'
  BY <1>11 DEF CancelRunStmt
<1>12. ASSUME NEW g \in 1 .. gen, WaitApprovalStmt(g) PROVE RunTypeOK'
  BY <1>12 DEF WaitApprovalStmt
<1>13. ASSUME ResumeApprovalStmt PROVE RunTypeOK'
  BY <1>13 DEF ResumeApprovalStmt
<1> HIDE DEF RunTypeOK, RunStatus, LaunchState, launchVars, cancelVars
<1> QED
  BY <1>1, <1>2, <1>3, <1>4, <1>5, <1>6, <1>7, <1>8, <1>9, <1>10, <1>11, <1>12, <1>13
  DEF RunStmt, LaunchStmts

-----------------------------------------------------------------------------
(***************************************************************************)
(* The attempts: types, history, iterations.                               *)
(***************************************************************************)

AttTypeOK == iter \in [Activations -> Nat] /\ att \in AttType

LEMMA AttemptNumbers == Attempts \subseteq Nat /\ 1 \in Attempts
BY LimitAssumption DEF Attempts

\* One form for the six statements that change a single row.
OneRow(a, n, v) == att' = [att EXCEPT ![a][n] = v]

LEMMA RowTypes ==
  ASSUME AttTypeOK, NEW a \in Activations, NEW n \in Attempts, NEW v \in StepStatus, OneRow(a, n, v)
  PROVE  /\ att' \in AttType
         /\ att'[a][n] = v
         /\ \A b \in Activations, m \in Attempts :
              ~(b = a /\ m = n) => att'[b][m] = att[b][m]
BY DEF AttTypeOK, AttType, OneRow

\* What a statement on the attempts does to the rows: it inserts the first row of
\* an activation that has none, moves a live row forward, inserts the row after a
\* failed one, or cancels the live rows.
Inserts(a) ==
  /\ \A m \in Attempts : att[a][m] = "none"
  /\ iter' = [iter EXCEPT ![a] = MaxIteration(StepOf[a]) + 1]
  /\ OneRow(a, 1, "pending")

Forward(a, n, v) ==
  /\ \/ att[a][n] = "pending" /\ v = "starting"
     \/ att[a][n] = "starting" /\ v = "waiting_provider"
     \/ att[a][n] \in {"starting", "waiting_provider"} /\ v \in {"succeeded", "failed"}
  /\ OneRow(a, n, v)
  /\ iter' = iter

Follows(a, n) ==
  /\ n + 1 \in Attempts
  /\ att[a][n] = "failed" /\ att[a][n + 1] = "none"
  /\ OneRow(a, n + 1, "pending")
  /\ iter' = iter

LEMMA AttStmtForms ==
  ASSUME AttStmt
  PROVE  \/ \E a \in Activations : Inserts(a)
         \/ \E a \in Activations, n \in Attempts, v \in StepStatus : Forward(a, n, v)
         \/ \E a \in Activations, n \in Attempts : Follows(a, n)
         \/ CancelAttemptsStmt
<1>1. ASSUME NEW a \in Activations, ActivationInsert(a) PROVE Inserts(a)
  BY <1>1 DEF ActivationInsert, Inserts, OneRow, Rows
<1>2. ASSUME NEW a \in Activations, NEW n \in Attempts,
             ClaimAttemptStmt(a, n) \/ PersistTaskStmt(a, n) \/ CompleteStepStmt(a, n)
               \/ FailStepStmt(a, n)
      PROVE  \E v \in StepStatus : Forward(a, n, v)
  <2>1. CASE ClaimAttemptStmt(a, n)
    <3>1. Forward(a, n, "starting")
      BY <2>1 DEF ClaimAttemptStmt, Forward, OneRow
    <3> QED
      BY <3>1 DEF StepStatus
  <2>2. CASE PersistTaskStmt(a, n)
    <3>1. Forward(a, n, "waiting_provider")
      BY <2>2 DEF PersistTaskStmt, Forward, OneRow
    <3> QED
      BY <3>1 DEF StepStatus
  <2>3. CASE CompleteStepStmt(a, n)
    <3>1. Forward(a, n, "succeeded")
      BY <2>3 DEF CompleteStepStmt, Forward, OneRow
    <3> QED
      BY <3>1 DEF StepStatus
  <2>4. CASE FailStepStmt(a, n)
    <3>1. Forward(a, n, "failed")
      BY <2>4 DEF FailStepStmt, Forward, OneRow
    <3> QED
      BY <3>1 DEF StepStatus
  <2> QED
    BY <1>2, <2>1, <2>2, <2>3, <2>4
<1>3. ASSUME NEW a \in Activations, NEW n \in Attempts,
             AutoRetryInsert(a, n) \/ ManualRetryInsert(a, n)
      PROVE  Follows(a, n)
  <2>1. n + 1 \in Attempts
    BY <1>3, LimitAssumption DEF AutoRetryInsert, ManualRetryInsert, Attempts
  <2>2. CASE AutoRetryInsert(a, n)
    BY <2>1, <2>2 DEF AutoRetryInsert, Follows, OneRow
  <2>3. CASE ManualRetryInsert(a, n)
    BY <2>1, <2>3 DEF ManualRetryInsert, Follows, OneRow
  <2> QED
    BY <1>3, <2>2, <2>3
<1> QED
  BY <1>1, <1>2, <1>3 DEF AttStmt

\* The rows of one node carry the iterations 1 .. k.
Numbered(s, k) ==
  /\ \A a \in Activations : StepOf[a] = s => iter[a] <= k
  /\ \A i \in 1 .. k : \E a \in Activations : StepOf[a] = s /\ iter[a] = i

\* The inductive form of IterationsNumberVisits.
Iterations ==
  /\ \A a \in Activations : iter[a] # 0 <=> att[a][1] # "none"
  /\ \A a \in Activations, b \in Activations :
       a # b /\ StepOf[a] = StepOf[b] /\ iter[a] # 0 => iter[b] # iter[a]
  /\ \A s \in Steps : \E k \in Nat : Numbered(s, k)

AttInv == AttTypeOK /\ RetryHistory /\ Iterations

\* MAX(iteration) is the number of visits.
LEMMA MaxIsCount ==
  ASSUME AttTypeOK, NEW s \in Steps, NEW k \in Nat, Numbered(s, k)
  PROVE  MaxIteration(s) = k
<1> DEFINE its == {iter[a] : a \in {b \in Activations : StepOf[b] = s}} \cup {0}
<1>1. k \in its
  <2>1. CASE k = 0
    BY <2>1
  <2>2. CASE k # 0
    <3>1. k \in 1 .. k
      BY <2>2
    <3> QED
      BY <3>1 DEF Numbered
  <2> QED
    BY <2>1, <2>2
<1>2. \A j \in its : j \in Nat /\ j <= k
  BY DEF AttTypeOK, Numbered
<1>3. MaxIteration(s) = CHOOSE i \in its : \A j \in its : j <= i
  BY DEF MaxIteration
<1> HIDE DEF its
<1>4. /\ MaxIteration(s) \in its
      /\ \A j \in its : j <= MaxIteration(s)
  BY <1>1, <1>2, <1>3
<1>5. MaxIteration(s) \in Nat /\ MaxIteration(s) <= k
  BY <1>2, <1>4
<1>6. k <= MaxIteration(s)
  BY <1>1, <1>4
<1> QED
  BY <1>5, <1>6

LEMMA InsertKeeps ==
  ASSUME AttInv, NEW a \in Activations, Inserts(a)
  PROVE  AttInv'
<1> DEFINE s == StepOf[a]
<1>1. s \in Steps
  BY StepAssumption
<1>2. PICK k \in Nat : Numbered(s, k)
  BY <1>1 DEF AttInv, Iterations
<1>3. iter' = [iter EXCEPT ![a] = k + 1]
  BY <1>1, <1>2, MaxIsCount DEF AttInv, Inserts
<1>4. /\ att' \in AttType
      /\ att'[a][1] = "pending"
      /\ \A b \in Activations, m \in Attempts : ~(b = a /\ m = 1) => att'[b][m] = att[b][m]
  BY RowTypes, AttemptNumbers DEF AttInv, Inserts, StepStatus
<1>5. iter' \in [Activations -> Nat] /\ iter'[a] = k + 1
      /\ \A b \in Activations : b # a => iter'[b] = iter[b]
  BY <1>3 DEF AttInv, AttTypeOK
<1>6. \A m \in Attempts : m # 1 => att'[a][m] = "none"
  BY <1>4 DEF Inserts
<1>7. RetryHistory'
  <2> SUFFICES ASSUME NEW b \in Activations, NEW n \in Attempts, att'[b][n] # "none",
                      NEW m \in 1 .. n - 1
               PROVE  att'[b][m] = "failed"
    BY DEF RetryHistory
  <2>1. m \in Attempts
    BY LimitAssumption DEF Attempts
  <2>2. CASE b = a
    BY <2>2, <1>6 DEF Attempts
  <2>3. CASE b # a
    BY <2>1, <2>3, <1>4 DEF AttInv, RetryHistory
  <2> QED
    BY <2>2, <2>3
<1>8. iter[a] = 0
  BY AttemptNumbers DEF AttInv, Iterations, Inserts
<1>9. \A b \in Activations : iter'[b] # 0 <=> att'[b][1] # "none"
  BY <1>4, <1>5, AttemptNumbers DEF AttInv, Iterations
<1>10. \A b \in Activations : StepOf[b] = s => iter[b] \in Nat /\ iter[b] <= k
  BY <1>2 DEF Numbered, AttInv, AttTypeOK
<1>11. ASSUME NEW b \in Activations, NEW c \in Activations, b # c, StepOf[b] = StepOf[c], iter'[b] # 0
       PROVE  iter'[c] # iter'[b]
  <2>1. CASE b = a
    BY <1>11, <2>1, <1>5, <1>10
  <2>2. CASE c = a
    BY <1>11, <2>2, <1>5, <1>10
  <2>3. CASE b # a /\ c # a
    BY <1>11, <2>3, <1>5 DEF AttInv, Iterations
  <2> QED
    BY <2>1, <2>2, <2>3
<1>12. Numbered(s, k + 1)'
  <2>1. ASSUME NEW b \in Activations, StepOf[b] = s PROVE iter'[b] <= k + 1
    BY <2>1, <1>5, <1>10
  <2>2. ASSUME NEW i \in 1 .. k + 1 PROVE \E b \in Activations : StepOf[b] = s /\ iter'[b] = i
    <3>1. CASE i = k + 1
      BY <3>1, <1>5
    <3>2. CASE i # k + 1
      <4>1. i \in 1 .. k
        BY <3>2
      <4>2. PICK b \in Activations : StepOf[b] = s /\ iter[b] = i
        BY <4>1, <1>2 DEF Numbered
      <4>3. b # a
        BY <4>1, <4>2, <1>8
      <4> QED
        BY <4>2, <4>3, <1>5
    <3> QED
      BY <3>1, <3>2
  <2> QED
    BY <2>1, <2>2 DEF Numbered
<1>13. ASSUME NEW t \in Steps PROVE \E j \in Nat : Numbered(t, j)'
  <2>1. CASE t = s
    BY <2>1, <1>12
  <2>2. CASE t # s
    <3>1. PICK j \in Nat : Numbered(t, j)
      BY DEF AttInv, Iterations
    <3>2. Numbered(t, j)'
      BY <3>1, <2>2, <1>5 DEF Numbered
    <3> QED
      BY <3>2
  <2> QED
    BY <2>1, <2>2
<1> QED
  BY <1>4, <1>5, <1>7, <1>9, <1>11, <1>13 DEF AttInv, AttTypeOK, Iterations

\* A change of rows that leaves iterations and the first rows in place.
LEMMA IterationsKept ==
  ASSUME Iterations, iter' = iter,
         \A b \in Activations : att[b][1] = "none" <=> att'[b][1] = "none"
  PROVE  Iterations'
BY DEF Iterations, Numbered

LEMMA ForwardKeeps ==
  ASSUME AttInv, NEW a \in Activations, NEW n \in Attempts, NEW v \in StepStatus, Forward(a, n, v)
  PROVE  AttInv'
<1>1. /\ att' \in AttType
      /\ att'[a][n] = v
      /\ \A b \in Activations, m \in Attempts : ~(b = a /\ m = n) => att'[b][m] = att[b][m]
  BY RowTypes DEF AttInv, Forward
<1>2. att[a][n] \in LiveSteps /\ v # "none" /\ iter' = iter
  BY DEF Forward, LiveSteps
<1>3. RetryHistory'
  <2> SUFFICES ASSUME NEW b \in Activations, NEW i \in Attempts, att'[b][i] # "none",
                      NEW m \in 1 .. i - 1
               PROVE  att'[b][m] = "failed"
    BY DEF RetryHistory
  <2>1. m \in Attempts
    BY LimitAssumption DEF Attempts
  <2>2. att[b][i] # "none"
    BY <1>1, <1>2 DEF LiveSteps
  <2>3. att[b][m] = "failed"
    BY <2>2 DEF AttInv, RetryHistory
  <2> QED
    BY <2>1, <2>3, <1>1, <1>2 DEF LiveSteps
<1>4. Iterations'
  BY <1>1, <1>2, AttemptNumbers, IterationsKept DEF AttInv, LiveSteps
<1> QED
  BY <1>1, <1>2, <1>3, <1>4 DEF AttInv, AttTypeOK

LEMMA FollowsKeeps ==
  ASSUME AttInv, NEW a \in Activations, NEW n \in Attempts, Follows(a, n)
  PROVE  AttInv'
<1>1. n + 1 \in Attempts /\ att[a][n] = "failed" /\ att[a][n + 1] = "none" /\ iter' = iter
  BY DEF Follows
<1>2. /\ att' \in AttType
      /\ att'[a][n + 1] = "pending"
      /\ \A b \in Activations, m \in Attempts : ~(b = a /\ m = n + 1) => att'[b][m] = att[b][m]
  BY <1>1, RowTypes DEF AttInv, Follows, StepStatus
<1>3. RetryHistory'
  <2> SUFFICES ASSUME NEW b \in Activations, NEW i \in Attempts, att'[b][i] # "none",
                      NEW m \in 1 .. i - 1
               PROVE  att'[b][m] = "failed"
    BY DEF RetryHistory
  <2>1. m \in Attempts /\ n \in Nat
    BY LimitAssumption DEF Attempts
  <2>2. CASE b = a /\ i = n + 1
    <3>1. att[a][m] = "failed"
      BY <2>1, <2>2, <1>1 DEF AttInv, RetryHistory
    <3> QED
      BY <3>1, <2>1, <2>2, <1>2
  <2>3. CASE ~(b = a /\ i = n + 1)
    <3>1. att[b][m] = "failed"
      BY <2>3, <1>2 DEF AttInv, RetryHistory
    <3> QED
      BY <3>1, <2>1, <1>1, <1>2
  <2> QED
    BY <2>2, <2>3
<1>4. Iterations'
  <2>1. n + 1 # 1
    BY DEF Attempts
  <2> QED
    BY <2>1, <1>1, <1>2, AttemptNumbers, IterationsKept DEF AttInv
<1> QED
  BY <1>1, <1>2, <1>3, <1>4 DEF AttInv, AttTypeOK

LEMMA CancelKeeps == ASSUME AttInv, CancelAttemptsStmt PROVE AttInv'
<1>1. iter' = iter
  BY DEF CancelAttemptsStmt
<1>2. \A b \in Activations, m \in Attempts :
        att'[b][m] = IF att[b][m] \in LiveSteps THEN "cancelled" ELSE att[b][m]
  BY DEF CancelAttemptsStmt
<1>3. att' \in AttType
  BY DEF CancelAttemptsStmt, AttInv, AttTypeOK, AttType, StepStatus
<1>4. \A b \in Activations, m \in Attempts :
        /\ att[b][m] = "none" <=> att'[b][m] = "none"
        /\ att[b][m] = "failed" => att'[b][m] = "failed"
  BY <1>2 DEF LiveSteps
<1>5. RetryHistory'
  <2> SUFFICES ASSUME NEW b \in Activations, NEW i \in Attempts, att'[b][i] # "none",
                      NEW m \in 1 .. i - 1
               PROVE  att'[b][m] = "failed"
    BY DEF RetryHistory
  <2>1. m \in Attempts
    BY LimitAssumption DEF Attempts
  <2> QED
    BY <2>1, <1>4 DEF AttInv, RetryHistory
<1>6. Iterations'
  BY <1>1, <1>4, AttemptNumbers, IterationsKept DEF AttInv
<1> QED
  BY <1>1, <1>3, <1>5, <1>6 DEF AttInv, AttTypeOK

LEMMA AttStep == ASSUME AttInv, AttStmt PROVE AttInv'
BY AttStmtForms, InsertKeeps, ForwardKeeps, FollowsKeeps, CancelKeeps

-----------------------------------------------------------------------------
(***************************************************************************)
(* History.                                                                *)
(***************************************************************************)

\* The part of HistoryStep about the attempts.
RowsForward ==
  /\ \A a \in Activations, n \in Attempts :
       /\ att[a][n] # "none" => att'[a][n] # "none"
       /\ att[a][n] \in TerminalSteps => att'[a][n] = att[a][n]
       /\ att[a][n] = "waiting_provider" => att'[a][n] \notin {"pending", "starting"}
       /\ att[a][n] = "starting" => att'[a][n] # "pending"
  /\ \A a \in Activations : iter[a] # 0 => iter'[a] = iter[a]

LEMMA RowsMoveForward == ASSUME AttInv, AttStmt PROVE RowsForward
<1>1. ASSUME NEW a \in Activations, Inserts(a) PROVE RowsForward
  <2>1. att[a][1] = "none" /\ iter[a] = 0
    BY <1>1, AttemptNumbers DEF AttInv, Iterations, Inserts
  <2>2. \A b \in Activations, m \in Attempts : att[b][m] # "none" => att'[b][m] = att[b][m]
    BY <1>1, <2>1, RowTypes, AttemptNumbers DEF AttInv, Inserts, StepStatus
  <2>3. \A b \in Activations : b # a => iter'[b] = iter[b]
    BY <1>1 DEF Inserts, AttInv, AttTypeOK
  <2> QED
    BY <2>1, <2>2, <2>3 DEF RowsForward, TerminalSteps
<1>2. ASSUME NEW a \in Activations, NEW n \in Attempts, NEW v \in StepStatus, Forward(a, n, v)
      PROVE  RowsForward
  <2>1. /\ att'[a][n] = v
        /\ \A b \in Activations, m \in Attempts : ~(b = a /\ m = n) => att'[b][m] = att[b][m]
    BY <1>2, RowTypes DEF AttInv, Forward
  <2> QED
    BY <1>2, <2>1 DEF Forward, RowsForward, TerminalSteps
<1>3. ASSUME NEW a \in Activations, NEW n \in Attempts, Follows(a, n) PROVE RowsForward
  <2>1. \A b \in Activations, m \in Attempts : ~(b = a /\ m = n + 1) => att'[b][m] = att[b][m]
    BY <1>3, RowTypes DEF AttInv, Follows, StepStatus
  <2> QED
    BY <1>3, <2>1 DEF Follows, RowsForward, TerminalSteps
<1>4. ASSUME CancelAttemptsStmt PROVE RowsForward
  <2>1. iter' = iter
    BY <1>4 DEF CancelAttemptsStmt
  <2>2. \A b \in Activations, m \in Attempts :
          att'[b][m] = IF att[b][m] \in LiveSteps THEN "cancelled" ELSE att[b][m]
    BY <1>4 DEF CancelAttemptsStmt
  <2> QED
    BY <2>1, <2>2 DEF RowsForward, LiveSteps, TerminalSteps
<1> QED
  BY AttStmtForms, <1>1, <1>2, <1>3, <1>4

-----------------------------------------------------------------------------
(***************************************************************************)
(* The run: launch columns, outcomes.                                      *)
(***************************************************************************)

LEMMA LaunchStep == ASSUME RunTypeOK, LaunchColumnsAgree, RunStmt PROVE LaunchColumnsAgree'
<1> USE GenAssumption DEF RunTypeOK, LaunchColumnsAgree, launchVars, cancelVars, ActiveRuns
<1>1. ASSUME NEW g \in 1 .. gen, ClaimLaunchStmt(g) PROVE LaunchColumnsAgree'
  BY <1>1 DEF ClaimLaunchStmt
<1>2. ASSUME NEW g \in 1 .. gen, AttachStmt(g, g) PROVE LaunchColumnsAgree'
  BY <1>2 DEF AttachStmt
<1>3. ASSUME NEW g \in 1 .. gen, NEW f \in Failures, LaunchFailureStmt(g, g, f)
      PROVE  LaunchColumnsAgree'
  BY <1>3 DEF LaunchFailureStmt
<1>4. ASSUME NEW g \in 1 .. gen, RetryRunStmt(g) PROVE LaunchColumnsAgree'
  BY <1>4 DEF RetryRunStmt
<1>5. ASSUME RunningStmt PROVE LaunchColumnsAgree'
  BY <1>5 DEF RunningStmt
<1>6. ASSUME NEW s \in Steps, CompleteRunStmt(s) PROVE LaunchColumnsAgree'
  BY <1>6 DEF CompleteRunStmt
<1>7. ASSUME NEW f \in Failures, GraphFailureStmt(f) \/ FailRunStmt(f) PROVE LaunchColumnsAgree'
  BY <1>7 DEF GraphFailureStmt, FailRunStmt
<1>8. ASSUME RequestCancellationStmt \/ CancelRunStmt PROVE LaunchColumnsAgree'
  BY <1>8 DEF RequestCancellationStmt, CancelRunStmt
<1>9. ASSUME NEW c \in CancellationResult \cup {"none"}, NEW r \in CancellationResult,
             CancellationResultStmt(c, r) PROVE LaunchColumnsAgree'
  BY <1>9 DEF CancellationResultStmt
<1>10. ASSUME NEW g \in 1 .. gen, WaitApprovalStmt(g) PROVE LaunchColumnsAgree'
  BY <1>10 DEF WaitApprovalStmt
<1>11. ASSUME ResumeApprovalStmt PROVE LaunchColumnsAgree'
  BY <1>11 DEF ResumeApprovalStmt
<1> HIDE DEF RunTypeOK, LaunchColumnsAgree, launchVars, cancelVars, ActiveRuns
<1> QED
  BY <1>1, <1>2, <1>3, <1>4, <1>5, <1>6, <1>7, <1>8, <1>9, <1>10, <1>11 DEF RunStmt, LaunchStmts

\* What a statement on the run does to the columns OutcomesAreBacked reads.
OutcomeMove ==
  /\ status' = "succeeded" =>
       status = "succeeded" \/ \E a \in Activations, n \in Attempts : att[a][n] = "succeeded"
  /\ status' \in {"cancelling", "cancelled"} => status \in {"cancelling", "cancelled"} \/ cancelReq'
  /\ cancelRes' # "none" => cancelRes # "none" \/ status = "cancelling"
  /\ cancelReq => cancelReq'

LEMMA OutcomeMoves == ASSUME RunTypeOK, RunStmt PROVE OutcomeMove
<1> USE DEF RunTypeOK, OutcomeMove, launchVars, cancelVars
<1>1. ASSUME LaunchStmts PROVE OutcomeMove
  BY <1>1 DEF LaunchStmts, ClaimLaunchStmt, AttachStmt, LaunchFailureStmt, RetryRunStmt
<1>2. ASSUME RunningStmt PROVE OutcomeMove
  BY <1>2 DEF RunningStmt
<1>3. ASSUME NEW s \in Steps, CompleteRunStmt(s) PROVE OutcomeMove
  BY <1>3 DEF CompleteRunStmt
<1>4. ASSUME NEW f \in Failures, GraphFailureStmt(f) \/ FailRunStmt(f) PROVE OutcomeMove
  BY <1>4 DEF GraphFailureStmt, FailRunStmt
<1>5. ASSUME RequestCancellationStmt \/ CancelRunStmt PROVE OutcomeMove
  BY <1>5 DEF RequestCancellationStmt, CancelRunStmt
<1>6. ASSUME NEW c \in CancellationResult \cup {"none"}, NEW r \in CancellationResult,
             CancellationResultStmt(c, r) PROVE OutcomeMove
  BY <1>6 DEF CancellationResultStmt
<1>7. ASSUME NEW g \in 1 .. gen, WaitApprovalStmt(g) PROVE OutcomeMove
  BY <1>7 DEF WaitApprovalStmt
<1>8. ASSUME ResumeApprovalStmt PROVE OutcomeMove
  BY <1>8 DEF ResumeApprovalStmt
<1> HIDE DEF RunTypeOK, OutcomeMove, launchVars, cancelVars
<1> QED
  BY <1>1, <1>2, <1>3, <1>4, <1>5, <1>6, <1>7, <1>8 DEF RunStmt

LEMMA GenerationMoves == ASSUME RunStmt PROVE gen' \in {gen, gen + 1}
<1>1. ASSUME LaunchStmts PROVE gen' \in {gen, gen + 1}
  BY <1>1 DEF LaunchStmts, ClaimLaunchStmt, AttachStmt, LaunchFailureStmt, RetryRunStmt
<1> QED
  BY <1>1 DEF RunStmt, RunningStmt, CompleteRunStmt, GraphFailureStmt, FailRunStmt,
       RequestCancellationStmt, CancelRunStmt, CancellationResultStmt, WaitApprovalStmt,
       ResumeApprovalStmt, launchVars

-----------------------------------------------------------------------------
(***************************************************************************)
(* The inductive invariant, and the theorems.                              *)
(***************************************************************************)

StoreInv == TypeOK /\ RetryHistory /\ Iterations /\ LaunchColumnsAgree /\ OutcomesAreBacked

LEMMA TypeSplits == TypeOK <=> RunTypeOK /\ AttTypeOK
BY DEF TypeOK, RunTypeOK, AttTypeOK, AttType

LEMMA StoreInit == Init => StoreInv
<1> SUFFICES ASSUME Init PROVE StoreInv
  OBVIOUS
<1>1. TypeOK
  BY TypeInit
<1>2. RetryHistory
  BY DEF Init, RetryHistory
<1>3. Iterations
  <2>1. \A a \in Activations : iter[a] = 0 /\ att[a][1] = "none"
    BY AttemptNumbers DEF Init
  <2>2. \A s \in Steps : Numbered(s, 0)
    BY <2>1 DEF Numbered
  <2> QED
    BY <2>1, <2>2 DEF Iterations
<1>4. LaunchColumnsAgree
  BY DEF Init, LaunchColumnsAgree
<1>5. OutcomesAreBacked
  BY DEF Init, OutcomesAreBacked
<1> QED
  BY <1>1, <1>2, <1>3, <1>4, <1>5 DEF StoreInv

LEMMA StoreStep == StoreInv /\ [Next]_storeVars => StoreInv'
<1> SUFFICES ASSUME StoreInv, [Next]_storeVars PROVE StoreInv'
  OBVIOUS
<1>0. AttInv /\ RunTypeOK
  BY TypeSplits DEF StoreInv, AttInv
<1>1. CASE AttStmt
  <2>1. AttInv'
    BY <1>0, <1>1, AttStep
  <2>2. UNCHANGED <<status, launch, gen, reserved, instance, cancelReq, cancelRes, failure>>
    BY <1>1, AttemptsKeepRun DEF runVars, launchVars, cancelVars
  <2>3. RunTypeOK' /\ LaunchColumnsAgree'
    BY <1>0, <2>2 DEF RunTypeOK, LaunchColumnsAgree, StoreInv
  <2>4. RowsForward
    BY <1>0, <1>1, RowsMoveForward
  <2>5. \A a \in Activations, n \in Attempts :
          att'[a][n] = "cancelled" =>
            att[a][n] = "cancelled" \/ status \in {"cancelling", "cancelled"}
    <3>1. ASSUME NEW a \in Activations, Inserts(a), NEW b \in Activations, NEW m \in Attempts,
                 att'[b][m] = "cancelled"
          PROVE  att[b][m] = "cancelled"
      BY <1>0, <3>1, RowTypes, AttemptNumbers DEF AttInv, Inserts, StepStatus
    <3>2. ASSUME NEW a \in Activations, NEW n \in Attempts, NEW v \in StepStatus, Forward(a, n, v),
                 NEW b \in Activations, NEW m \in Attempts, att'[b][m] = "cancelled"
          PROVE  att[b][m] = "cancelled"
      <4>1. v # "cancelled"
        BY <3>2 DEF Forward
      <4> QED
        BY <1>0, <3>2, <4>1, RowTypes DEF AttInv, Forward
    <3>3. ASSUME NEW a \in Activations, NEW n \in Attempts, Follows(a, n),
                 NEW b \in Activations, NEW m \in Attempts, att'[b][m] = "cancelled"
          PROVE  att[b][m] = "cancelled"
      BY <1>0, <3>3, RowTypes DEF AttInv, Follows, StepStatus
    <3>4. ASSUME CancelAttemptsStmt PROVE status \in {"cancelling", "cancelled"}
      BY <3>4 DEF CancelAttemptsStmt
    <3> QED
      BY <1>1, <3>1, <3>2, <3>3, <3>4, AttStmtForms
  <2>6. \A a \in Activations, n \in Attempts : att[a][n] = "succeeded" => att'[a][n] = "succeeded"
    BY <2>4 DEF RowsForward, TerminalSteps
  <2>7. OutcomesAreBacked'
    BY <2>2, <2>5, <2>6 DEF OutcomesAreBacked, StoreInv
  <2> QED
    BY <2>1, <2>3, <2>7, TypeSplits DEF StoreInv, AttInv, TypeOK, RunTypeOK, AttTypeOK, AttType
<1>2. CASE RunStmt /\ UNCHANGED attVars
  <2>1. iter' = iter /\ att' = att
    BY <1>2 DEF attVars
  <2>2. AttInv'
    BY <1>0, <2>1 DEF AttInv, AttTypeOK, RetryHistory, Iterations, Numbered
  <2>3. RunTypeOK' /\ LaunchColumnsAgree'
    BY <1>0, <1>2, RunTypes, LaunchStep DEF StoreInv
  <2>4. OutcomeMove
    BY <1>0, <1>2, OutcomeMoves
  <2>5. OutcomesAreBacked'
    BY <2>1, <2>4 DEF OutcomesAreBacked, OutcomeMove, StoreInv
  <2> QED
    BY <2>2, <2>3, <2>5, TypeSplits DEF StoreInv, AttInv, TypeOK, RunTypeOK, AttTypeOK, AttType
<1>3. CASE UNCHANGED storeVars
  <2>1. /\ iter' = iter /\ att' = att
        /\ UNCHANGED <<status, launch, gen, reserved, instance, cancelReq, cancelRes, failure>>
    BY <1>3 DEF storeVars, runVars, attVars, launchVars, cancelVars
  <2> QED
    BY <2>1 DEF StoreInv, TypeOK, RetryHistory, Iterations, Numbered, LaunchColumnsAgree,
         OutcomesAreBacked
<1> QED
  BY <1>1, <1>2, <1>3, NextSplits

\* The inductive invariant gives the property IterationsNumberVisits.
LEMMA IterationsSuffice == StoreInv => IterationsNumberVisits
<1> SUFFICES ASSUME StoreInv PROVE IterationsNumberVisits
  OBVIOUS
<1>1. ASSUME NEW a \in Activations, iter[a] > 1
      PROVE  \E b \in Activations : StepOf[b] = StepOf[a] /\ iter[b] = iter[a] - 1
  <2>1. StepOf[a] \in Steps /\ iter[a] \in Nat
    BY StepAssumption DEF StoreInv, TypeOK
  <2>2. PICK k \in Nat : Numbered(StepOf[a], k)
    BY <2>1 DEF StoreInv, Iterations
  <2>3. iter[a] - 1 \in 1 .. k
    BY <1>1, <2>1, <2>2 DEF Numbered
  <2> QED
    BY <2>2, <2>3 DEF Numbered
<1> QED
  BY <1>1 DEF StoreInv, Iterations, IterationsNumberVisits

\* A step from a state of the inductive invariant rewrites no history.
LEMMA HistoryStepHolds == StoreInv /\ [Next]_storeVars => HistoryStep
<1> SUFFICES ASSUME StoreInv, [Next]_storeVars PROVE HistoryStep
  OBVIOUS
<1>0. AttInv /\ RunTypeOK
  BY TypeSplits DEF StoreInv, AttInv
<1>1. CASE AttStmt
  <2>1. RowsForward
    BY <1>0, <1>1, RowsMoveForward
  <2>2. cancelReq' = cancelReq /\ gen' = gen
    BY <1>1, AttemptsKeepRun DEF runVars, launchVars, cancelVars
  <2> QED
    BY <2>1, <2>2 DEF HistoryStep, RowsForward
<1>2. CASE RunStmt /\ UNCHANGED attVars
  <2>1. iter' = iter /\ att' = att
    BY <1>2 DEF attVars
  <2>2. (cancelReq => cancelReq') /\ gen' \in {gen, gen + 1}
    BY <1>0, <1>2, OutcomeMoves, GenerationMoves DEF OutcomeMove
  <2> QED
    BY <2>1, <2>2 DEF HistoryStep
<1>3. CASE UNCHANGED storeVars
  BY <1>3 DEF storeVars, runVars, attVars, launchVars, cancelVars, HistoryStep
<1> QED
  BY <1>1, <1>2, <1>3, NextSplits

\* No statement reopens a settled run, in whatever state the store is.
LEMMA SettledStepHolds == [Next]_storeVars => SettledStep
<1> SUFFICES ASSUME [Next]_storeVars PROVE SettledStep
  OBVIOUS
<1>1. CASE AttStmt
  BY <1>1, AttemptsKeepRun DEF SettledStep, runVars, launchVars
<1>2. CASE RunStmt
  <2>1. ASSUME LaunchStmts PROVE SettledStep
    BY <2>1 DEF LaunchStmts, ClaimLaunchStmt, AttachStmt, LaunchFailureStmt, RetryRunStmt, SettledStep
  <2> QED
    BY <1>2, <2>1 DEF RunStmt, RunningStmt, CompleteRunStmt, GraphFailureStmt, FailRunStmt,
         RequestCancellationStmt, CancelRunStmt, CancellationResultStmt, WaitApprovalStmt,
         ResumeApprovalStmt, launchVars, ActiveRuns, SettledStep
<1>3. CASE UNCHANGED storeVars
  BY <1>3 DEF storeVars, runVars, launchVars, SettledStep
<1> QED
  BY <1>1, <1>2, <1>3, NextSplits

\* The inductive invariant holds of the store, whatever its callers do.
THEOREM StoreInvariant == Spec => []StoreInv
BY StoreInit, StoreStep, PTL DEF Spec

\* The columns of a run and of its attempts keep within their types.
THEOREM StoreTypes == Spec => []TypeOK
<1>1. StoreInv => TypeOK
  BY DEF StoreInv
<1> QED
  BY <1>1, StoreInvariant, PTL

\* Attempts of an activation form a history (createAutomaticRetryAttempt,
\* prepareManualRetry, claimGraphNode, completeStep, failStep, cancelRun): at most
\* the latest attempt is anything but failed.
THEOREM AttemptsAreAHistory == Spec => []RetryHistory
<1>1. StoreInv => RetryHistory
  BY DEF StoreInv
<1> QED
  BY <1>1, StoreInvariant, PTL

\* ensureGraphActivation numbers the visits of a node 1, 2, 3, ...
THEOREM VisitsAreNumbered == Spec => []IterationsNumberVisits
BY IterationsSuffice, StoreInvariant, PTL

\* The launch columns agree with each other, with the generation and with the
\* status (claimWorkflowLaunch, attachWorkflowInstance,
\* recordWorkflowLaunchFailure, prepareManualRetry).
THEOREM LaunchAgrees == Spec => []LaunchColumnsAgree
<1>1. StoreInv => LaunchColumnsAgree
  BY DEF StoreInv
<1> QED
  BY <1>1, StoreInvariant, PTL

\* No success without a recorded output (completeRun), nothing cancelled that
\* nobody asked to cancel (requestCancellation, recordCancellationResult, cancelRun).
THEOREM OutcomesHaveBacking == Spec => []OutcomesAreBacked
<1>1. StoreInv => OutcomesAreBacked
  BY DEF StoreInv
<1> QED
  BY <1>1, StoreInvariant, PTL

\* No statement of D1WorkflowRunStorage rewrites what has been recorded.
THEOREM NoRewriting == Spec => HistoryKept
<1>1. StoreInv /\ [Next]_storeVars => [HistoryStep]_storeVars
  BY HistoryStepHolds
<1> QED
  BY <1>1, StoreInvariant, PTL DEF Spec, HistoryKept

\* A succeeded or cancelled run that is not being launched is never reopened.
THEOREM SettledRunsStay == Spec => SettledStays
<1>1. [Next]_storeVars => [SettledStep]_storeVars
  BY SettledStepHolds
<1> QED
  BY <1>1, PTL DEF Spec, SettledStays

=============================================================================
