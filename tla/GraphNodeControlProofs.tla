----------------------- MODULE GraphNodeControlProofs -----------------------
(***************************************************************************)
(* The control of node turns: where a turn may be, what it knows there,    *)
(* and which claim it holds.  The lemmas take the rows of the store as     *)
(* only moving forward (RowsKept), which GraphNodeTurnProofs shows of      *)
(* every step.                                                             *)
(***************************************************************************)
EXTENDS GraphNodeTurn, TLAPS

-----------------------------------------------------------------------------
(***************************************************************************)
(* What is known of a turn, for the rows A of the attempts.                *)
(***************************************************************************)

HasRow(A, a) == \E n \in Attempts : A[a][n] # "none"
Failed(A, a) == \E n \in Attempts : A[a][n] = "failed"
Succeeded(A, a) == \E n \in Attempts : A[a][n] = "succeeded"

Results == CancellationResult \cup {"none"}
Locals == [gen : Nat, mode : {"none", "cancel", "failed", "live", "own"}, claim : 0 .. ManualLimit,
           then : {"none", "idle", "defer", "finish"}, retry : BOOLEAN,
           orig : Failures \cup {NoFailure}, tasks : SUBSET AllAttempts, out : Results, cur : Results]

\* The labels at which a turn holds a claim it has not spent, those at which it has
\* not read the attempts, and the others.
Holding == {"claim2", "claimed", "recheck", "start"}
Unread == {"idle", "readRun", "readAttempts", "expire"}
Labels == Holding \cup Unread \cup
          {"claim", "persist", "stop", "poll", "check", "progress", "complete", "failStep", "defer",
           "autoRetry", "finish", "failRun", "cancelTasks", "record", "recordCas", "cancel1", "cancel2"}

LocalsOK(l, A) ==
  /\ l \in Locals
  /\ l.orig \in Activations => Failed(A, l.orig)
  /\ l.mode = "failed" \/ l.then = "finish" => l.orig \in Failures

TurnOK(p, a, n, l, A) ==
  /\ p \in Labels /\ n \in 0 .. ManualLimit /\ LocalsOK(l, A)
  /\ p # "idle" => a \in Activations /\ HasRow(A, a)
  /\ p \notin Unread => n \in Attempts
  /\ p \in Holding => l.claim \in Attempts /\ A[a][l.claim] \notin {"none", "pending"}
  /\ p = "defer" => Failed(A, a)
  /\ p \in {"finish", "failRun"} => l.orig \in Failures
  /\ p \in {"record", "recordCas"} => l.out \in CancellationResult
  /\ p = "failStep" => l.then # "none"
  /\ p \in {"idle", "readRun"} => l.then = "none"

TurnsOK ==
  /\ DOMAIN pc = Turns /\ DOMAIN act = Turns /\ DOMAIN num = Turns /\ DOMAIN loc = Turns
  /\ \A t \in Turns : TurnOK(pc[t], act[t], num[t], loc[t], att)

\* A claim is spent once: what is held has not been spent, and by one turn only.
ClaimsOK ==
  /\ DOMAIN starts = Activations
  /\ \A x \in spent : x \in AllAttempts /\ att[x[1]][x[2]] \notin {"none", "pending"}
  /\ \A t \in Turns : pc[t] \in Holding => <<act[t], loc[t].claim>> \notin spent
  /\ \A t, u \in Turns : t # u /\ pc[t] \in Holding /\ pc[u] \in Holding =>
       <<act[t], loc[t].claim>> # <<act[u], loc[u].claim>>

\* The orchestrator admits what may be admitted; the retry route has read its row.
EnvOK ==
  /\ returned \subseteq Activations /\ \A a \in returned : Succeeded(att, a)
  /\ outer.pc = "insert" => outer.a \in Activations /\ \A d \in Deps[outer.a] : Succeeded(att, d)
  /\ retrier \in [pc : {"idle", "insert", "update"}, a : Activations \cup {"none"},
                  n : 0 .. ManualLimit, g : Nat]
  /\ retrier.pc = "insert" => retrier.a \in Activations /\ retrier.n \in Attempts

\* What LastAttempt reads is a row.
LatestOK ==
  \A a \in Activations : HasRow(att, a) =>
    LastAttempt(a) \in Attempts /\ att[a][LastAttempt(a)] # "none"

\* The invariant of the control, beside what it needs of the store.
ControlInv == TypeOK /\ FailureIsBacked /\ LatestOK /\ TurnsOK /\ ClaimsOK /\ EnvOK

\* The locals of an idle turn.
LEMMA NoLocalsOK ==
  NoLocals \in Locals /\ NoLocals.orig = NoFailure /\ NoLocals.mode = "none" /\ NoLocals.then = "none"
  BY LimitAssumption DEF Locals, NoLocals, Results

\* What is known of a row stays known.
RowsKept ==
  /\ \A a \in Activations : HasRow(att, a) => HasRow(att', a)
  /\ \A a \in Activations : Failed(att, a) => Failed(att', a)
  /\ \A a \in Activations : Succeeded(att, a) => Succeeded(att', a)
  /\ \A a \in Activations, n \in Attempts :
       att[a][n] \notin {"none", "pending"} => att'[a][n] \notin {"none", "pending"}

LEMMA BusyTurn ==
  ASSUME ControlInv, NEW t \in Turns, pc[t] # "idle"
  PROVE  /\ act[t] \in Activations /\ TurnOK(pc[t], act[t], num[t], loc[t], att)
         /\ LastAttempt(act[t]) \in Attempts /\ LastAttempt(act[t]) \in 0 .. ManualLimit
         /\ att[act[t]][LastAttempt(act[t])] # "none"
<1>1. TurnOK(pc[t], act[t], num[t], loc[t], att)
  BY DEF ControlInv, TurnsOK
<1>2. act[t] \in Activations /\ HasRow(att, act[t])
  BY <1>1 DEF TurnOK
<1>3. LastAttempt(act[t]) \in Attempts /\ att[act[t]][LastAttempt(act[t])] # "none"
  BY <1>2 DEF ControlInv, LatestOK
<1> QED
  BY <1>1, <1>2, <1>3, LimitAssumption DEF Attempts

LEMMA TurnStays ==
  ASSUME RowsKept, NEW p, NEW a, NEW n, NEW l, TurnOK(p, a, n, l, att)
  PROVE  TurnOK(p, a, n, l, att')
<1>1. LocalsOK(l, att')
  BY DEF TurnOK, LocalsOK, RowsKept
<1> QED
  BY <1>1 DEF TurnOK, RowsKept, Holding

-----------------------------------------------------------------------------
(***************************************************************************)
(* The control of one turn.                                                *)
(***************************************************************************)

\* Turn t has moved to a valid place, without a claim it did not hold before; the
\* others are where they were.
Advances(t) ==
  /\ DOMAIN pc' = Turns /\ DOMAIN act' = Turns /\ DOMAIN num' = Turns /\ DOMAIN loc' = Turns
  /\ \A u \in Turns \ {t} :
       pc'[u] = pc[u] /\ act'[u] = act[u] /\ num'[u] = num[u] /\ loc'[u] = loc[u]
  /\ TurnOK(pc'[t], act'[t], num'[t], loc'[t], att')
  /\ pc'[t] \in Holding =>
       pc[t] \in Holding /\ act'[t] = act[t] /\ loc'[t].claim = loc[t].claim

LEMMA Returns == ASSUME ControlInv, NEW t \in Turns, Return(t) PROVE Advances(t)
<1>1. TurnOK("idle", "none", 0, NoLocals, att')
  BY NoLocalsOK, LimitAssumption, FailureAssumption, TurnAssumption
     DEF TurnOK, LocalsOK, Labels, Unread, Holding
<1> QED
  BY <1>1 DEF Return, Advances, ControlInv, TurnsOK, Holding

LEMMA Goes ==
  ASSUME ControlInv, NEW t \in Turns, NEW label, Goto(t, label),
         TurnOK(label, act[t], num[t], loc[t], att'), label \in Holding => pc[t] \in Holding
  PROVE  Advances(t)
  BY DEF Goto, Advances, ControlInv, TurnsOK

LEMMA GoesWith ==
  ASSUME ControlInv, NEW t \in Turns, NEW label, NEW n, NEW l, GotoWith(t, label, n, l),
         TurnOK(label, act[t], n, l, att'),
         label \in Holding => pc[t] \in Holding /\ l.claim = loc[t].claim
  PROVE  Advances(t)
  BY DEF GotoWith, Advances, ControlInv, TurnsOK

\* What a busy turn knows stays true in the next state.
LEMMA BusyNext ==
  ASSUME ControlInv, RowsKept, NEW t \in Turns, pc[t] # "idle"
  PROVE  /\ act[t] \in Activations /\ HasRow(att', act[t]) /\ LocalsOK(loc[t], att')
         /\ loc[t] \in Locals /\ num[t] \in 0 .. ManualLimit
         /\ TurnOK(pc[t], act[t], num[t], loc[t], att')
<1>1. TurnOK(pc[t], act[t], num[t], loc[t], att')
  BY BusyTurn, TurnStays
<1> QED
  BY <1>1 DEF TurnOK, LocalsOK

LEMMA AttemptRange == \A n \in Attempts : n \in 0 .. ManualLimit
  BY LimitAssumption DEF Attempts

LEMMA FailsThen ==
  ASSUME ControlInv, RowsKept, NEW t \in Turns, pc[t] # "idle", NEW n \in Attempts, NEW l,
         LocalsOK(l, att'), NEW retry \in BOOLEAN, NEW label \in {"idle", "defer", "finish"},
         label = "finish" => l.mode = "failed", FailThen(t, n, l, retry, label)
  PROVE  Advances(t)
<1> DEFINE r == [l EXCEPT !.then = label, !.retry = retry]
<1>1. r \in Locals /\ r.then = label /\ r.orig = l.orig /\ r.mode = l.mode
  <2>1. l \in Locals /\ label \in {"none", "idle", "defer", "finish"}
    BY DEF LocalsOK
  <2> QED
    BY <2>1, Zenon DEF Locals
<1> HIDE DEF r
<1>2. LocalsOK(r, att')
  BY <1>1 DEF LocalsOK
<1>3. TurnOK("failStep", act[t], n, r, att') /\ "failStep" \notin Holding
  BY <1>1, <1>2, BusyNext, AttemptRange DEF TurnOK, Labels, Unread, Holding
<1>4. GotoWith(t, "failStep", n, r)
  BY DEF FailThen, r
<1> QED
  BY <1>3, <1>4, GoesWith

LEMMA Fails ==
  ASSUME ControlInv, RowsKept, NEW t \in Turns, pc[t] # "idle", NEW n \in Attempts,
         NEW retry \in BOOLEAN, Failing(t, n, retry)
  PROVE  Advances(t)
<1>1. LocalsOK(loc[t], att')
  BY BusyNext
<1>2. CASE loc[t].mode = "failed"
  BY <1>1, <1>2, FailsThen, Zenon DEF Failing
<1>3. CASE loc[t].mode # "failed" /\ retry
  BY <1>1, <1>3, FailsThen, Zenon DEF Failing
<1>4. CASE loc[t].mode # "failed" /\ ~retry
  BY <1>1, <1>4, FailsThen DEF Failing
<1> QED
  BY <1>2, <1>3, <1>4

\* A turn goes to a place where it knows no more than its attempt.
Plain == {"claim", "persist", "poll", "check", "progress", "complete", "stop", "autoRetry",
          "cancelTasks", "cancel1", "cancel2"}

LEMMA PlainOK ==
  ASSUME ControlInv, RowsKept, NEW t \in Turns, pc[t] # "idle", NEW n \in Attempts, NEW l,
         LocalsOK(l, att'), NEW label \in Plain
  PROVE  TurnOK(label, act[t], n, l, att') /\ label \notin Holding
  BY BusyNext, AttemptRange DEF TurnOK, Plain, Labels, Unread, Holding

\* What a turn has answered `completed' for has succeeded.
ReturnedOK(R, A) == R \subseteq Activations /\ \A a \in R : Succeeded(A, a)

LEMMA Dispatches ==
  ASSUME ControlInv, RowsKept, att' = att, NEW t \in Turns, pc[t] # "idle", NEW n \in Attempts,
         NEW owns \in BOOLEAN, owns => pc[t] \in Holding, Dispatch(t, n, owns)
  PROVE  Advances(t) /\ ReturnedOK(returned', att')
<1> DEFINE a == act[t]
           st == att[a][n]
           here == [loc[t] EXCEPT !.mode = IF owns THEN "own" ELSE "live"]
<1>1. /\ a \in Activations /\ HasRow(att', a) /\ loc[t] \in Locals /\ LocalsOK(loc[t], att')
      /\ TurnOK(pc[t], a, num[t], loc[t], att') /\ n \in 0 .. ManualLimit
  BY BusyNext, AttemptRange
<1>2. here \in Locals /\ here.then = loc[t].then /\ here.orig = loc[t].orig /\ here.mode # "failed"
      /\ here.claim = loc[t].claim
  <2>1. (IF owns THEN "own" ELSE "live") \in {"own", "live"}
    OBVIOUS
  <2> QED
    BY <1>1, <2>1 DEF Locals
<1> HIDE DEF here
<1>3. LocalsOK(here, att')
  BY <1>1, <1>2 DEF LocalsOK
<1>4. ReturnedOK(returned', att')
  BY <1>1 DEF Dispatch, ReturnedOK, ControlInv, EnvOK, Succeeded
<1>5. Advances(t)
  <2>1. CASE Return(t)
    BY <2>1, Returns
  <2>2. CASE GotoWith(t, "claim", n, here) \/ GotoWith(t, "poll", n, here)
    BY <1>3, <2>2, PlainOK, GoesWith DEF Plain
  <2>3. CASE owns /\ GotoWith(t, "recheck", n, here)
    <3>1. /\ loc[t].claim \in Attempts /\ att'[a][loc[t].claim] \notin {"none", "pending"}
          /\ pc[t] \in Holding
      BY <1>1, <2>3 DEF TurnOK
    <3>2. TurnOK("recheck", a, n, here, att')
      BY <1>1, <1>2, <1>3, <3>1 DEF TurnOK, Labels, Holding, Unread
    <3> QED
      BY <1>2, <2>3, <3>1, <3>2, GoesWith
  <2>4. CASE FailThen(t, n, here, FALSE, "defer")
    BY <1>3, <2>4, FailsThen, Zenon
  <2>5. CASE GotoWith(t, "autoRetry", n, here)
    BY <1>3, <2>5, PlainOK, GoesWith DEF Plain
  <2>6. CASE st = "failed" /\ GotoWith(t, "defer", n, here)
    <3>1. Failed(att', a)
      BY <2>6 DEF Failed
    <3>2. TurnOK("defer", a, n, here, att') /\ "defer" \notin Holding
      BY <1>1, <1>3, <3>1 DEF TurnOK, Labels, Holding, Unread
    <3> QED
      BY <2>6, <3>2, GoesWith
  <2> QED
    BY <2>1, <2>2, <2>3, <2>4, <2>5, <2>6, Zenon DEF Dispatch, here
<1> QED
  BY <1>4, <1>5

LEMMA Reconciles ==
  ASSUME ControlInv, RowsKept, NEW t \in Turns, pc[t] # "idle", NEW n \in Attempts, NEW f \in Failures,
         f \in Activations => Failed(att, f), Reconcile(t, n, f)
  PROVE  Advances(t)
<1> DEFINE here == [loc[t] EXCEPT !.mode = "failed", !.orig = f]
<1>1. /\ act[t] \in Activations /\ HasRow(att', act[t]) /\ loc[t] \in Locals /\ LocalsOK(loc[t], att')
      /\ n \in 0 .. ManualLimit
  BY BusyNext, AttemptRange
<1>2. here \in Locals /\ here.then = loc[t].then /\ here.orig = f /\ here.mode = "failed"
  BY <1>1, Zenon DEF Locals
<1> HIDE DEF here
<1>3. LocalsOK(here, att')
  BY <1>1, <1>2 DEF LocalsOK, RowsKept
<1>4. CASE Return(t)
  BY <1>4, Returns
<1>5. CASE FailThen(t, n, here, FALSE, "finish")
  BY <1>2, <1>3, <1>5, FailsThen, Zenon
<1>6. CASE GotoWith(t, "stop", n, here)
  BY <1>3, <1>6, PlainOK, GoesWith DEF Plain
<1>7. CASE GotoWith(t, "finish", n, here)
  <2>1. TurnOK("finish", act[t], n, here, att') /\ "finish" \notin Holding
    BY <1>1, <1>2, <1>3 DEF TurnOK, Labels, Holding, Unread
  <2> QED
    BY <1>7, <2>1, GoesWith
<1> QED
  BY <1>4, <1>5, <1>6, <1>7, Zenon DEF Reconcile, here
\* An attempt is claimed by this turn.
Claims(t) ==
  /\ pc[t] = "claim" /\ ClaimAttemptStmt(act[t], LastAttempt(act[t]))
  /\ GotoWith(t, "claim2", LastAttempt(act[t]), [loc[t] EXCEPT !.claim = LastAttempt(act[t])])

\* The turn has its attempt and goes where it needs to know no more.
LEMMA GoesPlain ==
  ASSUME ControlInv, RowsKept, NEW t \in Turns, pc[t] # "idle", num[t] \in Attempts,
         NEW label \in Plain, Goto(t, label)
  PROVE  Advances(t)
  BY BusyNext, PlainOK, Goes

LEMMA GoesPlainWith ==
  ASSUME ControlInv, RowsKept, NEW t \in Turns, pc[t] # "idle", NEW n \in Attempts,
         NEW label \in Plain, NEW l, LocalsOK(l, att'), GotoWith(t, label, n, l)
  PROVE  Advances(t)
  BY PlainOK, GoesWith

LEMMA ReadRunAdvances ==
  ASSUME ControlInv, RowsKept, NEW t \in Turns, ReadRun(t)
  PROVE  Advances(t)
<1>1. pc[t] = "readRun" /\ pc[t] # "idle"
  BY DEF ReadRun
<1>2. /\ act[t] \in Activations /\ HasRow(att', act[t]) /\ loc[t] \in Locals
      /\ TurnOK(pc[t], act[t], num[t], loc[t], att') /\ 0 \in 0 .. ManualLimit
  BY <1>1, BusyNext, LimitAssumption
<1>3. CASE Return(t)
  BY <1>3, Returns
<1>4. CASE Goto(t, "expire")
  <2>1. TurnOK("expire", act[t], num[t], loc[t], att') /\ "expire" \notin Holding
    BY <1>2 DEF TurnOK, Labels, Unread, Holding
  <2> QED
    BY <1>4, <2>1, Goes
<1> DEFINE m == IF status = "cancelling" \/ cancelReq THEN "cancel"
                ELSE IF failure # NoFailure THEN "failed" ELSE "live"
           here == [loc[t] EXCEPT !.orig = failure, !.mode = m]
<1>5. CASE GotoWith(t, "readAttempts", 0, here)
  <2>1. /\ failure \in Failures \cup {NoFailure}
        /\ failure \in Activations => Failed(att', failure)
    BY DEF ControlInv, TypeOK, FailureIsBacked, Failed, RowsKept
  <2>2. m \in {"cancel", "failed", "live"} /\ (m = "failed" => failure # NoFailure)
    OBVIOUS
  <2> HIDE DEF m
  <2>3. here \in Locals /\ here.orig = failure /\ here.mode = m /\ here.then = loc[t].then
    BY <1>2, <2>1, <2>2, Zenon DEF Locals
  <2> HIDE DEF here
  <2>4. loc[t].then = "none"
    BY <1>1, <1>2 DEF TurnOK
  <2>5. LocalsOK(here, att')
    BY <2>1, <2>2, <2>3, <2>4 DEF LocalsOK
  <2>6. TurnOK("readAttempts", act[t], 0, here, att') /\ "readAttempts" \notin Holding
    BY <1>2, <2>5 DEF TurnOK, Labels, Unread, Holding
  <2> QED
    BY <1>5, <2>6, GoesWith
<1> QED
  BY <1>3, <1>4, <1>5 DEF ReadRun

LEMMA ReadAttemptsAdvances ==
  ASSUME ControlInv, RowsKept, NEW t \in Turns, ReadAttempts(t)
  PROVE  Advances(t) /\ ReturnedOK(returned', att')
<1> DEFINE n == LastAttempt(act[t])
           here == [loc[t] EXCEPT !.tasks = {x \in AllAttempts : att[x[1]][x[2]] = "waiting_provider"}]
<1>1. pc[t] # "idle" /\ att' = att
  BY DEF ReadAttempts, storeVars, attVars
<1>2. /\ loc[t] \in Locals /\ LocalsOK(loc[t], att') /\ n \in Attempts
      /\ TurnOK(pc[t], act[t], num[t], loc[t], att')
  BY <1>1, BusyNext, BusyTurn
<1>3. ReturnedOK(returned, att')
  BY DEF ControlInv, EnvOK, RowsKept, ReturnedOK
<1>4. CASE GotoWith(t, "cancelTasks", n, here) /\ returned' = returned
  <2>1. here \in Locals /\ here.orig = loc[t].orig /\ here.mode = loc[t].mode /\ here.then = loc[t].then
    BY <1>2 DEF Locals
  <2> HIDE DEF here
  <2>2. LocalsOK(here, att')
    BY <1>2, <2>1 DEF LocalsOK
  <2>3. Advances(t)
    BY <1>1, <1>2, <1>4, <2>2, GoesPlainWith DEF Plain
  <2> QED
    BY <1>3, <1>4, <2>3
<1>5. CASE loc[t].mode = "failed" /\ Reconcile(t, n, loc[t].orig)
  <2>1. loc[t].orig \in Failures /\ (loc[t].orig \in Activations => Failed(att, loc[t].orig))
    BY <1>1, <1>2, <1>5 DEF LocalsOK
  <2>2. Advances(t)
    BY <1>1, <1>2, <1>5, <2>1, Reconciles
  <2> QED
    BY <1>3, <1>5, <2>2 DEF Reconcile
<1>6. CASE Dispatch(t, n, FALSE)
  BY <1>1, <1>2, <1>6, Dispatches, Zenon
<1> QED
  BY <1>4, <1>5, <1>6, Zenon DEF ReadAttempts
LEMMA ClaimAdvances ==
  ASSUME ControlInv, RowsKept, NEW t \in Turns, Claim(t), ~Claims(t)
  PROVE  Advances(t) /\ ReturnedOK(returned', att')
<1> DEFINE n == LastAttempt(act[t])
<1>1. pc[t] # "idle" /\ att' = att /\ n \in Attempts
  <2>1. pc[t] # "idle" /\ UNCHANGED storeVars
    BY Zenon DEF Claim, Claims
  <2> QED
    BY <2>1, BusyTurn DEF storeVars, attVars
<1>2. ReturnedOK(returned, att')
  BY DEF ControlInv, EnvOK, RowsKept, ReturnedOK
<1>3. CASE Dispatch(t, n, FALSE)
  BY <1>1, <1>3, Dispatches, Zenon
<1>4. CASE failure # NoFailure /\ Reconcile(t, n, failure)
  <2>1. failure \in Failures /\ (failure \in Activations => Failed(att, failure))
    BY <1>4 DEF ControlInv, TypeOK, FailureIsBacked, Failed
  <2>2. Advances(t)
    BY <1>1, <1>4, <2>1, Reconciles
  <2> QED
    BY <1>2, <1>4, <2>2 DEF Reconcile
<1>5. CASE Return(t) /\ returned' = returned
  BY <1>2, <1>5, Returns
<1> QED
  BY <1>3, <1>4, <1>5, Zenon DEF Claim, Claims

LEMMA HeldAdvances ==
  ASSUME ControlInv, RowsKept, NEW t \in Turns, Claim2(t) \/ Claimed(t) \/ Recheck(t)
  PROVE  Advances(t) /\ ReturnedOK(returned', att')
<1>1. pc[t] \in Holding /\ pc[t] # "idle"
  BY Zenon DEF Claim2, Claimed, Recheck, Holding
<1>2. TurnOK(pc[t], act[t], num[t], loc[t], att') /\ num[t] \in Attempts
  BY <1>1, BusyNext DEF TurnOK, Holding, Unread
<1>3. ASSUME NEW label \in {"claimed", "start"}, Goto(t, label) PROVE Advances(t)
  <2>1. TurnOK(label, act[t], num[t], loc[t], att')
    BY <1>1, <1>2 DEF TurnOK, Holding, Unread, Labels
  <2> QED
    BY <1>1, <1>3, <2>1, Goes
<1>4. ReturnedOK(returned, att')
  BY DEF ControlInv, EnvOK, RowsKept, ReturnedOK
<1>5. CASE Claim2(t)
  BY <1>3, <1>4, <1>5 DEF Claim2
<1>6. CASE Claimed(t)
  <2>1. LastAttempt(act[t]) \in Attempts /\ Dispatch(t, LastAttempt(act[t]), TRUE) /\ att' = att
    BY <1>1, <1>6, BusyTurn, Zenon DEF Claimed, storeVars, attVars
  <2> QED
    BY <1>1, <2>1, Dispatches, Zenon
<1>7. CASE Recheck(t)
  <2>1. Return(t) \/ Goto(t, "start") \/ Failing(t, num[t], FALSE)
    BY <1>7, Zenon DEF Recheck
  <2>2. Advances(t)
    BY <1>1, <1>2, <1>3, <2>1, Returns, Fails, Zenon
  <2> QED
    BY <1>4, <1>7, <2>2 DEF Recheck
<1> QED
  BY <1>5, <1>6, <1>7

\* The provider's answers and the progress of its work.
LEMMA ProviderAdvances ==
  ASSUME ControlInv, RowsKept, NEW t \in Turns,
         Start(t) \/ Persist(t) \/ Stop(t) \/ Poll(t) \/ Check(t) \/ Progress(t)
  PROVE  Advances(t) /\ ReturnedOK(returned', att')
<1> DEFINE n == num[t]
           m == LastAttempt(act[t])
<1>1. pc[t] # "idle" /\ pc[t] \notin Unread /\ returned' = returned
  BY Zenon DEF Start, Persist, Stop, Poll, Check, Progress, Unread
<1>2. n \in Attempts /\ m \in Attempts /\ LocalsOK(loc[t], att')
  BY <1>1, BusyNext, BusyTurn, Zenon DEF TurnOK
<1>3. \/ Return(t) \/ Goto(t, "persist") \/ Goto(t, "complete") \/ Goto(t, "poll") \/ Goto(t, "check")
      \/ \E k \in {n, m} :
           \/ GotoWith(t, "progress", k, loc[t]) \/ GotoWith(t, "complete", k, loc[t])
           \/ \E r \in BOOLEAN : Failing(t, k, r)
  <2>1. CASE Start(t)
    BY <2>1, Zenon DEF Start
  <2>2. CASE Persist(t) \/ Progress(t)
    BY <2>2, Zenon DEF Persist, Progress
  <2>3. CASE Stop(t)
    BY <2>3, Zenon DEF Stop
  <2>4. CASE Poll(t)
    BY <2>4, Zenon DEF Poll
  <2>5. CASE Check(t)
    BY <2>5, Zenon DEF Check
  <2> QED
    BY <2>1, <2>2, <2>3, <2>4, <2>5, Zenon
<1>4. \A r \in BOOLEAN, k \in {n, m} : Failing(t, k, r) => Advances(t)
  BY <1>1, <1>2, Fails, Zenon
<1>5. \A k \in {n, m}, label \in Plain : GotoWith(t, label, k, loc[t]) => Advances(t)
  BY <1>1, <1>2, GoesPlainWith
<1>6. \A label \in Plain : Goto(t, label) => Advances(t)
  BY <1>1, <1>2, GoesPlain
<1>7. {"persist", "complete", "poll", "check", "progress"} \subseteq Plain
  BY DEF Plain
<1>8. Advances(t)
  BY <1>3, <1>4, <1>5, <1>6, <1>7, Returns
<1> QED
  BY <1>1, <1>8 DEF ControlInv, EnvOK, RowsKept, ReturnedOK
\* Storing the outcome of an attempt.
LEMMA CompleteAdvances ==
  ASSUME ControlInv, RowsKept, NEW t \in Turns, Complete(t)
  PROVE  Advances(t) /\ ReturnedOK(returned', att')
<1> DEFINE a == act[t]
           n == num[t]
<1>1. pc[t] # "idle" /\ pc[t] \notin Unread
  BY DEF Complete, Unread
<1>2. n \in Attempts /\ LocalsOK(loc[t], att') /\ a \in Activations /\ HasRow(att', a)
  BY <1>1, BusyNext DEF TurnOK
<1>3. ReturnedOK(returned, att')
  BY DEF ControlInv, EnvOK, RowsKept, ReturnedOK
<1>4. CASE Failing(t, n, FALSE) /\ UNCHANGED returned
  BY <1>1, <1>2, <1>3, <1>4, Fails, Zenon
<1>5. CASE loc[t].mode = "failed" /\ Goto(t, "finish") /\ returned' = returned
  <2>1. TurnOK("finish", a, n, loc[t], att') /\ "finish" \notin Holding
    BY <1>2, <1>5, AttemptRange DEF TurnOK, LocalsOK, Labels, Holding, Unread
  <2> QED
    BY <1>3, <1>5, <2>1, Goes
<1>6. CASE /\ CompleteStepStmt(a, n) \/ (att[a][n] = "succeeded" /\ UNCHANGED storeVars)
           /\ Return(t) /\ returned' = returned \cup {a}
  <2>1. att'[a][n] = "succeeded"
    <3>1. CASE CompleteStepStmt(a, n)
      BY <1>2, <3>1 DEF CompleteStepStmt, ControlInv, TypeOK
    <3> QED
      BY <1>6, <3>1 DEF storeVars, attVars
  <2>2. Succeeded(att', a)
    BY <1>2, <2>1 DEF Succeeded
  <2> QED
    BY <1>2, <1>3, <1>6, <2>2, Returns DEF ReturnedOK
<1> QED
  BY <1>4, <1>5, <1>6, Zenon DEF Complete

LEMMA FailStepAdvances ==
  ASSUME ControlInv, RowsKept, NEW t \in Turns, FailStep(t)
  PROVE  Advances(t)
<1> DEFINE a == act[t]
           n == num[t]
<1>1. pc[t] = "failStep" /\ pc[t] # "idle"
  BY DEF FailStep
<1>2. /\ n \in Attempts /\ LocalsOK(loc[t], att') /\ a \in Activations /\ HasRow(att', a)
      /\ loc[t].then \in {"idle", "defer", "finish"}
  BY <1>1, BusyNext DEF TurnOK, Unread, Locals
<1>3. CASE Return(t)
  BY <1>3, Returns
<1>4. CASE /\ FailStepStmt(a, n) \/ (att[a][n] = "failed" /\ UNCHANGED storeVars)
           /\ loc[t].then # "idle" /\ Goto(t, loc[t].then)
  <2>1. att'[a][n] = "failed"
    <3>1. CASE FailStepStmt(a, n)
      BY <1>2, <3>1 DEF FailStepStmt, ControlInv, TypeOK
    <3> QED
      BY <1>4, <3>1 DEF storeVars, attVars
  <2>2. Failed(att', a)
    BY <1>2, <2>1 DEF Failed
  <2>3. TurnOK(loc[t].then, a, n, loc[t], att') /\ loc[t].then \notin Holding
    BY <1>2, <1>4, <2>2, AttemptRange, Zenon DEF TurnOK, LocalsOK, Labels, Holding, Unread
  <2> QED
    BY <1>4, <2>3, Goes
<1> QED
  BY <1>3, <1>4 DEF FailStep

\* Recording the failure of the run, and ending it.
LEMMA EndingAdvances ==
  ASSUME ControlInv, RowsKept, NEW t \in Turns,
         Defer(t) \/ AutoRetry(t) \/ Finish(t) \/ FailRun(t) \/ Expire(t) \/ Cancel1(t) \/ Cancel2(t)
  PROVE  Advances(t)
<1>1. pc[t] # "idle"
  BY DEF Defer, AutoRetry, Finish, FailRun, Expire, Cancel1, Cancel2
<1>2. /\ act[t] \in Activations /\ HasRow(att', act[t]) /\ LocalsOK(loc[t], att')
      /\ TurnOK(pc[t], act[t], num[t], loc[t], att') /\ loc[t] \in Locals
  BY <1>1, BusyNext
<1>0. 0 \in 0 .. ManualLimit
  BY LimitAssumption
<1>3. CASE Return(t)
  BY <1>3, Returns
<1> DEFINE l == [NoLocals EXCEPT !.gen = loc[t].gen]
<1>4. CASE GotoWith(t, "readRun", 0, l)
  <2>1. /\ l \in Locals /\ l.orig = NoFailure /\ l.mode = "none" /\ l.then = "none"
    BY <1>2, NoLocalsOK DEF Locals
  <2> HIDE DEF l
  <2>2. NoFailure \notin Activations
    BY TurnAssumption, FailureAssumption
  <2>3. LocalsOK(l, att')
    BY <2>1, <2>2 DEF LocalsOK
  <2>4. TurnOK("readRun", act[t], 0, l, att') /\ "readRun" \notin Holding
    BY <1>0, <1>2, <2>1, <2>3 DEF TurnOK, Labels, Holding, Unread
  <2> QED
    BY <1>4, <2>4, GoesWith, Zenon
<1>5. CASE pc[t] = "finish" /\ Goto(t, "failRun")
  <2>1. TurnOK("failRun", act[t], num[t], loc[t], att') /\ "failRun" \notin Holding
    BY <1>2, <1>5, Zenon DEF TurnOK, Labels, Holding, Unread
  <2> QED
    BY <1>5, <2>1, Goes
<1>6. CASE pc[t] = "cancel1" /\ Goto(t, "cancel2")
  <2>1. num[t] \in Attempts
    BY <1>2, <1>6 DEF TurnOK, Unread
  <2> QED
    BY <1>1, <1>6, <2>1, GoesPlain DEF Plain
<1> QED
  BY <1>3, <1>4, <1>5, <1>6 DEF Defer, AutoRetry, Finish, FailRun, Expire, Cancel1, Cancel2

\* Cancelling the admitted tasks, and recording what came of it.
LEMMA OutcomeOfTasks ==
  ASSUME NEW S, S \subseteq CancellationResult PROVE CancelOutcome(S) \in CancellationResult
  BY DEF CancelOutcome, CancellationResult

LEMMA CancelAdvances ==
  ASSUME ControlInv, RowsKept, NEW t \in Turns, CancelTasks(t) \/ Record(t) \/ RecordCas(t)
  PROVE  Advances(t)
<1>1. pc[t] # "idle" /\ pc[t] \notin Unread
  BY Zenon DEF CancelTasks, Record, RecordCas, Unread
<1>2. /\ act[t] \in Activations /\ HasRow(att', act[t]) /\ LocalsOK(loc[t], att') /\ num[t] \in Attempts
      /\ TurnOK(pc[t], act[t], num[t], loc[t], att') /\ loc[t] \in Locals
  BY <1>1, BusyNext, Zenon DEF TurnOK
<1>3. CASE Return(t) \/ Goto(t, "cancel1")
  BY <1>1, <1>2, <1>3, Returns, GoesPlain, Zenon DEF Plain
<1>4. CASE CancelTasks(t)
  <2>1. PICK o \in [loc[t].tasks -> CancellationResult] :
          GotoWith(t, "record", num[t], [loc[t] EXCEPT !.tasks = {},
            !.out = CancelOutcome({o[x] : x \in loc[t].tasks})])
    BY <1>4, Zenon DEF CancelTasks
  <2> DEFINE out == CancelOutcome({o[x] : x \in loc[t].tasks})
             l == [loc[t] EXCEPT !.tasks = {}, !.out = out]
  <2>2. out \in CancellationResult
    BY OutcomeOfTasks
  <2> HIDE DEF out
  <2>3. /\ l \in Locals /\ l.orig = loc[t].orig /\ l.mode = loc[t].mode /\ l.then = loc[t].then
        /\ l.out = out
    BY <1>2, <2>2, Zenon DEF Locals, Results
  <2>4. GotoWith(t, "record", num[t], l)
    BY <2>1 DEF out
  <2> HIDE DEF l
  <2>5. LocalsOK(l, att')
    BY <1>2, <2>3 DEF LocalsOK
  <2>6. TurnOK("record", act[t], num[t], l, att') /\ "record" \notin Holding
    BY <1>2, <2>2, <2>3, <2>5, AttemptRange, Zenon DEF TurnOK, Labels, Holding, Unread
  <2> QED
    BY <2>4, <2>6, GoesWith, Zenon
<1> DEFINE l == [loc[t] EXCEPT !.cur = cancelRes]
<1>5. CASE pc[t] = "record" /\ GotoWith(t, "recordCas", num[t], l)
  <2>1. cancelRes \in Results /\ loc[t].out \in CancellationResult
    BY <1>2, <1>5 DEF TurnOK, ControlInv, TypeOK, Results
  <2>2. /\ l \in Locals /\ l.orig = loc[t].orig /\ l.mode = loc[t].mode /\ l.then = loc[t].then
        /\ l.out = loc[t].out
    BY <1>2, <2>1 DEF Locals
  <2> HIDE DEF l
  <2>3. LocalsOK(l, att')
    BY <1>2, <2>2, Zenon DEF LocalsOK
  <2>4. TurnOK("recordCas", act[t], num[t], l, att') /\ "recordCas" \notin Holding
    BY <1>2, <2>1, <2>2, <2>3, AttemptRange DEF TurnOK, Labels, Holding, Unread
  <2> QED
    BY <1>5, <2>4, GoesWith, Zenon
<1> QED
  BY <1>3, <1>4, <1>5 DEF Record, RecordCas, Recorded

\* A step of a turn that claims nothing.
LEMMA StepAdvances ==
  ASSUME ControlInv, RowsKept, NEW t \in Turns, TurnStep(t), ~Claims(t)
  PROVE  Advances(t) /\ ReturnedOK(returned', att')
<1>1. ReturnedOK(returned, att')
  BY DEF ControlInv, EnvOK, RowsKept, ReturnedOK
<1>2. CASE \/ ReadRun(t) \/ FailStep(t) \/ Defer(t) \/ AutoRetry(t) \/ Finish(t) \/ FailRun(t)
           \/ Expire(t) \/ CancelTasks(t) \/ Record(t) \/ RecordCas(t) \/ Cancel1(t) \/ Cancel2(t)
  <2>1. returned' = returned
    BY <1>2, Zenon DEF ReadRun, FailStep, Defer, AutoRetry, Finish, FailRun, Expire, CancelTasks, Record,
         RecordCas, Cancel1, Cancel2
  <2> QED
    BY <1>1, <1>2, <2>1, ReadRunAdvances, FailStepAdvances, EndingAdvances, CancelAdvances
<1> QED
  BY <1>2, ReadAttemptsAdvances, ClaimAdvances, HeldAdvances, ProviderAdvances, CompleteAdvances
     DEF TurnStep

-----------------------------------------------------------------------------
(***************************************************************************)
(* Claims: held by one turn, spent once.                                   *)
(***************************************************************************)

\* The claim of a turn.
Held(t) == <<act[t], loc[t].claim>>

LEMMA AdvanceTurns ==
  ASSUME ControlInv, RowsKept, NEW t \in Turns, Advances(t) PROVE TurnsOK'
<1>1. ASSUME NEW u \in Turns PROVE TurnOK(pc'[u], act'[u], num'[u], loc'[u], att')
  <2>1. CASE u = t
    BY <2>1, Zenon DEF Advances
  <2>2. CASE u # t
    <3>1. TurnOK(pc[u], act[u], num[u], loc[u], att)
      BY DEF ControlInv, TurnsOK
    <3>2. TurnOK(pc[u], act[u], num[u], loc[u], att')
      BY <3>1, TurnStays
    <3> QED
      BY <2>2, <3>2, Zenon DEF Advances
  <2> QED
    BY <2>1, <2>2, Zenon
<1> QED
  BY <1>1, Zenon DEF TurnsOK, Advances

\* What has been spent stays a claimed attempt.
LEMMA SpentStays ==
  ASSUME ControlInv, RowsKept
  PROVE  \A x \in spent : x \in AllAttempts /\ att'[x[1]][x[2]] \notin {"none", "pending"}
<1>1. \A x \in AllAttempts : x[1] \in Activations /\ x[2] \in Attempts
  BY DEF AllAttempts
<1> QED
  BY <1>1 DEF ControlInv, ClaimsOK, RowsKept

LEMMA AdvanceClaims ==
  ASSUME ControlInv, RowsKept, NEW t \in Turns, Advances(t), spent' = spent, starts' = starts
  PROVE  ClaimsOK'
<1>1. \A u \in Turns : pc'[u] \in Holding => pc[u] \in Holding /\ Held(u)' = Held(u)
  BY DEF Advances, Held
<1>2. \A u \in Turns : pc'[u] \in Holding => Held(u)' \notin spent'
  BY <1>1 DEF ControlInv, ClaimsOK, Held
<1>3. \A u, v \in Turns : u # v /\ pc'[u] \in Holding /\ pc'[v] \in Holding => Held(u)' # Held(v)'
  BY <1>1 DEF ControlInv, ClaimsOK, Held
<1>4. DOMAIN starts' = Activations
  BY DEF ControlInv, ClaimsOK
<1> QED
  BY <1>2, <1>3, <1>4, SpentStays DEF ClaimsOK, Held

\* Nothing is held of an attempt that is pending.
LEMMA ClaimKeeps ==
  ASSUME ControlInv, RowsKept, NEW t \in Turns, Claims(t), spent' = spent, starts' = starts
  PROVE  TurnsOK' /\ ClaimsOK'
<1> DEFINE a == act[t]
           n == LastAttempt(a)
           l == [loc[t] EXCEPT !.claim = n]
<1>1. pc[t] # "idle" /\ n \in Attempts /\ n \in 0 .. ManualLimit /\ a \in Activations
  BY BusyTurn DEF Claims
<1>2. /\ HasRow(att', a) /\ loc[t] \in Locals /\ LocalsOK(loc[t], att')
      /\ ClaimAttemptStmt(a, n) /\ GotoWith(t, "claim2", n, l)
  BY <1>1, BusyNext DEF Claims
<1>3. att[a][n] = "pending" /\ att'[a][n] = "starting"
  BY <1>1, <1>2 DEF ClaimAttemptStmt, ControlInv, TypeOK
<1>4. /\ l \in Locals /\ l.orig = loc[t].orig /\ l.mode = loc[t].mode /\ l.then = loc[t].then
      /\ l.claim = n
  BY <1>1, <1>2 DEF Locals
<1> HIDE DEF n, l
<1>5. LocalsOK(l, att')
  BY <1>2, <1>4 DEF LocalsOK
<1>6. TurnOK("claim2", a, n, l, att')
  BY <1>1, <1>2, <1>3, <1>4, <1>5, Zenon DEF TurnOK, Labels, Holding, Unread
<1>7. /\ DOMAIN pc' = Turns /\ DOMAIN act' = Turns /\ DOMAIN num' = Turns /\ DOMAIN loc' = Turns
      /\ pc'[t] = "claim2" /\ act' = act /\ num'[t] = n /\ loc'[t] = l
      /\ \A u \in Turns \ {t} : pc'[u] = pc[u] /\ num'[u] = num[u] /\ loc'[u] = loc[u]
  BY <1>2, Zenon DEF GotoWith, ControlInv, TurnsOK
<1>8. TurnsOK'
  <2>1. ASSUME NEW u \in Turns \ {t} PROVE TurnOK(pc[u], act[u], num[u], loc[u], att')
    BY TurnStays DEF ControlInv, TurnsOK
  <2> QED
    BY <1>6, <1>7, <2>1 DEF TurnsOK
<1>9. Held(t)' = <<a, n>> /\ \A u \in Turns \ {t} : Held(u)' = Held(u)
  BY <1>4, <1>7 DEF Held
<1>10. \A x \in spent : x # <<a, n>>
  BY <1>3 DEF ControlInv, ClaimsOK
<1>11. \A u \in Turns : pc[u] \in Holding => Held(u) # <<a, n>>
  BY <1>3 DEF ControlInv, TurnsOK, TurnOK, Held
<1>12. \A u \in Turns : pc'[u] \in Holding => Held(u)' \notin spent'
  BY <1>7, <1>9, <1>10 DEF ControlInv, ClaimsOK, Held
<1>13. \A u, v \in Turns : u # v /\ pc'[u] \in Holding /\ pc'[v] \in Holding => Held(u)' # Held(v)'
  BY <1>7, <1>9, <1>11 DEF ControlInv, ClaimsOK, Held
<1>14. DOMAIN starts' = Activations
  BY DEF ControlInv, ClaimsOK
<1> QED
  BY <1>8, <1>12, <1>13, <1>14, SpentStays DEF ClaimsOK, Held

\* runtime.start is called by a turn that holds a claim, and spends it.
LEMMA StartKeeps ==
  ASSUME ControlInv, RowsKept, NEW t \in Turns, Start(t)
  PROVE  TurnsOK' /\ ClaimsOK' /\ SpendStep
<1>1. Advances(t)
  BY ProviderAdvances
<1>2. pc[t] = "start" /\ pc[t] \in Holding /\ act[t] \in Activations
  BY BusyTurn DEF Start, Holding
<1>3. /\ loc[t].claim \in Attempts /\ att[act[t]][loc[t].claim] \notin {"none", "pending"}
      /\ Held(t) \notin spent /\ Held(t) = <<act[t], loc[t].claim>>
  BY <1>2, Zenon DEF ControlInv, TurnsOK, TurnOK, ClaimsOK, Held
<1>4. pc'[t] \notin Holding
  <2>1. \E label \in {"persist", "complete", "failStep"} : pc' = [pc EXCEPT ![t] = label]
    BY Zenon DEF Start, Goto, Failing, FailThen, GotoWith
  <2> QED
    BY <2>1, Zenon DEF Holding, ControlInv, TurnsOK
<1>5. /\ spent' = spent \cup {Held(t)} /\ att' = att
      /\ \A b \in Activations \ {act[t]} : starts'[b] = starts[b]
      /\ DOMAIN starts' = Activations
  BY <1>2 DEF Start, Held, ControlInv, ClaimsOK, storeVars, attVars
<1>6. SpendStep
  BY <1>2, <1>3, <1>5, Zenon DEF SpendStep
<1>7. \A u \in Turns : pc'[u] \in Holding => u # t /\ pc[u] \in Holding /\ Held(u)' = Held(u)
  BY <1>1, <1>4, Zenon DEF Advances, Held
<1>8. \A u \in Turns : pc'[u] \in Holding => Held(u)' \notin spent'
  BY <1>2, <1>5, <1>7 DEF ControlInv, ClaimsOK, Held
<1>9. \A u, v \in Turns : u # v /\ pc'[u] \in Holding /\ pc'[v] \in Holding => Held(u)' # Held(v)'
  BY <1>7 DEF ControlInv, ClaimsOK, Held
<1>10. \A x \in spent' : x \in AllAttempts /\ att'[x[1]][x[2]] \notin {"none", "pending"}
  BY <1>2, <1>3, <1>5, SpentStays DEF AllAttempts
<1>11. ClaimsOK'
  BY <1>5, <1>8, <1>9, <1>10 DEF ClaimsOK, Held
<1> QED
  BY <1>1, <1>6, <1>11, AdvanceTurns

-----------------------------------------------------------------------------
(***************************************************************************)
(* The orchestrator and the manual-retry route.                            *)
(***************************************************************************)

OuterOK(o, A) == o.pc = "insert" => o.a \in Activations /\ \A d \in Deps[o.a] : Succeeded(A, d)

RetrierOK(r) ==
  /\ r \in [pc : {"idle", "insert", "update"}, a : Activations \cup {"none"},
            n : 0 .. ManualLimit, g : Nat]
  /\ r.pc = "insert" => r.a \in Activations /\ r.n \in Attempts

LEMMA EnvForms == /\ EnvOK <=> ReturnedOK(returned, att) /\ OuterOK(outer, att) /\ RetrierOK(retrier)
                  /\ EnvOK' <=> ReturnedOK(returned', att') /\ OuterOK(outer', att') /\ RetrierOK(retrier')
  BY DEF EnvOK, ReturnedOK, OuterOK, RetrierOK

LEMMA EnvStays ==
  ASSUME ControlInv, RowsKept
  PROVE  ReturnedOK(returned, att') /\ OuterOK(outer, att') /\ RetrierOK(retrier)
<1>1. \A a \in Activations : Deps[a] \subseteq Activations
  BY TurnAssumption
<1>2. ReturnedOK(returned, att) /\ OuterOK(outer, att) /\ RetrierOK(retrier)
  BY EnvForms DEF ControlInv
<1> QED
  BY <1>1, <1>2 DEF RowsKept, ReturnedOK, OuterOK

LEMMA OuterAtOK ==
  ASSUME NEW label \in {"turn", "cancel2", "giveUp", "done", "dead"}
  PROVE  OuterOK(OuterAt(label), att') /\ OuterOK(Orchestrating, att')
<1>1. OuterAt(label).pc = label /\ Orchestrating.pc = "turn"
  BY DEF OuterAt, Orchestrating
<1> QED
  BY <1>1 DEF OuterOK

LEMMA OuterKeeps == ASSUME ControlInv, RowsKept, OuterStep PROVE OuterOK(outer', att')
<1>1. CASE \E a \in Activations : AdmitRead(a)
  <2>1. PICK a \in Activations : AdmitRead(a)
    BY <1>1
  <2>2. Deps[a] \subseteq returned /\ outer'.pc = "insert" /\ outer'.a = a
    BY <2>1 DEF AdmitRead, Unadmitted, Frontier
  <2> QED
    BY <2>2, EnvStays DEF OuterOK, ReturnedOK
<1>2. CASE ~\E a \in Activations : AdmitRead(a)
  <2>1. \/ outer' = Orchestrating
        \/ \E label \in {"turn", "cancel2", "giveUp", "done", "dead"} : outer' = OuterAt(label)
    BY <1>2 DEF OuterStep, AdmitInsert, OuterDone, OuterCancel1, OuterCancel2, OuterComplete,
         OuterGiveUp, OuterRefuse, OuterFailRun
  <2> QED
    BY <2>1, OuterAtOK
<1> QED
  BY <1>1, <1>2

-----------------------------------------------------------------------------
(***************************************************************************)
(* The invariant holds, step by step.                                      *)
(***************************************************************************)

\* Steps that leave turns and claims alone.
LEMMA StillTurns ==
  ASSUME ControlInv, RowsKept, UNCHANGED <<turnVars, starts, spent>>
  PROVE  TurnsOK' /\ ClaimsOK'
<1>1. \A t \in Turns : TurnOK(pc[t], act[t], num[t], loc[t], att')
  BY TurnStays, Zenon DEF ControlInv, TurnsOK
<1> QED
  BY <1>1, SpentStays, Zenon DEF ControlInv, TurnsOK, ClaimsOK, turnVars

LEMMA BeginAdvances ==
  ASSUME ControlInv, RowsKept, NEW t \in Turns, NEW a \in Activations, BeginTurn(t, a)
  PROVE  Advances(t)
<1> DEFINE l == [loc[t] EXCEPT !.gen = gen]
<1>1. TurnOK("idle", act[t], num[t], loc[t], att')
  BY TurnStays DEF ControlInv, TurnsOK, BeginTurn
<1>2. loc[t] \in Locals /\ loc[t].then = "none" /\ LocalsOK(loc[t], att') /\ num[t] \in 0 .. ManualLimit
  BY <1>1, Zenon DEF TurnOK, LocalsOK
<1>3. gen \in Nat
  BY GenAssumption DEF ControlInv, TypeOK
<1>4. l \in Locals /\ l.orig = loc[t].orig /\ l.mode = loc[t].mode /\ l.then = loc[t].then
  BY <1>2, <1>3 DEF Locals
<1>5. loc' = [loc EXCEPT ![t] = l]
  BY DEF BeginTurn
<1> HIDE DEF l
<1>6. LocalsOK(l, att')
  BY <1>2, <1>4 DEF LocalsOK
<1>7. HasRow(att', a)
  BY DEF BeginTurn, Unadmitted, Rows, HasRow, RowsKept
<1>8. TurnOK("readRun", a, num[t], l, att') /\ "readRun" \notin Holding
  BY <1>2, <1>4, <1>6, <1>7 DEF TurnOK, Labels, Holding, Unread
<1> QED
  BY <1>5, <1>8 DEF BeginTurn, Advances, ControlInv, TurnsOK

\* What a step does to turns, claims and environment.
LEMMA ControlStep ==
  ASSUME ControlInv, RowsKept, [TurnNext]_vars,
         RetryRead \/ RetryInsert \/ RetryUpdate \/ CrashRetry => RetrierOK(retrier')
  PROVE  TurnsOK' /\ ClaimsOK' /\ EnvOK' /\ (SpendStep \/ UNCHANGED vars)
<1>0. starts' = starts => SpendStep
  BY DEF SpendStep
<1>1. CASE \E t \in Turns, a \in Activations : BeginTurn(t, a)
  <2>1. PICK t \in Turns, a \in Activations : BeginTurn(t, a)
    BY <1>1
  <2>2. UNCHANGED <<starts, spent, returned, outer, retrier>>
    BY <2>1 DEF BeginTurn, provVars, envVars
  <2>3. Advances(t)
    BY <2>1, BeginAdvances
  <2> QED
    BY <1>0, <2>2, <2>3, AdvanceTurns, AdvanceClaims, EnvStays, EnvForms
<1>2. CASE \E t \in Turns : CrashTurn(t)
  <2>1. PICK t \in Turns : CrashTurn(t)
    BY <1>2
  <2>2. UNCHANGED <<starts, spent, returned, outer, retrier>>
    BY <2>1 DEF CrashTurn, provVars
  <2>3. Advances(t)
    BY <2>1, Returns DEF CrashTurn
  <2> QED
    BY <1>0, <2>2, <2>3, AdvanceTurns, AdvanceClaims, EnvStays, EnvForms
<1>3. ASSUME NEW t \in Turns, TurnStep(t)
      PROVE  TurnsOK' /\ ClaimsOK' /\ EnvOK' /\ (SpendStep \/ UNCHANGED vars)
  <2>1. UNCHANGED <<outer, retrier>>
    BY <1>3, Zenon DEF TurnStep, ReadRun, ReadAttempts, Claim, Claim2, Claimed, Recheck, Start, Persist, Stop,
         Poll, Check, Progress, Complete, FailStep, Defer, AutoRetry, Finish, FailRun, Expire,
         CancelTasks, Record, RecordCas, Cancel1, Cancel2, envVars
  <2>2. ~Start(t) => UNCHANGED <<starts, spent>>
    BY <1>3, Zenon DEF TurnStep, ReadRun, ReadAttempts, Claim, Claim2, Claimed, Recheck, Persist, Stop,
         Poll, Check, Progress, Complete, FailStep, Defer, AutoRetry, Finish, FailRun, Expire,
         CancelTasks, Record, RecordCas, Cancel1, Cancel2, provVars
  <2>3. CASE Claims(t)
    <3>1. Claim(t) /\ ~Start(t)
      BY <1>3, <2>3, Zenon DEF Claims, TurnStep, ReadRun, ReadAttempts, Claim2, Claimed, Recheck, Start,
           Persist, Stop, Poll, Check, Progress, Complete, FailStep, Defer, AutoRetry, Finish, FailRun,
           Expire, CancelTasks, Record, RecordCas, Cancel1, Cancel2
    <3>2. returned' = returned
      BY <2>3, <3>1 DEF Claim, Claims, ClaimAttemptStmt
    <3> QED
      BY <1>0, <2>1, <2>2, <2>3, <3>1, <3>2, ClaimKeeps, EnvStays, EnvForms
  <2>4. CASE ~Claims(t)
    <3>1. Advances(t) /\ ReturnedOK(returned', att')
      BY <1>3, <2>4, StepAdvances
    <3>2. EnvOK'
      BY <2>1, <3>1, EnvStays, EnvForms
    <3> QED
      BY <1>0, <2>2, <3>1, <3>2, StartKeeps, AdvanceTurns, AdvanceClaims
  <2> QED
    BY <2>3, <2>4
<1>4. CASE (\E a \in Activations, n \in Attempts : Age(a, n)) \/ RequestCancellation \/ UNCHANGED vars
  <2>1. UNCHANGED <<turnVars, starts, spent, returned, outer, retrier>>
    BY <1>4, Zenon DEF Age, RequestCancellation, vars, provVars, envVars
  <2> QED
    BY <1>0, <2>1, StillTurns, EnvStays, EnvForms
<1>5. CASE OuterStep
  <2>1. UNCHANGED <<turnVars, starts, spent, returned, retrier>>
    BY <1>5, Zenon DEF OuterStep, AdmitRead, AdmitInsert, OuterDone, OuterCancel1, OuterCancel2,
         OuterComplete, OuterGiveUp, OuterRefuse, OuterFailRun, provVars
  <2> QED
    BY <1>0, <1>5, <2>1, StillTurns, OuterKeeps, EnvStays, EnvForms
<1>6. CASE RetryRead \/ RetryInsert \/ RetryUpdate \/ CrashRetry
  <2>1. UNCHANGED <<turnVars, starts, spent, returned, outer>>
    BY <1>6, Zenon DEF RetryRead, RetryInsert, RetryUpdate, CrashRetry, provVars
  <2> QED
    BY <1>0, <1>6, <2>1, StillTurns, EnvStays, EnvForms
<1>7. CASE Relaunch
  <2>1. UNCHANGED <<turnVars, starts, spent, returned, retrier>> /\ outer' \in {outer, Orchestrating}
    BY <1>7 DEF Relaunch, provVars
  <2> QED
    BY <1>0, <2>1, StillTurns, OuterAtOK, EnvStays, EnvForms
<1> QED
  BY <1>1, <1>2, <1>3, <1>4, <1>5, <1>6, <1>7 DEF TurnNext
=============================================================================
