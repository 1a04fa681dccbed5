------------------------------ MODULE RunnerJobs ------------------------------
(***************************************************************************)
(* The Codex Runner's jobs (codex-runner/src/job-runner.ts) in the         *)
(* Controller, the Executor that runs their turns (executor.ts) and the    *)
(* emergency stop (emergency-stop.ts, server.ts).  One job is active at a  *)
(* time.  Its thread awaits files and Executor calls; cancellation, the    *)
(* job's timeout, an Executor restart (a new generation, nothing kept) and *)
(* a Controller crash come between.  Requests may be lost or answered late.*)
(***************************************************************************)
EXTENDS Naturals, Sequences, FiniteSets

CONSTANTS Jobs, None, MaxGeneration, MaxFaults, MaxCrashes

ASSUME JobsAssumption == None \notin Jobs /\ MaxGeneration \in Nat /\ MaxFaults \in Nat /\ MaxCrashes \in Nat

VARIABLES
  disk, mem,      \* job -> its record: state, and the generation its turn is correlated with
  queue,          \* the active job's writes in progress, in order: the record and who awaits it
  pendingFlag,    \* RuntimeControl.terminalPending
  thread,         \* the active job, where its thread is, the generation it posted to
  healthy,        \* storageHealthy
  post,           \* job -> its start request: "none", "sent", "handled" (the gate is reserved),
                  \* "accepted", "refused" or "lost"
  generation, exec,   \* Executor: its generation; job -> its execution in this generation
  started,        \* job -> executions ever started for it
  latch, stopping, resuming,   \* emergency stop: its durable state and the two requests
  brokenWrites, faults, crashes

controller == <<mem, queue, pendingFlag, thread, healthy>>
executor == <<post, generation, exec, started>>
emergency == <<latch, stopping, resuming>>
bounds == <<brokenWrites, faults, crashes>>
jobVars == <<disk, controller, executor, emergency, bounds>>

Final == {"completed", "failed", "cancelled"}
NoRecord == [state |-> "none", at |-> 0]
Idle == [job |-> None, pc |-> "idle", gen |-> 0, late |-> FALSE, unsaved |-> FALSE, interrupt |-> "no"]
Busy == thread.job # None
J == thread.job
NotRun == "none"
NoResume == [pc |-> "idle", gen |-> 0, idle |-> FALSE]
Running == {j \in Jobs : exec[j] \in {"running", "cancelling"}}

RunnerJobsInit ==
  /\ disk = [j \in Jobs |-> NoRecord] /\ mem = disk
  /\ queue = <<>> /\ pendingFlag = FALSE /\ thread = Idle /\ healthy = TRUE
  /\ post = [j \in Jobs |-> "none"] /\ generation = 1
  /\ exec = [j \in Jobs |-> NotRun] /\ started = [j \in Jobs |-> 0]
  /\ latch = [stopped |-> FALSE, gen |-> 0, restarted |-> FALSE]
  /\ stopping = "idle" /\ resuming = NoResume
  /\ brokenWrites = FALSE /\ faults = 0 /\ crashes = 0

-----------------------------------------------------------------------------
(* Controller: persist, persistTerminal and the job's thread               *)

\* persist: the snapshot is taken now and written after the earlier ones.
Persist(j, record, who) == Append(queue, [job |-> j, record |-> record, who |-> who])
Go(pc) == thread' = [thread EXCEPT !.pc = pc]
SetState(s) == mem' = [mem EXCEPT ![J].state = s]

\* persistTerminal(record) by the thread.
Terminal(s) ==
  /\ SetState(s) /\ pendingFlag' = TRUE /\ Go("terminal")
  /\ queue' = Persist(J, [mem[J] EXCEPT !.state = s], "thread")
  /\ UNCHANGED healthy
CancelledOr(s) == IF mem[J].state = "cancelling" THEN "cancelled" ELSE s

\* requestInterrupt: sent once, as soon as the execution is known.
RequestInterrupt == [thread EXCEPT !.interrupt = IF @ = "no" THEN "due" ELSE @]
Failing == faults < MaxFaults /\ faults' = faults + 1

\* admit, called one at a time: a known key is answered from its record.
Admit(j) ==
  /\ healthy /\ mem[j] = NoRecord /\ ~Busy /\ ~latch.stopped
  /\ mem' = [mem EXCEPT ![j].state = "queued"]
  /\ thread' = [Idle EXCEPT !.job = j, !.pc = "admit"]
  /\ queue' = Persist(j, [state |-> "queued", at |-> 0], "thread")
  /\ UNCHANGED <<disk, pendingFlag, healthy, executor, emergency, bounds>>

\* prepareAndExecute up to execute; prepareEnvironment may fail.
Prepare ==
  /\ thread.pc = "prepare"
  /\ \/ Terminal(CancelledOr("failed"))
     \/ IF mem[J].state = "cancelling" THEN Terminal("cancelled")
        ELSE Go("validate") /\ UNCHANGED <<mem, queue, pendingFlag, healthy>>
  /\ UNCHANGED <<disk, executor, emergency, bounds>>

\* execute: account and models; then the state "running" is written.
Validate ==
  /\ thread.pc = "validate"
  /\ \/ Terminal("failed")
     \/ /\ mem[J].state = "cancelling" /\ Terminal("cancelled")
     \/ /\ mem[J].state # "cancelling"
        /\ SetState("running") /\ queue' = Persist(J, [mem[J] EXCEPT !.state = "running"], "thread")
        /\ Go("running") /\ UNCHANGED <<pendingFlag, healthy>>
  /\ UNCHANGED <<disk, executor, emergency, bounds>>

\* The oldest write succeeds, and who awaited it continues.
Written ==
  LET w == Head(queue)
      awaited == w.who = "thread" /\ w.job = J IN
  /\ queue # <<>> /\ ~brokenWrites
  /\ disk' = [disk EXCEPT ![w.job] = w.record] /\ queue' = Tail(queue)
  /\ pendingFlag' = (pendingFlag /\ w.who # "cancel" /\ ~(awaited /\ (thread.pc = "terminal" \/ thread.late)))
  /\ thread' = IF awaited /\ thread.pc = "admit" THEN [thread EXCEPT !.pc = "prepare"]
               ELSE IF awaited /\ thread.pc = "running"
                    THEN [thread EXCEPT !.pc = IF mem[J].state = "cancelling" THEN "cancelled" ELSE "status"]
               ELSE IF awaited /\ thread.pc = "terminal" THEN Idle
               ELSE IF w.job = J /\ (w.who = "cancel" \/ thread.late) THEN RequestInterrupt ELSE thread
  /\ UNCHANGED <<mem, healthy, executor, emergency, bounds>>

\* The oldest write fails, and with it every later write of the job.
AdmissionFails ==
  /\ thread.pc = "admit" /\ Failing /\ UNCHANGED brokenWrites
  /\ queue' = <<>> /\ healthy' = (healthy /\ Len(queue) = 1) /\ pendingFlag' = FALSE
  /\ mem' = [mem EXCEPT ![J] = NoRecord] /\ thread' = Idle
  /\ UNCHANGED <<disk, executor, emergency, crashes>>

WriteFails ==
  LET w == Head(queue)
      awaited == w.who = "thread" /\ w.job = J IN
  /\ queue # <<>> /\ thread.pc # "admit" /\ queue' = Tail(queue)
  /\ (brokenWrites /\ UNCHANGED faults) \/ (~brokenWrites /\ Failing)
  /\ brokenWrites' = TRUE /\ healthy' = FALSE
  /\ pendingFlag' = (pendingFlag /\ (w.who = "started" \/ (awaited /\ thread.pc = "running")))
  /\ mem' = IF w.who = "started" THEN mem ELSE [mem EXCEPT ![w.job].state = "failed"]
  /\ thread' = IF awaited /\ thread.pc \in {"running", "terminal"} THEN Idle
               ELSE IF awaited /\ thread.late THEN RequestInterrupt
               ELSE IF w.who = "started" /\ w.job = J THEN [RequestInterrupt EXCEPT !.unsaved = TRUE] ELSE thread
  /\ UNCHANGED <<disk, executor, emergency, crashes>>

\* A cancellation was found after "running" was written.
CancelledLate ==
  /\ thread.pc = "cancelled" /\ Terminal("cancelled")
  /\ UNCHANGED <<disk, executor, emergency, bounds>>

\* The end of execute, with the turn's result or an exception; after a timeout
\* either is ignored.
Awaited(who) == \E i \in DOMAIN queue : queue[i].who = who /\ queue[i].job = J
Ignored == ~Awaited("thread") /\ thread' = Idle /\ UNCHANGED <<mem, queue, pendingFlag, healthy>>
Threw == IF thread.late THEN Ignored ELSE Terminal("failed")

Result(s) ==
  IF thread.late THEN Ignored
  ELSE /\ ~Awaited("started")
       /\ IF thread.unsaved THEN SetState("failed") /\ thread' = Idle /\ UNCHANGED <<queue, pendingFlag, healthy>>
          ELSE Terminal(CancelledOr(s))

\* runWorkflowTurn: the status of the Executor, then the start request.
ReadStatus ==
  /\ thread.pc = "status"
  /\ \/ /\ thread' = [thread EXCEPT !.pc = "posted", !.gen = generation] /\ post' = [post EXCEPT ![J] = "sent"]
        /\ UNCHANGED <<mem, queue, pendingFlag, healthy>>
     \/ Threw /\ UNCHANGED post
  /\ UNCHANGED <<disk, generation, exec, started, emergency, bounds>>

\* The interrupt reaches the execution or is lost.
SendInterrupt ==
  /\ Busy /\ thread.interrupt = "due" /\ mem[J].at # 0
  /\ thread' = [thread EXCEPT !.interrupt = "sent"]
  /\ \/ exec[J] = "running" /\ mem[J].at = generation /\ exec' = [exec EXCEPT ![J] = "cancelling"]
     \/ UNCHANGED exec
  /\ UNCHANGED <<disk, mem, queue, pendingFlag, healthy, post, generation, started, emergency, bounds>>

Answered ==
  /\ thread.pc = "posted"
  /\ \/ /\ post[J] = "accepted" /\ generation = thread.gen
        /\ mem' = [mem EXCEPT ![J].at = generation]
        /\ queue' = Persist(J, [mem[J] EXCEPT !.at = generation], "started")
        /\ thread' = [(IF mem[J].state = "cancelling" THEN RequestInterrupt ELSE thread) EXCEPT !.pc = "observe"]
        /\ UNCHANGED <<pendingFlag, healthy>>
     \/ post[J] = "accepted" /\ generation # thread.gen /\ Result("failed")
     \/ post[J] = "refused" /\ Threw
  /\ post' = [post EXCEPT ![J] = "none"]
  /\ UNCHANGED <<disk, generation, exec, started, emergency, bounds>>

\* The request or its answer is lost, or the request is still being handled
\* when the call times out: reconcileAmbiguousStart.
Forgotten(p) == IF p \in {"accepted", "refused", "lost"} THEN "none" ELSE p
PostFails ==
  /\ thread.pc = "posted"
  /\ \/ post[J] = "lost" /\ UNCHANGED faults
     \/ post[J] # "lost" /\ Failing
  /\ Go("ambiguous") /\ post' = [post EXCEPT ![J] = Forgotten(@)]
  /\ UNCHANGED <<disk, mem, queue, pendingFlag, healthy, generation, exec, started, emergency, brokenWrites, crashes>>
StartNotFound == generation # thread.gen \/ Running = {}
ReconcileAmbiguousStart ==
  /\ thread.pc = "ambiguous" /\ StartNotFound /\ Result("failed")
  /\ UNCHANGED <<disk, executor, emergency, bounds>>

\* observeWorkflowTurn.
Observe ==
  /\ thread.pc = "observe"
  /\ \/ mem[J].at # generation /\ Result("failed")
     \/ mem[J].at = generation /\ exec[J] = "completed" /\ Result("completed")
     \/ mem[J].at = generation /\ exec[J] \in {"failed", "cancelled"} /\ Result("failed")
  /\ UNCHANGED <<disk, executor, emergency, bounds>>

\* reconcileUnknownExecution, after a crash: the first status read names the
\* generation that a later one is compared with.
ReconcileUnknownExecution ==
  /\ thread.pc = "unknown"
  /\ IF Running = {} \/ thread.gen \notin {0, generation} THEN Result("failed")
     ELSE thread.gen = 0 /\ thread' = [thread EXCEPT !.gen = generation]
          /\ UNCHANGED <<mem, queue, pendingFlag, healthy>>
  /\ UNCHANGED <<disk, executor, emergency, bounds>>

\* durationMs passes: the job has failed, its thread waits for the turn.  A
\* resumed job has no such timer.
Timeout ==
  /\ thread.pc \in {"status", "posted", "ambiguous"} \/ (thread.pc = "observe" /\ thread.gen # 0)
  /\ ~thread.late /\ thread' = [thread EXCEPT !.late = TRUE]
  /\ SetState("failed") /\ pendingFlag' = TRUE
  /\ queue' = Persist(J, [mem[J] EXCEPT !.state = "failed"], "thread")
  /\ UNCHANGED <<disk, healthy, executor, emergency, bounds>>

\* cancel: the state and its write; the interrupt follows the write.
CancelActive ==
  /\ Busy /\ mem[J].state \in {"queued", "running"}
  /\ SetState("cancelling") /\ pendingFlag' = TRUE
  /\ queue' = Persist(J, [mem[J] EXCEPT !.state = "cancelling"], "cancel")
Cancel ==
  /\ CancelActive
  /\ UNCHANGED <<disk, thread, healthy, executor, emergency, bounds>>

\* Mutant: a job whose turn is not known starts one.
ResumedFromStatus(j) == [Idle EXCEPT !.job = j, !.pc = IF disk[j].at = 0 THEN "status" ELSE "observe"]

\* The Controller restarts: load, then resumePersisted for the active record,
\* which never starts a turn again.
Resumed(j) == [Idle EXCEPT !.job = j, !.pc = IF disk[j].at = 0 THEN "unknown" ELSE "observe",
                           !.interrupt = IF disk[j].state = "cancelling" THEN "due" ELSE "no"]
Crash ==
  /\ crashes < MaxCrashes /\ crashes' = crashes + 1
  /\ mem' = disk /\ queue' = <<>> /\ pendingFlag' = FALSE /\ healthy' = TRUE
  /\ LET active == {j \in Jobs : disk[j].state \in {"queued", "running", "cancelling"}} IN
     thread' = IF active = {} THEN Idle ELSE Resumed(CHOOSE j \in active : TRUE)
  /\ post' = [j \in Jobs |-> Forgotten(post[j])]
  /\ stopping' = "idle" /\ resuming' = NoResume
  /\ brokenWrites' = FALSE
  /\ UNCHANGED <<disk, generation, exec, started, latch, faults>>

-----------------------------------------------------------------------------
(* Executor                                                                *)

\* The admission gate, then the checks of the workspace, then the execution.
GateIsFree == Running = {} /\ \A j \in Jobs : post[j] # "handled"
Receive(j) ==
  /\ post[j] = "sent"
  /\ post' = [post EXCEPT ![j] = IF GateIsFree THEN "handled" ELSE "refused"]
  /\ UNCHANGED <<disk, controller, generation, exec, started, emergency, bounds>>

StartExecution(j) ==
  /\ post[j] = "handled"
  /\ \/ /\ exec' = [exec EXCEPT ![j] = "running"] /\ started' = [started EXCEPT ![j] = @ + 1]
        /\ post' = [post EXCEPT ![j] = "accepted"]
     \/ post' = [post EXCEPT ![j] = "lost"] /\ UNCHANGED <<exec, started>>
  /\ UNCHANGED <<disk, controller, generation, emergency, bounds>>

\* The turn ends.  (A cancellation that cannot be resolved never does.)
ExecutionEnds(j) ==
  /\ j \in Running
  /\ \E s \in IF exec[j] = "cancelling" THEN {"cancelled"} ELSE {"completed", "failed"} :
       exec' = [exec EXCEPT ![j] = s]
  /\ UNCHANGED <<disk, controller, post, generation, started, emergency, bounds>>

\* A crash of the Executor, or the restart that the webhook asks for.
ExecutorRestarts ==
  /\ generation < MaxGeneration /\ generation' = generation + 1
  /\ exec' = [j \in Jobs |-> NotRun]
  /\ post' = [j \in Jobs |-> IF post[j] \in {"handled", "accepted", "refused"} THEN "lost" ELSE post[j]]
  /\ UNCHANGED <<disk, controller, started, emergency, bounds>>

-----------------------------------------------------------------------------
(* Emergency stop                                                          *)

Latch ==
  /\ stopping = "idle" /\ stopping' = "latched"
  /\ latch' = [stopped |-> TRUE, gen |-> latch.gen, restarted |-> FALSE]
  /\ UNCHANGED <<disk, controller, executor, resuming, bounds>>

\* recordStoppedGeneration; the Executor may not answer in time.
RecordStoppedGeneration ==
  /\ stopping = "latched" /\ stopping' = "recorded"
  /\ \/ latch' = IF latch.gen = 0 THEN [latch EXCEPT !.gen = generation] ELSE latch
     \/ UNCHANGED latch
  /\ UNCHANGED <<disk, controller, executor, resuming, bounds>>

InterruptActive ==
  /\ stopping = "recorded" /\ stopping' = "interrupted"
  /\ CancelActive \/ UNCHANGED <<mem, queue, pendingFlag>>
  /\ UNCHANGED <<disk, thread, healthy, executor, latch, resuming, bounds>>

TriggerHardRestart ==
  /\ stopping = "interrupted" /\ stopping' = "idle"
  /\ latch' = [latch EXCEPT !.restarted = TRUE]
  /\ UNCHANGED <<disk, controller, executor, resuming, bounds>>

\* resume: the Executor's status is read first, used later.
ReadForResume ==
  /\ latch.stopped /\ latch.restarted /\ resuming.pc = "idle"
  /\ resuming' = [pc |-> "read", gen |-> generation, idle |-> Running = {}]
  /\ UNCHANGED <<disk, controller, executor, latch, stopping, bounds>>

\* Mutant: an idle Executor is enough.
SafeWhenIdle == latch.restarted /\ resuming.idle

SafeResume == latch.restarted /\ resuming.idle /\ (latch.gen = 0 \/ resuming.gen # latch.gen)
Resume ==
  /\ resuming.pc = "read" /\ resuming' = NoResume
  /\ latch' = IF latch.stopped /\ SafeResume THEN [latch EXCEPT !.stopped = FALSE, !.gen = 0] ELSE latch
  /\ UNCHANGED <<disk, controller, executor, stopping, bounds>>

RunnerJobsNext ==
  \/ Prepare \/ Validate \/ Written \/ AdmissionFails \/ WriteFails \/ CancelledLate \/ ReadStatus \/ Answered \/ PostFails
  \/ ReconcileAmbiguousStart \/ Observe \/ ReconcileUnknownExecution \/ Timeout \/ Cancel
  \/ SendInterrupt \/ Crash \/ ExecutorRestarts
  \/ \E j \in Jobs : Admit(j) \/ Receive(j) \/ StartExecution(j) \/ ExecutionEnds(j)
  \/ Latch \/ RecordStoppedGeneration \/ InterruptActive \/ TriggerHardRestart \/ ReadForResume \/ Resume

RunnerJobsSpec == RunnerJobsInit /\ [][RunnerJobsNext]_jobVars

-----------------------------------------------------------------------------
(* Properties                                                              *)

\* Whatever is lost, cancelled or restarted, a job's turn is started at most once.
JobRunsOnce == \A j \in Jobs : started[j] <= 1

\* Once a final state is on disk it stays: no late result, cancellation or restart rewrites it.
TerminalIsFinal ==
  [][\A j \in Jobs : disk[j].state \in Final => disk'[j].state = disk[j].state]_jobVars

\* Admission resumes, on a status of the present Executor, only after the restart
\* was asked for and in a generation newer than every one that was recorded,
\* whatever stops, crashes and restarts came between.
ResumeNeedsReplacement ==
  [][latch.stopped /\ ~latch'.stopped /\ resuming.gen = generation
       => latch.restarted /\ generation > latch.gen]_jobVars

=============================================================================
