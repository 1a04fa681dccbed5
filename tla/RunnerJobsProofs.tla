-------------------------- MODULE RunnerJobsProofs --------------------------
(***************************************************************************)
(* What RunnerJobs promises, proved for every number of jobs, generations, *)
(* faults and crashes: a job's turn is started at most once, admission     *)
(* resumes only on a replaced Executor, and a final state stays on disk.   *)
(***************************************************************************)
EXTENDS RunnerJobs, TLAPS

States == Final \cup {"none", "queued", "running", "cancelling"}
Record == [state : States, at : Nat]
Write == [job : Jobs, record : Record, who : {"thread", "cancel", "started"}]

\* Where a thread has yet to post its start request, and the other places.
Before == {"admit", "prepare", "validate", "running", "status"}
After == {"posted", "ambiguous", "observe", "unknown", "terminal", "cancelled"}
Thread == [job : Jobs \cup {None}, pc : Before \cup After \cup {"idle"}, gen : Nat, late : BOOLEAN,
           unsaved : BOOLEAN, interrupt : {"no", "due", "sent"}]

PostStates == {"none", "sent", "handled", "accepted", "refused", "lost"}
Open == {"sent", "handled"}

JobTypes ==
  /\ disk \in [Jobs -> Record] /\ mem \in [Jobs -> Record] /\ queue \in Seq(Write)
  /\ thread \in Thread /\ (thread.pc # "idle" => thread.job \in Jobs)
  /\ post \in [Jobs -> PostStates] /\ started \in [Jobs -> Nat] /\ generation \in Nat \ {0}

\* What is known of job j, from the state of its records in memory (m) and on disk
\* (d), the job (t) and the place (p) of the thread, its starts (s) and its request (r).
JobOK(j, m, d, t, p, s, r) ==
  /\ s <= 1 /\ (r \in Open => s = 0)
  /\ m = "none" => d = "none" /\ t # j
  /\ d = "none" => s = 0 /\ r \notin Open /\ (t = j => p = "admit")
  /\ t = j /\ p \in Before => s = 0 /\ r \notin Open
  /\ t = j /\ p = "admit" => d = "none"

\* Queued writes are of admitted jobs; the first write of a job being admitted is
\* the one its thread awaits.
QueueOK(q, M) == \A i \in 1 .. Len(q) : M[q[i].job].state # "none" /\ q[i].record.state # "none"
FirstIsAwaited(q, j) ==
  \E i \in 1 .. Len(q) : /\ q[i].job = j /\ q[i].who = "thread"
                         /\ \A k \in 1 .. i - 1 : q[k].job # j

LatchOK ==
  /\ latch \in [stopped : BOOLEAN, gen : Nat, restarted : BOOLEAN] /\ latch.gen <= generation
  /\ resuming \in [pc : {"idle", "read"}, gen : Nat, idle : BOOLEAN]

JobsInv ==
  /\ JobTypes /\ LatchOK
  /\ \A j \in Jobs :
       JobOK(j, mem[j].state, disk[j].state, thread.job, thread.pc, started[j], post[j])
  /\ QueueOK(queue, mem)
  /\ thread.pc = "admit" => FirstIsAwaited(queue, thread.job)

LEMMA NoneIsNoJob == \A j \in Jobs : j # None
  BY JobsAssumption

LEMMA IdleOK == Idle \in Thread /\ Idle.pc = "idle" /\ Idle.job = None
  BY DEF Idle, Thread

LEMMA NoRecordOK == NoRecord \in Record /\ NoRecord.state = "none"
  BY DEF NoRecord, Record, States

-----------------------------------------------------------------------------
(* Steps that admit nothing, post nothing, start nothing and write nothing. *)

QuietThread ==
  \/ thread'.job = thread.job /\ thread'.pc = thread.pc
  \/ thread'.job = None /\ thread'.pc = "idle"
  \/ /\ thread'.job = thread.job /\ thread.pc # "admit" /\ thread'.pc # "admit"
     /\ thread'.pc \in Before => thread.pc \in Before

QuietQueue ==
  \/ queue' = queue
  \/ queue # <<>> /\ queue' = Tail(queue) /\ thread.pc # "admit"
  \/ \E w \in Write : /\ queue' = Append(queue, w) /\ w.record.state # "none"
                      /\ mem[w.job].state # "none"

Quiet ==
  /\ disk' = disk /\ started' = started
  /\ \A j \in Jobs : post'[j] \in Open => post[j] \in Open
  /\ \A j \in Jobs : mem'[j].state = "none" <=> mem[j].state = "none"
  /\ QuietThread /\ QuietQueue

LEMMA QuietKeepsQueue ==
  ASSUME JobTypes, QueueOK(queue, mem), \A j \in Jobs : mem'[j].state = "none" <=> mem[j].state = "none",
         QuietQueue
  PROVE  QueueOK(queue', mem')
<1>0. \A i \in 1 .. Len(queue) : queue[i] \in Write
  BY DEF JobTypes
<1>1. \A i \in 1 .. Len(queue) : queue[i].job \in Jobs
  BY <1>0 DEF Write
<1>2. CASE queue' = queue
  BY <1>1, <1>2 DEF QueueOK
<1>3. CASE queue # <<>> /\ queue' = Tail(queue)
  <2>1. Len(queue') = Len(queue) - 1 /\ \A i \in 1 .. Len(queue') : queue'[i] = queue[i + 1]
    BY <1>3 DEF JobTypes
  <2>2. \A i \in 1 .. Len(queue') : i + 1 \in 1 .. Len(queue)
    BY <1>3, <2>1 DEF JobTypes
  <2> QED
    BY <1>1, <2>1, <2>2 DEF QueueOK
<1>4. ASSUME NEW w \in Write, queue' = Append(queue, w), w.record.state # "none", mem[w.job].state # "none"
      PROVE  QueueOK(queue', mem')
  <2>1. /\ Len(queue') = Len(queue) + 1 /\ queue'[Len(queue) + 1] = w
        /\ \A i \in 1 .. Len(queue) : queue'[i] = queue[i]
    BY <1>4 DEF JobTypes
  <2>2. \A i \in 1 .. Len(queue') : i \in 1 .. Len(queue) \/ i = Len(queue) + 1
    BY <2>1 DEF JobTypes
  <2>3. w.job \in Jobs
    BY DEF Write
  <2> QED
    BY <1>1, <1>4, <2>1, <2>2, <2>3 DEF QueueOK
<1> QED
  BY <1>2, <1>3, <1>4 DEF QuietQueue

LEMMA AppendKeepsFirst ==
  ASSUME NEW q \in Seq(Write), NEW w \in Write, NEW j, FirstIsAwaited(q, j)
  PROVE  FirstIsAwaited(Append(q, w), j)
<1> DEFINE r == Append(q, w)
<1>1. Len(r) = Len(q) + 1 /\ \A i \in 1 .. Len(q) : r[i] = q[i]
  OBVIOUS
<1>2. PICK i \in 1 .. Len(q) : q[i].job = j /\ q[i].who = "thread" /\ \A k \in 1 .. i - 1 : q[k].job # j
  BY DEF FirstIsAwaited
<1>3. i \in 1 .. Len(r) /\ \A k \in 1 .. i - 1 : k \in 1 .. Len(q)
  BY <1>1, <1>2
<1> HIDE DEF r
<1> QED
  BY <1>1, <1>2, <1>3 DEF FirstIsAwaited, r

LEMMA QuietKeeps ==
  ASSUME JobsInv, Quiet, JobTypes', LatchOK' PROVE JobsInv'
<1>1. ASSUME NEW j \in Jobs
      PROVE  JobOK(j, mem'[j].state, disk'[j].state, thread'.job, thread'.pc, started'[j], post'[j])
  <2>1. JobOK(j, mem[j].state, disk[j].state, thread.job, thread.pc, started[j], post[j]) /\ j # None
    BY NoneIsNoJob DEF JobsInv
  <2>2. started[j] \in Nat
    BY DEF JobsInv, JobTypes
  <2> QED
    BY <2>1, <2>2 DEF JobOK, Quiet, QuietThread
<1>2. QueueOK(queue', mem')
  BY QuietKeepsQueue DEF JobsInv, Quiet
<1>3. ASSUME thread'.pc = "admit" PROVE FirstIsAwaited(queue', thread'.job)
  <2>1. thread.pc = "admit" /\ thread'.job = thread.job
    BY <1>3 DEF Quiet, QuietThread
  <2>2. FirstIsAwaited(queue, thread.job) /\ queue \in Seq(Write)
    BY <2>1 DEF JobsInv, JobTypes
  <2> QED
    BY <2>1, <2>2, AppendKeepsFirst, Zenon DEF Quiet, QuietQueue
<1> QED
  BY <1>1, <1>2, <1>3 DEF JobsInv

-----------------------------------------------------------------------------
(* The thread's own steps.                                                 *)

\* What the steps of the thread that leave the disk, the starts and the requests
\* alone do to the Controller.
Moved ==
  /\ mem' \in [Jobs -> Record] /\ queue' \in Seq(Write)
  /\ thread' \in Thread /\ (thread'.pc # "idle" => thread'.job \in Jobs)
  /\ \A j \in Jobs : mem'[j].state = "none" <=> mem[j].state = "none"
  /\ QuietThread /\ QuietQueue

LEMMA MovedKeeps ==
  ASSUME JobsInv, Moved, UNCHANGED <<disk, started, generation, emergency>>,
         post' \in [Jobs -> PostStates], \A j \in Jobs : post'[j] \in Open => post[j] \in Open
  PROVE  JobsInv'
<1>1. Quiet
  BY DEF Moved, Quiet
<1>2. JobTypes'
  BY DEF JobsInv, JobTypes, Moved
<1>3. LatchOK'
  BY DEF JobsInv, LatchOK, emergency
<1> QED
  BY <1>1, <1>2, <1>3, QuietKeeps

LEMMA Goes ==
  ASSUME thread \in Thread, NEW p \in Before \cup After \cup {"idle"}
  PROVE  LET t == [thread EXCEPT !.pc = p] IN t \in Thread /\ t.pc = p /\ t.job = thread.job
  BY DEF Thread

LEMMA Interrupts ==
  ASSUME thread \in Thread
  PROVE  RequestInterrupt \in Thread /\ RequestInterrupt.pc = thread.pc /\ RequestInterrupt.job = thread.job
  BY DEF RequestInterrupt, Thread

\* A thread that runs has a job with a record.
LEMMA ThreadHasRecord ==
  ASSUME JobsInv, thread.pc # "idle" \/ Busy
  PROVE  J \in Jobs /\ mem[J] \in Record /\ mem[J].state # "none"
<1>1. J \in Jobs
  BY DEF JobsInv, JobTypes, Busy, J, Thread
<1>2. JobOK(J, mem[J].state, disk[J].state, thread.job, thread.pc, started[J], post[J])
  BY <1>1 DEF JobsInv
<1> QED
  BY <1>1, <1>2 DEF JobOK, J, JobsInv, JobTypes

\* SetState and its write, for a job with a record.
LEMMA StateIsSet ==
  ASSUME JobsInv, thread.pc # "idle" \/ Busy, NEW s \in States \ {"none"}, NEW who \in {"thread", "cancel", "started"},
         SetState(s), queue' = Persist(J, [mem[J] EXCEPT !.state = s], who)
  PROVE  /\ mem' \in [Jobs -> Record] /\ queue' \in Seq(Write) /\ QuietQueue
         /\ \A j \in Jobs : mem'[j].state = "none" <=> mem[j].state = "none"
<1>1. J \in Jobs /\ mem[J] \in Record /\ mem[J].state # "none"
  BY ThreadHasRecord
<1> DEFINE r == [mem[J] EXCEPT !.state = s]
           w == [job |-> J, record |-> r, who |-> who]
<1>2. r \in Record /\ r.state = s
  BY <1>1 DEF Record
<1>3. mem' = [mem EXCEPT ![J] = r] /\ mem \in [Jobs -> Record]
  BY DEF SetState, JobsInv, JobTypes
<1> HIDE DEF r
<1>4. w \in Write /\ w.record.state # "none" /\ mem[w.job].state # "none"
  BY <1>1, <1>2 DEF Write
<1>5. queue' = Append(queue, w) /\ queue \in Seq(Write)
  BY DEF Persist, JobsInv, JobTypes, r
<1> HIDE DEF w
<1>6. mem' \in [Jobs -> Record]
  BY <1>1, <1>2, <1>3
<1>7. \A j \in Jobs : mem'[j].state = "none" <=> mem[j].state = "none"
  BY <1>1, <1>2, <1>3
<1>8. queue' \in Seq(Write)
  BY <1>4, <1>5
<1> QED
  BY <1>4, <1>5, <1>6, <1>7, <1>8, Zenon DEF QuietQueue

LEMMA TerminalMoves ==
  ASSUME JobsInv, thread.pc \notin {"idle", "admit"}, NEW s \in Final, Terminal(s) PROVE Moved
<1>1. thread \in Thread /\ thread.job \in Jobs
  BY DEF JobsInv, JobTypes
<1>2. thread' \in Thread /\ thread'.pc = "terminal" /\ thread'.job = thread.job
  BY <1>1, Goes DEF Terminal, Go, After
<1>3. s \in States \ {"none"}
  BY DEF Final, States
<1>4. QuietThread
  BY <1>2 DEF QuietThread, Before
<1> QED
  BY <1>1, <1>2, <1>3, <1>4, StateIsSet DEF Terminal, Moved

LEMMA CancelledOrOK == \A s \in Final : CancelledOr(s) \in Final
  BY DEF CancelledOr, Final

LEMMA IdleMoves == ASSUME thread' = Idle PROVE QuietThread /\ thread' \in Thread /\ thread'.pc = "idle"
  BY IdleOK DEF QuietThread

\* Steps of the thread alone.
LEMMA ThreadMoves ==
  ASSUME JobsInv, QuietThread, thread' \in Thread, thread'.pc # "idle" => thread'.job \in Jobs,
         UNCHANGED <<mem, queue>>
  PROVE  Moved
  BY DEF JobsInv, JobTypes, Moved, QuietQueue

LEMMA ThrewMoves ==
  ASSUME JobsInv, thread.pc \notin {"idle", "admit"}, Threw PROVE Moved
<1>1. CASE thread.late
  BY <1>1, IdleMoves, ThreadMoves DEF Threw, Ignored
<1>2. CASE ~thread.late
  BY <1>2, TerminalMoves DEF Threw, Final
<1> QED
  BY <1>1, <1>2

LEMMA ResultMoves ==
  ASSUME JobsInv, thread.pc \notin {"idle", "admit"}, NEW s \in Final, Result(s) PROVE Moved
<1>1. CASE thread.late
  BY <1>1, IdleMoves, ThreadMoves DEF Result, Ignored
<1>2. CASE ~thread.late /\ thread.unsaved
  <2>1. SetState("failed") /\ thread' = Idle /\ queue' = queue
    BY <1>2 DEF Result
  <2>2. J \in Jobs /\ mem[J] \in Record /\ mem[J].state # "none" /\ mem \in [Jobs -> Record]
    BY ThreadHasRecord DEF JobsInv, JobTypes
  <2> DEFINE r == [mem[J] EXCEPT !.state = "failed"]
  <2>3. r \in Record /\ r.state # "none"
    BY <2>2 DEF Record, States, Final
  <2>4. mem' = [mem EXCEPT ![J] = r]
    BY <2>1 DEF SetState
  <2> HIDE DEF r
  <2>5. mem' \in [Jobs -> Record] /\ \A j \in Jobs : mem'[j].state = "none" <=> mem[j].state = "none"
    BY <2>2, <2>3, <2>4
  <2> QED
    BY <2>1, <2>5, IdleMoves DEF Moved, QuietQueue, JobsInv, JobTypes
<1>3. CASE ~thread.late /\ ~thread.unsaved
  BY <1>3, TerminalMoves, CancelledOrOK DEF Result
<1> QED
  BY <1>1, <1>2, <1>3

\* The steps of the thread and of its requests that move it and nothing else.
LEMMA ThreadSteps ==
  ASSUME JobsInv,
         \/ Prepare \/ Validate \/ CancelledLate \/ ReconcileAmbiguousStart \/ Observe \/ ReconcileUnknownExecution
         \/ Timeout \/ Cancel \/ SendInterrupt
  PROVE  JobsInv'
<1>0. thread \in Thread /\ post \in [Jobs -> PostStates]
  BY DEF JobsInv, JobTypes
<1>1. ASSUME Prepare PROVE Moved
  <2>1. thread.pc = "prepare" /\ thread.job \in Jobs
    BY <1>1 DEF Prepare, JobsInv, JobTypes
  <2>2. ASSUME NEW s \in Final, Terminal(s) PROVE Moved
    BY <2>1, <2>2, TerminalMoves
  <2>3. ASSUME Go("validate"), UNCHANGED <<mem, queue>> PROVE Moved
    <3>1. thread' \in Thread /\ thread'.pc = "validate" /\ thread'.job = thread.job
      BY <1>0, <2>3, Goes DEF Go, Before
    <3> QED
      BY <2>1, <2>3, <3>1, ThreadMoves DEF QuietThread, Before
  <2> QED
    BY <1>1, <2>2, <2>3, CancelledOrOK DEF Prepare, Final
<1>2. ASSUME Validate PROVE Moved
  <2>1. thread.pc = "validate" /\ thread.job \in Jobs
    BY <1>2 DEF Validate, JobsInv, JobTypes
  <2>2. ASSUME NEW s \in Final, Terminal(s) PROVE Moved
    BY <2>1, <2>2, TerminalMoves
  <2>3. ASSUME SetState("running"), queue' = Persist(J, [mem[J] EXCEPT !.state = "running"], "thread"), Go("running")
        PROVE  Moved
    <3>1. thread' \in Thread /\ thread'.pc = "running" /\ thread'.job = thread.job
      BY <1>0, <2>3, Goes DEF Go, Before
    <3>2. QuietThread
      BY <2>1, <3>1 DEF QuietThread, Before
    <3>3. "running" \in States \ {"none"}
      BY DEF States, Final
    <3> QED
      BY <2>1, <2>3, <3>1, <3>2, <3>3, StateIsSet DEF Moved
  <2> QED
    BY <1>2, <2>2, <2>3 DEF Validate, Final
<1>3. ASSUME CancelledLate PROVE Moved
  BY <1>3, TerminalMoves DEF CancelledLate, Final
<1>4. ASSUME ReconcileAmbiguousStart PROVE Moved
  BY <1>4, ResultMoves DEF ReconcileAmbiguousStart, Final
<1>5. ASSUME Observe PROVE Moved
  BY <1>5, ResultMoves DEF Observe, Final
<1>6. ASSUME ReconcileUnknownExecution PROVE Moved
  <2>1. thread.pc = "unknown" /\ thread.job \in Jobs /\ generation \in Nat
    BY <1>6 DEF ReconcileUnknownExecution, JobsInv, JobTypes
  <2>2. CASE Result("failed")
    BY <2>1, <2>2, ResultMoves DEF Final
  <2>3. CASE thread' = [thread EXCEPT !.gen = generation] /\ UNCHANGED <<mem, queue>>
    <3>1. thread' \in Thread /\ thread'.pc = thread.pc /\ thread'.job = thread.job
      BY <1>0, <2>1, <2>3 DEF Thread
    <3> QED
      BY <2>1, <2>3, <3>1, ThreadMoves DEF QuietThread
  <2> QED
    BY <1>6, <2>2, <2>3 DEF ReconcileUnknownExecution
<1>7. ASSUME Timeout PROVE Moved
  <2>1. thread.pc # "idle" /\ thread.job \in Jobs
    BY <1>7 DEF Timeout, JobsInv, JobTypes
  <2>2. thread' \in Thread /\ thread'.pc = thread.pc /\ thread'.job = thread.job
    BY <1>0, <1>7, Zenon DEF Timeout, Thread
  <2>3. "failed" \in States \ {"none"}
    BY DEF States, Final
  <2> QED
    BY <1>7, <2>1, <2>2, <2>3, StateIsSet DEF Moved, QuietThread, Timeout
<1>8. ASSUME CancelActive, UNCHANGED thread PROVE Moved
  <2>1. "cancelling" \in States \ {"none"}
    BY DEF States, Final
  <2>2. Busy /\ (thread.pc # "idle" => thread.job \in Jobs)
    BY <1>8 DEF CancelActive, JobsInv, JobTypes
  <2> QED
    BY <1>0, <1>8, <2>1, <2>2, StateIsSet DEF Moved, QuietThread, CancelActive
<1>9. ASSUME SendInterrupt PROVE Moved
  <2>1. thread' \in Thread /\ thread'.pc = thread.pc /\ thread'.job = thread.job
    BY <1>0, <1>9 DEF SendInterrupt, Thread
  <2> QED
    BY <1>9, <2>1, ThreadMoves DEF QuietThread, SendInterrupt, JobsInv, JobTypes
<1>10. Moved
  BY <1>1, <1>2, <1>3, <1>4, <1>5, <1>6, <1>7, <1>8, <1>9 DEF Cancel
<1>11. UNCHANGED <<disk, started, generation, emergency, post>>
  BY DEF Prepare, Validate, CancelledLate, ReconcileAmbiguousStart, Observe, ReconcileUnknownExecution,
         Timeout, Cancel, SendInterrupt, executor
<1> QED
  BY <1>0, <1>10, <1>11, MovedKeeps

LEMMA EmergencySteps ==
  ASSUME JobsInv,
         \/ Latch \/ RecordStoppedGeneration \/ InterruptActive \/ TriggerHardRestart \/ ReadForResume \/ Resume
  PROVE  JobsInv'
<1>1. UNCHANGED <<disk, started, generation, post, thread>>
  BY DEF Latch, RecordStoppedGeneration, InterruptActive, TriggerHardRestart, ReadForResume, Resume,
         executor, controller
<1>2. QuietThread /\ JobTypes
  BY <1>1 DEF QuietThread, JobsInv
<1>3. Moved
  <2>1. CASE InterruptActive /\ CancelActive
    <3>1. "cancelling" \in States \ {"none"}
      BY DEF States, Final
    <3> QED
      BY <1>1, <1>2, <2>1, <3>1, StateIsSet, Zenon DEF Moved, CancelActive, JobTypes
  <2>2. CASE UNCHANGED <<mem, queue>>
    BY <1>1, <1>2, <2>2, ThreadMoves DEF JobTypes
  <2> QED
    BY <2>1, <2>2 DEF Latch, RecordStoppedGeneration, InterruptActive, TriggerHardRestart, ReadForResume, Resume,
         controller
<1>4. LatchOK'
  <2>1. LatchOK /\ generation \in Nat /\ generation' = generation
    BY <1>1, <1>2 DEF JobsInv, JobTypes
  <2>2. CASE Latch
    BY <2>1, <2>2 DEF Latch, LatchOK
  <2>3. CASE RecordStoppedGeneration
    BY <2>1, <2>3 DEF RecordStoppedGeneration, LatchOK
  <2>4. CASE InterruptActive
    BY <2>1, <2>4 DEF InterruptActive, LatchOK
  <2>5. CASE TriggerHardRestart
    BY <2>1, <2>5, Zenon DEF TriggerHardRestart, LatchOK
  <2>6. CASE ReadForResume
    <3> DEFINE b == Running = {}
    <3>1. b \in BOOLEAN
      OBVIOUS
    <3> HIDE DEF b
    <3>2. resuming' = [pc |-> "read", gen |-> generation, idle |-> b] /\ latch' = latch
      BY <2>6 DEF ReadForResume, b
    <3> QED
      BY <2>1, <3>1, <3>2 DEF LatchOK
  <2>7. CASE Resume
    <3>1. resuming' = NoResume /\ (latch' = latch \/ latch' = [latch EXCEPT !.stopped = FALSE, !.gen = 0])
      BY <2>7 DEF Resume
    <3>2. latch'.gen <= generation /\ latch' \in [stopped : BOOLEAN, gen : Nat, restarted : BOOLEAN]
      <4>1. CASE latch' = latch
        BY <2>1, <4>1 DEF LatchOK
      <4>2. CASE latch' = [latch EXCEPT !.stopped = FALSE, !.gen = 0]
        <5>1. latch' = [stopped |-> FALSE, gen |-> 0, restarted |-> latch.restarted] /\ latch.restarted \in BOOLEAN
          BY <2>1, <4>2, Zenon DEF LatchOK
        <5> QED
          BY <2>1, <5>1
      <4> QED
        BY <3>1, <4>1, <4>2
    <3> QED
      BY <2>1, <3>1, <3>2 DEF LatchOK, NoResume
  <2> QED
    BY <2>2, <2>3, <2>4, <2>5, <2>6, <2>7
<1>5. Quiet
  BY <1>1, <1>3 DEF Quiet, Moved
<1>6. JobTypes'
  BY <1>1, <1>2, <1>3 DEF JobTypes, Moved
<1> QED
  BY <1>4, <1>5, <1>6, QuietKeeps

-----------------------------------------------------------------------------
(* The start request, the Executor, admission, writes and crashes.         *)

LEMMA RequestSteps ==
  ASSUME JobsInv, Answered \/ PostFails PROVE JobsInv'
<1>0. /\ thread \in Thread /\ post \in [Jobs -> PostStates] /\ generation \in Nat
      /\ thread.pc = "posted" /\ thread.job \in Jobs
  BY DEF JobsInv, JobTypes, Answered, PostFails
<1>1. J \in Jobs /\ mem[J] \in Record /\ mem[J].state # "none" /\ mem \in [Jobs -> Record]
  BY <1>0, ThreadHasRecord DEF JobsInv, JobTypes
<1>2. /\ post' \in [Jobs -> PostStates]
      /\ \A j \in Jobs : post'[j] \in Open => post[j] \in Open
  BY <1>0, <1>1 DEF Answered, PostFails, Forgotten, PostStates, Open
<1>3. CASE PostFails
  <2>1. thread' \in Thread /\ thread'.pc = "ambiguous" /\ thread'.job = thread.job
    BY <1>0, <1>3, Goes DEF PostFails, Go, After
  <2>2. Moved
    BY <1>0, <1>3, <2>1, ThreadMoves DEF PostFails, QuietThread, Before
  <2> QED
    BY <1>2, <1>3, <2>2, MovedKeeps DEF PostFails
<1>4. CASE Answered
  <2>1. ASSUME mem' = [mem EXCEPT ![J].at = generation],
               queue' = Persist(J, [mem[J] EXCEPT !.at = generation], "started"),
               thread' = [(IF mem[J].state = "cancelling" THEN RequestInterrupt ELSE thread) EXCEPT !.pc = "observe"]
        PROVE  Moved
    <3> DEFINE r == [mem[J] EXCEPT !.at = generation]
               w == [job |-> J, record |-> r, who |-> "started"]
               t == IF mem[J].state = "cancelling" THEN RequestInterrupt ELSE thread
    <3>1. r \in Record /\ r.state = mem[J].state
      BY <1>0, <1>1 DEF Record
    <3>2. mem' = [mem EXCEPT ![J] = r]
      BY <2>1
    <3> HIDE DEF r
    <3>3. w \in Write /\ w.record.state # "none" /\ mem[w.job].state # "none"
      BY <1>1, <3>1 DEF Write
    <3>4. queue' = Append(queue, w) /\ queue \in Seq(Write)
      BY <2>1 DEF Persist, JobsInv, JobTypes, r
    <3> HIDE DEF w
    <3>5. t \in Thread /\ t.job = thread.job
      BY <1>0, Interrupts
    <3>6. thread' = [t EXCEPT !.pc = "observe"]
      BY <2>1
    <3> HIDE DEF t
    <3>7. thread' \in Thread /\ thread'.pc = "observe" /\ thread'.job = thread.job
      BY <3>5, <3>6 DEF Thread, After
    <3>8. QuietThread /\ QuietQueue
      BY <1>0, <3>3, <3>4, <3>7 DEF QuietThread, QuietQueue, Before
    <3>9. mem' \in [Jobs -> Record] /\ \A j \in Jobs : mem'[j].state = "none" <=> mem[j].state = "none"
      BY <1>1, <3>1, <3>2
    <3>10. queue' \in Seq(Write)
      BY <3>3, <3>4
    <3> QED
      BY <1>0, <3>7, <3>8, <3>9, <3>10 DEF Moved
  <2>2. ASSUME Result("failed") \/ Threw PROVE Moved
    BY <1>0, <2>2, ResultMoves, ThrewMoves DEF Final
  <2>3. Moved
    BY <1>4, <2>1, <2>2 DEF Answered
  <2> QED
    BY <1>2, <1>4, <2>3, MovedKeeps DEF Answered
<1> QED
  BY <1>3, <1>4

LEMMA ReadStatusKeeps == ASSUME JobsInv, ReadStatus PROVE JobsInv'
<1>0. /\ thread \in Thread /\ post \in [Jobs -> PostStates] /\ generation \in Nat
      /\ thread.pc = "status" /\ thread.job \in Jobs /\ J = thread.job
  BY DEF JobsInv, JobTypes, ReadStatus, J
<1>1. CASE Threw /\ UNCHANGED post
  BY <1>0, <1>1, ThrewMoves, MovedKeeps DEF ReadStatus
<1>2. CASE /\ thread' = [thread EXCEPT !.pc = "posted", !.gen = generation] /\ post' = [post EXCEPT ![J] = "sent"]
           /\ UNCHANGED <<mem, queue>>
  <2>1. thread' \in Thread /\ thread'.pc = "posted" /\ thread'.job = thread.job
    BY <1>0, <1>2, Zenon DEF Thread, After
  <2>2. UNCHANGED <<disk, mem, queue, started, generation, emergency>> /\ post' \in [Jobs -> PostStates]
    BY <1>0, <1>2 DEF ReadStatus, PostStates
  <2>3. JobTypes' /\ LatchOK'
    BY <1>0, <2>1, <2>2 DEF JobsInv, JobTypes, LatchOK, emergency
  <2>4. ASSUME NEW j \in Jobs
        PROVE  JobOK(j, mem'[j].state, disk'[j].state, thread'.job, thread'.pc, started'[j], post'[j])
    <3>1. JobOK(j, mem[j].state, disk[j].state, thread.job, thread.pc, started[j], post[j])
      BY DEF JobsInv
    <3>2. post'[j] = IF j = thread.job THEN "sent" ELSE post[j]
      BY <1>0, <1>2
    <3> QED
      BY <1>0, <2>1, <2>2, <3>1, <3>2 DEF JobOK, Before
  <2> QED
    BY <2>1, <2>2, <2>3, <2>4 DEF JobsInv
<1> QED
  BY <1>1, <1>2 DEF ReadStatus

LEMMA ExecutorSteps ==
  ASSUME JobsInv, ExecutorRestarts \/ \E j \in Jobs : Receive(j) \/ StartExecution(j) \/ ExecutionEnds(j)
  PROVE  JobsInv'
<1>0. /\ thread \in Thread /\ post \in [Jobs -> PostStates] /\ generation \in Nat \ {0} /\ started \in [Jobs -> Nat]
      /\ JobTypes
  BY DEF JobsInv, JobTypes
<1>1. UNCHANGED <<disk, mem, queue, thread, emergency>>
  BY DEF ExecutorRestarts, Receive, StartExecution, ExecutionEnds, controller
<1>2. /\ post' \in [Jobs -> PostStates] /\ started' \in [Jobs -> Nat]
      /\ generation' \in Nat \ {0} /\ generation' >= generation
  <2>1. CASE ExecutorRestarts
    BY <1>0, <2>1 DEF ExecutorRestarts, PostStates
  <2>2. ASSUME NEW j \in Jobs, Receive(j) \/ StartExecution(j) \/ ExecutionEnds(j)
        PROVE  /\ post' \in [Jobs -> PostStates] /\ started' \in [Jobs -> Nat] /\ generation' = generation
    BY <1>0, <2>2 DEF Receive, StartExecution, ExecutionEnds, PostStates
  <2> QED
    BY <1>0, <2>1, <2>2
<1>3. JobTypes'
  BY <1>0, <1>1, <1>2 DEF JobTypes
<1>4. LatchOK'
  <2>1. latch' = latch /\ resuming' = resuming /\ LatchOK
    BY <1>1 DEF emergency, JobsInv
  <2> QED
    BY <1>0, <1>2, <2>1 DEF LatchOK
<1>5. ASSUME NEW j \in Jobs
      PROVE  \/ started'[j] = started[j] /\ (post'[j] \in Open => post[j] \in Open)
             \/ post[j] \in Open /\ post'[j] \notin Open /\ started'[j] = started[j] + 1
  <2>1. CASE ExecutorRestarts
    BY <1>0, <2>1 DEF ExecutorRestarts, Open
  <2>2. ASSUME NEW k \in Jobs, Receive(k) \/ ExecutionEnds(k)
        PROVE  started'[j] = started[j] /\ (post'[j] \in Open => post[j] \in Open)
    BY <1>0, <2>2 DEF Receive, ExecutionEnds, Open
  <2>3. ASSUME NEW k \in Jobs, StartExecution(k) 
        PROVE  \/ started'[j] = started[j] /\ (post'[j] \in Open => post[j] \in Open)
               \/ post[j] \in Open /\ post'[j] \notin Open /\ started'[j] = started[j] + 1
    BY <1>0, <2>3 DEF StartExecution, Open
  <2> QED
    BY <2>1, <2>2, <2>3
<1>6. ASSUME NEW j \in Jobs
      PROVE  JobOK(j, mem'[j].state, disk'[j].state, thread'.job, thread'.pc, started'[j], post'[j])
  <2>1. JobOK(j, mem[j].state, disk[j].state, thread.job, thread.pc, started[j], post[j]) /\ started[j] \in Nat
    BY <1>0 DEF JobsInv
  <2> QED
    BY <1>1, <1>5, <2>1 DEF JobOK
<1> QED
  BY <1>1, <1>3, <1>4, <1>6 DEF JobsInv

LEMMA AdmitKeeps == ASSUME JobsInv, NEW a \in Jobs, Admit(a) PROVE JobsInv'
<1>0. /\ JobTypes /\ mem \in [Jobs -> Record] /\ queue \in Seq(Write) /\ thread.job = None
      /\ mem[a].state = "none"
  BY NoRecordOK DEF JobsInv, JobTypes, Admit, Busy
<1> DEFINE w == [job |-> a, record |-> [state |-> "queued", at |-> 0], who |-> "thread"]
<1>1. w \in Write /\ w.record.state # "none" /\ w.job = a /\ w.who = "thread"
  BY DEF Write, Record, States
<1>2. queue' = Append(queue, w) /\ UNCHANGED <<disk, post, started, generation, emergency>>
  BY DEF Admit, Persist, executor
<1> HIDE DEF w
<1>3. thread' \in Thread /\ thread'.job = a /\ thread'.pc = "admit"
  BY Zenon DEF Admit, Idle, Thread, Before
<1>4. /\ mem' \in [Jobs -> Record] /\ mem'[a].state = "queued"
      /\ \A j \in Jobs \ {a} : mem'[j] = mem[j]
  BY <1>0 DEF Admit, Record, States
<1>5. queue' \in Seq(Write) /\ Len(queue') = Len(queue) + 1 /\ queue'[Len(queue) + 1] = w
      /\ \A i \in 1 .. Len(queue) : queue'[i] = queue[i] /\ queue[i] \in Write
  BY <1>0, <1>1, <1>2
<1>6. JobTypes' /\ LatchOK'
  BY <1>0, <1>2, <1>3, <1>4, <1>5 DEF JobTypes, JobsInv, LatchOK, emergency
<1>7. ASSUME NEW j \in Jobs
      PROVE  JobOK(j, mem'[j].state, disk'[j].state, thread'.job, thread'.pc, started'[j], post'[j])
  <2>1. JobOK(j, mem[j].state, disk[j].state, thread.job, thread.pc, started[j], post[j])
    BY DEF JobsInv
  <2> QED
    BY <1>0, <1>2, <1>3, <1>4, <2>1 DEF JobOK
<1>8. \A i \in 1 .. Len(queue) : queue[i].job \in Jobs \ {a}
  <2>1. \A i \in 1 .. Len(queue) : queue[i].job \in Jobs
    BY <1>5 DEF Write
  <2> QED
    BY <1>0, <2>1 DEF JobsInv, QueueOK
<1>9. QueueOK(queue', mem')
  <2>1. \A i \in 1 .. Len(queue') : i \in 1 .. Len(queue) \/ i = Len(queue) + 1
    BY <1>0, <1>5
  <2> QED
    BY <1>1, <1>4, <1>5, <1>8, <2>1 DEF QueueOK, JobsInv
<1>10. FirstIsAwaited(queue', a)
  <2>1. Len(queue) + 1 \in 1 .. Len(queue') /\ \A k \in 1 .. (Len(queue) + 1) - 1 : k \in 1 .. Len(queue)
    BY <1>0, <1>5
  <2> QED
    BY <1>1, <1>5, <1>8, <2>1 DEF FirstIsAwaited
<1> QED
  BY <1>3, <1>6, <1>7, <1>9, <1>10 DEF JobsInv

LEMMA AdmissionFailsKeeps == ASSUME JobsInv, AdmissionFails PROVE JobsInv'
<1>0. JobTypes /\ mem \in [Jobs -> Record] /\ thread.pc = "admit" /\ J \in Jobs /\ J = thread.job
  BY DEF JobsInv, JobTypes, AdmissionFails, J
<1>1. thread' \in Thread /\ thread'.job = None /\ thread'.pc = "idle" /\ queue' = <<>>
      /\ UNCHANGED <<disk, post, started, generation, emergency>>
  BY IdleOK DEF AdmissionFails, executor
<1>2. /\ mem' \in [Jobs -> Record] /\ mem'[J].state = "none" /\ \A j \in Jobs \ {J} : mem'[j] = mem[j]
  BY <1>0, NoRecordOK DEF AdmissionFails
<1>3. JobTypes' /\ LatchOK'
  BY <1>0, <1>1, <1>2 DEF JobTypes, JobsInv, LatchOK, emergency
<1>4. ASSUME NEW j \in Jobs
      PROVE  JobOK(j, mem'[j].state, disk'[j].state, thread'.job, thread'.pc, started'[j], post'[j])
  <2>1. JobOK(j, mem[j].state, disk[j].state, thread.job, thread.pc, started[j], post[j]) /\ j # None
    BY NoneIsNoJob DEF JobsInv
  <2> QED
    BY <1>0, <1>1, <1>2, <2>1 DEF JobOK
<1>5. QueueOK(queue', mem')
  BY <1>1 DEF QueueOK
<1> QED
  BY <1>1, <1>3, <1>4, <1>5 DEF JobsInv

LEMMA WrittenKeeps == ASSUME JobsInv, Written PROVE JobsInv'
<1> DEFINE w == Head(queue)
<1>0. /\ JobTypes /\ queue \in Seq(Write) /\ queue # <<>> /\ queue' = Tail(queue) /\ thread \in Thread
      /\ disk \in [Jobs -> Record]
  BY DEF JobsInv, JobTypes, Written
<1>1. w \in Write /\ w = queue[1] /\ 1 \in 1 .. Len(queue)
  BY <1>0
<1>2. w.job \in Jobs /\ w.record \in Record /\ w.record.state # "none" /\ mem[w.job].state # "none"
  BY <1>1 DEF Write, JobsInv, QueueOK
<1>3. disk' = [disk EXCEPT ![w.job] = w.record] /\ UNCHANGED <<mem, post, started, generation, emergency>>
  BY DEF Written, executor
<1>4. ASSUME thread.pc = "admit", w.job = J PROVE w.who = "thread"
  <2>1. PICK i \in 1 .. Len(queue) : /\ queue[i].job = J /\ queue[i].who = "thread"
                                     /\ \A k \in 1 .. i - 1 : queue[k].job # J
    BY <1>4 DEF JobsInv, FirstIsAwaited, J
  <2>2. i = 1 \/ 1 \in 1 .. i - 1
    BY <2>1
  <2> QED
    BY <1>1, <1>4, <2>1, <2>2
<1> HIDE DEF w
<1>5. thread' \in Thread /\
      (\/ w.job = J /\ thread.pc = "admit" /\ thread'.pc = "prepare" /\ thread'.job = thread.job
       \/ thread.pc = "running" /\ thread'.pc \in {"cancelled", "status"} /\ thread'.job = thread.job
       \/ thread'.pc = "idle" /\ thread'.job = None
       \/ thread'.pc = thread.pc /\ thread'.job = thread.job /\ (thread.pc = "admit" => w.job # J))
  <2> DEFINE awaited == w.who = "thread" /\ w.job = J
  <2>1. thread' = IF awaited /\ thread.pc = "admit" THEN [thread EXCEPT !.pc = "prepare"]
                  ELSE IF awaited /\ thread.pc = "running"
                       THEN [thread EXCEPT !.pc = IF mem[J].state = "cancelling" THEN "cancelled" ELSE "status"]
                  ELSE IF awaited /\ thread.pc = "terminal" THEN Idle
                  ELSE IF w.job = J /\ (w.who = "cancel" \/ thread.late) THEN RequestInterrupt ELSE thread
    BY DEF Written, w
  <2>2. CASE awaited /\ thread.pc = "admit"
    BY <1>0, <2>1, <2>2, Goes, Zenon DEF Before
  <2>3. CASE awaited /\ thread.pc = "running"
    <3> DEFINE p == IF mem[J].state = "cancelling" THEN "cancelled" ELSE "status"
    <3>1. p \in {"cancelled", "status"}
      OBVIOUS
    <3>2. thread' = [thread EXCEPT !.pc = p]
      BY <2>1, <2>3
    <3> HIDE DEF p
    <3> QED
      BY <1>0, <2>3, <3>1, <3>2, Goes, Zenon DEF Before, After
  <2>4. CASE awaited /\ thread.pc = "terminal"
    BY <2>1, <2>4, IdleOK
  <2>5. CASE ~(awaited /\ thread.pc \in {"admit", "running", "terminal"})
    <3>1. thread' = RequestInterrupt \/ thread' = thread
      BY <2>1, <2>5
    <3>2. thread.pc = "admit" => w.job # J
      BY <1>4, <2>5
    <3> QED
      BY <1>0, <3>1, <3>2, Interrupts
  <2> QED
    BY <2>2, <2>3, <2>4, <2>5
<1>6. \A j \in Jobs : disk'[j] = IF j = w.job THEN w.record ELSE disk[j]
  BY <1>0, <1>2, <1>3
<1>7. ASSUME NEW j \in Jobs
      PROVE  JobOK(j, mem'[j].state, disk'[j].state, thread'.job, thread'.pc, started'[j], post'[j])
  <2>1. JobOK(j, mem[j].state, disk[j].state, thread.job, thread.pc, started[j], post[j]) /\ j # None
    BY NoneIsNoJob DEF JobsInv
  <2>2. disk'[j].state = "none" <=> disk[j].state = "none" /\ j # w.job
    BY <1>2, <1>6
  <2> QED
    BY <1>2, <1>3, <1>5, <2>1, <2>2 DEF JobOK, Before, J
<1>8. JobTypes' /\ LatchOK'
  <2>1. disk' \in [Jobs -> Record] /\ queue' \in Seq(Write)
    BY <1>0, <1>2, <1>3
  <2>2. thread'.pc # "idle" => thread'.job \in Jobs
    BY <1>0, <1>5 DEF JobTypes
  <2> QED
    BY <1>0, <1>3, <1>5, <2>1, <2>2 DEF JobTypes, JobsInv, LatchOK, emergency
<1>9. /\ Len(queue') = Len(queue) - 1 /\ Len(queue) \in Nat
      /\ \A i \in 1 .. Len(queue) - 1 : queue'[i] = queue[i + 1] /\ i + 1 \in 1 .. Len(queue)
  BY <1>0
<1>10. QueueOK(queue', mem')
  BY <1>3, <1>9, Zenon DEF JobsInv, QueueOK
<1>11. ASSUME thread'.pc = "admit" PROVE FirstIsAwaited(queue', thread'.job)
  <2>1. thread.pc = "admit" /\ thread'.job = J /\ w.job # J
    BY <1>5, <1>11 DEF J
  <2>2. PICK i \in 1 .. Len(queue) : /\ queue[i].job = J /\ queue[i].who = "thread"
                                     /\ \A k \in 1 .. i - 1 : queue[k].job # J
    BY <2>1 DEF JobsInv, FirstIsAwaited, J
  <2>3. i # 1
    BY <1>1, <2>1, <2>2
  <2>4. i - 1 \in 1 .. Len(queue') /\ queue'[i - 1] = queue[i]
        /\ \A k \in 1 .. (i - 1) - 1 : queue'[k] = queue[k + 1] /\ k + 1 \in 1 .. i - 1
    BY <1>9, <2>2, <2>3
  <2> QED
    BY <2>1, <2>2, <2>4, Zenon DEF FirstIsAwaited
<1> QED
  BY <1>7, <1>8, <1>10, <1>11 DEF JobsInv

LEMMA WriteFailsKeeps == ASSUME JobsInv, WriteFails PROVE JobsInv'
<1> DEFINE w == Head(queue)
<1>0. /\ queue \in Seq(Write) /\ queue # <<>> /\ queue' = Tail(queue) /\ thread \in Thread
      /\ mem \in [Jobs -> Record] /\ thread.pc # "admit" /\ post \in [Jobs -> PostStates]
      /\ (thread.pc # "idle" => thread.job \in Jobs)
  BY DEF JobsInv, JobTypes, WriteFails
<1>1. w \in Write /\ w = queue[1] /\ 1 \in 1 .. Len(queue)
  BY <1>0
<1>2. w.job \in Jobs /\ mem[w.job].state # "none" /\ mem[w.job] \in Record
  BY <1>0, <1>1 DEF Write, JobsInv, QueueOK
<1>3. UNCHANGED <<disk, post, started, generation, emergency>>
  BY DEF WriteFails, executor
<1>4. mem' = mem \/ mem' = [mem EXCEPT ![w.job].state = "failed"]
  BY DEF WriteFails
<1>5. \/ thread' = Idle \/ thread' = RequestInterrupt \/ thread' = [RequestInterrupt EXCEPT !.unsaved = TRUE]
      \/ thread' = thread
  BY DEF WriteFails
<1> HIDE DEF w
<1>6. QuietThread /\ thread' \in Thread /\ (thread'.pc # "idle" => thread'.job \in Jobs)
  <2>1. CASE thread' = Idle
    BY <2>1, IdleMoves
  <2>2. CASE thread' # Idle
    <3>1. PICK t \in Thread : /\ t.pc = thread.pc /\ t.job = thread.job
                              /\ thread' = t \/ thread' = [t EXCEPT !.unsaved = TRUE]
      BY <1>0, <1>5, <2>2, Interrupts
    <3>2. thread' \in Thread /\ thread'.pc = thread.pc /\ thread'.job = thread.job
      BY <3>1, Zenon DEF Thread
    <3> QED
      BY <1>0, <3>2 DEF QuietThread
  <2> QED
    BY <2>1, <2>2
<1>7. mem' \in [Jobs -> Record] /\ \A j \in Jobs : mem'[j].state = "none" <=> mem[j].state = "none"
  <2> DEFINE r == [mem[w.job] EXCEPT !.state = "failed"]
  <2>1. r \in Record /\ r.state # "none"
    BY <1>2 DEF Record, States, Final
  <2>2. mem' = mem \/ mem' = [mem EXCEPT ![w.job] = r]
    BY <1>4
  <2> HIDE DEF r
  <2> QED
    BY <1>0, <1>2, <2>1, <2>2
<1>8. queue' \in Seq(Write) /\ QuietQueue
  BY <1>0 DEF QuietQueue
<1>9. Moved
  BY <1>6, <1>7, <1>8 DEF Moved
<1> QED
  BY <1>0, <1>3, <1>9, MovedKeeps

LEMMA CrashKeeps == ASSUME JobsInv, Crash PROVE JobsInv'
<1> DEFINE active == {j \in Jobs : disk[j].state \in {"queued", "running", "cancelling"}}
<1>0. /\ JobTypes /\ disk \in [Jobs -> Record] /\ post \in [Jobs -> PostStates]
      /\ mem' = disk /\ queue' = <<>> /\ UNCHANGED <<disk, generation, started, latch>>
      /\ resuming' = NoResume /\ post' = [j \in Jobs |-> Forgotten(post[j])]
  BY DEF JobsInv, JobTypes, Crash
<1>1. \/ thread' = Idle
      \/ \E a \in active : thread' = Resumed(a)
  BY Zenon DEF Crash
<1>2. /\ thread' \in Thread /\ thread'.pc \in {"idle", "unknown", "observe"}
      /\ \/ thread'.pc = "idle" /\ thread'.job = None
         \/ thread'.job \in Jobs /\ disk[thread'.job].state # "none"
  <2>1. CASE thread' = Idle
    BY <2>1, IdleOK
  <2>2. ASSUME NEW a \in active, thread' = Resumed(a) 
        PROVE  /\ thread' \in Thread /\ thread'.pc \in {"unknown", "observe"}
               /\ thread'.job \in Jobs /\ disk[thread'.job].state # "none"
    BY <2>2, Zenon DEF Resumed, Idle, Thread, After
  <2> QED
    BY <1>1, <2>1, <2>2
<1> HIDE DEF active
<1>3. post' \in [Jobs -> PostStates] /\ \A j \in Jobs : post'[j] \in Open => post[j] \in Open
  BY <1>0 DEF Forgotten, PostStates, Open
<1>4. JobTypes' /\ LatchOK'
  BY <1>0, <1>2, <1>3 DEF JobTypes, JobsInv, LatchOK, NoResume
<1>5. ASSUME NEW j \in Jobs
      PROVE  JobOK(j, mem'[j].state, disk'[j].state, thread'.job, thread'.pc, started'[j], post'[j])
  <2>1. JobOK(j, mem[j].state, disk[j].state, thread.job, thread.pc, started[j], post[j]) /\ j # None
    BY NoneIsNoJob DEF JobsInv
  <2>2. started[j] \in Nat
    BY <1>0 DEF JobTypes
  <2> QED
    BY <1>0, <1>2, <1>3, <2>1, <2>2 DEF JobOK, Before
<1>6. QueueOK(queue', mem')
  BY <1>0 DEF QueueOK
<1> QED
  BY <1>2, <1>4, <1>5, <1>6 DEF JobsInv

-----------------------------------------------------------------------------
(* The results.                                                            *)

LEMMA JobsInit == RunnerJobsInit => JobsInv
<1> SUFFICES ASSUME RunnerJobsInit PROVE JobsInv
  OBVIOUS
<1>1. JobTypes
  BY IdleOK, NoRecordOK DEF RunnerJobsInit, JobTypes, PostStates
<1>2. LatchOK
  BY DEF RunnerJobsInit, LatchOK, NoResume
<1>3. ASSUME NEW j \in Jobs
      PROVE  JobOK(j, mem[j].state, disk[j].state, thread.job, thread.pc, started[j], post[j])
  BY IdleOK, NoRecordOK, NoneIsNoJob DEF RunnerJobsInit, JobOK, Before, Open
<1>4. QueueOK(queue, mem) /\ thread.pc # "admit"
  BY IdleOK DEF RunnerJobsInit, QueueOK
<1> QED
  BY <1>1, <1>2, <1>3, <1>4 DEF JobsInv

LEMMA JobsStep == JobsInv /\ [RunnerJobsNext]_jobVars => JobsInv'
<1> SUFFICES ASSUME JobsInv, [RunnerJobsNext]_jobVars PROVE JobsInv'
  OBVIOUS
<1>1. CASE UNCHANGED jobVars
  <2>1. Moved
    BY <1>1, ThreadMoves DEF jobVars, controller, QuietThread, JobsInv, JobTypes
  <2> QED
    BY <1>1, <2>1, MovedKeeps DEF jobVars, executor, JobsInv, JobTypes
<1>2. CASE RunnerJobsNext
  BY <1>2, ThreadSteps, EmergencySteps, RequestSteps, ReadStatusKeeps, ExecutorSteps, AdmitKeeps,
     AdmissionFailsKeeps, WrittenKeeps, WriteFailsKeeps, CrashKeeps DEF RunnerJobsNext
<1> QED
  BY <1>1, <1>2

\* The Controller's records, its queue of writes, the place of its thread and the
\* Executor's requests agree in every reachable state (job-runner.ts).
THEOREM JobsInvariant == RunnerJobsSpec => []JobsInv
  BY JobsInit, JobsStep, PTL DEF RunnerJobsSpec

\* A job's turn is started at most once, whatever requests are lost or late, writes
\* fail, executors restart and controllers crash (runWorkflowTurn, resumePersisted).
THEOREM JobsRunOnce == RunnerJobsSpec => []JobRunsOnce
<1>1. JobsInv => JobRunsOnce
  BY DEF JobsInv, JobRunsOnce, JobOK
<1> QED
  BY <1>1, JobsInvariant, PTL

\* Admission resumes on a status of the present Executor only if its restart was asked
\* for and its generation is newer than every recorded one (emergency-stop.ts).
THEOREM ResumeIsSafe == RunnerJobsSpec => ResumeNeedsReplacement
<1>1. ASSUME JobsInv, [RunnerJobsNext]_jobVars, latch.stopped, ~latch'.stopped, resuming.gen = generation
      PROVE  latch.restarted /\ generation > latch.gen
  <2>1. LatchOK /\ generation \in Nat \ {0}
    BY <1>1 DEF JobsInv, JobTypes
  <2>2. latch' # latch
    BY <1>1
  <2>3. Resume \/ Latch \/ RecordStoppedGeneration \/ TriggerHardRestart
    BY <1>1, <2>2, Zenon DEF RunnerJobsNext, Prepare, Validate, Written, AdmissionFails, WriteFails, CancelledLate,
       ReadStatus, Answered, PostFails, ReconcileAmbiguousStart, Observe, ReconcileUnknownExecution, Timeout,
       Cancel, SendInterrupt, Crash, ExecutorRestarts, Admit, Receive, StartExecution, ExecutionEnds,
       InterruptActive, ReadForResume, emergency, jobVars
  <2>4. ~(Latch \/ RecordStoppedGeneration \/ TriggerHardRestart)
    BY <1>1, <2>1 DEF Latch, RecordStoppedGeneration, TriggerHardRestart, LatchOK
  <2>5. SafeResume
    BY <1>1, <2>2, <2>3, <2>4 DEF Resume
  <2> QED
    BY <1>1, <2>1, <2>5 DEF SafeResume, LatchOK
<1>2. JobsInv /\ [RunnerJobsNext]_jobVars
        => [latch.stopped /\ ~latch'.stopped /\ resuming.gen = generation
              => latch.restarted /\ generation > latch.gen]_jobVars
  BY <1>1
<1> QED
  BY <1>2, JobsInvariant, PTL DEF RunnerJobsSpec, ResumeNeedsReplacement

-----------------------------------------------------------------------------
(* Final states.                                                           *)

\* What s said of a job, t still says if s was final.
Same(s, t) == s \in Final => t = s

\* From the disk through the queued writes, in their order, to the memory, a final
\* state of a job is followed by no other.
ChainOK(D, q, M) ==
  /\ \A j \in Jobs : Same(D[j].state, M[j].state)
  /\ \A i \in 1 .. Len(q) : /\ Same(D[q[i].job].state, q[i].record.state)
                            /\ Same(q[i].record.state, M[q[i].job].state)
  /\ \A i, k \in 1 .. Len(q) : i < k /\ q[i].job = q[k].job => Same(q[i].record.state, q[k].record.state)

\* A thread whose job may still end, in time, is of a job that has not ended (s is its
\* state).  A timeout comes only where Timeout lets it.
Timed == {"status", "posted", "ambiguous", "observe"}
Ended == {"idle", "terminal"}
ThreadOK(t, s, broken) ==
  /\ t.late => t.pc \in Timed
  /\ ~broken => ~t.unsaved /\ (t.pc \notin Ended /\ ~t.late => s \notin Final)

\* A failed write breaks the chain, and no write succeeds until the Controller restarts.
FinalInv ==
  /\ ThreadOK(thread, mem[thread.job].state, brokenWrites)
  /\ ~brokenWrites => ChainOK(disk, queue, mem)

\* The steps that write nothing to the disk: no final state is left, and what is
\* queued is what the memory says.
Stays ==
  /\ disk' = disk
  /\ \A j \in Jobs : Same(mem[j].state, mem'[j].state)
  /\ \/ queue' = queue
     \/ \E w \in Write : queue' = Append(queue, w) /\ w.record.state = mem'[w.job].state

LEMMA StaysKeepsChain ==
  ASSUME JobTypes, ChainOK(disk, queue, mem), Stays PROVE ChainOK(disk', queue', mem')
<1>0. \A i \in 1 .. Len(queue) : queue[i] \in Write
  BY DEF JobTypes
<1>1. \A i \in 1 .. Len(queue) : queue[i].job \in Jobs
  BY <1>0 DEF Write
<1>2. CASE queue' = queue
  <2>1. disk' = disk /\ \A j \in Jobs : Same(disk[j].state, mem[j].state) /\ Same(mem[j].state, mem'[j].state)
    BY DEF ChainOK, Stays
  <2>2. \A j \in Jobs : Same(disk[j].state, mem'[j].state)
    BY <2>1 DEF Same
  <2>3. \A i \in 1 .. Len(queue) : /\ Same(disk[queue[i].job].state, queue[i].record.state)
                                   /\ Same(queue[i].record.state, mem'[queue[i].job].state)
    BY <1>1, <2>1, Zenon DEF ChainOK, Same
  <2> QED
    BY <1>2, <2>1, <2>2, <2>3, Zenon DEF ChainOK
<1>3. ASSUME NEW w \in Write, queue' = Append(queue, w), w.record.state = mem'[w.job].state
      PROVE  ChainOK(disk', queue', mem')
  <2> DEFINE n == Len(queue)
  <2>1. /\ n \in Nat /\ Len(queue') = n + 1 /\ queue'[n + 1] = w
        /\ \A i \in 1 .. n : queue'[i] = queue[i]
    BY <1>3 DEF JobTypes
  <2> HIDE DEF n
  <2>2. \A i \in 1 .. Len(queue') : i \in 1 .. n \/ i = n + 1
    BY <2>1
  <2>3. \A i, k \in 1 .. Len(queue') : i < k => i \in 1 .. n
    BY <2>1
  <2>4. w.job \in Jobs
    BY DEF Write
  <2>5. \A i \in 1 .. n : /\ queue[i].job \in Jobs /\ Same(disk[queue[i].job].state, queue[i].record.state)
                          /\ Same(queue[i].record.state, mem[queue[i].job].state)
    BY <1>1 DEF ChainOK, n
  <2>6. \A j \in Jobs : Same(disk[j].state, mem[j].state) /\ Same(mem[j].state, mem'[j].state)
    BY DEF ChainOK, Stays
  <2>7. \A i, k \in 1 .. n : i < k /\ queue[i].job = queue[k].job => Same(queue[i].record.state, queue[k].record.state)
    BY DEF ChainOK, n
  <2>8. \A i \in 1 .. Len(queue') : /\ Same(disk[queue'[i].job].state, queue'[i].record.state)
                                    /\ Same(queue'[i].record.state, mem'[queue'[i].job].state)
    BY <1>3, <2>1, <2>2, <2>4, <2>5, <2>6 DEF Same
  <2>9. ASSUME NEW i \in 1 .. Len(queue'), NEW k \in 1 .. Len(queue'), i < k, queue'[i].job = queue'[k].job
        PROVE  Same(queue'[i].record.state, queue'[k].record.state)
    <3>1. i \in 1 .. n /\ queue'[i] = queue[i]
      BY <2>1, <2>3, <2>9
    <3>2. CASE k \in 1 .. n
      BY <2>1, <2>7, <2>9, <3>1, <3>2
    <3>3. CASE k = n + 1
      BY <1>3, <2>1, <2>5, <2>6, <2>9, <3>1, <3>3 DEF Same
    <3> QED
      BY <2>2, <3>2, <3>3
  <2>10. disk' = disk
    BY DEF Stays
  <2>11. \A j \in Jobs : Same(disk[j].state, mem'[j].state)
    BY <2>6 DEF Same
  <2> QED
    BY <2>8, <2>9, <2>10, <2>11 DEF ChainOK
<1> QED
  BY <1>2, <1>3 DEF Stays

\* With nothing queued.
LEMMA EmptyChain ==
  ASSUME NEW D, NEW M, \A j \in Jobs : Same(D[j].state, M[j].state) PROVE ChainOK(D, <<>>, M)
<1>1. \A i \in 1 .. Len(<<>>) : FALSE
  OBVIOUS
<1> QED
  BY <1>1, Zenon DEF ChainOK

LEMMA StaysFinal ==
  ASSUME JobsInv, FinalInv, brokenWrites' = brokenWrites, ~brokenWrites => Stays,
         ThreadOK(thread', mem'[thread'.job].state, brokenWrites)
  PROVE  FinalInv'
  BY StaysKeepsChain DEF FinalInv, JobsInv

\* The thread alone moves, or something else does.
LEMMA ThreadMovesFinal ==
  ASSUME JobsInv, FinalInv, UNCHANGED <<disk, mem, queue, brokenWrites>>,
         \/ thread' = Idle
         \/ /\ thread'.job = thread.job /\ thread'.late = thread.late /\ thread'.unsaved = thread.unsaved
            /\ thread'.pc \notin Ended => thread.pc \notin Ended
            /\ thread.late => thread'.pc \in Timed
  PROVE  FinalInv'
<1>1. Stays
  BY DEF Stays, Same
<1>2. Idle.late = FALSE /\ Idle.unsaved = FALSE /\ Idle.pc = "idle"
  BY DEF Idle
<1>3. ThreadOK(thread', mem'[thread'.job].state, brokenWrites)
  BY <1>2 DEF FinalInv, ThreadOK, Ended
<1> QED
  BY <1>1, <1>3, StaysFinal

\* SetState and its write, for a job that has not ended.
LEMMA SetStays ==
  ASSUME JobsInv, J \in Jobs, NEW s \in States, NEW who \in {"thread", "cancel", "started"}, disk' = disk,
         SetState(s), queue' = Persist(J, [mem[J] EXCEPT !.state = s], who)
  PROVE  mem'[J].state = s /\ (mem[J].state \notin Final => Stays)
<1> DEFINE r == [mem[J] EXCEPT !.state = s]
           w == [job |-> J, record |-> r, who |-> who]
<1>1. mem \in [Jobs -> Record] /\ mem[J] \in Record
  BY DEF JobsInv, JobTypes
<1>2. r \in Record /\ r.state = s
  BY <1>1 DEF Record
<1>3. mem' = [mem EXCEPT ![J] = r]
  BY DEF SetState
<1>4. queue' = Append(queue, w)
  BY DEF Persist
<1> HIDE DEF r
<1>5. w \in Write /\ w.job = J /\ w.record = r
  BY <1>2 DEF Write
<1> HIDE DEF w
<1>6. mem'[J] = r /\ \A j \in Jobs : j # J => mem'[j] = mem[j]
  BY <1>1, <1>3
<1>7. ASSUME mem[J].state \notin Final PROVE \A j \in Jobs : Same(mem[j].state, mem'[j].state)
  BY <1>6, <1>7 DEF Same
<1>8. w.record.state = mem'[w.job].state
  BY <1>5, <1>6
<1> QED
  BY <1>2, <1>4, <1>5, <1>6, <1>7, <1>8, Zenon DEF Stays

LEMMA TerminalFinal ==
  ASSUME JobsInv, FinalInv, thread.pc \notin Ended, ~thread.late, NEW s \in Final, Terminal(s),
         UNCHANGED <<disk, brokenWrites>>
  PROVE  FinalInv'
<1>1. thread \in Thread /\ J \in Jobs
  BY ThreadHasRecord DEF JobsInv, JobTypes, Ended
<1>2. thread'.pc = "terminal" /\ thread'.late = thread.late /\ thread'.unsaved = thread.unsaved
  BY <1>1, Zenon DEF Terminal, Go, Thread
<1>3. s \in States
  BY DEF States
<1>4. ~brokenWrites => mem[J].state \notin Final /\ ~thread.unsaved
  BY DEF FinalInv, ThreadOK, J
<1>5. mem[J].state \notin Final => Stays
  BY <1>1, <1>3, SetStays DEF Terminal
<1>6. ThreadOK(thread', mem'[thread'.job].state, brokenWrites)
  BY <1>2, <1>4 DEF ThreadOK, Ended
<1> QED
  BY <1>4, <1>5, <1>6, StaysFinal

LEMMA ThrewFinal ==
  ASSUME JobsInv, FinalInv, thread.pc \notin Ended, Threw, UNCHANGED <<disk, brokenWrites>> PROVE FinalInv'
<1>1. CASE thread.late
  BY <1>1, ThreadMovesFinal DEF Threw, Ignored
<1>2. CASE ~thread.late
  BY <1>2, TerminalFinal DEF Threw, Final
<1> QED
  BY <1>1, <1>2

LEMMA ResultFinal ==
  ASSUME JobsInv, FinalInv, thread.pc \notin Ended, NEW s \in Final, Result(s), UNCHANGED <<disk, brokenWrites>>
  PROVE  FinalInv'
<1>1. CASE thread.late
  BY <1>1, ThreadMovesFinal DEF Result, Ignored
<1>2. CASE ~thread.late /\ thread.unsaved
  <2>1. brokenWrites /\ thread' = Idle
    BY <1>2 DEF FinalInv, ThreadOK, Result
  <2>2. ThreadOK(thread', mem'[thread'.job].state, brokenWrites)
    BY <2>1 DEF ThreadOK, Idle
  <2> QED
    BY <2>1, <2>2, StaysFinal
<1>3. CASE ~thread.late /\ ~thread.unsaved
  BY <1>3, TerminalFinal, CancelledOrOK DEF Result
<1> QED
  BY <1>1, <1>2, <1>3

\* CancelActive, by a cancellation or the emergency stop.
LEMMA CancelFinal ==
  ASSUME JobsInv, FinalInv, CancelActive, UNCHANGED <<disk, thread, brokenWrites>> PROVE FinalInv'
<1>1. J \in Jobs /\ mem[J].state \notin Final
  BY ThreadHasRecord DEF CancelActive, Final
<1>2. "cancelling" \in States \ Final
  BY DEF States, Final
<1>3. Stays /\ mem'[J].state = "cancelling"
  BY <1>1, <1>2, SetStays DEF CancelActive
<1>4. ThreadOK(thread', mem'[thread'.job].state, brokenWrites)
  BY <1>2, <1>3 DEF FinalInv, ThreadOK, J
<1> QED
  BY <1>3, <1>4, StaysFinal

LEMMA TimeoutFinal == ASSUME JobsInv, FinalInv, Timeout PROVE FinalInv'
<1>1. thread.pc \in Timed /\ thread \in Thread /\ J \in Jobs
  BY ThreadHasRecord DEF Timeout, JobsInv, JobTypes, Timed
<1>2. thread'.pc = thread.pc /\ thread'.late = TRUE /\ thread'.unsaved = thread.unsaved /\ ~thread.late
  BY <1>1, Zenon DEF Timeout, Thread
<1>3. UNCHANGED <<disk, brokenWrites>> /\ "failed" \in States
  BY DEF Timeout, bounds, States, Final
<1>4. ~brokenWrites => mem[J].state \notin Final /\ ~thread.unsaved
  BY <1>1, <1>2 DEF FinalInv, ThreadOK, J, Timed, Ended
<1>5. mem[J].state \notin Final => Stays
  BY <1>1, <1>3, SetStays DEF Timeout
<1>6. ThreadOK(thread', mem'[thread'.job].state, brokenWrites)
  BY <1>1, <1>2, <1>4 DEF ThreadOK
<1> QED
  BY <1>3, <1>4, <1>5, <1>6, StaysFinal

LEMMA ValidateFinal == ASSUME JobsInv, FinalInv, Validate PROVE FinalInv'
<1>1. thread.pc = "validate" /\ thread \in Thread /\ J \in Jobs /\ UNCHANGED <<disk, brokenWrites>>
  BY ThreadHasRecord DEF Validate, JobsInv, JobTypes, bounds
<1>2. ~thread.late
  BY <1>1 DEF FinalInv, ThreadOK, Timed
<1>3. ASSUME NEW s \in Final, Terminal(s) PROVE FinalInv'
  BY <1>1, <1>2, <1>3, TerminalFinal DEF Ended
<1>4. ASSUME SetState("running"), queue' = Persist(J, [mem[J] EXCEPT !.state = "running"], "thread"), Go("running")
      PROVE  FinalInv'
  <2>1. /\ thread'.pc = "running" /\ thread'.late = thread.late /\ thread'.unsaved = thread.unsaved
        /\ thread'.job = thread.job
    BY <1>1, <1>4, Zenon DEF Go, Thread
  <2>2. ~brokenWrites => mem[J].state \notin Final /\ ~thread.unsaved
    BY <1>1, <1>2 DEF FinalInv, ThreadOK, J, Ended
  <2>3. "running" \in States \ Final
    BY DEF States, Final
  <2>4. mem'[J].state = "running" /\ (mem[J].state \notin Final => Stays)
    BY <1>1, <1>4, <2>3, SetStays
  <2>5. ThreadOK(thread', mem'[thread'.job].state, brokenWrites)
    BY <1>2, <2>1, <2>2, <2>3, <2>4 DEF ThreadOK, J
  <2> QED
    BY <1>1, <2>2, <2>4, <2>5, StaysFinal
<1> QED
  BY <1>3, <1>4 DEF Validate, Final

\* The other steps of the thread.
LEMMA ThreadFinal ==
  ASSUME JobsInv, FinalInv,
         \/ Prepare \/ CancelledLate \/ ReadStatus \/ PostFails \/ ReconcileAmbiguousStart \/ Observe
         \/ ReconcileUnknownExecution \/ SendInterrupt
  PROVE  FinalInv'
<1>0. thread \in Thread /\ UNCHANGED <<disk, brokenWrites>>
  BY DEF JobsInv, JobTypes, Prepare, CancelledLate, ReadStatus, PostFails, ReconcileAmbiguousStart, Observe,
         ReconcileUnknownExecution, SendInterrupt, bounds
<1>1. CASE Prepare
  <2>1. thread.pc = "prepare" /\ ~thread.late
    BY <1>1 DEF Prepare, FinalInv, ThreadOK, Timed
  <2>2. ASSUME NEW s \in Final, Terminal(s) PROVE FinalInv'
    BY <1>0, <2>1, <2>2, TerminalFinal DEF Ended
  <2>3. ASSUME Go("validate"), UNCHANGED <<mem, queue>> PROVE FinalInv'
    <3>1. thread'.job = thread.job /\ thread'.late = thread.late /\ thread'.unsaved = thread.unsaved
      BY <1>0, <2>3, Zenon DEF Go, Thread
    <3> QED
      BY <1>0, <2>1, <2>3, <3>1, ThreadMovesFinal DEF Ended
  <2> QED
    BY <1>1, <2>2, <2>3, CancelledOrOK DEF Prepare, Final
<1>2. CASE CancelledLate
  <2>1. thread.pc = "cancelled" /\ ~thread.late
    BY <1>2 DEF CancelledLate, FinalInv, ThreadOK, Timed
  <2> QED
    BY <1>0, <1>2, <2>1, TerminalFinal DEF CancelledLate, Ended, Final
<1>3. CASE ReadStatus
  <2>1. thread.pc = "status"
    BY <1>3 DEF ReadStatus
  <2>2. CASE Threw
    BY <1>0, <2>1, <2>2, ThrewFinal DEF Ended
  <2>3. CASE thread' = [thread EXCEPT !.pc = "posted", !.gen = generation] /\ UNCHANGED <<mem, queue>>
    <3>1. /\ thread'.job = thread.job /\ thread'.late = thread.late /\ thread'.unsaved = thread.unsaved
          /\ thread'.pc = "posted"
      BY <1>0, <2>3, Zenon DEF Thread
    <3> QED
      BY <1>0, <2>1, <2>3, <3>1, ThreadMovesFinal DEF Ended, Timed
  <2> QED
    BY <1>3, <2>2, <2>3 DEF ReadStatus
<1>4. CASE PostFails
  <2>1. /\ thread'.job = thread.job /\ thread'.late = thread.late /\ thread'.unsaved = thread.unsaved
        /\ thread'.pc = "ambiguous" /\ thread.pc = "posted"
    BY <1>0, <1>4, Zenon DEF PostFails, Go, Thread
  <2> QED
    BY <1>0, <1>4, <2>1, ThreadMovesFinal DEF PostFails, Ended, Timed
<1>5. CASE ReconcileAmbiguousStart
  BY <1>0, <1>5, ResultFinal DEF ReconcileAmbiguousStart, Final, Ended
<1>6. CASE Observe
  BY <1>0, <1>6, ResultFinal DEF Observe, Final, Ended
<1>7. CASE ReconcileUnknownExecution
  <2>1. thread.pc = "unknown" /\ ~thread.late
    BY <1>7 DEF ReconcileUnknownExecution, FinalInv, ThreadOK, Timed
  <2>2. CASE Result("failed")
    BY <1>0, <2>1, <2>2, ResultFinal DEF Final, Ended
  <2>3. CASE thread' = [thread EXCEPT !.gen = generation] /\ UNCHANGED <<mem, queue>>
    <3>1. thread'.job = thread.job /\ thread'.late = thread.late /\ thread'.unsaved = thread.unsaved
      BY <1>0, <2>3, Zenon DEF Thread
    <3> QED
      BY <1>0, <2>1, <2>3, <3>1, ThreadMovesFinal DEF Ended
  <2> QED
    BY <1>7, <2>2, <2>3 DEF ReconcileUnknownExecution
<1>8. CASE SendInterrupt
  <2>1. /\ thread'.job = thread.job /\ thread'.late = thread.late /\ thread'.unsaved = thread.unsaved
        /\ thread'.pc = thread.pc
    BY <1>0, <1>8, Zenon DEF SendInterrupt, Thread
  <2>2. thread.late => thread.pc \in Timed
    BY DEF FinalInv, ThreadOK
  <2> QED
    BY <1>0, <1>8, <2>1, <2>2, ThreadMovesFinal DEF SendInterrupt
<1> QED
  BY <1>1, <1>2, <1>3, <1>4, <1>5, <1>6, <1>7, <1>8

LEMMA AnsweredFinal == ASSUME JobsInv, FinalInv, Answered PROVE FinalInv'
<1>0. /\ thread \in Thread /\ thread.pc = "posted" /\ UNCHANGED <<disk, brokenWrites>>
      /\ J \in Jobs /\ mem[J] \in Record /\ mem \in [Jobs -> Record] /\ generation \in Nat
  BY ThreadHasRecord DEF JobsInv, JobTypes, Answered, bounds
<1>1. CASE Result("failed")
  BY <1>0, <1>1, ResultFinal DEF Final, Ended
<1>2. CASE Threw
  BY <1>0, <1>2, ThrewFinal DEF Ended
<1>3. ASSUME mem' = [mem EXCEPT ![J].at = generation],
             queue' = Persist(J, [mem[J] EXCEPT !.at = generation], "started"),
             thread' = [(IF mem[J].state = "cancelling" THEN RequestInterrupt ELSE thread) EXCEPT !.pc = "observe"]
      PROVE  FinalInv'
  <2> DEFINE r == [mem[J] EXCEPT !.at = generation]
             w == [job |-> J, record |-> r, who |-> "started"]
  <2>1. r \in Record /\ r.state = mem[J].state
    BY <1>0 DEF Record
  <2>2. mem' = [mem EXCEPT ![J] = r] /\ queue' = Append(queue, w)
    BY <1>3 DEF Persist
  <2> HIDE DEF r
  <2>3. w \in Write /\ w.job = J /\ w.record = r
    BY <1>0, <2>1 DEF Write
  <2> HIDE DEF w
  <2>4. mem'[J] = r /\ \A j \in Jobs : mem'[j].state = mem[j].state
    BY <1>0, <2>1, <2>2
  <2>5. Stays
    BY <1>0, <2>2, <2>3, <2>4, Zenon DEF Stays, Same
  <2>6. PICK t \in Thread : /\ t.job = thread.job /\ t.late = thread.late /\ t.unsaved = thread.unsaved
                            /\ thread' = [t EXCEPT !.pc = "observe"]
    <3>1. RequestInterrupt.late = thread.late /\ RequestInterrupt.unsaved = thread.unsaved
      BY <1>0, Zenon DEF RequestInterrupt, Thread
    <3>2. RequestInterrupt \in Thread /\ RequestInterrupt.job = thread.job
      BY <1>0, Interrupts
    <3>3. CASE mem[J].state = "cancelling"
      BY <1>3, <3>1, <3>2, <3>3, Zenon
    <3>4. CASE mem[J].state # "cancelling"
      BY <1>0, <1>3, <3>4, Zenon
    <3> QED
      BY <3>3, <3>4
  <2>7. /\ thread'.pc = "observe" /\ thread'.job = thread.job /\ thread'.late = thread.late
        /\ thread'.unsaved = thread.unsaved
    BY <2>6, Zenon DEF Thread
  <2>8. ThreadOK(thread', mem'[thread'.job].state, brokenWrites)
    BY <1>0, <2>4, <2>7 DEF FinalInv, ThreadOK, Timed, Ended, J
  <2> QED
    BY <1>0, <2>5, <2>8, StaysFinal
<1> QED
  BY <1>1, <1>2, <1>3 DEF Answered

LEMMA AdmitFinal == ASSUME JobsInv, FinalInv, NEW a \in Jobs, Admit(a) PROVE FinalInv'
<1> DEFINE r == [state |-> "queued", at |-> 0]
           w == [job |-> a, record |-> r, who |-> "thread"]
<1>0. /\ mem \in [Jobs -> Record] /\ mem[a] = NoRecord /\ UNCHANGED <<disk, brokenWrites>>
      /\ queue' = Append(queue, w)
  BY DEF Admit, JobsInv, JobTypes, bounds, Persist
<1>1. mem'[a].state = "queued" /\ \A j \in Jobs : j # a => mem'[j] = mem[j]
  BY <1>0, Zenon DEF Admit, Record
<1>2. w \in Write /\ w.record.state = mem'[w.job].state
  BY <1>1 DEF Write, Record, States
<1> HIDE DEF w
<1>3. \A j \in Jobs : Same(mem[j].state, mem'[j].state)
  BY <1>0, <1>1, NoRecordOK DEF Same, Final
<1>4. Stays
  BY <1>0, <1>2, <1>3, Zenon DEF Stays
<1>5. thread'.job = a /\ thread'.pc = "admit" /\ thread'.late = FALSE /\ thread'.unsaved = FALSE
  BY DEF Admit, Idle
<1>6. ThreadOK(thread', mem'[thread'.job].state, brokenWrites)
  BY <1>1, <1>5 DEF ThreadOK, Final
<1> QED
  BY <1>0, <1>4, <1>6, StaysFinal

LEMMA AdmissionFailsFinal == ASSUME JobsInv, FinalInv, AdmissionFails PROVE FinalInv'
<1>1. /\ UNCHANGED <<disk, brokenWrites>> /\ queue' = <<>>
      /\ mem' = [mem EXCEPT ![J] = NoRecord] /\ thread' = Idle /\ thread.pc = "admit"
  BY Zenon DEF AdmissionFails
<1>2. J \in Jobs
  BY <1>1, ThreadHasRecord
<1>3. mem \in [Jobs -> Record]
  BY DEF JobsInv, JobTypes
<1>4. JobOK(J, mem[J].state, disk[J].state, thread.job, thread.pc, started[J], post[J])
  BY <1>2, Zenon DEF JobsInv
<1>5. disk[J].state = "none"
  BY <1>4, <1>1 DEF JobOK, J
<1>6. ASSUME ~brokenWrites PROVE ChainOK(disk', queue', mem')
  <2>1. \A j \in Jobs : Same(disk[j].state, mem[j].state)
    BY <1>6 DEF FinalInv, ChainOK
  <2>2. \A j \in Jobs : Same(disk[j].state, mem'[j].state)
    BY <1>1, <1>2, <1>3, <1>5, <2>1 DEF Same, Final
  <2> QED
    BY <1>1, <2>2, EmptyChain, Zenon
<1>7. ThreadOK(thread', mem'[thread'.job].state, brokenWrites)
  BY <1>1 DEF ThreadOK, Idle, Ended
<1> QED
  BY <1>1, <1>6, <1>7 DEF FinalInv

\* The oldest write is the first of its job in the chain.
LEMMA WrittenFinal ==
  ASSUME JobsInv, FinalInv, Written
  PROVE  FinalInv' /\ \A j \in Jobs : Same(disk[j].state, disk'[j].state)
<1> DEFINE w == Head(queue)
<1>0. /\ queue \in Seq(Write) /\ queue # <<>> /\ queue' = Tail(queue) /\ thread \in Thread
      /\ ~brokenWrites /\ UNCHANGED <<mem, brokenWrites>> /\ disk \in [Jobs -> Record]
      /\ disk' = [disk EXCEPT ![w.job] = w.record]
  BY DEF JobsInv, JobTypes, Written, bounds
<1>1. w \in Write /\ w = queue[1] /\ 1 \in 1 .. Len(queue)
  BY <1>0
<1>2. ChainOK(disk, queue, mem)
  BY <1>0 DEF FinalInv
<1>3. /\ Len(queue') = Len(queue) - 1 /\ Len(queue) \in Nat
      /\ \A i \in 1 .. Len(queue') : queue'[i] = queue[i + 1] /\ i + 1 \in 1 .. Len(queue) /\ 1 < i + 1
      /\ \A i, k \in 1 .. Len(queue') : i < k => i + 1 < k + 1
  BY <1>0
<1>4. ThreadOK(thread', mem'[thread'.job].state, brokenWrites)
  <2>1. /\ thread.late => thread.pc \in Timed
        /\ ~thread.unsaved /\ (thread.pc \notin Ended /\ ~thread.late => mem[thread.job].state \notin Final)
    BY <1>0 DEF FinalInv, ThreadOK
  <2>2. \/ thread' = Idle \/ thread' = thread \/ thread' = RequestInterrupt
        \/ thread.pc \in {"admit", "running"} /\ \E p \in {"prepare", "cancelled", "status"} : thread' = [thread EXCEPT !.pc = p]
    BY DEF Written
  <2>3. CASE thread' = Idle
    BY <2>3 DEF ThreadOK, Idle, Ended
  <2>4. CASE thread' = thread
    BY <1>0, <2>1, <2>4 DEF ThreadOK
  <2>5. CASE thread' = RequestInterrupt
    <3>1. /\ thread'.job = thread.job /\ thread'.late = thread.late /\ thread'.unsaved = thread.unsaved
          /\ thread'.pc = thread.pc
      BY <1>0, <2>5, Zenon DEF RequestInterrupt, Thread
    <3> QED
      BY <1>0, <2>1, <3>1 DEF ThreadOK
  <2>6. ASSUME thread.pc \in {"admit", "running"}, NEW p \in {"prepare", "cancelled", "status"},
               thread' = [thread EXCEPT !.pc = p]
        PROVE  ThreadOK(thread', mem'[thread'.job].state, brokenWrites)
    <3>1. /\ thread'.job = thread.job /\ thread'.late = thread.late /\ thread'.unsaved = thread.unsaved
      BY <1>0, <2>6, Zenon DEF Thread
    <3>2. ~thread.late /\ thread.pc \notin Ended
      BY <2>1, <2>6 DEF Timed, Ended
    <3> QED
      BY <1>0, <2>1, <3>1, <3>2 DEF ThreadOK
  <2> QED
    BY <2>2, <2>3, <2>4, <2>5, <2>6
<1> HIDE DEF w
<1>5. w.job \in Jobs /\ disk'[w.job] = w.record /\ \A j \in Jobs : j # w.job => disk'[j] = disk[j]
  BY <1>0, <1>1 DEF Write
<1>6. Same(disk[w.job].state, w.record.state) /\ Same(w.record.state, mem[w.job].state)
  BY <1>1, <1>2, Zenon DEF ChainOK
<1>7. \A j \in Jobs : Same(disk[j].state, disk'[j].state)
  BY <1>5, <1>6 DEF Same
<1>8. \A j \in Jobs : Same(disk[j].state, mem[j].state)
  BY <1>2 DEF ChainOK
<1>9. \A j \in Jobs : Same(disk'[j].state, mem'[j].state)
  BY <1>0, <1>5, <1>6, <1>8
<1>10. ASSUME NEW i \in 1 .. Len(queue')
       PROVE  /\ Same(disk'[queue'[i].job].state, queue'[i].record.state)
              /\ Same(queue'[i].record.state, mem'[queue'[i].job].state)
  <2>1. /\ queue'[i] = queue[i + 1] /\ i + 1 \in 1 .. Len(queue) /\ 1 < i + 1
    BY <1>3
  <2>2. queue[i + 1] \in Write
    BY <1>0, <2>1
  <2>3. queue[i + 1].job \in Jobs
    BY <2>2 DEF Write
  <2>4. /\ Same(disk[queue[i + 1].job].state, queue[i + 1].record.state)
        /\ Same(queue[i + 1].record.state, mem[queue[i + 1].job].state)
        /\ w.job = queue[i + 1].job => Same(w.record.state, queue[i + 1].record.state)
    BY <1>1, <1>2, <2>1, Zenon DEF ChainOK
  <2> QED
    BY <1>0, <1>5, <2>1, <2>3, <2>4
<1>11. ASSUME NEW i \in 1 .. Len(queue'), NEW k \in 1 .. Len(queue'), i < k, queue'[i].job = queue'[k].job
       PROVE  Same(queue'[i].record.state, queue'[k].record.state)
  BY <1>2, <1>3, <1>11, Zenon DEF ChainOK
<1>12. ChainOK(disk', queue', mem')
  BY <1>9, <1>10, <1>11 DEF ChainOK
<1> QED
  BY <1>0, <1>4, <1>7, <1>12 DEF FinalInv

LEMMA WriteFailsFinal == ASSUME JobsInv, FinalInv, WriteFails PROVE FinalInv'
<1>0. thread \in Thread /\ brokenWrites' = TRUE /\ (thread.late => thread.pc \in Timed)
  BY DEF JobsInv, JobTypes, WriteFails, FinalInv, ThreadOK
<1>1. \/ thread' = Idle \/ thread' = RequestInterrupt \/ thread' = [RequestInterrupt EXCEPT !.unsaved = TRUE]
      \/ thread' = thread
  BY DEF WriteFails
<1>2. Idle.late = FALSE
  BY DEF Idle
<1>3. ASSUME thread' # Idle PROVE thread'.late = thread.late /\ thread'.pc = thread.pc
  BY <1>0, <1>1, <1>3, Zenon DEF RequestInterrupt, Thread
<1> QED
  BY <1>0, <1>2, <1>3 DEF FinalInv, ThreadOK

LEMMA CrashFinal == ASSUME JobsInv, FinalInv, Crash PROVE FinalInv'
<1> DEFINE active == {j \in Jobs : disk[j].state \in {"queued", "running", "cancelling"}}
<1>0. mem' = disk /\ disk' = disk /\ queue' = <<>>
  BY DEF Crash
<1>1. ChainOK(disk', queue', mem')
  BY <1>0, EmptyChain DEF Same
<1>2. \/ thread' = Idle
      \/ \E a \in active : thread' = Resumed(a)
  BY Zenon DEF Crash
<1>3. CASE thread' = Idle
  <2>1. ThreadOK(thread', mem'[thread'.job].state, brokenWrites')
    BY <1>3 DEF ThreadOK, Idle, Ended
  <2> QED
    BY <1>1, <2>1 DEF FinalInv
<1>4. ASSUME NEW a \in active, thread' = Resumed(a) PROVE FinalInv'
  <2>1. thread'.job = a /\ thread'.late = FALSE /\ thread'.unsaved = FALSE
    BY <1>4, Zenon DEF Resumed, Idle
  <2>2. disk[a].state \notin Final
    BY DEF Final
  <2>3. ThreadOK(thread', mem'[thread'.job].state, brokenWrites')
    BY <1>0, <2>1, <2>2 DEF ThreadOK
  <2> QED
    BY <1>1, <2>3 DEF FinalInv
<1> QED
  BY <1>2, <1>3, <1>4

LEMMA OthersFinal ==
  ASSUME JobsInv, FinalInv,
         \/ ExecutorRestarts \/ Latch \/ RecordStoppedGeneration \/ InterruptActive \/ TriggerHardRestart
         \/ ReadForResume \/ Resume \/ Cancel \/ UNCHANGED jobVars
         \/ \E j \in Jobs : Receive(j) \/ StartExecution(j) \/ ExecutionEnds(j)
  PROVE  FinalInv'
<1>1. UNCHANGED <<disk, thread, brokenWrites>> /\ (CancelActive \/ UNCHANGED <<mem, queue>>)
  BY DEF ExecutorRestarts, Latch, RecordStoppedGeneration, InterruptActive, TriggerHardRestart, ReadForResume,
         Resume, Cancel, Receive, StartExecution, ExecutionEnds, controller, bounds, jobVars
<1>2. thread.late => thread.pc \in Timed
  BY DEF FinalInv, ThreadOK
<1> QED
  BY <1>1, <1>2, CancelFinal, ThreadMovesFinal

LEMMA FinalStep == JobsInv /\ FinalInv /\ [RunnerJobsNext]_jobVars => FinalInv'
  BY ThreadFinal, AnsweredFinal, AdmitFinal, AdmissionFailsFinal, WrittenFinal, WriteFailsFinal, CrashFinal,
     TimeoutFinal, ValidateFinal, OthersFinal DEF RunnerJobsNext

LEMMA FinalInit == RunnerJobsInit => FinalInv
<1> SUFFICES ASSUME RunnerJobsInit PROVE FinalInv
  OBVIOUS
<1>1. ThreadOK(thread, mem[thread.job].state, brokenWrites)
  BY DEF RunnerJobsInit, ThreadOK, Idle, Ended
<1>2. ChainOK(disk, queue, mem)
  BY EmptyChain DEF RunnerJobsInit, Same
<1> QED
  BY <1>1, <1>2 DEF FinalInv

\* The state a job ended with stays on disk: no late result, queued write, timeout,
\* cancellation or restart replaces it (persist, persistTerminal, resumePersisted).
THEOREM FinalStatesStay == RunnerJobsSpec => TerminalIsFinal
<1>1. ASSUME JobsInv, FinalInv, [RunnerJobsNext]_jobVars, NEW j \in Jobs, disk[j].state \in Final
      PROVE  disk'[j].state = disk[j].state
  <2>1. CASE Written
    BY <1>1, <2>1, WrittenFinal DEF Same
  <2>2. CASE ~Written
    <3>1. disk' = disk
      BY <1>1, <2>2, Zenon DEF RunnerJobsNext, Prepare, Validate, AdmissionFails, WriteFails, CancelledLate,
         ReadStatus, Answered, PostFails, ReconcileAmbiguousStart, Observe, ReconcileUnknownExecution, Timeout,
         Cancel, SendInterrupt, Crash, ExecutorRestarts, Admit, Receive, StartExecution, ExecutionEnds,
         Latch, RecordStoppedGeneration, InterruptActive, TriggerHardRestart, ReadForResume, Resume, jobVars
    <3> QED
      BY <3>1
  <2> QED
    BY <2>1, <2>2
<1>2. JobsInv /\ FinalInv /\ [RunnerJobsNext]_jobVars
        => [\A j \in Jobs : disk[j].state \in Final => disk'[j].state = disk[j].state]_jobVars
  BY <1>1
<1> QED
  BY <1>2, FinalInit, FinalStep, JobsInvariant, PTL DEF RunnerJobsSpec, TerminalIsFinal
=============================================================================
