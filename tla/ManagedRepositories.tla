------------------------- MODULE ManagedRepositories -------------------------
(***************************************************************************)
(* Managed Git tasks, from the checkout Codex edits to the pull request:   *)
(* ManagedRepositoryService (codex-runner/src/repository-manager.ts) and   *)
(* publishManagedPullRequest (lib/managed-pull-request-publication.ts)     *)
(* with its GitHubPullRequestClient.                                       *)
(*                                                                         *)
(* A commit is the sequence of the edits it holds, the base branch's being *)
(* empty; an edit is named by its task.  A task whose branch is another    *)
(* task's continues that task's pull request.  The manager runs one        *)
(* operation at a time (serialize), here op; it may fail between any two   *)
(* of its steps, with or without the process.                              *)
(***************************************************************************)
EXTENDS Naturals, FiniteSets, SequencesExt

CONSTANTS Tasks, BranchOf, Publishers, Missing,
          MaxTaskEdits, MaxMishaps  \* bounds: edits of all tasks, things that go wrong

ASSUME BranchesAssumption == \A t \in Tasks : BranchOf[t] \in Tasks /\ BranchOf[BranchOf[t]] = BranchOf[t]

VARIABLES
  record,    \* the task's record.json
  worktree,  \* the edits of the task's worktree that are not committed
  git,       \* HEAD in the task's git directory
  remote,    \* the heads of the branches on GitHub
  pushing,   \* pushes that left the manager and may still arrive
  op,        \* the operation the manager is in
  job,       \* the task Codex is working on
  done,      \* the tasks whose Runner job succeeded
  pub,       \* the publications under way
  pulls,     \* the pull requests on GitHub: their branches
  row,       \* workflow_managed_pull_requests
  mishaps, edits, pushes  \* history: per task since its record was made

managedVars == <<record, worktree, git, remote, pushing, op, job, done, pub, pulls, row, mishaps, edits, pushes>>

Idle == [kind |-> "none"]
NotPublishing == [pc |-> "none"]
disk == <<record, worktree, git>>
hub == <<remote, pushing, pulls>>
client == <<job, done, pub, row>>
count == <<mishaps, edits, pushes>>

\* persist: a temporary file and a rename.
PersistRecord(t, r) == record' = [record EXCEPT ![t] = r]
RemoveWorktree(t) == worktree' = [worktree EXCEPT ![t] = Missing]
GoTo(pc) == op' = [op EXCEPT !.pc = pc]
Available(t) == record[t] # Missing /\ record[t].available

-----------------------------------------------------------------------------
(* seal, for the task op.seal: commit, persist, remove the worktree        *)

\* Mutant: the worktree goes before its edits are committed.
SealDiscards ==
  /\ op # Idle /\ op.pc = "commit" /\ worktree[op.seal] # Missing /\ git[op.seal] # Missing
  /\ RemoveWorktree(op.seal)
  /\ GoTo("persist")
  /\ UNCHANGED <<record, git, hub, client, count>>

SealCommit ==
  /\ op # Idle /\ op.pc = "commit" /\ worktree[op.seal] # Missing /\ git[op.seal] # Missing
  /\ git' = [git EXCEPT ![op.seal] = @ \o [i \in 1..worktree[op.seal] |-> op.seal]]
  /\ worktree' = [worktree EXCEPT ![op.seal] = 0]
  /\ GoTo("persist")
  /\ UNCHANGED <<record, hub, client, count>>

SealPersist ==
  /\ op # Idle /\ op.pc = "persist"
  /\ PersistRecord(op.seal, [record[op.seal] EXCEPT !.state = "sealed", !.available = FALSE, !.commit = git[op.seal]])
  /\ GoTo("remove")
  /\ UNCHANGED <<worktree, git, hub, client, count>>

SealRemove ==
  /\ op # Idle /\ op.pc = "remove"
  /\ RemoveWorktree(op.seal)
  /\ GoTo(IF op.kind = "prepare" THEN "others" ELSE "sealed")
  /\ UNCHANGED <<record, git, hub, client, count>>

Seal == SealCommit \/ SealPersist \/ SealRemove

-----------------------------------------------------------------------------
(* prepare, called when the Runner starts a job                            *)

Prepare(t) ==
  /\ op = Idle /\ job = Missing /\ t \notin done
  /\ BranchOf[t] # t => row[BranchOf[t]] # Missing      \* prior.head_branch
  /\ op' = [kind |-> "prepare", task |-> t, pc |-> "others", seal |-> t,
            others |-> {u \in Tasks \ {t} : record[u] # Missing}]
  /\ UNCHANGED <<disk, hub, client, count>>

SealOthersWith(leftover(_)) ==
  /\ op # Idle /\ op.pc = "others"
  /\ \E u \in op.others :
       /\ op' = [op EXCEPT !.others = @ \ {u}, !.seal = u, !.pc = IF record[u].available THEN "commit" ELSE "others"]
       /\ IF record[u].available THEN UNCHANGED worktree ELSE leftover(u)
  /\ UNCHANGED <<record, git, hub, client, count>>

SealOthers == SealOthersWith(RemoveWorktree)

\* The record is the authority: a task that has one is resumed or refused.
PrepareExisting ==
  /\ op # Idle /\ op.pc = "others" /\ op.others = {} /\ record[op.task] # Missing
  /\ op' = Idle
  /\ job' \in IF Available(op.task) /\ worktree[op.task] # Missing THEN {op.task, Missing} ELSE {Missing}
  /\ UNCHANGED <<disk, hub, done, pub, row, count>>

Source(t) == IF BranchOf[t] = t THEN << >> ELSE remote[BranchOf[t]]

\* What an unfinished attempt left is removed, and the checkout made in staging.
PrepareBuild ==
  /\ op # Idle /\ op.pc = "others" /\ op.others = {} /\ record[op.task] = Missing
  /\ worktree' = [worktree EXCEPT ![op.task] = 0]
  /\ git' = [git EXCEPT ![op.task] = Missing]
  /\ op' = [kind |-> "prepare", task |-> op.task, pc |-> "built", base |-> Source(op.task)]
  /\ UNCHANGED <<record, hub, client, count>>

\* The rename of staging.  The reply reaches the Runner, or not.
PrepareCommit ==
  /\ op # Idle /\ op.pc = "built"
  /\ PersistRecord(op.task, [state |-> "prepared", available |-> TRUE, base |-> op.base, commit |-> Missing])
  /\ git' = [git EXCEPT ![op.task] = op.base]
  /\ op' = Idle /\ job' \in {op.task, Missing}
  /\ edits' = [edits EXCEPT ![op.task] = 0] /\ pushes' = [pushes EXCEPT ![op.task] = 0]
  /\ UNCHANGED <<worktree, hub, done, pub, row, mishaps>>

PrepareStep == SealOthers \/ PrepareExisting \/ PrepareBuild \/ PrepareCommit

-----------------------------------------------------------------------------
(* publish, called for a publication that is at "publish"                  *)

Reply(p, changed) ==
  /\ op' = Idle
  /\ \/ /\ changed \/ BranchOf[pub[p].task] # pub[p].task
        /\ pub' = [pub EXCEPT ![p].pc = "find", ![p].commit = record[pub[p].task].commit]
     \/ pub' = [pub EXCEPT ![p] = NotPublishing]   \* managed_task_has_no_changes, or a lost reply
Fails(p) == op' = Idle /\ pub' = [pub EXCEPT ![p] = NotPublishing]

PublishFrom(p, uncertain) ==
  /\ op = Idle /\ pub[p].pc = "publish"
  /\ LET t == pub[p].task
         begin(pc) == op' = [kind |-> "publish", task |-> t, pub |-> p, pc |-> pc, seal |-> t] /\ UNCHANGED pub IN
     IF record[t] = Missing THEN Fails(p) /\ UNCHANGED worktree
     ELSE /\ IF record[t].available THEN UNCHANGED worktree ELSE RemoveWorktree(t)
          /\ CASE record[t].state = "push-uncertain" -> begin(uncertain)
               [] record[t].state = "prepared" -> begin("commit")
               [] record[t].state = "sealed" -> begin("sealed")
               [] record[t].state = "published" -> Reply(p, TRUE)
  /\ UNCHANGED <<record, git, hub, job, done, row, count>>

Publish(p) == PublishFrom(p, "reconcile")

PublishUnchanged ==
  /\ op # Idle /\ op.pc = "sealed" /\ record[op.task].commit = record[op.task].base
  /\ Reply(op.pub, FALSE)
  /\ UNCHANGED <<disk, hub, job, done, row, count>>

PublishPending ==
  /\ op # Idle /\ op.pc = "sealed" /\ record[op.task].commit # record[op.task].base
  /\ PersistRecord(op.task, [record[op.task] EXCEPT !.state = "push-uncertain"])
  /\ GoTo("push")
  /\ UNCHANGED <<worktree, git, hub, client, count>>

FastForward(b, commit) == remote[b] # Missing => IsPrefix(remote[b], commit)
Arrives(b, commit) == FastForward(b, commit) /\ remote' = [remote EXCEPT ![b] = commit]

\* git push, without force: done; refused; or its outcome is not known to the
\* manager, and it has arrived, may yet arrive, or never will.
Push ==
  /\ op # Idle /\ op.pc = "push"
  /\ pushes' = [pushes EXCEPT ![op.task] = @ + 1]
  /\ LET b == BranchOf[op.task]
         commit == record[op.task].commit IN
     \/ Arrives(b, commit) /\ GoTo("pushed") /\ UNCHANGED <<pushing, mishaps>>
     \/ ~FastForward(b, commit) /\ GoTo("reconcile") /\ UNCHANGED <<remote, pushing, mishaps>>
     \/ /\ mishaps < MaxMishaps /\ mishaps' = mishaps + 1
        /\ \/ Arrives(b, commit) /\ UNCHANGED pushing
           \/ pushing' \in {pushing, pushing \cup {<<b, commit>>}} /\ UNCHANGED remote
        /\ GoTo("reconcile")
  /\ UNCHANGED <<disk, client, pulls, edits>>

LatePush ==
  /\ \E x \in pushing :
       /\ pushing' = pushing \ {x}
       /\ IF FastForward(x[1], x[2]) THEN Arrives(x[1], x[2]) ELSE UNCHANGED remote
  /\ UNCHANGED <<disk, pulls, op, client, count>>

ReconcilePushIf(found) ==
  /\ op # Idle /\ op.pc = "reconcile"
  /\ IF found THEN GoTo("pushed") /\ UNCHANGED pub
     ELSE Fails(op.pub)                            \* repository_publish_result_unknown
  /\ UNCHANGED <<disk, hub, job, done, row, count>>

\* Mutant: a push whose answer was lost is taken to have succeeded.
ReconcilePushTrusts == ReconcilePushIf(TRUE)

\* reconcilePush: the branch on GitHub is at the commit, or the result stays unknown.
ReconcilePush == ReconcilePushIf(remote[BranchOf[op.task]] = record[op.task].commit)

PublishDone ==
  /\ op # Idle /\ op.pc = "pushed"
  /\ PersistRecord(op.task, [record[op.task] EXCEPT !.state = "published"])
  /\ Reply(op.pub, TRUE)
  /\ UNCHANGED <<worktree, git, hub, job, done, row, count>>

PublishStep == PublishUnchanged \/ PublishPending \/ Push \/ ReconcilePush \/ PublishDone

-----------------------------------------------------------------------------
(* cleanup, and what interrupts an operation                               *)

\* rm of the task's directory and of its worktree.  Interrupted, it leaves the
\* record without its git directory, or the worktree.
Cleanup(t) ==
  /\ op = Idle /\ record[t] # Missing /\ job # t
  /\ \/ /\ PersistRecord(t, Missing) /\ RemoveWorktree(t) /\ git' = [git EXCEPT ![t] = Missing]
        /\ UNCHANGED mishaps
     \/ /\ mishaps < MaxMishaps /\ mishaps' = mishaps + 1
        /\ git' = [git EXCEPT ![t] = Missing]
        /\ record' \in {record, [record EXCEPT ![t] = Missing]}
        /\ UNCHANGED worktree
  /\ UNCHANGED <<hub, op, client, edits, pushes>>

\* A command fails: the operation rejects, and prepare removes what it was building.
\* Or the process ends: then nothing is removed.  Its caller is told of a failure.
OpFails ==
  /\ op # Idle /\ mishaps < MaxMishaps /\ mishaps' = mishaps + 1
  /\ op' = Idle
  /\ worktree' \in {worktree} \cup (IF op.pc = "built" THEN {[worktree EXCEPT ![op.task] = Missing]} ELSE {})
  /\ pub' = IF op.kind = "publish" THEN [pub EXCEPT ![op.pub] = NotPublishing] ELSE pub
  /\ UNCHANGED <<record, git, hub, job, done, row, edits, pushes>>

\* The steps of seal that find their worktree or git directory gone.
SealFails ==
  /\ op # Idle /\ op.pc = "commit" /\ (worktree[op.seal] = Missing \/ git[op.seal] = Missing)
  /\ op' = Idle
  /\ pub' = IF op.kind = "publish" THEN [pub EXCEPT ![op.pub] = NotPublishing] ELSE pub
  /\ UNCHANGED <<disk, hub, job, done, row, count>>

-----------------------------------------------------------------------------
(* The Runner's job, and publishManagedPullRequest                         *)

Edit ==
  /\ job # Missing /\ worktree[job] # Missing
  /\ FoldFunctionOnSet(LAMBDA x, y : x + y, 0, edits, Tasks) < MaxTaskEdits
  /\ worktree' = [worktree EXCEPT ![job] = @ + 1] /\ edits' = [edits EXCEPT ![job] = @ + 1]
  /\ UNCHANGED <<record, git, hub, op, client, mishaps, pushes>>

JobEnds ==
  /\ job # Missing /\ job' = Missing
  /\ done' \in {done, done \cup {job}}
  /\ UNCHANGED <<disk, hub, op, pub, row, count>>

StartPublication(p, t) ==
  /\ pub[p] = NotPublishing /\ t \in done
  /\ pub' = [pub EXCEPT ![p] = [pc |-> "publish", task |-> t, commit |-> Missing, pull |-> Missing]]
  /\ UNCHANGED <<disk, hub, op, job, done, row, count>>

FindAmong(p, matching) ==
  /\ pub[p].pc = "find"
  /\ LET b == BranchOf[pub[p].task]
         found == IF b # pub[p].task THEN {row[b].pull} ELSE matching IN
     pub' = [pub EXCEPT ![p].pc = IF found = {} THEN "create" ELSE "save",
                        ![p].pull = IF found = {} THEN Missing ELSE CHOOSE i \in found : TRUE]
  /\ UNCHANGED <<disk, hub, op, job, done, row, count>>

\* find, or the pull request of the publication that is continued.
Find(p) == FindAmong(p, {i \in DOMAIN pulls : pulls[i] = BranchOf[pub[p].task]})

\* GitHub refuses a second open pull request of a branch, and one of no branch.
Create(p) ==
  /\ pub[p].pc = "create"
  /\ LET b == BranchOf[pub[p].task] IN
     IF remote[b] = Missing \/ b \in ToSet(pulls)
     THEN pub' = [pub EXCEPT ![p] = NotPublishing] /\ UNCHANGED pulls
     ELSE /\ pulls' = Append(pulls, b)
          /\ pub' = [pub EXCEPT ![p].pc = "save", ![p].pull = Len(pulls')]
  /\ UNCHANGED <<disk, remote, pushing, op, job, done, row, count>>

\* The row is inserted, or replaced.
Save(p) ==
  /\ pub[p].pc = "save"
  /\ row' = [row EXCEPT ![pub[p].task] = [commit |-> pub[p].commit, pull |-> pub[p].pull]]
  /\ pub' = [pub EXCEPT ![p] = NotPublishing]
  /\ UNCHANGED <<disk, hub, op, job, done, count>>

\* A call to GitHub or D1 fails, answered or not, or the request ends.
PublicationFails(p) ==
  /\ pub[p].pc \in {"find", "create", "save"} /\ mishaps < MaxMishaps /\ mishaps' = mishaps + 1
  /\ pub' = [pub EXCEPT ![p] = NotPublishing]
  /\ UNCHANGED <<disk, hub, op, job, done, row, edits, pushes>>

-----------------------------------------------------------------------------
ManagedInit ==
  /\ record = [t \in Tasks |-> Missing] /\ worktree = record /\ git = record /\ remote = record /\ row = record
  /\ pushing = {} /\ op = Idle /\ job = Missing /\ done = {} /\ pulls = << >>
  /\ pub = [p \in Publishers |-> NotPublishing]
  /\ mishaps = 0 /\ edits = [t \in Tasks |-> 0] /\ pushes = edits

ManagedNext ==
  \/ Seal \/ PrepareStep \/ PublishStep \/ OpFails \/ SealFails \/ LatePush \/ Edit \/ JobEnds
  \/ \E t \in Tasks : Prepare(t) \/ Cleanup(t)
  \/ \E p \in Publishers :
       \/ Publish(p) \/ Find(p) \/ Create(p) \/ Save(p) \/ PublicationFails(p)
       \/ \E t \in Tasks : StartPublication(p, t)

ManagedSpec == ManagedInit /\ [][ManagedNext]_managedVars

-----------------------------------------------------------------------------
\* A task recorded as published has its commit on its branch on GitHub, whatever
\* became of the pushes: publishOperation records it only after a push that
\* succeeded or a reconciliation that found the commit.
PublishedIsOnBranch ==
  \A t \in Tasks : record[t] # Missing /\ record[t].state = "published" =>
    remote[BranchOf[t]] # Missing /\ IsPrefix(record[t].commit, remote[BranchOf[t]])

\* Every edit of a task is in its worktree or committed in its git directory, as
\* long as it has both a record and a git directory: sealing, on the task's own
\* publication or for another task, loses none at any interruption.
EditsAreKept ==
  \A t \in Tasks : record[t] # Missing /\ git[t] # Missing =>
    edits[t] = Cardinality({i \in DOMAIN git[t] : git[t][i] = t})
               + (IF worktree[t] = Missing THEN 0 ELSE worktree[t])

=============================================================================
