------------------------------- MODULE Delivery -------------------------------
(***************************************************************************)
(* The lifecycle of every commit on main, as .github/workflows/            *)
(* main-orchestrator.yml runs it: verification, the Cloudflare deployment, *)
(* the publication of the Runner image and the reconciliation of the       *)
(* Runtime image by scripts/reconcile-runtime-publication.mjs.  The        *)
(* lifecycles of several commits overlap in any order; a deployment and a  *)
(* publication each hold their repository-wide concurrency group.          *)
(***************************************************************************)
EXTENDS ChangePolicy, Sequences, FiniteSetsExt

CONSTANTS
  Changes,    \* the sets of paths a commit may change
  MaxMain,    \* bound on the length of main
  MaxOutages   \* bound on jobs that fail

ASSUME DeliveryAssumption ==
  /\ Changes \subseteq SUBSET Paths
  /\ MaxMain \in Nat \ {0} /\ MaxOutages \in Nat

VARIABLES
  main,       \* first-parent history: each commit with its classification
  life,       \* commit -> state of the jobs of its lifecycle
  worker,     \* the commit whose Worker is deployed
  migrated,   \* the newest commit whose migrations are applied
  runner,     \* the commit whose Runner image is published
  tags,       \* the Runtime images in the registry
  outages

deliveryVars == <<main, life, worker, migrated, runner, tags, outages>>

FirstChange == isRuntimeImagePath
Commit(change) == [paths |-> change, impact |-> ClassifyChanges(change)]

Commits == 1..Len(main)
Impact(i) == main[i].impact
\* classifyGitRange: every flag a freshness rule reads holds of a range when some
\* commit of the range sets it.
Intervening(i) == [flag \in DOMAIN Impact(i) |-> \E j \in (i + 1)..Len(main) : Impact(j)[flag]]
Fresh(operation, i) == i = Len(main) \/ EvaluateOperationFreshness(operation, Intervening(i))
DeploysCloudflare(i) == Impact(i).deploy_worker \/ Impact(i).apply_migrations

\* resolveRuntimeSource: the newest commit up to i that changed an image input.
ResolveRuntimeSource(i) == Max({j \in 1..i : Impact(j).publish_runtime})
\* validateRuntimeRevision and validateRunnerRevision: a change of an image input
\* raises the number in the release manifest, so it changes that file.
ValidRevisions(commit) ==
  /\ commit.impact.publish_runtime => <<"adt-runtime", "release.json">> \in commit.paths
  /\ commit.impact.publish_runner => commit.impact.runner_release_barrier
ReleaseRevision(i) == Cardinality({j \in 1..i : Impact(j).publish_runtime})
RunnerRevision(i) == Cardinality({j \in 1..i : Impact(j).runner_release_barrier})

NoImage == [source |-> 0, release |-> 0, digest |-> 0]
NewLife == [verify |-> "todo", deploy |-> "todo", runner |-> "todo", runtime |-> "todo"]

\* The first commit is live everywhere.
FirstImage == [source |-> 1, release |-> 1, digest |-> 1]
DeliveryInit ==
  /\ main = <<Commit(FirstChange)>>
  /\ life = <<[verify |-> "ok", deploy |-> "done", runner |-> "done", runtime |-> "published"]>>
  /\ worker = 1 /\ migrated = 1 /\ runner = 1
  /\ tags = [sha |-> [i \in 1..MaxMain |-> IF i = 1 THEN FirstImage ELSE NoImage],
             revision |-> [r \in 1..MaxMain |-> IF r = 1 THEN FirstImage ELSE NoImage],
             latest |-> FirstImage]
  /\ outages = 0

Job(i, job, state) == life' = [life EXCEPT ![i][job] = state]
Outage == outages < MaxOutages /\ outages' = outages + 1
Free(job) == \A j \in Commits : life[j][job] \notin {"running", "planned", "sha", "revision", "latest"}

PushMain ==
  /\ Len(main) < MaxMain
  /\ \E change \in Changes : ValidRevisions(Commit(change)) /\ main' = Append(main, Commit(change))
  /\ life' = Append(life, NewLife)
  /\ UNCHANGED <<worker, migrated, runner, tags, outages>>

\* classify, which fails on unclassified paths, and verify-main, which runs
\* only for a Cloudflare operation.
Verify(i) ==
  /\ life[i].verify = "todo"
  /\ \/ /\ Job(i, "verify", IF Impact(i).has_unclassified_changes THEN "unclassified" ELSE "ok")
        /\ UNCHANGED outages
     \/ DeploysCloudflare(i) /\ Outage /\ Job(i, "verify", "failed")
  /\ UNCHANGED <<main, worker, migrated, runner, tags>>

-----------------------------------------------------------------------------
(* reusable-deploy-cloudflare.yml                                          *)

StartDeploy(i) ==
  /\ life[i].verify = "ok" /\ life[i].deploy = "todo"
  /\ DeploysCloudflare(i) /\ Free("deploy")
  /\ Job(i, "deploy", IF Fresh(CloudflareOperation(Impact(i)), i) THEN "running" ELSE "superseded")
  /\ UNCHANGED <<main, worker, migrated, runner, tags, outages>>

\* The smoke test of the sign-in runs last: the job that it fails has deployed
\* its Worker.
SmokeTestFails(i) ==
  /\ Impact(i).deploy_worker /\ Outage /\ Job(i, "deploy", "failed")
  /\ migrated' = Max({migrated, i}) /\ worker' = i

\* Migrations, then the Worker; a failure may fall between them.
Deploy(i) ==
  /\ life[i].deploy = "running"
  /\ \/ /\ migrated' = Max({migrated, i})
        /\ worker' = IF Impact(i).deploy_worker THEN i ELSE worker
        /\ Job(i, "deploy", "done") /\ UNCHANGED outages
     \/ /\ Outage /\ Job(i, "deploy", "failed")
        /\ migrated' \in {migrated, Max({migrated, i})} /\ UNCHANGED worker
     \/ SmokeTestFails(i)
  /\ UNCHANGED <<main, runner, tags>>

-----------------------------------------------------------------------------
(* publish-codex-runner.yml                                                *)

MayPublishRunner(i) ==
  /\ life[i].verify = "ok" /\ Impact(i).publish_runner
  /\ Impact(i).runner_release_barrier => life[i].deploy = "done" /\ Impact(i).deploy_worker

StartRunner(i) ==
  /\ MayPublishRunner(i) /\ life[i].runner = "todo" /\ Free("runner")
  /\ Job(i, "runner", IF Fresh("runner", i) THEN "running" ELSE "superseded")
  /\ UNCHANGED <<main, worker, migrated, runner, tags, outages>>

PublishRunner(i) ==
  /\ life[i].runner = "running"
  /\ \/ runner' = i /\ Job(i, "runner", "done") /\ UNCHANGED outages
     \/ Outage /\ Job(i, "runner", "failed") /\ UNCHANGED runner
  /\ UNCHANGED <<main, worker, migrated, tags>>

-----------------------------------------------------------------------------
(* publish-adt-runtime.yml                                                 *)

\* publicationPlan: image NoImage is a tag that does not exist.
PublicationPlan(source, release, sha, revision, latest) ==
  LET matches(image) == image.source = source /\ image.release = release IN
  IF \/ (sha = NoImage) # (revision = NoImage)
     \/ sha # NoImage /\ ~(matches(sha) /\ matches(revision) /\ sha.digest = revision.digest)
     \/ /\ latest.release = release
        /\ latest.source # source \/ (sha # NoImage /\ latest.digest # sha.digest)
     \/ sha # NoImage /\ latest.release < release
     \/ sha = NoImage /\ latest.release >= release
  THEN "error"
  ELSE IF sha # NoImage THEN "noop" ELSE "publish"

\* read, with the check that a different latest agrees with its own tags.
Plan(source, release) ==
  LET latest == tags.latest
      plan(s, r) == PublicationPlan(s, r, tags.sha[s], tags.revision[r], latest) IN
  IF latest # NoImage /\ latest.release # release /\ plan(latest.source, latest.release) = "error"
  THEN "error" ELSE plan(source, release)
PlanFor(i) == Plan(ResolveRuntimeSource(i), ReleaseRevision(i))

\* refresh: main is fetched and must not have superseded the target.
Refreshed(i) == ResolveRuntimeSource(Len(main)) = ResolveRuntimeSource(i) /\ Fresh("runtime", i)

\* A commit that changes no image input still reconciles after a deployment.
MayPublishRuntime(i) ==
  /\ life[i].verify = "ok"
  /\ Impact(i).publish_runtime \/ DeploysCloudflare(i)
  /\ DeploysCloudflare(i) => life[i].deploy = "done"

StartRuntime(i) ==
  /\ MayPublishRuntime(i) /\ life[i].runtime = "todo" /\ Free("runtime")
  /\ Job(i, "runtime",
         IF ~Refreshed(i) THEN "superseded"
         ELSE CASE PlanFor(i) = "publish" -> "planned"
                [] PlanFor(i) = "noop" -> "noop"
                [] PlanFor(i) = "error" -> "conflict")
  /\ UNCHANGED <<main, worker, migrated, runner, tags, outages>>

\* The second look, then the first push.
PushSha(i) ==
  LET source == ResolveRuntimeSource(i)
      image == [source |-> source, release |-> ReleaseRevision(i), digest |-> i] IN
  /\ life[i].runtime = "planned"
  /\ IF Refreshed(i) /\ PlanFor(i) = "publish"
     THEN Job(i, "runtime", "sha") /\ tags' = [tags EXCEPT !.sha[source] = image]
     ELSE Job(i, "runtime", "superseded") /\ UNCHANGED tags
  /\ UNCHANGED <<main, worker, migrated, runner, outages>>

PushRevision(i) ==
  /\ life[i].runtime = "sha" /\ Job(i, "runtime", "revision")
  /\ tags' = [tags EXCEPT !.revision[ReleaseRevision(i)] = tags.sha[ResolveRuntimeSource(i)]]
  /\ UNCHANGED <<main, worker, migrated, runner, outages>>

PushLatest(i) ==
  /\ life[i].runtime = "revision" /\ Job(i, "runtime", "latest")
  /\ tags' = [tags EXCEPT !.latest = tags.sha[ResolveRuntimeSource(i)]]
  /\ UNCHANGED <<main, worker, migrated, runner, outages>>

\* The third look.
Converge(i) ==
  /\ life[i].runtime = "latest"
  /\ Job(i, "runtime", IF PlanFor(i) = "noop" /\ tags.latest.digest = tags.sha[ResolveRuntimeSource(i)].digest
                       THEN "published" ELSE "conflict")
  /\ UNCHANGED <<main, worker, migrated, runner, tags, outages>>

\* The job dies between two pushes.
RuntimeFails(i) ==
  /\ life[i].runtime \in {"planned", "sha", "revision", "latest"}
  /\ Outage /\ Job(i, "runtime", "failed")
  /\ UNCHANGED <<main, worker, migrated, runner, tags>>

-----------------------------------------------------------------------------
Lifecycle(i) ==
  \/ Verify(i) \/ StartDeploy(i) \/ Deploy(i) \/ StartRunner(i) \/ PublishRunner(i)
  \/ StartRuntime(i) \/ PushSha(i) \/ PushRevision(i) \/ PushLatest(i) \/ Converge(i) \/ RuntimeFails(i)

DeliveryNext == PushMain \/ \E i \in Commits : Lifecycle(i)
DeliverySpec == DeliveryInit /\ [][DeliveryNext]_deliveryVars

-----------------------------------------------------------------------------
(* Properties                                                              *)

\* They do so only for the exact deployment that a Runner release waits for,
\* and then only back to a commit that no later Runner release follows.
WorkerGoesBackForBarrierOnly ==
  [][worker' < worker =>
       /\ Impact(worker').runner_release_barrier
       /\ RunnerRevision(worker') = RunnerRevision(worker)]_deliveryVars

\* Nothing is lost by skipping superseded operations: when every lifecycle has
\* run, without a failure, a Runner release or an unclassified path, the newest
\* Worker, migration and Runtime inputs of main are the ones in production.
Quiet == \A i \in Commits : ~ENABLED Lifecycle(i)
NewestWhere(which(_)) == Max({1} \cup {i \in Commits : which(i)})
QuietMeansCurrent ==
  (/\ outages = 0 /\ Quiet
   /\ \A i \in Commits : ~Impact(i).runner_release_barrier /\ ~Impact(i).has_unclassified_changes)
    => /\ worker = NewestWhere(LAMBDA i : Impact(i).deploy_worker)
       /\ migrated >= NewestWhere(LAMBDA i : main[i].paths \cap isMigrationPath # {})
       /\ tags.latest.source = ResolveRuntimeSource(Len(main))
       /\ runner = NewestWhere(LAMBDA i : Impact(i).publish_runner)
=============================================================================
