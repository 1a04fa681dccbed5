----------------------------- MODULE ChangePolicy -----------------------------
(***************************************************************************)
(* What a set of changed paths leads to: scripts/change-policy.mjs,        *)
(* scripts/classify-changes.mjs, scripts/auto-merge-eligibility.mjs,       *)
(* lib/deployment-component-impact.js and                                  *)
(* scripts/evaluate-deployment-freshness.mjs.  A path is a pair of its     *)
(* leading directory ("" for the root) and the item below it; an item such *)
(* as "page" stands for every path the predicates cannot tell from it.     *)
(***************************************************************************)
EXTENDS Naturals, FiniteSets

In(dir, items) == {dir} \X items

RootDocs == In("", {"README.md", "NOTES.md", "AGENTS.md"})
\* exactSensitive
ExactSensitive == In("", {"package.json", "package-lock.json", "wrangler.jsonc"})
rootAppBuildFiles == ExactSensitive \cup
  In("", {"tsconfig.json", "cloudflare-worker.ts", ".nvmrc", ".npmrc", "postcss.config.mjs", "tailwind.config.ts"})
rootVerificationExtras == In("", {".node-version", "cloudflare-env.d.ts", "next-env.d.ts", "eslint.config.mjs"})
runtimeImageFiles == In("adt-runtime", {"Dockerfile", "package.json", "release.json"})
runnerImageFiles == In("codex-runner", {"Dockerfile", "package.json", "release.json", "git-askpass.sh"})
adrianImageFiles == {<<"third_party", "adrian-upstream.json">>, <<"adrian", "Dockerfile">>}

Paths ==
  RootDocs \cup rootAppBuildFiles \cup rootVerificationExtras
  \cup In("", {"next.config.ts", "open-next.config.ts", "npm-shrinkwrap.json", ".gitignore", "unknown"})
  \cup In(".agents", {"skill"})
  \cup In("docs", {"page.md", "AGENTS.md"}) \cup In("specs", {"page.md"}) \cup In("prompts", {"page.md"})
  \cup In("requests", {"features/x.json", "other"})
  \cup In("app", {"page.tsx", "page.css", "AGENTS.md"}) \cup In("components", {"view.tsx", "view.css"})
  \cup In("styles", {"page.css"}) \cup In("lib", {"code.ts"}) \cup In("public", {"image.png", "other"})
  \cup In("migrations", {"0001.sql"})
  \cup In(".github", {"workflows/x.yml", "actions/x.yml", "dependabot.yml", "other"})
  \cup In("scripts", {"tool.mjs", "smoke-test-worker.mjs", "verify-adrian-provenance.sh"})
  \cup In("test", {"unit", "integration"}) \cup In("test-fixtures", {"x"})
  \cup runtimeImageFiles
  \cup In("adt-runtime", {"src/x.ts", "src/AGENTS.md", "README.md", "docs/x.md", "scripts/smoke-image.sh", "test/x"})
  \cup runnerImageFiles
  \cup In("codex-runner", {"src/x.ts", "src/AGENTS.md", "README.md", "docs/x.md", "scripts/smoke-image.sh",
                           "squid.conf", "scripts/smoke-proxy-policy.sh", "test/x"})
  \cup adrianImageFiles \cup In("adrian", {"scripts/smoke-image.sh", "other"})
  \cup In("third_party", {"adrian/x", "other"})

-----------------------------------------------------------------------------
(* change-policy.mjs: each predicate is the set of paths it accepts        *)

isGovernancePath == {p \in Paths : p[1] = ".agents" \/ p[2] \in {"AGENTS.md", "src/AGENTS.md"}}
isWorkflowAutomationPath == In(".github", {"workflows/x.yml", "actions/x.yml"})
isCanonicalFeaturePath == {<<"requests", "features/x.json">>}
documentation ==
  {p \in Paths : p[1] \in {"docs", "specs", "prompts", "requests"}} \cup RootDocs
  \cup In("adt-runtime", {"README.md", "docs/x.md"}) \cup In("codex-runner", {"README.md", "docs/x.md"})
isDocumentationOrRequestPath == isGovernancePath \cup documentation
isOrdinaryDocumentationOrRequestPath == documentation \ isGovernancePath
isStaticAssetPath == In("public", {"image.png"})
isStyleOnlyPath == {<<"app", "page.css">>, <<"components", "view.css">>, <<"styles", "page.css">>}

\* Mutant: agent guidance counts as documentation.
LowSensitivityWithGuidance == isDocumentationOrRequestPath \cup isStaticAssetPath \cup isStyleOnlyPath

isLowSensitivityAutoMergePath ==
  isOrdinaryDocumentationOrRequestPath \cup isStaticAssetPath \cup isStyleOnlyPath

\* evaluateAutoMergeEligibility, for a pull request of the repository's owner.
Eligible(change) == change # {} /\ change \subseteq isLowSensitivityAutoMergePath

-----------------------------------------------------------------------------
(* deployment-component-impact.js                                          *)

isAppBuildPath ==
  {p \in Paths : p[1] \in {"app", "components", "lib", "public"}} \cup rootAppBuildFiles
  \cup {<<"codex-runner", "release.json">>, <<"adt-runtime", "release.json">>}
  \cup In("", {"next.config.ts", "open-next.config.ts"})
isRuntimeImagePath == In("adt-runtime", {"src/x.ts", "src/AGENTS.md"}) \cup runtimeImageFiles
isRunnerImagePath == In("codex-runner", {"src/x.ts", "src/AGENTS.md"}) \cup runnerImageFiles
isAdrianImagePath == {<<"third_party", "adrian/x">>} \cup adrianImageFiles
isKnownDeploymentClassificationPath ==
  isDocumentationOrRequestPath \cup {<<"", ".gitignore">>} \cup rootVerificationExtras \cup isAppBuildPath
  \cup {p \in Paths : p[1] \in {"migrations", ".github", "scripts", "test", "test-fixtures",
                               "adt-runtime", "codex-runner", "adrian"}}
  \cup In("third_party", {"adrian/x", "adrian-upstream.json"})

-----------------------------------------------------------------------------
(* classify-changes.mjs                                                    *)

isSensitivePath ==
  isGovernancePath \cup isWorkflowAutomationPath \cup ExactSensitive
  \cup {p \in Paths : p[1] \in {"scripts", "lib"}}
  \cup {<<"test", "integration">>, <<"", "open-next.config.ts">>}
isLockfileRepairRelevantPath ==
  In("", {"package.json", "package-lock.json", ".nvmrc", ".node-version", ".npmrc", "npm-shrinkwrap.json"})
  \cup In(".github", {"dependabot.yml"}) \cup isWorkflowAutomationPath
isMigrationPath == {p \in Paths : p[1] = "migrations"}
isRuntimePath == {p \in Paths : p[1] = "adt-runtime"} \ isDocumentationOrRequestPath
isRuntimeImageSmokePath == isRuntimeImagePath \cup In("adt-runtime", {"scripts/smoke-image.sh"})
isRunnerPath == {p \in Paths : p[1] = "codex-runner"} \ isDocumentationOrRequestPath
isRunnerImageSmokePath == isRunnerImagePath \cup In("codex-runner", {"scripts/smoke-image.sh"})
isRunnerProxyPolicySmokePath == In("codex-runner", {"squid.conf", "scripts/smoke-proxy-policy.sh"})
isAdrianPath ==
  {p \in Paths : p[1] = "adrian"} \cup In("third_party", {"adrian/x", "adrian-upstream.json"})
  \cup In("scripts", {"verify-adrian-provenance.sh"})
isAdrianImageSmokePath == isAdrianImagePath \cup In("adrian", {"scripts/smoke-image.sh"})

isRootVerificationPath ==
  rootVerificationExtras \cup isAppBuildPath \cup isMigrationPath
  \cup {p \in Paths : p[1] \in {".github", "scripts", "test", "test-fixtures"}}
isIntegrationPath ==
  {p \in Paths : p[1] = "lib"} \cup isRuntimePath \cup {<<"test", "integration">>}
  \cup In("", {"package.json", "package-lock.json", ".nvmrc"})

\* change holds both names of a renamed file.
ClassifyChanges(change) ==
  LET some(paths) == change \cap paths # {}
      worker == some(isAppBuildPath) IN
  [has_feature_request_changes |-> some(isCanonicalFeaturePath),
   has_sensitive_changes       |-> some(isSensitivePath),
   has_lockfile_repair_changes |-> some(isLockfileRepairRelevantPath),
   has_unclassified_changes    |-> ~(change \subseteq isKnownDeploymentClassificationPath),
   documentation_request_only  |-> change # {} /\ change \subseteq isDocumentationOrRequestPath,
   verify_root                 |-> some(isRootVerificationPath),
   verify_app                  |-> worker \/ some(In("scripts", {"smoke-test-worker.mjs"})),
   verify_runtime              |-> some(isRuntimePath),
   verify_runner               |-> some(isRunnerPath),
   verify_adrian               |-> some(isAdrianPath),
   verify_integration          |-> some(isIntegrationPath),
   smoke_runtime_image         |-> some(isRuntimeImageSmokePath),
   smoke_runner_image          |-> some(isRunnerImageSmokePath),
   smoke_runner_proxy_policy   |-> some(isRunnerProxyPolicySmokePath),
   smoke_adrian_image          |-> some(isAdrianImageSmokePath),
   deploy_worker               |-> worker,
   apply_migrations            |-> worker \/ some(isMigrationPath),
   publish_runtime             |-> some(isRuntimeImagePath),
   publish_runner              |-> some(isRunnerImagePath),
   publish_adrian              |-> some(isAdrianImagePath),
   runner_release_barrier      |-> <<"codex-runner", "release.json">> \in change]

-----------------------------------------------------------------------------
(* evaluate-deployment-freshness.mjs                                       *)

\* An operation of a target commit, given what the commits after it changed.
Operations == {"runtime", "adrian", "runner", "worker", "barrier", "migrations"}

\* Mutants: the Worker is held to the barrier's rule; to that of the migrations.
WorkerFreshAsBarrier(operation, impact) ==
  /\ ~impact.has_unclassified_changes
  /\ CASE operation = "runtime" -> ~impact.publish_runtime
       [] operation = "adrian" -> ~impact.publish_adrian
       [] operation = "runner" -> ~impact.publish_runner
       [] operation \in {"barrier", "worker"} -> ~impact.runner_release_barrier
       [] operation = "migrations" -> ~impact.apply_migrations
WorkerFreshAsMigrations(operation, impact) ==
  /\ ~impact.has_unclassified_changes
  /\ CASE operation = "runtime" -> ~impact.publish_runtime
       [] operation = "adrian" -> ~impact.publish_adrian
       [] operation = "runner" -> ~impact.publish_runner
       [] operation = "barrier" -> ~impact.runner_release_barrier
       [] operation \in {"worker", "migrations"} -> ~impact.apply_migrations

EvaluateOperationFreshness(operation, impact) ==
  /\ ~impact.has_unclassified_changes
  /\ CASE operation = "runtime" -> ~impact.publish_runtime
       [] operation = "adrian" -> ~impact.publish_adrian
       [] operation = "runner" -> ~impact.publish_runner
       [] operation = "barrier" -> ~impact.runner_release_barrier
       [] operation = "worker" -> ~impact.deploy_worker
       [] operation = "migrations" -> ~impact.apply_migrations

\* What the Cloudflare deployment of a commit counts as.
CloudflareOperation(impact) ==
  IF impact.runner_release_barrier THEN "barrier"
  ELSE IF impact.deploy_worker THEN "worker" ELSE "migrations"
=============================================================================
