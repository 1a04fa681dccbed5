----------------------------- MODULE MCAdmission -----------------------------
(***************************************************************************)
(* Who and what is let in, checked side by side: the launch of workflow    *)
(* runs, the keys of Security Profiles, the delivery of main, the merge of *)
(* pull requests and the issues of feature requests.  The first state      *)
(* chooses a system; the variables of the others stay as they are.         *)
(***************************************************************************)
EXTENDS MCWorkflowLaunch, SecurityProfiles, Delivery, PullRequests, FeatureRequests

VARIABLE system

\* One change of each kind the deployment tells apart.
MainChanges ==
  {{<<"app", "page.tsx">>}, {<<"migrations", "0001.sql">>}, {<<"docs", "page.md">>},
   {<<"codex-runner", "release.json">>, <<"codex-runner", "src/x.ts">>}, {<<"codex-runner", "src/x.ts">>},
   {<<"adt-runtime", "release.json">>, <<"adt-runtime", "src/x.ts">>}, {<<"", "unknown">>}}

\* A pull request of any path alone, with documentation or with a style sheet.
RequestChanges ==
  {{p} \cup q : p \in Paths, q \in {{}, {<<"docs", "page.md">>}, {<<"app", "page.css">>}}}
LaterPushes == {{<<"app", "page.css">>}, {<<"lib", "code.ts">>}}

admissionVars == <<system, vars, profileVars, deliveryVars, prVars, featureVars>>

AdmissionInit ==
  /\ system \in {"launch", "profiles", "delivery", "pulls", "features"}
  /\ LaunchInit /\ ProfilesInit /\ DeliveryInit /\ PullRequestsInit /\ FeatureRequestsInit
  /\ system # "pulls" => trusted /\ heads[1].change = {<<"docs", "page.md">>}

\* Bound: two administrators change the profile together only in its first revisions.
Alone == Cardinality({o \in Admins : work'[o] # AtRest}) <= 1

AdmissionNext ==
  /\ UNCHANGED system
  /\ \/ system = "launch" /\ LaunchNext /\ UNCHANGED <<profileVars, deliveryVars, prVars, featureVars>>
     \/ system = "profiles" /\ ProfilesNext /\ (profileShas' > 2 => Alone) /\ UNCHANGED <<vars, deliveryVars, prVars, featureVars>>
     \/ system = "delivery" /\ DeliveryNext /\ UNCHANGED <<vars, profileVars, prVars, featureVars>>
     \/ system = "pulls" /\ PullRequestsNext /\ UNCHANGED <<vars, profileVars, deliveryVars, featureVars>>
     \/ system = "features" /\ FeatureRequestsNext /\ UNCHANGED <<vars, profileVars, deliveryVars, prVars>>

AdmissionSpec == AdmissionInit /\ [][AdmissionNext]_admissionVars

=============================================================================
