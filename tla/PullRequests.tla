----------------------------- MODULE PullRequests -----------------------------
(***************************************************************************)
(* From a pull request to main: the PR lifecycle                           *)
(* (.github/workflows/pr-orchestrator.yml), which verifies what the        *)
(* classification selects, and the trusted auto-merge                      *)
(* (scripts/auto-merge-orchestration.mjs, auto-merge-eligibility.mjs and   *)
(* auto-merge.yml), started by a finished PR lifecycle.  New commits,      *)
(* conversions to draft, closing and merging by hand race it.              *)
(***************************************************************************)
EXTENDS ChangePolicy, Sequences

CONSTANTS
  FirstChanges,   \* what the first head of the pull request may change
  LaterChanges,   \* what a later head may change
  MaxHeads        \* bound on the heads pushed

ASSUME PullRequestsAssumption ==
  /\ FirstChanges \cup LaterChanges \subseteq SUBSET Paths
  /\ MaxHeads \in Nat \ {0}

VARIABLES
  trusted,    \* the author is the repository's owner, the branch is its own
  heads,      \* heads pushed so far: the change against main, the jobs that passed
  state,      \* "open", "closed" or "merged"
  draft,
  auto,       \* head -> where the auto-merge its lifecycle started is
  merged      \* the head that was merged, and by whom

prVars == <<trusted, heads, state, draft, auto, merged>>

Tip == Len(heads)
NotValidated == {}
\* The jobs of reusable-verify.yml that a classification selects.
SelectedJobs(impact) ==
  LET jobs == {"verify_root", "verify_app", "verify_runtime", "verify_runner", "verify_adrian", "verify_integration",
               "smoke_runtime_image", "smoke_runner_image", "smoke_adrian_image", "smoke_runner_proxy_policy"} IN
  {"classify"} \cup {job \in jobs : impact[job]}

PullRequestsInit ==
  /\ trusted \in BOOLEAN
  /\ \E change \in FirstChanges : heads = <<[change |-> change, jobs |-> NotValidated]>>
  /\ state = "open" /\ draft = FALSE
  /\ auto = <<"none">>
  /\ merged = [head |-> 0, by |-> "nobody"]

\* pr-lifecycle runs of older heads are cancelled; unclassified paths fail it.
Validate ==
  LET impact == ClassifyChanges(heads[Tip].change) IN
  /\ state = "open" /\ heads[Tip].jobs = NotValidated
  /\ ~impact.has_unclassified_changes
  /\ heads' = [heads EXCEPT ![Tip].jobs = SelectedJobs(impact)]
  /\ auto' = [auto EXCEPT ![Tip] = "start"]
  /\ UNCHANGED <<trusted, state, draft, merged>>

PushHead ==
  /\ state = "open" /\ Tip < MaxHeads
  /\ \E change \in LaterChanges : heads' = Append(heads, [change |-> change, jobs |-> NotValidated])
  /\ auto' = Append(auto, "none")
  /\ UNCHANGED <<trusted, state, draft, merged>>

ChangeState ==
  /\ \/ state = "open" /\ draft' = ~draft /\ UNCHANGED <<state, merged>>
     \/ state = "open" /\ state' = "closed" /\ UNCHANGED <<draft, merged>>
     \/ state = "closed" /\ state' = "open" /\ UNCHANGED <<draft, merged>>
     \/ state = "open" /\ ~draft /\ state' = "merged" /\ merged' = [head |-> Tip, by |-> "person"] /\ UNCHANGED draft
  /\ UNCHANGED <<trusted, heads, auto>>

\* decidePullRequestAction for the head h that was validated.
DecidePullRequestAction(h) ==
  IF state = "open" /\ Tip = h /\ ~draft /\ trusted THEN "evaluate" ELSE "noop"

Decide(h) ==
  /\ auto[h] = "start"
  /\ auto' = [auto EXCEPT ![h] = DecidePullRequestAction(h)]
  /\ UNCHANGED <<trusted, heads, state, draft, merged>>

\* The files are those of the pull request's head at this moment.
Evaluate(h) ==
  /\ auto[h] = "evaluate"
  /\ auto' = [auto EXCEPT ![h] = IF Eligible(heads[Tip].change) THEN "eligible" ELSE "manual"]
  /\ UNCHANGED <<trusted, heads, state, draft, merged>>

\* The second decision, then the squash merge, which GitHub refuses unless the
\* head is still the validated one.
Boundary(h) ==
  /\ auto[h] = "eligible"
  /\ auto' = [auto EXCEPT ![h] = IF DecidePullRequestAction(h) = "evaluate" THEN "merge" ELSE "noop"]
  /\ UNCHANGED <<trusted, heads, state, draft, merged>>

MergeAccepts(h) == state = "open" /\ Tip = h /\ ~draft
Merge(h) ==
  /\ auto[h] = "merge"
  /\ auto' = [auto EXCEPT ![h] = "ended"]
  /\ IF MergeAccepts(h)
     THEN state' = "merged" /\ merged' = [head |-> Tip, by |-> "auto"]
     ELSE UNCHANGED <<state, merged>>
  /\ UNCHANGED <<trusted, heads, draft>>

PullRequestsNext ==
  \/ Validate \/ PushHead \/ ChangeState
  \/ \E h \in 1..Tip : Decide(h) \/ Evaluate(h) \/ Boundary(h) \/ Merge(h)

PullRequestsSpec == PullRequestsInit /\ [][PullRequestsNext]_prVars

-----------------------------------------------------------------------------
(* Properties                                                              *)

\* What auto-merge puts on main was validated as it stands, comes from the
\* owner, and touches nothing that the other policies hold back: no sensitive
\* or dependency path, no migration and no image.  Three scripts keep these
\* lists apart.
AutoMergeIsHarmless ==
  merged.by = "auto" =>
    LET head == heads[merged.head]
        impact == ClassifyChanges(head.change) IN
    /\ trusted /\ head.jobs # NotValidated
    /\ ~impact.has_sensitive_changes /\ ~impact.has_lockfile_repair_changes
    /\ ~impact.has_unclassified_changes
    /\ head.change \cap isMigrationPath = {}
    /\ ~impact.publish_runtime /\ ~impact.publish_runner /\ ~impact.publish_adrian

=============================================================================
