---------------------------- MODULE FeatureRequests ----------------------------
(***************************************************************************)
(* Feature request files become GitHub issues:                             *)
(* scripts/create-feature-issues-from-requests.mjs and                     *)
(* reprocess-feature-requests.mjs, started for the files a push changed,   *)
(* by hand for one file or for all, or as a dry run.  Creating runs share  *)
(* one concurrency group; dry runs do not take it.  Files keep changing on *)
(* main while a run works on the commit it checked out.                    *)
(***************************************************************************)
EXTENDS Naturals, FiniteSets

CONSTANTS RequestIds, Runs, MaxEdits, MaxFailures

ASSUME FeatureRequestsAssumption == MaxEdits \in Nat /\ MaxFailures \in Nat

VARIABLES
  document,    \* request ID -> its file on main
  everReady,   \* the requests whose file ever had the status "ready" on main
  issues,      \* request ID -> number of GitHub issues that carry its marker
  run,         \* run -> where it is: the files it checked out, those left to do
  edits, failures

featureVars == <<document, everReady, issues, run, edits, failures>>

\* loadAndRenderRequest: a file is missing, refused (validateFeatureRequestData,
\* or an ID that is not the file's name), or has a status.
Statuses == {"planned", "ready"}
Documents == {"missing", "refused"} \cup Statuses
IdleRun == [pc |-> "idle", dry |-> FALSE, files |-> [r \in {} |-> "ready"], todo |-> {}, at |-> "-"]

FeatureRequestsInit ==
  /\ document = [r \in RequestIds |-> "missing"]
  /\ everReady = {}
  /\ issues = [r \in RequestIds |-> 0]
  /\ run = [x \in Runs |-> IdleRun]
  /\ edits = 0 /\ failures = 0

EditRequest(r) ==
  /\ edits < MaxEdits /\ edits' = edits + 1
  /\ \E d \in Documents \ {document[r]} :
       /\ document' = [document EXCEPT ![r] = d]
       /\ everReady' = IF d = "ready" THEN everReady \cup {r} ELSE everReady
  /\ UNCHANGED <<issues, run, failures>>

\* requestPaths: all files, or any selection of those that are there.
RequestPaths == {files \in SUBSET {r \in RequestIds : document[r] # "missing"} : files # {}}

\* Mutant: no concurrency group.
MayAlwaysStart(dry) == TRUE

\* The concurrency group of reusable-create-feature-issues.yml.
MayStart(dry) == dry \/ \A x \in Runs : run[x].pc = "idle" \/ run[x].dry

\* validateSelectedRequests: one refused file ends the run before any issue.
ValidSelection(files) == \A r \in files : document[r] \in Statuses
StartRun(x) ==
  /\ run[x].pc = "idle"
  /\ \E dry \in BOOLEAN, files \in RequestPaths :
       /\ MayStart(dry) /\ ValidSelection(files)
       /\ run' = [run EXCEPT ![x] = [pc |-> "next", dry |-> dry, files |-> [r \in files |-> document[r]],
                                     todo |-> files, at |-> "-"]]
  /\ UNCHANGED <<document, everReady, issues, edits, failures>>

\* findExistingIssue: the marker of the request is searched in all issues.
FindExistingIssue(r) == issues[r] > 0

Skipped(x, r) == run[x].files[r] # "ready" \/ FindExistingIssue(r) \/ run[x].dry

\* One turn of the loop of processRequests.
NextRequest(x) ==
  /\ run[x].pc = "next"
  /\ IF run[x].todo = {}
     THEN run' = [run EXCEPT ![x] = IdleRun]
     ELSE \E r \in run[x].todo :
            run' = [run EXCEPT ![x].todo = @ \ {r},
                               ![x].pc = IF Skipped(x, r) THEN "next" ELSE "find",
                               ![x].at = IF Skipped(x, r) THEN "-" ELSE r]
  /\ UNCHANGED <<document, everReady, issues, edits, failures>>

\* createIssueFromLoaded looks again, then makes the labels and the issue.
FindAgain(x) ==
  /\ run[x].pc = "find"
  /\ run' = IF FindExistingIssue(run[x].at)
            THEN [run EXCEPT ![x].pc = "next", ![x].at = "-"]
            ELSE [run EXCEPT ![x].pc = "create"]
  /\ UNCHANGED <<document, everReady, issues, edits, failures>>

CreateIssue(x) ==
  /\ run[x].pc = "create"
  /\ issues' = [issues EXCEPT ![run[x].at] = @ + 1]
  /\ run' = [run EXCEPT ![x].pc = "next", ![x].at = "-"]
  /\ UNCHANGED <<document, everReady, edits, failures>>

\* A gh call fails or the job is cancelled.  The issue may have been created.
RunFails(x) ==
  /\ run[x].pc # "idle" /\ failures < MaxFailures /\ failures' = failures + 1
  /\ run' = [run EXCEPT ![x] = IdleRun]
  /\ \/ UNCHANGED issues
     \/ run[x].pc = "create" /\ issues' = [issues EXCEPT ![run[x].at] = @ + 1]
  /\ UNCHANGED <<document, everReady, edits>>

FeatureRequestsNext ==
  \/ \E r \in RequestIds : EditRequest(r)
  \/ \E x \in Runs : StartRun(x) \/ NextRequest(x) \/ FindAgain(x) \/ CreateIssue(x) \/ RunFails(x)

FeatureRequestsSpec == FeatureRequestsInit /\ [][FeatureRequestsNext]_featureVars

-----------------------------------------------------------------------------
(* Properties                                                              *)

\* However often requests are edited, reprocessed, and their runs cut short
\* after the issue was created, a request ID has at most one issue.
OneIssuePerRequest == \A r \in RequestIds : issues[r] <= 1

=============================================================================
