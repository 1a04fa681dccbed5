------------------------- MODULE ArtifactRepository -------------------------
(***************************************************************************)
(* The artifact library's repository: lib/artifact-repository.ts with the  *)
(* routes that write through it.  An artifact is one Markdown file on a    *)
(* GitHub branch.  A write is several awaited calls: the branch's tree is  *)
(* read and checked, and only then the contents API is asked to change one *)
(* file, so other writers and people who push to the branch come between.  *)
(*                                                                         *)
(* A blob SHA is a function of the blob, so the file's content stands for  *)
(* its SHA.  A tree names blobs that never change: everything the code     *)
(* computes from one tree is evaluated at the step that reads the tree.    *)
(***************************************************************************)
EXTENDS Naturals, FiniteSets

CONSTANTS
  Ids,          \* artifact identifiers
  Types,        \* artifact types; each has a directory of its own
  Writers,      \* concurrent write requests
  MaxCommits,   \* bound on the commits made to the branch
  BrokenKinds,  \* the codes of ArtifactValidationDiagnostic that a file can have
  MaxErrors     \* diagnoseCatalogue lists this many errors (50 in the code)

ASSUME RepositoryAssumption ==
  /\ MaxCommits \in Nat /\ MaxErrors \in Nat /\ BrokenKinds \cap {"valid", "absent"} = {}
  /\ IsFiniteSet(Ids) /\ IsFiniteSet(Types)

VARIABLES
  backend,      \* the backend this process was configured with
  files,        \* the branch: path -> content, Absent where there is no file
  commits,      \* number of commits made, for the bound
  req           \* writer -> the state of its request

repositoryVars == <<backend, files, commits, req>>

Absent == [kind |-> "absent"]
Versions == 1..2
Artifact == [kind : {"valid"}, id : Ids, type : Types, ver : Versions]

\* Files only a push can make; diagnoseCatalogue tells them apart.
Broken == [kind : BrokenKinds]
Content == Artifact \cup Broken

\* canonicalArtifactWritePath: prompts/<id>.md, snippets/<id>.md, ...
Paths == Types \X Ids
CanonicalArtifactWritePath(type, id) == <<type, id>>

Stored == {p \in Paths : files[p] # Absent}
ValidPaths == {p \in Paths : files[p].kind = "valid"}
PathsOfId(id) == {p \in ValidPaths : files[p].id = id}
PathOf(id) == CHOOSE p \in PathsOfId(id) : TRUE

-----------------------------------------------------------------------------
(* GitHub reads: up to githubMaxAttempts requests, then one outcome.       *)

githubMaxAttempts == 3
Transient == {"network", "cut_body", "429", "5xx"}
Response == Transient \cup {"ok", "bad_json", "401", "403", "404", "other"}

\* githubJson for a sequence of responses: the first one that is not
\* retryable decides, and a retryable one only when it is the last.
GithubJson(rs, operation) ==
  LET decisive == {n \in 1..githubMaxAttempts : rs[n] \notin Transient}
      n == CHOOSE m \in decisive : \A k \in decisive : m <= k
  IN IF decisive = {} THEN "unavailable"
     ELSE CASE rs[n] = "ok" -> "ok"
            [] rs[n] \in {"401", "403"} -> "access"
            [] rs[n] = "404" /\ operation = "tree" -> "branch_not_found"
            [] OTHER -> "content"

\* getArtifactRepositoryBackend: files only outside production.
GetArtifactRepositoryBackend(value, production) ==
  CASE value = "github" -> "github"
    [] value \in {"file", "unset"} /\ ~production -> "file"
    [] OTHER -> "misconfigured"

\* credential: minted once per request for a capability, and refused when
\* the installation does not grant the permission asked for.
CredentialOutcomes(capability) ==
  {"ok", "access", "unavailable", "configuration",
   IF capability = "write" THEN "write_permission" ELSE "access"}

\* What fetchTree and the blobs fetched after it can end with; a malformed or
\* truncated tree is a plain Error.
ReadOutcomes(capability) ==
  CredentialOutcomes(capability) \cup {"internal"} \cup
    {GithubJson(rs, op) : rs \in [1..githubMaxAttempts -> Response], op \in {"tree", "blob"}}
FailedReads == ReadOutcomes("write") \ {"ok"}

\* artifactsFromTree: every candidate must parse, and validateUniqueArtifactIds
\* throws a plain Error, which no handler knows, for an ID used twice.
ArtifactsFromTree ==
  IF \E p \in Stored : files[p].kind # "valid" THEN "content"
  ELSE IF \E p, q \in Stored : p # q /\ files[p].id = files[q].id THEN "internal"
  ELSE "ok"

-----------------------------------------------------------------------------
(* Diagnostics of the whole tree.                                          *)

\* diagnoseCatalogue: one diagnostic for a broken file, one for every file
\* whose ID another valid file has; at most MaxErrors of them are listed.
DiagnoseCatalogue ==
  LET broken == Stored \ ValidPaths
      duplicated == {p \in ValidPaths : Cardinality(PathsOfId(files[p].id)) > 1}
      invalid == broken \cup duplicated
      listed == IF Cardinality(invalid) < MaxErrors THEN Cardinality(invalid) ELSE MaxErrors
  IN [validCount |-> Cardinality(ValidPaths) - Cardinality(duplicated),
      invalidCount |-> Cardinality(invalid),
      errors |-> listed,
      omittedErrorCount |-> Cardinality(invalid) - listed]

-----------------------------------------------------------------------------
(* Write requests.                                                         *)

Operations == {"create", "variation", "update", "delete"}

\* What prepareArtifactWrite makes of the classes of input it tells apart.
Inputs == {"fine", "bad_metadata", "bad_id", "empty_body", "too_large", "secret"}
PrepareArtifactWrite(input) ==
  CASE input = "fine" -> "ok"
    [] input \in {"bad_metadata", "bad_id", "empty_body"} -> "validation"
    [] input = "too_large" -> "too_large"
    [] input = "secret" -> "secret"
Prepared == {PrepareArtifactWrite(input) : input \in Inputs}

Errors == {"too_large", "validation", "secret", "write_authentication", "access",
           "write_permission", "not_found", "duplicate", "conflict", "unavailable",
           "configuration", "content", "branch_not_found", "response", "internal"}

\* artifactWriteErrorResponse; what it does not know is a 500.
ArtifactWriteErrorResponse(error) ==
  CASE error = "too_large" -> 413
    [] error \in {"validation", "secret"} -> 400
    [] error \in {"write_authentication", "access"} -> 401
    [] error = "write_permission" -> 403
    [] error = "not_found" -> 404
    [] error \in {"duplicate", "conflict"} -> 409
    [] error = "unavailable" -> 503
    [] OTHER -> 500

FailedReadStatus == {ArtifactWriteErrorResponse(error) : error \in FailedReads}

Success(op) == IF op \in {"create", "variation"} THEN 201 ELSE 200
Rejections == {400, 401, 403, 404, 409, 413}

\* A request that is not answered: where it is, the operation, the ID it names,
\* the file it is about to change, the content in view and the content to come.
Request(pc, op, id, path, seen, new) ==
  [pc |-> pc, op |-> op, id |-> id, path |-> path, seen |-> seen, new |-> new, answer |-> 0]
Idle == Request("idle", "none", "none", <<>>, Absent, Absent)

RepositoryInit ==
  /\ backend \in {GetArtifactRepositoryBackend(v, production) :
                  v \in {"github", "file", "unset", "other"}, production \in BOOLEAN}
  /\ \E a \in Artifact : /\ a.ver = 1
                        /\ files = [p \in Paths |-> IF p = CanonicalArtifactWritePath(a.type, a.id)
                                                   THEN a ELSE Absent]
  /\ commits = 0
  /\ req = [w \in Writers |-> Idle]

\* Nothing of an answered request matters but the answer and what was in view.
Done(r, status) ==
  [pc |-> "done", op |-> "none", id |-> "none", path |-> <<>>, seen |-> r.seen, new |-> Absent,
   answer |-> status]
Answer(w, status) == req' = [req EXCEPT ![w] = Done(@, status)]
Fail(w, error) == Answer(w, ArtifactWriteErrorResponse(error))

\* The user opens the editor: the content shown is the one whose SHA the
\* form sends back.
Open(w) ==
  /\ req[w].pc = "idle"
  /\ \E p \in ValidPaths, op \in {"update", "delete"} :
       req' = [req EXCEPT ![w] = Request("editing", op, files[p].id, <<>>, files[p], Absent)]
  /\ UNCHANGED <<backend, files, commits>>

\* The backend refuses everything but a variation unless it is GitHub, and
\* the input is checked before anything is read.
Refusal(op, prepared) ==
  IF backend = "misconfigured" \/ (backend = "file" /\ op # "variation")
  THEN "configuration" ELSE prepared

\* The request as it stands after these checks.
Checked(r, error) ==
  IF error = "ok" THEN r ELSE Done(r, ArtifactWriteErrorResponse(error))

New(op, a) == Request("tree", op, a.id, CanonicalArtifactWritePath(a.type, a.id), Absent, a)

\* The form of a file in view is sent: its content becomes `new'.
Changed(r, new) == Request("tree", r.op, r.id, <<>>, r.seen, new)

\* POST: a new artifact whose ID and type the user chooses.
SubmitCreate(w) ==
  /\ req[w].pc = "idle"
  /\ \E a \in Artifact, prepared \in Prepared :
       /\ a.ver = 1
       /\ req' = [req EXCEPT ![w] = Checked(New("create", a), Refusal("create", prepared))]
  /\ UNCHANGED <<backend, files, commits>>

\* The variation route: a copy of a stored artifact, of its type, under an ID
\* made from a title, the time and four random bytes.
SubmitVariation(w) ==
  /\ req[w].pc = "idle"
  /\ \/ Fail(w, "not_found")
     \/ \E p \in ValidPaths, id \in Ids, prepared \in Prepared :
          LET a == [kind |-> "valid", id |-> id, type |-> files[p].type, ver |-> 1]
          IN req' = [req EXCEPT ![w] = Checked(New("variation", a), Refusal("variation", prepared))]
  /\ UNCHANGED <<backend, files, commits>>

\* PATCH: the form may change anything, the immutable metadata included.
SubmitUpdate(w) ==
  /\ req[w].pc = "editing" /\ req[w].op = "update"
  /\ \E a \in Artifact, prepared \in Prepared :
       LET refusal == Refusal("update", prepared)
       IN req' = [req EXCEPT ![w] =
            Checked(Changed(req[w], a),
                    IF refusal = "ok" /\ a.id # req[w].id THEN "validation" ELSE refusal)]
  /\ UNCHANGED <<backend, files, commits>>

\* DELETE: an Agent that uses the prompt refuses it; then the catalogue, which
\* may be behind the branch, is compared with the SHA of the form.
SubmitDelete(w) ==
  /\ req[w].pc = "editing" /\ req[w].op = "delete"
  /\ \/ Answer(w, 409)
     \/ \E error \in {"not_found", "conflict"} : Fail(w, error)
     \/ req' = [req EXCEPT ![w] = Checked(Changed(req[w], Absent), Refusal("delete", "ok"))]
  /\ UNCHANGED <<backend, files, commits>>

\* createValidatedArtifactAtPath: the path, the tree, then the ID.
CheckNew(w) ==
  IF files[req[w].path] # Absent THEN "duplicate"
  ELSE IF ArtifactsFromTree # "ok" THEN ArtifactsFromTree
  ELSE IF PathsOfId(req[w].id) # {} THEN "duplicate" ELSE "ok"

\* update and resolveDeletion: the file that has the ID must still be the
\* one the form was made from, and an update may not change what
\* validateImmutableArtifactMetadata protects.
CheckExisting(w) ==
  IF ArtifactsFromTree # "ok" THEN ArtifactsFromTree
  ELSE IF PathsOfId(req[w].id) = {} THEN "not_found"
  ELSE LET stored == files[PathOf(req[w].id)]
       IN IF stored # req[w].seen THEN "conflict"
          ELSE IF req[w].op = "update" /\ req[w].new.type # stored.type THEN "validation" ELSE "ok"

\* fetchTree("write") and artifactsFromTree, or list() of the file backend.
ReadTree(w) ==
  /\ req[w].pc = "tree"
  /\ \/ /\ backend = "github"
        /\ \E status \in FailedReadStatus : Answer(w, status)
     \/ LET new == req[w].op \in {"create", "variation"}
            check == IF new THEN CheckNew(w) ELSE CheckExisting(w)
        IN IF check # "ok" THEN Fail(w, check)
           ELSE req' = [req EXCEPT ![w] =
                  Request("put", @.op, @.id, IF new THEN @.path ELSE PathOf(@.id), @.seen, @.new)]
  /\ UNCHANGED <<backend, files, commits>>

\* Mutant: an update or a deletion is sent without the SHA.
ContentsAcceptsAnySha(w) ==
  IF req[w].op \in {"create", "variation"}
  THEN files[req[w].path] = Absent ELSE files[req[w].path] # Absent

\* The contents API: with a SHA it changes that content only, without one it
\* creates a file only.  The file backend opens the file exclusively (wx).
ContentsAccepts(w) ==
  IF req[w].op \in {"create", "variation"}
  THEN files[req[w].path] = Absent
  ELSE files[req[w].path] = req[w].seen

\* writeContents, deleteContents: the commit is made and the answer read.
PutAccepted(w) ==
  /\ req[w].pc = "put"
  /\ commits < MaxCommits
  /\ ContentsAccepts(w)
  /\ files' = [files EXCEPT ![req[w].path] = req[w].new]
  /\ commits' = commits + 1
  /\ \E error \in {"none", "unavailable", "response"} :
       \* GitHub's answer may be lost or unreadable after the commit.
       /\ error # "none" => backend = "github"
       /\ Answer(w, IF error = "none" THEN Success(req[w].op) ELSE ArtifactWriteErrorResponse(error))
  /\ UNCHANGED backend

\* The same call refused, or failed on its way to GitHub.
PutRefused(w) ==
  /\ req[w].pc = "put"
  /\ \/ ~ContentsAccepts(w) /\ Fail(w, IF req[w].op \in {"create", "variation"}
                                       THEN "duplicate" ELSE "conflict")
     \/ /\ backend = "github"
        /\ \E error \in {"write_authentication", "write_permission", "unavailable", "response"} :
             Fail(w, error)
  /\ UNCHANGED <<backend, files, commits>>

\* People push to the branch themselves (external).
Push ==
  /\ backend = "github" /\ commits < MaxCommits
  /\ \E p \in Paths, c \in Content \cup {Absent} :
       /\ c # files[p] /\ (c \in Artifact => c.ver = 2 /\ c.type = p[1])
       /\ files' = [files EXCEPT ![p] = c]
  /\ commits' = commits + 1
  /\ UNCHANGED <<backend, req>>

WriterStep(w) ==
  \/ Open(w) \/ SubmitCreate(w) \/ SubmitVariation(w) \/ SubmitUpdate(w) \/ SubmitDelete(w)
  \/ ReadTree(w) \/ PutAccepted(w) \/ PutRefused(w)

RepositoryNext == (\E w \in Writers : WriterStep(w)) \/ Push

RepositorySpec == RepositoryInit /\ [][RepositoryNext]_repositoryVars

-----------------------------------------------------------------------------
(* Correctness                                                             *)

\* What the user of request w has been told.
Outcome(w) ==
  IF req[w].pc # "done" THEN "open"
  ELSE IF req[w].answer \in {200, 201} THEN "applied"
  ELSE IF req[w].answer \in Rejections THEN "rejected" ELSE "unknown"

Library == INSTANCE VersionedLibrary WITH
  Artifacts <- Artifact, Contents <- Content, Requests <- Writers,
  library <- files,
  view <- [w \in Writers |-> req[w].seen],
  outcome <- [w \in Writers |-> Outcome(w)]

\* The repository implements the versioned library.  A request commits at most
\* once and over exactly the version in the user's editor, although the tree
\* was read earlier and others commit meanwhile; an answer of success means
\* the commit was made, a 4xx answer that it was not, and a 5xx answer claims
\* neither (update, delete, create, createVariation, writeContents).
ImplementsLibrary == Library!Spec

\* diagnoseCatalogue accounts for every file once, and finds a fault exactly
\* when list() and loadCatalogue would refuse the tree (artifactsFromTree).
DiagnosisExplainsRefusal ==
  LET d == DiagnoseCatalogue
  IN /\ d.validCount + d.invalidCount = Cardinality(Stored)
     /\ d.errors + d.omittedErrorCount = d.invalidCount
     /\ d.invalidCount = 0 <=> ArtifactsFromTree = "ok"
=============================================================================
