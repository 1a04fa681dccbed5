---------------------- MODULE ArtifactRepositoryProofs ----------------------
(***************************************************************************)
(* ArtifactRepository implements VersionedLibrary, proved for any number   *)
(* of writers, artifacts, types and commits.  Between the check of a tree  *)
(* and the commit anybody may change the branch; what a request may then   *)
(* still rely on is what the invariant says of it.                         *)
(***************************************************************************)
EXTENDS ArtifactRepository, FiniteSetTheorems, TLAPS

\* What is known of a request's content once the form was sent.
WriteOK(r) ==
  \/ r.op \in {"create", "variation"} /\ r.seen = Absent /\ r.new \in Artifact /\ r.path \in Paths
  \/ /\ r.op = "update" /\ r.seen \in Artifact /\ r.id = r.seen.id
     /\ r.new \in Artifact /\ r.new.id = r.id
  \/ r.op = "delete" /\ r.seen \in Artifact /\ r.id = r.seen.id /\ r.new = Absent

\* And once the tree was checked.
CheckedOK(r) ==
  r.pc = "put" => r.path \in Paths /\ (r.op = "update" => r.new.type = r.seen.type)

RequestOK(r) ==
  \/ r = Idle
  \/ r.pc = "done"
  \/ r.pc = "editing" /\ r.op \in {"update", "delete"} /\ r.seen \in Artifact /\ r.id = r.seen.id
  \/ r.pc \in {"tree", "put"} /\ WriteOK(r) /\ CheckedOK(r)

RepositoryInv ==
  /\ files \in [Paths -> Content \cup {Absent}]
  /\ DOMAIN req = Writers
  /\ \A w \in Writers : RequestOK(req[w])

-----------------------------------------------------------------------------
(* Operators.                                                              *)

LEMMA KindsDiffer ==
  /\ Absent \notin Artifact
  /\ \A c \in Content \cup {Absent} : c.kind = "valid" => c \in Artifact
<1>1. \A c \in Broken \cup {Absent} : c.kind # "valid"
  BY RepositoryAssumption DEF Broken, Absent
<1>2. Absent \notin Artifact
  BY DEF Absent, Artifact
<1> QED
  BY <1>1, <1>2 DEF Content

\* artifactWriteErrorResponse never looks like success.
LEMMA ErrorsAreErrors == \A error : ArtifactWriteErrorResponse(error) \notin {200, 201}
  BY DEF ArtifactWriteErrorResponse

LEMMA FailedReadsAreErrors == \A status \in FailedReadStatus : status \notin {200, 201}
  BY ErrorsAreErrors DEF FailedReadStatus

\* The file that has an ID is an artifact with that ID.
LEMMA PathOfId ==
  ASSUME RepositoryInv, NEW id, PathsOfId(id) # {}
  PROVE  PathOf(id) \in Paths /\ files[PathOf(id)] \in Artifact /\ files[PathOf(id)].id = id
<1>1. PathOf(id) \in PathsOfId(id)
  BY DEF PathOf
<1>2. /\ PathOf(id) \in Paths /\ files[PathOf(id)].kind = "valid" /\ files[PathOf(id)].id = id
  BY <1>1 DEF PathsOfId, ValidPaths
<1> QED
  BY <1>2, KindsDiffer DEF RepositoryInv

LEMMA ValidIsArtifact ==
  ASSUME RepositoryInv, NEW p \in ValidPaths
  PROVE  p \in Paths /\ files[p] \in Artifact
  BY KindsDiffer DEF ValidPaths, RepositoryInv

-----------------------------------------------------------------------------
(* What a step of one request is to the library.                           *)

LibraryStep == Library!Next \/ UNCHANGED Library!libraryVars

\* One request moves on and stays valid.
LEMMA RequestMoves ==
  ASSUME RepositoryInv, NEW w \in Writers, NEW r, req' = [req EXCEPT ![w] = r], RequestOK(r),
         files' \in [Paths -> Content \cup {Absent}]
  PROVE  RepositoryInv' /\ req'[w] = r /\ \A v \in Writers \ {w} : req'[v] = req[v]
  BY DEF RepositoryInv

\* The outcome of one request is decided.
LEMMA OutcomeMoves ==
  ASSUME NEW w \in Writers, \A v \in Writers \ {w} : Outcome(v)' = Outcome(v)
  PROVE  [v \in Writers |-> Outcome(v)]' = [[v \in Writers |-> Outcome(v)] EXCEPT ![w] = Outcome(w)']
  BY Zenon

\* The user is told nothing and sees nothing new.
LEMMA Silent ==
  ASSUME RepositoryInv, NEW w \in Writers, NEW r, req' = [req EXCEPT ![w] = r], RequestOK(r),
         files' = files, r.seen = req[w].seen, r.pc # "done", req[w].pc # "done"
  PROVE  RepositoryInv' /\ LibraryStep
<1>1. RepositoryInv' /\ req'[w] = r /\ \A v \in Writers \ {w} : req'[v] = req[v]
  BY RequestMoves DEF RepositoryInv
<1>2. \A v \in Writers : req'[v].seen = req[v].seen
  BY <1>1
<1>3. \A v \in Writers : Outcome(v)' = Outcome(v)
  BY <1>1 DEF Outcome
<1> QED
  BY <1>1, <1>2, <1>3 DEF LibraryStep, Library!libraryVars

\* An answer that is no success changes no file.
LEMMA Answered ==
  ASSUME RepositoryInv, NEW w \in Writers, NEW status, Answer(w, status), status \notin {200, 201},
         files' = files, req[w].pc # "done"
  PROVE  RepositoryInv' /\ LibraryStep
<1> DEFINE r == Done(req[w], status)
<1>1. r.pc = "done" /\ r.seen = req[w].seen /\ r.answer = status
  BY DEF Done
<1>2. req' = [req EXCEPT ![w] = r]
  BY DEF Answer
<1> HIDE DEF r
<1>3. RepositoryInv' /\ req'[w] = r /\ \A v \in Writers \ {w} : req'[v] = req[v]
  BY <1>1, <1>2, RequestMoves DEF RepositoryInv, RequestOK
<1>4. \A v \in Writers : req'[v].seen = req[v].seen
  BY <1>1, <1>3
<1>5. Outcome(w) = "open" /\ Outcome(w)' \in {"rejected", "unknown"}
  BY <1>1, <1>3 DEF Outcome
<1>6. \A v \in Writers \ {w} : Outcome(v)' = Outcome(v)
  BY <1>3 DEF Outcome
<1>7. Library!Reject(w)
  BY <1>4, <1>5, <1>6, OutcomeMoves, Zenon DEF Library!Reject
<1> QED
  BY <1>3, <1>7 DEF LibraryStep, Library!Next

\* A request that passes its first checks, or is refused by them.
LEMMA Checks ==
  ASSUME RepositoryInv, NEW w \in Writers, NEW r, NEW error,
         req' = [req EXCEPT ![w] = Checked(r, error)], error = "ok" => RequestOK(r), r.pc = "tree",
         r.seen = req[w].seen, files' = files, req[w].pc # "done"
  PROVE  RepositoryInv' /\ LibraryStep
<1>1. CASE error = "ok"
  BY <1>1, Silent, Zenon DEF Checked
<1>2. CASE error # "ok"
  <2>1. Done(r, ArtifactWriteErrorResponse(error)) = Done(req[w], ArtifactWriteErrorResponse(error))
    BY DEF Done
  <2>2. Answer(w, ArtifactWriteErrorResponse(error))
    BY <1>2, <2>1 DEF Checked, Answer
  <2> QED
    BY <2>2, Answered, ErrorsAreErrors
<1> QED
  BY <1>1, <1>2

-----------------------------------------------------------------------------
(* The actions.                                                            *)

LEMMA OpenStep == ASSUME RepositoryInv, NEW w \in Writers, Open(w) PROVE RepositoryInv' /\ LibraryStep
<1>1. PICK p \in ValidPaths, op \in {"update", "delete"} :
        req' = [req EXCEPT ![w] = Request("editing", op, files[p].id, <<>>, files[p], Absent)]
  BY Zenon DEF Open
<1> DEFINE r == Request("editing", op, files[p].id, <<>>, files[p], Absent)
<1>2. p \in Paths /\ files[p] \in Artifact
  BY ValidIsArtifact
<1>3. RequestOK(r) /\ r.pc = "editing" /\ r.seen = files[p]
  BY <1>2 DEF RequestOK, Request
<1> HIDE DEF r
<1>4. RepositoryInv' /\ req'[w] = r /\ \A v \in Writers \ {w} : req'[v] = req[v]
  BY <1>1, <1>3, RequestMoves DEF Open, RepositoryInv, r
<1>5. [v \in Writers |-> req[v].seen]' = [[v \in Writers |-> req[v].seen] EXCEPT ![w] = files[p]]
  BY <1>3, <1>4, Zenon
<1>6. Outcome(w) = "open" /\ \A v \in Writers : Outcome(v)' = Outcome(v)
  BY <1>3, <1>4 DEF Outcome, Open
<1>7. Library!Look(w)
  BY <1>2, <1>5, <1>6, Zenon DEF Library!Look, Open
<1> QED
  BY <1>4, <1>7 DEF LibraryStep, Library!Next

\* A new artifact is about to be written at its canonical path.
LEMMA NewOK ==
  ASSUME NEW a \in Artifact, NEW op \in {"create", "variation"}
  PROVE  RequestOK(New(op, a)) /\ New(op, a).pc = "tree" /\ New(op, a).seen = Absent
  BY DEF RequestOK, WriteOK, CheckedOK, New, Request, Paths, CanonicalArtifactWritePath, Artifact

LEMMA SubmitCreateStep ==
  ASSUME RepositoryInv, NEW w \in Writers, SubmitCreate(w) PROVE RepositoryInv' /\ LibraryStep
<1>1. PICK a \in Artifact, prepared \in Prepared :
        req' = [req EXCEPT ![w] = Checked(New("create", a), Refusal("create", prepared))]
  BY Zenon DEF SubmitCreate
<1>2. req[w].pc = "idle" /\ RequestOK(req[w])
  BY DEF SubmitCreate, RepositoryInv
<1>3. req[w].seen = Absent
  BY <1>2 DEF RequestOK, Idle, Request
<1> QED
  BY <1>1, <1>2, <1>3, NewOK, Checks, Zenon DEF SubmitCreate

LEMMA SubmitVariationStep ==
  ASSUME RepositoryInv, NEW w \in Writers, SubmitVariation(w) PROVE RepositoryInv' /\ LibraryStep
<1>1. req[w].pc = "idle" /\ RequestOK(req[w]) /\ files' = files
  BY DEF SubmitVariation, RepositoryInv
<1>2. req[w].seen = Absent
  BY <1>1 DEF RequestOK, Idle, Request
<1>3. CASE Fail(w, "not_found")
  BY <1>1, <1>3, Answered, ErrorsAreErrors DEF Fail
<1>4. CASE ~Fail(w, "not_found")
  <2>1. PICK p \in ValidPaths, id \in Ids, prepared \in Prepared :
          req' = [req EXCEPT ![w] = Checked(New("variation", [kind |-> "valid", id |-> id,
                                                  type |-> files[p].type, ver |-> 1]),
                                            Refusal("variation", prepared))]
    BY <1>4 DEF SubmitVariation
  <2>2. files[p].type \in Types
    BY ValidIsArtifact DEF Artifact
  <2>3. [kind |-> "valid", id |-> id, type |-> files[p].type, ver |-> 1] \in Artifact
    BY <2>2 DEF Artifact, Versions
  <2> QED
    BY <1>1, <1>2, <2>1, <2>3, NewOK, Checks, Zenon
<1> QED
  BY <1>3, <1>4

LEMMA SubmitUpdateStep ==
  ASSUME RepositoryInv, NEW w \in Writers, SubmitUpdate(w) PROVE RepositoryInv' /\ LibraryStep
<1>1. PICK a \in Artifact, prepared \in Prepared :
        req' = [req EXCEPT ![w] =
          Checked(Changed(req[w], a),
                  IF Refusal("update", prepared) = "ok" /\ a.id # req[w].id THEN "validation"
                  ELSE Refusal("update", prepared))]
  BY Zenon DEF SubmitUpdate
<1> DEFINE error == IF Refusal("update", prepared) = "ok" /\ a.id # req[w].id THEN "validation"
                    ELSE Refusal("update", prepared)
           r == Changed(req[w], a)
<1>2. req[w].pc = "editing" /\ req[w].op = "update" /\ RequestOK(req[w]) /\ files' = files
  BY DEF SubmitUpdate, RepositoryInv
<1>3. req[w].seen \in Artifact /\ req[w].id = req[w].seen.id
  BY <1>2 DEF RequestOK, Idle, Request
<1>4. error = "ok" => a.id = req[w].id
  OBVIOUS
<1>5. r.pc = "tree" /\ r.seen = req[w].seen /\ r.op = "update" /\ r.id = req[w].id /\ r.new = a
  BY <1>2 DEF Changed, Request
<1> HIDE DEF r, error
<1>6. error = "ok" => RequestOK(r)
  BY <1>3, <1>4, <1>5 DEF RequestOK, WriteOK, CheckedOK
<1>7. req' = [req EXCEPT ![w] = Checked(r, error)]
  BY <1>1 DEF r, error
<1> QED
  BY <1>2, <1>5, <1>6, <1>7, Checks, Zenon

LEMMA SubmitDeleteStep ==
  ASSUME RepositoryInv, NEW w \in Writers, SubmitDelete(w) PROVE RepositoryInv' /\ LibraryStep
<1>1. req[w].pc = "editing" /\ req[w].op = "delete" /\ RequestOK(req[w]) /\ files' = files
  BY DEF SubmitDelete, RepositoryInv
<1>2. req[w].seen \in Artifact /\ req[w].id = req[w].seen.id
  BY <1>1 DEF RequestOK, Idle, Request
<1>3. CASE Answer(w, 409) \/ \E error \in {"not_found", "conflict"} : Fail(w, error)
  BY <1>1, <1>3, Answered, ErrorsAreErrors DEF Fail
<1>4. CASE req' = [req EXCEPT ![w] = Checked(Changed(req[w], Absent), Refusal("delete", "ok"))]
  <2> DEFINE r == Changed(req[w], Absent)
  <2>1. r.pc = "tree" /\ r.seen = req[w].seen /\ r.op = "delete" /\ r.id = req[w].id /\ r.new = Absent
    BY <1>1 DEF Changed, Request
  <2> HIDE DEF r
  <2>2. RequestOK(r)
    BY <1>2, <2>1 DEF RequestOK, WriteOK, CheckedOK
  <2>3. req' = [req EXCEPT ![w] = Checked(r, Refusal("delete", "ok"))]
    BY <1>4 DEF r
  <2> QED
    BY <1>1, <2>1, <2>2, <2>3, Checks, Zenon
<1> QED
  BY <1>3, <1>4 DEF SubmitDelete

LEMMA ReadTreeStep ==
  ASSUME RepositoryInv, NEW w \in Writers, ReadTree(w) PROVE RepositoryInv' /\ LibraryStep
<1> DEFINE q == req[w]
           new == q.op \in {"create", "variation"}
           check == IF new THEN CheckNew(w) ELSE CheckExisting(w)
           path == IF new THEN q.path ELSE PathOf(q.id)
           r == Request("put", q.op, q.id, path, q.seen, q.new)
<1>1. q.pc = "tree" /\ RequestOK(q) /\ files' = files
  BY DEF ReadTree, RepositoryInv
<1>2. WriteOK(q)
  BY <1>1 DEF RequestOK, Idle, Request
<1>3. CASE \E status \in FailedReadStatus : Answer(w, status)
  BY <1>1, <1>3, Answered, FailedReadsAreErrors
<1>4. CASE Fail(w, check)
  BY <1>1, <1>4, Answered, ErrorsAreErrors DEF Fail
<1>5. CASE check = "ok" /\ req' = [req EXCEPT ![w] = r]
  <2>1. r.pc = "put" /\ r.op = q.op /\ r.id = q.id /\ r.path = path /\ r.seen = q.seen /\ r.new = q.new
    BY DEF Request
  <2> HIDE DEF r
  <2>2. CASE new
    BY <1>1, <1>2, <1>5, <2>1, <2>2, Silent, Zenon DEF RequestOK, WriteOK, CheckedOK
  <2>3. CASE ~new
    <3>1. CheckExisting(w) = "ok"
      BY <1>5, <2>3
    <3>2. /\ PathsOfId(q.id) # {} /\ files[PathOf(q.id)] = q.seen
          /\ q.op = "update" => q.new.type = q.seen.type
      BY <3>1 DEF CheckExisting
    <3>3. PathOf(q.id) \in Paths
      BY <3>2, PathOfId
    <3>4. RequestOK(r)
      BY <1>2, <2>1, <2>3, <3>2, <3>3 DEF RequestOK, WriteOK, CheckedOK
    <3> QED
      BY <1>1, <1>5, <2>1, <3>4, Silent, Zenon
  <2> QED
    BY <2>2, <2>3
<1> QED
  BY <1>3, <1>4, <1>5 DEF ReadTree

LEMMA PutAcceptedStep ==
  ASSUME RepositoryInv, NEW w \in Writers, PutAccepted(w) PROVE RepositoryInv' /\ LibraryStep
<1> DEFINE q == req[w]
<1>1. q.pc = "put" /\ RequestOK(q) /\ files' = [files EXCEPT ![q.path] = q.new] /\ ContentsAccepts(w)
  BY DEF PutAccepted, RepositoryInv
<1>2. WriteOK(q) /\ q.path \in Paths /\ (q.op = "update" => q.new.type = q.seen.type)
  BY <1>1 DEF RequestOK, CheckedOK, Idle, Request
<1>3. files[q.path] = q.seen
  BY <1>1, <1>2, KindsDiffer DEF ContentsAccepts, WriteOK
<1>4. q.new \in Artifact \cup {Absent} /\ Library!Change(files[q.path], q.new)
  BY <1>2, <1>3 DEF WriteOK, Library!Change
<1>5. files' \in [Paths -> Content \cup {Absent}]
  BY <1>1, <1>2, <1>4 DEF RepositoryInv, Content
<1>6. PICK status : Answer(w, status)
  BY DEF PutAccepted
<1> DEFINE r == Done(q, status)
<1>7. r.pc = "done" /\ r.seen = q.seen
  BY DEF Done
<1>8. req' = [req EXCEPT ![w] = r]
  BY <1>6 DEF Answer
<1>9. RepositoryInv' /\ req'[w] = r /\ \A v \in Writers \ {w} : req'[v] = req[v]
  <2> HIDE DEF r
  <2> QED
    BY <1>5, <1>7, <1>8, RequestMoves, Zenon DEF RequestOK
<1>10. \A v \in Writers : req'[v].seen = req[v].seen
  BY <1>7, <1>9
<1>11. Outcome(w) = "open" /\ \A v \in Writers \ {w} : Outcome(v)' = Outcome(v)
  BY <1>1, <1>9 DEF Outcome
<1>12. Outcome(w)' \in {"applied", "unknown"}
  <2>1. PICK error \in {"none", "unavailable", "response"} :
          Answer(w, IF error = "none" THEN Success(q.op) ELSE ArtifactWriteErrorResponse(error))
    BY DEF PutAccepted
  <2>2. req'[w].pc = "done"
    BY <1>7, <1>9
  <2>3. req'[w].answer = IF error = "none" THEN Success(q.op) ELSE ArtifactWriteErrorResponse(error)
    BY <2>1 DEF Answer, Done, RepositoryInv
  <2>4. req'[w].answer \in {200, 201, 500, 503}
    BY <2>3 DEF Success, ArtifactWriteErrorResponse
  <2> QED
    BY <2>2, <2>4 DEF Outcome, Rejections
<1>13. Library!Apply(w)
  <2>1. [v \in Writers |-> Outcome(v)]' = [[v \in Writers |-> Outcome(v)] EXCEPT ![w] = Outcome(w)']
    BY <1>11, OutcomeMoves
  <2>2. [v \in Writers |-> req[v].seen]' = [v \in Writers |-> req[v].seen]
    BY <1>10
  <2>3. [v \in Writers |-> req[v].seen][w] = q.seen /\ [v \in Writers |-> Outcome(v)][w] = "open"
    BY <1>11
  <2> QED
    BY <1>1, <1>2, <1>3, <1>4, <1>12, <2>1, <2>2, <2>3, Zenon DEF Library!Apply
<1> QED
  BY <1>9, <1>13 DEF LibraryStep, Library!Next

LEMMA PutRefusedStep ==
  ASSUME RepositoryInv, NEW w \in Writers, PutRefused(w) PROVE RepositoryInv' /\ LibraryStep
<1>1. PICK error : Fail(w, error)
  BY DEF PutRefused
<1> QED
  BY <1>1, Answered, ErrorsAreErrors DEF Fail, PutRefused

LEMMA PushStep == ASSUME RepositoryInv, Push PROVE RepositoryInv' /\ LibraryStep
<1>1. PICK p \in Paths, c \in Content \cup {Absent} : files' = [files EXCEPT ![p] = c]
  BY Zenon DEF Push
<1>2. RepositoryInv'
  BY <1>1 DEF RepositoryInv, Push
<1>3. \A v \in Writers : Outcome(v)' = Outcome(v)
  BY DEF Push, Outcome
<1>4. files'[p] = c /\ files' = [files EXCEPT ![p] = files'[p]]
  BY <1>1 DEF RepositoryInv
<1>5. Library!Edit
  BY <1>3, <1>4, Zenon DEF Library!Edit, Push
<1> QED
  BY <1>2, <1>5 DEF LibraryStep, Library!Next

-----------------------------------------------------------------------------
(* The theorem.                                                            *)

LEMMA RepositoryInvInit == RepositoryInit => RepositoryInv /\ Library!Init
<1> SUFFICES ASSUME RepositoryInit PROVE RepositoryInv /\ Library!Init
  OBVIOUS
<1>1. files \in [Paths -> Content \cup {Absent}]
  BY DEF RepositoryInit, Content
<1>2. \A w \in Writers : req[w] = Idle /\ req[w].seen = Absent /\ Outcome(w) = "open"
  BY DEF RepositoryInit, Idle, Request, Outcome
<1>3. RepositoryInv
  BY <1>1, <1>2 DEF RepositoryInit, RepositoryInv, RequestOK
<1> QED
  BY <1>1, <1>2, <1>3 DEF Library!Init

LEMMA RepositoryStep ==
  RepositoryInv /\ [RepositoryNext]_repositoryVars => RepositoryInv' /\ LibraryStep
<1> SUFFICES ASSUME RepositoryInv, [RepositoryNext]_repositoryVars
             PROVE  RepositoryInv' /\ LibraryStep
  OBVIOUS
<1>1. ASSUME NEW w \in Writers, WriterStep(w) PROVE RepositoryInv' /\ LibraryStep
  BY <1>1, OpenStep, SubmitCreateStep, SubmitVariationStep, SubmitUpdateStep, SubmitDeleteStep,
     ReadTreeStep, PutAcceptedStep, PutRefusedStep DEF WriterStep
<1>2. CASE UNCHANGED repositoryVars
  BY <1>2 DEF repositoryVars, RepositoryInv, LibraryStep, Library!libraryVars, Outcome
<1> QED
  BY <1>1, <1>2, PushStep DEF RepositoryNext

\* The repository implements the versioned library: whatever other writers and people
\* who push do between the check of a tree and the commit, a request changes exactly
\* the version in view, once, and what its user is told is true or "not known".
THEOREM RepositoryImplementsLibrary == RepositorySpec => ImplementsLibrary
<1>1. RepositoryInv /\ [RepositoryNext]_repositoryVars => [Library!Next]_(Library!libraryVars)
  BY RepositoryStep DEF LibraryStep
<1> QED
  BY <1>1, RepositoryInvInit, RepositoryStep, PTL DEF RepositorySpec, ImplementsLibrary, Library!Spec

-----------------------------------------------------------------------------
(* The diagnosis of a tree.                                                *)

LEMMA PathsFinite == \A S \in SUBSET Paths : IsFiniteSet(S) /\ Cardinality(S) \in Nat
<1>1. IsFiniteSet(Paths)
  BY RepositoryAssumption, FS_Product DEF Paths
<1> QED
  BY <1>1, FS_Subset, FS_CardinalityType

\* Two files of one ID, as the diagnosis counts them and as the check compares them.
LEMMA SharedIds ==
  ASSUME NEW p \in ValidPaths
  PROVE  Cardinality(PathsOfId(files[p].id)) > 1 <=> \E q \in ValidPaths : q # p /\ files[q].id = files[p].id
<1> DEFINE S == PathsOfId(files[p].id)
<1>1. p \in S /\ S \in SUBSET Paths
  BY DEF PathsOfId, ValidPaths
<1>2. IsFiniteSet(S) /\ Cardinality(S) \in Nat
  BY <1>1, PathsFinite
<1>3. Cardinality(S) # 0
  BY <1>1, <1>2, FS_EmptySet
<1>4. Cardinality(S) = 1 <=> S = {p}
  <2>1. Cardinality(S) = 1 <=> \E x : S = {x}
    BY <1>2, FS_Singleton, Zenon
  <2> HIDE DEF S
  <2> QED
    BY <1>1, <2>1
<1>5. S = {p} <=> ~\E q \in ValidPaths : q # p /\ files[q].id = files[p].id
  BY <1>1 DEF PathsOfId
<1> HIDE DEF S
<1>6. Cardinality(S) > 1 <=> Cardinality(S) # 1
  BY <1>2, <1>3
<1> QED
  BY <1>4, <1>5, <1>6 DEF S

LEMMA DiagnosisOK == RepositoryInv => DiagnosisExplainsRefusal
<1> SUFFICES ASSUME RepositoryInv PROVE DiagnosisExplainsRefusal
  OBVIOUS
<1> DEFINE B == Stored \ ValidPaths
           D == {p \in ValidPaths : Cardinality(PathsOfId(files[p].id)) > 1}
           n == Cardinality(B \cup D)
           listed == IF n < MaxErrors THEN n ELSE MaxErrors
<1>1. ValidPaths \subseteq Stored /\ Stored \subseteq Paths /\ D \subseteq ValidPaths
  <2>1. \A p \in ValidPaths : files[p] # Absent
    BY KindsDiffer DEF ValidPaths, RepositoryInv
  <2> QED
    BY <2>1 DEF ValidPaths, Stored
<1>2. /\ IsFiniteSet(B) /\ IsFiniteSet(D) /\ IsFiniteSet(ValidPaths) /\ IsFiniteSet(B \cup D)
      /\ Cardinality(B) \in Nat /\ Cardinality(D) \in Nat /\ Cardinality(ValidPaths) \in Nat /\ n \in Nat
  <2>1. B \in SUBSET Paths /\ D \in SUBSET Paths /\ ValidPaths \in SUBSET Paths /\ B \cup D \in SUBSET Paths
    BY <1>1
  <2> QED
    BY <2>1, PathsFinite
<1>3. B \cap D = {} /\ B \cap ValidPaths = {} /\ B \cup ValidPaths = Stored
  BY <1>1
<1>4. B \cup D = {} <=> ArtifactsFromTree = "ok"
  <2>1. B = {} <=> ~\E p \in Stored : files[p].kind # "valid"
    BY <1>1 DEF ValidPaths, Stored
  <2>2. ASSUME B = {} PROVE D = {} <=> ~\E p, q \in Stored : p # q /\ files[p].id = files[q].id
    <3>1. Stored = ValidPaths
      BY <1>1, <2>2
    <3>2. D = {} <=> \A p \in ValidPaths : ~(Cardinality(PathsOfId(files[p].id)) > 1)
      OBVIOUS
    <3>3. \A p \in ValidPaths : Cardinality(PathsOfId(files[p].id)) > 1
                                  <=> \E q \in ValidPaths : q # p /\ files[q].id = files[p].id
      BY SharedIds
    <3> HIDE DEF D
    <3>4. D = {} <=> ~\E p, q \in ValidPaths : p # q /\ files[p].id = files[q].id
      BY <3>2, <3>3
    <3> QED
      BY <3>1, <3>4
  <2>3. ArtifactsFromTree = "ok" <=> /\ ~\E p \in Stored : files[p].kind # "valid"
                                     /\ ~\E p, q \in Stored : p # q /\ files[p].id = files[q].id
    BY DEF ArtifactsFromTree
  <2> HIDE DEF B, D
  <2> QED
    BY <2>1, <2>2, <2>3
<1>5. DiagnoseCatalogue = [validCount |-> Cardinality(ValidPaths) - Cardinality(D), invalidCount |-> n,
                           errors |-> listed, omittedErrorCount |-> n - listed]
  BY DEF DiagnoseCatalogue
<1> HIDE DEF B, D
<1>6. n = Cardinality(B) + Cardinality(D)
  <2>1. Cardinality(B \cup D) = Cardinality(B) + Cardinality(D) - Cardinality(B \cap D)
    BY <1>2, FS_Union, Zenon
  <2> QED
    BY <1>2, <1>3, <2>1, FS_EmptySet
<1>7. Cardinality(Stored) = Cardinality(B) + Cardinality(ValidPaths)
  <2>1. Cardinality(B \cup ValidPaths)
          = Cardinality(B) + Cardinality(ValidPaths) - Cardinality(B \cap ValidPaths)
    BY <1>2, FS_Union, Zenon
  <2>2. Cardinality(B \cap ValidPaths) = 0 /\ Cardinality(B \cup ValidPaths) = Cardinality(Stored)
    BY <1>3, FS_EmptySet, Zenon
  <2> QED
    BY <1>2, <2>1, <2>2
<1>8. n = 0 <=> B \cup D = {}
  BY <1>2, FS_EmptySet
<1> HIDE DEF n
<1>9. listed + (n - listed) = n
  BY <1>2, RepositoryAssumption
<1>10. (Cardinality(ValidPaths) - Cardinality(D)) + n = Cardinality(Stored)
  BY <1>2, <1>6, <1>7
<1> HIDE DEF listed
<1> QED
  BY <1>4, <1>5, <1>8, <1>9, <1>10 DEF DiagnosisExplainsRefusal

\* The diagnosis of a catalogue counts every stored file once and reports a fault
\* exactly when list and loadCatalogue refuse the tree (diagnoseCatalogue).
THEOREM DiagnosisIsExact == RepositorySpec => []DiagnosisExplainsRefusal
  BY RepositoryInvInit, RepositoryStep, DiagnosisOK, PTL DEF RepositorySpec
=============================================================================
