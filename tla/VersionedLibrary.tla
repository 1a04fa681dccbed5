-------------------------- MODULE VersionedLibrary --------------------------
(***************************************************************************)
(* What the artifact library promises its users, without trees, blobs,     *)
(* retries or HTTP.  A request takes effect at once or not at all, changes *)
(* one file, and only the version of it that the user had in view; what    *)
(* the user is told is true, or an admission that it is not known.         *)
(***************************************************************************)
CONSTANTS Paths, Artifacts, Contents, Absent, Requests

VARIABLES
  library,   \* path -> content
  view,      \* request -> the content the user works from, Absent if new
  outcome    \* request -> "open", "applied", "rejected" or "unknown"

libraryVars == <<library, view, outcome>>

Init ==
  /\ library \in [Paths -> Contents \cup {Absent}]
  /\ view = [r \in Requests |-> Absent]
  /\ outcome = [r \in Requests |-> "open"]

\* The user looks at a file.
Look(r) ==
  /\ outcome[r] = "open"
  /\ \E p \in Paths : view' = [view EXCEPT ![r] = library[p]]
  /\ UNCHANGED <<library, outcome>>

\* A new file, a new version of the file in view that keeps its identity, or
\* the removal of the file in view.
Change(old, new) ==
  \/ old = Absent /\ new \in Artifacts
  \/ old \in Artifacts /\ new \in Artifacts /\ new.id = old.id /\ new.type = old.type
  \/ old \in Artifacts /\ new = Absent

Apply(r) ==
  /\ outcome[r] = "open"
  /\ \E p \in Paths, new \in Artifacts \cup {Absent} :
       /\ library[p] = view[r]
       /\ Change(library[p], new)
       /\ library' = [library EXCEPT ![p] = new]
  /\ \E o \in {"applied", "unknown"} : outcome' = [outcome EXCEPT ![r] = o]
  /\ UNCHANGED view

Reject(r) ==
  /\ outcome[r] = "open"
  /\ \E o \in {"rejected", "unknown"} : outcome' = [outcome EXCEPT ![r] = o]
  /\ UNCHANGED <<library, view>>

\* Others change a file of the branch as they like.
Edit ==
  /\ \E p \in Paths : /\ library' = [library EXCEPT ![p] = library'[p]]
                       /\ library'[p] \in Contents \cup {Absent}
  /\ UNCHANGED <<view, outcome>>

Next == Edit \/ \E r \in Requests : Look(r) \/ Apply(r) \/ Reject(r)

Spec == Init /\ [][Next]_libraryVars
=============================================================================
