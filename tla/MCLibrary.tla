------------------------------ MODULE MCLibrary ------------------------------
(***************************************************************************)
(* The artifact library, checked side by side: the repository on GitHub    *)
(* and the cached catalogue.  The first state chooses a system; the        *)
(* variables of the other stay as they are.                                *)
(***************************************************************************)
EXTENDS ArtifactRepository, ArtifactCatalogue, TLC

VARIABLE system

CONSTANTS p1, p2, q1, q2, prompt, snippet

\* Systems that are never at work in one behaviour share their model values, so
\* that one permutation serves them all: p1, p2 are writers and isolates, q1,
\* q2 identifiers and clients.
LibrarySymmetry == Permutations({p1, p2}) \cup Permutations({q1, q2}) \cup Permutations({prompt, snippet})

libraryVars == <<system, repositoryVars, catalogueVars>>

\* The repository while another system is at work: a state that every
\* permutation keeps.
EmptyRepository ==
  /\ backend = "github" /\ files = [p \in Paths |-> Absent]
  /\ commits = 0 /\ req = [w \in Writers |-> Idle]

LibraryInit ==
  /\ system \in {"repository", "catalogue"}
  /\ IF system = "repository" THEN RepositoryInit ELSE EmptyRepository
  /\ CatalogueInit

\* Bound: the clock ticks or a call fails, not both.
TickOrFault == clock' + faults' <= 1

LibraryNext ==
  \/ system = "repository" /\ RepositoryNext /\ UNCHANGED <<system, catalogueVars>>
  \/ system = "catalogue" /\ CatalogueNext /\ TickOrFault /\ UNCHANGED <<system, repositoryVars>>

LibrarySpec == LibraryInit /\ [][LibraryNext]_libraryVars

=============================================================================
