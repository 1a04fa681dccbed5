-------------------------- MODULE ArtifactCatalogue --------------------------
(***************************************************************************)
(* The cached catalogue of the artifact library: lib/artifact-catalogue.ts *)
(* and lib/artifact-cache-invalidation.ts.  Worker isolates share a KV     *)
(* namespace that holds the snapshot's chunks, a pointer to the current    *)
(* snapshot and a generation that every invalidation replaces.  Within an  *)
(* isolate concurrent requests share one load (the flights map).           *)
(*                                                                         *)
(* Every await of load, publish, recoverCachePublication, cleanup... and   *)
(* invalidate is a step of its own.  A KV call may fail, and a failed put  *)
(* or delete may have been applied.  A revision is the number of the       *)
(* commit, a generation or a publication ID a number never used before.    *)
(***************************************************************************)
EXTENDS Naturals, Sequences, FiniteSets

CONSTANTS
  Isolates, Clients,
  Freshness,    \* catalogueFreshnessSeconds, in clock ticks
  MaxTime,      \* bound on the clock
  MaxCommit,    \* bound on the commits made to the branch
  MaxFaults     \* bound on failed calls and evicted isolates

ASSUME CatalogueAssumption == {Freshness, MaxTime, MaxCommit, MaxFaults} \subseteq Nat

None == 0       \* no generation, no publication ID

VARIABLES
  clock, head,
  superseded,   \* revision -> when the next commit replaced it (history)
  generation, pointer, chunks,     \* KV: the three kinds of entry
  required,     \* head when the generation last changed (history)
  unique,       \* the last generation or publication ID handed out
  localGeneration, invalidated,    \* isolate: localGenerations, invalidatedScopes
  flights,      \* isolate -> the running load and those queued behind it
  load,         \* isolate -> the locals of the running load
  invalidation, \* isolate -> the next step of invalidate()
  client,       \* client -> its request and the answer
  faults

catalogueVars == <<clock, head, superseded, generation, pointer, chunks, required, unique,
  localGeneration, invalidated, flights, load, invalidation, client, faults>>
kv == <<generation, pointer, chunks, required, unique>>
world == <<clock, head, superseded>>
isolate == <<localGeneration, invalidated, flights, invalidation, client>>

NoPointer == [rev |-> 0, at |-> 0, gen |-> None, id |-> None]
NoLoad == [pc |-> "none", level |-> 0, now |-> 0, local |-> 0, gen |-> None, degraded |-> FALSE,
           cached |-> NoPointer, rev |-> 0, id |-> None]
NoRequest == [state |-> "idle", level |-> 0, rev |-> 0, began |-> 0]

CatalogueInit ==
  /\ clock = 0 /\ head = 1 /\ superseded = [r \in 1..MaxCommit |-> MaxTime + 1]
  /\ generation = None /\ pointer = NoPointer /\ chunks = {} /\ required = 0 /\ unique = 0
  /\ localGeneration = [i \in Isolates |-> 0] /\ invalidated = [i \in Isolates |-> FALSE]
  /\ flights = [i \in Isolates |-> <<>>] /\ load = [i \in Isolates |-> NoLoad]
  /\ invalidation = [i \in Isolates |-> "none"]
  /\ client = [c \in Clients |-> NoRequest]
  /\ faults = 0

Fault == faults < MaxFaults /\ faults' = faults + 1
NoFault == UNCHANGED faults
Goto(i, pc) == load' = [load EXCEPT ![i].pc = pc]

-----------------------------------------------------------------------------
(* resolve: requests of one isolate share its loads.                       *)

\* A request joins the newest flight when that one does at least as much
\* (requestLevel: 2 full, 1 forced, 0 neither) and is queued behind it
\* otherwise.
Resolve(i, c, level) ==
  /\ client[c].state = "idle"
  /\ client' = [client EXCEPT ![c].state = "waiting", ![c].level = level]
  /\ LET fs == flights[i]
         n == Len(fs)
     IN flights' = [flights EXCEPT ![i] =
          IF n > 0 /\ fs[n].level >= level
          THEN [fs EXCEPT ![n].waiters = @ \cup {c}]
          ELSE Append(fs, [level |-> level, waiters |-> {c}])]
  /\ UNCHANGED <<world, kv, localGeneration, invalidated, load, invalidation, faults>>

\* load's first, synchronous part.
StartLoad(i) ==
  /\ load[i].pc = "none" /\ flights[i] # <<>>
  /\ load' = [load EXCEPT ![i] = [NoLoad EXCEPT !.pc = "generation", !.level = Head(flights[i]).level,
                                  !.now = clock, !.local = localGeneration[i]]]
  /\ UNCHANGED <<world, kv, isolate, faults>>

\* The load's promise settles: its waiters are answered and the flight ends.
Settle(i, state, rev) ==
  /\ client' = [c \in Clients |-> IF c \in Head(flights[i]).waiters
                  THEN [client[c] EXCEPT !.state = state, !.rev = rev, !.began = load[i].now]
                  ELSE client[c]]
  /\ flights' = [flights EXCEPT ![i] = Tail(@)]
  /\ load' = [load EXCEPT ![i] = NoLoad]

\* What load returns once publish has: "degraded" sticks.
SettlePublished(i, publication) ==
  Settle(i, IF load[i].degraded \/ publication \in {"degraded", "aborted"}
            THEN "degraded" ELSE "refreshed", load[i].rev)

-----------------------------------------------------------------------------
(* load                                                                    *)

ReadGeneration(i) ==
  /\ load[i].pc = "generation"
  /\ \/ NoFault /\ load' = [load EXCEPT ![i].pc = "snapshot", ![i].gen = generation]
     \/ Fault /\ load' = [load EXCEPT ![i].pc = "snapshot", ![i].degraded = TRUE]
  /\ UNCHANGED <<world, kv, isolate>>

\* readSnapshot: a pointer whose chunks are missing reads as corrupt, that
\* is, as no snapshot.
Visible == IF pointer.rev \in chunks THEN pointer ELSE NoPointer

\* The snapshot counts only when this isolate has not invalidated it and its
\* generation is the one read before.
Usable(i) == IF ~invalidated[i] /\ Visible.gen = load[i].gen THEN Visible ELSE NoPointer

\* Mutant: a forced load may answer from the cache.
CacheHitForced(i, cached) ==
  cached # NoPointer /\ ~load[i].degraded /\ load[i].now < cached.at + Freshness

CacheHit(i, cached) ==
  /\ cached # NoPointer /\ load[i].level = 0 /\ ~load[i].degraded
  /\ load[i].now < cached.at + Freshness

ReadSnapshot(i) ==
  /\ load[i].pc = "snapshot"
  /\ \/ /\ NoFault
        /\ IF CacheHit(i, Usable(i))
           THEN Settle(i, "fresh", Usable(i).rev)
           ELSE /\ load' = [load EXCEPT ![i].pc = "revision", ![i].cached = Usable(i)]
                /\ UNCHANGED <<flights, client>>
     \/ /\ Fault
        /\ load' = [load EXCEPT ![i].pc = "revision", ![i].degraded = TRUE]
        /\ UNCHANGED <<flights, client>>
  /\ UNCHANGED <<world, kv, localGeneration, invalidated, invalidation>>

\* getBaseRevision and, unless the cached revision is still the branch's,
\* loadCatalogue of that revision, which never changes.
LoadRevision(i) ==
  /\ load[i].pc = "revision"
  /\ load' = [load EXCEPT ![i].pc = "chunks", ![i].rev = head, ![i].id = unique + 1]
  /\ unique' = unique + 1
  /\ UNCHANGED <<world, generation, pointer, chunks, required, isolate, faults>>

\* GitHub is unavailable, or refuses: only the former falls back on the cache.
LoadFails(i) ==
  /\ load[i].pc = "revision"
  /\ \/ load[i].cached # NoPointer /\ Settle(i, "stale", load[i].cached.rev)
     \/ Settle(i, "failed", 0)
  /\ Fault
  /\ UNCHANGED <<world, kv, localGeneration, invalidated, invalidation>>

-----------------------------------------------------------------------------
(* publish                                                                 *)

PutChunks(i) ==
  /\ load[i].pc = "chunks"
  /\ \/ NoFault /\ chunks' = chunks \cup {load[i].rev} /\ Goto(i, "recheck")
     \/ Fault /\ Goto(i, "recover") /\ UNCHANGED chunks
  /\ UNCHANGED <<world, generation, pointer, required, unique, isolate>>

\* Nothing may have been invalidated since the load began.
Recheck(i) ==
  /\ load[i].pc = "recheck"
  /\ \/ Fault /\ SettlePublished(i, "degraded")
     \/ /\ NoFault
        /\ IF generation = load[i].gen /\ localGeneration[i] = load[i].local
           THEN Goto(i, "preverify") /\ UNCHANGED <<flights, client>>
           ELSE SettlePublished(i, "aborted")
  /\ UNCHANGED <<world, kv, localGeneration, invalidated, invalidation>>

PreVerify(i) ==
  /\ load[i].pc = "preverify"
  /\ \/ Fault /\ (SettlePublished(i, "degraded") \/ Settle(i, "failed", 0))
     \/ /\ NoFault
        /\ IF head = load[i].rev
           THEN Goto(i, "pointer") /\ UNCHANGED <<flights, client>>
           ELSE SettlePublished(i, "aborted")
  /\ UNCHANGED <<world, kv, localGeneration, invalidated, invalidation>>

\* Mutant: the pointer is stamped with the generation of its put, not of its load.
PutPointerLateGeneration(i) ==
  /\ load[i].pc = "pointer"
  /\ NoFault /\ Goto(i, "postverify")
  /\ pointer' = [rev |-> load[i].rev, at |-> load[i].now, gen |-> generation, id |-> load[i].id]
  /\ UNCHANGED <<world, generation, chunks, required, unique, isolate>>

PutPointer(i) ==
  LET p == [rev |-> load[i].rev, at |-> load[i].now, gen |-> load[i].gen, id |-> load[i].id]
  IN /\ load[i].pc = "pointer"
     /\ \/ NoFault /\ pointer' = p /\ Goto(i, "postverify")
        \/ Fault /\ pointer' \in {p, pointer} /\ Goto(i, "recover_pointer")
     /\ UNCHANGED <<world, generation, chunks, required, unique, isolate>>

\* cleanupUnverifiedPublication begins by invalidating this isolate.
BeginCleanup(i, pc) ==
  /\ Goto(i, pc)
  /\ localGeneration' = [localGeneration EXCEPT ![i] = @ + 1]
  /\ invalidated' = [invalidated EXCEPT ![i] = TRUE]

PostVerify(i) ==
  /\ load[i].pc = "postverify"
  /\ \/ /\ NoFault /\ head = load[i].rev
        /\ invalidated' = [invalidated EXCEPT ![i] = FALSE]
        /\ SettlePublished(i, "published")
        /\ UNCHANGED localGeneration
     \/ /\ NoFault /\ head # load[i].rev
        /\ BeginCleanup(i, "cleanup_generation")
        /\ UNCHANGED <<flights, client>>
     \/ /\ Fault
        /\ \E pc \in {"cleanup_generation", "cleanup_generation_throw"} : BeginCleanup(i, pc)
        /\ UNCHANGED <<flights, client>>
  /\ UNCHANGED <<world, kv, invalidation>>

\* recoverCachePublication: another isolate may have published the same.
Competing(i) ==
  /\ Visible.id # load[i].id /\ Visible.rev = load[i].rev
  /\ Visible.gen = load[i].gen /\ Visible.at >= load[i].now

Recover(i) ==
  /\ load[i].pc \in {"recover", "recover_pointer"}
  /\ \E readable \in BOOLEAN :
       /\ IF readable THEN NoFault ELSE Fault
       /\ \/ /\ readable /\ Competing(i)
             /\ SettlePublished(i, "competing_publication")
             /\ UNCHANGED <<localGeneration, invalidated>>
          \/ /\ ~(readable /\ Competing(i)) /\ load[i].pc = "recover"
             /\ SettlePublished(i, "degraded")
             /\ UNCHANGED <<localGeneration, invalidated>>
          \/ /\ ~(readable /\ Competing(i)) /\ load[i].pc = "recover_pointer"
             /\ BeginCleanup(i, "cleanup_generation")
             /\ UNCHANGED <<flights, client>>
  /\ UNCHANGED <<world, kv, invalidation>>

\* A new generation, which outdates every pointer published under another.
NewGeneration ==
  /\ generation' = unique + 1 /\ unique' = unique + 1 /\ required' = head
  /\ UNCHANGED <<pointer, chunks>>

CleanupGeneration(i) ==
  /\ load[i].pc \in {"cleanup_generation", "cleanup_generation_throw"}
  /\ \/ NoFault /\ NewGeneration
     \/ Fault /\ (NewGeneration \/ UNCHANGED kv)
  /\ Goto(i, IF load[i].pc = "cleanup_generation" THEN "cleanup_pointer" ELSE "cleanup_pointer_throw")
  /\ UNCHANGED <<world, isolate>>

\* The pointer goes unless a newer publication than this one is visible; the
\* read and the delete are two calls.
CleanupRead(i) ==
  /\ load[i].pc \in {"cleanup_pointer", "cleanup_pointer_throw"}
  /\ LET end == IF load[i].pc = "cleanup_pointer" THEN "delete" ELSE "delete_throw"
         newer == Visible.id # load[i].id /\ Visible.rev # 0 /\ Visible.at > load[i].now
     IN \/ NoFault /\ ~newer /\ Goto(i, end) /\ UNCHANGED <<flights, client>>
        \/ Fault /\ Goto(i, end) /\ UNCHANGED <<flights, client>>
        \/ NoFault /\ newer /\ IF end = "delete" THEN SettlePublished(i, "degraded")
                                                 ELSE Settle(i, "failed", 0)
  /\ UNCHANGED <<world, kv, localGeneration, invalidated, invalidation>>

CleanupDelete(i) ==
  /\ load[i].pc \in {"delete", "delete_throw"}
  /\ \/ NoFault /\ pointer' = NoPointer
     \/ Fault /\ pointer' \in {pointer, NoPointer}
  /\ IF load[i].pc = "delete" THEN SettlePublished(i, "degraded") ELSE Settle(i, "failed", 0)
  /\ UNCHANGED <<world, generation, chunks, required, unique, localGeneration, invalidated, invalidation>>

-----------------------------------------------------------------------------
(* Writers, the clock and the platform.                                    *)

MakeCommit ==
  /\ head < MaxCommit
  /\ head' = head + 1 /\ superseded' = [superseded EXCEPT ![head] = clock]
  /\ UNCHANGED clock

\* Someone pushes, or a write commits and its answer is lost:
\* completeWriteWithInvalidation then invalidates nothing.
Pushed ==
  /\ MakeCommit
  /\ UNCHANGED <<kv, isolate, load, faults>>

\* A write commits and invalidate() begins, synchronously.
Written(i) ==
  /\ invalidation[i] = "none"
  /\ MakeCommit
  /\ invalidation' = [invalidation EXCEPT ![i] = "generation"]
  /\ localGeneration' = [localGeneration EXCEPT ![i] = @ + 1]
  /\ invalidated' = [invalidated EXCEPT ![i] = TRUE]
  /\ UNCHANGED <<kv, flights, client, load, faults>>

InvalidateGeneration(i) ==
  /\ invalidation[i] = "generation"
  /\ \/ NoFault /\ NewGeneration /\ invalidation' = [invalidation EXCEPT ![i] = "pointer"]
     \/ Fault /\ (NewGeneration \/ UNCHANGED kv) /\ invalidation' = [invalidation EXCEPT ![i] = "none"]
  /\ UNCHANGED <<world, localGeneration, invalidated, flights, client, load>>

InvalidatePointer(i) ==
  /\ invalidation[i] = "pointer"
  /\ \/ NoFault /\ pointer' = NoPointer
     \/ Fault /\ pointer' \in {pointer, NoPointer}
  /\ invalidation' = [invalidation EXCEPT ![i] = "none"]
  /\ UNCHANGED <<world, generation, chunks, required, unique, localGeneration, invalidated,
                 flights, client, load>>

\* The platform evicts an isolate: its module state and its requests are gone
\* (external).
Evict(i) ==
  /\ Fault
  /\ client' = [c \in Clients |->
       IF \E n \in DOMAIN flights[i] : c \in flights[i][n].waiters
       THEN [client[c] EXCEPT !.state = "failed"] ELSE client[c]]
  /\ localGeneration' = [localGeneration EXCEPT ![i] = 0]
  /\ invalidated' = [invalidated EXCEPT ![i] = FALSE]
  /\ flights' = [flights EXCEPT ![i] = <<>>]
  /\ load' = [load EXCEPT ![i] = NoLoad]
  /\ invalidation' = [invalidation EXCEPT ![i] = "none"]
  /\ UNCHANGED <<world, kv>>

Tick ==
  /\ clock < MaxTime /\ clock' = clock + 1
  /\ UNCHANGED <<head, superseded, kv, isolate, load, faults>>

LoadStep(i) ==
  \/ StartLoad(i) \/ ReadGeneration(i) \/ ReadSnapshot(i) \/ LoadRevision(i) \/ LoadFails(i)
  \/ PutChunks(i) \/ Recheck(i) \/ PreVerify(i) \/ PutPointer(i) \/ PostVerify(i)
  \/ Recover(i) \/ CleanupGeneration(i) \/ CleanupRead(i) \/ CleanupDelete(i)

CatalogueNext ==
  \/ \E i \in Isolates, c \in Clients, level \in 0..2 : Resolve(i, c, level)
  \/ \E i \in Isolates : LoadStep(i) \/ Written(i) \/ InvalidateGeneration(i)
                         \/ InvalidatePointer(i) \/ Evict(i)
  \/ Pushed \/ Tick

CatalogueSpec == CatalogueInit /\ [][CatalogueNext]_catalogueVars

-----------------------------------------------------------------------------
(* Correctness                                                             *)

\* A snapshot published under the current generation is never older than the
\* branch was when that generation was written: once the generation of a
\* write's invalidation is stored, no isolate serves what was there before it,
\* whatever load was under way (readGeneration, publish, invalidate).
NoResurrection == Visible # NoPointer /\ Visible.gen = generation => Visible.rev >= required

\* What a caller is told about freshness is true.  A "fresh" answer was the
\* branch's head less than the freshness interval before the load began, a
\* "refreshed" or "degraded" one after it began; and no forced request is
\* answered from the cache, although requests share loads (resolve, load).
AnswersAreFresh ==
  \A c \in Clients :
    LET a == client[c]
        until == superseded[a.rev]
    IN /\ a.state = "fresh" => a.level = 0 /\ until + Freshness > a.began
       /\ a.state \in {"refreshed", "degraded"} => until >= a.began

=============================================================================
