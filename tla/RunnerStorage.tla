---------------------------- MODULE RunnerStorage ----------------------------
(***************************************************************************)
(* The Codex runner's SQLite state: codex-runner/src/sqlite-storage.ts     *)
(* (bootstrap, backup, prune, restore and its rollback), the admission     *)
(* gate and the restore route of codex-runner/src/executor.ts, and the App *)
(* Server process that writes the databases.  Every rename, copy and       *)
(* removal is a step of its own: any of them may fail, the process may     *)
(* crash between two of them, and a restart sees only the disk.            *)
(***************************************************************************)
EXTENDS Naturals, FiniteSets, Sequences

CONSTANTS
  Databases,    \* *.sqlite files
  Sidecars,     \* -wal and -shm files beside them
  Retention,    \* sqliteBackupRetention
  ListLimit,    \* how many backups list() returns at most (365)
  MaxEpoch,     \* bound on writes by the App Server
  MaxBackups,   \* bound on backups ever made
  MaxIoFaults,    \* bound on failing file operations and processes
  MaxStops    \* bound on stops of the executor

ASSUME StorageAssumption ==
  /\ {Retention, ListLimit, MaxEpoch} \subseteq Nat \ {0}
  /\ {MaxBackups, MaxIoFaults, MaxStops} \subseteq Nat
  /\ Databases \cap Sidecars = {}

VARIABLES
  home,         \* CODEX_SQLITE_HOME: file -> the write it holds, or Gone
  legacy,       \* CODEX_HOME of the previous deployment
  bootMarker,   \* .adt-sqlite-bootstrap
  safeties,     \* .adt-pre-restore-* directories left behind by a crash
  backups,      \* complete backup directories, newest first
  up,           \* the executor has initialized and serves requests
  gate,         \* ExecutorAdmissionGate.owner
  app,          \* the App Server process runs
  job,          \* the operation in progress, its locals with it
  result,       \* what the last restore answered
  epoch, made, ioFaults, stops

diskVars == <<home, legacy, bootMarker, safeties, backups>>
storageVars == <<diskVars, up, gate, app, job, result, epoch, made, ioFaults, stops>>

Files == Databases \cup Sidecars
Gone == 0
Empty == [f \in Files |-> Gone]
Held(dir) == {f \in Files : dir[f] # Gone}
NoJob == [op |-> "idle"]

\* Where the restore in progress is.
At(pc) == job.op = "restore" /\ job.pc = pc
\* One file operation or process call fails.
IoFails == ioFaults < MaxIoFaults /\ ioFaults' = ioFaults + 1

StorageInit ==
  /\ home = Empty
  /\ legacy \in {Empty, [f \in Files |-> 1]}
  /\ bootMarker = FALSE /\ safeties = {} /\ backups = <<>>
  /\ up = FALSE /\ gate = "idle" /\ app = FALSE
  /\ job = NoJob /\ result = "none"
  /\ epoch = 1 /\ made = 0 /\ ioFaults = 0 /\ stops = 0

-----------------------------------------------------------------------------
(* Start of the executor                                                   *)

\* initialize: a safety directory with .adt-recovery-required stops the start.
\* bootstrapLegacySqlite has nothing to do when databases or its marker exist,
\* and writes the marker at once when there is nothing to copy.
Initialize ==
  /\ ~up /\ job = NoJob
  /\ \A s \in safeties : ~s.marked
  /\ LET settled == Held(home) \cap Databases # {} \/ bootMarker
         nothing == Held(legacy) \cap Databases = {} IN
     /\ bootMarker' = (bootMarker \/ (~settled /\ nothing))
     /\ up' = (settled \/ nothing)
     /\ job' = IF settled \/ nothing THEN NoJob
               ELSE [op |-> "boot", todo |-> Held(legacy)]
  /\ UNCHANGED <<home, legacy, safeties, backups, gate, app, result, epoch, made, ioFaults, stops>>

\* Promote one staged file, then the marker.
Promote ==
  /\ job.op = "boot"
  /\ \/ \E f \in job.todo :
          /\ home' = [home EXCEPT ![f] = legacy[f]]
          /\ job' = [job EXCEPT !.todo = @ \ {f}]
          /\ UNCHANGED <<bootMarker, up>>
     \/ /\ job.todo = {}
        /\ bootMarker' = TRUE /\ up' = TRUE /\ job' = NoJob /\ UNCHANGED home
  /\ UNCHANGED <<legacy, safeties, backups, gate, app, result, epoch, made, ioFaults, stops>>

\* A failed promotion takes back every file it introduced.
Unpromoted == Empty
PromoteFails ==
  /\ job.op = "boot" /\ IoFails
  /\ home' = Unpromoted
  /\ job' = NoJob
  /\ UNCHANGED <<legacy, bootMarker, safeties, backups, up, gate, app, result, epoch, made, stops>>

-----------------------------------------------------------------------------
(* Executions and the App Server                                           *)

\* reserveExecution and releaseExecution, around a turn of the App Server.
Execute ==
  /\ up /\ gate = "idle" /\ gate' = "execution" /\ app' = TRUE
  /\ UNCHANGED <<diskVars, up, job, result, epoch, made, ioFaults, stops>>

Executed ==
  /\ gate = "execution" /\ gate' = "idle"
  /\ UNCHANGED <<diskVars, up, app, job, result, epoch, made, ioFaults, stops>>

\* What the App Server writes before it is closed, or once a rollback has
\* brought the old databases back, is part of what a rollback must leave.
AppWrites ==
  /\ app /\ epoch < MaxEpoch
  /\ epoch' = epoch + 1
  /\ \E wal \in SUBSET Sidecars :
       home' = [f \in Files |-> IF f \in Databases \cup wal THEN epoch' ELSE Gone]
  /\ job' = IF At("close") \/ At("undone") \/ (At("blocked") /\ home = job.before)
            THEN [job EXCEPT !.before = home'] ELSE job
  /\ UNCHANGED <<legacy, bootMarker, safeties, backups, up, gate, app, result, made, ioFaults, stops>>

-----------------------------------------------------------------------------
(* Backup                                                                  *)

\* Mutant: a restore does not hold off the scheduler.
CanBackupDuringRestore == up /\ job.op # "backup"

\* createBackup's checks.
CanBackup == up /\ job.op = "idle"
StartBackup ==
  /\ CanBackup
  /\ made < MaxBackups /\ made' = made + 1
  /\ Held(home) \cap Databases # {}
  /\ job' = [op |-> "backup", todo |-> Held(home) \cap Databases, copy |-> Empty]
  /\ UNCHANGED <<diskVars, up, gate, app, result, epoch, ioFaults, stops>>

\* sqliteBackup of one database; the others may be written meanwhile.
CopyDatabase ==
  /\ job.op = "backup"
  /\ \E d \in job.todo :
       job' = [job EXCEPT !.todo = @ \ {d}, !.copy[d] = home[d]]
  /\ UNCHANGED <<diskVars, up, gate, app, result, epoch, made, ioFaults, stops>>

\* list() sorts by age and cuts; prune removes what it returns past Retention.
List(dirs) == SubSeq(dirs, 1, IF Len(dirs) < ListLimit THEN Len(dirs) ELSE ListLimit)

Prune(dirs) ==
  LET listed == Len(List(dirs)) IN
  IF listed <= Retention THEN dirs
  ELSE SubSeq(dirs, 1, Retention) \o SubSeq(dirs, listed + 1, Len(dirs))

\* The verified stage is renamed into place, then old backups are removed.
PublishBackup ==
  /\ job.op = "backup" /\ job.todo = {}
  /\ backups' = Prune(<<job.copy>> \o backups)
  /\ job' = NoJob
  /\ UNCHANGED <<home, legacy, bootMarker, safeties, up, gate, app, result, epoch, made, ioFaults, stops>>

\* A failure before the rename leaves nothing, one in prune leaves the old ones.
BackupFails ==
  /\ job.op = "backup" /\ IoFails
  /\ \/ UNCHANGED backups
     \/ job.todo = {} /\ backups' = <<job.copy>> \o backups
  /\ job' = NoJob
  /\ UNCHANGED <<home, legacy, bootMarker, safeties, up, gate, app, result, epoch, made, stops>>

-----------------------------------------------------------------------------
(* Restore                                                                 *)

\* safeBackupDirectory and parseBackupMetadata: any whole set, listed or not.
Restorable == DOMAIN backups

\* The restore route with reserveRestore, up to the staged copy of a backup
\* whose checksums hold.  (A refusal before that point changes nothing.)
StartRestore ==
  /\ up /\ gate = "idle" /\ job.op = "idle"
  /\ \E i \in Restorable :
       job' = [op |-> "restore", pc |-> "close", source |-> backups[i], todo |-> {},
               before |-> home, safety |-> Empty, marked |-> FALSE]
  /\ gate' = "restore" /\ result' = "none"
  /\ UNCHANGED <<diskVars, up, app, epoch, made, ioFaults, stops>>

\* The end of the route: failClosed for the two answers that leave doubt.
Unsafe == {"restore_rollback_failed", "app_server_shutdown_unconfirmed"}

RestoreAnswered(answer) ==
  /\ result' = answer
  /\ gate' = IF answer \in Unsafe THEN "unsafe" ELSE "idle"

Continue(pc, todo) == job' = [job EXCEPT !.pc = pc, !.todo = todo] /\ UNCHANGED <<gate, result>>
RestoreEnds(answer) == job' = NoJob /\ RestoreAnswered(answer)
\* recoveryRequired keeps the operation and the safety directory; writing the
\* marker into it is best effort.
Block ==
  /\ \E written \in BOOLEAN : job' = [job EXCEPT !.pc = "blocked", !.todo = {}, !.marked = written]
  /\ RestoreAnswered("restore_rollback_failed")

\* closeAndWait before anything is touched.
CloseApp ==
  /\ At("close")
  /\ \/ /\ app' = FALSE /\ Continue("move", Held(home))
        /\ UNCHANGED ioFaults
     \/ app /\ IoFails /\ RestoreEnds("app_server_shutdown_unconfirmed") /\ UNCHANGED app
  /\ UNCHANGED <<diskVars, up, epoch, made, stops>>

\* Mutant: sidecars may stay behind.
MoveDatabases ==
  /\ At("move")
  /\ \/ \E f \in job.todo :
          /\ home' = [home EXCEPT ![f] = Gone]
          /\ job' = [job EXCEPT !.todo = @ \ {f}, !.safety[f] = home[f]]
          /\ UNCHANGED <<gate, result>>
     \/ job.todo \cap Databases = {} /\ Continue("install", Held(job.source)) /\ UNCHANGED home
  /\ UNCHANGED <<legacy, bootMarker, safeties, backups, up, app, epoch, made, ioFaults, stops>>

\* Originals, sidecars included, go to the safety directory one by one.
MoveOriginal ==
  /\ At("move")
  /\ \/ \E f \in job.todo :
          /\ home' = [home EXCEPT ![f] = Gone]
          /\ job' = [job EXCEPT !.todo = @ \ {f}, !.safety[f] = home[f]]
          /\ UNCHANGED <<gate, result>>
     \/ job.todo = {} /\ Continue("install", Held(job.source)) /\ UNCHANGED home
  /\ UNCHANGED <<legacy, bootMarker, safeties, backups, up, app, epoch, made, ioFaults, stops>>

\* Mutant: a failed move is undone like a failed installation.
MoveFailsLate ==
  /\ At("move") /\ job.todo # {} /\ IoFails
  /\ Continue("reclose", {})
  /\ UNCHANGED <<diskVars, up, app, epoch, made, stops>>

MoveFails ==
  /\ At("move") /\ job.todo # {} /\ IoFails
  /\ Continue("moveback", Held(job.safety))
  /\ UNCHANGED <<diskVars, up, app, epoch, made, stops>>

MoveBack ==
  /\ At("moveback")
  /\ \/ /\ \E f \in job.todo :
             /\ home' = [home EXCEPT ![f] = job.safety[f]]
             /\ job' = [job EXCEPT !.todo = @ \ {f}, !.safety[f] = Gone]
        /\ UNCHANGED <<gate, result, ioFaults>>
     \/ job.todo = {} /\ RestoreEnds("restore_failed_rolled_back") /\ UNCHANGED <<home, ioFaults>>
     \/ IoFails /\ Block /\ UNCHANGED home
  /\ UNCHANGED <<legacy, bootMarker, safeties, backups, up, app, epoch, made, stops>>

InstallBackup ==
  /\ At("install")
  /\ \/ \E f \in job.todo :
          /\ home' = [home EXCEPT ![f] = job.source[f]]
          /\ job' = [job EXCEPT !.todo = @ \ {f}] /\ UNCHANGED <<gate, result>>
     \/ job.todo = {} /\ Continue("ready", {}) /\ UNCHANGED home
  /\ UNCHANGED <<legacy, bootMarker, safeties, backups, up, app, epoch, made, ioFaults, stops>>

\* An error once the originals are in the safety directory.
Undo == Continue("reclose", {})
InstallFails ==
  /\ At("install") /\ IoFails /\ Undo
  /\ UNCHANGED <<diskVars, up, app, epoch, made, stops>>

CheckReady ==
  /\ At("ready")
  /\ \/ app' = TRUE /\ Continue("discard", {}) /\ UNCHANGED ioFaults
     \/ IoFails /\ Undo /\ UNCHANGED app
  /\ UNCHANGED <<diskVars, up, epoch, made, stops>>

\* rm of the safety directory.  A removal that fails is taken to have removed
\* nothing: a half removed safety directory is outside the model.
Discard ==
  /\ At("discard")
  /\ \/ RestoreEnds("restored") /\ UNCHANGED ioFaults
     \/ IoFails /\ Undo
  /\ UNCHANGED <<diskVars, up, app, epoch, made, stops>>

-----------------------------------------------------------------------------
(* Rollback                                                                *)

\* Mutant: close without waiting.
CloseAgainUnawaited ==
  /\ At("reclose") /\ Continue("clear", {})
  /\ UNCHANGED <<diskVars, up, app, epoch, made, ioFaults, stops>>

CloseAgain ==
  /\ At("reclose")
  /\ \/ app' = FALSE /\ Continue("clear", {}) /\ UNCHANGED ioFaults
     \/ app /\ IoFails /\ Block /\ UNCHANGED app
  /\ UNCHANGED <<diskVars, up, epoch, made, stops>>

ClearHome ==
  /\ At("clear")
  /\ \/ /\ Held(home) # {}
        /\ \E f \in Held(home) : home' = [home EXCEPT ![f] = Gone]
        /\ UNCHANGED <<job, gate, result, ioFaults>>
     \/ /\ Held(home) = {} /\ Continue("copyback", Held(job.safety))
        /\ UNCHANGED <<home, ioFaults>>
     \/ Held(home) # {} /\ IoFails /\ Block /\ UNCHANGED home
  /\ UNCHANGED <<legacy, bootMarker, safeties, backups, up, app, epoch, made, stops>>

CopyBack ==
  /\ At("copyback")
  /\ \/ \E f \in job.todo :
          /\ home' = [home EXCEPT ![f] = job.safety[f]]
          /\ job' = [job EXCEPT !.todo = @ \ {f}]
          /\ UNCHANGED <<gate, result, app, ioFaults>>
     \/ /\ job.todo = {} /\ app' = TRUE
        /\ Continue("undone", {}) /\ UNCHANGED <<home, ioFaults>>
     \/ IoFails /\ Block /\ UNCHANGED <<home, app>>
  /\ UNCHANGED <<legacy, bootMarker, safeties, backups, up, epoch, made, stops>>

\* rm of the safety directory, the last step of the rollback.
RollbackEnds ==
  /\ At("undone")
  /\ \/ RestoreEnds("restore_failed_rolled_back") /\ UNCHANGED ioFaults
     \/ IoFails /\ Block
  /\ UNCHANGED <<diskVars, up, app, epoch, made, stops>>

-----------------------------------------------------------------------------
\* The container stops: the disk stays, with the safety directory if one exists
\* and a backup that was renamed but whose pruning had not begun.
Stop ==
  /\ up \/ job # NoJob
  /\ stops < MaxStops /\ stops' = stops + 1
  /\ safeties' = safeties \cup
       (IF job.op = "restore" /\ Held(job.safety) # {}
        THEN {[files |-> job.safety, marked |-> job.marked]} ELSE {})
  /\ \/ UNCHANGED backups
     \/ job.op = "backup" /\ job.todo = {} /\ backups' = <<job.copy>> \o backups
  /\ up' = FALSE /\ gate' = "idle" /\ app' = FALSE /\ job' = NoJob /\ result' = "none"
  /\ UNCHANGED <<home, legacy, bootMarker, epoch, made, ioFaults>>

RestoreStep ==
  \/ CloseApp \/ MoveOriginal \/ MoveFails \/ MoveBack \/ InstallBackup \/ InstallFails
  \/ CheckReady \/ Discard \/ CloseAgain \/ ClearHome \/ CopyBack \/ RollbackEnds

StorageNext ==
  \/ Initialize \/ Promote \/ PromoteFails \/ Execute \/ Executed \/ AppWrites
  \/ StartBackup \/ CopyDatabase \/ PublishBackup \/ BackupFails
  \/ StartRestore \/ RestoreStep \/ Stop

StorageSpec == StorageInit /\ [][StorageNext]_storageVars

-----------------------------------------------------------------------------
(* Properties                                                              *)

\* From the first move to the end of the rollback, and in the blocked state a
\* failed rollback leaves, every file that was live before the restore is
\* still in the SQLite home or in the safety directory, whichever file
\* operation failed.
OriginalsRecoverable ==
  (job.op = "restore" /\ job.pc # "discard") =>
    \A f \in Held(job.before) : job.before[f] \in {home[f], job.safety[f]}

\* The App Server is started on a restored home only when that home holds the
\* backup and nothing else: no -wal or -shm file of the replaced databases.
RestoredIsExact == At("ready") => home = job.source

\* No file of the SQLite home is replaced while the App Server runs: the
\* restore moves, clears and copies only after closeAndWait.
NoLiveMutation ==
  [][home' # home /\ app => epoch' = epoch + 1]_storageVars

\* Every advertised backup holds every database: none was taken of a home that
\* a restore had half moved.  (A crash inside a restore leaves such a home, and
\* the scheduler of the next process backs it up.)
BackupsAreWhole ==
  stops = 0 => \A i \in 1..Len(backups) : Held(backups[i]) = Databases

=============================================================================
