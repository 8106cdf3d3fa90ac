------------------------------ MODULE Startup ------------------------------
(***************************************************************************)
(* Processes that open one database file: the version guard, the backup    *)
(* before an upgrade and its pruning, the migrations, the rebuild of the   *)
(* vector table when the configured dimensions change, and the default     *)
(* project (db/init.ts, db/backup.ts).                                     *)
(*                                                                         *)
(* Each statement that commits by itself is a step, so that a second       *)
(* process or a crash can come between any two. A statement that fails     *)
(* closes the file and ends the process, as a crash does.                  *)
(*                                                                         *)
(* file   version   `_meta.schema_version`                                 *)
(*        applied   the migrations whose effect is in the schema           *)
(*        dims      `_meta.embedder_dimensions`, 0 when not recorded       *)
(*        vec       vec_thoughts: "none", "empty", or "full" when every    *)
(*                  live thought has its vector                            *)
(*        queued    every live thought without one is in the queue         *)
(*        project   the default project exists                             *)
(***************************************************************************)
EXTENDS Naturals, Sequences, FiniteSets, FiniteSetsExt, SequencesExt

CONSTANTS Procs,
          Newest,       \* [Procs -> Nat], the last migration of each binary
          Replayable,   \* the migrations that succeed when applied again
          Dims,         \* embedder.dimensions
          Retention     \* DEFAULT_BACKUP_RETENTION

ASSUME BinariesAssumption ==
  /\ Newest \in [Procs -> Nat \ {0}] /\ Dims \in Nat \ {0} /\ Retention \in Nat

VARIABLES file, backups, boot,
          taken,    \* the backup that has the name a process has chosen for its own
          overlap,  \* a migration was committed under another process's upgrade
          clash,    \* a vector table was dropped that another process had created
          unlinked  \* a backup that failed has unlinked another process's

startupVars == <<file, backups, boot, taken, overlap, clash, unlinked>>

At(p, pc) == boot[p].pc = pc

Goto(p, pc) == boot' = [boot EXCEPT ![p].pc = pc]

Upgrading == {"backup", "prune", "migrate"}
Rebuilding == {"dropped", "created", "updated"}

Ends(p) == boot' = [boot EXCEPT ![p].pc = "down", ![p].cur = 0]

\* openDatabase up to the backup: the version is read once; a file newer than
\* the binary is refused.
Open(p) ==
  /\ At(p, "down")
  /\ LET v == file.version IN
     boot' = IF v > Newest[p] THEN [boot EXCEPT ![p].n = @ + 1]
             ELSE [boot EXCEPT ![p] = [pc |-> IF v < Newest[p] THEN "backup" ELSE "dims",
                                       cur |-> v, n |-> @.n + 1]]
  /\ taken' = [taken EXCEPT ![p] = {}]
  /\ UNCHANGED <<file, backups, overlap, clash, unlinked>>

\* Those that may have chosen p's name for their backup, in the same millisecond.
Namesakes(p) == {q \in Procs \ {p} : At(q, "backup") /\ taken[q] = taken[p]}

\* VACUUM INTO, under a name that no file had when it was chosen.
Backup(p) ==
  /\ At(p, "backup") /\ taken[p] \cap ToSet(backups) = {}
  /\ LET own == [by |-> p, n |-> boot[p].n] IN
       /\ backups' = Append(backups, own)
       /\ \E same \in IF taken[p] = {} THEN SUBSET Namesakes(p) ELSE {Namesakes(p)} :
            taken' = [q \in Procs |-> IF q \in same THEN {own} ELSE taken[q]]
  /\ Goto(p, "prune")
  /\ UNCHANGED <<file, overlap, clash, unlinked>>

\* VACUUM INTO fails where a file has the name by now; the handler unlinks that
\* file, and the start ends.
BackupFails(p) ==
  /\ At(p, "backup")
  /\ \E i \in DOMAIN backups :
       backups[i] \in taken[p] /\ backups' = RemoveAt(backups, i)
  /\ unlinked' = TRUE
  /\ Ends(p)
  /\ UNCHANGED <<file, overlap, clash, taken>>

\* As Newer, but the oldest are the ones kept.
Newer_Oldest(all) == SubSeq(all, 1, Retention)

Newer(all) == SubSeq(all, Len(all) - Retention + 1, Len(all))

\* pruneBackups.
Prune(p) ==
  /\ At(p, "prune")
  /\ backups' = IF Len(backups) > Retention THEN Newer(backups) ELSE backups
  /\ Goto(p, "migrate")
  /\ UNCHANGED <<file, taken, overlap, clash, unlinked>>

\* As Applied, but the version is left to a statement of its own.
Applied_NotStamped(m) == [file EXCEPT !.applied = @ \cup {m}]

\* A migration and its version in one transaction; `cur` is what the process
\* remembers, whatever another one has stamped since. The first migration
\* creates the vector table.
Applied(m) ==
  [file EXCEPT !.applied = @ \cup {m}, !.version = m,
               !.vec = IF m = 1 /\ @ = "none" THEN "full" ELSE @]

Migrate(p) ==
  /\ At(p, "migrate")
  /\ LET m == boot[p].cur + 1 IN
     IF m > Newest[p] THEN Goto(p, "dims") /\ UNCHANGED <<file, overlap>>
     ELSE IF m \in file.applied \ Replayable THEN Ends(p) /\ UNCHANGED <<file, overlap>>
     ELSE /\ file' = Applied(m)
          /\ boot' = [boot EXCEPT ![p].cur = m]
          /\ overlap' = (overlap \/ \E q \in Procs \ {p} : boot[q].pc \in Upgrading)
  /\ UNCHANGED <<backups, taken, clash, unlinked>>

\* The dimensions recorded against the configured ones.
ReadDims(p) ==
  /\ At(p, "dims")
  /\ Goto(p, IF file.dims = 0 THEN "noDims" ELSE IF file.dims = Dims THEN "project"
             ELSE "rebuild")
  /\ UNCHANGED <<file, backups, taken, overlap, clash, unlinked>>

\* A plain INSERT: it fails when another process was first.
InsertDims(p) ==
  /\ At(p, "noDims")
  /\ IF file.dims # 0 THEN Ends(p) /\ file' = file
     ELSE Goto(p, "project") /\ file' = [file EXCEPT !.dims = Dims]
  /\ UNCHANGED <<backups, taken, overlap, clash, unlinked>>

\* The table goes although another process has created it, or will rely on it.
Clashes(p) == file.dims = Dims \/ \E q \in Procs \ {p} : boot[q].pc \in Rebuilding

\* As DropVec, but the new dimensions are recorded first.
DropVec_RecordsFirst(p) ==
  /\ At(p, "rebuild")
  /\ file' = [file EXCEPT !.vec = "none", !.dims = Dims]
  /\ clash' = (clash \/ Clashes(p))
  /\ Goto(p, "dropped")
  /\ UNCHANGED <<backups, taken, overlap, unlinked>>

DropVec(p) ==
  /\ At(p, "rebuild")
  /\ file' = [file EXCEPT !.vec = "none"]
  /\ clash' = (clash \/ Clashes(p))
  /\ Goto(p, "dropped")
  /\ UNCHANGED <<backups, taken, overlap, unlinked>>

CreateVec(p) ==
  /\ At(p, "dropped")
  /\ file' = [file EXCEPT !.vec = IF @ = "none" THEN "empty" ELSE @]
  /\ Goto(p, "created")
  /\ UNCHANGED <<backups, taken, overlap, clash, unlinked>>

UpdateDims(p) ==
  /\ At(p, "created")
  /\ file' = [file EXCEPT !.dims = Dims]
  /\ Goto(p, "updated")
  /\ UNCHANGED <<backups, taken, overlap, clash, unlinked>>

QueueAll(p) ==
  /\ At(p, "updated")
  /\ file' = [file EXCEPT !.queued = TRUE]
  /\ Goto(p, "project")
  /\ UNCHANGED <<backups, taken, overlap, clash, unlinked>>

\* The default project, created or recreated; then the process serves.
EnsureProject(p) ==
  /\ At(p, "project")
  /\ file' = [file EXCEPT !.project = TRUE]
  /\ Goto(p, "serving")
  /\ UNCHANGED <<backups, taken, overlap, clash, unlinked>>

\* The embedder of a serving process works the queue off, and its sweep queues
\* what has neither a vector nor a row.
Embed ==
  /\ \E p \in Procs : At(p, "serving")
  /\ file.vec = "empty"
  /\ file' = IF file.queued THEN [file EXCEPT !.vec = "full", !.queued = FALSE]
             ELSE [file EXCEPT !.queued = TRUE]
  /\ UNCHANGED <<backups, boot, taken, overlap, clash, unlinked>>

\* The death of a process, or a statement of its start that throws.
Crash(p) ==
  /\ ~At(p, "down")
  /\ Ends(p)
  /\ UNCHANGED <<file, backups, taken, overlap, clash, unlinked>>

StartupInit(f) ==
  /\ file = f
  /\ backups = <<>>
  /\ boot = [p \in Procs |-> [pc |-> "down", cur |-> 0, n |-> 0]]
  /\ taken = [p \in Procs |-> {}]
  /\ overlap = FALSE /\ clash = FALSE /\ unlinked = FALSE

Starts(p) ==
  \/ Open(p) \/ Backup(p) \/ BackupFails(p) \/ Prune(p) \/ Migrate(p)
  \/ ReadDims(p) \/ InsertDims(p) \/ DropVec(p) \/ CreateVec(p) \/ UpdateDims(p)
  \/ QueueAll(p) \/ EnsureProject(p)

(***************************************************************************)
(* Properties.                                                             *)
(***************************************************************************)
Files == [version : Nat, applied : SUBSET Nat, dims : Nat, vec : {"none", "empty", "full"},
          queued : BOOLEAN, project : BOOLEAN]

Opened == {"dims", "noDims", "rebuild", "project", "serving"} \cup Rebuilding

Phases == {"down"} \cup Upgrading \cup Opened

Starting == [pc : Phases, cur : Nat, n : Nat]

\* The file, the starts and the backups have the shapes the actions rely on.
StartupTypeOK ==
  /\ file \in Files
  /\ boot \in [Procs -> Starting]
  /\ \A p \in Procs : boot[p].cur <= Newest[p]
  /\ backups \in Seq([by : Procs, n : Nat])
  /\ taken \in [Procs -> SUBSET [by : Procs, n : Nat]]

\* The version never claims more than the schema holds, and a process serves
\* only on a schema with all its migrations and the default project.
SchemaHonest ==
  /\ 1..file.version \subseteq file.applied
  /\ \A p \in Procs : At(p, "serving") => /\ 1..Newest[p] \subseteq file.applied
                                          /\ file.project

\* A later start would fail at a migration that is applied but not stamped.
Blocked == \E m \in file.applied \ Replayable : m > file.version

\* "The server applies every migration it has not seen and never reverses one"
\* (docs/DEPLOY.md:355): no start fails at a migration that is applied already.
NeverBlocked == ~Blocked

\* Startup is blocked only after two processes upgraded the file at once; no
\* crash of one process does it.
BlockedOnlyByOverlap == Blocked => overlap

\* While a process migrates, the backup it took is there, unless Retention
\* later ones pushed it out, or a process that had chosen the name of another's
\* backup has failed.
BackupKept ==
  \A p \in Procs :
    (At(p, "migrate") /\ ~unlinked) =>
      \/ \E i \in DOMAIN backups : backups[i] = [by |-> p, n |-> boot[p].n]
      \/ /\ Len(backups) >= Retention
         /\ \A i \in DOMAIN backups : backups[i].by # p

\* What starting promises about the schema, for every interleaving and crash.
StartupSound == StartupTypeOK /\ SchemaHonest /\ BlockedOnlyByOverlap /\ BackupKept

\* When the configured dimensions are recorded, their vector table exists: a
\* crash anywhere in a rebuild leaves it due at the next start, unless a
\* process dropped a table another one had created or was about to.
VectorsRecoverable == (file.dims = Dims /\ file.vec = "none") => clash
=============================================================================
