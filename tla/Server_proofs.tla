---------------------------- MODULE Server_proofs ----------------------------
(***************************************************************************)
(* Theorems about Server, in two parts.  Starting: what the migrations and *)
(* the backup promise, for any number of processes, binaries and           *)
(* migrations, and whatever files they start on.  The MCP listener: for    *)
(* any number of users, requests, sessions and events its limits hold up   *)
(* to the windows the code leaves, a replay is complete, and stop() leaks  *)
(* no session but those that came late.                                    *)
(***************************************************************************)
EXTENDS Server, FiniteInduction, SequenceTheorems, TLAPS

(***************************************************************************)
(* What a step of the server does to the file and the starts.              *)
(***************************************************************************)
Halts(p) == Ends(p) /\ UNCHANGED <<file, backups, taken, overlap, clash, unlinked>>

StartupNext ==
  \/ \E p \in Procs : Starts(p) \/ Halts(p)
  \/ Embed
  \/ UNCHANGED startupVars

\* Every step of the server is one of a start, or leaves the file alone.
LEMMA StartupSteps ==
  ASSUME [Next]_vars
  PROVE  StartupNext
<1>1. CASE Start
  BY <1>1 DEF Start, StartupNext
<1>2. CASE Index
  BY <1>2 DEF Index, StartupNext
<1>3. CASE Die
  BY <1>3 DEF Die, Crash, Halts, StartupNext
<1>4. CASE Serve
  BY <1>4 DEF Serve, StartupNext
<1>5. CASE Exit
  BY <1>5, ListenerAssumption DEF Exit, Halts, StartupNext
<1>6. CASE UNCHANGED vars
  BY <1>6 DEF vars, StartupNext
<1>. QED  BY <1>1, <1>2, <1>3, <1>4, <1>5, <1>6 DEF Next

(***************************************************************************)
(* The invariant of starting, in its parts.                                *)
(***************************************************************************)
\* What is applied, and what a process has seen of it.
AppliedInv ==
  /\ 1..file.version \subseteq file.applied
  /\ \A p \in Procs :
       /\ 1..boot[p].cur \subseteq file.applied
       /\ boot[p].pc \in Opened => boot[p].cur = Newest[p]
       /\ boot[p].pc = "serving" => file.project

\* Until two upgrades overlap, an upgrading process knows the version, and
\* nothing above it is applied.
LoneInv ==
  ~overlap => /\ \A m \in file.applied : m <= file.version
              /\ \A p \in Procs : boot[p].pc \in Upgrading => boot[p].cur = file.version

\* Where a process is in a rebuild, and the table.
VectorInv ==
  /\ file.dims = Dims /\ file.vec = "none" => clash
  /\ 1 \in file.applied /\ file.dims = 0 => file.vec # "none"
  /\ \A p \in Procs :
       /\ boot[p].pc \in {"created", "updated"} => file.vec # "none" \/ clash
       /\ boot[p].pc \in {"rebuild"} \cup Rebuilding => file.dims # 0

Kept(p) ==
  \/ \E i \in DOMAIN backups : backups[i] = [by |-> p, n |-> boot[p].n]
  \/ /\ Len(backups) >= Retention
     /\ \A i \in DOMAIN backups : backups[i].by # p

\* The backups of one process are in the order it took them, and none was unlinked
\* by another.
BackupInv ==
  ~unlinked => \A p \in Procs :
    /\ \A i \in DOMAIN backups : backups[i].by = p =>
         /\ backups[i].n <= boot[p].n
         /\ boot[p].pc = "backup" => backups[i].n < boot[p].n
    /\ \A i, j \in DOMAIN backups :
         i < j /\ backups[i].by = p /\ backups[j].by = p => backups[i].n < backups[j].n
    /\ boot[p].pc \in {"prune", "migrate"} => Kept(p)

StartupInv == StartupTypeOK /\ AppliedInv /\ LoneInv /\ VectorInv /\ BackupInv

(***************************************************************************)
(* Types.                                                                  *)
(***************************************************************************)
LEMMA NewerTyped ==
  ASSUME StartupTypeOK, Len(backups) > Retention
  PROVE  /\ Newer(backups) \in Seq([by : Procs, n : Nat])
         /\ Len(Newer(backups)) = Retention
         /\ \A i \in 1..Retention :
              Newer(backups)[i] = backups[i + (Len(backups) - Retention)]
<1>. DEFINE k == Len(backups) - Retention
<1>1. /\ backups \in Seq([by : Procs, n : Nat]) /\ Len(backups) \in Nat
      /\ Retention \in Nat /\ k \in Nat
  BY BinariesAssumption DEF StartupTypeOK
<1>2. Newer(backups) = SubSeq(backups, k + 1, Len(backups))
  BY DEF Newer
<1>. HIDE DEF k
<1>3. \A i \in (k + 1)..Len(backups) : backups[i] \in [by : Procs, n : Nat]
  <2>1. ASSUME NEW i \in (k + 1)..Len(backups) PROVE i \in 1..Len(backups)
    BY <1>1
  <2>. QED  BY <1>1, <2>1, ElementOfSeq
<1>4. /\ SubSeq(backups, k + 1, Len(backups)) \in Seq([by : Procs, n : Nat])
      /\ Len(SubSeq(backups, k + 1, Len(backups)))
           = IF k + 1 <= Len(backups) THEN Len(backups) - (k + 1) + 1 ELSE 0
      /\ \A i \in 1..(Len(backups) - (k + 1) + 1) :
           SubSeq(backups, k + 1, Len(backups))[i] = backups[k + 1 + i - 1]
  <2>1. k + 1 \in Int /\ Len(backups) \in Int
    BY <1>1
  <2>. QED  BY <1>3, <2>1, SubSeqProperties
<1>5. Len(backups) - k = Retention
  BY <1>1 DEF k
<1>6. /\ Len(backups) - (k + 1) + 1 = Retention
      /\ (IF k + 1 <= Len(backups) THEN Len(backups) - (k + 1) + 1 ELSE 0) = Retention
  BY <1>1, <1>5
<1>7. \A i \in 1..Retention : k + 1 + i - 1 = i + k
  BY <1>1
<1>. QED  BY <1>2, <1>4, <1>6, <1>7 DEF k

\* What is left when one backup is unlinked.
LEMMA UnlinkedTyped ==
  ASSUME StartupTypeOK, NEW i \in DOMAIN backups
  PROVE  RemoveAt(backups, i) \in Seq([by : Procs, n : Nat])
<1>. DEFINE T == [by : Procs, n : Nat]
<1>1. backups \in Seq(T) /\ Len(backups) \in Nat /\ i \in 1..Len(backups)
  BY DEF StartupTypeOK
<1>2. \A j \in 1..Len(backups) : backups[j] \in T
  BY <1>1, ElementOfSeq
<1>3. SubSeq(backups, 1, i - 1) \in Seq(T)
  <2>1. /\ 1 \in Int /\ i - 1 \in Int
        /\ \A j \in 1..(i - 1) : j \in 1..Len(backups)
    BY <1>1
  <2>. QED  BY <1>2, <2>1, SubSeqProperties
<1>4. SubSeq(backups, i + 1, Len(backups)) \in Seq(T)
  <2>1. /\ i + 1 \in Int /\ Len(backups) \in Int
        /\ \A j \in (i + 1)..Len(backups) : j \in 1..Len(backups)
    BY <1>1
  <2>. QED  BY <1>2, <2>1, SubSeqProperties
<1>5. RemoveAt(backups, i) = SubSeq(backups, 1, i - 1) \o SubSeq(backups, i + 1, Len(backups))
  BY DEF RemoveAt
<1>. QED  BY <1>3, <1>4, <1>5, ConcatProperties

\* The fields of a file that changes.
LEMMA FileTyped ==
  ASSUME StartupTypeOK
  PROVE  /\ file \in Files
         /\ file.version \in Nat /\ file.applied \in SUBSET Nat /\ file.dims \in Nat
         /\ file.vec \in {"none", "empty", "full"}
BY DEF StartupTypeOK, Files

\* What the steps do to the starts.
LEMMA Went ==
  ASSUME StartupTypeOK, NEW p \in Procs, NEW pc \in Phases, Goto(p, pc)
  PROVE  /\ boot' \in [Procs -> Starting]
         /\ boot'[p].pc = pc
         /\ \A q \in Procs : boot'[q].cur = boot[q].cur /\ boot'[q].n = boot[q].n
         /\ \A q \in Procs \ {p} : boot'[q] = boot[q]
BY DEF Goto, StartupTypeOK, Starting

\* A process that ends.
LEMMA Ended ==
  ASSUME StartupTypeOK, NEW p \in Procs, Ends(p)
  PROVE  /\ boot' \in [Procs -> Starting]
         /\ boot'[p].pc = "down" /\ boot'[p].cur = 0 /\ boot'[p].n = boot[p].n
         /\ \A q \in Procs \ {p} : boot'[q] = boot[q]
BY DEF Ends, StartupTypeOK, Starting, Phases

\* A process that goes on to another step.
LEMMA Stepped ==
  ASSUME StartupTypeOK, NEW p \in Procs, NEW m \in Nat, boot' = [boot EXCEPT ![p].cur = m]
  PROVE  /\ boot' \in [Procs -> Starting]
         /\ boot'[p].pc = boot[p].pc /\ boot'[p].cur = m /\ boot'[p].n = boot[p].n
         /\ \A q \in Procs \ {p} : boot'[q] = boot[q]
BY DEF StartupTypeOK, Starting

\* What opening the file decides from its version.
LEMMA OpenedAt ==
  ASSUME StartupTypeOK, NEW p \in Procs, Open(p)
  PROVE  /\ boot' \in [Procs -> Starting]
         /\ boot[p].pc = "down"
         /\ boot'[p].n = boot[p].n + 1
         /\ \A q \in Procs \ {p} : boot'[q] = boot[q]
         /\ \/ file.version > Newest[p] /\ boot'[p].pc = "down" /\ boot'[p].cur = boot[p].cur
            \/ file.version < Newest[p] /\ boot'[p].pc = "backup" /\ boot'[p].cur = file.version
            \/ file.version = Newest[p] /\ boot'[p].pc = "dims" /\ boot'[p].cur = file.version
<1>1. /\ boot \in [Procs -> Starting] /\ boot[p] \in Starting
      /\ file.version \in Nat /\ Newest[p] \in Nat
  BY BinariesAssumption, FileTyped DEF StartupTypeOK
<1>2. /\ boot[p].pc = "down" /\ boot[p].n \in Nat /\ boot[p].cur \in Nat
  BY <1>1 DEF Open, At, Starting
<1>3. CASE file.version > Newest[p]
  <2>1. boot' = [boot EXCEPT ![p].n = @ + 1]
    BY <1>3 DEF Open
  <2>. QED  BY <1>1, <1>2, <1>3, <2>1 DEF Starting, Phases
<1>4. CASE ~(file.version > Newest[p])
  <2>. DEFINE r == [pc |-> IF file.version < Newest[p] THEN "backup" ELSE "dims",
                    cur |-> file.version, n |-> boot[p].n + 1]
  <2>1. boot' = [boot EXCEPT ![p] = r]
    BY <1>4 DEF Open
  <2>2. r \in Starting
    BY <1>1, <1>2 DEF Starting, Phases, Upgrading, Opened
  <2>. QED  BY <1>1, <1>2, <1>4, <2>1, <2>2
<1>. QED  BY <1>3, <1>4

\* The types are kept.
LEMMA StartupTypes ==
  ASSUME StartupTypeOK, StartupNext
  PROVE  StartupTypeOK'
<1>. USE BinariesAssumption DEF StartupTypeOK
<1>1. /\ \A p \in Procs : Newest[p] \in Nat /\ boot[p].cur \in Nat
      /\ {"down"} \cup Upgrading \cup Opened = Phases
      /\ Upgrading \subseteq Phases /\ Opened \subseteq Phases
  BY DEF Starting, Phases
<1>2. ASSUME NEW p \in Procs, NEW pc \in Phases, Goto(p, pc), file' \in Files,
             UNCHANGED <<backups, taken>>
      PROVE  StartupTypeOK'
  BY <1>2, Went
<1>3. ASSUME NEW p \in Procs, Ends(p)
      PROVE  boot' \in [Procs -> Starting] /\ \A q \in Procs : boot'[q].cur <= Newest[q]
  <2>1. /\ boot' \in [Procs -> Starting] /\ boot'[p].cur = 0
        /\ \A q \in Procs \ {p} : boot'[q] = boot[q]
    BY <1>3, Ended
  <2>2. Newest[p] \in Nat
    BY <1>1
  <2>3. boot'[p].cur <= Newest[p]
    BY <2>1, <2>2
  <2>. QED  BY <2>1, <2>3
<1>4. ASSUME NEW p \in Procs, Ends(p), file' \in Files, UNCHANGED <<backups, taken>>
      PROVE  StartupTypeOK'
  <2>1. boot' \in [Procs -> Starting] /\ \A q \in Procs : boot'[q].cur <= Newest[q]
    BY <1>4, <1>3
  <2>2. file' \in Files /\ backups' \in Seq([by : Procs, n : Nat])
    BY <1>4
  <2>3. taken' \in [Procs -> SUBSET [by : Procs, n : Nat]]
    BY <1>4
  <2>. QED  BY <2>1, <2>2, <2>3
<1>5. ASSUME NEW p \in Procs, Open(p) PROVE StartupTypeOK'
  <2>1. UNCHANGED <<file, backups>> /\ taken' = [taken EXCEPT ![p] = {}]
    BY <1>5 DEF Open
  <2>2. boot'[p].cur <= Newest[p]
    <3>1. file.version \in Nat /\ Newest[p] \in Nat /\ boot[p].cur <= Newest[p]
      BY <1>1, FileTyped
    <3>2. \/ boot'[p].cur = boot[p].cur
          \/ boot'[p].cur = file.version /\ ~(file.version > Newest[p])
      BY <1>5, <3>1, OpenedAt
    <3>. QED  BY <3>1, <3>2
  <2>3. taken' \in [Procs -> SUBSET [by : Procs, n : Nat]]
    BY <2>1
  <2>4. boot' \in [Procs -> Starting] /\ \A q \in Procs : boot'[q].cur <= Newest[q]
    BY <1>5, <2>2, OpenedAt
  <2>5. /\ file' \in Files
        /\ backups' \in Seq([by : Procs, n : Nat])
    BY <2>1
  <2>. QED  BY <2>3, <2>4, <2>5
<1>6. ASSUME NEW p \in Procs, Backup(p) PROVE StartupTypeOK'
  <2>. DEFINE own == [by |-> p, n |-> boot[p].n]
  <2>1. /\ "prune" \in Phases /\ Goto(p, "prune") /\ file' = file
        /\ backups' = Append(backups, own)
    BY <1>6 DEF Backup, Phases, Upgrading
  <2>2. own \in [by : Procs, n : Nat]
    BY DEF Starting
  <2>3. backups' \in Seq([by : Procs, n : Nat])
    BY <2>1, <2>2, AppendProperties
  <2>4. \E same : taken' = [q \in Procs |-> IF q \in same THEN {own} ELSE taken[q]]
    BY <1>6 DEF Backup
  <2>5. taken' \in [Procs -> SUBSET [by : Procs, n : Nat]]
    BY <2>2, <2>4
  <2>. QED  BY <2>1, <2>3, <2>5, Went
<1>7. ASSUME NEW p \in Procs, Prune(p) PROVE StartupTypeOK'
  <2>1. /\ "migrate" \in Phases /\ Goto(p, "migrate") /\ UNCHANGED <<file, taken>>
    BY <1>7 DEF Prune, Phases, Upgrading
  <2>2. backups' \in Seq([by : Procs, n : Nat])
    BY <1>7, NewerTyped DEF Prune
  <2>. QED  BY <2>1, <2>2, Went
<1>8. ASSUME NEW p \in Procs, Migrate(p) PROVE StartupTypeOK'
  <2>. DEFINE m == boot[p].cur + 1
  <2>1. m \in Nat /\ UNCHANGED <<backups, taken>>
    BY <1>1, <1>8 DEF Migrate
  <2>2. CASE m > Newest[p]
    <3>1. "dims" \in Phases /\ Goto(p, "dims") /\ file' = file
      BY <1>8, <2>2 DEF Migrate, Phases, Opened
    <3>. QED  BY <2>1, <3>1, Went
  <2>3. CASE m <= Newest[p] /\ m \in file.applied \ Replayable
    <3>1. Ends(p) /\ file' = file
      BY <1>1, <1>8, <2>1, <2>3 DEF Migrate
    <3>. QED  BY <1>4, <2>1, <3>1
  <2>4. CASE m <= Newest[p] /\ m \notin file.applied \ Replayable
    <3>1. file' = Applied(m) /\ boot' = [boot EXCEPT ![p].cur = m]
      BY <1>1, <1>8, <2>1, <2>4 DEF Migrate
    <3>2. file' \in Files
      BY <2>1, <3>1 DEF Applied, Files
    <3>3. boot' \in [Procs -> Starting] /\ boot'[p].cur = m
          /\ \A q \in Procs \ {p} : boot'[q] = boot[q]
      BY <2>1, <3>1, Stepped
    <3>. QED  BY <2>1, <2>4, <3>2, <3>3
  <2>. QED  BY <1>1, <2>1, <2>2, <2>3, <2>4
<1>9. ASSUME NEW p \in Procs, ReadDims(p) \/ InsertDims(p) PROVE StartupTypeOK'
  <2>1. file' \in Files /\ UNCHANGED <<backups, taken>>
    BY <1>9 DEF ReadDims, InsertDims, Files
  <2>2. Ends(p) \/ \E pc \in Opened : Goto(p, pc)
    BY <1>9 DEF ReadDims, InsertDims, Opened
  <2>. QED  BY <1>1, <1>2, <1>4, <2>1, <2>2
<1>10. ASSUME NEW p \in Procs,
             DropVec(p) \/ CreateVec(p) \/ UpdateDims(p) \/ QueueAll(p) \/ EnsureProject(p)
      PROVE StartupTypeOK'
  <2>1. file' \in Files /\ UNCHANGED <<backups, taken>>
    BY <1>10 DEF DropVec, CreateVec, UpdateDims, QueueAll, EnsureProject, Files
  <2>2. \E pc \in Opened : Goto(p, pc)
    BY <1>10 DEF DropVec, CreateVec, UpdateDims, QueueAll, EnsureProject, Opened, Rebuilding
  <2>. QED  BY <1>1, <1>2, <2>1, <2>2
<1>11. ASSUME NEW p \in Procs, Halts(p) PROVE StartupTypeOK'
  BY <1>4, <1>11 DEF Halts
<1>12. CASE Embed
  BY <1>12 DEF Embed, Files
<1>13. CASE UNCHANGED startupVars
  BY <1>13 DEF startupVars
<1>14. ASSUME NEW p \in Procs, BackupFails(p) PROVE StartupTypeOK'
  <2>1. Ends(p) /\ file' = file /\ taken' = taken
    BY <1>14 DEF BackupFails
  <2>2. backups' \in Seq([by : Procs, n : Nat])
    BY <1>14, UnlinkedTyped DEF BackupFails
  <2>3. boot' \in [Procs -> Starting] /\ \A q \in Procs : boot'[q].cur <= Newest[q]
    BY <2>1, <1>3
  <2>4. /\ file' \in Files
        /\ taken' \in [Procs -> SUBSET [by : Procs, n : Nat]]
    BY <2>1
  <2>. QED  BY <2>1, <2>2, <2>3, <2>4
<1>. QED
  BY <1>5, <1>6, <1>7, <1>8, <1>9, <1>10, <1>11, <1>12, <1>13, <1>14 DEF StartupNext, Starts

(***************************************************************************)
(* What is applied.                                                        *)
(***************************************************************************)
\* The steps of a migrating process.
LEMMA Migrates ==
  ASSUME StartupTypeOK, NEW p \in Procs, Migrate(p)
  PROVE  /\ boot[p].pc = "migrate" /\ boot[p].cur \in Nat /\ Newest[p] \in Nat
         /\ UNCHANGED <<backups, clash, unlinked>>
         /\ \/ /\ boot[p].cur = Newest[p] /\ Goto(p, "dims") /\ UNCHANGED <<file, overlap>>
            \/ /\ boot[p].cur + 1 \in file.applied \ Replayable
               /\ Ends(p) /\ UNCHANGED <<file, overlap>>
            \/ /\ boot' = [boot EXCEPT ![p].cur = boot[p].cur + 1]
               /\ file'.version = boot[p].cur + 1
               /\ file'.applied = file.applied \cup {boot[p].cur + 1}
               /\ file'.dims = file.dims /\ file'.project = file.project
               /\ file'.vec = IF boot[p].cur = 0 /\ file.vec = "none" THEN "full" ELSE file.vec
               /\ overlap' = (overlap \/ \E q \in Procs \ {p} : boot[q].pc \in Upgrading)
<1>. DEFINE m == boot[p].cur + 1
<1>1. /\ boot[p].cur \in Nat /\ Newest[p] \in Nat /\ m \in Nat /\ boot[p].cur <= Newest[p]
  BY BinariesAssumption DEF StartupTypeOK, Starting
<1>2. boot[p].pc = "migrate" /\ UNCHANGED <<backups, clash, unlinked>>
  BY DEF Migrate, At
<1>3. CASE m > Newest[p]
  BY <1>1, <1>2, <1>3 DEF Migrate
<1>4. CASE m <= Newest[p] /\ m \in file.applied \ Replayable
  BY <1>1, <1>2, <1>4 DEF Migrate
<1>5. CASE m <= Newest[p] /\ m \notin file.applied \ Replayable
  <2>1. file' = Applied(m) /\ boot' = [boot EXCEPT ![p].cur = m]
        /\ overlap' = (overlap \/ \E q \in Procs \ {p} : boot[q].pc \in Upgrading)
    BY <1>1, <1>5 DEF Migrate
  <2>2. m = 1 <=> boot[p].cur = 0
    BY <1>1
  <2>3. /\ file'.version = m /\ file'.applied = file.applied \cup {m}
        /\ file'.dims = file.dims /\ file'.project = file.project
        /\ file'.vec = IF m = 1 /\ file.vec = "none" THEN "full" ELSE file.vec
    BY <2>1 DEF Applied, StartupTypeOK, Files
  <2>. QED  BY <1>1, <1>2, <2>1, <2>2, <2>3
<1>. QED  BY <1>1, <1>3, <1>4, <1>5

\* The steps from the migrations to serving.
Finishes(p) ==
  ReadDims(p) \/ InsertDims(p) \/ DropVec(p) \/ CreateVec(p) \/ UpdateDims(p)
    \/ QueueAll(p) \/ EnsureProject(p)

\* The steps after the migrations.
LEMMA Finishing ==
  ASSUME StartupTypeOK, NEW p \in Procs, Finishes(p)
  PROVE  /\ boot[p].pc \in Opened
         /\ file'.version = file.version /\ file'.applied = file.applied
         /\ file.project => file'.project
         /\ UNCHANGED <<backups, overlap, unlinked>>
         /\ Ends(p) \/ \E pc \in Opened : Goto(p, pc) /\ (pc = "serving" => file'.project)
<1>. USE DEF StartupTypeOK, Files, Opened, Rebuilding, At
<1>1. CASE ReadDims(p)
  BY <1>1 DEF ReadDims
<1>2. CASE InsertDims(p)
  BY <1>2 DEF InsertDims
<1>3. CASE DropVec(p)
  <2>1. /\ file' = [file EXCEPT !.vec = "none"] /\ Goto(p, "dropped")
        /\ UNCHANGED <<backups, overlap, unlinked>>
    BY <1>3 DEF DropVec
  <2>. QED  BY <1>3, <2>1 DEF DropVec
<1>4. CASE CreateVec(p)
  BY <1>4 DEF CreateVec
<1>5. CASE UpdateDims(p)
  BY <1>5 DEF UpdateDims
<1>6. CASE QueueAll(p)
  BY <1>6 DEF QueueAll
<1>7. CASE EnsureProject(p)
  BY <1>7 DEF EnsureProject
<1>. QED  BY <1>1, <1>2, <1>3, <1>4, <1>5, <1>6, <1>7 DEF Finishes

\* Migrations applied stay applied.
LEMMA AppliedKept ==
  ASSUME StartupTypeOK, AppliedInv, StartupNext
  PROVE  AppliedInv'
<1>. USE BinariesAssumption DEF AppliedInv
<1>1. ASSUME NEW p \in Procs, Open(p) PROVE AppliedInv'
  <2>1. file' = file
    BY <1>1 DEF Open
  <2>. QED  BY <1>1, <2>1, OpenedAt DEF Opened, Rebuilding
<1>2. ASSUME NEW p \in Procs, NEW pc \in Upgrading, Goto(p, pc), file' = file PROVE AppliedInv'
  <2>1. pc \in Phases /\ pc \notin Opened
    BY DEF Phases, Upgrading, Opened, Rebuilding
  <2>. QED  BY <1>2, <2>1, Went DEF Opened
<1>3. ASSUME NEW p \in Procs, Ends(p),
             file'.version = file.version, file'.applied = file.applied,
             file.project => file'.project
      PROVE  AppliedInv'
  <2>1. "down" \notin Opened /\ 1..0 = {}
    BY DEF Opened, Rebuilding
  <2>. QED  BY <1>3, <2>1, Ended DEF Opened
<1>4. ASSUME NEW p \in Procs, NEW pc \in Opened, Goto(p, pc), boot[p].cur = Newest[p],
             pc = "serving" => file'.project,
             file'.version = file.version, file'.applied = file.applied,
             file.project => file'.project
      PROVE  AppliedInv'
  <2>1. pc \in Phases
    BY DEF Phases
  <2>. QED  BY <1>4, <2>1, Went
<1>5. ASSUME NEW p \in Procs, Migrate(p) PROVE AppliedInv'
  <2>. DEFINE m == boot[p].cur + 1
  <2>1. CASE boot[p].cur = Newest[p] /\ Goto(p, "dims") /\ file' = file
    BY <1>4, <2>1 DEF Opened
  <2>2. CASE Ends(p) /\ file' = file
    BY <1>3, <2>2
  <2>3. CASE /\ boot' = [boot EXCEPT ![p].cur = m]
             /\ file'.version = m /\ file'.applied = file.applied \cup {m}
             /\ file'.project = file.project
    <3>1. /\ boot[p].pc = "migrate" /\ boot[p].cur \in Nat /\ m \in Nat
          /\ boot[p].pc \notin Opened
      BY <1>5, Migrates DEF Opened, Rebuilding
    <3>2. 1..m = 1..boot[p].cur \cup {m}
      BY <3>1
    <3>3. 1..m \subseteq file'.applied
      BY <2>3, <3>2
    <3>. QED  BY <2>3, <3>1, <3>3, Stepped
  <2>. QED  BY <1>5, <2>1, <2>2, <2>3, Migrates
<1>6. ASSUME NEW p \in Procs, Finishes(p) PROVE AppliedInv'
  BY <1>3, <1>4, <1>6, Finishing
<1>7. ASSUME NEW p \in Procs, Halts(p) PROVE AppliedInv'
  BY <1>3, <1>7 DEF Halts
<1>8. CASE Embed
  BY <1>8 DEF Embed, StartupTypeOK, Files
<1>9. CASE UNCHANGED startupVars
  BY <1>9 DEF startupVars
<1>10. ASSUME NEW p \in Procs, Backup(p) \/ Prune(p) PROVE AppliedInv'
  <2>1. file' = file /\ \E pc \in Upgrading : Goto(p, pc)
    BY <1>10 DEF Backup, Prune, Upgrading
  <2>. QED  BY <1>2, <2>1
<1>11. ASSUME NEW p \in Procs, BackupFails(p) PROVE AppliedInv'
  BY <1>3, <1>11 DEF BackupFails
<1>. QED  BY <1>1, <1>5, <1>6, <1>7, <1>8, <1>9, <1>10, <1>11 DEF StartupNext, Starts, Finishes

(***************************************************************************)
(* The upgrades that do not overlap.                                       *)
(***************************************************************************)
LEMMA LoneKept ==
  ASSUME StartupTypeOK, LoneInv, StartupNext
  PROVE  LoneInv'
<1>. USE DEF LoneInv
<1>1. ASSUME NEW p \in Procs, Open(p) PROVE LoneInv'
  <2>1. file' = file /\ overlap' = overlap
    BY <1>1 DEF Open
  <2>2. boot'[p].pc \in Upgrading => boot'[p].cur = file.version
    BY <1>1, OpenedAt DEF Upgrading
  <2>. QED  BY <1>1, <2>1, <2>2, OpenedAt
<1>2. ASSUME NEW p \in Procs, Backup(p) \/ Prune(p) PROVE LoneInv'
  <2>1. /\ file' = file /\ overlap' = overlap
        /\ boot[p].pc \in Upgrading
        /\ \E pc \in Upgrading : Goto(p, pc)
    BY <1>2 DEF Backup, Prune, At, Upgrading
  <2>2. Upgrading \subseteq Phases
    BY DEF Phases
  <2>. QED  BY <2>1, <2>2, Went
<1>3. ASSUME NEW p \in Procs, file'.version = file.version, file'.applied = file.applied,
             overlap' = overlap,
             Ends(p) \/ \E pc \in Opened : Goto(p, pc)
      PROVE  LoneInv'
  <2>1. Opened \subseteq Phases /\ Opened \cap Upgrading = {} /\ "down" \notin Upgrading
    BY DEF Phases, Opened, Rebuilding, Upgrading
  <2>2. /\ boot'[p].pc \notin Upgrading
        /\ \A q \in Procs \ {p} : boot'[q] = boot[q]
    BY <1>3, <2>1, Ended, Went
  <2>. QED  BY <1>3, <2>2
<1>4. ASSUME NEW p \in Procs, Migrate(p) PROVE LoneInv'
  <2>. DEFINE m == boot[p].cur + 1
  <2>1. m \in Nat /\ boot[p].cur \in Nat /\ file.version \in Nat /\ file.applied \in SUBSET Nat
        /\ boot[p].pc \in Upgrading
    BY <1>4, Migrates, FileTyped DEF Upgrading
  <2>2. CASE Goto(p, "dims") /\ UNCHANGED <<file, overlap>>
    BY <1>3, <2>2 DEF Opened
  <2>3. CASE Ends(p) /\ UNCHANGED <<file, overlap>>
    BY <1>3, <2>3
  <2>4. CASE /\ boot' = [boot EXCEPT ![p].cur = m]
             /\ file'.version = m /\ file'.applied = file.applied \cup {m}
             /\ overlap' = (overlap \/ \E q \in Procs \ {p} : boot[q].pc \in Upgrading)
    <3>1. /\ boot'[p].pc = boot[p].pc /\ boot'[p].cur = m
          /\ \A q \in Procs \ {p} : boot'[q] = boot[q]
      BY <2>1, <2>4, Stepped
    <3>2. ASSUME ~overlap' PROVE \A n \in file'.applied : n <= file'.version
      <4>1. boot[p].cur = file.version /\ \A n \in file.applied : n <= file.version
        BY <2>1, <2>4, <3>2
      <4>. QED  BY <2>1, <2>4, <4>1
    <3>3. ASSUME ~overlap' PROVE \A q \in Procs : boot'[q].pc \in Upgrading => boot'[q].cur = file'.version
      BY <2>4, <3>1, <3>3
    <3>. QED  BY <3>2, <3>3
  <2>. QED  BY <1>4, <2>2, <2>3, <2>4, Migrates
<1>5. ASSUME NEW p \in Procs, Finishes(p) PROVE LoneInv'
  BY <1>3, <1>5, Finishing
<1>6. ASSUME NEW p \in Procs, Halts(p) PROVE LoneInv'
  BY <1>3, <1>6 DEF Halts
<1>7. CASE Embed
  BY <1>7 DEF Embed, StartupTypeOK, Files
<1>8. CASE UNCHANGED startupVars
  BY <1>8 DEF startupVars
<1>9. ASSUME NEW p \in Procs, BackupFails(p) PROVE LoneInv'
  BY <1>3, <1>9 DEF BackupFails
<1>. QED  BY <1>1, <1>2, <1>4, <1>5, <1>6, <1>7, <1>8, <1>9 DEF StartupNext, Starts, Finishes

(***************************************************************************)
(* The vector table.                                                       *)
(***************************************************************************)
LEMMA VectorKept ==
  ASSUME StartupTypeOK, AppliedInv, VectorInv, StartupNext
  PROVE  VectorInv'
<1>. USE DEF VectorInv
<1>. DEFINE R == {"rebuild"} \cup Rebuilding
<1>1. /\ R \subseteq Opened /\ Opened \subseteq Phases /\ Upgrading \subseteq Phases
      /\ Upgrading \cap R = {} /\ {"created", "updated"} \subseteq R
      /\ {"down", "dims", "noDims", "project", "serving"} \cap R = {}
  BY DEF Opened, Phases, Upgrading, Rebuilding
<1>2. ASSUME NEW p \in Procs, file' = file, clash' = clash, boot'[p].pc \notin R,
             \A q \in Procs \ {p} : boot'[q] = boot[q]
      PROVE  VectorInv'
  BY <1>1, <1>2
<1>3. ASSUME NEW p \in Procs, Open(p) PROVE VectorInv'
  BY <1>1, <1>2, <1>3, OpenedAt DEF Open, Upgrading
<1>4. ASSUME NEW p \in Procs, Backup(p) \/ Prune(p) PROVE VectorInv'
  <2>1. /\ file' = file /\ clash' = clash /\ \E pc \in Upgrading : Goto(p, pc)
    BY <1>4 DEF Backup, Prune, Upgrading
  <2>. QED  BY <1>1, <1>2, <2>1, Went
<1>5. ASSUME NEW p \in Procs, Ends(p), file' = file, clash' = clash PROVE VectorInv'
  BY <1>1, <1>2, <1>5, Ended
<1>6. ASSUME NEW p \in Procs, Migrate(p) PROVE VectorInv'
  <2>1. /\ clash' = clash /\ boot[p].pc = "migrate" /\ "dims" \in Phases
        /\ boot[p].cur + 1 \in Nat
    BY <1>1, <1>6, Migrates DEF Opened
  <2>2. CASE Goto(p, "dims") /\ file' = file
    BY <1>1, <1>2, <2>1, <2>2, Went
  <2>3. CASE Ends(p) /\ file' = file
    BY <1>5, <2>1, <2>3
  <2>4. CASE /\ boot' = [boot EXCEPT ![p].cur = boot[p].cur + 1]
             /\ file'.applied = file.applied \cup {boot[p].cur + 1}
             /\ file'.dims = file.dims
             /\ file'.vec = IF boot[p].cur = 0 /\ file.vec = "none" THEN "full" ELSE file.vec
    <3>1. /\ boot'[p].pc = boot[p].pc /\ \A q \in Procs \ {p} : boot'[q] = boot[q]
      BY <2>1, <2>4, Stepped
    <3>2. 1 \in file'.applied => 1 \in file.applied \/ boot[p].cur = 0
      BY <2>1, <2>4, <1>6, Migrates
    <3>3. file.vec # "none" => file'.vec # "none"
      BY <2>4
    <3>. QED  BY <2>1, <2>4, <3>1, <3>2, <3>3
  <2>. QED  BY <1>6, <2>2, <2>3, <2>4, Migrates
<1>7. ASSUME NEW p \in Procs, ReadDims(p) PROVE VectorInv'
  <2>1. CASE file.dims \in {0, Dims}
    BY <1>1, <1>2, <1>7, <2>1, Went DEF ReadDims, Opened
  <2>2. CASE file.dims \notin {0, Dims}
    <3>1. Goto(p, "rebuild") /\ "rebuild" \in Phases /\ "rebuild" \notin {"created", "updated"}
      BY <1>1, <1>7, <2>2 DEF ReadDims
    <3>2. UNCHANGED <<file, clash>>
      BY <1>7 DEF ReadDims
    <3>. QED  BY <2>2, <3>1, <3>2, Went
  <2>. QED  BY <2>1, <2>2
<1>8. ASSUME NEW p \in Procs, InsertDims(p) PROVE VectorInv'
  <2>1. CASE file.dims # 0
    BY <1>5, <1>8, <2>1 DEF InsertDims
  <2>2. CASE file.dims = 0
    <3>1. 1 \in file.applied
      <4>1. boot[p].pc = "noDims" /\ boot[p].cur = Newest[p] /\ Newest[p] \in Nat \ {0}
        BY <1>8, BinariesAssumption DEF InsertDims, At, AppliedInv, Opened
      <4>2. 1 \in 1..boot[p].cur
        BY <4>1
      <4>. QED  BY <4>2 DEF AppliedInv
    <3>2. /\ Goto(p, "project") /\ "project" \in Phases /\ clash' = clash
          /\ file'.dims = Dims /\ file'.vec = file.vec /\ file'.applied = file.applied
      BY <1>1, <1>8, <2>2 DEF InsertDims, StartupTypeOK, Files, Opened
    <3>. QED  BY <1>1, <2>2, <3>1, <3>2, Went, BinariesAssumption
  <2>. QED  BY <2>1, <2>2
<1>9. ASSUME NEW p \in Procs, DropVec(p) PROVE VectorInv'
  <2>1. /\ boot[p].pc = "rebuild" /\ Goto(p, "dropped") /\ "dropped" \in Phases
        /\ file'.dims = file.dims /\ file'.applied = file.applied /\ file'.vec = "none"
    BY <1>9 DEF DropVec, At, StartupTypeOK, Files, Phases, Opened, Rebuilding
  <2>2. /\ boot'[p].pc = "dropped" /\ \A q \in Procs \ {p} : boot'[q] = boot[q]
    BY <2>1, Went
  <2>3. clash \/ file.dims = Dims => clash'
    BY <1>9 DEF DropVec, Clashes
  <2>4. (\E q \in Procs \ {p} : boot[q].pc \in {"created", "updated"}) => clash'
    BY <1>9 DEF DropVec, Clashes, Rebuilding
  <2>5. file.dims # 0
    BY <2>1
  <2>. QED  BY <2>1, <2>2, <2>3, <2>4, <2>5
<1>10. ASSUME NEW p \in Procs, CreateVec(p) PROVE VectorInv'
  <2>1. /\ boot[p].pc = "dropped" /\ Goto(p, "created") /\ "created" \in Phases /\ clash' = clash
        /\ file'.dims = file.dims /\ file'.applied = file.applied /\ file'.vec # "none"
    BY <1>10 DEF CreateVec, At, StartupTypeOK, Files, Phases, Opened, Rebuilding
  <2>2. file.dims # 0
    BY <2>1 DEF Rebuilding
  <2>. QED  BY <2>1, <2>2, Went
<1>11. ASSUME NEW p \in Procs, UpdateDims(p) PROVE VectorInv'
  <2>1. /\ boot[p].pc = "created" /\ Goto(p, "updated") /\ "updated" \in Phases /\ clash' = clash
        /\ file'.dims = Dims /\ file'.applied = file.applied /\ file'.vec = file.vec
    BY <1>11 DEF UpdateDims, At, StartupTypeOK, Files, Phases, Opened, Rebuilding
  <2>2. Dims # 0 /\ (file.vec # "none" \/ clash)
    BY <2>1, BinariesAssumption
  <2>. QED  BY <2>1, <2>2, Went
<1>12. ASSUME NEW p \in Procs, QueueAll(p) \/ EnsureProject(p) PROVE VectorInv'
  <2>1. /\ clash' = clash /\ \E pc \in {"project", "serving"} : Goto(p, pc)
        /\ file'.dims = file.dims /\ file'.applied = file.applied /\ file'.vec = file.vec
    BY <1>12 DEF QueueAll, EnsureProject, StartupTypeOK, Files
  <2>2. {"project", "serving"} \subseteq Phases
    BY DEF Phases, Opened
  <2>3. boot'[p].pc \notin R /\ \A q \in Procs \ {p} : boot'[q] = boot[q]
    BY <1>1, <2>1, <2>2, Went
  <2>. QED  BY <1>1, <2>1, <2>3
<1>13. ASSUME NEW p \in Procs, Halts(p) PROVE VectorInv'
  BY <1>5, <1>13 DEF Halts
<1>14. CASE Embed
  <2>1. /\ file'.dims = file.dims /\ file'.applied = file.applied
        /\ file.vec # "none" => file'.vec # "none"
        /\ UNCHANGED <<boot, clash>>
    BY <1>14 DEF Embed, StartupTypeOK, Files
  <2>2. file.vec # "none"
    BY <1>14 DEF Embed
  <2>. QED  BY <2>1, <2>2
<1>15. CASE UNCHANGED startupVars
  BY <1>15 DEF startupVars
<1>16. ASSUME NEW p \in Procs, BackupFails(p) PROVE VectorInv'
  BY <1>5, <1>16 DEF BackupFails
<1>. QED
  BY <1>3, <1>4, <1>6, <1>7, <1>8, <1>9, <1>10, <1>11, <1>12, <1>13, <1>14, <1>15, <1>16
     DEF StartupNext, Starts

(***************************************************************************)
(* The backups.                                                            *)
(***************************************************************************)
\* A step that takes and prunes no backup and begins no start: a process stays
\* where it is, or goes where its backup is not asked for any more.
LEMMA BackupsRest ==
  ASSUME StartupTypeOK, BackupInv, UNCHANGED <<backups, unlinked>>,
         \A q \in Procs : /\ boot'[q].n = boot[q].n
                          /\ \/ boot'[q].pc = boot[q].pc
                             \/ boot'[q].pc \notin Upgrading
  PROVE  BackupInv'
BY DEF BackupInv, Kept, Upgrading

\* The fields of a backup.
LEMMA BackupTyped ==
  ASSUME StartupTypeOK, NEW i \in DOMAIN backups
  PROVE  backups[i].by \in Procs /\ backups[i].n \in Nat
<1>1. backups \in Seq([by : Procs, n : Nat]) /\ i \in 1..Len(backups)
  BY DEF StartupTypeOK
<1>2. backups[i] \in [by : Procs, n : Nat]
  BY <1>1, ElementOfSeq
<1>. QED  BY <1>2

\* A backup made is there for the process that made it.
LEMMA BackupKeeps ==
  ASSUME StartupTypeOK, BackupInv, ~unlinked, NEW p \in Procs, Backup(p)
  PROVE  BackupInv'
<1>. DEFINE new == [by |-> p, n |-> boot[p].n]
            k == Len(backups) + 1
<1>1. /\ backups \in Seq([by : Procs, n : Nat]) /\ new \in [by : Procs, n : Nat]
      /\ boot[p].pc = "backup" /\ Goto(p, "prune") /\ "prune" \in Phases
      /\ backups' = Append(backups, new)
  BY DEF Backup, At, StartupTypeOK, Starting, Phases, Upgrading
<1>2. /\ Len(backups) \in Nat /\ Len(backups') = k
      /\ \A i \in 1..Len(backups) : backups'[i] = backups[i]
      /\ backups'[k] = new
      /\ DOMAIN backups = 1..Len(backups) /\ DOMAIN backups' = 1..k
  BY <1>1
<1>3. /\ boot'[p].pc = "prune" /\ boot'[p].n = boot[p].n
      /\ \A q \in Procs \ {p} : boot'[q] = boot[q]
  BY <1>1, Went
<1>4. \A i \in 1..k : i = k \/ i \in 1..Len(backups)
  BY <1>2
<1>5. boot[p].n \in Nat /\ \A i \in 1..Len(backups) : backups[i].n \in Nat
  BY <1>2, BackupTyped DEF StartupTypeOK, Starting
<1>6. ASSUME NEW q \in Procs, NEW i \in DOMAIN backups', backups'[i].by = q
      PROVE  /\ backups'[i].n <= boot'[q].n
             /\ boot'[q].pc = "backup" => backups'[i].n < boot'[q].n
  <2>1. CASE i = k
    <3>1. q = p
      BY <1>2, <1>6, <2>1
    <3>. QED  BY <1>2, <1>3, <1>5, <2>1, <3>1
  <2>2. CASE i \in 1..Len(backups)
    <3>1. backups'[i] = backups[i] /\ i \in DOMAIN backups
      BY <1>2, <2>2
    <3>. QED  BY <1>3, <1>6, <3>1 DEF BackupInv
  <2>. QED  BY <1>2, <1>4, <2>1, <2>2
<1>7. ASSUME NEW q \in Procs, NEW i \in DOMAIN backups', NEW j \in DOMAIN backups',
             i < j, backups'[i].by = q, backups'[j].by = q
      PROVE  backups'[i].n < backups'[j].n
  <2>1. i \in 1..Len(backups) /\ backups'[i] = backups[i]
    BY <1>2, <1>4, <1>7
  <2>2. CASE j = k
    <3>1. q = p /\ backups'[j].n = boot[p].n
      BY <1>2, <1>7, <2>2
    <3>. QED  BY <1>1, <1>2, <1>7, <2>1, <3>1 DEF BackupInv
  <2>3. CASE j \in 1..Len(backups)
    BY <1>2, <1>7, <2>1, <2>3 DEF BackupInv
  <2>. QED  BY <1>2, <1>4, <2>2, <2>3
<1>8. Kept(p)'
  <2>1. k \in DOMAIN backups' /\ backups'[k] = [by |-> p, n |-> boot'[p].n]
    BY <1>2, <1>3
  <2>. QED  BY <2>1 DEF Kept
<1>9. ASSUME NEW q \in Procs \ {p}, boot'[q].pc \in {"prune", "migrate"}
      PROVE  Kept(q)'
  <2>1. boot'[q] = boot[q] /\ Kept(q)
    BY <1>3, <1>9 DEF BackupInv
  <2>2. CASE \E i \in DOMAIN backups : backups[i] = [by |-> q, n |-> boot[q].n]
    <3>1. \A i \in DOMAIN backups : i \in DOMAIN backups' /\ backups'[i] = backups[i]
      BY <1>2
    <3>. QED  BY <2>1, <2>2, <3>1 DEF Kept
  <2>3. CASE Len(backups) >= Retention /\ \A i \in DOMAIN backups : backups[i].by # q
    <3>1. Len(backups') >= Retention
      BY <1>2, <2>3, BinariesAssumption
    <3>2. \A i \in DOMAIN backups' : backups'[i].by # q
      BY <1>2, <1>4, <2>3
    <3>. QED  BY <3>1, <3>2 DEF Kept
  <2>. QED  BY <2>1, <2>2, <2>3 DEF Kept
<1>. QED  BY <1>6, <1>7, <1>8, <1>9 DEF BackupInv

\* Pruning keeps the newest, so a process whose backup goes has no later one.
LEMMA PruneKeeps ==
  ASSUME StartupTypeOK, BackupInv, ~unlinked, NEW p \in Procs, Prune(p)
  PROVE  BackupInv'
<1>1. /\ boot[p].pc = "prune" /\ Goto(p, "migrate") /\ "migrate" \in Phases
      /\ backups' = IF Len(backups) > Retention THEN Newer(backups) ELSE backups
  BY DEF Prune, At, Phases, Upgrading
<1>2. /\ boot'[p].pc = "migrate" /\ boot'[p].n = boot[p].n
      /\ \A q \in Procs \ {p} : boot'[q] = boot[q]
  BY <1>1, Went
<1>3. CASE ~(Len(backups) > Retention)
  <2>1. backups' = backups
    BY <1>1, <1>3
  <2>. QED  BY <1>1, <1>2, <2>1 DEF BackupInv, Kept
<1>4. CASE Len(backups) > Retention
  <2>. DEFINE d == Len(backups) - Retention
  <2>1. /\ backups \in Seq([by : Procs, n : Nat]) /\ Len(backups) \in Nat /\ Retention \in Nat
        /\ d \in Nat /\ DOMAIN backups = 1..Len(backups)
        /\ backups' = Newer(backups)
    BY <1>1, <1>4, BinariesAssumption DEF StartupTypeOK
  <2>2. /\ Len(backups') = Retention /\ DOMAIN backups' = 1..Retention
        /\ \A i \in 1..Retention : backups'[i] = backups[i + d]
    BY <1>4, <2>1, NewerTyped
  <2>3. \A i \in 1..Retention : i + d \in DOMAIN backups
    BY <2>1
  <2>4. \A i \in DOMAIN backups : i > d => i - d \in 1..Retention /\ (i - d) + d = i
    BY <2>1
  <2>. HIDE DEF d
  <2>5. ASSUME NEW q \in Procs, NEW i \in DOMAIN backups', backups'[i].by = q
        PROVE  /\ backups'[i].n <= boot'[q].n
               /\ boot'[q].pc = "backup" => backups'[i].n < boot'[q].n
    BY <1>2, <2>2, <2>3, <2>5 DEF BackupInv
  <2>6. ASSUME NEW q \in Procs, NEW i \in DOMAIN backups', NEW j \in DOMAIN backups',
               i < j, backups'[i].by = q, backups'[j].by = q
        PROVE  backups'[i].n < backups'[j].n
    <3>1. i + d \in DOMAIN backups /\ j + d \in DOMAIN backups /\ i + d < j + d
      BY <2>1, <2>2, <2>3, <2>6
    <3>. QED  BY <2>2, <2>6, <3>1 DEF BackupInv
  <2>7. ASSUME NEW q \in Procs, boot'[q].pc \in {"prune", "migrate"}
        PROVE  Kept(q)'
    <3>1. boot'[q].n = boot[q].n /\ boot[q].pc \in {"prune", "migrate"} /\ Kept(q)
      BY <1>1, <1>2, <2>7 DEF BackupInv
    <3>2. CASE \E i \in DOMAIN backups : backups[i] = [by |-> q, n |-> boot[q].n]
      <4>1. PICK i \in DOMAIN backups : backups[i] = [by |-> q, n |-> boot[q].n]
        BY <3>2
      <4>2. CASE i > d
        <5>1. i - d \in DOMAIN backups' /\ backups'[i - d] = [by |-> q, n |-> boot'[q].n]
          BY <2>2, <2>4, <3>1, <4>1, <4>2
        <5>. QED  BY <5>1 DEF Kept
      <4>3. CASE ~(i > d)
        <5>1. ASSUME NEW j \in DOMAIN backups', backups'[j].by = q PROVE FALSE
          <6>1. j + d \in DOMAIN backups /\ i < j + d /\ backups[j + d].by = q
            <7>1. j \in 1..Retention /\ i \in 1..Len(backups)
              BY <2>1, <2>2, <5>1
            <7>2. i < j + d
              BY <2>1, <4>3, <7>1
            <7>. QED  BY <2>2, <2>3, <5>1, <7>1, <7>2
          <6>2. backups[i].n < backups[j + d].n /\ backups[j + d].n <= boot[q].n
            BY <4>1, <6>1 DEF BackupInv
          <6>3. backups[i].n = boot[q].n /\ boot[q].n \in Nat /\ backups[j + d].n \in Nat
            BY SMTT(30), <4>1, <6>1, BackupTyped DEF StartupTypeOK, Starting
          <6>. QED  BY <6>2, <6>3
        <5>. QED  BY <2>1, <2>2, <5>1 DEF Kept
      <4>. QED  BY <4>2, <4>3
    <3>3. CASE \A i \in DOMAIN backups : backups[i].by # q
      <4>1. Len(backups') >= Retention
        BY <2>1, <2>2
      <4>2. ASSUME NEW i \in DOMAIN backups' PROVE backups'[i].by # q
        <5>1. i \in 1..Retention /\ backups'[i] = backups[i + d] /\ i + d \in DOMAIN backups
          BY <2>2, <2>3, <4>2
        <5>. QED  BY <3>3, <5>1
      <4>. QED  BY <4>1, <4>2 DEF Kept
    <3>. QED  BY <3>1, <3>2, <3>3 DEF Kept
  <2>. QED  BY <2>5, <2>6, <2>7 DEF BackupInv
<1>. QED  BY <1>3, <1>4

\* Backups change only by a backup made, one unlinked and the old ones pruned.
LEMMA BackupsKept ==
  ASSUME StartupTypeOK, BackupInv, StartupNext
  PROVE  BackupInv'
<1>. SUFFICES ASSUME ~unlinked' PROVE BackupInv'
  BY DEF BackupInv
<1>1. ASSUME NEW p \in Procs, Open(p) PROVE BackupInv'
  <2>1. /\ backups' = backups /\ ~unlinked /\ boot[p].n \in Nat
        /\ \A i \in DOMAIN backups : backups[i].n \in Nat
    BY <1>1, BackupTyped DEF Open, StartupTypeOK, Starting
  <2>2. /\ boot'[p].n = boot[p].n + 1 /\ boot'[p].pc \notin {"prune", "migrate"}
        /\ \A q \in Procs \ {p} : boot'[q] = boot[q]
    BY <1>1, OpenedAt
  <2>3. ASSUME NEW q \in Procs, NEW i \in DOMAIN backups, backups[i].by = q
        PROVE  /\ backups[i].n <= boot'[q].n
               /\ boot'[q].pc = "backup" => backups[i].n < boot'[q].n
    <3>1. CASE q = p
      <4>1. backups[i].n <= boot[p].n
        BY <2>1, <2>3, <3>1 DEF BackupInv
      <4>. QED  BY <2>1, <2>2, <3>1, <4>1
    <3>2. CASE q # p
      BY <2>1, <2>2, <2>3, <3>2 DEF BackupInv
    <3>. QED  BY <3>1, <3>2
  <2>4. \A q \in Procs : boot'[q].pc \in {"prune", "migrate"} => Kept(q)'
    BY <2>1, <2>2 DEF BackupInv, Kept
  <2>. QED  BY <2>1, <2>3, <2>4 DEF BackupInv
<1>2. ASSUME NEW p \in Procs, UNCHANGED <<backups, unlinked>>,
             Ends(p) \/ \E pc \in Opened : Goto(p, pc)
      PROVE  BackupInv'
  <2>1. Opened \subseteq Phases /\ Opened \cap Upgrading = {} /\ "down" \notin Upgrading
    BY DEF Phases, Opened, Rebuilding, Upgrading
  <2>2. /\ boot'[p].pc \notin Upgrading /\ boot'[p].n = boot[p].n
        /\ \A q \in Procs \ {p} : boot'[q] = boot[q]
    BY <1>2, <2>1, Ended, Went
  <2>. QED  BY <1>2, <2>2, BackupsRest
<1>3. ASSUME NEW p \in Procs, Migrate(p) PROVE BackupInv'
  <2>1. CASE boot' = [boot EXCEPT ![p].cur = boot[p].cur + 1]
    <3>1. boot[p].cur + 1 \in Nat
      BY <1>3, Migrates
    <3>. QED  BY <1>3, <2>1, <3>1, Migrates, Stepped, BackupsRest
  <2>2. CASE Goto(p, "dims") \/ Ends(p)
    BY <1>2, <1>3, <2>2, Migrates DEF Opened
  <2>. QED  BY <1>3, <2>1, <2>2, Migrates
<1>4. ASSUME NEW p \in Procs, Finishes(p) PROVE BackupInv'
  BY <1>2, <1>4, Finishing
<1>5. ASSUME NEW p \in Procs, Halts(p) PROVE BackupInv'
  BY <1>2, <1>5 DEF Halts
<1>6. CASE Embed
  BY <1>6, BackupsRest DEF Embed
<1>7. CASE UNCHANGED startupVars
  BY <1>7, BackupsRest DEF startupVars
<1>8. ASSUME NEW p \in Procs, Backup(p) \/ Prune(p) PROVE BackupInv'
  <2>1. ~unlinked
    BY <1>8 DEF Backup, Prune
  <2>. QED  BY <1>8, <2>1, BackupKeeps, PruneKeeps
<1>9. ASSUME NEW p \in Procs, BackupFails(p) PROVE BackupInv'
  BY <1>9 DEF BackupFails
<1>. QED
  BY <1>1, <1>3, <1>4, <1>5, <1>6, <1>7, <1>8, <1>9 DEF StartupNext, Starts, Finishes

(***************************************************************************)
(* Starting keeps its promises, whatever files the runs begin with, and    *)
(* whichever processes, binaries and crashes come together.                *)
(***************************************************************************)
LEMMA StartupBegins ==
  ASSUME Init
  PROVE  StartupInv
<1>1. /\ Settled(file) /\ backups = <<>> /\ ~overlap /\ ~clash
      /\ taken = [p \in Procs |-> {}]
      /\ boot = [p \in Procs |-> [pc |-> "down", cur |-> 0, n |-> 0]]
  BY FilesAssumption DEF Init, StartupInit
<1>2. StartupTypeOK
  <2>1. file \in Files
    BY <1>1 DEF Settled
  <2>2. boot \in [Procs -> Starting] /\ \A p \in Procs : boot[p].cur <= Newest[p]
    BY <1>1, BinariesAssumption DEF Starting, Phases
  <2>3. /\ backups \in Seq([by : Procs, n : Nat])
        /\ taken \in [Procs -> SUBSET [by : Procs, n : Nat]]
    BY <1>1
  <2>. QED  BY <2>1, <2>2, <2>3 DEF StartupTypeOK
<1>3. 1..0 = {} /\ "down" \notin Opened /\ "down" \notin Upgrading
  BY DEF Opened, Rebuilding, Upgrading
<1>4. AppliedInv
  BY <1>1, <1>3 DEF AppliedInv, Settled
<1>5. LoneInv
  BY <1>1, <1>2, <1>3, FileTyped DEF LoneInv, Settled
<1>6. VectorInv
  <2>1. file.vec = "none" => file.dims = 0 /\ 1 \notin file.applied
    BY <1>1, <1>3 DEF Settled
  <2>. QED  BY <1>1, <2>1, BinariesAssumption DEF VectorInv, Rebuilding
<1>7. BackupInv
  BY <1>1 DEF BackupInv
<1>. QED  BY <1>2, <1>4, <1>5, <1>6, <1>7 DEF StartupInv

\* The invariant of starting is inductive.
LEMMA StartupKept ==
  ASSUME StartupInv, [Next]_vars
  PROVE  StartupInv'
BY StartupSteps, StartupTypes, AppliedKept, LoneKept, VectorKept, BackupsKept DEF StartupInv

\* It holds in every state of the server.
LEMMA StartupHolds == Spec => []StartupInv
BY StartupBegins, StartupKept, PTL DEF Spec

\* The invariant implies both properties.
LEMMA StartupInvSound ==
  ASSUME StartupInv
  PROVE  StartupSound /\ VectorsRecoverable
<1>1. SchemaHonest
  BY DEF StartupInv, AppliedInv, SchemaHonest, At, Opened
<1>2. BlockedOnlyByOverlap
  <2>1. file.version \in Nat /\ file.applied \in SUBSET Nat
    BY FileTyped DEF StartupInv
  <2>. QED  BY <2>1 DEF StartupInv, LoneInv, BlockedOnlyByOverlap, Blocked
<1>3. BackupKept
  BY DEF StartupInv, BackupInv, Kept, BackupKept, At
<1>4. VectorsRecoverable
  BY DEF StartupInv, VectorInv, VectorsRecoverable
<1>. QED  BY <1>1, <1>2, <1>3, <1>4 DEF StartupInv, StartupSound

\* However many processes start, crash and serve on one file: the version never
\* claims more than the schema holds, nobody serves a half-migrated file, only
\* overlapping upgrades can block a start, and the backup of an upgrade is there
\* while it runs, unless another's failed under the same name.
THEOREM StartingIsSound == Spec => []StartupSound
BY StartupHolds, StartupInvSound, PTL

\* Recorded dimensions have their vector table, unless two rebuilds clashed.
THEOREM VectorsAreRecoverable == Spec => []VectorsRecoverable
BY StartupHolds, StartupInvSound, PTL

------------------------------------------------------------------------------

(***************************************************************************)
(* What a step of the server does to the listener.                         *)
(***************************************************************************)
Kinds == {"stream", "delete", "resume"}

Handles ==
  \E r \in Reqs :
    \/ \E methods : Probe(r, methods)
    \/ Register(r) \/ BuildFails(r) \/ Answer(r)
    \/ \E x \in Streams : OpenStream(r, x)
    \/ CloseSession(r) \/ EndStream(r)
    \/ \E s \in Reqs : \E e \in ToSet(log[s]) : Resume(r, e.id)
    \/ ReplayStep(r)

SessionNext ==
  \/ \E r, s : \E u \in Users, kind \in Kinds : Arrive(r, u, s, kind)
  \/ \E s \in Reqs, x \in Streams : Emit(s, x)
  \/ SessionTick \/ Handles \/ CleanUp \/ Sweep \/ Shutdown \/ Dispose \/ Clear
  \/ Forget
  \/ UNCHANGED sessionVars

\* Every step of the server is one of the listener's, ends it, or leaves it alone.
LEMMA SessionSteps ==
  ASSUME [Next]_vars
  PROVE  SessionNext
<1>1. CASE Start \/ Index
  BY <1>1 DEF Start, Index, SessionNext
<1>2. CASE Die \/ Exit
  BY <1>2 DEF Die, Exit, SessionNext
<1>3. CASE Serve
  <2>1. CASE \E u \in Users, s \in {NoReq} \cup DOMAIN sess,
                kind \in {"stream", "delete", "resume"} : Arrive(Slot, u, s, kind)
    BY <2>1 DEF SessionNext, Kinds
  <2>2. CASE \E s \in Reqs, x \in Streams : Emit(s, x)
    BY <2>2 DEF SessionNext
  <2>3. CASE SessionTick \/ CleanUp \/ Sweep \/ Shutdown \/ Dispose \/ Clear
    BY <2>3 DEF SessionNext
  <2>4. CASE \E r \in Reqs :
                \/ \E methods \in SUBSET {"initialize", "other"} : Probe(r, methods)
                \/ Register(r) \/ BuildFails(r) \/ Answer(r)
                \/ \E x \in Streams : OpenStream(r, x)
                \/ CloseSession(r) \/ EndStream(r)
                \/ \E s \in Reqs : \E e \in ToSet(log[s]) : Resume(r, e.id)
                \/ ReplayStep(r)
    BY <2>4 DEF SessionNext, Handles
  <2> QED BY <1>3, <2>1, <2>2, <2>3, <2>4 DEF Serve
<1>4. CASE UNCHANGED vars
  BY <1>4 DEF vars, SessionNext
<1> QED BY <1>1, <1>2, <1>3, <1>4 DEF Next

(***************************************************************************)
(* Types.                                                                  *)
(***************************************************************************)
Named == {"following", "streaming", "replaying"}

\* What the phase of a request says of its other fields.
LEMMA RequestIs ==
  ASSUME NEW q \in Requests
  PROVE  /\ q.phase \in {"unsent", "over", "probing", "building", "registered"} \cup Named
         /\ q.phase \notin {"unsent", "over"} => q.user \in Users
         /\ q.phase \in Named => q.sid \in Reqs
         /\ q.phase = "following" => q.kind \in Kinds
         /\ q.phase \in {"streaming", "replaying"} => q.stream \in Streams
         /\ q.phase = "replaying" => /\ q.from \in Nat /\ q.pos \in Nat
                                     /\ q.out \in Seq(Nat) /\ q.lost \in SUBSET Nat
  BY DEF Requests, Named, Kinds

\* The requests the actions make.
LEMMA RequestMade ==
  /\ Over \in Requests
  /\ \A ph \in {"probing", "building", "registered"}, u \in Users :
       [phase |-> ph, user |-> u] \in Requests
  /\ \A u \in Users, s \in Reqs, k \in Kinds :
       [phase |-> "following", user |-> u, sid |-> s, kind |-> k] \in Requests
  /\ \A u \in Users, s \in Reqs, x \in Streams :
       [phase |-> "streaming", user |-> u, sid |-> s, stream |-> x] \in Requests
  /\ \A u \in Users, s \in Reqs, x \in Streams, f, p \in Nat, o \in Seq(Nat),
        l \in SUBSET Nat :
       [phase |-> "replaying", user |-> u, sid |-> s, stream |-> x, from |-> f,
        pos |-> p, out |-> o, lost |-> l] \in Requests
  BY DEF Requests, Over, Kinds

Asked == req \in [Reqs -> Requests]

\* A request that changes stays a request.
LEMMA SetOK ==
  ASSUME Asked, NEW r, NEW v \in Requests
  PROVE  Set(r, v) \in [Reqs -> Requests]
  BY DEF Asked, Set

\* So do those whose streams end.
LEMMA CutOK ==
  ASSUME NEW q \in [Reqs -> Requests], NEW gone
  PROVE  Cut(q, gone) \in [Reqs -> Requests]
  BY RequestMade DEF Cut

SessOK(m) ==
  /\ m \in [DOMAIN m -> [user : Users, last : Nat]] /\ DOMAIN m \subseteq Reqs
  /\ \A s \in DOMAIN m : m[s].last <= clock

\* A map without some of its keys.
LEMMA WithoutIs ==
  ASSUME NEW m, NEW gone
  PROVE  /\ DOMAIN Without(m, gone) = DOMAIN m \ gone
         /\ \A s \in DOMAIN m \ gone : Without(m, gone)[s] = m[s]
         /\ Without(m, gone) = [s \in DOMAIN Without(m, gone) |-> Without(m, gone)[s]]
<1>1. Without(m, gone) = [s \in DOMAIN m \ gone |-> m[s]]
  BY DEF Without
<1> QED BY <1>1

\* Sessions removed leave sessions.
LEMMA WithoutOK ==
  ASSUME NEW m, SessOK(m), NEW gone
  PROVE  SessOK(Without(m, gone))
<1> DEFINE w == Without(m, gone)
<1>1. DOMAIN w = DOMAIN m \ gone /\ \A s \in DOMAIN m \ gone : w[s] = m[s]
  BY WithoutIs
<1>2. w = [s \in DOMAIN w |-> w[s]]
  BY WithoutIs
<1>3. \A s \in DOMAIN m : m[s] \in [user : Users, last : Nat]
  BY DEF SessOK
<1> HIDE DEF w
<1>4. \A s \in DOMAIN w : w[s] \in [user : Users, last : Nat]
  BY <1>1, <1>3
<1> QED BY <1>1, <1>2, <1>4 DEF SessOK, w

\* The session was just used.
LEMMA TouchedOK ==
  ASSUME NEW m, SessOK(m), clock \in Nat, NEW s \in DOMAIN m
  PROVE  /\ SessOK([m EXCEPT ![s].last = clock])
         /\ DOMAIN [m EXCEPT ![s].last = clock] = DOMAIN m
         /\ \A t \in DOMAIN m : [m EXCEPT ![s].last = clock][t].user = m[t].user
<1> DEFINE w == [m EXCEPT ![s].last = clock]
<1>1. \A t \in DOMAIN m : m[t] \in [user : Users, last : Nat]
  BY DEF SessOK
<1>2. /\ DOMAIN w = DOMAIN m /\ w = [t \in DOMAIN m |-> w[t]]
      /\ w[s] = [m[s] EXCEPT !.last = clock] /\ \A t \in DOMAIN m : t # s => w[t] = m[t]
  BY DEF SessOK
<1>3. [m[s] EXCEPT !.last = clock] \in [user : Users, last : Nat]
  BY <1>1
<1>4. [m[s] EXCEPT !.last = clock].last = clock /\ [m[s] EXCEPT !.last = clock].user = m[s].user
  BY <1>1
<1> HIDE DEF w
<1>5. \A t \in DOMAIN w : w[t] \in [user : Users, last : Nat] /\ w[t].last <= clock
  BY <1>1, <1>2, <1>3, <1>4 DEF SessOK
<1>6. w \in [DOMAIN w -> [user : Users, last : Nat]]
  BY <1>2, <1>5
<1> QED BY <1>2, <1>4, <1>5, <1>6 DEF SessOK, w

\* A session is registered, again or for the first time.
Registered(m, r) == [s \in DOMAIN m \cup {r} |->
                       IF s = r THEN [user |-> req[r].user, last |-> clock] ELSE m[s]]

\* A session registered is a session.
LEMMA RegisteredOK ==
  ASSUME NEW m, SessOK(m), clock \in Nat, NEW r \in Reqs, req[r].user \in Users
  PROVE  /\ SessOK(Registered(m, r)) /\ DOMAIN Registered(m, r) = DOMAIN m \cup {r}
         /\ Registered(m, r)[r].user = req[r].user
         /\ \A t \in DOMAIN m : t # r => Registered(m, r)[t] = m[t]
<1> DEFINE w == Registered(m, r)
<1>1. \A t \in DOMAIN m : m[t] \in [user : Users, last : Nat] /\ m[t].last <= clock
  BY DEF SessOK
<1>2. /\ DOMAIN w = DOMAIN m \cup {r} /\ w = [t \in DOMAIN m \cup {r} |-> w[t]]
      /\ w[r] = [user |-> req[r].user, last |-> clock]
      /\ \A t \in DOMAIN m : t # r => w[t] = m[t]
  BY DEF Registered
<1> HIDE DEF w
<1>3. \A t \in DOMAIN w : w[t] \in [user : Users, last : Nat] /\ w[t].last <= clock
  BY <1>1, <1>2
<1>4. w \in [DOMAIN w -> [user : Users, last : Nat]]
  BY <1>2, <1>3
<1> QED BY <1>2, <1>3, <1>4 DEF SessOK, w

\* No sessions are sessions too.
LEMMA NoSessOK == SessOK(<<>>) /\ DOMAIN <<>> = {}
  BY DEF SessOK

\* The end of a sequence.
LEMMA LastOfIs ==
  ASSUME NEW E, NEW s \in Seq(E), NEW n \in Nat
  PROVE  /\ LastOf(s, n) \in Seq(E)
         /\ Len(LastOf(s, n)) = IF Len(s) > n THEN n ELSE Len(s)
         /\ \A i \in 1 .. Len(LastOf(s, n)) :
              LastOf(s, n)[i] = s[Len(s) - Len(LastOf(s, n)) + i]
<1>1. Len(s) \in Nat
  OBVIOUS
<1>2. CASE Len(s) > n
  <2> DEFINE a == Len(s) - n + 1
  <2>1. a \in 1 .. Len(s) + 1 /\ LastOf(s, n) = SubSeq(s, a, Len(s))
    BY <1>1, <1>2 DEF LastOf
  <2>2. \A i \in a .. Len(s) : s[i] \in E
    BY <2>1, ElementOfSeq
  <2>3. /\ SubSeq(s, a, Len(s)) \in Seq(E)
        /\ Len(SubSeq(s, a, Len(s))) = IF a <= Len(s) THEN Len(s) - a + 1 ELSE 0
        /\ \A i \in 1 .. Len(s) - a + 1 : SubSeq(s, a, Len(s))[i] = s[a + i - 1]
    BY <1>1, <2>1, SubSeqProperties
  <2>4. Len(s) - a + 1 = n /\ a <= Len(s) + 1 /\ (a <= Len(s) <=> n > 0)
    BY <1>1, <1>2
  <2>5. Len(LastOf(s, n)) = n
    BY <2>1, <2>3, <2>4
  <2>6. ASSUME NEW i \in 1 .. n PROVE LastOf(s, n)[i] = s[Len(s) - n + i]
    <3>1. a + i - 1 = Len(s) - n + i
      BY <1>1
    <3> QED BY <2>1, <2>3, <2>4, <3>1
  <2> QED BY <1>2, <2>1, <2>3, <2>5, <2>6
<1>3. CASE ~(Len(s) > n)
  BY <1>1, <1>3 DEF LastOf
<1> QED BY <1>2, <1>3

(***************************************************************************)
(* The types are kept.                                                     *)
(***************************************************************************)
Event == [id : Nat, stream : Streams]

TInv ==
  /\ SessOK(sess) /\ Asked
  /\ live \subseteq Reqs /\ late \subseteq Reqs
  /\ stop \in {"up", "waiting", "disposing", "draining"}
  /\ log \in [Reqs -> Seq(Event)] /\ \A s \in Reqs : Len(log[s]) <= MaxEvents
  /\ stored \in [Reqs -> Seq(Streams)]
  /\ clock \in Nat /\ peak \in [Users -> Nat]

\* The types the proofs use are the type invariant the runs check.
LEMMA TInvMeans ==
  ASSUME TInv
  PROVE  RequestsTypeOK
  BY DEF TInv, RequestsTypeOK, SessOK, Asked, Event

\* A request that is somewhere is one of the slots.
LEMMA PhaseOf ==
  ASSUME TInv, NEW r \in Reqs
  PROVE  req[r] \in Requests
  BY DEF TInv, Asked

\* A map of sessions as the next one.
LEMMA SessIs ==
  ASSUME NEW m, SessOK(m), sess' = m, clock' = clock
  PROVE  SessOK(sess)'
  BY DEF SessOK

\* Whoever follows a session named one that was there.
LEMMA SessKept ==
  ASSUME TInv, SessionNext
  PROVE  SessOK(sess)'
<1>1. SessOK(sess) /\ clock \in Nat
  BY DEF TInv
<1>2. CASE UNCHANGED <<sess, clock>>
  BY <1>1, <1>2, SessIs
<1>3. ASSUME NEW s \in DOMAIN sess, sess' = [sess EXCEPT ![s].last = clock], clock' = clock
      PROVE  SessOK(sess)'
  BY <1>1, <1>3, TouchedOK, SessIs
<1>4. ASSUME NEW gone, sess' = Without(sess, gone), clock' = clock
      PROVE  SessOK(sess)'
  BY <1>1, <1>4, WithoutOK, SessIs
<1>5. ASSUME NEW r, NEW s, NEW u \in Users, NEW kind \in Kinds, Arrive(r, u, s, kind)
      PROVE  SessOK(sess)'
  BY <1>2, <1>3, <1>5 DEF Arrive
<1>6. ASSUME NEW s \in Reqs, NEW x \in Streams, Emit(s, x)
      PROVE  SessOK(sess)'
  BY <1>2, <1>3, <1>6 DEF Emit
<1>7. CASE SessionTick
  BY <1>1, <1>7 DEF SessionTick, SessOK
<1>8. ASSUME NEW r \in Reqs, Register(r)
      PROVE  SessOK(sess)'
  <2>1. req[r].user \in Users
    BY <1>8, PhaseOf, RequestIs DEF Register
  <2>2. sess' = Registered(sess, r) /\ clock' = clock
    BY <1>8 DEF Register, Registered
  <2> QED BY <1>1, <2>1, <2>2, RegisteredOK, SessIs
<1>9. ASSUME NEW r \in Reqs, ReplayStep(r)
      PROVE  SessOK(sess)'
  BY <1>2, <1>3, <1>9 DEF ReplayStep
<1>10. CASE Handles
  BY <1>2, <1>4, <1>8, <1>9, <1>10
     DEF Handles, Probe, BuildFails, Answer, OpenStream, CloseSession, EndStream, Resume
<1>11. CASE Sweep
  BY <1>4, <1>11 DEF Sweep
<1>12. CASE Clear \/ Forget
  BY <1>12, NoSessOK, SessIs DEF Clear, Forget
<1> QED BY <1>2, <1>5, <1>6, <1>7, <1>10, <1>11, <1>12
     DEF SessionNext, CleanUp, Shutdown, Dispose, sessionVars

\* Requests stay requests.
LEMMA AskedKept ==
  ASSUME TInv, SessionNext
  PROVE  Asked'
<1>1. Asked /\ \A r \in Reqs : req[r] \in Requests
  BY PhaseOf DEF TInv
<1>2. ASSUME NEW r, NEW v \in Requests, req' = Set(r, v)
      PROVE  Asked'
  BY <1>1, <1>2, SetOK DEF Asked
<1>3. ASSUME NEW r, NEW s, NEW u \in Users, NEW kind \in Kinds, Arrive(r, u, s, kind)
      PROVE  Asked'
  <2>1. s \in DOMAIN sess => s \in Reqs
    BY DEF TInv, SessOK
  <2> QED BY <1>2, <1>3, <2>1, RequestMade DEF Arrive
<1>4. ASSUME NEW s \in Reqs, NEW x \in Streams, Emit(s, x)
      PROVE  Asked'
  <2> DEFINE id == Len(stored[s]) + 1
             all == Append(log[s], [id |-> id, stream |-> x])
             cut == {e \in ToSet(all) : e \notin ToSet(LastOf(all, MaxEvents))}
             lost(r) == req[r].lost \cup {e.id : e \in
                          {f \in cut : f.id > req[r].pos /\ f.stream = req[r].stream}}
  <2>1. id \in Nat /\ log[s] \in Seq(Event)
    BY DEF TInv
  <2>2. [id |-> id, stream |-> x] \in Event
    BY <2>1 DEF Event
  <2>3. all \in Seq(Event)
    BY <2>1, <2>2
  <2>4. \A e \in cut : e.id \in Nat
    <3>1. \A i \in DOMAIN all : all[i] \in Event
      BY <2>3
    <3> QED BY <3>1 DEF ToSet, Event
  <2>5. req' = [r \in Reqs |-> IF req[r].phase = "replaying" /\ req[r].sid = s
                               THEN [req[r] EXCEPT !.lost = lost(r)] ELSE req[r]]
    BY <1>4 DEF Emit
  <2> HIDE DEF cut
  <2>6. ASSUME NEW r \in Reqs, req[r].phase = "replaying"
        PROVE  [req[r] EXCEPT !.lost = lost(r)] \in Requests
    <3>1. req[r] \in Requests /\ lost(r) \in SUBSET Nat
      BY <1>1, <2>4, <2>6, RequestIs
    <3> HIDE DEF lost
    <3> QED BY <2>6, <3>1 DEF Requests
  <2> QED BY <1>1, <2>5, <2>6 DEF Asked
<1>5. ASSUME NEW r \in Reqs, NEW v \in Requests, NEW gone, req' = Cut(Set(r, v), gone)
      PROVE  Asked'
  BY <1>1, <1>5, SetOK, CutOK DEF Asked
<1>6. ASSUME NEW gone, req' = Cut(req, gone)
      PROVE  Asked'
  BY <1>1, <1>6, CutOK DEF Asked
<1>7. ASSUME NEW r \in Reqs, NEW methods, Probe(r, methods)
      PROVE  Asked'
  BY <1>1, <1>2, <1>7, RequestIs, RequestMade DEF Probe
<1>8. ASSUME NEW r \in Reqs, Register(r)
      PROVE  Asked'
  <2>1. [req[r] EXCEPT !.phase = "registered"] \in Requests
    BY <1>1, <1>8 DEF Register, Requests
  <2> QED BY <1>2, <1>8, <2>1 DEF Register
<1>9. ASSUME NEW r \in Reqs, BuildFails(r) \/ Answer(r) \/ EndStream(r)
      PROVE  Asked'
  BY <1>2, <1>9, RequestMade DEF BuildFails, Answer, EndStream
<1>10. ASSUME NEW r \in Reqs, NEW x \in Streams, OpenStream(r, x)
      PROVE  Asked'
  <2>1. req[r].sid \in Reqs /\ req[r].user \in Users
    BY <1>1, <1>10, RequestIs DEF OpenStream, Following, Named
  <2> QED BY <1>2, <1>10, <2>1, RequestMade DEF OpenStream
<1>11. ASSUME NEW r \in Reqs, CloseSession(r)
       PROVE  Asked'
  BY <1>5, <1>11, RequestMade DEF CloseSession
<1>12. ASSUME NEW r \in Reqs, NEW s \in Reqs, NEW e \in ToSet(log[s]), Resume(r, e.id)
       PROVE  Asked'
  <2> DEFINE d == req[r].sid
             found == {f \in ToSet(log[d]) : f.id = e.id}
             c == CHOOSE f \in found : TRUE
  <2>1. d \in Reqs /\ req[r].user \in Users
    BY <1>1, <1>12, RequestIs DEF Resume, Following, Named
  <2>2. log[d] \in Seq(Event)
    BY <2>1 DEF TInv
  <2>3. \A f \in ToSet(log[d]) : f \in Event
    BY <2>2 DEF ToSet
  <2>4. found # {} => c \in found
    OBVIOUS
  <2>5. found # {} => c.stream \in Streams /\ e.id \in Nat
    BY <2>3, <2>4 DEF Event
  <2>6. req' = Set(r, IF d \notin live \/ found = {} THEN Over
                      ELSE [phase |-> "replaying", user |-> req[r].user, sid |-> d,
                            stream |-> c.stream, from |-> e.id, pos |-> e.id, out |-> <<>>,
                            lost |-> {}])
    BY <1>12 DEF Resume
  <2> HIDE DEF found, c, d
  <2>7. <<>> \in Seq(Nat) /\ {} \in SUBSET Nat
    OBVIOUS
  <2> QED BY <1>2, <2>1, <2>5, <2>6, <2>7, RequestMade
<1>13. ASSUME NEW r \in Reqs, ReplayStep(r)
       PROVE  Asked'
  <2> DEFINE q == req[r]
  <2>1. /\ q \in Requests /\ q.phase = "replaying" /\ q.sid \in Reqs /\ q.user \in Users
        /\ q.stream \in Streams /\ q.out \in Seq(Nat)
    BY <1>1, <1>13, RequestIs DEF ReplayStep, Named
  <2>2. \A e \in Ahead(q) : e.id \in Nat
    <3>1. log[q.sid] \in Seq(Event)
      BY <2>1 DEF TInv
    <3>2. \A e \in ToSet(log[q.sid]) : e \in Event
      BY <3>1 DEF ToSet
    <3> HIDE DEF q
    <3> QED BY <3>2 DEF Ahead, Event
  <2>3. ASSUME NEW n \in Nat
        PROVE  [q EXCEPT !.pos = n, !.out = Append(@, n)] \in Requests
    <3>1. Append(q.out, n) \in Seq(Nat)
      BY <2>1
    <3> HIDE DEF q
    <3> DEFINE Replays == [phase : {"replaying"}, user : Users, sid : Reqs,
                           stream : Streams, from : Nat, pos : Nat, out : Seq(Nat),
                           lost : SUBSET Nat]
    <3>2. q \in Replays
      BY <2>1 DEF Requests
    <3>3. [q EXCEPT !.pos = n, !.out = Append(q.out, n)] \in Replays
      BY <3>1, <3>2
    <3>4. Replays \subseteq Requests
      BY DEF Requests
    <3> HIDE DEF Replays
    <3> QED BY <3>3, <3>4
  <2>4. [phase |-> "streaming", user |-> q.user, sid |-> q.sid, stream |-> q.stream]
          \in Requests
    BY <2>1, RequestMade
  <2> QED BY <1>2, <1>13, <2>2, <2>3, <2>4 DEF ReplayStep
<1>14. CASE Handles
  BY <1>7, <1>8, <1>9, <1>10, <1>11, <1>12, <1>13, <1>14 DEF Handles
<1>15. CASE Forget
  BY <1>1, <1>15, RequestMade DEF Forget, Asked
<1>16. CASE UNCHANGED req
  BY <1>1, <1>16 DEF Asked
<1> QED BY <1>3, <1>4, <1>6, <1>14, <1>15, <1>16
     DEF SessionNext, CleanUp, Shutdown, Dispose, Sweep, Clear, SessionTick, sessionVars

\* An event stored: the log stays a log.
LEMMA LogKept ==
  ASSUME TInv, SessionNext
  PROVE  /\ log' \in [Reqs -> Seq(Event)] /\ \A s \in Reqs : Len(log'[s]) <= MaxEvents
         /\ stored' \in [Reqs -> Seq(Streams)]
<1>1. /\ log \in [Reqs -> Seq(Event)] /\ \A s \in Reqs : Len(log[s]) <= MaxEvents
      /\ stored \in [Reqs -> Seq(Streams)] /\ MaxEvents \in Nat
  BY SessionsAssumption DEF TInv
<1>2. CASE UNCHANGED <<log, stored>>
  BY <1>1, <1>2
<1>3. ASSUME NEW s \in Reqs, NEW x \in Streams, Emit(s, x)
      PROVE  /\ log' \in [Reqs -> Seq(Event)] /\ \A t \in Reqs : Len(log'[t]) <= MaxEvents
             /\ stored' \in [Reqs -> Seq(Streams)]
  <2> DEFINE id == Len(stored[s]) + 1
             all == Append(log[s], [id |-> id, stream |-> x])
  <2>1. log[s] \in Seq(Event) /\ stored[s] \in Seq(Streams)
    BY <1>1
  <2>2. [id |-> id, stream |-> x] \in Event
    BY <2>1 DEF Event
  <2>3. all \in Seq(Event) /\ Append(stored[s], x) \in Seq(Streams)
    BY <2>1, <2>2
  <2>4. LastOf(all, MaxEvents) \in Seq(Event) /\ Len(LastOf(all, MaxEvents)) <= MaxEvents
    <3>1. Len(all) \in Nat
      BY <2>3
    <3> HIDE DEF all
    <3> QED BY <1>1, <2>3, <3>1, LastOfIs
  <2>5. /\ log' = [log EXCEPT ![s] = LastOf(all, MaxEvents)]
        /\ stored' = [stored EXCEPT ![s] = Append(stored[s], x)]
    BY <1>3 DEF Emit
  <2> HIDE DEF all
  <2> QED BY <1>1, <2>3, <2>4, <2>5
<1>4. CASE Forget
  BY <1>1, <1>4 DEF Forget
<1> QED BY <1>2, <1>3, <1>4
     DEF SessionNext, Arrive, SessionTick, Handles, Probe, Register, BuildFails, Answer,
         OpenStream, CloseSession, EndStream, Resume, ReplayStep, CleanUp, Sweep, Shutdown,
         Dispose, Clear, sessionVars

\* A peak is a number of requests.
LEMMA PeakKept ==
  ASSUME TInv, SessionNext
  PROVE  clock' \in Nat /\ peak' \in [Users -> Nat]
<1>1. clock \in Nat /\ peak \in [Users -> Nat] /\ IsFiniteSet(Reqs)
  BY SessionsAssumption DEF TInv
<1>2. ASSUME NEW r \in Reqs, NEW methods, Probe(r, methods)
      PROVE  peak' \in [Users -> Nat]
  <2> DEFINE u == req[r].user
             n == Cardinality(Building(u)) + 1
  <2>1. Building(u) \subseteq Reqs
    BY DEF Building
  <2>2. n \in Nat
    BY <1>1, <2>1, FS_Subset, FS_CardinalityType
  <2>3. peak' = peak \/ peak' = [peak EXCEPT ![u] = IF n > peak[u] THEN n ELSE peak[u]]
    BY <1>2 DEF Probe
  <2> HIDE DEF n
  <2> QED BY <1>1, <2>2, <2>3
<1>3. CASE Forget
  BY <1>1, <1>3 DEF Forget
<1>4. CASE SessionTick
  BY <1>1, <1>4 DEF SessionTick
<1>5. CASE Handles
  BY <1>1, <1>2, <1>5
     DEF Handles, Probe, Register, BuildFails, Answer, OpenStream, CloseSession, EndStream,
         Resume, ReplayStep
<1> QED BY <1>1, <1>3, <1>4, <1>5
     DEF SessionNext, Arrive, Emit, CleanUp, Sweep, Shutdown, Dispose, Clear, sessionVars

\* The rest of the memory of a listener.
LEMMA LiveKept ==
  ASSUME TInv, SessionNext
  PROVE  /\ live' \subseteq Reqs /\ late' \subseteq Reqs
         /\ stop' \in {"up", "waiting", "disposing", "draining"}
<1>1. CASE Handles
  BY <1>1 DEF TInv, Handles, Probe, Register, BuildFails, Answer, Late, OpenStream,
         CloseSession, EndStream, Resume, ReplayStep
<1>2. CASE (\E r, s : \E u \in Users, kind \in Kinds : Arrive(r, u, s, kind)) \/ CleanUp
           \/ (\E s \in Reqs, x \in Streams : Emit(s, x)) \/ UNCHANGED sessionVars
  <2>1. UNCHANGED <<live, late, stop>>
    BY <1>2 DEF Arrive, Emit, CleanUp, sessionVars
  <2> QED BY <2>1 DEF TInv
<1>3. CASE SessionTick \/ Sweep
  BY <1>3 DEF TInv, SessionTick, Sweep
<1>4. CASE Shutdown \/ Dispose
  BY <1>4 DEF TInv, Shutdown, Dispose
<1>5. CASE Clear \/ Forget
  BY <1>5 DEF TInv, Clear, Forget
<1> QED BY <1>1, <1>2, <1>3, <1>4, <1>5 DEF SessionNext

\* The types are inductive.
LEMMA TInvKept ==
  ASSUME TInv, SessionNext
  PROVE  TInv'
<1>1. SessOK(sess)' /\ Asked'
  BY SessKept, AskedKept
<1> QED BY <1>1, LogKept, PeakKept, LiveKept DEF TInv

\* They hold of a listener that has just started.
LEMMA TInvBegins ==
  ASSUME SessionsInit
  PROVE  TInv
<1>1. \A s \in Reqs : log[s] = <<>>
  BY DEF SessionsInit
<1>2. SessOK(sess)
  BY NoSessOK DEF SessionsInit
<1>3. Asked
  BY DEF SessionsInit, Asked, Requests, Unsent
<1>4. /\ log \in [Reqs -> Seq(Event)] /\ stored \in [Reqs -> Seq(Streams)]
      /\ \A s \in Reqs : Len(log[s]) <= MaxEvents
  BY <1>1, SessionsAssumption DEF SessionsInit
<1> QED BY <1>2, <1>3, <1>4 DEF TInv, SessionsInit

(***************************************************************************)
(* What stop() leaves (LeakedOnlyIfLate).                                  *)
(***************************************************************************)
\* A pair is alive while its initialize is on its way, and then as long as the
\* map of sessions has it; or it was answered while stop() was at its end.
LiveInv ==
  \A s \in live :
    /\ req[s].phase \in {"building", "registered", "over"}
    /\ req[s].phase = "over" =>
         /\ stop \in {"up", "waiting"} => s \in DOMAIN sess
         /\ stop = "disposing" => s \in late
         /\ stop = "draining" => s \in late \/ s \in DOMAIN sess

\* The requests that hold a pair are as they were, and so is what keeps it.
LEMMA LiveStands ==
  ASSUME TInv, LiveInv, live' \subseteq live, late \subseteq late', stop' = stop,
         \A s \in live' : req'[s] = req[s],
         \A s \in live' : s \in DOMAIN sess => s \in DOMAIN sess'
  PROVE  LiveInv'
  BY DEF LiveInv

\* Ending streams leaves the requests that hold a pair alone.
LEMMA CutSpares ==
  ASSUME NEW q \in [Reqs -> Requests], NEW gone, NEW s \in Reqs,
         q[s].phase \in {"building", "registered", "over"}
  PROVE  Cut(q, gone)[s] = q[s]
  BY DEF Cut

\* Pairs stay accounted for, whatever is disposed or swept.
LEMMA LiveInvKept ==
  ASSUME TInv, LiveInv, SessionNext
  PROVE  LiveInv'
<1>1. /\ req \in [Reqs -> Requests] /\ live \subseteq Reqs
      /\ \A s \in live : req[s].phase \in {"building", "registered", "over"}
  BY DEF TInv, Asked, LiveInv
<1>2. ASSUME NEW r, NEW v, req[r].phase \notin {"building", "registered", "over"},
             req' = Set(r, v), UNCHANGED <<live, late, stop>>, DOMAIN sess' = DOMAIN sess
      PROVE  LiveInv'
  <2>1. \A s \in live : s # r /\ req'[s] = req[s]
    BY <1>1, <1>2 DEF Set
  <2> QED BY <1>2, <2>1, LiveStands
<1>3. ASSUME NEW r, NEW s, NEW u \in Users, NEW kind \in Kinds, Arrive(r, u, s, kind)
      PROVE  LiveInv'
  <2>1. DOMAIN sess' = DOMAIN sess
    BY <1>3 DEF Arrive
  <2>2. PICK v : req' = Set(r, v)
    BY <1>3 DEF Arrive
  <2> QED BY <1>2, <1>3, <2>1, <2>2 DEF Arrive
<1>4. ASSUME NEW s \in Reqs, NEW x \in Streams, Emit(s, x)
      PROVE  LiveInv'
  <2>1. \A t \in live : req'[t] = req[t]
    BY <1>1, <1>4 DEF Emit
  <2>2. DOMAIN sess' = DOMAIN sess /\ UNCHANGED <<live, late, stop>>
    BY <1>4 DEF Emit
  <2> QED BY <2>1, <2>2, LiveStands
<1>5. ASSUME NEW r \in Reqs, NEW methods, Probe(r, methods)
      PROVE  LiveInv'
  <2>1. CASE live' = live
    <3>1. PICK v : req' = Set(r, v)
      BY <1>5 DEF Probe
    <3> QED BY <1>2, <1>5, <2>1, <3>1 DEF Probe
  <2>2. CASE live' = live \cup {r} /\ req' = Set(r, [phase |-> "building", user |-> req[r].user])
    <3>1. req'[r].phase = "building" /\ \A s \in live \ {r} : req'[s] = req[s]
      BY <1>1, <2>2 DEF Set
    <3>2. UNCHANGED <<sess, late, stop>>
      BY <1>5 DEF Probe
    <3> QED BY <2>2, <3>1, <3>2 DEF LiveInv
  <2> QED BY <1>5, <2>1, <2>2 DEF Probe
<1>6. ASSUME NEW r \in Reqs, Register(r)
      PROVE  LiveInv'
  <2>1. req'[r].phase = "registered" /\ \A s \in Reqs \ {r} : req'[s] = req[s]
    <3>1. req[r] \in Requests /\ req[r].phase = "building"
      BY <1>1, <1>6 DEF Register
    <3>2. [req[r] EXCEPT !.phase = "registered"].phase = "registered"
      BY <3>1 DEF Requests
    <3> QED BY <1>1, <1>6, <3>2 DEF Register, Set
  <2>2. UNCHANGED <<live, late, stop>> /\ DOMAIN sess' = DOMAIN sess \cup {r}
    BY <1>6 DEF Register
  <2> QED BY <1>1, <2>1, <2>2 DEF LiveInv
<1>7. ASSUME NEW r \in Reqs, BuildFails(r)
      PROVE  LiveInv'
  <2>1. /\ live' = live \ {r} /\ UNCHANGED <<sess, late, stop>>
        /\ \A s \in Reqs \ {r} : req'[s] = req[s]
    BY <1>1, <1>7 DEF BuildFails, Set
  <2> QED BY <1>1, <2>1, LiveStands
<1>8. ASSUME NEW r \in Reqs, Answer(r)
      PROVE  LiveInv'
  <2>1. /\ UNCHANGED <<sess, stop>> /\ late \subseteq late'
        /\ stop = "disposing" => r \in late'
        /\ live' = IF r \in DOMAIN sess THEN live ELSE live \ {r}
        /\ req'[r] = Over /\ \A s \in Reqs \ {r} : req'[s] = req[s]
    BY <1>1, <1>8 DEF Answer, Set, Late
  <2>2. Over.phase = "over"
    BY DEF Over
  <2> QED BY <1>1, <2>1, <2>2 DEF LiveInv, TInv
<1>9. ASSUME NEW r \in Reqs, NEW x \in Streams, OpenStream(r, x)
      PROVE  LiveInv'
  <2>1. PICK v : req' = Set(r, v)
    BY <1>9 DEF OpenStream
  <2> QED BY <1>2, <1>9, <2>1 DEF OpenStream, Following
<1>10. ASSUME NEW r \in Reqs, CloseSession(r)
      PROVE  LiveInv'
  <2> DEFINE d == req[r].sid
  <2>1. /\ live' = live \ {d} /\ DOMAIN sess' = DOMAIN sess \ {d}
        /\ UNCHANGED <<late, stop>> /\ req' = Cut(Set(r, Over), {d})
    BY <1>10, WithoutIs DEF CloseSession
  <2>2. Set(r, Over) \in [Reqs -> Requests] /\ \A s \in live : Set(r, Over)[s] = req[s]
    BY <1>1, <1>10, SetOK, RequestMade DEF CloseSession, Following, Set, Asked
  <2>3. \A s \in live : req'[s] = req[s]
    BY <1>1, <2>1, <2>2, CutSpares
  <2> QED BY <2>1, <2>3, LiveStands
<1>11. ASSUME NEW r \in Reqs, EndStream(r) \/ ReplayStep(r)
       PROVE  LiveInv'
  <2>1. PICK v : req' = Set(r, v)
    BY <1>11 DEF EndStream, ReplayStep
  <2>2. DOMAIN sess' = DOMAIN sess
    BY <1>11 DEF EndStream, ReplayStep
  <2>3. UNCHANGED <<live, late, stop>> /\ req[r].phase \in {"streaming", "replaying"}
    BY <1>11 DEF EndStream, ReplayStep, Streaming
  <2> QED BY <1>2, <2>1, <2>2, <2>3
<1>12. ASSUME NEW r \in Reqs, NEW n, Resume(r, n)
       PROVE  LiveInv'
  <2>1. PICK v : req' = Set(r, v)
    BY <1>12 DEF Resume
  <2> QED BY <1>2, <1>12, <2>1 DEF Resume, Following
<1>13. CASE Handles
  BY <1>5, <1>6, <1>7, <1>8, <1>9, <1>10, <1>11, <1>12, <1>13 DEF Handles
<1>14. ASSUME NEW gone, live' = live \ gone, req' = Cut(req, gone), late' = late
       PROVE  /\ live' \subseteq live \ gone /\ \A s \in live' : req'[s] = req[s]
  BY <1>1, <1>14, CutSpares
<1>15. CASE Sweep
  <2>1. PICK gone : /\ live' = live \ gone /\ req' = Cut(req, gone)
                    /\ sess' = Without(sess, gone) /\ UNCHANGED <<stop, late>>
    BY <1>15 DEF Sweep
  <2>2. DOMAIN sess' = DOMAIN sess \ gone
    BY <2>1, WithoutIs
  <2> QED BY <1>14, <2>1, <2>2, LiveStands
<1>16. CASE Dispose
  <2>1. /\ stop = "waiting" /\ stop' = "disposing" /\ live' = live \ DOMAIN sess
        /\ late' = late /\ req' = Cut(req, DOMAIN sess)
    BY <1>16 DEF Dispose
  <2>2. \A s \in live' : s \notin DOMAIN sess /\ req'[s] = req[s]
    BY <1>14, <2>1
  <2>3. \A s \in live' : req'[s].phase \in {"building", "registered"}
    BY <2>1, <2>2 DEF LiveInv
  <2> QED BY <2>3 DEF LiveInv
<1>17. CASE Shutdown \/ Clear
  BY <1>17 DEF Shutdown, Clear, LiveInv
<1>18. CASE UNCHANGED <<live, late, stop, req>> /\ DOMAIN sess' = DOMAIN sess
  BY <1>18, LiveStands
<1>19. CASE Forget
  BY <1>19 DEF Forget, LiveInv
<1> QED BY <1>3, <1>4, <1>13, <1>15, <1>16, <1>17, <1>18, <1>19
     DEF SessionNext, CleanUp, SessionTick, sessionVars

(***************************************************************************)
(* The cap (SessionsCapped).                                               *)
(***************************************************************************)
Excess(n) == IF n > 1 THEN n - 1 ELSE 0

\* What is past the cap already counts: a session that is registered leaves one
\* initialize less on its way.
CapInv ==
  \A u \in Users :
    /\ Cardinality(Building(u)) <= peak[u]
    /\ Cardinality(Of(u)) + Cardinality(Building(u)) <= MaxSessions + Excess(peak[u])

\* Both sets are sets of requests.
LEMMA Counts ==
  ASSUME TInv, NEW u
  PROVE  /\ IsFiniteSet(Of(u)) /\ IsFiniteSet(Building(u))
         /\ Cardinality(Of(u)) \in Nat /\ Cardinality(Building(u)) \in Nat
<1>1. Of(u) \subseteq Reqs /\ Building(u) \subseteq Reqs
  BY DEF Of, Building, TInv, SessOK
<1> QED BY <1>1, SessionsAssumption, FS_Subset, FS_CardinalityType

\* A user's sessions and initializes do not grow in number.
LEMMA CapStands ==
  ASSUME TInv, CapInv, peak' = peak,
         \A u \in Users : Of(u)' \subseteq Of(u) /\ Building(u)' \subseteq Building(u)
  PROVE  CapInv'
<1> SUFFICES ASSUME NEW u \in Users
             PROVE  /\ Cardinality(Building(u)') <= peak'[u]
                    /\ Cardinality(Of(u)') + Cardinality(Building(u)')
                         <= MaxSessions + Excess(peak'[u])
  BY DEF CapInv
<1>1. /\ Cardinality(Of(u)') <= Cardinality(Of(u)) /\ Cardinality(Of(u)') \in Nat
      /\ Cardinality(Building(u)') <= Cardinality(Building(u))
      /\ Cardinality(Building(u)') \in Nat
  BY Counts, FS_Subset, FS_CardinalityType
<1>2. Cardinality(Of(u)) \in Nat /\ Cardinality(Building(u)) \in Nat
  BY Counts
<1>3. MaxSessions \in Nat /\ Excess(peak[u]) \in Nat /\ peak[u] \in Nat
  BY SessionsAssumption DEF Excess, TInv
<1>4. /\ Cardinality(Building(u)) <= peak[u]
      /\ Cardinality(Of(u)) + Cardinality(Building(u)) <= MaxSessions + Excess(peak[u])
  BY DEF CapInv
<1> QED BY <1>1, <1>2, <1>3, <1>4

\* The cap counts what is past the check; registering moves one across.
LEMMA CapInvKept ==
  ASSUME TInv, CapInv, SessionNext
  PROVE  CapInv'
<1>1. /\ req \in [Reqs -> Requests] /\ SessOK(sess) /\ clock \in Nat
      /\ \A r \in Reqs : Over.phase # "building"
  BY DEF TInv, Asked, Over
<1>2. ASSUME peak' = peak, DOMAIN sess' \subseteq DOMAIN sess,
             \A s \in DOMAIN sess' : sess'[s].user = sess[s].user,
             \A r \in Reqs : req'[r].phase = "building" => req'[r] = req[r]
      PROVE  CapInv'
  <2>1. \A u \in Users : Of(u)' \subseteq Of(u) /\ Building(u)' \subseteq Building(u)
    BY <1>2 DEF Of, Building
  <2> QED BY <1>2, <2>1, CapStands
<1>3. /\ UNCHANGED sess => DOMAIN sess' \subseteq DOMAIN sess
                             /\ \A s \in DOMAIN sess' : sess'[s].user = sess[s].user
      /\ \A s \in DOMAIN sess : sess' = [sess EXCEPT ![s].last = clock] =>
           DOMAIN sess' \subseteq DOMAIN sess /\ \A t \in DOMAIN sess' : sess'[t].user = sess[t].user
      /\ \A gone : sess' = Without(sess, gone) =>
           DOMAIN sess' \subseteq DOMAIN sess /\ \A t \in DOMAIN sess' : sess'[t].user = sess[t].user
  <2>1. ASSUME NEW s \in DOMAIN sess, sess' = [sess EXCEPT ![s].last = clock]
        PROVE  DOMAIN sess' \subseteq DOMAIN sess /\ \A t \in DOMAIN sess' : sess'[t].user = sess[t].user
    BY <1>1, <2>1, TouchedOK
  <2>2. ASSUME NEW gone, sess' = Without(sess, gone)
        PROVE  DOMAIN sess' \subseteq DOMAIN sess /\ \A t \in DOMAIN sess' : sess'[t].user = sess[t].user
    <3>1. /\ DOMAIN Without(sess, gone) = DOMAIN sess \ gone
          /\ \A s \in DOMAIN sess \ gone : Without(sess, gone)[s] = sess[s]
      BY WithoutIs
    <3> QED BY <2>2, <3>1
  <2> QED BY <2>1, <2>2
<1>4. ASSUME NEW r, NEW v, v.phase # "building", req' = Set(r, v)
      PROVE  \A q \in Reqs : req'[q].phase = "building" => req'[q] = req[q]
  BY <1>1, <1>4 DEF Set
<1>5. ASSUME NEW r, NEW s, NEW u \in Users, NEW kind \in Kinds, Arrive(r, u, s, kind)
      PROVE  CapInv'
  <2>1. \A q \in Reqs : req'[q].phase = "building" => req'[q] = req[q]
    <3>1. PICK v : v.phase # "building" /\ req' = Set(r, v)
      BY <1>5 DEF Arrive, Over
    <3> QED BY <1>4, <3>1
  <2>2. /\ peak' = peak
        /\ \/ UNCHANGED sess
           \/ s \in DOMAIN sess /\ sess' = [sess EXCEPT ![s].last = clock]
    BY <1>5 DEF Arrive
  <2> QED BY <1>2, <1>3, <2>1, <2>2
<1>6. ASSUME NEW s \in Reqs, NEW x \in Streams, Emit(s, x)
      PROVE  CapInv'
  <2>1. ASSUME NEW q \in Reqs, req'[q].phase = "building"
        PROVE  req'[q] = req[q]
    <3>1. CASE req[q].phase = "replaying" /\ req[q].sid = s
      <4>1. PICK l : req'[q] = [req[q] EXCEPT !.lost = l]
        BY <1>6, <3>1 DEF Emit
      <4>2. req[q] \in Requests
        BY <1>1
      <4>3. [req[q] EXCEPT !.lost = l].phase = req[q].phase
        BY <3>1, <4>2 DEF Requests
      <4> QED BY <2>1, <3>1, <4>1, <4>3
    <3>2. CASE ~(req[q].phase = "replaying" /\ req[q].sid = s)
      BY <1>6, <3>2 DEF Emit
    <3> QED BY <3>1, <3>2
  <2>2. peak' = peak /\ s \in DOMAIN sess
          /\ (UNCHANGED sess \/ sess' = [sess EXCEPT ![s].last = clock])
    BY <1>6 DEF Emit
  <2> QED BY <1>2, <1>3, <2>1, <2>2
<1>7. ASSUME NEW r \in Reqs, NEW methods, Probe(r, methods)
      PROVE  CapInv'
  <2> PICK u : u = req[r].user
    OBVIOUS
  <2> DEFINE n == Cardinality(Building(u)) + 1
             made == [phase |-> "building", user |-> u]
  <2>1. sess' = sess /\ req[r].phase = "probing" /\ u \in Users
    <3>1. req[r].phase = "probing" /\ sess' = sess
      BY <1>7 DEF Probe
    <3> QED BY <1>1, <3>1, RequestIs
  <2>2. CASE req' = Set(r, Over) /\ peak' = peak
    BY <1>1, <1>2, <1>3, <1>4, <2>1, <2>2
  <2>3. CASE /\ req' = Set(r, made) /\ ~(Cardinality(Of(u)) >= MaxSessions)
             /\ peak' = [peak EXCEPT ![u] = IF n > peak[u] THEN n ELSE peak[u]]
    <3>1. \A v : Of(v)' = Of(v)
      BY <2>1 DEF Of
    <3>2. r \notin Building(u) /\ Building(u)' = Building(u) \cup {r}
      <4>1. /\ req'[r].phase = "building" /\ req'[r].user = u
            /\ \A q \in Reqs \ {r} : req'[q] = req[q]
        BY <1>1, <2>3 DEF Set
      <4> QED BY <2>1, <4>1 DEF Building
    <3>3. \A v \in Users \ {u} : Building(v)' = Building(v)
      <4>1. req'[r].user = u /\ \A q \in Reqs \ {r} : req'[q] = req[q]
        BY <1>1, <2>3 DEF Set
      <4> QED BY <2>1, <4>1 DEF Building
    <3>4. Cardinality(Building(u)') = n
      BY <3>2, Counts, FS_AddElement
    <3>5. /\ peak \in [Users -> Nat] /\ MaxSessions \in Nat
          /\ \A v : Cardinality(Of(v)) \in Nat /\ Cardinality(Building(v)) \in Nat
      BY Counts, SessionsAssumption DEF TInv
    <3>6. n <= peak'[u] /\ peak'[u] \in Nat /\ n \in Nat /\ n > 0
      BY <2>1, <2>3, <3>5
    <3>7. Cardinality(Of(u)) + n <= MaxSessions + Excess(peak'[u])
      <4> HIDE DEF n
      <4>1. Excess(peak'[u]) = peak'[u] - 1
        BY <3>6 DEF Excess
      <4> QED BY <2>3, <3>5, <3>6, <4>1
    <3>8. \A v \in Users \ {u} : peak'[v] = peak[v]
      BY <2>3, <3>5
    <3> HIDE DEF n
    <3>9. ASSUME NEW v \in Users
          PROVE  /\ Cardinality(Building(v)') <= peak'[v]
                 /\ Cardinality(Of(v)') + Cardinality(Building(v)')
                      <= MaxSessions + Excess(peak'[v])
      <4>1. CASE v = u
        BY <3>1, <3>4, <3>6, <3>7, <4>1
      <4>2. CASE v # u
        BY <3>1, <3>3, <3>8, <4>2 DEF CapInv
      <4> QED BY <4>1, <4>2
    <3> QED BY <3>9 DEF CapInv
  <2> QED BY <1>7, <2>2, <2>3 DEF Probe
<1>8. ASSUME NEW r \in Reqs, Register(r)
      PROVE  CapInv'
  <2> PICK u : u = req[r].user
    OBVIOUS
  <2>1. /\ req[r] \in Requests /\ req[r].phase = "building" /\ u \in Users
        /\ sess' = Registered(sess, r) /\ peak' = peak
    BY <1>1, <1>8, RequestIs DEF Register, Registered
  <2>2. /\ DOMAIN sess' = DOMAIN sess \cup {r} /\ sess'[r].user = u
        /\ \A t \in DOMAIN sess : t # r => sess'[t] = sess[t]
    BY <1>1, <2>1, RegisteredOK
  <2>3. req'[r].phase = "registered" /\ \A q \in Reqs \ {r} : req'[q] = req[q]
    <3>1. [req[r] EXCEPT !.phase = "registered"].phase = "registered"
      BY <2>1 DEF Requests
    <3> QED BY <1>1, <1>8, <3>1 DEF Register, Set
  <2>4. /\ Of(u)' \subseteq Of(u) \cup {r}
        /\ r \in Building(u) /\ Building(u)' \subseteq Building(u) \ {r}
        /\ \A v \in Users : v # u => Of(v)' \subseteq Of(v) /\ Building(v)' \subseteq Building(v)
    <3>1. Of(u)' \subseteq Of(u) \cup {r}
      BY <2>2 DEF Of
    <3>2. r \in Building(u) /\ Building(u)' \subseteq Building(u) \ {r}
      BY <2>1, <2>3 DEF Building
    <3>3. \A v \in Users : v # u => Of(v)' \subseteq Of(v)
      BY <2>2 DEF Of
    <3>4. \A v \in Users : v # u => Building(v)' \subseteq Building(v)
      BY <2>3 DEF Building
    <3> QED BY <3>1, <3>2, <3>3, <3>4
  <2>5. ASSUME NEW v \in Users
        PROVE  /\ Cardinality(Building(v)') <= Cardinality(Building(v))
               /\ Cardinality(Of(v)') + Cardinality(Building(v)')
                    <= Cardinality(Of(v)) + Cardinality(Building(v))
               /\ Cardinality(Of(v)') \in Nat /\ Cardinality(Building(v)') \in Nat
    <3>1. /\ IsFiniteSet(Of(v)) /\ IsFiniteSet(Building(v))
          /\ Cardinality(Of(v)) \in Nat /\ Cardinality(Building(v)) \in Nat
      BY Counts
    <3>2. CASE v # u
      <4>1. Of(v)' \subseteq Of(v) /\ Building(v)' \subseteq Building(v)
        BY <2>4, <3>2
      <4>2. /\ Cardinality(Of(v)') <= Cardinality(Of(v)) /\ IsFiniteSet(Of(v)')
            /\ Cardinality(Building(v)') <= Cardinality(Building(v)) /\ IsFiniteSet(Building(v)')
        BY <3>1, <4>1, FS_Subset
      <4> QED BY <3>1, <4>2, FS_CardinalityType
    <3>3. CASE v = u
      <4>1. /\ Cardinality(Building(v) \ {r}) = Cardinality(Building(v)) - 1
            /\ IsFiniteSet(Building(v) \ {r})
        BY <2>4, <3>1, <3>3, FS_RemoveElement
      <4>2. /\ Cardinality(Of(v) \cup {r}) <= Cardinality(Of(v)) + 1
            /\ IsFiniteSet(Of(v) \cup {r})
        <5>1. /\ Cardinality(Of(v) \cup {r}) = Cardinality(Of(v))
                 \/ Cardinality(Of(v) \cup {r}) = Cardinality(Of(v)) + 1
              /\ IsFiniteSet(Of(v) \cup {r})
          BY <3>1, FS_AddElement
        <5> QED BY <3>1, <5>1
      <4>3. /\ Cardinality(Of(v)') <= Cardinality(Of(v) \cup {r}) /\ IsFiniteSet(Of(v)')
            /\ Cardinality(Building(v)') <= Cardinality(Building(v) \ {r})
            /\ IsFiniteSet(Building(v)')
        BY <2>4, <3>3, <4>1, <4>2, FS_Subset
      <4>4. /\ Cardinality(Of(v)') \in Nat /\ Cardinality(Building(v)') \in Nat
            /\ Cardinality(Of(v) \cup {r}) \in Nat
        BY <4>2, <4>3, FS_CardinalityType
      <4> QED BY <3>1, <4>1, <4>2, <4>3, <4>4
    <3> QED BY <3>2, <3>3
  <2>6. ASSUME NEW v \in Users
        PROVE  /\ Cardinality(Building(v)') <= peak'[v]
               /\ Cardinality(Of(v)') + Cardinality(Building(v)')
                    <= MaxSessions + Excess(peak'[v])
    <3>1. /\ Cardinality(Of(v)) \in Nat /\ Cardinality(Building(v)) \in Nat
          /\ MaxSessions \in Nat /\ peak[v] \in Nat /\ Excess(peak[v]) \in Nat
      BY Counts, SessionsAssumption DEF TInv, Excess
    <3>2. /\ Cardinality(Building(v)) <= peak[v]
          /\ Cardinality(Of(v)) + Cardinality(Building(v)) <= MaxSessions + Excess(peak[v])
      BY DEF CapInv
    <3> QED BY <2>1, <2>5, <3>1, <3>2
  <2> QED BY <2>6 DEF CapInv
<1>9. ASSUME NEW r \in Reqs,
             \/ BuildFails(r) \/ Answer(r) \/ EndStream(r) \/ CloseSession(r)
             \/ \E x \in Streams : OpenStream(r, x)
             \/ \E s \in Reqs : \E e \in ToSet(log[s]) : Resume(r, e.id)
      PROVE  CapInv'
  <2>1. CASE \E v : v.phase # "building" /\ req' = Set(r, v) /\ UNCHANGED <<sess, peak>>
    BY <1>2, <1>3, <1>4, <2>1
  <2>2. CASE CloseSession(r)
    <3>1. \A q \in Reqs : req'[q].phase = "building" => req'[q] = req[q]
      BY <1>1, <2>2 DEF CloseSession, Cut, Set
    <3>2. sess' = Without(sess, {req[r].sid}) /\ peak' = peak
      BY <2>2 DEF CloseSession
    <3> QED BY <1>2, <1>3, <3>1, <3>2
  <2>3. CASE BuildFails(r) \/ Answer(r) \/ EndStream(r)
    BY <1>1, <2>1, <2>3 DEF BuildFails, Answer, EndStream
  <2>4. CASE \E x \in Streams : OpenStream(r, x)
    <3>1. PICK x \in Streams : OpenStream(r, x)
      BY <2>4
    <3>2. UNCHANGED <<sess, peak>>
      BY <3>1 DEF OpenStream
    <3> QED BY <1>1, <2>1, <3>1, <3>2 DEF OpenStream
  <2>5. CASE \E s \in Reqs : \E e \in ToSet(log[s]) : Resume(r, e.id)
    <3>1. PICK n : Resume(r, n)
      BY <2>5
    <3>2. UNCHANGED <<sess, peak>>
      BY <3>1 DEF Resume
    <3> QED BY <1>1, <2>1, <3>1, <3>2 DEF Resume
  <2> QED BY <1>9, <2>2, <2>3, <2>4, <2>5
<1>10. ASSUME NEW r \in Reqs, ReplayStep(r)
      PROVE  CapInv'
  <2>1. /\ peak' = peak
        /\ UNCHANGED sess \/ \E s \in DOMAIN sess : sess' = [sess EXCEPT ![s].last = clock]
    BY <1>10 DEF ReplayStep
  <2>2. ASSUME NEW q \in Reqs, req'[q].phase = "building"
        PROVE  req'[q] = req[q]
    <3> DEFINE o == req[r]
    <3>1. o \in Requests /\ o.phase = "replaying"
      BY <1>1, <1>10 DEF ReplayStep
    <3>2. \A n : [o EXCEPT !.pos = n, !.out = Append(@, n)].phase = "replaying"
      BY <3>1 DEF Requests
    <3>3. PICK v : v.phase # "building" /\ req' = Set(r, v)
      BY <1>10, <3>2 DEF ReplayStep
    <3> QED BY <1>4, <2>2, <3>3
  <2> QED BY <1>2, <1>3, <2>1, <2>2
<1>11. CASE Handles
  BY <1>7, <1>8, <1>9, <1>10, <1>11 DEF Handles
<1>12. CASE Sweep
  <2>1. \A q \in Reqs : req'[q].phase = "building" => req'[q] = req[q]
    BY <1>1, <1>12 DEF Sweep, Cut
  <2>2. peak' = peak /\ \E gone : sess' = Without(sess, gone)
    BY <1>12 DEF Sweep
  <2> QED BY <1>2, <1>3, <2>1, <2>2
<1>13. CASE Dispose
  <2>1. \A q \in Reqs : req'[q].phase = "building" => req'[q] = req[q]
    BY <1>1, <1>13 DEF Dispose, Cut
  <2> QED BY <1>2, <1>3, <1>13, <2>1 DEF Dispose
<1>14. CASE Clear
  BY <1>2, <1>14, NoSessOK DEF Clear
<1>15. CASE Forget
  <2>1. \A u \in Users : Of(u)' = {} /\ Building(u)' = {} /\ peak'[u] = 0
    BY <1>1, <1>15, NoSessOK DEF Forget, Of, Building, InFlight
  <2>2. Cardinality({}) = 0 /\ MaxSessions \in Nat /\ Excess(0) = 0
    BY FS_EmptySet, SessionsAssumption DEF Excess
  <2> QED BY <2>1, <2>2 DEF CapInv
<1>16. CASE UNCHANGED <<sess, req, peak>>
  BY <1>2, <1>3, <1>16
<1> QED BY <1>5, <1>6, <1>11, <1>12, <1>13, <1>14, <1>15, <1>16
     DEF SessionNext, CleanUp, SessionTick, Shutdown, sessionVars

\* What is counted with those on their way bounds the sessions.
LEMMA CapMeans ==
  ASSUME TInv, CapInv
  PROVE  SessionsCapped
<1> SUFFICES ASSUME NEW u \in Users
             PROVE  Cardinality(Of(u)) <= MaxSessions + Excess(peak[u])
  BY DEF SessionsCapped, Excess
<1>1. Cardinality(Of(u)) \in Nat /\ Cardinality(Building(u)) \in Nat
  BY Counts
<1>2. Cardinality(Of(u)) + Cardinality(Building(u)) <= MaxSessions + Excess(peak[u])
  BY DEF CapInv
<1>3. MaxSessions \in Nat /\ Excess(peak[u]) \in Nat
  BY SessionsAssumption DEF Excess, TInv
<1> QED BY <1>1, <1>2, <1>3

(***************************************************************************)
(* The event store (ReplayComplete).                                       *)
(***************************************************************************)
\* A log is the end of all that was stored, and ids are places in that.
LogIs(l, all) ==
  /\ Len(l) <= Len(all)
  /\ \A i \in 1 .. Len(l) : /\ l[i].id = Len(all) - Len(l) + i
                            /\ l[i].stream = all[l[i].id]

Due(q, all) == {id \in 1 .. Len(all) : id > q.from /\ id <= q.pos /\ all[id] = q.stream}

\* Where a replay is: it sent what was due and not lost, what it lost was
\* evicted, and what is still to come is in the log unless it was lost.
ReplayOK(q, l, all) ==
  /\ q.from <= q.pos /\ q.pos <= Len(all)
  /\ ToSet(q.out) = Due(q, all) \ q.lost
  /\ \A i, j \in 1 .. Len(q.out) : i < j => q.out[i] < q.out[j]
  /\ \A id \in q.lost : id <= Len(all) - Len(l)
  /\ \A id \in 1 .. Len(all) :
       id > q.pos /\ all[id] = q.stream => id > Len(all) - Len(l) \/ id \in q.lost

ReplayInv ==
  /\ \A s \in Reqs : LogIs(log[s], stored[s])
  /\ \A r \in Reqs : req[r].phase = "replaying" =>
       ReplayOK(req[r], log[req[r].sid], stored[req[r].sid])

\* The members of a log: the events from some place on.
LEMMA LogHas ==
  ASSUME NEW l \in Seq(Event), NEW all \in Seq(Streams), LogIs(l, all)
  PROVE  /\ \A e \in ToSet(l) : /\ e \in Event /\ e.id \in 1 .. Len(all)
                                /\ e.id > Len(all) - Len(l) /\ e.stream = all[e.id]
         /\ \A id \in 1 .. Len(all) : id > Len(all) - Len(l) =>
              \E e \in ToSet(l) : e.id = id /\ e.stream = all[id]
<1>1. Len(l) \in Nat /\ Len(all) \in Nat /\ DOMAIN l = 1 .. Len(l) /\ Len(l) <= Len(all)
  BY DEF LogIs
<1>2. ASSUME NEW e \in ToSet(l)
      PROVE  /\ e \in Event /\ e.id \in 1 .. Len(all)
             /\ e.id > Len(all) - Len(l) /\ e.stream = all[e.id]
  <2>1. PICK i \in 1 .. Len(l) : e = l[i]
    BY <1>1, <1>2 DEF ToSet
  <2>2. e \in Event
    BY <1>1, <2>1
  <2>3. e.id = Len(all) - Len(l) + i /\ e.stream = all[e.id]
    BY <2>1 DEF LogIs
  <2> QED BY <1>1, <2>2, <2>3
<1>3. ASSUME NEW id \in 1 .. Len(all), id > Len(all) - Len(l)
      PROVE  \E e \in ToSet(l) : e.id = id /\ e.stream = all[id]
  <2> DEFINE i == id - (Len(all) - Len(l))
  <2>1. i \in 1 .. Len(l) /\ Len(all) - Len(l) + i = id
    BY <1>1, <1>3
  <2>2. l[i].id = id /\ l[i].stream = all[id]
    BY <2>1 DEF LogIs
  <2>3. l[i] \in ToSet(l)
    BY <1>1, <2>1 DEF ToSet
  <2> QED BY <2>2, <2>3
<1> QED BY <1>2, <1>3

\* The log as an event is appended.
LEMMA LogAppended ==
  ASSUME NEW l \in Seq(Event), NEW all \in Seq(Streams), LogIs(l, all), NEW x \in Streams
  PROVE  LET e == [id |-> Len(all) + 1, stream |-> x]
         IN  /\ LogIs(Append(l, e), Append(all, x))
             /\ Append(l, e) \in Seq(Event) /\ Append(all, x) \in Seq(Streams)
             /\ Len(Append(l, e)) = Len(l) + 1 /\ Len(Append(all, x)) = Len(all) + 1
             /\ \A i \in 1 .. Len(all) : Append(all, x)[i] = all[i]
<1> DEFINE e == [id |-> Len(all) + 1, stream |-> x]
           m == Append(l, e)
           more == Append(all, x)
<1>1. Len(l) \in Nat /\ Len(all) \in Nat /\ Len(l) <= Len(all)
  BY DEF LogIs
<1>2. e \in Event /\ e.id = Len(all) + 1 /\ e.stream = x
  BY <1>1 DEF Event
<1> HIDE DEF e
<1>3. /\ m \in Seq(Event) /\ Len(m) = Len(l) + 1 /\ m[Len(l) + 1] = e
      /\ \A i \in 1 .. Len(l) : m[i] = l[i]
  BY <1>2
<1>4. /\ more \in Seq(Streams) /\ Len(more) = Len(all) + 1 /\ more[Len(all) + 1] = x
      /\ \A i \in 1 .. Len(all) : more[i] = all[i]
  OBVIOUS
<1> HIDE DEF m, more
<1>5. ASSUME NEW i \in 1 .. Len(m)
      PROVE  m[i].id = Len(more) - Len(m) + i /\ m[i].stream = more[m[i].id]
  <2>1. CASE i = Len(l) + 1
    BY <1>1, <1>2, <1>3, <1>4, <2>1
  <2>2. CASE i # Len(l) + 1
    <3>1. i \in 1 .. Len(l) /\ m[i] = l[i]
      BY <1>1, <1>3, <2>2
    <3>2. l[i].id = Len(all) - Len(l) + i /\ l[i].stream = all[l[i].id]
      BY <3>1 DEF LogIs
    <3>3. l[i].id \in 1 .. Len(all)
      BY <1>1, <3>1, <3>2
    <3>4. more[l[i].id] = all[l[i].id]
      BY <1>4, <3>3
    <3>5. Len(more) - Len(m) + i = Len(all) - Len(l) + i
      BY <1>1, <1>3, <1>4, <3>1
    <3> QED BY <3>1, <3>2, <3>4, <3>5
  <2> QED BY <2>1, <2>2
<1>6. LogIs(m, more)
  BY <1>1, <1>3, <1>4, <1>5 DEF LogIs
<1> QED BY <1>3, <1>4, <1>6 DEF e, m, more

\* The log cut to its last events.
LEMMA LogCut ==
  ASSUME NEW l \in Seq(Event), NEW all \in Seq(Streams), LogIs(l, all), NEW n \in Nat
  PROVE  LogIs(LastOf(l, n), all) /\ LastOf(l, n) \in Seq(Event) /\ Len(LastOf(l, n)) <= Len(l)
<1> DEFINE m == LastOf(l, n)
<1>1. Len(l) \in Nat /\ Len(all) \in Nat /\ Len(l) <= Len(all)
  BY DEF LogIs
<1>2. /\ m \in Seq(Event) /\ Len(m) = IF Len(l) > n THEN n ELSE Len(l)
      /\ \A i \in 1 .. Len(m) : m[i] = l[Len(l) - Len(m) + i]
  BY LastOfIs
<1> HIDE DEF m
<1>3. Len(m) \in Nat /\ Len(m) <= Len(l)
  BY <1>1, <1>2
<1>4. ASSUME NEW i \in 1 .. Len(m)
      PROVE  m[i].id = Len(all) - Len(m) + i /\ m[i].stream = all[m[i].id]
  <2> DEFINE k == Len(l) - Len(m) + i
  <2>1. i \in Nat /\ 1 <= i /\ i <= Len(m)
    BY <1>3
  <2>2. k \in 1 .. Len(l) /\ Len(all) - Len(l) + k = Len(all) - Len(m) + i
    BY <1>1, <1>3, <2>1
  <2>3. m[i] = l[k]
    BY <1>2
  <2> HIDE DEF k
  <2>4. l[k].id = Len(all) - Len(l) + k /\ l[k].stream = all[l[k].id]
    BY <2>2 DEF LogIs
  <2> QED BY <2>2, <2>3, <2>4
<1>5. LogIs(m, all)
  BY <1>1, <1>3, <1>4 DEF LogIs
<1> QED BY <1>2, <1>3, <1>5 DEF m

\* Two requests that are as far, and lost the same but for more to come.
LEMMA ReplayEmitted ==
  ASSUME NEW l \in Seq(Event), NEW all \in Seq(Streams), LogIs(l, all), NEW x \in Streams,
         NEW q, NEW d, q.from \in Nat, q.pos \in Nat, q.lost \in SUBSET Nat,
         ReplayOK(q, l, all),
         d.from = q.from, d.pos = q.pos, d.stream = q.stream, d.out = q.out,
         NEW longer, longer = Append(l, [id |-> Len(all) + 1, stream |-> x]),
         d.lost = q.lost \cup
           {e.id : e \in {f \in {e \in ToSet(longer) : e \notin ToSet(LastOf(longer, MaxEvents))} :
                            f.id > q.pos /\ f.stream = q.stream}}
  PROVE  ReplayOK(d, LastOf(longer, MaxEvents), Append(all, x))
<1> DEFINE more == Append(all, x)
           kept == LastOf(longer, MaxEvents)
           cut == {e \in ToSet(longer) : e \notin ToSet(kept)}
           now == {e.id : e \in {f \in cut : f.id > q.pos /\ f.stream = q.stream}}
<1>1. /\ LogIs(longer, more) /\ longer \in Seq(Event) /\ more \in Seq(Streams)
      /\ Len(longer) = Len(l) + 1 /\ Len(more) = Len(all) + 1
      /\ \A i \in 1 .. Len(all) : more[i] = all[i]
  BY LogAppended
<1>2. LogIs(kept, more) /\ kept \in Seq(Event) /\ Len(kept) <= Len(longer)
  BY <1>1, LogCut, SessionsAssumption
<1> HIDE DEF more, kept
<1>3. /\ Len(l) \in Nat /\ Len(all) \in Nat /\ Len(kept) \in Nat
      /\ Len(more) - Len(kept) >= Len(all) - Len(l) /\ Len(l) <= Len(all)
      /\ Len(kept) <= Len(more)
  BY <1>1, <1>2 DEF LogIs
<1>4. /\ \A e \in ToSet(longer) : /\ e \in Event /\ e.id \in 1 .. Len(more)
                                  /\ e.stream = more[e.id]
      /\ \A id \in 1 .. Len(more) : id > Len(all) - Len(l) =>
           \E e \in ToSet(longer) : e.id = id /\ e.stream = more[id]
  <2>1. Len(more) - Len(longer) = Len(all) - Len(l)
    BY <1>1, <1>3
  <2>2. /\ \A e \in ToSet(longer) : /\ e \in Event /\ e.id \in 1 .. Len(more)
                                    /\ e.stream = more[e.id]
        /\ \A id \in 1 .. Len(more) : id > Len(more) - Len(longer) =>
             \E e \in ToSet(longer) : e.id = id /\ e.stream = more[id]
    <3>1. LogIs(longer, more) /\ longer \in Seq(Event) /\ more \in Seq(Streams)
      BY <1>1
    <3> QED BY ONLY <3>1, LogHas
  <2>3. ASSUME NEW id \in 1 .. Len(more), id > Len(all) - Len(l)
        PROVE  \E e \in ToSet(longer) : e.id = id /\ e.stream = more[id]
    <3>1. id > Len(more) - Len(longer)
      BY <1>3, <2>1, <2>3
    <3> QED BY <2>2, <3>1
  <2> QED BY <2>2, <2>3
<1>5. /\ \A e \in ToSet(kept) : /\ e \in Event /\ e.id > Len(more) - Len(kept)
      /\ \A id \in 1 .. Len(more) : id > Len(more) - Len(kept) =>
           \E e \in ToSet(kept) : e.id = id /\ e.stream = more[id]
  BY <1>1, <1>2, LogHas
<1>6. ASSUME NEW id \in now
      PROVE  id > q.pos /\ id \in Nat /\ id <= Len(more) - Len(kept)
  <2>1. PICK f \in cut : f.id = id /\ f.id > q.pos
    OBVIOUS
  <2>2. f \in Event /\ f.id \in 1 .. Len(more) /\ f.stream = more[f.id] /\ f \notin ToSet(kept)
    BY <1>4, <2>1
  <2>3. CASE f.id > Len(more) - Len(kept)
    <3>1. PICK e \in ToSet(kept) : e.id = f.id /\ e.stream = more[f.id]
      BY <1>5, <2>2, <2>3
    <3>2. e = f
      BY <1>5, <2>2, <3>1 DEF Event
    <3> QED BY <2>2, <3>2
  <2> QED BY <1>1, <1>3, <2>1, <2>2, <2>3
<1>7. ASSUME NEW id \in 1 .. Len(more), id > q.pos, more[id] = q.stream,
             ~(id > Len(more) - Len(kept))
      PROVE  id \in q.lost \cup now
  <2>1. CASE id > Len(all) - Len(l)
    <3>1. PICK f \in ToSet(longer) : f.id = id /\ f.stream = more[id]
      BY <1>4, <2>1
    <3>2. f \notin ToSet(kept)
      BY <1>5, <1>7, <3>1
    <3> QED BY <1>7, <3>1, <3>2
  <2>2. CASE ~(id > Len(all) - Len(l))
    <3>1. id \in 1 .. Len(all) /\ all[id] = q.stream
      BY <1>1, <1>3, <1>7, <2>2
    <3> QED BY <1>7, <2>2, <3>1 DEF ReplayOK
  <2> QED BY <2>1, <2>2
<1>8. d.lost = q.lost \cup now
  BY DEF kept
<1> HIDE DEF now
<1>9. /\ q.from <= q.pos /\ q.pos <= Len(all) /\ ToSet(q.out) = Due(q, all) \ q.lost
      /\ \A i, j \in 1 .. Len(q.out) : i < j => q.out[i] < q.out[j]
      /\ \A id \in q.lost : id <= Len(all) - Len(l)
  BY DEF ReplayOK
<1>10. Due(d, more) \ d.lost = Due(q, all) \ q.lost
  <2>1. Due(d, more) = Due(q, all)
    BY <1>1, <1>3, <1>9 DEF Due
  <2>2. \A id \in Due(q, all) : id \notin now
    BY <1>6 DEF Due
  <2> QED BY <1>8, <2>1, <2>2
<1>11. \A id \in d.lost : id <= Len(more) - Len(kept)
  <2>1. ASSUME NEW id \in q.lost PROVE id <= Len(more) - Len(kept)
    <3>1. id \in Nat /\ id <= Len(all) - Len(l)
      BY <1>9
    <3> QED BY <1>1, <1>3, <3>1
  <2> QED BY <1>6, <1>8, <2>1
<1>12. \A id \in 1 .. Len(more) :
         id > d.pos /\ more[id] = d.stream => id > Len(more) - Len(kept) \/ id \in d.lost
  BY <1>7, <1>8
<1>13. d.from <= d.pos /\ d.pos <= Len(more)
  BY <1>1, <1>3, <1>9
<1> QED BY <1>9, <1>10, <1>11, <1>12, <1>13 DEF ReplayOK, more, kept

\* One event is sent: the next one of the stream that the log has.
LEMMA ReplaySent ==
  ASSUME NEW l \in Seq(Event), NEW all \in Seq(Streams), LogIs(l, all),
         NEW q, q.from \in Nat, q.pos \in Nat, q.out \in Seq(Nat), ReplayOK(q, l, all),
         NEW n \in ToSet(l), n.id > q.pos, n.stream = q.stream,
         \A e \in ToSet(l) : e.id > q.pos /\ e.stream = q.stream => n.id <= e.id,
         NEW d, d.from = q.from, d.pos = n.id, d.stream = q.stream, d.lost = q.lost,
         d.out = Append(q.out, n.id)
  PROVE  ReplayOK(d, l, all)
<1>1. /\ Len(l) \in Nat /\ Len(all) \in Nat /\ Len(l) <= Len(all)
      /\ q.from <= q.pos /\ q.pos <= Len(all) /\ ToSet(q.out) = Due(q, all) \ q.lost
      /\ \A i, j \in 1 .. Len(q.out) : i < j => q.out[i] < q.out[j]
      /\ \A id \in q.lost : id <= Len(all) - Len(l)
  BY DEF ReplayOK, LogIs
<1>2. /\ n.id \in 1 .. Len(all) /\ n.id > Len(all) - Len(l) /\ all[n.id] = q.stream
      /\ n.id \in Nat
  BY LogHas
<1>3. \A id \in 1 .. Len(all) : id > q.pos /\ id < n.id /\ all[id] = q.stream => id \in q.lost
  <2>1. ASSUME NEW id \in 1 .. Len(all), id > q.pos, id < n.id, all[id] = q.stream
        PROVE  id \in q.lost
    <3>1. CASE id > Len(all) - Len(l)
      <4>1. PICK e \in ToSet(l) : e.id = id /\ e.stream = all[id]
        BY <3>1, LogHas
      <4>2. n.id <= id
        BY <2>1, <4>1
      <4> QED BY <1>2, <2>1, <4>2
    <3>2. CASE ~(id > Len(all) - Len(l))
      BY <2>1, <3>2 DEF ReplayOK
    <3> QED BY <3>1, <3>2
  <2> QED BY <2>1
<1>4. n.id \notin q.lost
  BY <1>1, <1>2
<1>5. /\ Len(d.out) = Len(q.out) + 1 /\ d.out[Len(q.out) + 1] = n.id
      /\ \A i \in 1 .. Len(q.out) : d.out[i] = q.out[i]
      /\ Len(q.out) \in Nat /\ DOMAIN d.out = 1 .. Len(q.out) + 1
      /\ DOMAIN q.out = 1 .. Len(q.out)
  BY <1>2
<1>6. ToSet(d.out) = ToSet(q.out) \cup {n.id}
  BY SMTT(30), <1>5 DEF ToSet
<1>7. Due(d, all) \ d.lost = (Due(q, all) \ q.lost) \cup {n.id}
  <2>1. ASSUME NEW id \in Due(d, all) \ d.lost
        PROVE  id \in (Due(q, all) \ q.lost) \cup {n.id}
    <3>1. id \in 1 .. Len(all) /\ id > q.from /\ id <= n.id /\ all[id] = q.stream /\ id \notin q.lost
      BY DEF Due
    <3>2. id <= q.pos \/ id = n.id \/ (id > q.pos /\ id < n.id)
      BY <1>2, <3>1
    <3> QED BY <1>3, <3>1, <3>2 DEF Due
  <2>2. ASSUME NEW id \in Due(q, all) \ q.lost
        PROVE  id \in Due(d, all) \ d.lost
    BY <1>1, <1>2 DEF Due
  <2>3. n.id \in Due(d, all) \ d.lost
    BY <1>1, <1>2, <1>4 DEF Due
  <2> QED BY <2>1, <2>2, <2>3
<1>8. ASSUME NEW i \in 1 .. Len(d.out), NEW j \in 1 .. Len(d.out), i < j
      PROVE  d.out[i] < d.out[j]
  <2>1. i \in 1 .. Len(q.out)
    BY <1>5, <1>8
  <2>2. d.out[i] \in ToSet(q.out) /\ d.out[i] = q.out[i]
    BY <1>5, <2>1 DEF ToSet
  <2>3. d.out[i] <= q.pos /\ d.out[i] \in Nat
    BY SMTT(30), <1>1, <2>2 DEF Due
  <2>4. CASE j = Len(q.out) + 1
    BY SMTT(30), <1>2, <1>5, <2>3, <2>4
  <2>5. CASE j # Len(q.out) + 1
    <3>1. j \in 1 .. Len(q.out)
      BY <1>5, <2>5
    <3> QED BY <1>1, <1>5, <1>8, <2>1, <3>1
  <2> QED BY <2>4, <2>5
<1>9. \A id \in 1 .. Len(all) :
        id > d.pos /\ all[id] = d.stream => id > Len(all) - Len(l) \/ id \in d.lost
  BY <1>1, <1>2 DEF ReplayOK
<1>10. d.from <= d.pos /\ d.pos <= Len(all)
  BY <1>1, <1>2
<1> QED BY <1>1, <1>6, <1>7, <1>8, <1>9, <1>10 DEF ReplayOK

\* No replay begins or moves, and no event is stored.
LEMMA ReplayStands ==
  ASSUME TInv, ReplayInv, UNCHANGED <<log, stored>>,
         \A r \in Reqs : req'[r].phase = "replaying" => req'[r] = req[r]
  PROVE  ReplayInv'
<1>1. ASSUME NEW r \in Reqs, req'[r].phase = "replaying"
      PROVE  ReplayOK(req[r], log[req[r].sid], stored[req[r].sid]) /\ req'[r] = req[r]
  BY <1>1 DEF ReplayInv
<1>2. \A r \in Reqs : req'[r].phase = "replaying" =>
        ReplayOK(req'[r], log'[req'[r].sid], stored'[req'[r].sid])
  BY <1>1
<1>3. \A s \in Reqs : LogIs(log'[s], stored'[s])
  BY DEF ReplayInv
<1> QED BY <1>2, <1>3 DEF ReplayInv

\* An event is stored, and some of the oldest may go.
LEMMA ReplayOnEmit ==
  ASSUME TInv, ReplayInv, NEW s \in Reqs, NEW x \in Streams, Emit(s, x)
  PROVE  ReplayInv'
<1> DEFINE e == [id |-> Len(stored[s]) + 1, stream |-> x]
<1> PICK longer : longer = Append(log[s], e)
  OBVIOUS
<1> DEFINE cut == {f \in ToSet(longer) : f \notin ToSet(LastOf(longer, MaxEvents))}
           lost(r) == req[r].lost \cup {f.id : f \in
                        {f \in cut : f.id > req[r].pos /\ f.stream = req[r].stream}}
<1>1. /\ log' = [log EXCEPT ![s] = LastOf(longer, MaxEvents)]
      /\ stored' = [stored EXCEPT ![s] = Append(stored[s], x)]
      /\ req' = [r \in Reqs |-> IF req[r].phase = "replaying" /\ req[r].sid = s
                                THEN [req[r] EXCEPT !.lost = lost(r)] ELSE req[r]]
  BY DEF Emit
<1>2. /\ log \in [Reqs -> Seq(Event)] /\ stored \in [Reqs -> Seq(Streams)]
      /\ \A r \in Reqs : req[r] \in Requests
  BY DEF TInv, Asked
<1>3. /\ log'[s] = LastOf(longer, MaxEvents) /\ stored'[s] = Append(stored[s], x)
      /\ \A t \in Reqs \ {s} : log'[t] = log[t] /\ stored'[t] = stored[t]
  BY <1>1, <1>2
<1>4. \A t \in Reqs : LogIs(log[t], stored[t])
  BY DEF ReplayInv
<1>5. LogIs(log'[s], stored'[s])
  <2>1. /\ LogIs(longer, Append(stored[s], x)) /\ longer \in Seq(Event)
        /\ Append(stored[s], x) \in Seq(Streams)
    BY <1>2, <1>4, LogAppended
  <2> QED BY <1>3, <2>1, LogCut, SessionsAssumption
<1>6. ASSUME NEW r \in Reqs, req'[r].phase = "replaying"
      PROVE  ReplayOK(req'[r], log'[req'[r].sid], stored'[req'[r].sid])
  <2>1. CASE req[r].phase = "replaying" /\ req[r].sid = s
    <3> DEFINE q == req[r]
               d == [q EXCEPT !.lost = lost(r)]
    <3>1. /\ q \in Requests /\ q.from \in Nat /\ q.pos \in Nat /\ q.lost \in SUBSET Nat
      BY <1>2, <2>1, RequestIs
    <3>2. ReplayOK(q, log[s], stored[s])
      BY <2>1 DEF ReplayInv
    <3>3. d.from = q.from /\ d.pos = q.pos /\ d.stream = q.stream /\ d.out = q.out /\ d.sid = s
            /\ d.lost = lost(r)
      <4> HIDE DEF lost
      <4> QED BY <2>1, <3>1 DEF Requests
    <3>4. req'[r] = d
      BY <1>1, <2>1
    <3> HIDE DEF d, e
    <3>5. ReplayOK(d, LastOf(longer, MaxEvents), Append(stored[s], x))
      <4>1. /\ log[s] \in Seq(Event) /\ stored[s] \in Seq(Streams) /\ LogIs(log[s], stored[s])
        BY <1>2, <1>4
      <4>2. longer = Append(log[s], [id |-> Len(stored[s]) + 1, stream |-> x])
        BY DEF e
      <4>3. d.lost = q.lost \cup
              {f.id : f \in {f \in {f \in ToSet(longer) :
                                      f \notin ToSet(LastOf(longer, MaxEvents))} :
                               f.id > q.pos /\ f.stream = q.stream}}
        BY <3>3
      <4> HIDE DEF q, cut
      <4> QED BY ZenonT(30), <3>1, <3>2, <3>3, <4>1, <4>2, <4>3, ReplayEmitted
    <3> QED BY <1>3, <3>3, <3>4, <3>5
  <2>2. CASE ~(req[r].phase = "replaying" /\ req[r].sid = s)
    <3>1. req'[r] = req[r] /\ req[r].phase = "replaying" /\ req[r].sid # s
      BY <1>1, <1>6, <2>2
    <3>2. req[r].sid \in Reqs
      BY <1>2, <3>1, RequestIs DEF Named
    <3> QED BY <1>3, <3>1, <3>2 DEF ReplayInv
  <2> QED BY <2>1, <2>2
<1> QED BY <1>3, <1>4, <1>5, <1>6 DEF ReplayInv

\* A replay begins at an event of the log.
LEMMA ReplayOnResume ==
  ASSUME TInv, ReplayInv, NEW r \in Reqs, NEW anchor \in Nat, Resume(r, anchor)
  PROVE  ReplayInv'
<1>1. PICK s : s = req[r].sid
  OBVIOUS
<1> DEFINE found == {e \in ToSet(log[s]) : e.id = anchor}
           x == (CHOOSE e \in found : TRUE).stream
           d == [phase |-> "replaying", user |-> req[r].user, sid |-> s, stream |-> x,
                 from |-> anchor, pos |-> anchor, out |-> <<>>, lost |-> {}]
<1>2. /\ UNCHANGED <<log, stored>>
      /\ req' = Set(r, IF s \notin live \/ found = {} THEN Over ELSE d)
  BY <1>1 DEF Resume
<1>3. req \in [Reqs -> Requests] /\ req[r].phase = "following" /\ s \in Reqs
  <2>1. req[r] \in Requests /\ req[r].phase = "following"
    BY DEF TInv, Asked, Resume, Following
  <2> QED BY <1>1, <2>1, RequestIs DEF TInv, Asked, Named
<1>4. CASE req' = Set(r, Over)
  <2>1. \A q \in Reqs : req'[q].phase = "replaying" => req'[q] = req[q]
    BY <1>3, <1>4 DEF Set, Over
  <2> QED BY <1>2, <2>1, ReplayStands
<1>5. CASE req' = Set(r, d) /\ found # {}
  <2>1. /\ log[s] \in Seq(Event) /\ stored[s] \in Seq(Streams) /\ LogIs(log[s], stored[s])
    BY <1>3 DEF TInv, ReplayInv
  <2>2. PICK e \in found : TRUE
    BY <1>5
  <2>3. /\ anchor \in 1 .. Len(stored[s]) /\ anchor > Len(stored[s]) - Len(log[s])
    <3>1. e \in ToSet(log[s]) /\ e.id = anchor
      BY <2>2
    <3>2. /\ \A f \in ToSet(log[s]) : /\ f.id \in 1 .. Len(stored[s])
                                      /\ f.id > Len(stored[s]) - Len(log[s])
      BY ONLY <2>1, LogHas
    <3> QED BY <3>1, <3>2
  <2>4. Len(stored[s]) \in Nat /\ Len(log[s]) \in Nat
    BY <2>1
  <2>5. /\ d.from = anchor /\ d.pos = anchor /\ d.out = <<>> /\ d.lost = {} /\ d.sid = s
    OBVIOUS
  <2>6. req'[r] = d /\ \A q \in Reqs \ {r} : req'[q] = req[q]
    BY <1>3, <1>5 DEF Set
  <2> HIDE DEF d, found, x
  <2>7. ReplayOK(d, log[s], stored[s])
    <3>1. Due(d, stored[s]) = {}
      BY <2>4, <2>5 DEF Due
    <3>2. ToSet(d.out) = {} /\ \A i, j \in 1 .. Len(d.out) : i < j => d.out[i] < d.out[j]
      <4>1. ToSet(<<>>) = {}
        BY DEF ToSet
      <4>2. 1 .. Len(<<>>) = {}
        OBVIOUS
      <4> QED BY <2>5, <4>1, <4>2
    <3>3. ASSUME NEW id \in 1 .. Len(stored[s]), id > d.pos
          PROVE  id > Len(stored[s]) - Len(log[s])
      <4> DEFINE base == Len(stored[s]) - Len(log[s])
      <4>1. id > anchor /\ id \in Int /\ anchor \in Int
        BY <2>4, <2>5, <3>3
      <4>2. base \in Int
        BY <2>4
      <4>3. anchor > base
        BY <2>3
      <4> HIDE DEF base
      <4>4. id > base
        BY <4>1, <4>2, <4>3
      <4> QED BY <4>4 DEF base
    <3>4. d.from <= d.pos /\ d.pos <= Len(stored[s])
      BY <2>3, <2>4, <2>5
    <3> QED BY <2>5, <3>1, <3>2, <3>3, <3>4 DEF ReplayOK
  <2>8. \A q \in Reqs : req'[q].phase = "replaying" =>
          ReplayOK(req'[q], log'[req'[q].sid], stored'[req'[q].sid])
    BY <1>2, <2>5, <2>6, <2>7 DEF ReplayInv
  <2>9. \A t \in Reqs : LogIs(log'[t], stored'[t])
    BY <1>2 DEF ReplayInv
  <2> QED BY <2>8, <2>9 DEF ReplayInv
<1> QED BY <1>2, <1>4, <1>5

\* A replay sends its next event, or goes on as a live stream.
LEMMA ReplayOnStep ==
  ASSUME TInv, ReplayInv, NEW r \in Reqs, ReplayStep(r)
  PROVE  ReplayInv'
<1>1. PICK q : q = req[r]
  OBVIOUS
<1>2. req \in [Reqs -> Requests] /\ UNCHANGED <<log, stored>>
  BY DEF TInv, Asked, ReplayStep
<1>3. /\ q \in Requests /\ q.phase = "replaying" /\ q.sid \in Reqs /\ q.from \in Nat
      /\ q.pos \in Nat /\ q.out \in Seq(Nat)
  <2>1. q \in Requests /\ q.phase = "replaying"
    BY <1>1, <1>2 DEF ReplayStep
  <2> QED BY <2>1, RequestIs DEF Named
<1>4. CASE req' = Set(r, [phase |-> "streaming", user |-> q.user, sid |-> q.sid,
                          stream |-> q.stream])
  <2>1. \A o \in Reqs : req'[o].phase = "replaying" => req'[o] = req[o]
    BY <1>2, <1>4 DEF Set
  <2> QED BY <1>2, <2>1, ReplayStands
<1>5. ASSUME NEW n \in Ahead(q), \A e \in Ahead(q) : n.id <= e.id,
             req' = Set(r, [q EXCEPT !.pos = n.id, !.out = Append(@, n.id)])
      PROVE  ReplayInv'
  <2> DEFINE s == q.sid
             d == [q EXCEPT !.pos = n.id, !.out = Append(q.out, n.id)]
  <2>1. /\ log[s] \in Seq(Event) /\ stored[s] \in Seq(Streams) /\ LogIs(log[s], stored[s])
    BY <1>3 DEF TInv, ReplayInv
  <2>2. /\ n \in ToSet(log[s]) /\ n.id > q.pos /\ n.stream = q.stream
        /\ \A e \in ToSet(log[s]) : e.id > q.pos /\ e.stream = q.stream => n.id <= e.id
    BY <1>5 DEF Ahead
  <2>3. ReplayOK(q, log[s], stored[s])
    BY <1>1, <1>3 DEF ReplayInv
  <2>4. /\ d.from = q.from /\ d.pos = n.id /\ d.stream = q.stream /\ d.lost = q.lost
        /\ d.out = Append(q.out, n.id) /\ d.sid = s
    BY <1>3 DEF Requests
  <2>5. req'[r] = d /\ \A o \in Reqs \ {r} : req'[o] = req[o]
    BY <1>2, <1>5 DEF Set
  <2> HIDE DEF d
  <2>6. ReplayOK(d, log[s], stored[s])
    BY <1>3, <2>1, <2>2, <2>3, <2>4, ReplaySent
  <2>7. \A o \in Reqs : req'[o].phase = "replaying" =>
          ReplayOK(req'[o], log'[req'[o].sid], stored'[req'[o].sid])
    BY <1>2, <2>4, <2>5, <2>6 DEF ReplayInv
  <2>8. \A t \in Reqs : LogIs(log'[t], stored'[t])
    BY <1>2 DEF ReplayInv
  <2> QED BY <2>7, <2>8 DEF ReplayInv
<1> QED BY <1>1, <1>4, <1>5 DEF ReplayStep

\* Replays stay where they should be, whatever is evicted.
LEMMA ReplayInvKept ==
  ASSUME TInv, ReplayInv, SessionNext
  PROVE  ReplayInv'
<1>1. req \in [Reqs -> Requests]
  BY DEF TInv, Asked
<1>2. ASSUME NEW r, NEW v, v.phase # "replaying", req' = Set(r, v), UNCHANGED <<log, stored>>
      PROVE  ReplayInv'
  <2>1. \A o \in Reqs : req'[o].phase = "replaying" => req'[o] = req[o]
    BY <1>1, <1>2 DEF Set
  <2> QED BY <1>2, <2>1, ReplayStands
<1>3. ASSUME NEW gone, req' = Cut(req, gone), UNCHANGED <<log, stored>>
      PROVE  ReplayInv'
  <2>1. \A o \in Reqs : req'[o].phase = "replaying" => req'[o] = req[o]
    BY <1>1, <1>3 DEF Cut, Over
  <2> QED BY <1>3, <2>1, ReplayStands
<1>4. ASSUME NEW r, NEW s, NEW u \in Users, NEW kind \in Kinds, Arrive(r, u, s, kind)
      PROVE  ReplayInv'
  <2>1. PICK v : v.phase # "replaying" /\ req' = Set(r, v)
    BY <1>4 DEF Arrive, Over
  <2> QED BY <1>2, <1>4, <2>1 DEF Arrive
<1>5. ASSUME NEW r \in Reqs,
             \/ \E methods : Probe(r, methods)
             \/ BuildFails(r) \/ Answer(r) \/ EndStream(r)
             \/ \E x \in Streams : OpenStream(r, x)
      PROVE  ReplayInv'
  <2>1. PICK v : v.phase # "replaying" /\ req' = Set(r, v)
    BY <1>5 DEF Probe, BuildFails, Answer, EndStream, OpenStream, Over
  <2>2. UNCHANGED <<log, stored>>
    BY <1>5 DEF Probe, BuildFails, Answer, EndStream, OpenStream
  <2> QED BY <1>2, <2>1, <2>2
<1>6. ASSUME NEW r \in Reqs, Register(r)
      PROVE  ReplayInv'
  <2>1. req[r] \in Requests /\ req[r].phase = "building"
    BY <1>1, <1>6 DEF Register
  <2>2. [req[r] EXCEPT !.phase = "registered"].phase = "registered"
    BY <2>1 DEF Requests
  <2> QED BY <1>2, <1>6, <2>2 DEF Register
<1>7. ASSUME NEW r \in Reqs, CloseSession(r)
      PROVE  ReplayInv'
  <2>1. \A o \in Reqs : req'[o].phase = "replaying" => req'[o] = req[o]
    BY <1>1, <1>7 DEF CloseSession, Cut, Set, Over
  <2> QED BY <1>7, <2>1, ReplayStands DEF CloseSession
<1>8. ASSUME NEW r \in Reqs, NEW s \in Reqs, NEW e \in ToSet(log[s]), Resume(r, e.id)
      PROVE  ReplayInv'
  <2>1. log[s] \in Seq(Event)
    BY DEF TInv
  <2>2. e \in Event
    BY <2>1 DEF ToSet
  <2>3. e.id \in Nat
    BY <2>2 DEF Event
  <2> QED BY <1>8, <2>3, ReplayOnResume
<1>9. CASE Handles
  BY <1>5, <1>6, <1>7, <1>8, <1>9, ReplayOnStep DEF Handles
<1>10. CASE \E s \in Reqs, x \in Streams : Emit(s, x)
  BY <1>10, ReplayOnEmit
<1>11. CASE Forget
  <2>1. \A r \in Reqs : req'[r].phase # "replaying"
    BY <1>11 DEF Forget, InFlight, Over
  <2>2. \A s \in Reqs : LogIs(log'[s], stored'[s])
    BY <1>11 DEF Forget, LogIs
  <2> QED BY <2>1, <2>2 DEF ReplayInv
<1>12. CASE UNCHANGED <<req, log, stored>>
  BY <1>12, ReplayStands
<1> QED BY <1>3, <1>4, <1>9, <1>10, <1>11, <1>12
     DEF SessionNext, SessionTick, CleanUp, Sweep, Shutdown, Dispose, Clear, sessionVars

\* A replay that is where it should be is complete.
LEMMA ReplayMeans ==
  ASSUME TInv, ReplayInv
  PROVE  ReplayComplete
<1> SUFFICES ASSUME NEW r \in Reqs, req[r].phase = "replaying"
             PROVE  LET q == req[r]
                        due == {id \in DOMAIN stored[q.sid] :
                                  id > q.from /\ id <= q.pos /\ stored[q.sid][id] = q.stream}
                    IN  /\ ToSet(q.out) = due \ q.lost
                        /\ \A i, j \in DOMAIN q.out : i < j => q.out[i] < q.out[j]
  BY DEF ReplayComplete
<1>1. /\ req[r] \in Requests /\ req[r].sid \in Reqs /\ req[r].out \in Seq(Nat)
  <2>1. req[r] \in Requests
    BY DEF TInv, Asked
  <2> QED BY <2>1, RequestIs DEF Named
<1>2. /\ stored[req[r].sid] \in Seq(Streams)
      /\ ReplayOK(req[r], log[req[r].sid], stored[req[r].sid])
  BY <1>1 DEF TInv, ReplayInv
<1>3. /\ DOMAIN req[r].out = 1 .. Len(req[r].out)
      /\ DOMAIN stored[req[r].sid] = 1 .. Len(stored[req[r].sid])
  BY <1>1, <1>2
<1> QED BY <1>2, <1>3 DEF ReplayOK, Due

(***************************************************************************)
(* The rate limiter (RateHeld).                                            *)
(***************************************************************************)
Entry == [count : Nat, reset : Nat, at : Nat]

\* A store with its entries, whatever its size.
Stored(b) ==
  /\ DOMAIN b \subseteq Users /\ IsFiniteSet(DOMAIN b)
  /\ \A u \in DOMAIN b : b[u] \in Entry

BucketOK(b) == Stored(b) /\ Cardinality(DOMAIN b) <= MaxKeys

\* The limiter and a user it has not forgotten agree on the window: an entry in
\* its window is the user's, and a user in a window has an entry.
RateInv ==
  /\ BucketOK(bucket)
  /\ quota \in [Users -> [count : Nat, reset : Nat, forgotten : BOOLEAN]]
  /\ \A u \in Users : quota[u].forgotten = FALSE =>
       /\ quota[u].count <= RateMax
       /\ InWindow(bucket, u) => /\ bucket[u].reset = quota[u].reset
                                 /\ 0 < quota[u].count /\ quota[u].count <= bucket[u].count
       /\ quota[u].count > 0 /\ clock <= quota[u].reset =>
            u \in DOMAIN bucket /\ bucket[u].reset = quota[u].reset

\* The place of a key that comes last.
LEMMA NextAtOK ==
  ASSUME NEW b, IsFiniteSet(DOMAIN b), \A u \in DOMAIN b : b[u] \in Entry
  PROVE  NextAt(b) \in Nat
<1> DEFINE T == {0} \cup {b[u].at : u \in DOMAIN b}
<1>1. \A u \in DOMAIN b : b[u].at \in Nat
  BY DEF Entry
<1>2. T \in SUBSET Nat /\ T # {}
  BY <1>1
<1>3. IsFiniteSet({b[u].at : u \in DOMAIN b})
  <2> DEFINE f == [u \in DOMAIN b |-> b[u].at]
             I == {f[u] : u \in DOMAIN b}
  <2>1. f \in Surjection(DOMAIN b, I)
    BY DEF Surjection
  <2>2. IsFiniteSet(I)
    <3> HIDE DEF f, I
    <3> QED BY <2>1, FS_Surjection
  <2> QED BY <2>2
<1>4. IsFiniteSet(T)
  BY <1>3, FS_Singleton, FS_Union
<1> HIDE DEF T
<1>5. PICK x \in T : \A y \in T : x >= y
  BY <1>2, <1>4, GreatestOf
<1>6. Max(T) \in T
  BY <1>5 DEF Max
<1>7. Max(T) \in Nat
  BY <1>2, <1>6
<1> QED BY <1>7 DEF NextAt, T

\* A limiter that has keys has an oldest one.
LEMMA OldestIs ==
  ASSUME NEW b, DOMAIN b # {}, \A u \in DOMAIN b : b[u] \in Entry
  PROVE  Oldest(b) \in DOMAIN b
<1> DEFINE T == {b[u].at : u \in DOMAIN b}
<1>1. \A u \in DOMAIN b : b[u].at \in Nat
  BY DEF Entry
<1>2. T \in SUBSET Nat /\ T # {}
  BY <1>1
<1>3. PICK x \in T : \A y \in T : x <= y
  <2> HIDE DEF T
  <2> QED BY <1>2, LeastOf
<1>4. \E u \in DOMAIN b : \A v \in DOMAIN b : b[u].at <= b[v].at
  BY <1>3
<1> QED BY <1>4 DEF Oldest

\* An entry put into the store.
LEMMA PutOK ==
  ASSUME NEW b, Stored(b), NEW u \in Users, NEW e \in Entry
  PROVE  /\ Stored(Put(b, u, e)) /\ DOMAIN Put(b, u, e) = DOMAIN b \cup {u}
         /\ Put(b, u, e)[u] = e /\ \A v \in DOMAIN b : v # u => Put(b, u, e)[v] = b[v]
<1> DEFINE c == Put(b, u, e)
<1>1. /\ DOMAIN c = DOMAIN b \cup {u} /\ c[u] = e
      /\ \A v \in DOMAIN b : v # u => c[v] = b[v]
  BY DEF Put
<1>2. IsFiniteSet(DOMAIN b \cup {u})
  BY FS_AddElement DEF Stored
<1> HIDE DEF c
<1>3. Stored(c)
  BY <1>1, <1>2 DEF Stored
<1> QED BY <1>1, <1>3 DEF c

\* Entries taken out of it.
LEMMA RestOK ==
  ASSUME NEW b, Stored(b), NEW gone
  PROVE  /\ Stored(Without(b, gone)) /\ DOMAIN Without(b, gone) = DOMAIN b \ gone
         /\ \A v \in DOMAIN b \ gone : Without(b, gone)[v] = b[v]
<1> PICK c : c = Without(b, gone)
  OBVIOUS
<1>1. /\ DOMAIN c = DOMAIN b \ gone
      /\ \A v \in DOMAIN b \ gone : c[v] = b[v]
  BY ZenonT(30), WithoutIs
<1>2. IsFiniteSet(DOMAIN b \ gone)
  BY FS_Subset DEF Stored
<1>3. Stored(c)
  BY <1>1, <1>2 DEF Stored
<1> QED BY <1>1, <1>3

\* What the limiter does with a request.
LEMMA LimitedIs ==
  ASSUME BucketOK(bucket), clock \in Nat, NEW u \in Users, NEW b, b = Limited(u).b
  PROVE  /\ BucketOK(b) /\ u \in DOMAIN b
         /\ \A v \in DOMAIN b : v # u => v \in DOMAIN bucket /\ b[v] = bucket[v]
         /\ InWindow(bucket, u) =>
              /\ DOMAIN b = DOMAIN bucket /\ b[u].reset = bucket[u].reset
              /\ b[u].count = bucket[u].count + 1
              /\ Limited(u).ok <=> bucket[u].count + 1 <= RateMax
         /\ ~InWindow(bucket, u) =>
              Limited(u).ok /\ b[u].count = 1 /\ b[u].reset = clock + Window
<1>1. /\ Stored(bucket) /\ Cardinality(DOMAIN bucket) <= MaxKeys
      /\ \A v \in DOMAIN bucket : bucket[v] \in Entry
      /\ IsFiniteSet(DOMAIN bucket) /\ Cardinality(DOMAIN bucket) \in Nat
  BY FS_CardinalityType DEF BucketOK, Stored
<1>2. CASE InWindow(bucket, u)
  <2> PICK rest : rest = Without(bucket, {u})
    OBVIOUS
  <2> DEFINE e == [bucket[u] EXCEPT !.count = @ + 1, !.at = NextAt(rest)]
  <2>1. u \in DOMAIN bucket /\ bucket[u] \in Entry
    BY <1>1, <1>2 DEF InWindow
  <2>2. /\ Stored(rest) /\ DOMAIN rest = DOMAIN bucket \ {u}
        /\ \A v \in DOMAIN bucket \ {u} : rest[v] = bucket[v]
    BY <1>1, RestOK
  <2>3. NextAt(rest) \in Nat
    BY <2>2, NextAtOK DEF Stored
  <2>4. e \in Entry /\ e.count = bucket[u].count + 1 /\ e.reset = bucket[u].reset
    <3>1. ASSUME NEW o \in Entry, NEW c \in Nat, NEW n \in Nat
          PROVE  /\ [o EXCEPT !.count = c, !.at = n] \in Entry
                 /\ [o EXCEPT !.count = c, !.at = n].count = c
                 /\ [o EXCEPT !.count = c, !.at = n].reset = o.reset
      BY DEF Entry
    <3>2. bucket[u].count + 1 \in Nat /\ bucket[u].reset \in Nat
      BY <2>1 DEF Entry
    <3> QED BY <2>1, <2>3, <3>1, <3>2 DEF Entry
  <2>5. b = Put(rest, u, e) /\ (Limited(u).ok <=> bucket[u].count + 1 <= RateMax)
    BY <1>2 DEF Limited, Counted
  <2> HIDE DEF e
  <2>6. /\ Stored(b) /\ DOMAIN b = DOMAIN rest \cup {u} /\ b[u] = e
        /\ \A v \in DOMAIN rest : v # u => b[v] = rest[v]
    <3>1. /\ Stored(Put(rest, u, e)) /\ DOMAIN Put(rest, u, e) = DOMAIN rest \cup {u}
          /\ Put(rest, u, e)[u] = e
          /\ \A v \in DOMAIN rest : v # u => Put(rest, u, e)[v] = rest[v]
      <4>1. Stored(rest) /\ e \in Entry
        BY <2>2, <2>4
      <4> QED BY ONLY <4>1, PutOK
    <3> QED BY <2>5, <3>1
  <2>7. DOMAIN b = DOMAIN bucket
    BY <2>1, <2>2, <2>6
  <2>8. BucketOK(b)
    BY <1>1, <2>6, <2>7 DEF BucketOK
  <2> QED BY <1>2, <2>2, <2>4, <2>5, <2>6, <2>7, <2>8
<1>3. CASE ~InWindow(bucket, u)
  <2> PICK kept : kept = IF Cardinality(DOMAIN bucket) >= MaxKeys
                         THEN Without(bucket, {Oldest(bucket)}) ELSE bucket
    OBVIOUS
  <2> DEFINE e == [count |-> 1, reset |-> clock + Window,
                   at |-> IF u \in DOMAIN kept THEN kept[u].at ELSE NextAt(kept)]
  <2>1. /\ Stored(kept) /\ DOMAIN kept \subseteq DOMAIN bucket
        /\ \A v \in DOMAIN kept : kept[v] = bucket[v]
        /\ Cardinality(DOMAIN kept) + 1 <= MaxKeys /\ Cardinality(DOMAIN kept) \in Nat
    <3>1. CASE Cardinality(DOMAIN bucket) >= MaxKeys
      <4>1. kept = Without(bucket, {Oldest(bucket)})
        BY <3>1
      <4>2. DOMAIN bucket # {}
        BY <1>1, <3>1, FS_EmptySet, SessionsAssumption
      <4>3. Oldest(bucket) \in DOMAIN bucket
        BY <1>1, <4>2, OldestIs
      <4>4. /\ Stored(kept) /\ DOMAIN kept = DOMAIN bucket \ {Oldest(bucket)}
            /\ \A v \in DOMAIN kept : kept[v] = bucket[v]
        <5>1. /\ Stored(Without(bucket, {Oldest(bucket)}))
              /\ DOMAIN Without(bucket, {Oldest(bucket)}) = DOMAIN bucket \ {Oldest(bucket)}
              /\ \A v \in DOMAIN bucket \ {Oldest(bucket)} :
                   Without(bucket, {Oldest(bucket)})[v] = bucket[v]
          BY <1>1, RestOK
        <5> QED BY <4>1, <5>1
      <4>5. Cardinality(DOMAIN kept) = Cardinality(DOMAIN bucket) - 1
        BY <1>1, <4>3, <4>4, FS_RemoveElement
      <4>6. Cardinality(DOMAIN kept) \in Nat
        BY <4>4, FS_CardinalityType DEF Stored
      <4>7. \A n \in Nat : n <= MaxKeys => (n - 1) + 1 <= MaxKeys
        BY SessionsAssumption
      <4> QED BY <1>1, <4>4, <4>5, <4>6, <4>7
    <3>2. CASE ~(Cardinality(DOMAIN bucket) >= MaxKeys)
      BY <1>1, <3>2, SessionsAssumption
    <3> QED BY <3>1, <3>2
  <2>2. e \in Entry /\ e.count = 1 /\ e.reset = clock + Window
    <3>1. NextAt(kept) \in Nat
      BY <2>1, NextAtOK DEF Stored
    <3>2. \A v \in DOMAIN kept : kept[v].at \in Nat
      BY <2>1 DEF Stored, Entry
    <3>3. clock + Window \in Nat
      BY SessionsAssumption
    <3> QED BY <3>1, <3>2, <3>3 DEF Entry
  <2>3. b = Put(kept, u, e) /\ Limited(u).ok
    BY <1>3 DEF Limited, Begun
  <2> HIDE DEF e
  <2>4. /\ Stored(b) /\ DOMAIN b = DOMAIN kept \cup {u} /\ b[u] = e
        /\ \A v \in DOMAIN kept : v # u => b[v] = kept[v]
    <3>1. /\ Stored(Put(kept, u, e)) /\ DOMAIN Put(kept, u, e) = DOMAIN kept \cup {u}
          /\ Put(kept, u, e)[u] = e
          /\ \A v \in DOMAIN kept : v # u => Put(kept, u, e)[v] = kept[v]
      BY ONLY <2>1, <2>2, u \in Users, PutOK
    <3> QED BY <2>3, <3>1
  <2>5. Cardinality(DOMAIN b) <= MaxKeys
    <3>1. Cardinality(DOMAIN kept \cup {u}) <= Cardinality(DOMAIN kept) + 1
      <4>1. IsFiniteSet(DOMAIN kept)
        BY <2>1 DEF Stored
      <4>2. \/ Cardinality(DOMAIN kept \cup {u}) = Cardinality(DOMAIN kept)
            \/ Cardinality(DOMAIN kept \cup {u}) = Cardinality(DOMAIN kept) + 1
        BY <4>1, FS_AddElement
      <4> QED BY <2>1, <4>2
    <3>2. Cardinality(DOMAIN kept \cup {u}) \in Nat
      BY <2>4, FS_CardinalityType DEF Stored
    <3> QED BY <2>1, <2>4, <3>1, <3>2, SessionsAssumption
  <2>6. BucketOK(b)
    BY <2>4, <2>5 DEF BucketOK
  <2> QED BY <1>3, <2>1, <2>2, <2>3, <2>4, <2>6
<1> QED BY <1>2, <1>3

\* The limiter and its users agree as time passes.
LEMMA RateStands ==
  ASSUME RateInv, UNCHANGED <<bucket, quota>>, clock \in Nat, clock' \in Nat, clock <= clock'
  PROVE  RateInv'
<1>1. BucketOK(bucket)' <=> BucketOK(bucket)
  BY DEF BucketOK, Stored
<1>2. ASSUME NEW u \in Users, quota[u].forgotten = FALSE
      PROVE  /\ quota[u].count <= RateMax
             /\ InWindow(bucket, u)' => /\ bucket[u].reset = quota[u].reset
                                        /\ 0 < quota[u].count /\ quota[u].count <= bucket[u].count
             /\ quota[u].count > 0 /\ clock' <= quota[u].reset =>
                  u \in DOMAIN bucket /\ bucket[u].reset = quota[u].reset
  <2>1. /\ quota[u].count <= RateMax
        /\ InWindow(bucket, u) => /\ bucket[u].reset = quota[u].reset
                                  /\ 0 < quota[u].count /\ quota[u].count <= bucket[u].count
        /\ quota[u].count > 0 /\ clock <= quota[u].reset =>
             u \in DOMAIN bucket /\ bucket[u].reset = quota[u].reset
    BY <1>2 DEF RateInv
  <2>2. quota[u].reset \in Nat
    BY DEF RateInv
  <2>3. InWindow(bucket, u)' => InWindow(bucket, u)
    <3>1. u \in DOMAIN bucket => bucket[u].reset \in Nat
      BY DEF RateInv, BucketOK, Stored, Entry
    <3> QED BY <3>1 DEF InWindow
  <2> QED BY <2>1, <2>2, <2>3
<1>3. /\ BucketOK(bucket)'
      /\ quota' \in [Users -> [count : Nat, reset : Nat, forgotten : BOOLEAN]]
  BY <1>1 DEF RateInv
<1> QED BY <1>2, <1>3 DEF RateInv

\* A limiter with the table b charged u, so that the quotas are q.
ChargeOK(q, u, b) ==
  /\ q \in [Users -> [count : Nat, reset : Nat, forgotten : BOOLEAN]]
  /\ \A v \in Users : v # u /\ v \in DOMAIN bucket /\ v \notin DOMAIN b =>
       q[v].forgotten # FALSE
  /\ \A v \in Users : v # u /\ (v \in DOMAIN bucket => v \in DOMAIN b) => q[v] = quota[v]
  /\ ~Limited(u).ok => q[u] = quota[u]
  /\ Limited(u).ok /\ (clock > quota[u].reset \/ quota[u].count = 0) =>
       /\ q[u].count = 1 /\ q[u].reset = clock + Window
       /\ q[u].forgotten = FALSE => quota[u].forgotten = FALSE \/ ~InWindow(bucket, u)
  /\ Limited(u).ok /\ ~(clock > quota[u].reset \/ quota[u].count = 0) =>
       /\ q[u].count = quota[u].count + 1 /\ q[u].reset = quota[u].reset
       /\ q[u].forgotten = quota[u].forgotten

\* Whoever is charged, and whom the limiter forgot.
LEMMA ChargedIs ==
  ASSUME RateInv, clock \in Nat, NEW u \in Users, NEW b, b = Limited(u).b,
         u \in DOMAIN b
  PROVE  ChargeOK(Charged(u), u, b)
<1> DEFINE Quota == [count : Nat, reset : Nat, forgotten : BOOLEAN]
           lost == DOMAIN bucket \ DOMAIN b
           new == [count |-> 1, reset |-> clock + Window,
                   forgotten |-> quota[u].forgotten /\ InWindow(bucket, u)]
           more == [quota[u] EXCEPT !.count = @ + 1]
           mine == IF clock > quota[u].reset \/ quota[u].count = 0 THEN new ELSE more
           q == Charged(u)
           charged == IF Limited(u).ok THEN [quota EXCEPT ![u] = mine] ELSE quota
<1>1. quota \in [Users -> Quota]
  BY DEF RateInv
<1>2. q = [v \in Users |-> IF v \in lost THEN [charged[v] EXCEPT !.forgotten = TRUE]
                           ELSE charged[v]]
  BY DEF Charged
<1>3. /\ new \in Quota /\ new.count = 1 /\ new.reset = clock + Window
      /\ new.forgotten = FALSE => quota[u].forgotten = FALSE \/ ~InWindow(bucket, u)
  <2>1. clock + Window \in Nat
    BY SessionsAssumption
  <2>2. (quota[u].forgotten /\ InWindow(bucket, u)) \in BOOLEAN
    BY DEF InWindow
  <2>3. new.forgotten = (quota[u].forgotten /\ InWindow(bucket, u))
    OBVIOUS
  <2>4. quota[u].forgotten \in BOOLEAN
    BY <1>1
  <2> QED BY <2>1, <2>2, <2>3, <2>4
<1>4. /\ more \in Quota /\ more.count = quota[u].count + 1 /\ more.reset = quota[u].reset
      /\ more.forgotten = quota[u].forgotten
  <2>1. quota[u] \in Quota
    BY <1>1
  <2> QED BY <2>1
<1> HIDE DEF new, more
<1>5. mine \in Quota
  BY <1>3, <1>4
<1>6. /\ charged \in [Users -> Quota] /\ \A v \in Users \ {u} : charged[v] = quota[v]
      /\ charged[u] = IF Limited(u).ok THEN mine ELSE quota[u]
  BY <1>1, <1>5
<1> HIDE DEF mine, charged
<1>7. ASSUME NEW o \in Quota
      PROVE  [o EXCEPT !.forgotten = TRUE] \in Quota /\ [o EXCEPT !.forgotten = TRUE].forgotten = TRUE
  OBVIOUS
<1> HIDE DEF Quota, q
<1>8. q \in [Users -> Quota]
  BY <1>2, <1>6, <1>7
<1>9. q[u] = charged[u]
  BY <1>2
<1>10. /\ \A v \in Users : v # u /\ v \in DOMAIN bucket /\ v \notin DOMAIN b =>
           q[v].forgotten # FALSE
      /\ \A v \in Users : v # u /\ (v \in DOMAIN bucket => v \in DOMAIN b) =>
           q[v] = quota[v]
  BY <1>2, <1>6, <1>7
<1>11. ChargeOK(q, u, b)
  BY <1>3, <1>4, <1>6, <1>8, <1>9, <1>10 DEF mine, Quota, ChargeOK
<1> QED BY <1>11 DEF q

\* A request meets the limiter.
LEMMA RateOnArrive ==
  ASSUME TInv, RateInv, NEW u \in Users, bucket' = Limited(u).b, quota' = Charged(u),
         clock' = clock
  PROVE  RateInv'
<1> DEFINE b == bucket'
           q == quota'
<1>1. /\ clock \in Nat /\ BucketOK(bucket) /\ RateMax \in Nat \ {0} /\ Window \in Nat
      /\ quota \in [Users -> [count : Nat, reset : Nat, forgotten : BOOLEAN]]
      /\ \A v \in DOMAIN bucket : /\ bucket[v].count \in Nat /\ bucket[v].reset \in Nat
  BY SessionsAssumption DEF TInv, RateInv, BucketOK, Stored, Entry
<1>2. /\ BucketOK(b) /\ u \in DOMAIN b
      /\ \A v \in DOMAIN b : v # u => v \in DOMAIN bucket /\ b[v] = bucket[v]
      /\ InWindow(bucket, u) =>
           /\ DOMAIN b = DOMAIN bucket /\ b[u].reset = bucket[u].reset
           /\ b[u].count = bucket[u].count + 1
           /\ Limited(u).ok <=> bucket[u].count + 1 <= RateMax
      /\ ~InWindow(bucket, u) =>
           Limited(u).ok /\ b[u].count = 1 /\ b[u].reset = clock + Window
  BY <1>1, LimitedIs
<1>3. /\ q \in [Users -> [count : Nat, reset : Nat, forgotten : BOOLEAN]]
      /\ \A v \in Users : v # u /\ v \in DOMAIN bucket /\ v \notin DOMAIN b =>
           q[v].forgotten # FALSE
      /\ \A v \in Users : v # u /\ (v \in DOMAIN bucket => v \in DOMAIN b) =>
           q[v] = quota[v]
      /\ ~Limited(u).ok => q[u] = quota[u]
      /\ Limited(u).ok /\ (clock > quota[u].reset \/ quota[u].count = 0) =>
           /\ q[u].count = 1 /\ q[u].reset = clock + Window
           /\ q[u].forgotten = FALSE => quota[u].forgotten = FALSE \/ ~InWindow(bucket, u)
      /\ Limited(u).ok /\ ~(clock > quota[u].reset \/ quota[u].count = 0) =>
           /\ q[u].count = quota[u].count + 1 /\ q[u].reset = quota[u].reset
           /\ q[u].forgotten = quota[u].forgotten
  <2>1. b = Limited(u).b /\ q = Charged(u) /\ u \in DOMAIN b
    BY <1>2
  <2>2. ChargeOK(q, u, b)
    BY <1>1, <2>1, ChargedIs
  <2> HIDE DEF b, q
  <2> QED BY <2>2 DEF ChargeOK
<1>4. \A v : InWindow(bucket, v)' <=> v \in DOMAIN b /\ ~(clock > b[v].reset)
  BY DEF InWindow
<1>5. \A v : InWindow(bucket, v) <=> v \in DOMAIN bucket /\ ~(clock > bucket[v].reset)
  BY DEF InWindow
<1>6. \A v \in Users : quota[v].forgotten = FALSE =>
        /\ quota[v].count <= RateMax
        /\ InWindow(bucket, v) => /\ bucket[v].reset = quota[v].reset
                                  /\ 0 < quota[v].count /\ quota[v].count <= bucket[v].count
        /\ quota[v].count > 0 /\ clock <= quota[v].reset =>
             v \in DOMAIN bucket /\ bucket[v].reset = quota[v].reset
  BY DEF RateInv
<1> DEFINE Agrees(v) == /\ q[v].count <= RateMax
                        /\ InWindow(bucket, v)' => /\ b[v].reset = q[v].reset
                                                   /\ 0 < q[v].count /\ q[v].count <= b[v].count
                        /\ q[v].count > 0 /\ clock <= q[v].reset =>
                             v \in DOMAIN b /\ b[v].reset = q[v].reset
<1> HIDE DEF b, q
<1>7. ASSUME NEW v \in Users, v # u, q[v].forgotten = FALSE
      PROVE  Agrees(v)
  <2>1. (v \in DOMAIN bucket => v \in DOMAIN b) /\ q[v] = quota[v]
    BY <1>3, <1>7
  <2>2. (v \in DOMAIN b <=> v \in DOMAIN bucket) /\ (v \in DOMAIN b => b[v] = bucket[v])
    BY <1>2, <1>7, <2>1
  <2>3. InWindow(bucket, v)' <=> InWindow(bucket, v)
    BY <1>4, <1>5, <2>2
  <2> QED BY <1>5, <1>6, <1>7, <2>1, <2>2, <2>3
<1>8. ASSUME q[u].forgotten = FALSE
      PROVE  Agrees(u)
  <2>1. quota[u].count \in Nat /\ quota[u].reset \in Nat /\ quota[u].forgotten \in BOOLEAN
    BY <1>1
  <2>2. CASE InWindow(bucket, u)
    <3>1. u \in DOMAIN bucket /\ ~(clock > bucket[u].reset)
      BY <1>5, <2>2
    <3>2. quota[u].forgotten = FALSE
      BY <1>3, <1>8, <2>1, <2>2
    <3>3. /\ bucket[u].reset = quota[u].reset /\ 0 < quota[u].count
          /\ quota[u].count <= bucket[u].count /\ quota[u].count <= RateMax
      BY <1>6, <2>2, <3>2
    <3>4. ~(clock > quota[u].reset \/ quota[u].count = 0)
      BY <2>1, <3>1, <3>3
    <3>5. CASE Limited(u).ok
      <4>1. q[u].count = quota[u].count + 1 /\ q[u].reset = quota[u].reset
        BY <1>3, <3>4, <3>5
      <4>2. /\ bucket[u].count + 1 <= RateMax /\ b[u].reset = bucket[u].reset
            /\ b[u].count = bucket[u].count + 1
        BY <1>2, <2>2, <3>5
      <4>3. bucket[u].count \in Nat
        BY <1>1, <3>1
      <4> QED BY <1>1, <1>2, <2>1, <3>3, <4>1, <4>2, <4>3
    <3>6. CASE ~Limited(u).ok
      <4>1. q[u] = quota[u]
        BY <1>3, <3>6
      <4>2. b[u].reset = bucket[u].reset /\ b[u].count = bucket[u].count + 1
        BY <1>2, <2>2
      <4>3. bucket[u].count \in Nat
        BY <1>1, <3>1
      <4> QED BY <1>1, <1>2, <2>1, <3>3, <4>1, <4>2, <4>3
    <3> QED BY <3>5, <3>6
  <2>3. CASE ~InWindow(bucket, u)
    <3>1. Limited(u).ok /\ b[u].count = 1 /\ b[u].reset = clock + Window
      BY <1>2, <2>3
    <3>2. clock > quota[u].reset \/ quota[u].count = 0
      <4>1. ASSUME ~(clock > quota[u].reset \/ quota[u].count = 0)
            PROVE  FALSE
        <5>1. quota[u].forgotten = FALSE
          BY <1>3, <1>8, <3>1, <4>1
        <5>2. quota[u].count > 0 /\ clock <= quota[u].reset
          BY <1>1, <2>1, <4>1
        <5>3. u \in DOMAIN bucket /\ bucket[u].reset = quota[u].reset
          BY <1>6, <5>1, <5>2
        <5> QED BY <1>5, <2>3, <4>1, <5>3
      <4> QED BY <4>1
    <3>3. q[u].count = 1 /\ q[u].reset = clock + Window
      BY <1>3, <3>1, <3>2
    <3> QED BY <1>1, <1>2, <3>1, <3>3
  <2> QED BY <2>2, <2>3
<1>9. BucketOK(bucket)'
  BY <1>2 DEF b, BucketOK, Stored
<1>10. \A v \in Users : quota'[v].forgotten = FALSE => Agrees(v)
  <2> HIDE DEF Agrees
  <2> QED BY <1>7, <1>8 DEF q
<1> QED BY <1>3, <1>9, <1>10 DEF RateInv, b, q

\* The limiter drops the entries whose window is over.
LEMMA RateOnCleanUp ==
  ASSUME TInv, RateInv, CleanUp
  PROVE  RateInv'
<1> DEFINE old == {u \in DOMAIN bucket : clock > bucket[u].reset}
           b == bucket'
<1>1. /\ BucketOK(bucket) /\ clock \in Nat /\ quota' = quota /\ clock' = clock
      /\ b = Without(bucket, old)
      /\ \A v \in DOMAIN bucket : bucket[v].reset \in Nat
  BY DEF TInv, RateInv, CleanUp, BucketOK, Stored, Entry
<1>2. /\ Stored(b) /\ DOMAIN b = DOMAIN bucket \ old
      /\ \A v \in DOMAIN bucket \ old : b[v] = bucket[v]
  <2>1. /\ Stored(Without(bucket, old)) /\ DOMAIN Without(bucket, old) = DOMAIN bucket \ old
        /\ \A v \in DOMAIN bucket \ old : Without(bucket, old)[v] = bucket[v]
    <3> HIDE DEF old
    <3> QED BY <1>1, RestOK DEF BucketOK
  <2> HIDE DEF old, b
  <2> QED BY <1>1, <2>1
<1>3. BucketOK(bucket)'
  <2>1. Cardinality(DOMAIN b) <= Cardinality(DOMAIN bucket) /\ Cardinality(DOMAIN b) \in Nat
    BY <1>1, <1>2, FS_Subset, FS_CardinalityType DEF BucketOK, Stored
  <2>2. Cardinality(DOMAIN bucket) <= MaxKeys /\ Cardinality(DOMAIN bucket) \in Nat
    BY <1>1, FS_CardinalityType DEF BucketOK, Stored
  <2>3. Cardinality(DOMAIN b) <= MaxKeys
    <3> HIDE DEF b
    <3> QED BY <2>1, <2>2, SessionsAssumption
  <2> QED BY <1>2, <2>3 DEF BucketOK, Stored
<1>4. ASSUME NEW u \in Users, quota[u].forgotten = FALSE
      PROVE  /\ quota[u].count <= RateMax
             /\ InWindow(bucket, u)' => /\ b[u].reset = quota[u].reset
                                        /\ 0 < quota[u].count /\ quota[u].count <= b[u].count
             /\ quota[u].count > 0 /\ clock <= quota[u].reset =>
                  u \in DOMAIN b /\ b[u].reset = quota[u].reset
  <2>1. /\ quota[u].count <= RateMax
        /\ InWindow(bucket, u) => /\ bucket[u].reset = quota[u].reset
                                  /\ 0 < quota[u].count /\ quota[u].count <= bucket[u].count
        /\ quota[u].count > 0 /\ clock <= quota[u].reset =>
             u \in DOMAIN bucket /\ bucket[u].reset = quota[u].reset
    BY <1>4 DEF RateInv
  <2>2. InWindow(bucket, u)' => InWindow(bucket, u) /\ u \in DOMAIN bucket \ old
    BY <1>1, <1>2 DEF InWindow
  <2>3. quota[u].reset \in Nat
    BY DEF RateInv
  <2>4. ASSUME quota[u].count > 0 /\ clock <= quota[u].reset
        PROVE  u \in DOMAIN bucket \ old /\ bucket[u].reset = quota[u].reset
    BY <1>1, <2>1, <2>3, <2>4
  <2> HIDE DEF b, old
  <2> QED BY <1>2, <2>1, <2>2, <2>4
<1>5. quota' \in [Users -> [count : Nat, reset : Nat, forgotten : BOOLEAN]]
  BY <1>1 DEF RateInv
<1> QED BY <1>1, <1>3, <1>4, <1>5 DEF RateInv

\* They agree after every step.
LEMMA RateInvKept ==
  ASSUME TInv, RateInv, SessionNext
  PROVE  RateInv'
<1>1. clock \in Nat /\ clock' \in Nat
  BY TInvKept DEF TInv
<1>2. CASE UNCHANGED <<bucket, quota, clock>>
  BY <1>1, <1>2, RateStands
<1>3. ASSUME NEW r, NEW s, NEW u \in Users, NEW kind \in Kinds, Arrive(r, u, s, kind)
      PROVE  RateInv'
  BY <1>3, RateOnArrive DEF Arrive
<1>4. CASE SessionTick
  <2>1. UNCHANGED <<bucket, quota>> /\ clock <= clock'
    BY <1>1, <1>4 DEF SessionTick
  <2> QED BY <1>1, <2>1, RateStands
<1>5. CASE Handles
  BY <1>2, <1>5
     DEF Handles, Probe, Register, BuildFails, Answer, OpenStream, CloseSession, EndStream,
         Resume, ReplayStep
<1>6. CASE Forget
  <2>1. /\ bucket' = <<>> /\ DOMAIN bucket' = {}
        /\ quota' = [u \in Users |-> [count |-> 0, reset |-> 0, forgotten |-> FALSE]]
    BY <1>6 DEF Forget
  <2>2. BucketOK(bucket)'
    BY <2>1, FS_EmptySet, SessionsAssumption DEF BucketOK, Stored
  <2>3. /\ quota' \in [Users -> [count : Nat, reset : Nat, forgotten : BOOLEAN]]
        /\ \A u \in Users : quota'[u].count = 0
    BY <2>1
  <2>4. \A u : ~InWindow(bucket, u)'
    BY <2>1 DEF InWindow
  <2>5. 0 <= RateMax
    BY SessionsAssumption
  <2> QED BY <2>2, <2>3, <2>4, <2>5 DEF RateInv
<1> QED BY <1>2, <1>3, <1>4, <1>5, <1>6, RateOnCleanUp
     DEF SessionNext, Emit, Sweep, Shutdown, Dispose, Clear, sessionVars

(***************************************************************************)
(* Theorems.                                                               *)
(***************************************************************************)
\* What holds of the listener in every state of the server.
SessionInv == TInv /\ LiveInv /\ CapInv /\ ReplayInv /\ RateInv

\* All of it holds of a listener that has just started.
LEMMA SessionBegins ==
  ASSUME SessionsInit
  PROVE  SessionInv
<1>1. TInv
  BY TInvBegins
<1>2. LiveInv
  BY DEF SessionsInit, LiveInv
<1>3. CapInv
  <2>1. \A u \in Users : Of(u) = {} /\ Building(u) = {} /\ peak[u] = 0
    BY NoSessOK DEF SessionsInit, Of, Building, Unsent
  <2>2. Cardinality({}) = 0 /\ MaxSessions \in Nat /\ Excess(0) = 0
    BY FS_EmptySet, SessionsAssumption DEF Excess
  <2> QED BY <2>1, <2>2 DEF CapInv
<1>4. ReplayInv
  <2>1. \A r \in Reqs : req[r].phase # "replaying" /\ LogIs(log[r], stored[r])
    BY DEF SessionsInit, Unsent, LogIs
  <2> QED BY <2>1 DEF ReplayInv
<1>5. RateInv
  <2>1. /\ bucket = <<>> /\ DOMAIN bucket = {}
        /\ quota = [u \in Users |-> [count |-> 0, reset |-> 0, forgotten |-> FALSE]]
    BY DEF SessionsInit
  <2>2. BucketOK(bucket)
    BY <2>1, FS_EmptySet, SessionsAssumption DEF BucketOK, Stored
  <2>3. /\ quota \in [Users -> [count : Nat, reset : Nat, forgotten : BOOLEAN]]
        /\ \A u \in Users : quota[u].count = 0
    BY <2>1
  <2>4. \A u : ~InWindow(bucket, u)
    BY <2>1 DEF InWindow
  <2>5. 0 <= RateMax
    BY SessionsAssumption
  <2> QED BY <2>2, <2>3, <2>4, <2>5 DEF RateInv
<1> QED BY <1>1, <1>2, <1>3, <1>4, <1>5 DEF SessionInv

\* The five parts are inductive together: each needs the types, and no other.
LEMMA SessionHolds == Spec => []SessionInv
<1>1. Init => SessionInv
  BY SessionBegins DEF Init
<1>2. SessionInv /\ [Next]_vars => SessionInv'
  BY SessionSteps, TInvKept, LiveInvKept, CapInvKept, ReplayInvKept, RateInvKept
     DEF SessionInv
<1> QED BY <1>1, <1>2, PTL DEF Spec

\* A user has more sessions than the cap only by the initializes that were past
\* the check together, no client gets more than its quota in a window unless the
\* limiter forgot it, and the limiter's and the event store's maps keep their
\* bounds (http-transport.ts, rate-limit.ts, in-memory-event-store.ts).
THEOREM LimitsHold == Spec => []QuotasHeld
<1>1. SessionInv => QuotasHeld
  <2> SUFFICES ASSUME SessionInv PROVE QuotasHeld
    OBVIOUS
  <2>1. SessionsTypeOK
    <3>1. RequestsTypeOK
      BY TInvMeans DEF SessionInv
    <3>2. \A s \in DOMAIN sess : sess[s].last <= clock
      BY DEF SessionInv, TInv, SessOK
    <3>3. Cardinality(DOMAIN bucket) <= MaxKeys
      BY DEF SessionInv, RateInv, BucketOK
    <3>4. \A s \in Reqs : Len(log[s]) <= MaxEvents
      BY DEF SessionInv, TInv
    <3> QED BY <3>1, <3>2, <3>3, <3>4 DEF SessionsTypeOK
  <2>2. SessionsCapped
    BY CapMeans DEF SessionInv
  <2>3. RateHeld
    BY DEF SessionInv, RateInv, RateHeld
  <2> QED BY <2>1, <2>2, <2>3 DEF QuotasHeld
<1> QED BY <1>1, SessionHolds, PTL

\* After stop() has disposed the sessions it saw, a pair without a request on it
\* stays alive only if it was answered or registered while stop() was at work
\* (http-transport.ts, stop).
THEOREM OnlyLateOnesLeak == Spec => []LeakedOnlyIfLate
<1>1. SessionInv => LeakedOnlyIfLate
  BY DEF SessionInv, LiveInv, LeakedOnlyIfLate
<1> QED BY <1>1, SessionHolds, PTL

\* A replay has sent every event of its stream after the anchor up to where it
\* is, once and in order, except those evicted before it came to them
\* (in-memory-event-store.ts, replayEventsAfter).
THEOREM ReplaysAreComplete == Spec => []ReplayComplete
<1>1. SessionInv => ReplayComplete
  BY ReplayMeans DEF SessionInv
<1> QED BY <1>1, SessionHolds, PTL
==============================================================================
