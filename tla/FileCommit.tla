----------------------------- MODULE FileCommit -----------------------------
(***************************************************************************)
(* How the file driver keeps a snapshot through crashes                    *)
(* (drivers/file/fileBackendSnapshot.ts, fileBackend.ts,                   *)
(* fileBackendController.ts): generation files, a sidecar that names the   *)
(* active one, and the order in which they are written, renamed and        *)
(* flushed.                                                                *)
(*                                                                         *)
(* The process holds the lock file, so it is alone.  It may be killed, and *)
(* the machine may lose power, between any two system calls; each call may *)
(* fail.  The file system is POSIX with a metadata journal: what a power   *)
(* loss leaves is the directory as it was at some moment since the last    *)
(* fsync of the directory.  A state of the records is a version.           *)
(***************************************************************************)
EXTENDS Integers, FiniteSets

CONSTANTS
  MaxCommitId,  \* Number.MAX_SAFE_INTEGER in the code
  MaxVersion    \* bound: mutations in a behaviour

ASSUME MaxCommitIdAssumption == MaxCommitId \in Nat
ASSUME MaxVersionAssumption == MaxVersion \in Nat

VARIABLES
  disk,      \* generations and sidecar, as the system calls show them
  past,      \* the same, as a power loss can leave them
  temps,     \* the kinds of temporary files there are: "gen", "meta"
  step,      \* "closed"; opening: "cleanup", "createData", "writeData",
             \* "syncData", "createSidecar", "writeSidecar", "syncSidecar",
             \* "load"; "ready"; committing: "writeGen", "renameGen",
             \* "writeMeta", "renameMeta", "syncDir", "unlinkOld"
  commitId,  \* backend.commitId, and the number in backend.activeDataFile
  version,   \* the state of the records in memory
  \* history
  latest,    \* the last version there has been
  acked,     \* the version of the last commit that succeeded
  created,   \* the initial snapshot has been flushed
  lastFailed, leftover  \* the last commit, an unlink since opening, failed

history == <<acked, created, lastFailed, leftover>>
vars == <<disk, past, temps, step, commitId, version, latest, history>>

Absent == -1
Torn   == -2  \* created and not written

Generations == 0..MaxCommitId

Empty == [gens |-> [n \in Generations |-> Absent], sidecar |-> Absent]

Init ==
  /\ disk = Empty
  /\ past = {Empty}
  /\ temps = {}
  /\ step = "closed"
  /\ commitId = 0
  /\ version = 0
  /\ latest = 0
  /\ acked = 0
  /\ created = FALSE
  /\ lastFailed = FALSE
  /\ leftover = FALSE

-----------------------------------------------------------------------------
(* The file system. *)

\* A call changes the directory; until a flush it may or may not be on disk.
Becomes(d) ==
  /\ disk' = d
  /\ past' = past \union {d}

\* (faulty: the directory is not flushed)
FlushDirectory_Not == UNCHANGED past

\* fsync of the directory
FlushDirectory == past' = {disk}

\* fsync of a file that was written where it is: no torn version is left.
DataFlushed(d) ==
  IF d.gens[0] = Torn THEN [d EXCEPT !.gens[0] = disk.gens[0]] ELSE d

SidecarFlushed(d) ==
  IF d.sidecar = Torn THEN [d EXCEPT !.sidecar = disk.sidecar] ELSE d

Present(d) == {n \in Generations : d.gens[n] # Absent}

Without(d, removed) ==
  [d EXCEPT !.gens = [n \in Generations |-> IF n \in removed THEN Absent ELSE d.gens[n]]]

\* loadFileSnapshot: the version that opening directory d finds; no sidecar
\* is a new database, and Torn stands for PageCorruptionError.
Reads(d) ==
  IF d.sidecar = Absent THEN 0
  ELSE IF d.sidecar = Torn \/ d.gens[d.sidecar] = Absent THEN Torn
  ELSE d.gens[d.sidecar]

-----------------------------------------------------------------------------
(* Opening. *)

Open ==
  /\ step = "closed"
  /\ step' = "cleanup"
  /\ commitId' = 0
  /\ UNCHANGED <<disk, past, temps, version, latest, history>>

\* cleanupFileTempArtifacts, then the choice of FileBackendController.create
CleanTemporaries ==
  /\ step = "cleanup"
  /\ temps' = {}
  /\ \/ disk.sidecar = Absent /\ step' = "createData" /\ created' = FALSE
     \/ disk.sidecar # Absent /\ step' = "load" /\ UNCHANGED created
  /\ UNCHANGED <<commitId, version, latest, acked, lastFailed, leftover, disk, past>>

\* writeInitialFileSnapshot: both files are written where they are
CreateFile(current, next, d) ==
  /\ step = current
  /\ step' = next
  /\ Becomes(d)
  /\ UNCHANGED <<temps, commitId, version, latest, history>>

CreateInitialData ==
  CreateFile("createData", "writeData", [disk EXCEPT !.gens[0] = Torn])

WriteInitialData ==
  CreateFile("writeData", "syncData", [disk EXCEPT !.gens[0] = 0])

FlushInitialData ==
  /\ step = "syncData"
  /\ step' = "createSidecar"
  /\ past' = {DataFlushed(d) : d \in past}
  /\ UNCHANGED <<disk, temps, commitId, version, latest, history>>

CreateInitialSidecar ==
  CreateFile("createSidecar", "writeSidecar", [disk EXCEPT !.sidecar = Torn])

WriteInitialSidecar ==
  CreateFile("writeSidecar", "syncSidecar", [disk EXCEPT !.sidecar = 0])

FlushInitialSidecar ==
  /\ step = "syncSidecar"
  /\ step' = "ready"
  /\ past' = {SidecarFlushed(d) : d \in past}
  /\ version' = 0
  /\ created' = TRUE
  /\ lastFailed' = FALSE
  /\ leftover' = FALSE
  /\ UNCHANGED <<disk, temps, commitId, latest, acked>>

\* loadFileSnapshot and cleanupStaleGenerationFiles, which may stop anywhere
Stale(d) == Present(d) \ {d.sidecar}

Load ==
  /\ step = "load"
  /\ Reads(disk) # Torn
  /\ step' = "ready"
  /\ commitId' = disk.sidecar
  /\ version' = Reads(disk)
  /\ lastFailed' = FALSE
  /\ \E removed \in SUBSET Stale(disk) :
       /\ disk' = Without(disk, removed)
       /\ past' = past \union {Without(disk, some) : some \in SUBSET removed}
       /\ leftover' = (removed # Stale(disk))
  /\ UNCHANGED <<temps, latest, acked, created>>

\* Any step of opening may fail, and a corrupt snapshot does.
OpenFails ==
  /\ step \in {"cleanup", "createData", "writeData", "syncData", "createSidecar",
               "writeSidecar", "syncSidecar", "load"}
  /\ step' = "closed"
  /\ UNCHANGED <<disk, past, temps, commitId, version, latest, history>>

-----------------------------------------------------------------------------
(* commitFileBackendSnapshot; n is nextCommitId. *)

Mutate ==
  /\ step = "ready"
  /\ latest < MaxVersion
  /\ latest' = latest + 1
  /\ version' = latest'
  /\ UNCHANGED <<disk, past, temps, step, commitId, history>>

CommitIdsLeft_OneMore == commitId <= MaxCommitId  \* (faulty)

CommitIdsLeft == commitId < MaxCommitId

CommitBegins ==
  /\ step = "ready"
  /\ CommitIdsLeft
  /\ step' = "writeGen"
  /\ UNCHANGED <<disk, past, temps, commitId, version, latest, history>>

\* commitId has reached Number.MAX_SAFE_INTEGER
CommitRefused ==
  /\ step = "ready"
  /\ ~CommitIdsLeft
  /\ lastFailed' = TRUE
  /\ UNCHANGED <<disk, past, temps, step, commitId, version, latest, acked, created, leftover>>

NextCommitId == commitId + 1

CommitStep(current, next) ==
  /\ step = current
  /\ step' = next
  /\ UNCHANGED <<commitId, version, latest, history>>

WriteGeneration ==
  /\ CommitStep("writeGen", "renameGen")
  /\ temps' = temps \union {"gen"}
  /\ UNCHANGED <<disk, past>>

RenameGeneration ==
  /\ CommitStep("renameGen", "writeMeta")
  /\ temps' = temps \ {"gen"}
  /\ Becomes([disk EXCEPT !.gens[NextCommitId] = version])

WriteMeta ==
  /\ CommitStep("writeMeta", "renameMeta")
  /\ temps' = temps \union {"meta"}
  /\ UNCHANGED <<disk, past>>

RenameMeta ==
  /\ CommitStep("renameMeta", "syncDir")
  /\ temps' = temps \ {"meta"}
  /\ Becomes([disk EXCEPT !.sidecar = NextCommitId])

SyncDirectory ==
  /\ CommitStep("syncDir", "unlinkOld")
  /\ FlushDirectory
  /\ UNCHANGED <<disk, temps>>

\* A call fails, having changed nothing or left a temporary file.
CommitFails ==
  /\ step \in {"writeGen", "renameGen", "writeMeta", "renameMeta", "syncDir"}
  /\ step' = "ready"
  /\ lastFailed' = TRUE
  /\ \/ UNCHANGED temps
     \/ step = "writeGen" /\ temps' = temps \union {"gen"}
     \/ step = "writeMeta" /\ temps' = temps \union {"meta"}
  /\ UNCHANGED <<disk, past, commitId, version, latest, acked, created, leftover>>

\* The previous generation is removed if it can be, and the commit returns.
\* (faulty: removes the one before it)
Previous_OneEarlier == commitId - 1

Previous == commitId

CommitReturns ==
  /\ step = "unlinkOld"
  /\ step' = "ready"
  /\ commitId' = NextCommitId
  /\ \/ Becomes(Without(disk, {Previous})) /\ UNCHANGED leftover
     \/ UNCHANGED <<disk, past>> /\ leftover' = TRUE
  /\ acked' = version
  /\ created' = TRUE
  /\ lastFailed' = FALSE
  /\ UNCHANGED <<temps, version, latest>>

-----------------------------------------------------------------------------
Close ==
  /\ step = "ready"
  /\ step' = "closed"
  /\ UNCHANGED <<disk, past, temps, commitId, version, latest, history>>

Killed ==
  /\ step # "closed"
  /\ step' = "closed"
  /\ UNCHANGED <<disk, past, temps, commitId, version, latest, history>>

PowerLoss ==
  /\ disk' \in past
  /\ past' = {disk'}
  /\ temps' \in SUBSET {"gen", "meta"}
  /\ step' = "closed"
  /\ UNCHANGED <<commitId, version, latest, history>>

OpenSteps ==
  \/ Open \/ CleanTemporaries
  \/ CreateInitialData \/ WriteInitialData \/ FlushInitialData
  \/ CreateInitialSidecar \/ WriteInitialSidecar \/ FlushInitialSidecar
  \/ Load \/ OpenFails

CommitSteps ==
  \/ CommitBegins \/ CommitRefused \/ WriteGeneration \/ RenameGeneration
  \/ WriteMeta \/ RenameMeta \/ SyncDirectory \/ CommitFails \/ CommitReturns

Next == OpenSteps \/ Mutate \/ CommitSteps \/ Close \/ Killed \/ PowerLoss

Spec == Init /\ [][Next]_vars
-----------------------------------------------------------------------------
Directory ==
  [gens : [Generations -> {Absent, Torn} \union Nat],
   sidecar : {Absent, Torn} \union Generations]

TypeOK ==
  /\ disk \in Directory
  /\ past \subseteq Directory
  /\ disk \in past
  /\ temps \subseteq {"gen", "meta"}
  /\ step \in {"closed", "cleanup", "createData", "writeData", "syncData",
               "createSidecar", "writeSidecar", "syncSidecar", "load", "ready",
               "writeGen", "renameGen", "writeMeta", "renameMeta", "syncDir", "unlinkOld"}
  /\ commitId \in Generations
  /\ latest \in Nat
  /\ version \in 0..latest
  /\ acked \in 0..latest
  /\ created \in BOOLEAN
  /\ lastFailed \in BOOLEAN
  /\ leftover \in BOOLEAN

(***************************************************************************)
(* The driver implements the durable store: whatever is killed, cut off or *)
(* fails at any system call, a reopening finds a whole snapshot, and none  *)
(* older than the last successful commit.  Nothing is promised before the  *)
(* initial snapshot, which is not written atomically, is complete.         *)
(***************************************************************************)
Outcomes == IF created THEN {Reads(d) : d \in past} ELSE {0}

Store == INSTANCE DurableStore WITH Versions <- 0..MaxVersion, outcomes <- Outcomes

ImplementsDurableStore == Store!Spec

(***************************************************************************)
(* After a commit that succeeded, or an opening, the directory holds the   *)
(* active generation and nothing else, however many commits had failed,    *)
(* unless the removal of a file failed.                                    *)
(***************************************************************************)
NoGarbageAfterCommit ==
  step = "ready" /\ ~lastFailed /\ ~leftover =>
    /\ Present(disk) = {disk.sidecar}
    /\ disk.sidecar = commitId
    /\ temps = {}
=============================================================================
