------------------------------ MODULE FileLock ------------------------------
(***************************************************************************)
(* The lock file that keeps two processes from opening the same data file  *)
(* (drivers/file/fileBackend.ts).                                          *)
(*                                                                         *)
(* The lock is a file created with 'wx' that holds its creator's pid.  A   *)
(* lock whose pid is dead is removed, and the creation is tried once more  *)
(* and then verified.  Every system call is an action of its own: the      *)
(* calls of different processes interleave, and a process may be killed    *)
(* between two of its calls.  A pid is never given to another process.     *)
(***************************************************************************)
EXTENDS Naturals, FiniteSets

CONSTANTS
  Processes,  \* processes that open the data file, one datastore at a time
  NoFile      \* there is no lock file

ASSUME NoFileAssumption == NoFile \notin Processes

VARIABLES
  creator,    \* the process that created the lock file, or NoFile
  written,    \* the file has its content; an empty file is not valid JSON
  alive,      \* the processes that process.kill(pid, 0) finds
  pc,         \* per process, the next system call
  retrying,   \* per process: it has removed a stale lock
  seen,       \* per process, the pid it has read
  \* history
  undisturbed,  \* the processes whose open() no other process has met
  mistaken,     \* a recovery has removed another lock than it had read
  spoiled       \* a write of the lock file has failed

file    == <<creator, written>>
locals  == <<retrying, seen>>
history == <<undisturbed, mistaken, spoiled>>
vars == <<file, alive, pc, locals, history>>

Places == {"idle", "create", "write", "read", "judge", "remove", "verify",
           "held", "release", "dead"}

Init ==
  /\ creator = NoFile
  /\ written = FALSE
  /\ alive = Processes
  /\ pc = [p \in Processes |-> "idle"]
  /\ retrying = [p \in Processes |-> FALSE]
  /\ seen = [p \in Processes |-> NoFile]
  /\ undisturbed = {}
  /\ mistaken = FALSE
  /\ spoiled = FALSE

-----------------------------------------------------------------------------
(* History: p goes on to a place; whoever else is opening has met p. *)

Goto(p, place) == pc' = [pc EXCEPT ![p] = place]

Met(p) == undisturbed' = undisturbed \intersect {p}

Steps(p, place) ==
  Goto(p, place) /\ Met(p) /\ UNCHANGED <<alive, mistaken, spoiled>>

\* The call ends and the process has no lock.
Ends(p) == Steps(p, "idle") /\ retrying' = [retrying EXCEPT ![p] = FALSE]

-----------------------------------------------------------------------------
(* acquireFileLock, in the constructor of the backend. *)

Open(p) ==
  /\ pc[p] = "idle"
  /\ Goto(p, "create")
  /\ undisturbed' =
       IF \A q \in Processes \ {p} : pc[q] \in {"idle", "dead"} THEN {p} ELSE {}
  /\ UNCHANGED <<file, alive, locals, mistaken, spoiled>>

\* writeLockFile: openSync with 'wx'
CreateLock(p) ==
  /\ pc[p] = "create"
  /\ creator = NoFile
  /\ creator' = p /\ written' = FALSE
  /\ Steps(p, "write")
  /\ UNCHANGED locals

\* EEXIST: the first time the lock may be stale, the second time it is not.
CreateRefused(p) ==
  /\ pc[p] = "create"
  /\ creator # NoFile
  /\ \/ ~retrying[p] /\ Steps(p, "read") /\ UNCHANGED retrying
     \/ retrying[p] /\ Ends(p)
  /\ UNCHANGED <<file, seen>>

\* (faulty: written by name, whatever file there is by now)
WriteLock_ByName(p) ==
  /\ pc[p] = "write"
  /\ written' = TRUE
  /\ Steps(p, IF retrying[p] THEN "verify" ELSE "held")
  /\ UNCHANGED <<creator, locals>>

\* writeLockFile: writeSync.  The descriptor may be that of a file another
\* process has removed from the directory.
WriteLock(p) ==
  /\ pc[p] = "write"
  /\ written' = (written \/ creator = p)
  /\ Steps(p, IF retrying[p] THEN "verify" ELSE "held")
  /\ UNCHANGED <<creator, locals>>

WriteLockFails(p) ==
  /\ pc[p] = "write"
  /\ Goto(p, "idle")
  /\ Met(p)
  /\ retrying' = [retrying EXCEPT ![p] = FALSE]
  /\ spoiled' = TRUE
  /\ UNCHANGED <<file, alive, seen, mistaken>>

\* tryRecoverStaleLock: readFileSync
\* (faulty: a lock without a pid is taken for stale)
ReadLock_EmptyIsStale(p) ==
  /\ pc[p] = "read"
  /\ \/ /\ creator # NoFile /\ written
        /\ seen' = [seen EXCEPT ![p] = creator]
        /\ Steps(p, "judge")
        /\ UNCHANGED retrying
     \/ /\ creator # NoFile /\ ~written
        /\ Steps(p, "remove")
        /\ UNCHANGED locals
     \/ /\ creator = NoFile
        /\ Ends(p)
        /\ UNCHANGED seen
  /\ UNCHANGED file

ReadLock(p) ==
  /\ pc[p] = "read"
  /\ \/ /\ creator # NoFile /\ written
        /\ seen' = [seen EXCEPT ![p] = creator]
        /\ Steps(p, "judge")
        /\ UNCHANGED retrying
     \/ /\ creator = NoFile \/ ~written
        /\ Ends(p)
        /\ UNCHANGED seen
  /\ UNCHANGED file

\* isProcessAlive
\* (faulty: a dead process is taken for one of another user)
JudgeLock_AlwaysAlive(p) ==
  /\ pc[p] = "judge"
  /\ Ends(p)
  /\ UNCHANGED <<file, seen>>

JudgeLock(p) ==
  /\ pc[p] = "judge"
  /\ \/ seen[p] \notin alive /\ Steps(p, "remove") /\ UNCHANGED retrying
     \/ seen[p] \in alive /\ Ends(p)
  /\ UNCHANGED <<file, seen>>

\* unlinkSync: whatever file has the name by now
RemoveStaleLock(p) ==
  /\ pc[p] = "remove"
  /\ \/ creator # NoFile /\ Goto(p, "create") /\ retrying' = [retrying EXCEPT ![p] = TRUE]
     \/ creator = NoFile /\ Goto(p, "idle") /\ UNCHANGED retrying
  /\ creator' = NoFile /\ written' = FALSE
  /\ mistaken' = (mistaken \/ creator \notin {seen[p], NoFile})
  /\ Met(p)
  /\ UNCHANGED <<alive, seen, spoiled>>

\* verifyLockOwnership
VerifyLock(p) ==
  /\ pc[p] = "verify"
  /\ \/ /\ creator = p /\ written
        /\ Steps(p, "held")
        /\ retrying' = [retrying EXCEPT ![p] = FALSE]
     \/ /\ creator # p \/ ~written
        /\ Ends(p)
  /\ UNCHANGED <<file, seen>>

-----------------------------------------------------------------------------
(* releaseFileLock, by close() or after a failure to open the data. *)

ReleaseBegins(p) ==
  /\ pc[p] = "held"
  /\ Steps(p, IF creator # NoFile THEN "release" ELSE "idle")
  /\ UNCHANGED <<file, locals>>

\* unlinkSync; when the file has just gone, close() fails
\* (faulty: the file is left)
ReleaseUnlinks_Not(p) ==
  /\ pc[p] = "release"
  /\ Steps(p, "idle")
  /\ UNCHANGED <<file, locals>>

ReleaseUnlinks(p) ==
  /\ pc[p] = "release"
  /\ creator' = NoFile /\ written' = FALSE
  /\ Steps(p, "idle")
  /\ UNCHANGED locals

\* The process is killed; its lock file stays.
Crash(p) ==
  /\ p \in alive
  /\ alive' = alive \ {p}
  /\ Goto(p, "dead")
  /\ retrying' = [retrying EXCEPT ![p] = FALSE]
  /\ Met(p)
  /\ UNCHANGED <<file, seen, mistaken, spoiled>>

Next ==
  \E p \in Processes :
    \/ Open(p) \/ CreateLock(p) \/ CreateRefused(p) \/ WriteLock(p) \/ WriteLockFails(p)
    \/ ReadLock(p) \/ JudgeLock(p) \/ RemoveStaleLock(p) \/ VerifyLock(p)
    \/ ReleaseBegins(p) \/ ReleaseUnlinks(p)
    \/ Crash(p)

Spec == Init /\ [][Next]_vars
-----------------------------------------------------------------------------
Holders == {p \in Processes : pc[p] \in {"held", "release"}}

TypeOK ==
  /\ creator \in Processes \union {NoFile}
  /\ written \in BOOLEAN
  /\ written => creator # NoFile
  /\ alive \subseteq Processes
  /\ pc \in [Processes -> Places]
  /\ retrying \in [Processes -> BOOLEAN]
  /\ \A p \in Processes : retrying[p] => pc[p] \in {"create", "write", "verify"}
  /\ seen \in [Processes -> Processes \union {NoFile}]
  /\ undisturbed \subseteq Processes
  /\ mistaken \in BOOLEAN
  /\ spoiled \in BOOLEAN

(***************************************************************************)
(* One process at a time has the data file open, whatever is killed and    *)
(* recovered -- except after one accident: a lock was read and found       *)
(* stale, but by the time it was removed another process had replaced it.  *)
(***************************************************************************)
SingleWriterUnlessMistaken ==
  ~mistaken => \A p, q \in Holders : p = q

(***************************************************************************)
(* A process that opens while no other does anything, and finds no empty   *)
(* lock file, gets the lock unless a live process holds it: it recovers    *)
(* the lock of a dead one.                                                 *)
(***************************************************************************)
StaleLockRecovered ==
  [][\A p \in Processes :
       /\ p \in undisturbed
       /\ pc[p] \in {"create", "read", "judge", "remove", "verify"}
       /\ pc'[p] = "idle"
       => creator # NoFile /\ ~written]_vars

(***************************************************************************)
(* Lock files do not accumulate: when every process has closed, none has   *)
(* been killed and no write has failed, there is none.                     *)
(***************************************************************************)
ClosedLeavesNoLock ==
  alive = Processes /\ ~spoiled /\ (\A p \in Processes : pc[p] = "idle") => creator = NoFile

(***************************************************************************)
(* What the lock is documented to do: enforce a single writer.             *)
(***************************************************************************)
SingleWriter == \A p, q \in Holders : p = q
=============================================================================
