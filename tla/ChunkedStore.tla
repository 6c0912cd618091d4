---------------------------- MODULE ChunkedStore ----------------------------
(***************************************************************************)
(* How localStorage and syncStorage keep a snapshot                        *)
(* (drivers/localStorage/, drivers/syncStorage/): it is cut into chunks    *)
(* stored under the next generation's keys, and a manifest then switches   *)
(* to that generation.                                                     *)
(*                                                                         *)
(* localStorage stores item by item in one synchronous stretch; only a     *)
(* crash or a failing call separates its steps.  syncStorage stores chunks *)
(* and manifest in one call, and awaits each call, so mutations go on.     *)
(* Calls of the two storages are atomic and durable when they return; a    *)
(* crash is that of the tab or extension.                                  *)
(***************************************************************************)
EXTENDS Integers

CONSTANTS
  MaxChunks,      \* maxChunks of the configuration
  MaxGeneration,  \* Number.MAX_SAFE_INTEGER in the code
  MaxVersion      \* bound: mutations in a behaviour

ASSUME BoundsAssumption ==
  /\ MaxChunks \in Nat \ {0}
  /\ MaxGeneration \in Nat
  /\ MaxVersion \in Nat

VARIABLES
  driver,       \* "local" or "sync"
  items,        \* the version whose chunk is stored, by generation and index
  manifest,     \* [generation, count], as stored
  step,         \* "closed", "ready", and the next step of a commit:
                \* "clean", "chunks", "manifest", "forget"
  generation,   \* state.activeGeneration, and state.commitId
  chunkCount,   \* state.activeChunkCount
  records,      \* the state in memory: its version and its number of chunks
  snapshot,     \* the one a commit has taken
  written,      \* chunks of it that have been stored
  \* history
  latest,       \* the last version there has been
  acked,        \* the version of the last commit that succeeded
  settled,      \* no commit has begun since
  leaked        \* an active generation was replaced and not all removed

config  == driver
storage == <<items, manifest>>
memory  == <<generation, chunkCount>>
history == <<acked, settled, leaked>>
vars == <<config, storage, step, memory, records, snapshot, written, latest, history>>

Absent == -1
Torn   == -2

Generations == 0..MaxGeneration
Indices     == 1..MaxChunks

NoManifest == [generation |-> 0, count |-> Absent]

Init ==
  /\ driver \in {"local", "sync"}
  /\ items = [g \in Generations |-> [i \in Indices |-> Absent]]
  /\ manifest = NoManifest
  /\ step = "closed"
  /\ generation = 0
  /\ chunkCount = 0
  /\ records = [version |-> 0, size |-> 1]
  /\ snapshot = records
  /\ written = 0
  /\ latest = 0
  /\ acked = 0
  /\ settled = TRUE
  /\ leaked = FALSE

-----------------------------------------------------------------------------
(* The storage. *)

Present(its, g) == {i \in Indices : its[g][i] # Absent}

Removed(g, gone) ==
  [items EXCEPT ![g] = [i \in Indices |-> IF i \in gone THEN Absent ELSE items[g][i]]]

\* Removing several items: localStorage goes on after each failure,
\* syncStorage removes them in one call.
Removable(gone) == {some \in SUBSET gone : driver = "local" \/ some \in {{}, gone}}

\* loadLocalStorageSnapshot, loadSyncStorageSnapshot: the version found.  A
\* missing chunk, or chunks of several versions, are no snapshot.
Loads(its, man) ==
  IF man = NoManifest THEN 0
  ELSE LET first == its[man.generation][1]
       IN  IF first # Absent /\ \A i \in 1..man.count : its[man.generation][i] = first
           THEN first ELSE Torn

-----------------------------------------------------------------------------
(* Opening, and the mutations meanwhile. *)

Open ==
  /\ step = "closed"
  /\ Loads(items, manifest) # Torn
  /\ step' = "ready"
  /\ generation' = manifest.generation
  /\ chunkCount' = (IF manifest = NoManifest THEN 0 ELSE manifest.count)
  /\ records' = [version |-> Loads(items, manifest),
                 size |-> IF manifest = NoManifest THEN 1 ELSE manifest.count]
  /\ UNCHANGED <<config, storage, snapshot, written, latest, history>>

\* Another version, of any number of chunks
Mutate ==
  /\ step = "ready" \/ (driver = "sync" /\ step # "closed")
  /\ latest < MaxVersion
  /\ latest' = latest + 1
  /\ \E size \in 1..MaxChunks + 1 : records' = [version |-> latest', size |-> size]
  /\ UNCHANGED <<config, storage, step, memory, snapshot, written, history>>

-----------------------------------------------------------------------------
(* commitLocalStorageSnapshot, commitSyncStorageSnapshot. *)

NextGeneration_Same == generation  \* (faulty: the active chunks are overwritten)

NextGeneration == generation + 1

Fits_OneMore(size) == size <= MaxChunks + 1  \* (faulty)

Fits(size) == size <= MaxChunks

CommitBegins ==
  /\ step = "ready"
  /\ settled' = FALSE
  /\ \/ /\ generation < MaxGeneration
        /\ Fits(records.size)
        /\ step' = "clean"
        /\ snapshot' = records
        /\ written' = 0
     \/ /\ generation >= MaxGeneration \/ ~Fits(records.size)
        /\ UNCHANGED <<step, snapshot, written>>
  /\ UNCHANGED <<config, storage, memory, records, latest, acked, leaked>>

\* What an earlier attempt at this generation has left is removed, if it can
\* be: stale chunks behind the last one would not be read.
CleanNext ==
  /\ step = "clean"
  /\ step' = "chunks"
  /\ \E gone \in Removable(Present(items, NextGeneration)) :
       items' = Removed(NextGeneration, gone)
  /\ leaked' = (leaked \/ Present(items', NextGeneration) # {})
  /\ UNCHANGED <<config, manifest, memory, records, snapshot, written, latest, acked, settled>>

\* localStorage: setItem for each chunk, then for the manifest
StoreChunk ==
  /\ driver = "local"
  /\ step = "chunks"
  /\ written' = written + 1
  /\ items' = [items EXCEPT ![NextGeneration][written'] = snapshot.version]
  /\ step' = IF written' = snapshot.size THEN "manifest" ELSE "chunks"
  /\ UNCHANGED <<config, manifest, memory, records, snapshot, latest, history>>

StoreManifest ==
  /\ driver = "local"
  /\ step = "manifest"
  /\ manifest' = [generation |-> NextGeneration, count |-> snapshot.size]
  /\ step' = "forget"
  /\ UNCHANGED <<config, items, memory, records, snapshot, written, latest, history>>

\* syncStorage: one call of setItems
StoreAll ==
  /\ driver = "sync"
  /\ step = "chunks"
  /\ items' = [items EXCEPT ![NextGeneration] =
       [i \in Indices |-> IF i <= snapshot.size THEN snapshot.version
                                                ELSE items[NextGeneration][i]]]
  /\ manifest' = [generation |-> NextGeneration, count |-> snapshot.size]
  /\ step' = "forget"
  /\ UNCHANGED <<config, memory, records, snapshot, written, latest, history>>

\* A call fails, for the quota or otherwise; what has been stored stays.
\* syncStorage ignores failures of the first clean-up.
CommitFails ==
  /\ step \in {"chunks", "manifest"} \/ (step = "clean" /\ driver = "local")
  /\ step' = "ready"
  /\ UNCHANGED <<config, storage, memory, records, snapshot, written, latest, history>>

\* The chunks of the previous generation that cleanupGenerationChunks removes
Previous_NewCount == Present(items, generation) \intersect 1..snapshot.size  \* (faulty)

Previous == Present(items, generation) \intersect 1..chunkCount

\* The fields are set before the clean-up; syncStorage reports its failure.
CommitReturns ==
  /\ step = "forget"
  /\ step' = "ready"
  /\ generation' = NextGeneration
  /\ chunkCount' = snapshot.size
  /\ \E gone \in Removable(Previous) :
       /\ items' = Removed(generation, gone)
       /\ leaked' = (leaked \/ gone # Previous)
       /\ \/ /\ driver = "sync" /\ gone # Previous
             /\ UNCHANGED <<acked, settled>>
          \/ /\ driver = "local" \/ gone = Previous
             /\ acked' = snapshot.version
             /\ settled' = TRUE
  /\ UNCHANGED <<config, manifest, records, snapshot, written, latest>>

-----------------------------------------------------------------------------
\* close(), or the end of the tab: everything in memory is gone.
Ends ==
  /\ step # "closed"
  /\ step' = "closed"
  /\ leaked' = (leaked \/ step = "forget")
  /\ UNCHANGED <<config, storage, memory, records, snapshot, written, latest, acked, settled>>

CommitSteps ==
  \/ CommitBegins \/ CleanNext \/ StoreChunk \/ StoreManifest \/ StoreAll
  \/ CommitFails \/ CommitReturns

Next == Open \/ Mutate \/ CommitSteps \/ Ends

Spec == Init /\ [][Next]_vars
-----------------------------------------------------------------------------
Snapshots == [version : 0..latest, size : 1..MaxChunks + 1]

TypeOK ==
  /\ driver \in {"local", "sync"}
  /\ items \in [Generations -> [Indices -> {Absent} \union 0..latest]]
  /\ manifest = NoManifest \/ manifest \in [generation : Generations, count : Indices]
  /\ step \in {"closed", "ready", "clean", "chunks", "manifest", "forget"}
  /\ generation \in Generations
  /\ chunkCount \in 0..MaxChunks
  /\ records \in Snapshots
  /\ snapshot \in Snapshots
  /\ written \in 0..MaxChunks
  /\ latest \in Nat
  /\ acked \in 0..latest
  /\ settled \in BOOLEAN
  /\ leaked \in BOOLEAN

(***************************************************************************)
(* Both drivers implement the durable store: however a commit is cut off,  *)
(* and however often it is tried again on the same generation with fewer   *)
(* or more chunks, a reopening finds one whole snapshot, and none older    *)
(* than the last commit that succeeded.                                    *)
(***************************************************************************)
Store == INSTANCE DurableStore
           WITH Versions <- 0..MaxVersion, outcomes <- {Loads(items, manifest)}

ImplementsDurableStore == Store!Spec

(***************************************************************************)
(* After a commit that succeeded, the storage holds the chunks of the      *)
(* active generation and no other, whatever attempts were cut off before,  *)
(* unless a removal failed or a crash came before it.                      *)
(***************************************************************************)
NoOrphanChunks ==
  settled /\ ~leaked =>
    \A g \in Generations :
      Present(items, g) = IF g = manifest.generation THEN 1..manifest.count ELSE {}
=============================================================================
