-------------------------- MODULE ChunkedStore_proofs --------------------------
(***************************************************************************)
(* Proofs about ChunkedStore, for any numbers of chunks, generations and   *)
(* versions.                                                               *)
(*                                                                         *)
(* A commit never touches the generation the manifest names, so what a     *)
(* reopening finds changes in one step only, when the manifest is stored;  *)
(* by then the next generation holds one whole snapshot, whatever earlier  *)
(* attempts have left there.                                               *)
(***************************************************************************)
EXTENDS ChunkedStore, TLAPS

\* What loading finds, while the active chunks are whole
Found == IF manifest = NoManifest THEN 0 ELSE items[manifest.generation][1]

Committing == step \in {"clean", "chunks", "manifest", "forget"}

\* The fields of the controller, and the progress of a commit
MemoryFollows ==
  /\ Committing => generation < MaxGeneration /\ snapshot.size <= MaxChunks
  /\ step = "clean" => written = 0
  /\ step = "chunks" => written < snapshot.size /\ (driver = "sync" => written = 0)
  /\ step = "manifest" => written = snapshot.size
  /\ step \in {"ready", "clean", "chunks", "manifest"} =>
       /\ generation = manifest.generation
       /\ chunkCount = IF manifest = NoManifest THEN 0 ELSE manifest.count
  /\ step = "forget" => manifest = [generation |-> generation + 1, count |-> snapshot.size]

\* The chunks the manifest names are there, and of one version.
ActiveIsWhole ==
  manifest # NoManifest =>
    \A i \in 1..manifest.count :
      items[manifest.generation][i] = Found /\ items[manifest.generation][i] # Absent

\* What the commit has stored so far
StoredSoFar ==
  /\ step \in {"chunks", "manifest"} =>
       \A i \in 1..written : items[generation + 1][i] = snapshot.version
  /\ step = "forget" => Found = snapshot.version

\* Nothing goes back behind what was acknowledged.
NotOlder ==
  /\ latest <= MaxVersion
  /\ acked <= Found
  /\ step # "closed" => Found <= records.version
  /\ Committing => Found <= snapshot.version /\ snapshot.version <= records.version

\* Where chunks are, unless some could not be removed: under the active
\* generation and the next one, and under the one just replaced.
ChunksAccountedFor ==
  ~leaked =>
    \A g \in Generations :
      /\ g = manifest.generation =>
           Present(items, g) = IF manifest = NoManifest THEN {} ELSE 1..manifest.count
      /\ g = manifest.generation + 1 =>
           /\ settled => Present(items, g) = {}
           /\ step \in {"chunks", "manifest"} => Present(items, g) = 1..written
           /\ step = "forget" => Present(items, g) = {}
      /\ step = "forget" /\ g = generation => Present(items, g) \subseteq 1..chunkCount
      /\ g \notin {manifest.generation, manifest.generation + 1} =>
           (step = "forget" /\ g = generation) \/ Present(items, g) = {}

SettledAtRest == settled => ~Committing

IInv ==
  /\ TypeOK
  /\ MemoryFollows
  /\ ActiveIsWhole
  /\ StoredSoFar
  /\ NotOlder
  /\ ChunksAccountedFor
  /\ SettledAtRest

USE DEF config, storage, memory, history, Absent, Torn, Generations, Indices, NoManifest
-----------------------------------------------------------------------------
(***************************************************************************)
(* What loading finds                                                      *)
(***************************************************************************)
LEMMA LoadsFound ==
  ASSUME IInv
  PROVE  Loads(items, manifest) = Found /\ Found \in 0..latest
BY BoundsAssumption DEF IInv, TypeOK, ActiveIsWhole, Loads, Found
-----------------------------------------------------------------------------
(***************************************************************************)
(* Types.                                                                  *)
(***************************************************************************)
LEMMA TypeStep ==
  ASSUME IInv, Next
  PROVE  TypeOK'
<1> USE BoundsAssumption DEF IInv, TypeOK, Snapshots, MemoryFollows, Committing
<1>1. CASE Open
  <2>1. Loads(items, manifest) \in 0..latest
    BY LoadsFound
  <2>2. records' \in Snapshots
    BY <1>1, <2>1 DEF Open
  <2> QED
    BY <1>1, <2>2 DEF Open
<1>2. CASE Mutate
  <2>1. latest' = latest + 1 /\ latest' \in Nat
    BY <1>2 DEF Mutate
  <2>2. 0..latest \subseteq 0..latest'
    BY <2>1
  <2>3. records' \in Snapshots'
    BY <1>2, <2>1 DEF Mutate
  <2>4. snapshot' \in Snapshots'
    BY <1>2, <2>2 DEF Mutate
  <2>5. items' \in [Generations -> [Indices -> {Absent} \union 0..latest']]
    <3>1. items' = items
      BY <1>2 DEF Mutate
    <3> QED
      BY <2>2, <3>1
  <2>6. acked' \in 0..latest'
    BY <1>2, <2>2 DEF Mutate
  <2> QED
    BY <1>2, <2>1, <2>3, <2>4, <2>5, <2>6 DEF Mutate
<1>3. CASE CommitBegins
  <2>1. snapshot' \in {snapshot, records}
    BY <1>3 DEF CommitBegins
  <2>2. snapshot' \in Snapshots'
    BY <1>3, <2>1 DEF CommitBegins
  <2>3. /\ step' \in {"clean", "ready"} /\ written' \in {0, written}
        /\ settled' = FALSE
        /\ UNCHANGED <<config, storage, memory, records, latest, acked, leaked>>
    BY <1>3 DEF CommitBegins
  <2>4. written' \in 0..MaxChunks
    BY <2>3
  <2>5. items' \in [Generations -> [Indices -> {Absent} \union 0..latest']]
    BY <2>3
  <2>6. manifest' = NoManifest \/ manifest' \in [generation : Generations, count : Indices]
    <3>1. manifest = NoManifest \/ manifest \in [generation : Generations, count : Indices]
      OBVIOUS
    <3> QED
      BY <2>3, <3>1, Zenon
  <2>7. records' \in Snapshots'
    BY <2>3
  <2> QED
    BY <2>2, <2>3, <2>4, <2>5, <2>6, <2>7
<1>4. CASE CleanNext
  BY <1>4 DEF CleanNext, NextGeneration, Removed
<1>5. CASE StoreChunk
  BY <1>5 DEF StoreChunk, NextGeneration
<1>6. CASE StoreManifest
  BY <1>6 DEF StoreManifest, NextGeneration
<1>7. CASE StoreAll
  BY <1>7 DEF StoreAll, NextGeneration
<1>8. CASE CommitFails
  BY <1>8 DEF CommitFails
<1>9. CASE CommitReturns
  <2>1. generation + 1 \in Generations
    BY <1>9 DEF CommitReturns
  <2>2. PICK gone : items' = Removed(generation, gone)
    BY <1>9 DEF CommitReturns
  <2>3. items' \in [Generations -> [Indices -> {Absent} \union 0..latest]]
    BY <2>2 DEF Removed
  <2>4. acked' \in 0..latest /\ settled' \in BOOLEAN
    BY <1>9 DEF CommitReturns
  <2>5. leaked' \in BOOLEAN
    BY <1>9 DEF CommitReturns
  <2> QED
    BY <1>9, <2>1, <2>3, <2>4, <2>5 DEF CommitReturns, NextGeneration
<1>10. CASE Ends
  BY <1>10 DEF Ends
<1> QED
  BY <1>1, <1>2, <1>3, <1>4, <1>5, <1>6, <1>7, <1>8, <1>9, <1>10
  DEF Next, CommitSteps
-----------------------------------------------------------------------------
(***************************************************************************)
(* The fields follow the manifest.                                         *)
(***************************************************************************)
LEMMA MemoryStep ==
  ASSUME IInv, Next
  PROVE  MemoryFollows'
<1> USE BoundsAssumption DEF IInv, TypeOK, Snapshots, MemoryFollows, Committing
<1>1. CASE Open
  BY <1>1 DEF Open
<1>2. CASE Mutate
  BY <1>2 DEF Mutate
<1>3. CASE CommitBegins
  BY <1>3 DEF CommitBegins, Fits
<1>4. CASE CleanNext
  BY <1>4 DEF CleanNext, NextGeneration, Removed
<1>5. CASE StoreChunk
  BY <1>5 DEF StoreChunk, NextGeneration
<1>6. CASE StoreManifest
  BY <1>6 DEF StoreManifest, NextGeneration
<1>7. CASE StoreAll
  BY <1>7 DEF StoreAll, NextGeneration
<1>8. CASE CommitFails
  BY <1>8 DEF CommitFails
<1>9. CASE CommitReturns
  BY <1>9 DEF CommitReturns, NextGeneration, Removed
<1>10. CASE Ends
  BY <1>10 DEF Ends
<1> QED
  BY <1>1, <1>2, <1>3, <1>4, <1>5, <1>6, <1>7, <1>8, <1>9, <1>10
  DEF Next, CommitSteps
-----------------------------------------------------------------------------
(***************************************************************************)
(* A commit stores and removes under other generations only.               *)
(***************************************************************************)
LEMMA ActiveStep ==
  ASSUME IInv, Next
  PROVE  ActiveIsWhole'
<1> USE BoundsAssumption DEF IInv, TypeOK, Snapshots, MemoryFollows, Committing, ActiveIsWhole, StoredSoFar,
            Found
<1>1. CASE Open
  BY <1>1 DEF Open
<1>2. CASE Mutate
  BY <1>2 DEF Mutate
<1>3. CASE CommitBegins
  BY <1>3 DEF CommitBegins, Fits
<1>4. CASE CleanNext
  BY <1>4 DEF CleanNext, NextGeneration, Removed
<1>5. CASE StoreChunk
  BY <1>5 DEF StoreChunk, NextGeneration
<1>6. CASE StoreManifest
  BY <1>6 DEF StoreManifest, NextGeneration
<1>7. CASE StoreAll
  BY <1>7 DEF StoreAll, NextGeneration
<1>8. CASE CommitFails
  BY <1>8 DEF CommitFails
<1>9. CASE CommitReturns
  BY <1>9 DEF CommitReturns, NextGeneration, Removed
<1>10. CASE Ends
  BY <1>10 DEF Ends
<1> QED
  BY <1>1, <1>2, <1>3, <1>4, <1>5, <1>6, <1>7, <1>8, <1>9, <1>10
  DEF Next, CommitSteps
-----------------------------------------------------------------------------
(***************************************************************************)
(* Chunks are stored from the first to the last.                           *)
(***************************************************************************)
LEMMA StoredStep ==
  ASSUME IInv, Next
  PROVE  StoredSoFar'
<1> USE BoundsAssumption DEF IInv, TypeOK, Snapshots, MemoryFollows, Committing, StoredSoFar, Found
<1>1. CASE Open
  BY <1>1 DEF Open
<1>2. CASE Mutate
  BY <1>2 DEF Mutate
<1>3. CASE CommitBegins
  BY <1>3 DEF CommitBegins, Fits
<1>4. CASE CleanNext
  BY <1>4 DEF CleanNext, NextGeneration, Removed
<1>5. CASE StoreChunk
  BY <1>5 DEF StoreChunk, NextGeneration
<1>6. CASE StoreManifest
  BY <1>6 DEF StoreManifest, NextGeneration
<1>7. CASE StoreAll
  BY <1>7 DEF StoreAll, NextGeneration
<1>8. CASE CommitFails
  BY <1>8 DEF CommitFails
<1>9. CASE CommitReturns
  BY <1>9 DEF CommitReturns, NextGeneration, Removed
<1>10. CASE Ends
  BY <1>10 DEF Ends
<1> QED
  BY <1>1, <1>2, <1>3, <1>4, <1>5, <1>6, <1>7, <1>8, <1>9, <1>10
  DEF Next, CommitSteps
-----------------------------------------------------------------------------
(***************************************************************************)
(* Versions only grow while the datastore is open.                         *)
(***************************************************************************)
LEMMA NotOlderStep ==
  ASSUME IInv, Next
  PROVE  NotOlder'
<1> USE BoundsAssumption DEF IInv, TypeOK, Snapshots, MemoryFollows, Committing, ActiveIsWhole, StoredSoFar,
            NotOlder, Found
<1>1. CASE Open
  <2>1. Loads(items, manifest) = Found
    BY LoadsFound
  <2> QED
    BY <1>1, <2>1 DEF Open
<1>2. CASE Mutate
  BY <1>2 DEF Mutate
<1>3. CASE CommitBegins
  BY <1>3 DEF CommitBegins, Fits
<1>4. CASE CleanNext
  BY <1>4 DEF CleanNext, NextGeneration, Removed
<1>5. CASE StoreChunk
  BY <1>5 DEF StoreChunk, NextGeneration
<1>6. CASE StoreManifest
  BY <1>6 DEF StoreManifest, NextGeneration
<1>7. CASE StoreAll
  BY <1>7 DEF StoreAll, NextGeneration
<1>8. CASE CommitFails
  BY <1>8 DEF CommitFails
<1>9. CASE CommitReturns
  BY <1>9 DEF CommitReturns, NextGeneration, Removed
<1>10. CASE Ends
  BY <1>10 DEF Ends
<1> QED
  BY <1>1, <1>2, <1>3, <1>4, <1>5, <1>6, <1>7, <1>8, <1>9, <1>10
  DEF Next, CommitSteps
-----------------------------------------------------------------------------
(***************************************************************************)
(* A clean-up that leaves nothing behind leaves nothing unaccounted for.   *)
(***************************************************************************)
LEMMA AccountStep ==
  ASSUME IInv, Next
  PROVE  ChunksAccountedFor'
<1> USE BoundsAssumption DEF IInv, TypeOK, Snapshots, MemoryFollows, Committing, ChunksAccountedFor,
            SettledAtRest
<1>1. CASE Open
  BY <1>1 DEF Open
<1>2. CASE Mutate
  BY <1>2 DEF Mutate
<1>3. CASE CommitBegins
  BY <1>3 DEF CommitBegins, Fits
<1>4. CASE CleanNext
  <2>1. generation + 1 \in Generations /\ generation = manifest.generation
    BY <1>4 DEF CleanNext
  <2>2. \A g \in Generations \ {generation + 1} : Present(items', g) = Present(items, g)
    BY <1>4 DEF CleanNext, NextGeneration, Removed, Present
  <2>3. ~leaked' => ~leaked /\ Present(items', generation + 1) = {}
    BY <1>4 DEF CleanNext, NextGeneration
  <2>4. /\ step' = "chunks" /\ written' = 0
        /\ ~settled'
        /\ UNCHANGED <<manifest, generation>>
    BY <1>4 DEF CleanNext
  <2>5. 1..written' = {}
    BY <2>4
  <2>6. ASSUME ~leaked', NEW g \in Generations, g # generation + 1
        PROVE  Present(items', g) =
                 IF g = manifest.generation /\ manifest # NoManifest
                 THEN 1..manifest.count ELSE {}
    BY <1>4, <2>1, <2>2, <2>3, <2>6 DEF CleanNext
  <2>7. generation + 1 # manifest.generation
    BY <2>1
  <2> QED
    BY <2>1, <2>3, <2>4, <2>5, <2>6, <2>7
<1>5. CASE StoreChunk
  <2>1. /\ generation + 1 \in Generations
        /\ generation = manifest.generation
        /\ written + 1 \in Indices
    BY <1>5 DEF StoreChunk
  <2>2. /\ items' = [items EXCEPT ![generation + 1][written + 1] = snapshot.version]
        /\ snapshot.version # Absent
    BY <1>5 DEF StoreChunk, NextGeneration
  <2>3. \A g \in Generations \ {generation + 1} : Present(items', g) = Present(items, g)
    BY <2>2 DEF Present
  <2>4. Present(items', generation + 1) = Present(items, generation + 1) \union {written + 1}
    BY <2>1, <2>2 DEF Present
  <2>5. /\ step' \in {"chunks", "manifest"} /\ written' = written + 1
        /\ ~settled' /\ leaked' = leaked
        /\ UNCHANGED <<manifest, generation>>
    BY <1>5 DEF StoreChunk
  <2>6. ~leaked => Present(items', generation + 1) = 1..written'
    <3>1. ~leaked => Present(items, generation + 1) = 1..written
      BY <1>5, <2>1 DEF StoreChunk
    <3>2. 1..(written + 1) = 1..written \union {written + 1}
      BY <2>1
    <3> QED
      BY <2>4, <2>5, <3>1, <3>2
  <2> QED
    BY <2>1, <2>3, <2>5, <2>6
<1>6. CASE StoreManifest
  <2>1. /\ generation + 1 \in Generations
        /\ generation = manifest.generation
        /\ chunkCount = IF manifest = NoManifest THEN 0 ELSE manifest.count
        /\ written = snapshot.size
        /\ step = "manifest"
    BY <1>6 DEF StoreManifest
  <2>2. /\ manifest' = [generation |-> generation + 1, count |-> snapshot.size]
        /\ step' = "forget" /\ ~settled' /\ leaked' = leaked
        /\ UNCHANGED <<items, generation, chunkCount>>
    BY <1>6 DEF StoreManifest, NextGeneration
  <2>3. /\ manifest'.generation = generation + 1
        /\ manifest' # NoManifest
        /\ manifest'.count = written
    BY <2>1, <2>2
  <2>4. ASSUME ~leaked
        PROVE  /\ Present(items, generation + 1) = 1..written
               /\ Present(items, generation) \subseteq 1..chunkCount
               /\ \A g \in Generations \ {generation, generation + 1} : Present(items, g) = {}
    BY <2>1, <2>4
  <2>5. generation \in Nat /\ written \in Nat
    OBVIOUS
  <2> QED
    BY <2>2, <2>3, <2>4, <2>5
<1>7. CASE StoreAll
  <2>1. /\ generation + 1 \in Generations
        /\ generation = manifest.generation
        /\ chunkCount = IF manifest = NoManifest THEN 0 ELSE manifest.count
        /\ written = 0 /\ step = "chunks"
        /\ snapshot.size \in 1..MaxChunks /\ snapshot.version # Absent
    BY <1>7 DEF StoreAll
  <2>2. /\ manifest' = [generation |-> generation + 1, count |-> snapshot.size]
        /\ step' = "forget" /\ ~settled' /\ leaked' = leaked
        /\ UNCHANGED <<generation, chunkCount>>
    BY <1>7 DEF StoreAll, NextGeneration
  <2>3. /\ manifest'.generation = generation + 1
        /\ manifest' # NoManifest
        /\ manifest'.count = snapshot.size
    BY <2>1, <2>2
  <2>4. \A g \in Generations \ {generation + 1} : Present(items', g) = Present(items, g)
    BY <1>7 DEF StoreAll, NextGeneration, Present
  <2>5. ASSUME ~leaked
        PROVE  /\ Present(items, generation + 1) = {}
               /\ Present(items, generation) \subseteq 1..chunkCount
               /\ \A g \in Generations \ {generation, generation + 1} : Present(items, g) = {}
    BY <2>1, <2>5
  <2>6. ~leaked => Present(items', generation + 1) = 1..snapshot.size
    <3>1. items'[generation + 1] =
            [i \in Indices |-> IF i <= snapshot.size THEN snapshot.version
                                                     ELSE items[generation + 1][i]]
      BY <1>7, <2>1 DEF StoreAll, NextGeneration
    <3> QED
      BY <2>1, <2>5, <3>1 DEF Present
  <2> QED
    BY <2>1, <2>2, <2>3, <2>4, <2>5, <2>6
<1>8. CASE CommitFails
  BY <1>8 DEF CommitFails
<1>9. CASE CommitReturns
  <2>1. /\ generation + 1 \in Generations /\ step = "forget"
        /\ manifest.generation = generation + 1 /\ manifest.count = snapshot.size
    BY <1>9 DEF CommitReturns
  <2>2. PICK gone : /\ items' = Removed(generation, gone)
                    /\ leaked' = (leaked \/ gone # Previous)
    BY <1>9 DEF CommitReturns
  <2>3. /\ step' = "ready"
        /\ generation' = generation + 1
        /\ manifest' = manifest
    BY <1>9 DEF CommitReturns, NextGeneration
  <2>4. \A g \in Generations \ {generation} : Present(items', g) = Present(items, g)
    BY <2>2 DEF Removed, Present
  <2>5. ASSUME ~leaked' PROVE Present(items', generation) = {}
    <3>1. ~leaked /\ gone = Previous
      BY <2>2, <2>5
    <3>2. Present(items, generation) \subseteq 1..chunkCount
      BY <2>1, <3>1
    <3>3. gone = Present(items, generation)
      BY <3>1, <3>2 DEF Previous
    <3> QED
      BY <2>2, <3>3 DEF Removed, Present
  <2>6. ~leaked' => ~leaked
    BY <2>2
  <2> QED
    BY <2>1, <2>3, <2>4, <2>5, <2>6
<1>10. CASE Ends
  BY <1>10 DEF Ends
<1> QED
  BY <1>1, <1>2, <1>3, <1>4, <1>5, <1>6, <1>7, <1>8, <1>9, <1>10
  DEF Next, CommitSteps
-----------------------------------------------------------------------------
(***************************************************************************)
(* A commit that begins unsettles.                                         *)
(***************************************************************************)
LEMMA SettledStep ==
  ASSUME IInv, Next
  PROVE  SettledAtRest'
<1> USE BoundsAssumption DEF IInv, Committing, SettledAtRest
<1>1. CASE Open
  BY <1>1 DEF Open
<1>2. CASE Mutate
  BY <1>2 DEF Mutate
<1>3. CASE CommitBegins
  BY <1>3 DEF CommitBegins, Fits
<1>4. CASE CleanNext
  BY <1>4 DEF CleanNext, NextGeneration, Removed
<1>5. CASE StoreChunk
  BY <1>5 DEF StoreChunk, NextGeneration
<1>6. CASE StoreManifest
  BY <1>6 DEF StoreManifest, NextGeneration
<1>7. CASE StoreAll
  BY <1>7 DEF StoreAll, NextGeneration
<1>8. CASE CommitFails
  BY <1>8 DEF CommitFails
<1>9. CASE CommitReturns
  BY <1>9 DEF CommitReturns, NextGeneration, Removed
<1>10. CASE Ends
  BY <1>10 DEF Ends
<1> QED
  BY <1>1, <1>2, <1>3, <1>4, <1>5, <1>6, <1>7, <1>8, <1>9, <1>10
  DEF Next, CommitSteps
-----------------------------------------------------------------------------
(***************************************************************************)
(* The inductive invariant holds in every reachable state.                 *)
(***************************************************************************)
THEOREM Invariant == Spec => []IInv
<1>1. Init => IInv
  <2> SUFFICES ASSUME Init PROVE IInv
    OBVIOUS
  <2> USE BoundsAssumption DEF Init
  <2>1. TypeOK
    <3>1. records \in Snapshots /\ snapshot \in Snapshots
      BY DEF Snapshots
    <3>2. items \in [Generations -> [Indices -> {Absent} \union 0..latest]]
      OBVIOUS
    <3>3. manifest = NoManifest /\ acked \in 0..latest /\ latest \in Nat
      OBVIOUS
    <3>4. generation \in Generations /\ chunkCount \in 0..MaxChunks /\ written \in 0..MaxChunks
      OBVIOUS
    <3> QED
      BY <3>1, <3>2, <3>3, <3>4 DEF TypeOK
  <2>2. MemoryFollows /\ StoredSoFar /\ SettledAtRest
    BY DEF MemoryFollows, StoredSoFar, SettledAtRest, Committing
  <2>3. ActiveIsWhole /\ NotOlder
    BY DEF ActiveIsWhole, NotOlder, Found, Committing
  <2>4. ChunksAccountedFor
    BY DEF ChunksAccountedFor, Present
  <2> QED
    BY <2>1, <2>2, <2>3, <2>4 DEF IInv
<1>2. IInv /\ [Next]_vars => IInv'
  <2> SUFFICES ASSUME IInv, [Next]_vars PROVE IInv'
    OBVIOUS
  <2>1. CASE Next
    BY <2>1, TypeStep, MemoryStep, ActiveStep, StoredStep, NotOlderStep, AccountStep,
       SettledStep DEF IInv
  <2>2. CASE UNCHANGED vars
    BY <2>2 DEF vars, IInv, TypeOK, Snapshots, MemoryFollows, Committing, ActiveIsWhole,
       StoredSoFar, NotOlder, Found, ChunksAccountedFor, Present, SettledAtRest
  <2> QED
    BY <2>1, <2>2
<1> QED
  BY <1>1, <1>2, PTL DEF Spec

(***************************************************************************)
(* Chunks, manifest, fields and snapshots keep their types; no manifest    *)
(* counts more chunks than loadLocalStorageSnapshot accepts.               *)
(***************************************************************************)
THEOREM TypeCorrect == Spec => []TypeOK
<1>1. IInv => TypeOK
  BY DEF IInv
<1> QED
  BY <1>1, Invariant, PTL

(***************************************************************************)
(* After a commit that succeeded the storage holds the active chunks only: *)
(* cleanupGenerationChunks misses none of the previous generation, and     *)
(* none that an attempt cut off has left.                                  *)
(***************************************************************************)
THEOREM NoOrphansLeft == Spec => []NoOrphanChunks
<1>1. IInv => NoOrphanChunks
  <2> SUFFICES ASSUME IInv, settled, ~leaked, NEW g \in Generations
               PROVE  Present(items, g) =
                        IF g = manifest.generation THEN 1..manifest.count ELSE {}
    BY DEF NoOrphanChunks
  <2>1. step # "forget"
    BY DEF IInv, SettledAtRest, Committing
  <2>2. manifest = NoManifest => 1..manifest.count = {}
    OBVIOUS
  <2> QED
    BY <2>1, <2>2 DEF IInv, ChunksAccountedFor
<1> QED
  BY <1>1, Invariant, PTL

(***************************************************************************)
(* At every moment, between any two calls of a commit or of a clean-up, a  *)
(* reopening finds a whole snapshot that is not older than what the last   *)
(* successful commit acknowledged.                                         *)
(***************************************************************************)
THEOREM AcknowledgedStays == Spec => []Store!AcknowledgedSurvives
<1>1. IInv => Store!AcknowledgedSurvives
  <2> SUFFICES ASSUME IInv PROVE Store!AcknowledgedSurvives
    OBVIOUS
  <2>1. Loads(items, manifest) = Found
    BY LoadsFound
  <2>2. acked <= Found
    BY DEF IInv, NotOlder
  <2>3. \A v \in {Loads(items, manifest)} : v >= acked
    BY <2>1, <2>2
  <2> QED
    BY <2>3 DEF Store!AcknowledgedSurvives
<1> QED
  BY <1>1, Invariant, PTL

(***************************************************************************)
(* Both drivers implement the durable store: a step of a commit changes    *)
(* what a reopening finds only by storing the manifest, and its return     *)
(* acknowledges exactly that.                                              *)
(***************************************************************************)
THEOREM ChunksAreDurableStore == Spec => ImplementsDurableStore
<1>1. Init => Store!Init
  BY DEF Init, Store!Init, Loads
<1>2. IInv /\ IInv' /\ [Next]_vars => [Store!Next]_Store!storeVars
  <2> SUFFICES ASSUME IInv, IInv', [Next]_vars
               PROVE  Store!Next \/ UNCHANGED Store!storeVars
    OBVIOUS
  <2> USE BoundsAssumption
  <2>1. /\ Loads(items, manifest) = Found
        /\ Found \in 0..latest
    BY LoadsFound
  <2>2. /\ Loads(items, manifest)' = Found'
        /\ Found' \in 0..latest'
    BY DEF IInv, TypeOK, ActiveIsWhole, Loads, Found
  <2>3. CASE Found' = Found /\ acked' = acked
    BY <2>1, <2>2, <2>3 DEF Store!storeVars
  <2>4. CASE StoreManifest \/ StoreAll
    <3>1. Found' = snapshot.version /\ acked' = acked
      BY <2>4 DEF StoreManifest, StoreAll, NextGeneration, IInv, StoredSoFar, Found,
         TypeOK, Snapshots, MemoryFollows, Committing
    <3>2. snapshot.version \in 0..MaxVersion /\ snapshot.version >= acked
      BY <2>1, <2>4 DEF StoreManifest, StoreAll, IInv, TypeOK, Snapshots, NotOlder, Committing
    <3>3. Store!Attempt(snapshot.version)
      BY <2>1, <2>2, <3>1, <3>2 DEF Store!Attempt
    <3> QED
      BY <3>2, <3>3 DEF Store!Next
  <2>5. CASE CommitReturns
    <3>1. Found' = snapshot.version /\ Found = snapshot.version
      BY <2>5 DEF CommitReturns, NextGeneration, Removed, IInv, StoredSoFar, Found,
         TypeOK, Snapshots, MemoryFollows, Committing
    <3>2. snapshot.version \in 0..MaxVersion /\ snapshot.version >= acked
      BY <2>1, <2>5, <3>1 DEF CommitReturns, IInv, TypeOK, Snapshots, NotOlder, Committing
    <3>3. acked' = acked \/ acked' = snapshot.version
      BY <2>5 DEF CommitReturns
    <3>4. CASE acked' = acked
      BY <2>3, <3>1, <3>4
    <3>5. CASE acked' = snapshot.version
      <4>1. Store!Acknowledge(snapshot.version)
        BY <2>2, <3>1, <3>2, <3>5 DEF Store!Acknowledge
      <4> QED
        BY <3>2, <4>1 DEF Store!Next
    <3> QED
      BY <3>3, <3>4, <3>5
  <2>6. CASE UNCHANGED vars
    BY <2>3, <2>6 DEF vars, Found
  <2>7. CASE CleanNext \/ StoreChunk
    <3>1. generation = manifest.generation /\ generation + 1 \in Generations
      BY <2>7 DEF CleanNext, StoreChunk, IInv, TypeOK, MemoryFollows, Committing
    <3>2. items'[manifest.generation] = items[manifest.generation]
      <4>1. CASE CleanNext
        BY <3>1, <4>1 DEF CleanNext, NextGeneration, Removed, IInv, TypeOK
      <4>2. CASE StoreChunk
        BY <3>1, <4>2 DEF StoreChunk, NextGeneration, IInv, TypeOK
      <4> QED
        BY <2>7, <4>1, <4>2
    <3>3. Found' = Found /\ acked' = acked
      BY <2>7, <3>2 DEF CleanNext, StoreChunk, Found
    <3> QED
      BY <2>3, <3>3
  <2>8. CASE Open \/ Mutate \/ CommitBegins \/ CommitFails \/ Ends
    <3>1. Found' = Found /\ acked' = acked
      BY <2>8 DEF Open, Mutate, CommitBegins, CommitFails, Ends, Found
    <3> QED
      BY <2>3, <3>1
  <2> QED
    BY <2>4, <2>5, <2>6, <2>7, <2>8 DEF Next, CommitSteps
<1> QED
  BY <1>1, <1>2, Invariant, PTL DEF Spec, ImplementsDurableStore, Store!Spec
=============================================================================
