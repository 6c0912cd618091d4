--------------------------- MODULE FileCommit_proofs ---------------------------
(***************************************************************************)
(* Proofs about FileCommit, for any number of commits and mutations.       *)
(*                                                                         *)
(* The invariant speaks of every directory a power loss may leave, not of  *)
(* the one the system calls show only: each of them names a whole          *)
(* generation that is not older than what was acknowledged, or comes from  *)
(* the time before the initial snapshot was complete.                      *)
(***************************************************************************)
EXTENDS FileCommit, TLAPS

Committing == {"writeGen", "renameGen", "writeMeta", "renameMeta", "syncDir", "unlinkOld"}
BeforeSidecar == {"createData", "writeData", "syncData", "createSidecar"}
Creating == BeforeSidecar \union {"writeSidecar", "syncSidecar"}

\* A directory that a power loss may leave
Sound(d) ==
  /\ \A n \in Generations : d.gens[n] <= latest /\ (d.gens[n] = Torn => n = 0)
  /\ d.gens[0] \in {Absent, Torn, 0}
  /\ d.sidecar \in {Absent, Torn} => \A n \in Generations \ {0} : d.gens[n] = Absent
  /\ d.sidecar = Torn => d.gens[0] = 0
  /\ d.sidecar \in Generations => d.gens[d.sidecar] >= 0

DirectoriesSound == latest <= MaxVersion /\ \A d \in past : Sound(d)

\* What was acknowledged is in all of them.
NothingLost ==
  /\ ~created => acked = 0
  /\ created => \A d \in past : d.sidecar # Torn /\ Reads(d) >= acked
  /\ disk.sidecar = Absent => \A d \in past : d.sidecar = Absent
  /\ step \in {"ready"} \union Committing => version >= acked

\* The steps of the initial snapshot
InitialSnapshot ==
  /\ step = "cleanup" => commitId = 0
  /\ step \in Creating => commitId = 0 /\ ~created
  /\ step \in BeforeSidecar => disk.sidecar = Absent
  /\ step \in {"syncData", "createSidecar"} => disk.gens[0] = 0
  /\ step = "writeSidecar" =>
       /\ disk.sidecar = Torn
       /\ \A d \in past : d.sidecar \in {Absent, Torn}
  /\ step = "syncSidecar" =>
       /\ disk.sidecar = 0 /\ disk.gens[0] = 0
       /\ \A n \in Generations \ {0} : disk.gens[n] = Absent
       /\ \A d \in past : d.sidecar \in {Absent, Torn, 0}
  /\ step = "load" => disk.sidecar # Absent

\* The steps of a commit
CommitInOrder ==
  /\ step \in Committing => commitId < MaxCommitId
  /\ step \in {"ready"} \union Committing =>
       disk.sidecar \in Generations /\ disk.sidecar \in {commitId, commitId + 1}
  /\ step \in {"writeMeta", "renameMeta", "syncDir", "unlinkOld"} =>
       disk.gens[commitId + 1] = version
  /\ step \in {"syncDir", "unlinkOld"} => disk.sidecar = commitId + 1
  /\ step = "unlinkOld" => past = {disk}

\* Which files there are besides the active generation
FilesAccountedFor ==
  /\ step \in Creating \union {"load", "syncDir", "unlinkOld"} => temps = {}
  /\ step \in {"writeMeta", "renameMeta"} => temps \subseteq {"meta"}
  /\ step \in {"ready"} \union Committing /\ ~leftover =>
       \A n \in Generations \ {commitId, commitId + 1} : disk.gens[n] = Absent
  /\ step = "ready" /\ ~leftover /\ ~lastFailed =>
       /\ disk.sidecar = commitId
       /\ temps = {}
       /\ \A n \in Generations \ {commitId} : disk.gens[n] = Absent

IInv ==
  /\ TypeOK
  /\ DirectoriesSound
  /\ NothingLost
  /\ InitialSnapshot
  /\ CommitInOrder
  /\ FilesAccountedFor

USE DEF Generations, Absent, Torn, history
-----------------------------------------------------------------------------
(***************************************************************************)
(* Directories.                                                            *)
(***************************************************************************)
LEMMA PutGeneration ==
  ASSUME NEW d \in Directory, NEW n \in Generations, NEW v \in {Absent, Torn} \union Nat,
         NEW e, e = [d EXCEPT !.gens[n] = v]
  PROVE  /\ e \in Directory
         /\ e.sidecar = d.sidecar
         /\ e.gens[n] = v
         /\ \A m \in Generations \ {n} : e.gens[m] = d.gens[m]
<1>1. e = [d EXCEPT !.gens = [d.gens EXCEPT ![n] = v]]
  BY DEF Directory
<1>2. [d.gens EXCEPT ![n] = v] \in [Generations -> {Absent, Torn} \union Nat]
  BY DEF Directory
<1> QED
  BY <1>1, <1>2 DEF Directory

LEMMA PutSidecar ==
  ASSUME NEW d \in Directory, NEW s \in {Absent, Torn} \union Generations,
         NEW e, e = [d EXCEPT !.sidecar = s]
  PROVE  e \in Directory /\ e.gens = d.gens /\ e.sidecar = s
BY DEF Directory

LEMMA WithoutSome ==
  ASSUME NEW d \in Directory, NEW removed
  PROVE  /\ Without(d, removed) \in Directory
         /\ Without(d, removed).sidecar = d.sidecar
         /\ \A n \in Generations :
              Without(d, removed).gens[n] = IF n \in removed THEN Absent ELSE d.gens[n]
<1> DEFINE kept == [n \in Generations |-> IF n \in removed THEN Absent ELSE d.gens[n]]
<1>1. kept \in [Generations -> {Absent, Torn} \union Nat]
  BY DEF Directory
<1>2. Without(d, removed) = [d EXCEPT !.gens = kept]
  BY DEF Without
<1> HIDE DEF kept
<1>3. /\ Without(d, removed) \in Directory
      /\ Without(d, removed).sidecar = d.sidecar
      /\ Without(d, removed).gens = kept
  BY <1>1, <1>2 DEF Directory
<1> QED
  BY <1>3 DEF kept

-----------------------------------------------------------------------------
(***************************************************************************)
(* What the steps that change a directory do to it.                        *)
(***************************************************************************)
LEMMA CreateInitialDataEffect ==
  ASSUME IInv, CreateInitialData
  PROVE  /\ step = "createData" /\ step' = "writeData"
         /\ disk' \in Directory /\ past' = past \union {disk'}
         /\ disk'.sidecar = disk.sidecar
         /\ disk'.gens[0] = Torn
         /\ \A n \in Generations \ {0} : disk'.gens[n] = disk.gens[n]
         /\ UNCHANGED <<temps, commitId, version, latest, history>>
<1>1. disk' = [disk EXCEPT !.gens[0] = Torn] /\ disk \in Directory /\ 0 \in Generations
  BY MaxCommitIdAssumption DEF CreateInitialData, CreateFile, Becomes, IInv, TypeOK
<1> QED
  BY <1>1, PutGeneration DEF CreateInitialData, CreateFile, Becomes

LEMMA WriteInitialDataEffect ==
  ASSUME IInv, WriteInitialData
  PROVE  /\ step = "writeData" /\ step' = "syncData"
         /\ disk' \in Directory /\ past' = past \union {disk'}
         /\ disk'.sidecar = disk.sidecar
         /\ disk'.gens[0] = 0
         /\ \A n \in Generations \ {0} : disk'.gens[n] = disk.gens[n]
         /\ UNCHANGED <<temps, commitId, version, latest, history>>
<1>1. disk' = [disk EXCEPT !.gens[0] = 0] /\ disk \in Directory /\ 0 \in Generations
  BY MaxCommitIdAssumption DEF WriteInitialData, CreateFile, Becomes, IInv, TypeOK
<1> QED
  BY <1>1, PutGeneration DEF WriteInitialData, CreateFile, Becomes

LEMMA FlushInitialDataEffect ==
  ASSUME IInv, FlushInitialData
  PROVE  /\ step = "syncData" /\ step' = "createSidecar"
         /\ disk \in past'
         /\ \A e \in past' : \E d \in past :
              /\ e \in Directory
              /\ e.sidecar = d.sidecar
              /\ e.gens[0] \in {d.gens[0], 0}
              /\ \A n \in Generations \ {0} : e.gens[n] = d.gens[n]
         /\ UNCHANGED <<disk, temps, commitId, version, latest, history>>
<1> USE DEF IInv, TypeOK, InitialSnapshot
<1>1. /\ step = "syncData" /\ step' = "createSidecar"
      /\ past' = {DataFlushed(d) : d \in past}
      /\ UNCHANGED <<disk, temps, commitId, version, latest, history>>
  BY DEF FlushInitialData
<1>2. disk.gens[0] = 0 /\ disk \in past /\ 0 \in Generations
  BY <1>1, MaxCommitIdAssumption
<1>3. DataFlushed(disk) = disk
  BY <1>2 DEF DataFlushed
<1>4. ASSUME NEW d \in past
      PROVE  /\ DataFlushed(d) \in Directory
             /\ DataFlushed(d).sidecar = d.sidecar
             /\ DataFlushed(d).gens[0] \in {d.gens[0], 0}
             /\ \A n \in Generations \ {0} : DataFlushed(d).gens[n] = d.gens[n]
  <2>1. CASE d.gens[0] = Torn
    <3>1. DataFlushed(d) = [d EXCEPT !.gens[0] = 0] /\ d \in Directory
      BY <1>2, <2>1 DEF DataFlushed
    <3> QED
      BY <1>2, <3>1, PutGeneration
  <2>2. CASE d.gens[0] # Torn
    BY <2>2 DEF DataFlushed
  <2> QED
    BY <2>1, <2>2
<1>5. disk \in past'
  BY <1>1, <1>2, <1>3
<1>6. ASSUME NEW e \in past'
      PROVE  \E d \in past :
               /\ e \in Directory
               /\ e.sidecar = d.sidecar
               /\ e.gens[0] \in {d.gens[0], 0}
               /\ \A n \in Generations \ {0} : e.gens[n] = d.gens[n]
  <2>1. PICK d \in past : e = DataFlushed(d)
    BY <1>1
  <2> QED
    BY <1>4, <2>1
<1> QED
  BY <1>1, <1>5, <1>6

LEMMA CreateInitialSidecarEffect ==
  ASSUME IInv, CreateInitialSidecar
  PROVE  /\ step = "createSidecar" /\ step' = "writeSidecar"
         /\ disk' \in Directory /\ past' = past \union {disk'}
         /\ disk'.sidecar = Torn
         /\ disk'.gens = disk.gens
         /\ UNCHANGED <<temps, commitId, version, latest, history>>
<1>1. disk' = [disk EXCEPT !.sidecar = Torn] /\ disk \in Directory
  BY DEF CreateInitialSidecar, CreateFile, Becomes, IInv, TypeOK
<1> QED
  BY <1>1, PutSidecar DEF CreateInitialSidecar, CreateFile, Becomes

LEMMA WriteInitialSidecarEffect ==
  ASSUME IInv, WriteInitialSidecar
  PROVE  /\ step = "writeSidecar" /\ step' = "syncSidecar"
         /\ disk' \in Directory /\ past' = past \union {disk'}
         /\ disk'.sidecar = 0
         /\ disk'.gens = disk.gens
         /\ UNCHANGED <<temps, commitId, version, latest, history>>
<1>1. disk' = [disk EXCEPT !.sidecar = 0] /\ disk \in Directory /\ 0 \in Generations
  BY MaxCommitIdAssumption DEF WriteInitialSidecar, CreateFile, Becomes, IInv, TypeOK
<1> QED
  BY <1>1, PutSidecar DEF WriteInitialSidecar, CreateFile, Becomes

LEMMA FlushInitialSidecarEffect ==
  ASSUME IInv, FlushInitialSidecar
  PROVE  /\ step = "syncSidecar" /\ step' = "ready"
         /\ disk \in past'
         /\ \A e \in past' : \E d \in past :
              /\ e \in Directory
              /\ e.gens = d.gens
              /\ e.sidecar = IF d.sidecar = Torn THEN 0 ELSE d.sidecar
         /\ version' = 0 /\ created' = TRUE /\ lastFailed' = FALSE /\ leftover' = FALSE
         /\ UNCHANGED <<disk, temps, commitId, latest, acked>>
<1> USE DEF IInv, TypeOK, InitialSnapshot
<1>1. /\ step = "syncSidecar" /\ step' = "ready"
      /\ past' = {SidecarFlushed(d) : d \in past}
      /\ version' = 0 /\ created' = TRUE /\ lastFailed' = FALSE /\ leftover' = FALSE
      /\ UNCHANGED <<disk, temps, commitId, latest, acked>>
  BY DEF FlushInitialSidecar
<1>2. disk.sidecar = 0 /\ disk \in past /\ 0 \in Generations
  BY <1>1, MaxCommitIdAssumption
<1>3. SidecarFlushed(disk) = disk
  BY <1>2 DEF SidecarFlushed
<1>4. ASSUME NEW d \in past
      PROVE  /\ SidecarFlushed(d) \in Directory
             /\ SidecarFlushed(d).gens = d.gens
             /\ SidecarFlushed(d).sidecar = IF d.sidecar = Torn THEN 0 ELSE d.sidecar
  <2>1. CASE d.sidecar = Torn
    <3>1. SidecarFlushed(d) = [d EXCEPT !.sidecar = 0] /\ d \in Directory
      BY <1>2, <2>1 DEF SidecarFlushed
    <3> QED
      BY <1>2, <2>1, <3>1, PutSidecar
  <2>2. CASE d.sidecar # Torn
    BY <2>2 DEF SidecarFlushed
  <2> QED
    BY <2>1, <2>2
<1>5. disk \in past'
  BY <1>1, <1>2, <1>3
<1>6. ASSUME NEW e \in past'
      PROVE  \E d \in past :
               /\ e \in Directory
               /\ e.gens = d.gens
               /\ e.sidecar = IF d.sidecar = Torn THEN 0 ELSE d.sidecar
  <2>1. PICK d \in past : e = SidecarFlushed(d)
    BY <1>1
  <2> QED
    BY <1>4, <2>1
<1> QED
  BY <1>1, <1>5, <1>6

\* The directory with some generations less, but not the active one
Thinner(e) ==
  /\ e \in Directory
  /\ e.sidecar = disk.sidecar
  /\ \A n \in Generations :
       e.gens[n] = disk.gens[n] \/ (e.gens[n] = Absent /\ n # disk.sidecar)

LEMMA LoadEffect ==
  ASSUME IInv, Load
  PROVE  /\ step = "load" /\ step' = "ready"
         /\ disk.sidecar \in Generations
         /\ commitId' = disk.sidecar
         /\ version' = disk.gens[disk.sidecar]
         /\ lastFailed' = FALSE
         /\ Thinner(disk') /\ disk' \in past'
         /\ past \subseteq past'
         /\ \A e \in past' : e \in past \/ Thinner(e)
         /\ leftover' \in BOOLEAN
         /\ ~leftover' => \A n \in Generations \ {disk.sidecar} : disk'.gens[n] = Absent
         /\ UNCHANGED <<temps, latest, acked, created>>
<1> USE DEF IInv, TypeOK, InitialSnapshot
<1>1. PICK removed \in SUBSET Stale(disk) :
        /\ disk' = Without(disk, removed)
        /\ past' = past \union {Without(disk, some) : some \in SUBSET removed}
        /\ leftover' = (removed # Stale(disk))
  BY DEF Load
<1>2. /\ step = "load" /\ step' = "ready"
      /\ Reads(disk) # Torn
      /\ commitId' = disk.sidecar /\ version' = Reads(disk)
      /\ lastFailed' = FALSE
      /\ UNCHANGED <<temps, latest, acked, created>>
  BY DEF Load
<1>3. disk.sidecar \in Generations
  BY <1>2 DEF Reads, Directory
<1>4. Reads(disk) = disk.gens[disk.sidecar]
  BY <1>2, <1>3 DEF Reads
<1>5. ASSUME NEW some \in SUBSET Stale(disk)
      PROVE  Thinner(Without(disk, some))
  BY WithoutSome DEF Thinner, Stale
<1>6. Thinner(disk') /\ disk' \in past'
  BY <1>1, <1>5
<1>7. \A e \in past' : e \in past \/ Thinner(e)
  BY <1>1, <1>5
<1>8. ASSUME ~leftover', NEW n \in Generations \ {disk.sidecar}
      PROVE  disk'.gens[n] = Absent
  <2>1. disk' = Without(disk, Stale(disk))
    BY <1>1, <1>8
  <2>2. n \in Stale(disk) \/ disk.gens[n] = Absent
    BY DEF Stale, Present
  <2> QED
    BY <2>1, <2>2, WithoutSome
<1>9. leftover' \in BOOLEAN /\ past \subseteq past'
  BY <1>1
<1> QED
  BY <1>2, <1>3, <1>4, <1>6, <1>7, <1>8, <1>9

LEMMA RenameGenerationEffect ==
  ASSUME IInv, RenameGeneration
  PROVE  /\ step = "renameGen" /\ step' = "writeMeta"
         /\ commitId + 1 \in Generations
         /\ disk' \in Directory /\ past' = past \union {disk'}
         /\ disk'.sidecar = disk.sidecar
         /\ disk'.gens[commitId + 1] = version
         /\ \A n \in Generations \ {commitId + 1} : disk'.gens[n] = disk.gens[n]
         /\ temps' = temps \ {"gen"}
         /\ UNCHANGED <<commitId, version, latest, history>>
<1>1. disk' = [disk EXCEPT !.gens[commitId + 1] = version]
  BY DEF RenameGeneration, Becomes, NextCommitId
<1>2. disk \in Directory /\ commitId + 1 \in Generations /\ version \in Nat
  BY MaxCommitIdAssumption DEF RenameGeneration, CommitStep, IInv, TypeOK, CommitInOrder, Committing
<1> QED
  BY <1>1, <1>2, PutGeneration DEF RenameGeneration, CommitStep, Becomes

LEMMA RenameMetaEffect ==
  ASSUME IInv, RenameMeta
  PROVE  /\ step = "renameMeta" /\ step' = "syncDir"
         /\ commitId + 1 \in Generations
         /\ disk' \in Directory /\ past' = past \union {disk'}
         /\ disk'.sidecar = commitId + 1
         /\ disk'.gens = disk.gens
         /\ temps' = temps \ {"meta"}
         /\ UNCHANGED <<commitId, version, latest, history>>
<1>1. disk' = [disk EXCEPT !.sidecar = commitId + 1]
  BY DEF RenameMeta, Becomes, NextCommitId
<1>2. disk \in Directory /\ commitId + 1 \in Generations
  BY MaxCommitIdAssumption DEF RenameMeta, CommitStep, IInv, TypeOK, CommitInOrder, Committing
<1> QED
  BY <1>1, <1>2, PutSidecar DEF RenameMeta, CommitStep, Becomes

LEMMA CommitReturnsEffect ==
  ASSUME IInv, CommitReturns
  PROVE  /\ step = "unlinkOld" /\ step' = "ready"
         /\ commitId + 1 \in Generations
         /\ commitId' = commitId + 1
         /\ disk' \in Directory
         /\ past' = past \union {disk'}
         /\ disk'.sidecar = disk.sidecar
         /\ \A n \in Generations \ {commitId} : disk'.gens[n] = disk.gens[n]
         /\ disk'.gens[commitId] \in {disk.gens[commitId], Absent}
         /\ leftover' \in BOOLEAN
         /\ ~leftover' => ~leftover /\ disk'.gens[commitId] = Absent
         /\ acked' = version /\ created' = TRUE /\ lastFailed' = FALSE
         /\ UNCHANGED <<temps, version, latest>>
<1> USE DEF IInv, TypeOK
<1>1. /\ step = "unlinkOld" /\ step' = "ready"
      /\ commitId' = commitId + 1
      /\ acked' = version /\ created' = TRUE /\ lastFailed' = FALSE
      /\ UNCHANGED <<temps, version, latest>>
  BY DEF CommitReturns, NextCommitId
<1>2. commitId + 1 \in Generations
  BY <1>1, MaxCommitIdAssumption DEF CommitInOrder, Committing
<1>3. CASE Becomes(Without(disk, {commitId})) /\ UNCHANGED leftover
  <2>1. disk' = Without(disk, {commitId}) /\ past' = past \union {disk'} /\ leftover' = leftover
    BY <1>3 DEF Becomes
  <2>2. /\ disk' \in Directory
        /\ disk'.sidecar = disk.sidecar
        /\ \A n \in Generations : disk'.gens[n] = IF n = commitId THEN Absent ELSE disk.gens[n]
    BY <2>1, WithoutSome
  <2> QED
    BY <1>1, <1>2, <2>1, <2>2
<1>4. CASE UNCHANGED <<disk, past>> /\ leftover' = TRUE
  BY <1>1, <1>2, <1>4
<1> QED
  BY <1>3, <1>4 DEF CommitReturns, Previous

-----------------------------------------------------------------------------
(***************************************************************************)
(* The three steps after which memory and disk agree.                      *)
(***************************************************************************)
LEMMA CommitReturnsFacts ==
  ASSUME IInv, CommitReturns
  PROVE  /\ past' = {disk, disk'}
         /\ commitId + 1 \in Generations
         /\ disk.sidecar = commitId + 1 /\ disk'.sidecar = commitId + 1
         /\ disk.gens[commitId + 1] = version /\ disk'.gens[commitId + 1] = version
         /\ version \in 0..latest /\ version >= acked
         /\ Reads(disk) = version /\ Reads(disk') = version
         /\ Sound(disk)
         /\ \A n \in Generations : disk'.gens[n] \in {disk.gens[n], Absent}
<1> USE CommitReturnsEffect
<1>1. step = "unlinkOld" /\ past = {disk}
  BY DEF IInv, CommitInOrder
<1>2. /\ commitId + 1 \in Generations
      /\ past' = {disk, disk'}
  BY <1>1
<1>3. disk.sidecar = commitId + 1 /\ disk'.sidecar = commitId + 1
  BY <1>1 DEF IInv, CommitInOrder
<1>4. disk.gens[commitId + 1] = version
  BY <1>1 DEF IInv, CommitInOrder
<1>5. commitId \in Nat
  BY MaxCommitIdAssumption DEF IInv, TypeOK
<1>6. disk'.gens[commitId + 1] = version
  BY <1>2, <1>4, <1>5
<1>7. version \in 0..latest /\ version >= acked
  BY <1>1 DEF IInv, TypeOK, NothingLost, Committing
<1>8. commitId + 1 # Absent /\ commitId + 1 # Torn /\ version # Absent /\ version # Torn
  BY <1>5, <1>7 DEF IInv, TypeOK
<1>9. Reads(disk) = version
  BY <1>3, <1>4, <1>8 DEF Reads
<1>10. Reads(disk') = version
  BY <1>3, <1>6, <1>8 DEF Reads
<1>11. Sound(disk)
  BY <1>1 DEF IInv, DirectoriesSound
<1>12. ASSUME NEW n \in Generations PROVE disk'.gens[n] \in {disk.gens[n], Absent}
  <2>1. CASE n = commitId
    BY <2>1
  <2>2. CASE n # commitId
    BY <2>2
  <2> QED
    BY <2>1, <2>2
<1> QED
  BY <1>2, <1>3, <1>4, <1>6, <1>7, <1>9, <1>10, <1>11, <1>12

LEMMA CommitReturnsSound ==
  ASSUME IInv, CommitReturns
  PROVE  DirectoriesSound'
<1>1. latest' = latest /\ latest <= MaxVersion /\ 0 \in Generations
  <2>1. latest' = latest
    BY CommitReturnsEffect
  <2>2. latest <= MaxVersion
    BY DEF IInv, DirectoriesSound
  <2>3. 0 \in Generations
    BY MaxCommitIdAssumption
  <2> QED
    BY <2>1, <2>2, <2>3
<1>2. Sound(disk)'
  <2>1. disk' = disk \/ disk' # disk
    OBVIOUS
  <2>2. ASSUME NEW n \in Generations
        PROVE  disk'.gens[n] <= latest /\ (disk'.gens[n] = Torn => n = 0)
    <3>1. disk.gens[n] <= latest /\ (disk.gens[n] = Torn => n = 0)
      BY CommitReturnsFacts DEF Sound
    <3>2. latest \in Nat
      BY DEF IInv, TypeOK
    <3> QED
      BY CommitReturnsFacts, <3>1, <3>2
  <2>3. disk'.gens[0] \in {Absent, Torn, 0}
    BY CommitReturnsFacts, <1>1 DEF Sound
  <2>4. disk'.sidecar \notin {Absent, Torn} /\ disk'.sidecar \in Generations
    BY CommitReturnsFacts, MaxCommitIdAssumption
  <2>5. disk'.gens[disk'.sidecar] >= 0
    BY CommitReturnsFacts
  <2> QED
    BY <1>1, <2>2, <2>3, <2>4, <2>5 DEF Sound
<1>3. ASSUME NEW d, d = disk PROVE Sound(d)'
  BY <1>1, <1>3, CommitReturnsFacts DEF Sound
<1> QED
  BY <1>1, <1>2, <1>3, CommitReturnsFacts DEF DirectoriesSound

LEMMA CommitReturnsLosesNothing ==
  ASSUME IInv, CommitReturns
  PROVE  NothingLost'
<1>1. acked' = version /\ created' = TRUE /\ version' = version
  BY CommitReturnsEffect
<1>2. /\ past' = {disk, disk'}
      /\ disk.sidecar \notin {Absent, Torn} /\ disk'.sidecar \notin {Absent, Torn}
      /\ Reads(disk) = version /\ Reads(disk') = version
      /\ version >= version
  BY CommitReturnsFacts, MaxCommitIdAssumption
<1> QED
  BY <1>1, <1>2 DEF NothingLost, Reads

LEMMA LoadFacts ==
  ASSUME IInv, Load
  PROVE  /\ disk \in Directory /\ Sound(disk)
         /\ disk.sidecar \in Generations
         /\ disk.sidecar # Absent /\ disk.sidecar # Torn
         /\ disk'.sidecar = disk.sidecar
         /\ disk' \in Directory /\ disk' \in past' /\ past' \subseteq Directory
         /\ disk.gens[disk.sidecar] \in 0..latest
         /\ Reads(disk) = disk.gens[disk.sidecar]
         /\ \A e \in past' : e \notin past => e.sidecar = disk.sidecar /\ Reads(e) = Reads(disk)
<1>1. disk.sidecar \in Generations /\ disk' \in Directory /\ disk' \in past' /\ disk'.sidecar = disk.sidecar
  BY LoadEffect DEF Thinner
<1>2. disk.sidecar # Absent /\ disk.sidecar # Torn
  BY <1>1
<1>3. disk \in Directory /\ disk \in past /\ past \subseteq Directory /\ latest \in Nat
  BY DEF IInv, TypeOK
<1>4. Sound(disk)
  BY <1>3 DEF IInv, DirectoriesSound
<1>5. disk.gens[disk.sidecar] \in Int /\ disk.gens[disk.sidecar] >= 0 /\ disk.gens[disk.sidecar] <= latest
  <2>1. disk.gens[disk.sidecar] \in {Absent, Torn} \union Nat
    BY <1>1, <1>3 DEF Directory
  <2>2. disk.gens[disk.sidecar] >= 0
    BY <1>1, <1>4 DEF Sound
  <2>3. disk.gens[disk.sidecar] <= latest
    BY <1>1, <1>4 DEF Sound
  <2> QED
    BY <2>1, <2>2, <2>3
<1>6. disk.gens[disk.sidecar] \in 0..latest
  BY <1>3, <1>5
<1>7. disk.gens[disk.sidecar] # Absent
  BY <1>5
<1>8. Reads(disk) = disk.gens[disk.sidecar]
  BY <1>2, <1>7 DEF Reads
<1>9. past' \subseteq Directory
  BY <1>3, LoadEffect DEF Thinner
<1>10. ASSUME NEW e \in past', e \notin past
       PROVE  e.sidecar = disk.sidecar /\ Reads(e) = Reads(disk)
  <2>1. e.sidecar = disk.sidecar /\ e.gens[disk.sidecar] = disk.gens[disk.sidecar]
    BY <1>1, <1>10, LoadEffect DEF Thinner
  <2> QED
    BY <1>2, <1>7, <1>8, <2>1 DEF Reads
<1> QED
  BY <1>1, <1>2, <1>3, <1>4, <1>6, <1>8, <1>9, <1>10

LEMMA LoadLosesNothing ==
  ASSUME IInv, Load
  PROVE  NothingLost'
<1>1. acked' = acked /\ created' = created /\ version' = Reads(disk)
  BY LoadEffect, LoadFacts
<1>2. (~created => acked = 0) /\ Reads(disk) >= 0
  BY LoadFacts DEF IInv, NothingLost
<1>3. ASSUME created, NEW e \in past' PROVE e.sidecar # Torn /\ Reads(e) >= acked
  <2>1. CASE e \in past
    BY <1>3, <2>1 DEF IInv, NothingLost
  <2>2. CASE e \notin past
    <3>1. Reads(disk) >= acked
      BY <1>3 DEF IInv, NothingLost, TypeOK
    <3> QED
      BY <2>2, <3>1, LoadFacts
  <2> QED
    BY <2>1, <2>2
<1>4. version' >= acked
  BY <1>1, <1>2 DEF IInv, NothingLost, TypeOK
<1>5. disk'.sidecar # Absent
  BY LoadFacts
<1> QED
  BY <1>1, <1>2, <1>3, <1>4, <1>5 DEF NothingLost, Reads

LEMMA FlushSidecarFacts ==
  ASSUME IInv, FlushInitialSidecar
  PROVE  /\ commitId = 0 /\ ~created /\ acked = 0 /\ disk.sidecar = 0
         /\ past' \subseteq Directory /\ disk \in past'
         /\ \A e \in past' : e.sidecar \in {Absent, 0} /\ Reads(e) = 0
<1>1. step = "syncSidecar" /\ disk \in past'
  BY FlushInitialSidecarEffect
<1>2. commitId = 0 /\ ~created /\ disk.sidecar = 0
  BY <1>1 DEF IInv, InitialSnapshot, Creating
<1>3. acked = 0
  BY <1>2 DEF IInv, NothingLost
<1>4. ASSUME NEW e \in past'
      PROVE  e \in Directory /\ e.sidecar \in {Absent, 0} /\ Reads(e) = 0
  <2>1. PICK d \in past : /\ e \in Directory
                          /\ e.gens = d.gens
                          /\ e.sidecar = IF d.sidecar = Torn THEN 0 ELSE d.sidecar
    BY FlushInitialSidecarEffect
  <2>2. d.sidecar \in {Absent, Torn, 0}
    BY <1>1, <2>1 DEF IInv, InitialSnapshot
  <2>3. Sound(d) /\ 0 \in Generations
    BY <2>1, MaxCommitIdAssumption DEF IInv, DirectoriesSound
  <2>4. (d.sidecar = Torn => d.gens[0] = 0) /\ (d.sidecar = 0 => d.gens[0] = 0)
    BY <2>3 DEF Sound
  <2>5. e.sidecar \in {Absent, 0} /\ (e.sidecar = 0 => e.gens[0] = 0)
    BY <2>1, <2>2, <2>4
  <2>6. Reads(e) = 0
    BY <2>5 DEF Reads
  <2> QED
    BY <2>1, <2>5, <2>6
<1> QED
  BY <1>1, <1>2, <1>3, <1>4

LEMMA FlushSidecarLosesNothing ==
  ASSUME IInv, FlushInitialSidecar
  PROVE  NothingLost'
<1>1. created' = TRUE /\ acked' = 0 /\ version' = 0 /\ disk' = disk
  BY FlushInitialSidecarEffect, FlushSidecarFacts
<1>2. ASSUME NEW e \in past' PROVE e.sidecar # Torn /\ Reads(e) >= 0
  BY FlushSidecarFacts
<1> QED
  BY <1>1, <1>2, FlushSidecarFacts DEF NothingLost, Reads

-----------------------------------------------------------------------------
(***************************************************************************)
(* Types.                                                                  *)
(***************************************************************************)
LEMMA TypeStep ==
  ASSUME IInv, Next
  PROVE  TypeOK'
<1> USE MaxCommitIdAssumption, MaxVersionAssumption DEF IInv, TypeOK, DirectoriesSound, Sound, InitialSnapshot, CommitInOrder, Committing,
            Creating, BeforeSidecar
<1>1. CASE Open
  BY <1>1 DEF Open
<1>2. CASE CleanTemporaries
  BY <1>2 DEF CleanTemporaries
<1>3. CASE CreateInitialData
  BY <1>3, CreateInitialDataEffect
<1>4. CASE WriteInitialData
  BY <1>4, WriteInitialDataEffect
<1>5. CASE FlushInitialData
  BY <1>5, FlushInitialDataEffect
<1>6. CASE CreateInitialSidecar
  BY <1>6, CreateInitialSidecarEffect
<1>7. CASE WriteInitialSidecar
  BY <1>7, WriteInitialSidecarEffect
<1>8. CASE FlushInitialSidecar
  <2>1. version' = 0 /\ step' = "ready" /\ disk \in past' /\ past' \subseteq Directory
    BY <1>8, FlushInitialSidecarEffect, FlushSidecarFacts
  <2>2. created' = TRUE /\ lastFailed' = FALSE /\ leftover' = FALSE
    BY <1>8, FlushInitialSidecarEffect
  <2>3. UNCHANGED <<disk, temps, commitId, latest, acked>>
    BY <1>8, FlushInitialSidecarEffect
  <2>4. version' \in 0..latest' /\ latest' \in Nat /\ acked' \in 0..latest'
    BY <2>1, <2>3
  <2> QED
    BY <2>1, <2>2, <2>3, <2>4
<1>9. CASE Load
  <2>1. step' = "ready" /\ commitId' \in Generations /\ version' \in 0..latest
    BY <1>9, LoadEffect, LoadFacts
  <2>2. lastFailed' = FALSE /\ leftover' \in BOOLEAN
    BY <1>9, LoadEffect
  <2>3. disk' \in Directory /\ disk' \in past' /\ past' \subseteq Directory
    BY <1>9, LoadFacts
  <2>4. UNCHANGED <<temps, latest, acked, created>>
    BY <1>9, LoadEffect
  <2> QED
    BY <2>1, <2>2, <2>3, <2>4
<1>10. CASE OpenFails
  BY <1>10 DEF OpenFails
<1>11. CASE Mutate
  BY <1>11 DEF Mutate
<1>12. CASE CommitBegins
  BY <1>12 DEF CommitBegins, CommitIdsLeft
<1>13. CASE CommitRefused
  BY <1>13 DEF CommitRefused, CommitIdsLeft
<1>14. CASE WriteGeneration
  BY <1>14 DEF WriteGeneration, CommitStep
<1>15. CASE RenameGeneration
  BY <1>15, RenameGenerationEffect
<1>16. CASE WriteMeta
  BY <1>16 DEF WriteMeta, CommitStep
<1>17. CASE RenameMeta
  BY <1>17, RenameMetaEffect
<1>18. CASE SyncDirectory
  BY <1>18 DEF SyncDirectory, CommitStep, FlushDirectory
<1>19. CASE CommitFails
  BY <1>19 DEF CommitFails
<1>20. CASE CommitReturns
  BY <1>20, CommitReturnsEffect
<1>21. CASE Close
  BY <1>21 DEF Close
<1>22. CASE Killed
  BY <1>22 DEF Killed
<1>23. CASE PowerLoss
  BY <1>23 DEF PowerLoss
<1> QED
  BY <1>1, <1>2, <1>3, <1>4, <1>5, <1>6, <1>7, <1>8, <1>9, <1>10,
     <1>11, <1>12, <1>13, <1>14, <1>15, <1>16, <1>17, <1>18, <1>19, <1>20,
     <1>21, <1>22, <1>23
  DEF Next, OpenSteps, CommitSteps
-----------------------------------------------------------------------------
(***************************************************************************)
(* A generation is named only when it is whole.                            *)
(***************************************************************************)
LEMMA SoundStep ==
  ASSUME IInv, Next
  PROVE  DirectoriesSound'
<1> USE MaxCommitIdAssumption, MaxVersionAssumption DEF IInv, TypeOK, DirectoriesSound, Sound, InitialSnapshot, CommitInOrder,
            Committing, Creating, BeforeSidecar
<1>1. CASE Open
  BY <1>1 DEF Open
<1>2. CASE CleanTemporaries
  BY <1>2 DEF CleanTemporaries
<1>3. CASE CreateInitialData
  BY <1>3, CreateInitialDataEffect
<1>4. CASE WriteInitialData
  BY <1>4, WriteInitialDataEffect
<1>5. CASE FlushInitialData
  BY <1>5, FlushInitialDataEffect
<1>6. CASE CreateInitialSidecar
  BY <1>6, CreateInitialSidecarEffect
<1>7. CASE WriteInitialSidecar
  BY <1>7, WriteInitialSidecarEffect
<1>8. CASE FlushInitialSidecar
  <2>1. latest' = latest
    BY <1>8, FlushInitialSidecarEffect
  <2>2. ASSUME NEW e \in past' PROVE Sound(e)'
    <3>1. PICK d \in past : /\ e.gens = d.gens
                            /\ e.sidecar = IF d.sidecar = Torn THEN 0 ELSE d.sidecar
      BY <1>8, FlushInitialSidecarEffect
    <3>2. Sound(d) /\ 0 \in Generations
      OBVIOUS
    <3> QED
      BY <2>1, <3>1, <3>2 DEF Sound
  <2> QED
    BY <2>1, <2>2
<1>9. CASE Load
  <2>1. latest' = latest /\ disk.sidecar \in Generations /\ Sound(disk)
    BY <1>9, LoadEffect
  <2>2. ASSUME NEW e \in past' PROVE Sound(e)'
    <3>1. CASE e \in past
      BY <2>1, <3>1 DEF Sound
    <3>2. CASE Thinner(e)
      <4>1. disk.sidecar # Absent /\ disk.sidecar # Torn
        BY <2>1
      <4> QED
        BY <2>1, <3>2, <4>1 DEF Thinner, Sound
    <3> QED
      BY <1>9, LoadEffect, <3>1, <3>2
  <2> QED
    BY <2>1, <2>2
<1>10. CASE OpenFails
  BY <1>10 DEF OpenFails
<1>11. CASE Mutate
  <2>1. latest' = latest + 1 /\ latest' <= MaxVersion /\ past' = past
    BY <1>11 DEF Mutate
  <2>2. ASSUME NEW d \in past PROVE Sound(d)'
    <3>1. Sound(d) /\ d \in Directory
      OBVIOUS
    <3>2. ASSUME NEW n \in Generations PROVE d.gens[n] <= latest'
      <4>1. d.gens[n] \in {Absent, Torn} \union Nat /\ d.gens[n] <= latest
        BY <3>1 DEF Directory, Sound
      <4> QED
        BY <2>1, <4>1
    <3> QED
      BY <3>1, <3>2 DEF Sound
  <2> QED
    BY <2>1, <2>2
<1>12. CASE CommitBegins
  BY <1>12 DEF CommitBegins, CommitIdsLeft
<1>13. CASE CommitRefused
  BY <1>13 DEF CommitRefused, CommitIdsLeft
<1>14. CASE WriteGeneration
  BY <1>14 DEF WriteGeneration, CommitStep
<1>15. CASE RenameGeneration
  BY <1>15, RenameGenerationEffect
<1>16. CASE WriteMeta
  BY <1>16 DEF WriteMeta, CommitStep
<1>17. CASE RenameMeta
  BY <1>17, RenameMetaEffect
<1>18. CASE SyncDirectory
  BY <1>18 DEF SyncDirectory, CommitStep, FlushDirectory
<1>19. CASE CommitFails
  BY <1>19 DEF CommitFails
<1>20. CASE CommitReturns
  BY <1>20, CommitReturnsSound
<1>21. CASE Close
  BY <1>21 DEF Close
<1>22. CASE Killed
  BY <1>22 DEF Killed
<1>23. CASE PowerLoss
  BY <1>23 DEF PowerLoss
<1> QED
  BY <1>1, <1>2, <1>3, <1>4, <1>5, <1>6, <1>7, <1>8, <1>9, <1>10,
     <1>11, <1>12, <1>13, <1>14, <1>15, <1>16, <1>17, <1>18, <1>19, <1>20,
     <1>21, <1>22, <1>23
  DEF Next, OpenSteps, CommitSteps
-----------------------------------------------------------------------------
(***************************************************************************)
(* A commit is acknowledged when all directories but its own are gone.     *)
(***************************************************************************)
LEMMA NothingLostStep ==
  ASSUME IInv, Next
  PROVE  NothingLost'
<1> USE MaxCommitIdAssumption, MaxVersionAssumption DEF IInv, TypeOK, DirectoriesSound, Sound, NothingLost, InitialSnapshot,
            CommitInOrder, Committing, Creating, BeforeSidecar, Reads
<1>1. CASE Open
  BY <1>1 DEF Open
<1>2. CASE CleanTemporaries
  BY <1>2 DEF CleanTemporaries
<1>3. CASE CreateInitialData
  BY <1>3, CreateInitialDataEffect
<1>4. CASE WriteInitialData
  BY <1>4, WriteInitialDataEffect
<1>5. CASE FlushInitialData
  BY <1>5, FlushInitialDataEffect
<1>6. CASE CreateInitialSidecar
  BY <1>6, CreateInitialSidecarEffect
<1>7. CASE WriteInitialSidecar
  BY <1>7, WriteInitialSidecarEffect
<1>8. CASE FlushInitialSidecar
  BY <1>8, FlushSidecarLosesNothing
<1>9. CASE Load
  BY <1>9, LoadLosesNothing
<1>10. CASE OpenFails
  BY <1>10 DEF OpenFails
<1>11. CASE Mutate
  BY <1>11 DEF Mutate
<1>12. CASE CommitBegins
  BY <1>12 DEF CommitBegins, CommitIdsLeft
<1>13. CASE CommitRefused
  BY <1>13 DEF CommitRefused, CommitIdsLeft
<1>14. CASE WriteGeneration
  BY <1>14 DEF WriteGeneration, CommitStep
<1>15. CASE RenameGeneration
  BY <1>15, RenameGenerationEffect
<1>16. CASE WriteMeta
  BY <1>16 DEF WriteMeta, CommitStep
<1>17. CASE RenameMeta
  BY <1>17, RenameMetaEffect
<1>18. CASE SyncDirectory
  BY <1>18 DEF SyncDirectory, CommitStep, FlushDirectory
<1>19. CASE CommitFails
  BY <1>19 DEF CommitFails
<1>20. CASE CommitReturns
  BY <1>20, CommitReturnsLosesNothing
<1>21. CASE Close
  BY <1>21 DEF Close
<1>22. CASE Killed
  BY <1>22 DEF Killed
<1>23. CASE PowerLoss
  BY <1>23 DEF PowerLoss
<1> QED
  BY <1>1, <1>2, <1>3, <1>4, <1>5, <1>6, <1>7, <1>8, <1>9, <1>10,
     <1>11, <1>12, <1>13, <1>14, <1>15, <1>16, <1>17, <1>18, <1>19, <1>20,
     <1>21, <1>22, <1>23
  DEF Next, OpenSteps, CommitSteps
-----------------------------------------------------------------------------
(***************************************************************************)
(* Data before the sidecar.                                                *)
(***************************************************************************)
LEMMA InitialStep ==
  ASSUME IInv, Next
  PROVE  InitialSnapshot'
<1> USE MaxCommitIdAssumption, MaxVersionAssumption DEF IInv, TypeOK, DirectoriesSound, Sound, NothingLost, InitialSnapshot,
            CommitInOrder, Committing, Creating, BeforeSidecar
<1>1. CASE Open
  BY <1>1 DEF Open
<1>2. CASE CleanTemporaries
  BY <1>2 DEF CleanTemporaries
<1>3. CASE CreateInitialData
  BY <1>3, CreateInitialDataEffect
<1>4. CASE WriteInitialData
  BY <1>4, WriteInitialDataEffect
<1>5. CASE FlushInitialData
  BY <1>5, FlushInitialDataEffect
<1>6. CASE CreateInitialSidecar
  BY <1>6, CreateInitialSidecarEffect
<1>7. CASE WriteInitialSidecar
  BY <1>7, WriteInitialSidecarEffect
<1>8. CASE FlushInitialSidecar
  BY <1>8, FlushInitialSidecarEffect
<1>9. CASE Load
  BY <1>9, LoadEffect DEF Thinner
<1>10. CASE OpenFails
  BY <1>10 DEF OpenFails
<1>11. CASE Mutate
  BY <1>11 DEF Mutate
<1>12. CASE CommitBegins
  BY <1>12 DEF CommitBegins, CommitIdsLeft
<1>13. CASE CommitRefused
  BY <1>13 DEF CommitRefused, CommitIdsLeft
<1>14. CASE WriteGeneration
  BY <1>14 DEF WriteGeneration, CommitStep
<1>15. CASE RenameGeneration
  BY <1>15, RenameGenerationEffect
<1>16. CASE WriteMeta
  BY <1>16 DEF WriteMeta, CommitStep
<1>17. CASE RenameMeta
  BY <1>17, RenameMetaEffect
<1>18. CASE SyncDirectory
  BY <1>18 DEF SyncDirectory, CommitStep, FlushDirectory
<1>19. CASE CommitFails
  BY <1>19 DEF CommitFails
<1>20. CASE CommitReturns
  BY <1>20, CommitReturnsEffect
<1>21. CASE Close
  BY <1>21 DEF Close
<1>22. CASE Killed
  BY <1>22 DEF Killed
<1>23. CASE PowerLoss
  BY <1>23 DEF PowerLoss
<1> QED
  BY <1>1, <1>2, <1>3, <1>4, <1>5, <1>6, <1>7, <1>8, <1>9, <1>10,
     <1>11, <1>12, <1>13, <1>14, <1>15, <1>16, <1>17, <1>18, <1>19, <1>20,
     <1>21, <1>22, <1>23
  DEF Next, OpenSteps, CommitSteps
-----------------------------------------------------------------------------
(***************************************************************************)
(* The generation before the sidecar, and the flush before the rest.       *)
(***************************************************************************)
LEMMA CommitStepInOrder ==
  ASSUME IInv, Next
  PROVE  CommitInOrder'
<1> USE MaxCommitIdAssumption, MaxVersionAssumption DEF IInv, TypeOK, InitialSnapshot, CommitInOrder, Committing, Creating,
            BeforeSidecar
<1>1. CASE Open
  BY <1>1 DEF Open
<1>2. CASE CleanTemporaries
  BY <1>2 DEF CleanTemporaries
<1>3. CASE CreateInitialData
  BY <1>3, CreateInitialDataEffect
<1>4. CASE WriteInitialData
  BY <1>4, WriteInitialDataEffect
<1>5. CASE FlushInitialData
  BY <1>5, FlushInitialDataEffect
<1>6. CASE CreateInitialSidecar
  BY <1>6, CreateInitialSidecarEffect
<1>7. CASE WriteInitialSidecar
  BY <1>7, WriteInitialSidecarEffect
<1>8. CASE FlushInitialSidecar
  BY <1>8, FlushInitialSidecarEffect
<1>9. CASE Load
  BY <1>9, LoadEffect DEF Thinner
<1>10. CASE OpenFails
  BY <1>10 DEF OpenFails
<1>11. CASE Mutate
  BY <1>11 DEF Mutate
<1>12. CASE CommitBegins
  BY <1>12 DEF CommitBegins, CommitIdsLeft
<1>13. CASE CommitRefused
  BY <1>13 DEF CommitRefused, CommitIdsLeft
<1>14. CASE WriteGeneration
  BY <1>14 DEF WriteGeneration, CommitStep
<1>15. CASE RenameGeneration
  BY <1>15, RenameGenerationEffect
<1>16. CASE WriteMeta
  BY <1>16 DEF WriteMeta, CommitStep
<1>17. CASE RenameMeta
  BY <1>17, RenameMetaEffect
<1>18. CASE SyncDirectory
  BY <1>18 DEF SyncDirectory, CommitStep, FlushDirectory
<1>19. CASE CommitFails
  BY <1>19 DEF CommitFails
<1>20. CASE CommitReturns
  BY <1>20, CommitReturnsEffect
<1>21. CASE Close
  BY <1>21 DEF Close
<1>22. CASE Killed
  BY <1>22 DEF Killed
<1>23. CASE PowerLoss
  BY <1>23 DEF PowerLoss
<1> QED
  BY <1>1, <1>2, <1>3, <1>4, <1>5, <1>6, <1>7, <1>8, <1>9, <1>10,
     <1>11, <1>12, <1>13, <1>14, <1>15, <1>16, <1>17, <1>18, <1>19, <1>20,
     <1>21, <1>22, <1>23
  DEF Next, OpenSteps, CommitSteps
-----------------------------------------------------------------------------
(***************************************************************************)
(* Only a failing unlink leaves a file unaccounted for.                    *)
(***************************************************************************)
LEMMA FilesStep ==
  ASSUME IInv, Next
  PROVE  FilesAccountedFor'
<1> USE MaxCommitIdAssumption, MaxVersionAssumption DEF IInv, TypeOK, InitialSnapshot, CommitInOrder, FilesAccountedFor, Committing,
            Creating, BeforeSidecar
<1>1. CASE Open
  BY <1>1 DEF Open
<1>2. CASE CleanTemporaries
  BY <1>2 DEF CleanTemporaries
<1>3. CASE CreateInitialData
  BY <1>3, CreateInitialDataEffect
<1>4. CASE WriteInitialData
  BY <1>4, WriteInitialDataEffect
<1>5. CASE FlushInitialData
  BY <1>5, FlushInitialDataEffect
<1>6. CASE CreateInitialSidecar
  BY <1>6, CreateInitialSidecarEffect
<1>7. CASE WriteInitialSidecar
  BY <1>7, WriteInitialSidecarEffect
<1>8. CASE FlushInitialSidecar
  BY <1>8, FlushInitialSidecarEffect
<1>9. CASE Load
  BY <1>9, LoadEffect DEF Thinner
<1>10. CASE OpenFails
  BY <1>10 DEF OpenFails
<1>11. CASE Mutate
  BY <1>11 DEF Mutate
<1>12. CASE CommitBegins
  BY <1>12 DEF CommitBegins, CommitIdsLeft
<1>13. CASE CommitRefused
  BY <1>13 DEF CommitRefused, CommitIdsLeft
<1>14. CASE WriteGeneration
  BY <1>14 DEF WriteGeneration, CommitStep
<1>15. CASE RenameGeneration
  BY <1>15, RenameGenerationEffect
<1>16. CASE WriteMeta
  BY <1>16 DEF WriteMeta, CommitStep
<1>17. CASE RenameMeta
  BY <1>17, RenameMetaEffect
<1>18. CASE SyncDirectory
  BY <1>18 DEF SyncDirectory, CommitStep, FlushDirectory
<1>19. CASE CommitFails
  BY <1>19 DEF CommitFails
<1>20. CASE CommitReturns
  BY <1>20, CommitReturnsEffect
<1>21. CASE Close
  BY <1>21 DEF Close
<1>22. CASE Killed
  BY <1>22 DEF Killed
<1>23. CASE PowerLoss
  BY <1>23 DEF PowerLoss
<1> QED
  BY <1>1, <1>2, <1>3, <1>4, <1>5, <1>6, <1>7, <1>8, <1>9, <1>10,
     <1>11, <1>12, <1>13, <1>14, <1>15, <1>16, <1>17, <1>18, <1>19, <1>20,
     <1>21, <1>22, <1>23
  DEF Next, OpenSteps, CommitSteps
-----------------------------------------------------------------------------
(***************************************************************************)
(* The inductive invariant holds in every reachable state.                 *)
(***************************************************************************)
THEOREM Invariant == Spec => []IInv
<1>1. Init => IInv
  <2> SUFFICES ASSUME Init PROVE IInv
    OBVIOUS
  <2> USE MaxCommitIdAssumption, MaxVersionAssumption DEF Init
  <2>1. Empty \in Directory /\ Empty.sidecar = Absent /\ \A n \in Generations : Empty.gens[n] = Absent
    BY DEF Directory, Empty
  <2>2. TypeOK
    <3>1. disk \in Directory /\ past \subseteq Directory /\ disk \in past
      BY <2>1
    <3>2. temps \subseteq {"gen", "meta"}
      OBVIOUS
    <3>3. commitId \in Generations /\ latest \in Nat /\ version \in 0..latest /\ acked \in 0..latest
      OBVIOUS
    <3>4. created \in BOOLEAN /\ lastFailed \in BOOLEAN /\ leftover \in BOOLEAN
      OBVIOUS
    <3> QED
      BY <3>1, <3>2, <3>3, <3>4 DEF TypeOK
  <2>3. DirectoriesSound
    BY <2>1 DEF DirectoriesSound, Sound
  <2>4. NothingLost /\ InitialSnapshot
    BY <2>1 DEF NothingLost, InitialSnapshot, Committing, Creating, BeforeSidecar
  <2>5. CommitInOrder /\ FilesAccountedFor
    BY DEF CommitInOrder, FilesAccountedFor, Committing, Creating, BeforeSidecar
  <2> QED
    BY <2>2, <2>3, <2>4, <2>5 DEF IInv
<1>2. IInv /\ [Next]_vars => IInv'
  <2> SUFFICES ASSUME IInv, [Next]_vars PROVE IInv'
    OBVIOUS
  <2>1. CASE Next
    BY <2>1, TypeStep, SoundStep, NothingLostStep, InitialStep, CommitStepInOrder,
       FilesStep DEF IInv
  <2>2. CASE UNCHANGED vars
    BY <2>2 DEF vars, IInv, TypeOK, DirectoriesSound, Sound, NothingLost, Reads,
       InitialSnapshot, CommitInOrder, FilesAccountedFor
  <2> QED
    BY <2>1, <2>2
<1> QED
  BY <1>1, <1>2, PTL DEF Spec

(***************************************************************************)
(* Directories, counters and steps keep their types; commitId never passes *)
(* Number.MAX_SAFE_INTEGER.                                                *)
(***************************************************************************)
THEOREM TypeCorrect == Spec => []TypeOK
<1>1. IInv => TypeOK
  BY DEF IInv
<1> QED
  BY <1>1, Invariant, PTL

(***************************************************************************)
(* After a commit that succeeded, or an opening, only the active           *)
(* generation is left, unless an unlink has failed: the clean-ups of       *)
(* fileBackend.ts and of commitFileBackendSnapshot miss nothing.           *)
(***************************************************************************)
THEOREM NoGarbageLeft == Spec => []NoGarbageAfterCommit
<1>1. IInv => NoGarbageAfterCommit
  <2> SUFFICES ASSUME IInv, step = "ready", ~lastFailed, ~leftover
               PROVE  /\ Present(disk) = {disk.sidecar}
                      /\ disk.sidecar = commitId
                      /\ temps = {}
    BY DEF NoGarbageAfterCommit
  <2> USE DEF IInv
  <2>1. /\ disk.sidecar = commitId
        /\ temps = {}
        /\ \A n \in Generations \ {commitId} : disk.gens[n] = Absent
    BY DEF FilesAccountedFor
  <2>2. commitId \in Generations /\ disk.gens[commitId] >= 0
    BY <2>1 DEF TypeOK, DirectoriesSound, Sound
  <2> QED
    BY <2>1, <2>2 DEF Present
<1> QED
  BY <1>1, Invariant, PTL

(***************************************************************************)
(* Once the initial snapshot is complete, every directory that a power     *)
(* loss may leave opens with a whole snapshot, not older than what the     *)
(* last successful commit acknowledged.                                    *)
(***************************************************************************)
THEOREM AcknowledgedStays == Spec => []Store!AcknowledgedSurvives
<1>1. IInv => Store!AcknowledgedSurvives
  <2> SUFFICES ASSUME IInv PROVE Outcomes # {} /\ \A v \in Outcomes : v >= acked
    BY DEF Store!AcknowledgedSurvives
  <2>1. CASE created
    <3>1. past # {} /\ \A d \in past : Reads(d) >= acked
      BY <2>1 DEF IInv, TypeOK, NothingLost
    <3> QED
      BY <2>1, <3>1 DEF Outcomes
  <2>2. CASE ~created
    <3>1. acked = 0 /\ Outcomes = {0}
      BY <2>2 DEF IInv, NothingLost, Outcomes
    <3> QED
      BY <3>1
  <2> QED
    BY <2>1, <2>2
<1> QED
  BY <1>1, Invariant, PTL

(***************************************************************************)
(* The file driver implements the durable store: until the fsync of the    *)
(* directory a power loss may find the old snapshot or the new one, and    *)
(* only then is the commit acknowledged.                                   *)
(***************************************************************************)
THEOREM FilesAreDurableStore == Spec => ImplementsDurableStore
<1>1. Init => Store!Init
  BY DEF Init, Store!Init, Outcomes
<1>2. IInv /\ IInv' /\ [Next]_vars => [Store!Next]_Store!storeVars
  <2> SUFFICES ASSUME IInv, IInv', [Next]_vars
               PROVE  Store!Next \/ UNCHANGED Store!storeVars
    OBVIOUS
  <2> USE MaxCommitIdAssumption, MaxVersionAssumption DEF IInv
  <2>1. acked \in 0..MaxVersion /\ acked >= acked /\ disk \in past /\ disk' \in past'
    BY DEF TypeOK, DirectoriesSound
  <2>2. Outcomes # {} /\ Outcomes' # {}
    BY <2>1 DEF Outcomes
  <2>3. ASSUME acked' = acked, Outcomes' \subseteq Outcomes
        PROVE  Store!Next
    <3>1. Store!Attempt(acked)
      BY <2>1, <2>2, <2>3 DEF Store!Attempt
    <3> QED
      BY <2>1, <3>1 DEF Store!Next
  <2>4. CASE UNCHANGED <<past, created, acked>>
    BY <2>4 DEF Store!storeVars, Outcomes, Reads
  <2>5. ASSUME step \in Committing, acked' = acked, created' = created,
               past' = past \union {disk'}, Reads(disk') \in {Reads(disk), version}
        PROVE  Store!Next
    <3>1. version \in 0..MaxVersion /\ version >= acked
      BY <2>5 DEF TypeOK, DirectoriesSound, NothingLost
    <3>2. Outcomes' \subseteq Outcomes \union {version}
      BY <2>1, <2>5 DEF Outcomes, Reads
    <3>3. Store!Attempt(version)
      BY <2>2, <2>5, <3>1, <3>2 DEF Store!Attempt
    <3> QED
      BY <3>1, <3>3 DEF Store!Next
  <2>6. CASE RenameGeneration
    <3>1. Reads(disk') \in {Reads(disk), version}
      BY <2>6, RenameGenerationEffect DEF Reads, TypeOK, CommitInOrder, Committing
    <3> QED
      BY <2>5, <2>6, <3>1, RenameGenerationEffect DEF Committing
  <2>7. CASE RenameMeta
    <3>1. Reads(disk') \in {Reads(disk), version}
      BY <2>7, RenameMetaEffect DEF Reads, TypeOK, CommitInOrder
    <3> QED
      BY <2>5, <2>7, <3>1, RenameMetaEffect DEF Committing
  <2>8. CASE SyncDirectory \/ PowerLoss
    <3>1. acked' = acked /\ created' = created /\ past' \subseteq past
      BY <2>1, <2>8 DEF SyncDirectory, CommitStep, FlushDirectory, PowerLoss
    <3> QED
      BY <2>3, <3>1 DEF Outcomes, Reads
  <2>9. CASE CommitReturns
    <3>1. acked' = version /\ created' = TRUE /\ past' = {disk, disk'}
      BY <2>9, CommitReturnsEffect, CommitReturnsFacts
    <3>2. Reads(disk) = version /\ Reads(disk') = version
      BY <2>9, CommitReturnsFacts
    <3>5. version \in 0..MaxVersion /\ version >= acked
      <4>1. version \in 0..latest /\ version >= acked
        BY <2>9, CommitReturnsFacts
      <4>2. latest \in Nat /\ latest <= MaxVersion
        BY DEF TypeOK, DirectoriesSound
      <4> QED
        BY <4>1, <4>2
    <3>3. Outcomes' = {version}
      BY <3>1, <3>2 DEF Outcomes, Reads
    <3>4. Store!Acknowledge(version)
      BY <3>1, <3>3, <3>5 DEF Store!Acknowledge
    <3> QED
      BY <3>4, <3>5 DEF Store!Next
  <2>10. CASE Load
    <3>1. acked' = acked /\ created' = created
      BY <2>10, LoadEffect
    <3>2. ASSUME NEW e \in past' PROVE e \in past \/ Reads(e) = Reads(disk)
      BY <2>10, LoadEffect DEF Thinner, Reads
    <3>3. Outcomes' \subseteq Outcomes
      BY <2>1, <3>1, <3>2 DEF Outcomes, Reads
    <3> QED
      BY <2>3, <3>1, <3>3
  <2>11. CASE CleanTemporaries
    <3>1. acked' = acked /\ past' = past /\ (created' = created \/ (~created' /\ disk.sidecar = Absent))
      BY <2>11 DEF CleanTemporaries
    <3>2. CASE created' = created
      BY <2>4, <3>1, <3>2
    <3>3. CASE ~created' /\ disk.sidecar = Absent
      <4>1. Reads(disk) = 0
        BY <3>3 DEF Reads
      <4>2. Outcomes' \subseteq Outcomes
        BY <2>1, <3>3, <4>1 DEF Outcomes
      <4> QED
        BY <2>3, <3>1, <4>2
    <3> QED
      BY <3>1, <3>2, <3>3
  <2>12. CASE FlushInitialSidecar
    <3>1. acked' = acked /\ ~created /\ created' /\ disk \in past'
      BY <2>12, FlushInitialSidecarEffect DEF InitialSnapshot, Creating
    <3>2. ASSUME NEW e \in past' PROVE Reads(e) = 0
      <4>1. PICK d \in past : /\ e.gens = d.gens
                              /\ e.sidecar = IF d.sidecar = Torn THEN 0 ELSE d.sidecar
        BY <2>12, FlushInitialSidecarEffect
      <4>2. d.sidecar \in {Absent, Torn, 0}
        BY <2>12, FlushInitialSidecarEffect DEF InitialSnapshot
      <4>3. (d.sidecar = Torn => d.gens[0] = 0) /\ (d.sidecar = 0 => d.gens[0] = 0)
        BY DEF DirectoriesSound, Sound
      <4> QED
        BY <4>1, <4>2, <4>3 DEF Reads
    <3>3. Outcomes' \subseteq Outcomes
      BY <3>1, <3>2 DEF Outcomes, Reads
    <3> QED
      BY <2>3, <3>1, <3>3
  <2>13. ASSUME ~created, created' = created, acked' = acked
         PROVE  UNCHANGED Store!storeVars
    BY <2>13 DEF Store!storeVars, Outcomes
  <2>14. CASE CreateInitialData \/ WriteInitialData \/ FlushInitialData
    BY <2>13, <2>14, CreateInitialDataEffect, WriteInitialDataEffect, FlushInitialDataEffect
       DEF InitialSnapshot, Creating, BeforeSidecar
  <2>15. CASE CreateInitialSidecar \/ WriteInitialSidecar
    BY <2>13, <2>15, CreateInitialSidecarEffect, WriteInitialSidecarEffect
       DEF InitialSnapshot, Creating, BeforeSidecar
  <2>16. CASE Open \/ OpenFails \/ Mutate \/ CommitBegins \/ CommitRefused
    BY <2>4, <2>16 DEF Open, OpenFails, Mutate, CommitBegins, CommitRefused
  <2>17. CASE WriteGeneration \/ WriteMeta \/ CommitFails \/ Close \/ Killed
    BY <2>4, <2>17 DEF WriteGeneration, WriteMeta, CommitStep, CommitFails, Close, Killed
  <2>18. CASE UNCHANGED vars
    BY <2>4, <2>18 DEF vars
  <2> QED
    BY <2>6, <2>7, <2>8, <2>9, <2>10, <2>11, <2>12, <2>14, <2>15, <2>16, <2>17, <2>18
    DEF Next, OpenSteps, CommitSteps
<1> QED
  BY <1>1, <1>2, Invariant, PTL DEF Spec, ImplementsDurableStore, Store!Spec
=============================================================================
