--------------------------- MODULE FileLock_proofs ---------------------------
(***************************************************************************)
(* Proofs about FileLock.                                                  *)
(*                                                                         *)
(* SingleWriterUnlessMistaken is not inductive: that a removal takes away  *)
(* nobody's lock needs that a lock judged stale names a dead process, and  *)
(* that the lock of whoever is between creation and release is its own.    *)
(* The recovery of a stale lock needs, besides, that a written lock of a   *)
(* live process is in use, and what a process that nobody meets can find.  *)
(***************************************************************************)
EXTENDS FileLock, TLAPS

\* From the creation of the lock to its release
Owning == {"write", "verify", "held", "release"}

\* Dead and alive are what they say.
DeadAreDead == \A p \in Processes : pc[p] = "dead" <=> p \notin alive

\* What is judged stale stays stale: no pid comes back.
StaleMeansDead == \A p \in Processes : pc[p] = "remove" => seen[p] \notin alive

\* The lock on disk is that of whoever has created one and not released it.
OwnersLock ==
  ~mistaken => \A p \in Processes : pc[p] \in Owning => creator = p

\* A lock of a live process is one it is using.
WrittenLockInUse ==
  \A p \in Processes :
    creator = p /\ p \in alive /\ written => pc[p] \in {"verify", "held", "release"}

UnwrittenLockInUse ==
  \A p \in Processes :
    creator = p /\ p \in alive /\ ~written /\ ~spoiled => pc[p] = "write"

\* What an undisturbed process finds.
OthersRest ==
  \A p \in undisturbed : \A q \in Processes \ {p} : pc[q] \in {"idle", "dead"}

NothingMovesUnderIt ==
  \A p \in undisturbed :
    /\ pc[p] = "read" => creator # NoFile
    /\ pc[p] \in {"judge", "remove"} => creator = seen[p] /\ creator # NoFile
    /\ pc[p] = "judge" => written
    /\ pc[p] = "create" /\ retrying[p] => creator = NoFile
    /\ pc[p] = "write" => creator = p
    /\ pc[p] = "verify" => creator = p /\ written

IInv ==
  /\ TypeOK
  /\ DeadAreDead
  /\ StaleMeansDead
  /\ OwnersLock
  /\ WrittenLockInUse
  /\ UnwrittenLockInUse
  /\ OthersRest
  /\ NothingMovesUnderIt

Actions(p) ==
  \/ Open(p) \/ CreateLock(p) \/ CreateRefused(p) \/ WriteLock(p) \/ WriteLockFails(p)
  \/ ReadLock(p) \/ JudgeLock(p) \/ RemoveStaleLock(p) \/ VerifyLock(p)
  \/ ReleaseBegins(p) \/ ReleaseUnlinks(p) \/ Crash(p)

(***************************************************************************)
(* Types.                                                                  *)
(***************************************************************************)
LEMMA TypeStep ==
  ASSUME IInv, NEW p \in Processes, Actions(p)
  PROVE  TypeOK'
<1> USE DEF IInv, TypeOK, Places
<1>1. CASE Open(p)
  BY <1>1 DEF Open, Goto, file, locals
<1>2. CASE CreateLock(p)
  BY <1>2 DEF CreateLock, Steps, Goto, Met, locals
<1>3. CASE CreateRefused(p)
  BY <1>3 DEF CreateRefused, Ends, Steps, Goto, Met, file
<1>4. CASE WriteLock(p)
  BY <1>4, NoFileAssumption DEF WriteLock, Steps, Goto, Met, locals
<1>5. CASE WriteLockFails(p)
  BY <1>5 DEF WriteLockFails, Goto, Met, file
<1>6. CASE ReadLock(p)
  BY <1>6 DEF ReadLock, Ends, Steps, Goto, Met, file
<1>7. CASE JudgeLock(p)
  BY <1>7 DEF JudgeLock, Ends, Steps, Goto, Met, file
<1>8. CASE RemoveStaleLock(p)
  BY <1>8 DEF RemoveStaleLock, Goto, Met
<1>9. CASE VerifyLock(p)
  BY <1>9 DEF VerifyLock, Ends, Steps, Goto, Met, file
<1>10. CASE ReleaseBegins(p)
  BY <1>10 DEF ReleaseBegins, Steps, Goto, Met, file, locals
<1>11. CASE ReleaseUnlinks(p)
  BY <1>11 DEF ReleaseUnlinks, Steps, Goto, Met, locals
<1>12. CASE Crash(p)
  BY <1>12 DEF Crash, Goto, Met, file
<1> QED
  BY <1>1, <1>2, <1>3, <1>4, <1>5, <1>6, <1>7, <1>8, <1>9, <1>10, <1>11, <1>12 DEF Actions

(***************************************************************************)
(* A killed process does nothing any more.                                 *)
(***************************************************************************)
LEMMA DeadAreDeadStep ==
  ASSUME IInv, NEW p \in Processes, Actions(p)
  PROVE  DeadAreDead'
<1> USE DEF IInv, TypeOK, DeadAreDead
<1>1. CASE Open(p)
  BY <1>1 DEF Open, Goto, file, locals
<1>2. CASE CreateLock(p)
  BY <1>2 DEF CreateLock, Steps, Goto, Met, locals
<1>3. CASE CreateRefused(p)
  BY <1>3 DEF CreateRefused, Ends, Steps, Goto, Met, file
<1>4. CASE WriteLock(p)
  BY <1>4 DEF WriteLock, Steps, Goto, Met, locals
<1>5. CASE WriteLockFails(p)
  BY <1>5 DEF WriteLockFails, Goto, Met, file
<1>6. CASE ReadLock(p)
  BY <1>6 DEF ReadLock, Ends, Steps, Goto, Met, file
<1>7. CASE JudgeLock(p)
  BY <1>7 DEF JudgeLock, Ends, Steps, Goto, Met, file
<1>8. CASE RemoveStaleLock(p)
  BY <1>8 DEF RemoveStaleLock, Goto, Met
<1>9. CASE VerifyLock(p)
  BY <1>9 DEF VerifyLock, Ends, Steps, Goto, Met, file
<1>10. CASE ReleaseBegins(p)
  BY <1>10 DEF ReleaseBegins, Steps, Goto, Met, file, locals
<1>11. CASE ReleaseUnlinks(p)
  BY <1>11 DEF ReleaseUnlinks, Steps, Goto, Met, locals
<1>12. CASE Crash(p)
  BY <1>12 DEF Crash, Goto, Met, file
<1> QED
  BY <1>1, <1>2, <1>3, <1>4, <1>5, <1>6, <1>7, <1>8, <1>9, <1>10, <1>11, <1>12 DEF Actions

(***************************************************************************)
(* A lock judged stale names a dead process, and it stays dead.            *)
(***************************************************************************)
LEMMA StaleMeansDeadStep ==
  ASSUME IInv, NEW p \in Processes, Actions(p)
  PROVE  StaleMeansDead'
<1> USE DEF IInv, TypeOK, StaleMeansDead
<1>1. CASE Open(p)
  BY <1>1 DEF Open, Goto, file, locals
<1>2. CASE CreateLock(p)
  BY <1>2 DEF CreateLock, Steps, Goto, Met, locals
<1>3. CASE CreateRefused(p)
  BY <1>3 DEF CreateRefused, Ends, Steps, Goto, Met, file
<1>4. CASE WriteLock(p)
  BY <1>4 DEF WriteLock, Steps, Goto, Met, locals
<1>5. CASE WriteLockFails(p)
  BY <1>5 DEF WriteLockFails, Goto, Met, file
<1>6. CASE ReadLock(p)
  BY <1>6 DEF ReadLock, Ends, Steps, Goto, Met, file
<1>7. CASE JudgeLock(p)
  BY <1>7 DEF JudgeLock, Ends, Steps, Goto, Met, file
<1>8. CASE RemoveStaleLock(p)
  BY <1>8 DEF RemoveStaleLock, Goto, Met
<1>9. CASE VerifyLock(p)
  BY <1>9 DEF VerifyLock, Ends, Steps, Goto, Met, file
<1>10. CASE ReleaseBegins(p)
  BY <1>10 DEF ReleaseBegins, Steps, Goto, Met, file, locals
<1>11. CASE ReleaseUnlinks(p)
  BY <1>11 DEF ReleaseUnlinks, Steps, Goto, Met, locals
<1>12. CASE Crash(p)
  BY <1>12 DEF Crash, Goto, Met, file
<1> QED
  BY <1>1, <1>2, <1>3, <1>4, <1>5, <1>6, <1>7, <1>8, <1>9, <1>10, <1>11, <1>12 DEF Actions

(***************************************************************************)
(* Two steps take the file away from under a process: a release, which is  *)
(* its own, and a removal, which is a mistake unless the owner is dead.    *)
(***************************************************************************)
LEMMA OwnersLockStep ==
  ASSUME IInv, NEW p \in Processes, Actions(p)
  PROVE  OwnersLock'
<1> USE DEF IInv, TypeOK, OwnersLock, DeadAreDead, StaleMeansDead, Owning
<1>1. CASE Open(p)
  BY <1>1 DEF Open, Goto, file, locals
<1>2. CASE CreateLock(p)
  BY <1>2, NoFileAssumption DEF CreateLock, Steps, Goto, Met, locals
<1>3. CASE CreateRefused(p)
  BY <1>3 DEF CreateRefused, Ends, Steps, Goto, Met, file
<1>4. CASE WriteLock(p)
  BY <1>4 DEF WriteLock, Steps, Goto, Met, locals
<1>5. CASE WriteLockFails(p)
  BY <1>5 DEF WriteLockFails, Goto, Met, file
<1>6. CASE ReadLock(p)
  BY <1>6 DEF ReadLock, Ends, Steps, Goto, Met, file
<1>7. CASE JudgeLock(p)
  BY <1>7 DEF JudgeLock, Ends, Steps, Goto, Met, file
<1>8. CASE RemoveStaleLock(p)
  BY <1>8, NoFileAssumption DEF RemoveStaleLock, Goto, Met
<1>9. CASE VerifyLock(p)
  BY <1>9 DEF VerifyLock, Ends, Steps, Goto, Met, file
<1>10. CASE ReleaseBegins(p)
  BY <1>10 DEF ReleaseBegins, Steps, Goto, Met, file, locals
<1>11. CASE ReleaseUnlinks(p)
  BY <1>11, NoFileAssumption DEF ReleaseUnlinks, Steps, Goto, Met, locals
<1>12. CASE Crash(p)
  BY <1>12 DEF Crash, Goto, Met, file
<1> QED
  BY <1>1, <1>2, <1>3, <1>4, <1>5, <1>6, <1>7, <1>8, <1>9, <1>10, <1>11, <1>12 DEF Actions

(***************************************************************************)
(* A written lock of a live process is held or about to be.                *)
(***************************************************************************)
LEMMA WrittenLockStep ==
  ASSUME IInv, NEW p \in Processes, Actions(p)
  PROVE  WrittenLockInUse'
<1> USE DEF IInv, TypeOK, WrittenLockInUse
<1>1. CASE Open(p)
  BY <1>1 DEF Open, Goto, file, locals
<1>2. CASE CreateLock(p)
  BY <1>2 DEF CreateLock, Steps, Goto, Met, locals
<1>3. CASE CreateRefused(p)
  BY <1>3 DEF CreateRefused, Ends, Steps, Goto, Met, file
<1>4. CASE WriteLock(p)
  BY <1>4 DEF WriteLock, Steps, Goto, Met, locals
<1>5. CASE WriteLockFails(p)
  BY <1>5 DEF WriteLockFails, Goto, Met, file
<1>6. CASE ReadLock(p)
  BY <1>6 DEF ReadLock, Ends, Steps, Goto, Met, file
<1>7. CASE JudgeLock(p)
  BY <1>7 DEF JudgeLock, Ends, Steps, Goto, Met, file
<1>8. CASE RemoveStaleLock(p)
  BY <1>8, NoFileAssumption DEF RemoveStaleLock, Goto, Met
<1>9. CASE VerifyLock(p)
  BY <1>9 DEF VerifyLock, Ends, Steps, Goto, Met, file
<1>10. CASE ReleaseBegins(p)
  BY <1>10 DEF ReleaseBegins, Steps, Goto, Met, file, locals
<1>11. CASE ReleaseUnlinks(p)
  BY <1>11, NoFileAssumption DEF ReleaseUnlinks, Steps, Goto, Met, locals
<1>12. CASE Crash(p)
  BY <1>12 DEF Crash, Goto, Met, file
<1> QED
  BY <1>1, <1>2, <1>3, <1>4, <1>5, <1>6, <1>7, <1>8, <1>9, <1>10, <1>11, <1>12 DEF Actions

(***************************************************************************)
(* An empty lock of a live process is about to be written, or its writing  *)
(* has failed.                                                             *)
(***************************************************************************)
LEMMA UnwrittenLockStep ==
  ASSUME IInv, NEW p \in Processes, Actions(p)
  PROVE  UnwrittenLockInUse'
<1> USE DEF IInv, TypeOK, UnwrittenLockInUse
<1>1. CASE Open(p)
  BY <1>1 DEF Open, Goto, file, locals
<1>2. CASE CreateLock(p)
  BY <1>2 DEF CreateLock, Steps, Goto, Met, locals
<1>3. CASE CreateRefused(p)
  BY <1>3 DEF CreateRefused, Ends, Steps, Goto, Met, file
<1>4. CASE WriteLock(p)
  BY <1>4 DEF WriteLock, Steps, Goto, Met, locals
<1>5. CASE WriteLockFails(p)
  BY <1>5 DEF WriteLockFails, Goto, Met, file
<1>6. CASE ReadLock(p)
  BY <1>6 DEF ReadLock, Ends, Steps, Goto, Met, file
<1>7. CASE JudgeLock(p)
  BY <1>7 DEF JudgeLock, Ends, Steps, Goto, Met, file
<1>8. CASE RemoveStaleLock(p)
  BY <1>8, NoFileAssumption DEF RemoveStaleLock, Goto, Met
<1>9. CASE VerifyLock(p)
  BY <1>9 DEF VerifyLock, Ends, Steps, Goto, Met, file
<1>10. CASE ReleaseBegins(p)
  BY <1>10 DEF ReleaseBegins, Steps, Goto, Met, file, locals
<1>11. CASE ReleaseUnlinks(p)
  BY <1>11, NoFileAssumption DEF ReleaseUnlinks, Steps, Goto, Met, locals
<1>12. CASE Crash(p)
  BY <1>12 DEF Crash, Goto, Met, file
<1> QED
  BY <1>1, <1>2, <1>3, <1>4, <1>5, <1>6, <1>7, <1>8, <1>9, <1>10, <1>11, <1>12 DEF Actions

(***************************************************************************)
(* Whoever moves has met everybody else.                                   *)
(***************************************************************************)
LEMMA OthersRestStep ==
  ASSUME IInv, NEW p \in Processes, Actions(p)
  PROVE  OthersRest'
<1> USE DEF IInv, TypeOK, OthersRest
<1>1. CASE Open(p)
  BY <1>1 DEF Open, Goto, file, locals
<1>2. CASE CreateLock(p)
  BY <1>2 DEF CreateLock, Steps, Goto, Met, locals
<1>3. CASE CreateRefused(p)
  BY <1>3 DEF CreateRefused, Ends, Steps, Goto, Met, file
<1>4. CASE WriteLock(p)
  BY <1>4 DEF WriteLock, Steps, Goto, Met, locals
<1>5. CASE WriteLockFails(p)
  BY <1>5 DEF WriteLockFails, Goto, Met, file
<1>6. CASE ReadLock(p)
  BY <1>6 DEF ReadLock, Ends, Steps, Goto, Met, file
<1>7. CASE JudgeLock(p)
  BY <1>7 DEF JudgeLock, Ends, Steps, Goto, Met, file
<1>8. CASE RemoveStaleLock(p)
  BY <1>8 DEF RemoveStaleLock, Goto, Met
<1>9. CASE VerifyLock(p)
  BY <1>9 DEF VerifyLock, Ends, Steps, Goto, Met, file
<1>10. CASE ReleaseBegins(p)
  BY <1>10 DEF ReleaseBegins, Steps, Goto, Met, file, locals
<1>11. CASE ReleaseUnlinks(p)
  BY <1>11 DEF ReleaseUnlinks, Steps, Goto, Met, locals
<1>12. CASE Crash(p)
  BY <1>12 DEF Crash, Goto, Met, file
<1> QED
  BY <1>1, <1>2, <1>3, <1>4, <1>5, <1>6, <1>7, <1>8, <1>9, <1>10, <1>11, <1>12 DEF Actions

(***************************************************************************)
(* A process that nobody meets finds what it has left.                     *)
(***************************************************************************)
LEMMA NothingMovesStep ==
  ASSUME IInv, NEW p \in Processes, Actions(p)
  PROVE  NothingMovesUnderIt'
<1> USE DEF IInv, TypeOK, NothingMovesUnderIt, OthersRest, WrittenLockInUse, DeadAreDead
<1>1. CASE Open(p)
  BY <1>1 DEF Open, Goto, file, locals
<1>2. CASE CreateLock(p)
  BY <1>2 DEF CreateLock, Steps, Goto, Met, locals
<1>3. CASE CreateRefused(p)
  BY <1>3 DEF CreateRefused, Ends, Steps, Goto, Met, file
<1>4. CASE WriteLock(p)
  BY <1>4 DEF WriteLock, Steps, Goto, Met, locals
<1>5. CASE WriteLockFails(p)
  BY <1>5 DEF WriteLockFails, Goto, Met, file
<1>6. CASE ReadLock(p)
  BY <1>6 DEF ReadLock, Ends, Steps, Goto, Met, file
<1>7. CASE JudgeLock(p)
  BY <1>7 DEF JudgeLock, Ends, Steps, Goto, Met, file
<1>8. CASE RemoveStaleLock(p)
  BY <1>8, NoFileAssumption DEF RemoveStaleLock, Goto, Met
<1>9. CASE VerifyLock(p)
  BY <1>9 DEF VerifyLock, Ends, Steps, Goto, Met, file
<1>10. CASE ReleaseBegins(p)
  BY <1>10 DEF ReleaseBegins, Steps, Goto, Met, file, locals
<1>11. CASE ReleaseUnlinks(p)
  BY <1>11, NoFileAssumption DEF ReleaseUnlinks, Steps, Goto, Met, locals
<1>12. CASE Crash(p)
  BY <1>12 DEF Crash, Goto, Met, file
<1> QED
  BY <1>1, <1>2, <1>3, <1>4, <1>5, <1>6, <1>7, <1>8, <1>9, <1>10, <1>11, <1>12 DEF Actions

-----------------------------------------------------------------------------
(***************************************************************************)
(* The invariant.                                                          *)
(***************************************************************************)
LEMMA Initial == Init => IInv
BY NoFileAssumption
DEF Init, IInv, TypeOK, Places, DeadAreDead, StaleMeansDead, OwnersLock, Owning,
    WrittenLockInUse, UnwrittenLockInUse, OthersRest, NothingMovesUnderIt

LEMMA Stutter == IInv /\ UNCHANGED vars => IInv'
BY DEF vars, file, locals, history, IInv, TypeOK, DeadAreDead, StaleMeansDead, OwnersLock,
       WrittenLockInUse, UnwrittenLockInUse, OthersRest, NothingMovesUnderIt

LEMMA Inductive == IInv /\ [Next]_vars => IInv'
<1>1. ASSUME IInv, NEW p \in Processes, Actions(p) PROVE IInv'
  BY <1>1, TypeStep, DeadAreDeadStep, StaleMeansDeadStep, OwnersLockStep, WrittenLockStep,
     UnwrittenLockStep, OthersRestStep, NothingMovesStep
  DEF IInv
<1>2. Next => \E p \in Processes : Actions(p)
  BY DEF Next, Actions
<1> QED
  BY <1>1, <1>2, Stutter

LEMMA Invariant == Spec => []IInv
BY Initial, Inductive, PTL DEF Spec

(***************************************************************************)
(* The variables keep their types.                                         *)
(***************************************************************************)
THEOREM TypeCorrect == Spec => []TypeOK
<1>1. IInv => TypeOK
  BY DEF IInv
<1> QED
  BY <1>1, Invariant, PTL

(***************************************************************************)
(* However many processes open, close and are killed, one at a time has    *)
(* the data file open, unless a removal has hit a replaced lock.           *)
(***************************************************************************)
THEOREM Exclusion == Spec => []SingleWriterUnlessMistaken
<1>1. IInv => SingleWriterUnlessMistaken
  BY DEF IInv, OwnersLock, Owning, SingleWriterUnlessMistaken, Holders
<1> QED
  BY <1>1, Invariant, PTL

(***************************************************************************)
(* Processes that have all closed leave no lock file.                      *)
(***************************************************************************)
THEOREM NoLockLeft == Spec => []ClosedLeavesNoLock
<1>1. IInv => ClosedLeavesNoLock
  BY DEF IInv, TypeOK, WrittenLockInUse, UnwrittenLockInUse, ClosedLeavesNoLock
<1> QED
  BY <1>1, Invariant, PTL

-----------------------------------------------------------------------------
(***************************************************************************)
(* The way of an undisturbed process to an open() that fails.              *)
(***************************************************************************)
Opening == {"create", "read", "judge", "remove", "verify"}

GivesUp(p) == p \in undisturbed /\ pc[p] \in Opening /\ pc'[p] = "idle"

LEMMA OthersKeepPlace ==
  ASSUME TypeOK, NEW p \in Processes, NEW q \in Processes, q # p, Actions(q)
  PROVE  pc'[p] = pc[p]
BY DEF TypeOK, Actions, Open, CreateLock, CreateRefused, WriteLock, WriteLockFails, ReadLock,
       JudgeLock, RemoveStaleLock, VerifyLock, ReleaseBegins, ReleaseUnlinks, Crash,
       Ends, Steps, Goto

LEMMA GivesUpOnEmptyLock ==
  ASSUME IInv, NEW p \in Processes, GivesUp(p), Actions(p)
  PROVE  creator # NoFile /\ ~written
<1> USE DEF IInv, TypeOK, GivesUp, Opening
<1>1. CASE CreateRefused(p)
  BY <1>1 DEF CreateRefused, Steps, Goto, NothingMovesUnderIt
<1>2. CASE ReadLock(p)
  BY <1>2 DEF ReadLock, Steps, Goto, NothingMovesUnderIt
<1>3. CASE JudgeLock(p)
  <2>1. pc[p] = "judge" /\ seen[p] \in alive
    BY <1>3 DEF JudgeLock, Steps, Goto
  <2>2. creator = seen[p] /\ written
    BY <2>1 DEF NothingMovesUnderIt
  <2>3. pc[creator] \in {"verify", "held", "release"}
    BY <2>1, <2>2 DEF WrittenLockInUse
  <2> QED
    BY <2>1, <2>2, <2>3 DEF OthersRest
<1>4. CASE RemoveStaleLock(p)
  BY <1>4 DEF RemoveStaleLock, Goto, NothingMovesUnderIt
<1>5. CASE VerifyLock(p)
  BY <1>5 DEF VerifyLock, Steps, Goto, NothingMovesUnderIt
<1>6. CASE Open(p) \/ CreateLock(p) \/ WriteLock(p) \/ WriteLockFails(p)
           \/ ReleaseBegins(p) \/ ReleaseUnlinks(p) \/ Crash(p)
  BY <1>6 DEF Open, CreateLock, WriteLock, WriteLockFails, ReleaseBegins, ReleaseUnlinks,
              Crash, Steps, Goto
<1> QED
  BY <1>1, <1>2, <1>3, <1>4, <1>5, <1>6 DEF Actions

(***************************************************************************)
(* A process that nobody meets gets the lock, past a dead owner's file and *)
(* whatever happened before, unless it finds an empty one.                 *)
(***************************************************************************)
THEOREM Recovery == Spec => StaleLockRecovered
<1> DEFINE Step == \A p \in Processes :
                     /\ p \in undisturbed
                     /\ pc[p] \in {"create", "read", "judge", "remove", "verify"}
                     /\ pc'[p] = "idle"
                     => creator # NoFile /\ ~written
<1>1. IInv /\ [Next]_vars => [Step]_vars
  <2> SUFFICES ASSUME IInv, Next, NEW p \in Processes, GivesUp(p)
               PROVE  creator # NoFile /\ ~written
    BY DEF GivesUp, Opening
  <2>1. PICK q \in Processes : Actions(q)
    BY DEF Next, Actions
  <2>2. q = p
    <3>1. pc'[p] # pc[p]
      BY DEF GivesUp, Opening
    <3>2. TypeOK
      BY DEF IInv
    <3> QED
      BY <2>1, <3>1, <3>2, OthersKeepPlace
  <2> QED
    BY <2>1, <2>2, GivesUpOnEmptyLock
<1> QED
  BY <1>1, Invariant, PTL DEF Spec, StaleLockRecovered
=============================================================================
