-------------------------- MODULE AutoCommit_proofs --------------------------
(***************************************************************************)
(* Proofs about the commit scheduler, for any threshold, any sizes and any *)
(* number of mutations.                                                    *)
(*                                                                         *)
(* None of the properties is inductive.  What a commit makes durable is    *)
(* decided at its snapshot, so the invariant says for the time of the      *)
(* write what the scheduler knows beyond the snapshot: the bytes signalled *)
(* since it exceed those the iteration took, a clear since it is marked,   *)
(* and a request since it is pending.                                      *)
(***************************************************************************)
EXTENDS AutoCommit, TLAPS

\* close() flushes and releases only when no loop is left.
NoLoopAfterSettling ==
  closing \in {"prepare", "write", "drain", "closed"} => phase = "none"

\* Nobody awaits a commit once close() has begun.
CallersBeforeClose == caller = "waiting" => closing = "open" /\ phase # "none"

\* A commit never takes the storage back.
SnapshotIsNewer ==
  /\ phase = "write" => durable <= snapshot
  /\ closing = "write" => snapshot = version

\* The bytes an iteration will subtract are part of the pending ones, and
\* more are pending when something was signalled after its snapshot.
AppendedSinceSnapshot ==
  /\ Committing => run.bytes <= pendingBytes
  /\ phase = "write" /\ ~Immediate /\ signalled > snapshot => run.bytes < pendingBytes

ClearedSinceSnapshot == phase = "write" /\ cleared > snapshot => dirtyFromClear

\* What the awaited request has come to.
RequestInHand ==
  caller = "waiting" =>
    \/ goal <= durable
    \/ pendingForeground
    \/ phase = "prepare" /\ run.foreground
    \/ phase = "write" /\ run.foreground /\ goal <= snapshot
    \/ phase = "ended" /\ failed

\* In immediate mode every loop belongs to the operation that awaits it.
ImmediateIsSerial ==
  Immediate =>
    /\ ~pendingForeground /\ ~pendingBackground
    /\ phase = "none" <=> caller = "idle"
    /\ caller = "waiting" => goal = version

FlushedUnlessFailed ==
  closing \in {"drain", "closed"} /\ ~flushFailed =>
    cleared <= durable /\ (~Immediate => signalled <= durable)

IInv ==
  /\ TypeOK
  /\ NothingSignalledForgotten
  /\ NoLoopAfterSettling
  /\ CallersBeforeClose
  /\ SnapshotIsNewer
  /\ AppendedSinceSnapshot
  /\ ClearedSinceSnapshot
  /\ RequestInHand
  /\ ImmediateIsSerial
  /\ FlushedUnlessFailed

(***************************************************************************)
(* Types, those of the loop's variables first: what LoopIteration,         *)
(* queueCommitRequest and the end of an iteration assign.                  *)
(***************************************************************************)
Booleans ==
  /\ dirtyFromClear \in BOOLEAN
  /\ pendingForeground \in BOOLEAN
  /\ pendingBackground \in BOOLEAN
  /\ failed \in BOOLEAN

LoopTypes ==
  /\ Booleans
  /\ phase \in {"none", "prepare", "write", "ended"}
  /\ run \in [foreground : BOOLEAN, clear : BOOLEAN, bytes : Nat]

LEMMA IterationTypes ==
  ASSUME NEW fg \in BOOLEAN, NEW bg \in BOOLEAN, NEW dirty \in BOOLEAN, NEW bytes \in Nat,
         LoopIteration(fg, bg, dirty, bytes)
  PROVE  LoopTypes'
BY Zenon DEF LoopIteration, LoopTypes, Booleans

LEMMA QueueTypes ==
  ASSUME LoopTypes,
         NEW fg \in BOOLEAN, NEW bg \in BOOLEAN, NEW dirty \in BOOLEAN, NEW bytes \in Nat,
         QueueCommitRequest(fg, bg, dirty, bytes)
  PROVE  LoopTypes'
<1>1. CASE LoopIteration(fg, bg, dirty, bytes)
  BY <1>1, IterationTypes
<1>2. CASE UNCHANGED loop /\ pendingForeground' = fg /\ pendingBackground' = bg
           /\ dirtyFromClear' = dirty
  BY <1>2, Zenon DEF LoopTypes, Booleans, loop
<1> QED
  BY <1>1, <1>2 DEF QueueCommitRequest

LEMMA ContinueTypes ==
  ASSUME LoopTypes, NEW dirty \in BOOLEAN, NEW bytes \in Nat, ContinueOrEnd(dirty, bytes)
  PROVE  LoopTypes'
<1>1. CASE LoopIteration(pendingForeground, pendingBackground, dirty, bytes)
  BY <1>1, IterationTypes DEF LoopTypes, Booleans
<1>2. CASE /\ UNCHANGED <<pendingForeground, pendingBackground, run>>
           /\ phase' = "ended" /\ failed' = FALSE /\ dirtyFromClear' = dirty
  BY <1>2, Zenon DEF LoopTypes, Booleans
<1> QED
  BY <1>1, <1>2 DEF ContinueOrEnd

\* The variables that are not the loop's
OtherTypes ==
  /\ frequency \in {"immediate", "scheduled"}
  /\ pendingBytes \in Nat
  /\ closing \in {"open", "settling", "prepare", "write", "drain", "closed"}
  /\ flushFailed \in BOOLEAN
  /\ caller \in {"idle", "waiting"}
  /\ version \in Nat
  /\ goal \in 0..version
  /\ signalled \in 0..version
  /\ cleared \in 0..version
  /\ snapshot \in 0..version
  /\ durable \in 0..version

LEMMA Types == TypeOK <=> LoopTypes /\ OtherTypes
BY DEF TypeOK, LoopTypes, Booleans, OtherTypes

LEMMA LoopTypeStep == TypeOK /\ OtherTypes' /\ Next => LoopTypes'
<1> SUFFICES ASSUME TypeOK, OtherTypes', Next PROVE LoopTypes'
  OBVIOUS
<1>t. LoopTypes /\ pendingBytes \in Nat /\ pendingBytes' \in Nat
  BY Types DEF OtherTypes
<1>d. Booleans
  BY <1>t DEF LoopTypes
<1>1. ASSUME NEW b \in Sizes, Mutate(b) PROVE LoopTypes'
  <2>1. CASE QueueCommitRequest(TRUE, pendingBackground, dirtyFromClear, pendingBytes)
    BY <2>1, <1>t, <1>d, QueueTypes DEF Booleans
  <2>2. CASE QueueCommitRequest(TRUE, pendingBackground, dirtyFromClear, pendingBytes')
    BY <2>2, <1>t, <1>d, QueueTypes DEF Booleans
  <2>3. CASE UNCHANGED <<dirtyFromClear, pendingForeground, pendingBackground, loop>>
    BY <2>3, <1>t DEF LoopTypes, Booleans, loop
  <2> QED
    BY <1>1, <2>1, <2>2, <2>3
   
    DEF Mutate, RecordAppendedImmediate, RecordAppendedOverThreshold,
        RecordAppendedDeferred,
        RequestForeground
<1>2. CASE Clear
  <2>1. CASE QueueCommitRequest(TRUE, pendingBackground, TRUE, pendingBytes)
    BY <2>1, <1>t, <1>d, QueueTypes DEF Booleans
  <2>2. CASE QueueCommitRequest(pendingForeground, TRUE, TRUE, pendingBytes)
    BY <2>2, <1>t, <1>d, QueueTypes DEF Booleans
  <2> QED
    BY <1>2, <2>1, <2>2 DEF Clear, RequestForeground, RequestBackground
<1>3. CASE CommitNow
  BY <1>3, <1>t, <1>d, QueueTypes DEF CommitNow, RequestForeground, Booleans
<1>4. CASE Tick
  BY <1>4, <1>t, <1>d, QueueTypes DEF Tick, RequestBackground, Booleans
<1>5. CASE CommitSucceeds
  BY <1>5, <1>t, <1>d, ContinueTypes DEF CommitSucceeds, Booleans
<1>6. CASE CommitFails
  <2>1. RestoredDirty \in BOOLEAN
    BY <1>t, <1>d DEF RestoredDirty, Booleans, LoopTypes
  <2>2. CASE ContinueOrEnd(RestoredDirty, pendingBytes)
    BY <2>1, <2>2, <1>t, ContinueTypes
  <2>3. CASE /\ UNCHANGED <<pendingForeground, pendingBackground, run>>
             /\ phase' = "ended" /\ failed' = TRUE /\ dirtyFromClear' = RestoredDirty
    BY <2>1, <2>3, <1>t, Zenon DEF LoopTypes, Booleans
  <2> QED
    BY <1>6, <2>2, <2>3 DEF CommitFails
<1>7. CASE TakeSnapshot
  BY <1>7, <1>t DEF TakeSnapshot, controller, LoopTypes, Booleans
<1>8. CASE Finally
  <2>1. NoRun \in [foreground : BOOLEAN, clear : BOOLEAN, bytes : Nat]
    BY Zenon, 0 \in Nat DEF NoRun
  <2> QED
    BY <1>8, <2>1, <1>t DEF Finally, controller, LoopTypes, Booleans
<1>9. CASE CloseBegins \/ CloseSteps
  BY <1>9, <1>t DEF CloseBegins, CloseSteps, CloseSettles, FlushSnapshot, FlushSucceeds,
                    FlushFails, CloseDrains, controller, loop, LoopTypes, Booleans
<1> QED
  BY <1>1, <1>2, <1>3, <1>4, <1>5, <1>6, <1>7, <1>8, <1>9
  DEF Next, DatastoreCalls, LoopSteps

-----------------------------------------------------------------------------
(***************************************************************************)
(* What the actions are made of.                                           *)
(***************************************************************************)
USE DEF controller, loop, closure, records, storage, Immediate, NoRun,
        DatastoreMayCall, NextVersion, RequestForeground, RequestBackground,
        QueueCommitRequest, LoopIteration, ShouldRunCommit, ContinueOrEnd,
        TimerRunning, UnsavedWork, Settled, Uncommitted, FailedCommitLeaves,
        RestoredDirty, LoopThrows

(***************************************************************************)
(* Types of the other variables; the numbers of versions are among them.   *)
(***************************************************************************)
LEMMA OtherTypeStep ==
  ASSUME TypeOK, Next
  PROVE  OtherTypes'
<1> USE DEF TypeOK, OtherTypes
<1>1. ASSUME NEW b \in Sizes, Mutate(b) PROVE OtherTypes'
  BY <1>1, SizesAssumption
  DEF Mutate, RecordAppendedImmediate, RecordAppendedOverThreshold,
      RecordAppendedDeferred
<1>2. CASE Clear
  BY <1>2 DEF Clear
<1>3. CASE CommitNow
  BY <1>3 DEF CommitNow
<1>4. CASE Tick
  BY <1>4 DEF Tick
<1>5. CASE TakeSnapshot
  BY <1>5 DEF TakeSnapshot
<1>6. CASE CommitSucceeds
  BY <1>6 DEF CommitSucceeds
<1>7. CASE CommitFails
  BY <1>7 DEF CommitFails
<1>8. CASE Finally
  BY <1>8 DEF Finally
<1>9. CASE CloseBegins
  BY <1>9 DEF CloseBegins
<1>10. CASE CloseSettles
  BY <1>10 DEF CloseSettles
<1>11. CASE FlushSnapshot
  BY <1>11 DEF FlushSnapshot
<1>12. CASE FlushSucceeds
  BY <1>12 DEF FlushSucceeds
<1>13. CASE FlushFails
  BY <1>13 DEF FlushFails
<1>14. CASE CloseDrains
  BY <1>14 DEF CloseDrains
<1> QED
  BY <1>1, <1>2, <1>3, <1>4, <1>5, <1>6, <1>7, <1>8, <1>9, <1>10, <1>11, <1>12, <1>13, <1>14
  DEF Next, DatastoreCalls, LoopSteps, CloseSteps

LEMMA TypeStep == TypeOK /\ Next => TypeOK'
BY OtherTypeStep, LoopTypeStep, Types DEF OtherTypes, LoopTypes, Booleans, TypeOK

(***************************************************************************)
(* close() waits for the loop and nothing starts another: the timer is     *)
(* stopped and the datastore calls no more.                                *)
(***************************************************************************)
LEMMA SettledStep ==
  ASSUME IInv, TypeOK', Next
  PROVE  NoLoopAfterSettling'
<1> USE DEF IInv, TypeOK, NoLoopAfterSettling, CallersBeforeClose
<1>1. ASSUME NEW b \in Sizes, Mutate(b) PROVE NoLoopAfterSettling'
  BY <1>1, SizesAssumption
  DEF Mutate, RecordAppendedImmediate, RecordAppendedOverThreshold,
      RecordAppendedDeferred
<1>2. CASE Clear
  BY <1>2 DEF Clear
<1>3. CASE CommitNow
  BY <1>3 DEF CommitNow
<1>4. CASE Tick
  BY <1>4 DEF Tick
<1>5. CASE TakeSnapshot
  BY <1>5 DEF TakeSnapshot
<1>6. CASE CommitSucceeds
  BY <1>6 DEF CommitSucceeds
<1>7. CASE CommitFails
  BY <1>7 DEF CommitFails
<1>8. CASE Finally
  BY <1>8 DEF Finally
<1>9. CASE CloseBegins
  BY <1>9 DEF CloseBegins
<1>10. CASE CloseSettles
  BY <1>10 DEF CloseSettles
<1>11. CASE FlushSnapshot
  BY <1>11 DEF FlushSnapshot
<1>12. CASE FlushSucceeds
  BY <1>12 DEF FlushSucceeds
<1>13. CASE FlushFails
  BY <1>13 DEF FlushFails
<1>14. CASE CloseDrains
  BY <1>14 DEF CloseDrains
<1> QED
  BY <1>1, <1>2, <1>3, <1>4, <1>5, <1>6, <1>7, <1>8, <1>9, <1>10, <1>11, <1>12, <1>13, <1>14
  DEF Next, DatastoreCalls, LoopSteps, CloseSteps

(***************************************************************************)
(* A request is awaited until the finally callback, and close() comes only *)
(* when no operation is under way.                                         *)
(***************************************************************************)
LEMMA CallersStep ==
  ASSUME IInv, TypeOK', Next
  PROVE  CallersBeforeClose'
<1> USE DEF IInv, TypeOK, CallersBeforeClose, NoLoopAfterSettling
<1>1. ASSUME NEW b \in Sizes, Mutate(b) PROVE CallersBeforeClose'
  BY <1>1, SizesAssumption
  DEF Mutate, RecordAppendedImmediate, RecordAppendedOverThreshold,
      RecordAppendedDeferred
<1>2. CASE Clear
  BY <1>2 DEF Clear
<1>3. CASE CommitNow
  BY <1>3 DEF CommitNow
<1>4. CASE Tick
  BY <1>4 DEF Tick
<1>5. CASE TakeSnapshot
  BY <1>5 DEF TakeSnapshot
<1>6. CASE CommitSucceeds
  BY <1>6 DEF CommitSucceeds
<1>7. CASE CommitFails
  BY <1>7 DEF CommitFails
<1>8. CASE Finally
  BY <1>8 DEF Finally
<1>9. CASE CloseBegins
  BY <1>9 DEF CloseBegins
<1>10. CASE CloseSteps
  BY <1>10
  DEF CloseSteps, CloseSettles, FlushSnapshot, FlushSucceeds, FlushFails,
      CloseDrains
<1> QED
  BY <1>1, <1>2, <1>3, <1>4, <1>5, <1>6, <1>7, <1>8, <1>9, <1>10
  DEF Next, DatastoreCalls, LoopSteps

(***************************************************************************)
(* Of loop and flush one at a time writes, so the storage is not changed   *)
(* between a snapshot and the end of its write.                            *)
(***************************************************************************)
LEMMA SnapshotStep ==
  ASSUME IInv, TypeOK', Next
  PROVE  SnapshotIsNewer'
<1> USE DEF IInv, TypeOK, SnapshotIsNewer, NoLoopAfterSettling
<1>1. ASSUME NEW b \in Sizes, Mutate(b) PROVE SnapshotIsNewer'
  BY <1>1, SizesAssumption
  DEF Mutate, RecordAppendedImmediate, RecordAppendedOverThreshold,
      RecordAppendedDeferred
<1>2. CASE Clear
  BY <1>2 DEF Clear
<1>3. CASE CommitNow
  BY <1>3 DEF CommitNow
<1>4. CASE Tick
  BY <1>4 DEF Tick
<1>5. CASE TakeSnapshot
  BY <1>5 DEF TakeSnapshot
<1>6. CASE CommitSucceeds
  BY <1>6 DEF CommitSucceeds
<1>7. CASE CommitFails
  BY <1>7 DEF CommitFails
<1>8. CASE Finally
  BY <1>8 DEF Finally
<1>9. CASE CloseBegins
  BY <1>9 DEF CloseBegins
<1>10. CASE CloseSettles
  BY <1>10 DEF CloseSettles
<1>11. CASE FlushSnapshot
  BY <1>11 DEF FlushSnapshot
<1>12. CASE FlushSucceeds
  BY <1>12 DEF FlushSucceeds
<1>13. CASE FlushFails
  BY <1>13 DEF FlushFails
<1>14. CASE CloseDrains
  BY <1>14 DEF CloseDrains
<1> QED
  BY <1>1, <1>2, <1>3, <1>4, <1>5, <1>6, <1>7, <1>8, <1>9, <1>10, <1>11, <1>12, <1>13, <1>14
  DEF Next, DatastoreCalls, LoopSteps, CloseSteps

(***************************************************************************)
(* Between snapshot and end of the write the pending bytes only grow.      *)
(***************************************************************************)
LEMMA AppendedStep ==
  ASSUME IInv, TypeOK', Next
  PROVE  AppendedSinceSnapshot'
<1> USE DEF IInv, TypeOK, AppendedSinceSnapshot, NoLoopAfterSettling, Committing
<1>1. ASSUME NEW b \in Sizes, Mutate(b) PROVE AppendedSinceSnapshot'
  BY <1>1, SizesAssumption
  DEF Mutate, RecordAppendedImmediate, RecordAppendedOverThreshold,
      RecordAppendedDeferred
<1>2. CASE Clear
  BY <1>2 DEF Clear
<1>3. CASE CommitNow
  BY <1>3 DEF CommitNow
<1>4. CASE Tick
  BY <1>4 DEF Tick
<1>5. CASE TakeSnapshot
  BY <1>5 DEF TakeSnapshot
<1>6. CASE CommitSucceeds
  BY <1>6 DEF CommitSucceeds
<1>7. CASE CommitFails
  BY <1>7 DEF CommitFails
<1>8. CASE Finally
  BY <1>8 DEF Finally
<1>9. CASE CloseBegins
  BY <1>9 DEF CloseBegins
<1>10. CASE CloseSteps
  BY <1>10
  DEF CloseSteps, CloseSettles, FlushSnapshot, FlushSucceeds, FlushFails,
      CloseDrains
<1> QED
  BY <1>1, <1>2, <1>3, <1>4, <1>5, <1>6, <1>7, <1>8, <1>9, <1>10
  DEF Next, DatastoreCalls, LoopSteps

(***************************************************************************)
(* A clear that arrives during the write finds a loop and marks the flag.  *)
(***************************************************************************)
LEMMA ClearedStep ==
  ASSUME IInv, TypeOK', Next
  PROVE  ClearedSinceSnapshot'
<1> USE DEF IInv, TypeOK, ClearedSinceSnapshot, NoLoopAfterSettling
<1>1. ASSUME NEW b \in Sizes, Mutate(b) PROVE ClearedSinceSnapshot'
  BY <1>1, SizesAssumption
  DEF Mutate, RecordAppendedImmediate, RecordAppendedOverThreshold,
      RecordAppendedDeferred
<1>2. CASE Clear
  BY <1>2 DEF Clear
<1>3. CASE CommitNow
  BY <1>3 DEF CommitNow
<1>4. CASE Tick
  BY <1>4 DEF Tick
<1>5. CASE TakeSnapshot
  BY <1>5 DEF TakeSnapshot
<1>6. CASE CommitSucceeds
  BY <1>6 DEF CommitSucceeds
<1>7. CASE CommitFails
  BY <1>7 DEF CommitFails
<1>8. CASE Finally
  BY <1>8 DEF Finally
<1>9. CASE CloseBegins
  BY <1>9 DEF CloseBegins
<1>10. CASE CloseSteps
  BY <1>10
  DEF CloseSteps, CloseSettles, FlushSnapshot, FlushSucceeds, FlushFails,
      CloseDrains
<1> QED
  BY <1>1, <1>2, <1>3, <1>4, <1>5, <1>6, <1>7, <1>8, <1>9, <1>10
  DEF Next, DatastoreCalls, LoopSteps

(***************************************************************************)
(* At the end of a write the bytes that are subtracted are those the       *)
(* snapshot has; a failing commit subtracts none and marks its clear again. *)
(***************************************************************************)
LEMMA ForgottenStep ==
  ASSUME IInv, TypeOK', Next
  PROVE  NothingSignalledForgotten'
<1> USE DEF IInv, TypeOK, NothingSignalledForgotten, SnapshotIsNewer,
            AppendedSinceSnapshot, ClearedSinceSnapshot, NoLoopAfterSettling,
            Committing
<1>1. ASSUME NEW b \in Sizes, Mutate(b) PROVE NothingSignalledForgotten'
  BY <1>1, SizesAssumption
  DEF Mutate, RecordAppendedImmediate, RecordAppendedOverThreshold,
      RecordAppendedDeferred
<1>2. CASE Clear
  BY <1>2 DEF Clear
<1>3. CASE CommitNow
  BY <1>3 DEF CommitNow
<1>4. CASE Tick
  BY <1>4 DEF Tick
<1>5. CASE TakeSnapshot
  BY <1>5 DEF TakeSnapshot
<1>6. CASE CommitSucceeds
  BY <1>6 DEF CommitSucceeds
<1>7. CASE CommitFails
  BY <1>7 DEF CommitFails
<1>8. CASE Finally
  BY <1>8 DEF Finally
<1>9. CASE CloseBegins
  BY <1>9 DEF CloseBegins
<1>10. CASE CloseSteps
  BY <1>10
  DEF CloseSteps, CloseSettles, FlushSnapshot, FlushSucceeds, FlushFails,
      CloseDrains
<1> QED
  BY <1>1, <1>2, <1>3, <1>4, <1>5, <1>6, <1>7, <1>8, <1>9, <1>10
  DEF Next, DatastoreCalls, LoopSteps

(***************************************************************************)
(* A request is taken over by an iteration whose snapshot comes later, or  *)
(* stays pending; an iteration that took it and fails makes the loop throw. *)
(***************************************************************************)
LEMMA RequestStep ==
  ASSUME IInv, TypeOK', Next
  PROVE  RequestInHand'
<1> USE DEF IInv, TypeOK, RequestInHand, SnapshotIsNewer, CallersBeforeClose
<1>1. ASSUME NEW b \in Sizes, Mutate(b) PROVE RequestInHand'
  BY <1>1, SizesAssumption
  DEF Mutate, RecordAppendedImmediate, RecordAppendedOverThreshold,
      RecordAppendedDeferred
<1>2. CASE Clear
  BY <1>2 DEF Clear
<1>3. CASE CommitNow
  BY <1>3 DEF CommitNow
<1>4. CASE Tick
  BY <1>4 DEF Tick
<1>5. CASE TakeSnapshot
  BY <1>5 DEF TakeSnapshot
<1>6. CASE CommitSucceeds
  BY <1>6 DEF CommitSucceeds
<1>7. CASE CommitFails
  BY <1>7 DEF CommitFails
<1>8. CASE Finally
  BY <1>8 DEF Finally
<1>9. CASE CloseBegins
  BY <1>9 DEF CloseBegins
<1>10. CASE CloseSteps
  BY <1>10
  DEF CloseSteps, CloseSettles, FlushSnapshot, FlushSucceeds, FlushFails,
      CloseDrains
<1> QED
  BY <1>1, <1>2, <1>3, <1>4, <1>5, <1>6, <1>7, <1>8, <1>9, <1>10
  DEF Next, DatastoreCalls, LoopSteps

(***************************************************************************)
(* Without timer and background requests nobody but the awaiting operation *)
(* finds a loop.                                                           *)
(***************************************************************************)
LEMMA ImmediateStep ==
  ASSUME IInv, TypeOK', Next
  PROVE  ImmediateIsSerial'
<1> USE DEF IInv, TypeOK, ImmediateIsSerial, CallersBeforeClose, Immediate
<1>1. ASSUME NEW b \in Sizes, Mutate(b) PROVE ImmediateIsSerial'
  BY <1>1, SizesAssumption
  DEF Mutate, RecordAppendedImmediate, RecordAppendedOverThreshold,
      RecordAppendedDeferred
<1>2. CASE Clear
  BY <1>2 DEF Clear
<1>3. CASE CommitNow
  BY <1>3 DEF CommitNow
<1>4. CASE Tick
  BY <1>4 DEF Tick
<1>5. CASE TakeSnapshot
  BY <1>5 DEF TakeSnapshot
<1>6. CASE CommitSucceeds
  BY <1>6 DEF CommitSucceeds
<1>7. CASE CommitFails
  BY <1>7 DEF CommitFails
<1>8. CASE Finally
  BY <1>8 DEF Finally
<1>9. CASE CloseBegins
  BY <1>9 DEF CloseBegins
<1>10. CASE CloseSteps
  BY <1>10
  DEF CloseSteps, CloseSettles, FlushSnapshot, FlushSucceeds, FlushFails,
      CloseDrains
<1> QED
  BY <1>1, <1>2, <1>3, <1>4, <1>5, <1>6, <1>7, <1>8, <1>9, <1>10
  DEF Next, DatastoreCalls, LoopSteps

(***************************************************************************)
(* close() skips the flush only when nothing is pending, and otherwise     *)
(* writes the last version.                                                *)
(***************************************************************************)
LEMMA FlushedStep ==
  ASSUME IInv, TypeOK', Next
  PROVE  FlushedUnlessFailed'
<1> USE DEF IInv, TypeOK, FlushedUnlessFailed, NothingSignalledForgotten,
            SnapshotIsNewer, NoLoopAfterSettling, Committing
<1>1. ASSUME NEW b \in Sizes, Mutate(b) PROVE FlushedUnlessFailed'
  BY <1>1, SizesAssumption
  DEF Mutate, RecordAppendedImmediate, RecordAppendedOverThreshold,
      RecordAppendedDeferred
<1>2. CASE Clear
  BY <1>2 DEF Clear
<1>3. CASE CommitNow
  BY <1>3 DEF CommitNow
<1>4. CASE Tick
  BY <1>4 DEF Tick
<1>5. CASE TakeSnapshot
  BY <1>5 DEF TakeSnapshot
<1>6. CASE CommitSucceeds
  BY <1>6 DEF CommitSucceeds
<1>7. CASE CommitFails
  BY <1>7 DEF CommitFails
<1>8. CASE Finally
  BY <1>8 DEF Finally
<1>9. CASE CloseBegins
  BY <1>9 DEF CloseBegins
<1>10. CASE CloseSettles
  BY <1>10 DEF CloseSettles
<1>11. CASE FlushSnapshot
  BY <1>11 DEF FlushSnapshot
<1>12. CASE FlushSucceeds
  BY <1>12 DEF FlushSucceeds
<1>13. CASE FlushFails
  BY <1>13 DEF FlushFails
<1>14. CASE CloseDrains
  BY <1>14 DEF CloseDrains
<1> QED
  BY <1>1, <1>2, <1>3, <1>4, <1>5, <1>6, <1>7, <1>8, <1>9, <1>10, <1>11, <1>12, <1>13, <1>14
  DEF Next, DatastoreCalls, LoopSteps, CloseSteps

-----------------------------------------------------------------------------
(***************************************************************************)
(* The invariant.                                                          *)
(***************************************************************************)
LEMMA Initial == Init => IInv
<1> SUFFICES ASSUME Init PROVE IInv
  OBVIOUS
<1>1. NoRun \in [foreground : BOOLEAN, clear : BOOLEAN, bytes : Nat]
  BY Zenon, 0 \in Nat DEF NoRun
<1>2. TypeOK
  <2>1. LoopTypes
    <3>1. run \in [foreground : BOOLEAN, clear : BOOLEAN, bytes : Nat]
      BY <1>1, Zenon DEF Init
    <3> QED
      BY <3>1 DEF Init, LoopTypes, Booleans
  <2>2. OtherTypes
    <3>1. 0 \in 0..0
      OBVIOUS
    <3> QED
      BY <3>1, Zenon, 0 \in Nat DEF Init, OtherTypes
  <2> QED
    BY <2>1, <2>2, Types
<1> QED
  BY <1>2
  DEF Init, IInv, NothingSignalledForgotten, NoLoopAfterSettling,
      CallersBeforeClose, SnapshotIsNewer, AppendedSinceSnapshot, ClearedSinceSnapshot,
      RequestInHand, ImmediateIsSerial, FlushedUnlessFailed, Committing, Immediate

\* A step of the environment alone leaves every conjunct as it was.
LEMMA Stutter == IInv /\ UNCHANGED vars => IInv'
BY DEF vars, controller, loop, closure, records, storage, IInv, TypeOK,
       NothingSignalledForgotten, NoLoopAfterSettling, CallersBeforeClose, SnapshotIsNewer,
       AppendedSinceSnapshot, ClearedSinceSnapshot, RequestInHand, ImmediateIsSerial,
       FlushedUnlessFailed, Committing, Immediate

LEMMA Inductive == IInv /\ [Next]_vars => IInv'
<1>1. ASSUME IInv, Next PROVE IInv'
  <2>1. TypeOK'
    BY <1>1, TypeStep DEF IInv
  <2> QED
    BY <1>1, <2>1, SettledStep, CallersStep, SnapshotStep, AppendedStep, ClearedStep,
       ForgottenStep, RequestStep, ImmediateStep, FlushedStep
    DEF IInv
<1> QED
  BY <1>1, Stutter

LEMMA Invariant == Spec => []IInv
BY Initial, Inductive, PTL DEF Spec

-----------------------------------------------------------------------------
(***************************************************************************)
(* The variables keep their types; no version is counted beyond the last.  *)
(***************************************************************************)
THEOREM TypeCorrect == Spec => []TypeOK
<1>1. IInv => TypeOK
  BY DEF IInv
<1> QED
  BY <1>1, Invariant, PTL

(***************************************************************************)
(* What was signalled, or cleared, and is not durable is known to the next *)
(* tick and to close().                                                    *)
(***************************************************************************)
THEOREM NothingForgotten == Spec => []NothingSignalledForgotten
<1>1. IInv => NothingSignalledForgotten
  BY DEF IInv
<1> QED
  BY <1>1, Invariant, PTL

(***************************************************************************)
(* A request that resolves is durable, or still marked.                    *)
(***************************************************************************)
THEOREM RequestsKept == Spec => []ResolvedRequestDurableOrPending
<1>1. IInv => ResolvedRequestDurableOrPending
  BY DEF IInv, RequestInHand, ResolvedRequestDurableOrPending, Resolving
<1> QED
  BY <1>1, Invariant, PTL

(***************************************************************************)
(* In immediate mode an operation that resolves is durable.                *)
(***************************************************************************)
THEOREM ImmediateIsDurable == Spec => []ImmediateResolvesDurable
<1>1. IInv => ImmediateResolvesDurable
  BY DEF IInv, TypeOK, RequestInHand, ImmediateIsSerial, ImmediateResolvesDurable, Resolving
<1> QED
  BY <1>1, Invariant, PTL

(***************************************************************************)
(* The loop and the flush of close() never commit at the same time.        *)
(***************************************************************************)
THEOREM OneCommitter == Spec => []SingleCommitter
<1>1. IInv => SingleCommitter
  BY DEF IInv, NoLoopAfterSettling, SingleCommitter, Committing, Flushing
<1> QED
  BY <1>1, Invariant, PTL

(***************************************************************************)
(* close() without a flush error has saved everything signalled.           *)
(***************************************************************************)
THEOREM CloseSaves == Spec => []CloseSavesSignalled
<1>1. IInv => CloseSavesSignalled
  BY DEF IInv, FlushedUnlessFailed, CloseSavesSignalled
<1> QED
  BY <1>1, Invariant, PTL

(***************************************************************************)
(* After the release of the lock or the connection nothing commits.        *)
(***************************************************************************)
THEOREM ReleasedIsQuiet == Spec => NoCommitAfterRelease
<1> DEFINE Quiet == closing \in {"drain", "closed"} => UNCHANGED <<phase, durable>>
<1>1. IInv /\ [Next]_vars => [Quiet]_vars
  <2> SUFFICES ASSUME IInv, Next, closing \in {"drain", "closed"}
               PROVE  UNCHANGED <<phase, durable>>
    OBVIOUS
  <2>1. phase = "none"
    BY DEF IInv, NoLoopAfterSettling
  <2>2. ~DatastoreCalls /\ ~Tick /\ ~LoopSteps /\ ~CloseBegins
    BY <2>1
    DEF DatastoreCalls, Mutate, Clear, CommitNow, DatastoreMayCall, Tick, TimerRunning,
        LoopSteps, TakeSnapshot, CommitSucceeds, CommitFails, Finally, CloseBegins
  <2>3. CloseDrains
    BY <2>2 DEF Next, CloseSteps, CloseSettles, FlushSnapshot, FlushSucceeds, FlushFails
  <2> QED
    BY <2>3 DEF CloseDrains, loop, storage
<1> QED
  BY <1>1, Invariant, PTL DEF Spec, NoCommitAfterRelease
=============================================================================
