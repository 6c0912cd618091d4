----------------------------- MODULE AutoCommit -----------------------------
(***************************************************************************)
(* The commit scheduler that every durable driver inherits                 *)
(* (backend/asyncDurableAutoCommitController.ts) with its two environments *)
(* -- the datastore, which calls it, and the storage it commits to.        *)
(*                                                                         *)
(* The unit of interleaving is the stretch of JavaScript between two       *)
(* awaits.  Three parties interleave: the datastore, whose write mutex     *)
(* lets one mutation or commit() at a time call the controller; the        *)
(* interval timer; and the commit loop, which awaits the driver and whose  *)
(* promise is cleared by a finally callback one microtask after it ends.   *)
(*                                                                         *)
(* A state of the records is a version number; a commit writes the version *)
(* it finds when it takes its snapshot.                                    *)
(***************************************************************************)
EXTENDS Integers

CONSTANTS
  MaxPending,   \* autoCommit.maxPendingBytes
  Sizes,        \* bytes a mutation can signal; an in-place update that
                \* leaves the record's size unchanged signals 0
  MaxVersion    \* bound: mutations in a behaviour

ASSUME MaxPendingAssumption == MaxPending \in Nat \ {0}
ASSUME SizesAssumption == Sizes \subseteq Nat
ASSUME MaxVersionAssumption == MaxVersion \in Nat

VARIABLES
  \* fields of the controller
  frequency,          \* autoCommit.frequency: "immediate", or "scheduled"
                      \* for an interval
  pendingBytes,       \* pendingAutoCommitBytes
  dirtyFromClear,
  pendingForeground,  \* pendingForegroundCommitRequest
  pendingBackground,  \* pendingBackgroundCommitRequest
  \* the commit loop
  phase,              \* "none": commitInFlight is null
                      \* "prepare": in executeSingleCommit, before getSnapshot
                      \* "write": snapshot taken, write not yet settled
                      \* "ended": the loop is over, finally has not run yet
  run,                \* locals of the iteration: runForeground, runClear,
                      \* committedPendingBytes
  failed,             \* whether the loop ended by throwing
  \* close()
  closing,            \* "open", then "settling", "prepare", "write",
                      \* "drain", and at last "closed"
  flushFailed,
  \* the datastore
  caller,             \* "waiting" while an operation awaits commitInFlight
  goal,               \* the version that operation asked to commit
  version,            \* the state of the records in memory
  signalled,          \* the last version announced with a nonzero size
  cleared,            \* the last version made by clear()
  \* the storage
  snapshot,           \* the version being written
  durable             \* the version a reopen would find

controller == <<pendingBytes, dirtyFromClear, pendingForeground, pendingBackground>>
loop       == <<phase, run, failed>>
closure    == <<closing, flushFailed>>
records    == <<version, signalled, cleared>>
storage    == <<snapshot, durable>>
vars == <<frequency, controller, loop, closure, caller, goal, records, storage>>

Immediate == frequency = "immediate"

NoRun == [foreground |-> FALSE, clear |-> FALSE, bytes |-> 0]

Init ==
  /\ frequency \in {"immediate", "scheduled"}
  /\ pendingBytes = 0
  /\ dirtyFromClear = FALSE
  /\ pendingForeground = FALSE
  /\ pendingBackground = FALSE
  /\ phase = "none"
  /\ run = NoRun
  /\ failed = FALSE
  /\ closing = "open"
  /\ flushFailed = FALSE
  /\ caller = "idle"
  /\ goal = 0
  /\ version = 0
  /\ signalled = 0
  /\ cleared = 0
  /\ snapshot = 0
  /\ durable = 0

-----------------------------------------------------------------------------
(***************************************************************************)
(* The head of the loop: it takes the requests over and either enters      *)
(* executeSingleCommit or, with nothing to do, ends.  The arguments are    *)
(* the fields as the code before it left them.                             *)
(***************************************************************************)
ShouldRunCommit(fg, bg, dirty, bytes) == fg \/ (bg /\ (bytes > 0 \/ dirty))

LoopIteration(fg, bg, dirty, bytes) ==
  /\ pendingForeground' = FALSE
  /\ pendingBackground' = FALSE
  /\ dirtyFromClear' = FALSE
  /\ failed' = FALSE
  /\ run' = [foreground |-> fg, clear |-> dirty, bytes |-> bytes]
  /\ phase' = IF ShouldRunCommit(fg, bg, dirty, bytes) THEN "prepare" ELSE "ended"

\* queueCommitRequest: the flags are raised, and a loop is started only when
\* none is in flight.
\* (faulty: a request that finds a loop just joins it)
QueueCommitRequest_Join(fg, bg, dirty, bytes) ==
  \/ /\ phase = "none"
     /\ LoopIteration(fg, bg, dirty, bytes)
  \/ /\ phase # "none"
     /\ dirtyFromClear' = dirty
     /\ UNCHANGED <<pendingForeground, pendingBackground, loop>>

QueueCommitRequest(fg, bg, dirty, bytes) ==
  \/ /\ phase = "none"
     /\ LoopIteration(fg, bg, dirty, bytes)
  \/ /\ phase # "none"
     /\ pendingForeground' = fg
     /\ pendingBackground' = bg
     /\ dirtyFromClear' = dirty
     /\ UNCHANGED loop

\* Requests as the datastore makes them: a foreground request is awaited.
RequestForeground(dirty, bytes) ==
  /\ QueueCommitRequest(TRUE, pendingBackground, dirty, bytes)
  /\ caller' = "waiting"

RequestBackground(dirty, bytes) ==
  QueueCommitRequest(pendingForeground, TRUE, dirty, bytes)

\* The datastore calls the controller under its mutex, one operation at a
\* time, and not any more once it has begun to close it.
DatastoreMayCall == caller = "idle" /\ closing = "open"

NextVersion == version < MaxVersion /\ version' = version + 1

-----------------------------------------------------------------------------
(***************************************************************************)
(* A mutation that signals b bytes: the records change, and in the same    *)
(* stretch handleRecordAppended(b) is called.                              *)
(***************************************************************************)
RecordAppendedImmediate(b) ==
  /\ Immediate
  /\ pendingBytes' = pendingBytes
  /\ RequestForeground(dirtyFromClear, pendingBytes)
  /\ goal' = version'

RecordAppendedOverThreshold(b) ==
  /\ ~Immediate
  /\ pendingBytes' = pendingBytes + b
  /\ pendingBytes' >= MaxPending
  /\ RequestForeground(dirtyFromClear, pendingBytes')
  /\ goal' = version'

RecordAppendedDeferred(b) ==
  /\ ~Immediate
  /\ pendingBytes' = pendingBytes + b
  /\ pendingBytes' < MaxPending
  /\ UNCHANGED <<dirtyFromClear, pendingForeground, pendingBackground,
                 loop, caller, goal>>

Mutate(b) ==
  /\ DatastoreMayCall
  /\ NextVersion
  /\ signalled' = IF b > 0 THEN version' ELSE signalled
  /\ \/ RecordAppendedImmediate(b)
     \/ RecordAppendedOverThreshold(b)
     \/ RecordAppendedDeferred(b)
  /\ UNCHANGED <<frequency, cleared, closure, storage>>

(***************************************************************************)
(* clear(): the records are dropped and handleCleared() is called.  In     *)
(* scheduled mode the operation does not wait for the commit.              *)
(***************************************************************************)
Clear ==
  /\ DatastoreMayCall
  /\ NextVersion
  /\ cleared' = version'
  /\ \/ /\ Immediate
        /\ RequestForeground(TRUE, pendingBytes)
        /\ goal' = version'
     \/ /\ ~Immediate
        /\ RequestBackground(TRUE, pendingBytes)
        /\ UNCHANGED <<caller, goal>>
  /\ UNCHANGED <<frequency, pendingBytes, signalled, closure, storage>>

\* commit() of the application
CommitNow ==
  /\ DatastoreMayCall
  /\ RequestForeground(dirtyFromClear, pendingBytes)
  /\ goal' = version
  /\ UNCHANGED <<frequency, pendingBytes, records, closure, storage>>

(***************************************************************************)
(* The interval timer, present in scheduled mode until close().  It is a   *)
(* macrotask: it does not fire between the end of the loop and its finally *)
(* callback.                                                               *)
(***************************************************************************)
TimerRunning_Forever == ~Immediate  \* (faulty: close() does not stop it)

TimerRunning == ~Immediate /\ closing = "open"

UnsavedWork_BytesOnly == pendingBytes > 0  \* (faulty: forgets a clear)

UnsavedWork == pendingBytes > 0 \/ dirtyFromClear

Tick ==
  /\ TimerRunning
  /\ phase # "ended"
  /\ UnsavedWork
  /\ RequestBackground(dirtyFromClear, pendingBytes)
  /\ UNCHANGED <<frequency, pendingBytes, closure, caller, goal, records, storage>>

-----------------------------------------------------------------------------
(***************************************************************************)
(* executeSingleCommit.  The file driver awaits before it takes its        *)
(* snapshot, the others take it at once; all of them settle later.         *)
(***************************************************************************)
TakeSnapshot ==
  /\ phase = "prepare"
  /\ phase' = "write"
  /\ snapshot' = version
  /\ UNCHANGED <<frequency, controller, run, failed, closure, caller, goal, records, durable>>

\* What the loop does after an iteration that did not throw.
ContinueOrEnd(dirty, bytes) ==
  \/ /\ pendingForeground \/ pendingBackground
     /\ LoopIteration(pendingForeground, pendingBackground, dirty, bytes)
  \/ /\ ~pendingForeground /\ ~pendingBackground
     /\ phase' = "ended"
     /\ failed' = FALSE
     /\ dirtyFromClear' = dirty
     /\ UNCHANGED <<pendingForeground, pendingBackground, run>>

\* (faulty: subtracts twice, forgets what was appended meanwhile, keeps all)
Uncommitted_Twice(bytes, committed) == bytes - 2 * committed
Uncommitted_Reset(bytes, committed) == 0
Uncommitted_Kept(bytes, committed) == bytes

Uncommitted(bytes, committed) == IF bytes > committed THEN bytes - committed ELSE 0

CommitSucceeds ==
  /\ phase = "write"
  /\ durable' = snapshot
  /\ pendingBytes' = Uncommitted(pendingBytes, run.bytes)
  /\ ContinueOrEnd(dirtyFromClear, pendingBytes')
  /\ UNCHANGED <<frequency, closure, caller, goal, records, snapshot>>

\* A commit can fail before its snapshot, before the storage has it, or --
\* in a clean-up, a directory fsync or a hook -- when it is durable already.
FailedCommitLeaves(stage) ==
  \/ durable' = durable
  \/ stage = "write" /\ durable' = snapshot

\* The clear is marked again; a foreground request makes the loop throw, a
\* background failure is reported to the listeners and the loop goes on.
RestoredDirty_Lost == dirtyFromClear  \* (faulty: the clear is not retried)

RestoredDirty == dirtyFromClear \/ run.clear

LoopThrows_Never == FALSE  \* (faulty: the caller's failure goes to the listeners)

LoopThrows == run.foreground

CommitFails ==
  /\ phase \in {"prepare", "write"}
  /\ FailedCommitLeaves(phase)
  /\ \/ /\ LoopThrows
        /\ phase' = "ended"
        /\ failed' = TRUE
        /\ dirtyFromClear' = RestoredDirty
        /\ UNCHANGED <<pendingForeground, pendingBackground, run>>
     \/ /\ ~LoopThrows
        /\ ContinueOrEnd(RestoredDirty, pendingBytes)
  /\ UNCHANGED <<frequency, pendingBytes, closure, caller, goal, records, snapshot>>

(***************************************************************************)
(* The finally callback clears commitInFlight; the operation that awaits   *)
(* it then resolves or rejects as the loop did.                            *)
(***************************************************************************)
Finally ==
  /\ phase = "ended"
  /\ phase' = "none"
  /\ run' = NoRun
  /\ caller' = "idle"
  /\ UNCHANGED <<frequency, controller, failed, closure, goal, records, storage>>

-----------------------------------------------------------------------------
(***************************************************************************)
(* close(), called once, by a datastore whose operations have all ended.   *)
(***************************************************************************)
CloseBegins ==
  /\ DatastoreMayCall
  /\ closing' = "settling"
  /\ UNCHANGED <<frequency, controller, loop, flushFailed, caller, goal, records, storage>>

\* waitForCommitSettlement
Settled_Assumed == TRUE  \* (faulty: close() does not wait)

Settled == phase = "none"

CloseSettles ==
  /\ closing = "settling"
  /\ Settled
  /\ closing' = IF UnsavedWork THEN "prepare" ELSE "drain"
  /\ UNCHANGED <<frequency, controller, loop, flushFailed, caller, goal, records, storage>>

FlushSnapshot ==
  /\ closing = "prepare"
  /\ closing' = "write"
  /\ snapshot' = version
  /\ UNCHANGED <<frequency, controller, loop, flushFailed, caller, goal, records, durable>>

FlushSucceeds ==
  /\ closing = "write"
  /\ closing' = "drain"
  /\ durable' = snapshot
  /\ pendingBytes' = 0
  /\ dirtyFromClear' = FALSE
  /\ UNCHANGED <<frequency, pendingForeground, pendingBackground, loop, flushFailed,
                 caller, goal, records, snapshot>>

FlushFails ==
  /\ closing \in {"prepare", "write"}
  /\ closing' = "drain"
  /\ FailedCommitLeaves(closing)
  /\ flushFailed' = TRUE
  /\ UNCHANGED <<frequency, controller, loop, caller, goal, records, snapshot>>

\* onCloseAfterDrain releases the lock or the connection, whatever happened.
CloseDrains ==
  /\ closing = "drain"
  /\ closing' = "closed"
  /\ UNCHANGED <<frequency, controller, loop, flushFailed, caller, goal, records, storage>>

DatastoreCalls == (\E b \in Sizes : Mutate(b)) \/ Clear \/ CommitNow
LoopSteps == TakeSnapshot \/ CommitSucceeds \/ CommitFails \/ Finally
CloseSteps == CloseSettles \/ FlushSnapshot \/ FlushSucceeds \/ FlushFails \/ CloseDrains

Next == DatastoreCalls \/ Tick \/ LoopSteps \/ CloseBegins \/ CloseSteps

Spec == Init /\ [][Next]_vars

(***************************************************************************)
(* Microtasks run, a storage call settles one way or the other, the timer  *)
(* keeps firing.  Nothing makes the application act.                       *)
(***************************************************************************)
Fairness ==
  /\ WF_vars(LoopSteps)
  /\ WF_vars(CloseSteps)
  /\ WF_vars(Tick)

FairSpec == Spec /\ Fairness

\* A storage that is tried again and again is not always down.
StorageRecovers == SF_vars(TakeSnapshot) /\ SF_vars(CommitSucceeds)

-----------------------------------------------------------------------------
TypeOK ==
  /\ frequency \in {"immediate", "scheduled"}
  /\ pendingBytes \in Nat
  /\ dirtyFromClear \in BOOLEAN
  /\ pendingForeground \in BOOLEAN
  /\ pendingBackground \in BOOLEAN
  /\ phase \in {"none", "prepare", "write", "ended"}
  /\ run \in [foreground : BOOLEAN, clear : BOOLEAN, bytes : Nat]
  /\ failed \in BOOLEAN
  /\ closing \in {"open", "settling", "prepare", "write", "drain", "closed"}
  /\ flushFailed \in BOOLEAN
  /\ caller \in {"idle", "waiting"}
  /\ version \in Nat
  /\ goal \in 0..version
  /\ signalled \in 0..version
  /\ cleared \in 0..version
  /\ snapshot \in 0..version
  /\ durable \in 0..version

Committing == phase \in {"prepare", "write"}
Flushing   == closing \in {"prepare", "write"}

\* The awaited promise is about to resolve.
Resolving == phase = "ended" /\ ~failed /\ caller = "waiting"

(***************************************************************************)
(* In scheduled mode, a change announced with a nonzero size that the      *)
(* storage does not have yet keeps pendingAutoCommitBytes above zero, and  *)
(* a clear it does not have keeps the clear marked or in the commit that   *)
(* is running: whatever commits fail, and whatever is appended while one   *)
(* is under way, the next tick or close() still knows there is work.       *)
(***************************************************************************)
NothingSignalledForgotten ==
  /\ ~Immediate /\ signalled > durable => pendingBytes > 0
  /\ cleared > durable => dirtyFromClear \/ (Committing /\ run.clear)

(***************************************************************************)
(* When an operation's commit request resolves, the storage has what the   *)
(* operation asked for, or the request is still marked for the next loop.  *)
(* The second case is a request that arrived between the end of the loop   *)
(* and its finally callback.                                               *)
(***************************************************************************)
ResolvedRequestDurableOrPending ==
  Resolving => goal <= durable \/ pendingForeground

(***************************************************************************)
(* With frequency 'immediate' an operation that resolves is durable, and   *)
(* so is everything before it.                                             *)
(***************************************************************************)
ImmediateResolvesDurable == Immediate /\ Resolving => durable = version

(***************************************************************************)
(* The loop and the final flush of close() never drive the backend at the  *)
(* same time: its generation and commit counters are not reentrant.        *)
(***************************************************************************)
SingleCommitter == ~(Committing /\ Flushing)

(***************************************************************************)
(* close() that reports no flush error leaves on storage every change that *)
(* was announced with a nonzero size, and every clear.                     *)
(***************************************************************************)
CloseSavesSignalled ==
  ~Immediate /\ closing = "closed" /\ ~flushFailed =>
    signalled <= durable /\ cleared <= durable

(***************************************************************************)
(* Once close() has come to release the lock or the connection, no commit  *)
(* is started or still writing.                                            *)
(***************************************************************************)
NoCommitAfterRelease ==
  [][(closing \in {"drain", "closed"}) => UNCHANGED <<phase, durable>>]_vars

(***************************************************************************)
(* An operation that awaits a commit is answered, even when every commit   *)
(* fails and the timer keeps asking for more, and close() comes to its     *)
(* end.                                                                    *)
(***************************************************************************)
EveryoneAnswered ==
  /\ (caller = "waiting") ~> (caller = "idle")
  /\ (closing = "settling") ~> (closing = "closed")

(***************************************************************************)
(* In scheduled mode a change announced with a nonzero size, and a clear,  *)
(* reach the storage without any further call, if the storage recovers, or *)
(* the flush of close() reports that they did not.                         *)
(***************************************************************************)
SignalledBecomesDurable ==
  StorageRecovers =>
    \A v \in 1..MaxVersion :
      (~Immediate /\ (signalled >= v \/ cleared >= v)) ~>
        (durable >= v \/ (closing = "closed" /\ flushFailed))

(***************************************************************************)
(* The documented boundary: when commit(), or an operation that commits,   *)
(* resolves, what it asked for is durable.                                 *)
(***************************************************************************)
ResolvedRequestDurable == Resolving => goal <= durable

(***************************************************************************)
(* The documented duty of an update: a change that is not on storage is    *)
(* known to the pending-byte tracking whenever no commit is under way.     *)
(***************************************************************************)
UnsavedChangeTracked ==
  ~Immediate /\ phase = "none" /\ version > durable =>
    pendingBytes > 0 \/ dirtyFromClear
=============================================================================
