----------------------------- MODULE AsyncMutex -----------------------------
(***************************************************************************)
(* The promise mutex of the datastore (backend/asyncMutex.ts).             *)
(*                                                                         *)
(* acquire() returns a promise of a release closure.  A caller that finds  *)
(* the mutex locked pushes its resolver on `queue`; release() resolves the *)
(* entry at `head` and leaves a dead slot behind, and now and then cuts    *)
(* the dead prefix off.  `locked` stays true across a hand-over.           *)
(*                                                                         *)
(* JavaScript runs each call to completion, so a call is one action.  The  *)
(* module is about callers in general: one that has released may call its  *)
(* old closure again, while others hold the mutex or wait for it.          *)
(***************************************************************************)
EXTENDS Integers, Sequences

CONSTANTS
  Clients,            \* the callers
  Dead,               \* what release() leaves in a slot it has served
  CompactThreshold    \* 1024 in the code: dead slots kept before compaction

ASSUME DeadAssumption == Dead \notin Clients
ASSUME ThresholdAssumption == CompactThreshold \in Nat

VARIABLES
  locked,   \* this.locked
  queue,    \* this.queue: resolvers (by their caller) and dead slots
  head,     \* this.head: slots of the queue that have been served
  closure   \* per client, the closure of its last acquire(): "none" before
            \* the first one, "pending" until the promise resolves, then
            \* "live", and "released" once its `released` flag is set

vars == <<locked, queue, head, closure>>

ClosureState == {"none", "pending", "live", "released"}

Init ==
  /\ locked = FALSE
  /\ queue = <<>>
  /\ head = 0
  /\ closure = [c \in Clients |-> "none"]

\* A client waits for one acquire() at a time, and does not ask for the
\* mutex it holds.
MayAcquire(c) == closure[c] \in {"none", "released"}

AcquireFree(c) ==
  /\ MayAcquire(c)
  /\ ~locked
  /\ locked' = TRUE
  /\ closure' = [closure EXCEPT ![c] = "live"]
  /\ UNCHANGED <<queue, head>>

AcquireBusy(c) ==
  /\ MayAcquire(c)
  /\ locked
  /\ queue' = Append(queue, c)
  /\ closure' = [closure EXCEPT ![c] = "pending"]
  /\ UNCHANGED <<locked, head>>

\* Dead entries are cut off when they are many and fill half of the array.
MustCompact(h, q) == h > CompactThreshold /\ h > Len(q) \div 2

\* (faulty: cuts off a waiter too)
Compacted_OneTooMany(h, q) == IF MustCompact(h, q) THEN SubSeq(q, h + 2, Len(q)) ELSE q

Compacted(h, q) == IF MustCompact(h, q) THEN SubSeq(q, h + 1, Len(q)) ELSE q

\* (faulty: the head is not reset)
CompactedHead_Kept(h, q) == h

CompactedHead(h, q) == IF MustCompact(h, q) THEN 0 ELSE h

\* The slot to be served; the code counts slots from 0.
NextSlot_Newest == Len(queue)  \* (faulty: a stack)

NextSlot == head + 1

\* release() with somebody waiting: the lock passes to queue[head]
PassOn(c) ==
  LET next   == queue[NextSlot]
      served == [queue EXCEPT ![NextSlot] = Dead]
  IN  /\ head < Len(queue)
      /\ queue' = Compacted(head + 1, served)
      /\ head' = CompactedHead(head + 1, served)
      /\ closure' = [closure EXCEPT ![c] = "released", ![next] = "live"]
      /\ UNCHANGED locked

\* release() with nobody waiting: the queue is reset
Unlock(c) ==
  /\ head >= Len(queue)
  /\ queue' = <<>>
  /\ head' = 0
  /\ locked' = FALSE
  /\ closure' = [closure EXCEPT ![c] = "released"]

Release(c) ==
  /\ closure[c] = "live"
  /\ PassOn(c) \/ Unlock(c)

\* A closure that has been called once returns at once.
\* (faulty: without the `released` flag)
ReleaseAgain_Effective(c) ==
  /\ closure[c] = "released"
  /\ PassOn(c) \/ Unlock(c)

ReleaseAgain(c) ==
  /\ closure[c] = "released"
  /\ UNCHANGED vars

Next ==
  \E c \in Clients :
    AcquireFree(c) \/ AcquireBusy(c) \/ Release(c) \/ ReleaseAgain(c)

Spec == Init /\ [][Next]_vars

\* Every holder gives the mutex back: runWithOpenExclusive releases it in a
\* finally block, whatever its operation does.
FairSpec == Spec /\ \A c \in Clients : WF_vars(Release(c))

-----------------------------------------------------------------------------
Holders == {c \in Clients : closure[c] = "live"}

Waiters == {c \in Clients : closure[c] = "pending"}

\* The part of the queue that is still to be served.
Backlog == SubSeq(queue, head + 1, Len(queue))

TypeOK ==
  /\ locked \in BOOLEAN
  /\ queue \in Seq(Clients \union {Dead})
  /\ head \in Nat
  /\ head <= Len(queue)
  /\ closure \in [Clients -> ClosureState]

(***************************************************************************)
(* At most one release closure is live: two writers never run at once,     *)
(* even when old closures are called again.                                *)
(***************************************************************************)
MutualExclusion == \A c, d \in Holders : c = d

(***************************************************************************)
(* A pending acquire() has its resolver in the unserved part of the queue, *)
(* once, and the unserved part holds nothing else: no waiter is dropped by *)
(* the compaction, and no served slot is called a second time.             *)
(***************************************************************************)
NoLostWaiter ==
  /\ \A c \in Waiters : \E i \in head + 1 .. Len(queue) : queue[i] = c
  /\ \A i \in head + 1 .. Len(queue) : queue[i] \in Waiters
  /\ \A i, j \in head + 1 .. Len(queue) : queue[i] = queue[j] => i = j

(***************************************************************************)
(* The flag is true exactly while a closure is live, so a waiter always    *)
(* has a holder that will call it.                                         *)
(***************************************************************************)
LockedIffHeld ==
  /\ locked <=> Holders # {}
  /\ Waiters # {} => locked

(***************************************************************************)
(* The dead prefix stays below the threshold or below half of the array.   *)
(***************************************************************************)
DeadPrefixBounded ==
  head <= CompactThreshold \/ head <= Len(queue) \div 2

(***************************************************************************)
(* Under fair releases every acquire() is answered.                        *)
(***************************************************************************)
EveryWaiterServed ==
  \A c \in Clients : (closure[c] = "pending") ~> (closure[c] = "live")

(***************************************************************************)
(* The mutex implements a FIFO lock: its owner is the client with the live *)
(* closure, its waiters are the backlog, in order.                         *)
(***************************************************************************)
Owner == IF Holders = {} THEN Dead ELSE CHOOSE c \in Clients : closure[c] = "live"

Fifo == INSTANCE FifoLock WITH None <- Dead, owner <- Owner, waiting <- Backlog

ImplementsFifoLock == Fifo!Spec
=============================================================================
