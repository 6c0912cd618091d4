----------------------- MODULE DatastoreLifecycle_proofs -----------------------
(***************************************************************************)
(* Proofs about DatastoreLifecycle, for any sets of writers, readers and   *)
(* close() calls.                                                          *)
(*                                                                         *)
(* That one writer runs follows from where the mutex is: a writer past its *)
(* acquire() is the owner.  That none runs during the teardown follows     *)
(* from the counter: close() passes the drain when it is zero, and from    *)
(* `closing` on nobody can raise it.  That the controller is closed once,  *)
(* late or not, follows from the order of the steps of close().            *)
(***************************************************************************)
EXTENDS DatastoreLifecycle, FiniteSetTheorems, TLAPS

Holding == {"resuming", "initwait", "running", "releasing"}

\* Where a writer is says what it has of the mutex, and the other way round.
MutexFollowsCalls ==
  /\ \A w \in Writers : pc[w] \in Holding <=> owner = w
  /\ \A w \in Writers : pc[w] = "queued" <=> \E i \in 1..Len(waiting) : waiting[i] = w
  /\ \A i, j \in 1..Len(waiting) : waiting[i] = waiting[j] => i = j
  /\ owner = NoWriter => waiting = <<>>

ReadersHoldNothing == \A r \in Readers : pc[r] \in {"idle", "initwait", "settled"}

\* The counter and the writer that has begun
ActiveIsCounted ==
  /\ active \in {0, 1}
  /\ \A w \in Writers : pc[w] = "running" => active = 1
  /\ active = 1 => \E w \in Writers : pc[w] = "running"

\* The guards of close() and its drain, by its step
CloseInOrder ==
  /\ closing <=> closeStep \in {"init", "drain", "controller"}
  /\ closed <=> closeStep \in {"finished", "done"}
  /\ closeInFlight <=> closeStep \notin {"none", "done"}
  /\ drainPending <=> closeStep = "drain" /\ active # 0
  /\ closeStep \in {"controller", "finished", "done"} => active = 0

\* What is left of the initialisation and of the controller, by that step
ControllerInOrder ==
  /\ closeStep \in {"none", "init", "drain"} => controllerCloses = 0
  /\ controllerCloses \in {0, 1}
  /\ closeStep \in {"drain", "controller", "finished", "done"} => pendingInit = "null"
  /\ closed => controller = "null" /\ ~initError

\* An operation called once close() has begun has not begun, and will not.
LateCallsWait ==
  \A o \in Operations :
    /\ born[o] = "closed" => closed
    /\ born[o] = "closing" => closing \/ closed
    /\ pc[o] # "idle" => born[o] # "unborn"
    /\ pc[o] = "running" => born[o] = "open"
    /\ pc[o] \notin {"releasing", "settled"} => result[o] = "none"

IInv ==
  /\ TypeOK
  /\ MutexFollowsCalls
  /\ ReadersHoldNothing
  /\ ActiveIsCounted
  /\ CloseInOrder
  /\ ControllerInOrder
  /\ LateCallsWait
  /\ ClosedRefusesOperations

USE DEF lifecycle, init, mutex, calls, closings, Called, Settle, Goto, Operations
-----------------------------------------------------------------------------
(***************************************************************************)
(* Types.                                                                  *)
(***************************************************************************)
LEMMA TypeStep ==
  ASSUME IInv, Next
  PROVE  TypeOK'
<1> USE CallersAssumption DEF IInv, TypeOK, ActiveIsCounted, Mutex!TypeOK
<1>1. CASE InitSettles
  BY <1>1 DEF InitSettles
<1>2. CASE InitClears
  BY <1>2 DEF InitClears
<1>3. ASSUME NEW w \in Writers, CallWriter(w)
      PROVE  TypeOK'
  BY <1>3 DEF CallWriter, Mutex!Grab, Mutex!Enqueue, Mutex!Uninvolved, Lifecycle
<1>4. ASSUME NEW w \in Writers, WriterResumes(w)
      PROVE  TypeOK'
  BY <1>4 DEF WriterResumes, AwaitInitOrRun, RunWithOpen, AfterBody, EnsureOpen
<1>5. ASSUME NEW r \in Readers, CallReader(r)
      PROVE  TypeOK'
  BY <1>5 DEF CallReader, AwaitInitOrRun, RunWithOpen, AfterBody, EnsureOpen, Lifecycle
<1>6. ASSUME NEW o \in Operations, InitAwaited(o)
      PROVE  TypeOK'
  BY <1>6 DEF InitAwaited, RunWithOpen, AfterBody, EnsureOpen
<1>7. ASSUME NEW w \in Writers, WriterEnds(w)
      PROVE  TypeOK'
  BY <1>7 DEF WriterEnds, EndOperation
<1>8. ASSUME NEW w \in Writers, WriterReleases(w)
      PROVE  TypeOK'
  BY <1>8 DEF WriterReleases, Mutex!HandOff, Mutex!Free
<1>9. ASSUME NEW k \in Closers, CloseReturns(k)
      PROVE  TypeOK'
  BY <1>9 DEF CloseReturns
<1>10. ASSUME NEW k \in Closers, CloseJoins(k)
      PROVE  TypeOK'
  BY <1>10 DEF CloseJoins
<1>11. ASSUME NEW k \in Closers, CloseStarts(k)
      PROVE  TypeOK'
  BY <1>11 DEF CloseStarts, AwaitDrain, CloseAwaitsInit
<1>12. CASE CloseInitAwaited
  BY <1>12 DEF CloseInitAwaited, AwaitDrain
<1>13. CASE CloseDrained
  BY <1>13 DEF CloseDrained
<1>14. CASE CloseFinishes
  BY <1>14 DEF CloseFinishes, InitErrorDropped
<1>15. CASE CloseSettles
  BY <1>15 DEF CloseSettles
<1> QED
  BY <1>1, <1>2, <1>3, <1>4, <1>5, <1>6, <1>7, <1>8,
     <1>9, <1>10, <1>11, <1>12, <1>13, <1>14, <1>15
  DEF Next, InitSteps, WriterSteps, CloseSteps
-----------------------------------------------------------------------------
(***************************************************************************)
(* The mutex moves with the steps of the writers.                          *)
(***************************************************************************)
LEMMA MutexStep ==
  ASSUME IInv, Next
  PROVE  MutexFollowsCalls'
<1> USE CallersAssumption DEF IInv, TypeOK, Mutex!TypeOK, MutexFollowsCalls, ReadersHoldNothing, Holding
<1>1. CASE InitSettles
  BY <1>1 DEF InitSettles
<1>2. CASE InitClears
  BY <1>2 DEF InitClears
<1>3. ASSUME NEW w \in Writers, CallWriter(w)
      PROVE  MutexFollowsCalls'
  <2>1. CASE Mutex!Grab(w)
    BY <1>3, <2>1 DEF CallWriter, Mutex!Grab, Mutex!Enqueue
  <2>2. CASE Mutex!Enqueue(w)
    <3>1. /\ waiting' = Append(waiting, w)
          /\ owner' = owner
          /\ owner # NoWriter
          /\ \A i \in 1..Len(waiting) : waiting[i] # w
          /\ owner # w
      BY <2>2 DEF Mutex!Enqueue, Mutex!Uninvolved
    <3>2. pc' = [pc EXCEPT ![w] = "queued"]
      BY <1>3, <3>1 DEF CallWriter, Mutex!Grab
    <3>3. /\ Len(waiting') = Len(waiting) + 1
          /\ \A i \in 1..Len(waiting) : waiting'[i] = waiting[i]
          /\ waiting'[Len(waiting) + 1] = w
      BY <3>1
    <3>4. \A v \in Writers : pc'[v] \in Holding <=> owner' = v
      BY <3>1, <3>2
    <3>5. \A v \in Writers :
            pc'[v] = "queued" <=> \E i \in 1..Len(waiting') : waiting'[i] = v
      BY <3>1, <3>2, <3>3
    <3>6. \A i, j \in 1..Len(waiting') : waiting'[i] = waiting'[j] => i = j
      BY <3>1, <3>3
    <3> QED
      BY <3>1, <3>4, <3>5, <3>6
  <2> QED
    BY <1>3, <2>1, <2>2 DEF CallWriter
<1>4. ASSUME NEW w \in Writers, WriterResumes(w)
      PROVE  MutexFollowsCalls'
  BY <1>4 DEF WriterResumes, AwaitInitOrRun, RunWithOpen, AfterBody, EnsureOpen
<1>5. ASSUME NEW r \in Readers, CallReader(r)
      PROVE  MutexFollowsCalls'
  BY <1>5 DEF CallReader, AwaitInitOrRun, RunWithOpen, AfterBody, EnsureOpen, Lifecycle
<1>6. ASSUME NEW o \in Operations, InitAwaited(o)
      PROVE  MutexFollowsCalls'
  BY <1>6 DEF InitAwaited, RunWithOpen, AfterBody, EnsureOpen
<1>7. ASSUME NEW w \in Writers, WriterEnds(w)
      PROVE  MutexFollowsCalls'
  BY <1>7 DEF WriterEnds, EndOperation
<1>8. ASSUME NEW w \in Writers, WriterReleases(w)
      PROVE  MutexFollowsCalls'
  <2>1. CASE Mutex!HandOff(w)
    <3>1. /\ owner = w
          /\ waiting # <<>>
          /\ owner' = waiting[1]
          /\ waiting' = Tail(waiting)
          /\ waiting[1] \in Writers
      BY <2>1 DEF Mutex!HandOff
    <3>2. pc' = [pc EXCEPT ![w] = "settled", ![waiting[1]] = "resuming"]
      BY <1>8, <3>1 DEF WriterReleases, Mutex!HandOff, Mutex!Free
    <3>3. /\ Len(waiting') = Len(waiting) - 1
          /\ \A i \in 1..Len(waiting') : waiting'[i] = waiting[i + 1]
      BY <3>1
    <3>4. pc[waiting[1]] = "queued" /\ waiting[1] # w
      BY <1>8, <3>1 DEF WriterReleases
    <3>5. \A v \in Writers : pc'[v] \in Holding <=> owner' = v
      BY <3>1, <3>2, <3>4
    <3>6. ASSUME NEW v \in Writers, pc'[v] = "queued"
          PROVE  \E i \in 1..Len(waiting') : waiting'[i] = v
      <4>1. pc[v] = "queued" /\ v # waiting[1]
        BY <3>1, <3>2, <3>4, <3>6
      <4>2. PICK i \in 1..Len(waiting) : waiting[i] = v
        BY <4>1
      <4>3. i - 1 \in 1..Len(waiting') /\ i = (i - 1) + 1
        BY <3>3, <4>1, <4>2
      <4>4. waiting'[i - 1] = v
        BY <3>3, <4>2, <4>3
      <4> QED
        BY <4>3, <4>4
    <3>7. ASSUME NEW v \in Writers, NEW i \in 1..Len(waiting'), waiting'[i] = v
          PROVE  pc'[v] = "queued"
      <4>1. i + 1 \in 1..Len(waiting) /\ waiting[i + 1] = v /\ i + 1 # 1
        BY <3>1, <3>3, <3>7
      <4>2. 1 \in 1..Len(waiting)
        BY <3>1, <3>3
      <4>3. pc[v] = "queued" /\ v # waiting[1]
        BY <4>1, <4>2
      <4>4. v # w
        BY <1>8, <4>3 DEF WriterReleases
      <4> QED
        BY <3>2, <4>3, <4>4
    <3>8. ASSUME NEW i \in 1..Len(waiting'), NEW j \in 1..Len(waiting'), waiting'[i] = waiting'[j]
          PROVE  i = j
      <4>1. i + 1 \in 1..Len(waiting) /\ j + 1 \in 1..Len(waiting)
        BY <3>1, <3>3
      <4>2. i + 1 = j + 1
        BY <3>3, <3>8, <4>1
      <4> QED
        BY <4>2
    <3> QED
      BY <3>1, <3>5, <3>6, <3>7, <3>8
  <2>2. CASE Mutex!Free(w)
    BY <1>8, <2>2 DEF WriterReleases, Mutex!Free, Mutex!HandOff
  <2> QED
    BY <1>8, <2>1, <2>2 DEF WriterReleases
<1>9. ASSUME NEW k \in Closers, CloseReturns(k)
      PROVE  MutexFollowsCalls'
  BY <1>9 DEF CloseReturns
<1>10. ASSUME NEW k \in Closers, CloseJoins(k)
      PROVE  MutexFollowsCalls'
  BY <1>10 DEF CloseJoins
<1>11. ASSUME NEW k \in Closers, CloseStarts(k)
      PROVE  MutexFollowsCalls'
  BY <1>11 DEF CloseStarts, AwaitDrain, CloseAwaitsInit
<1>12. CASE CloseInitAwaited
  BY <1>12 DEF CloseInitAwaited, AwaitDrain
<1>13. CASE CloseDrained
  BY <1>13 DEF CloseDrained
<1>14. CASE CloseFinishes
  BY <1>14 DEF CloseFinishes, InitErrorDropped
<1>15. CASE CloseSettles
  BY <1>15 DEF CloseSettles
<1> QED
  BY <1>1, <1>2, <1>3, <1>4, <1>5, <1>6, <1>7, <1>8,
     <1>9, <1>10, <1>11, <1>12, <1>13, <1>14, <1>15
  DEF Next, InitSteps, WriterSteps, CloseSteps
-----------------------------------------------------------------------------
(***************************************************************************)
(* Readers never touch the mutex.                                          *)
(***************************************************************************)
LEMMA ReadersStep ==
  ASSUME IInv, Next
  PROVE  ReadersHoldNothing'
<1> USE CallersAssumption DEF IInv, TypeOK, ReadersHoldNothing, MutexFollowsCalls, Mutex!TypeOK
<1>1. CASE InitSettles
  BY <1>1 DEF InitSettles
<1>2. CASE InitClears
  BY <1>2 DEF InitClears
<1>3. ASSUME NEW w \in Writers, CallWriter(w)
      PROVE  ReadersHoldNothing'
  BY <1>3 DEF CallWriter, Mutex!Grab, Mutex!Enqueue, Mutex!Uninvolved, Lifecycle
<1>4. ASSUME NEW w \in Writers, WriterResumes(w)
      PROVE  ReadersHoldNothing'
  BY <1>4 DEF WriterResumes, AwaitInitOrRun, RunWithOpen, AfterBody, EnsureOpen
<1>5. ASSUME NEW r \in Readers, CallReader(r)
      PROVE  ReadersHoldNothing'
  BY <1>5 DEF CallReader, AwaitInitOrRun, RunWithOpen, AfterBody, EnsureOpen, Lifecycle
<1>6. ASSUME NEW o \in Operations, InitAwaited(o)
      PROVE  ReadersHoldNothing'
  BY <1>6 DEF InitAwaited, RunWithOpen, AfterBody, EnsureOpen
<1>7. ASSUME NEW w \in Writers, WriterEnds(w)
      PROVE  ReadersHoldNothing'
  BY <1>7 DEF WriterEnds, EndOperation
<1>8. ASSUME NEW w \in Writers, WriterReleases(w)
      PROVE  ReadersHoldNothing'
  BY <1>8 DEF WriterReleases, Mutex!HandOff, Mutex!Free
<1>9. ASSUME NEW k \in Closers, CloseReturns(k)
      PROVE  ReadersHoldNothing'
  BY <1>9 DEF CloseReturns
<1>10. ASSUME NEW k \in Closers, CloseJoins(k)
      PROVE  ReadersHoldNothing'
  BY <1>10 DEF CloseJoins
<1>11. ASSUME NEW k \in Closers, CloseStarts(k)
      PROVE  ReadersHoldNothing'
  BY <1>11 DEF CloseStarts, AwaitDrain, CloseAwaitsInit
<1>12. CASE CloseInitAwaited
  BY <1>12 DEF CloseInitAwaited, AwaitDrain
<1>13. CASE CloseDrained
  BY <1>13 DEF CloseDrained
<1>14. CASE CloseFinishes
  BY <1>14 DEF CloseFinishes, InitErrorDropped
<1>15. CASE CloseSettles
  BY <1>15 DEF CloseSettles
<1> QED
  BY <1>1, <1>2, <1>3, <1>4, <1>5, <1>6, <1>7, <1>8,
     <1>9, <1>10, <1>11, <1>12, <1>13, <1>14, <1>15
  DEF Next, InitSteps, WriterSteps, CloseSteps
-----------------------------------------------------------------------------
(***************************************************************************)
(* A writer that begins or ends is the owner, so no other one is counted.  *)
(***************************************************************************)
LEMMA ActiveStep ==
  ASSUME IInv, Next
  PROVE  ActiveIsCounted'
<1> USE CallersAssumption DEF IInv, TypeOK, ActiveIsCounted, MutexFollowsCalls, ReadersHoldNothing, Holding,
            Mutex!TypeOK
<1>1. CASE InitSettles
  BY <1>1 DEF InitSettles
<1>2. CASE InitClears
  BY <1>2 DEF InitClears
<1>3. ASSUME NEW w \in Writers, CallWriter(w)
      PROVE  ActiveIsCounted'
  BY <1>3 DEF CallWriter, Mutex!Grab, Mutex!Enqueue, Mutex!Uninvolved, Lifecycle
<1>4. ASSUME NEW w \in Writers, WriterResumes(w)
      PROVE  ActiveIsCounted'
  BY <1>4 DEF WriterResumes, AwaitInitOrRun, RunWithOpen, AfterBody, EnsureOpen
<1>5. ASSUME NEW r \in Readers, CallReader(r)
      PROVE  ActiveIsCounted'
  BY <1>5 DEF CallReader, AwaitInitOrRun, RunWithOpen, AfterBody, EnsureOpen, Lifecycle
<1>6. ASSUME NEW o \in Operations, InitAwaited(o)
      PROVE  ActiveIsCounted'
  BY <1>6 DEF InitAwaited, RunWithOpen, AfterBody, EnsureOpen
<1>7. ASSUME NEW w \in Writers, WriterEnds(w)
      PROVE  ActiveIsCounted'
  BY <1>7 DEF WriterEnds, EndOperation
<1>8. ASSUME NEW w \in Writers, WriterReleases(w)
      PROVE  ActiveIsCounted'
  BY <1>8 DEF WriterReleases, Mutex!HandOff, Mutex!Free
<1>9. ASSUME NEW k \in Closers, CloseReturns(k)
      PROVE  ActiveIsCounted'
  BY <1>9 DEF CloseReturns
<1>10. ASSUME NEW k \in Closers, CloseJoins(k)
      PROVE  ActiveIsCounted'
  BY <1>10 DEF CloseJoins
<1>11. ASSUME NEW k \in Closers, CloseStarts(k)
      PROVE  ActiveIsCounted'
  BY <1>11 DEF CloseStarts, AwaitDrain, CloseAwaitsInit
<1>12. CASE CloseInitAwaited
  BY <1>12 DEF CloseInitAwaited, AwaitDrain
<1>13. CASE CloseDrained
  BY <1>13 DEF CloseDrained
<1>14. CASE CloseFinishes
  BY <1>14 DEF CloseFinishes, InitErrorDropped
<1>15. CASE CloseSettles
  BY <1>15 DEF CloseSettles
<1> QED
  BY <1>1, <1>2, <1>3, <1>4, <1>5, <1>6, <1>7, <1>8,
     <1>9, <1>10, <1>11, <1>12, <1>13, <1>14, <1>15
  DEF Next, InitSteps, WriterSteps, CloseSteps
-----------------------------------------------------------------------------
(***************************************************************************)
(* The drain ends when the counter is zero, and nobody begins meanwhile.   *)
(***************************************************************************)
LEMMA CloseStep ==
  ASSUME IInv, Next
  PROVE  CloseInOrder'
<1> USE CallersAssumption DEF IInv, TypeOK, ActiveIsCounted, CloseInOrder, ReadersHoldNothing
<1>1. CASE InitSettles
  BY <1>1 DEF InitSettles
<1>2. CASE InitClears
  BY <1>2 DEF InitClears
<1>3. ASSUME NEW w \in Writers, CallWriter(w)
      PROVE  CloseInOrder'
  BY <1>3 DEF CallWriter, Mutex!Grab, Mutex!Enqueue, Mutex!Uninvolved, Lifecycle
<1>4. ASSUME NEW w \in Writers, WriterResumes(w)
      PROVE  CloseInOrder'
  BY <1>4 DEF WriterResumes, AwaitInitOrRun, RunWithOpen, AfterBody, EnsureOpen
<1>5. ASSUME NEW r \in Readers, CallReader(r)
      PROVE  CloseInOrder'
  BY <1>5 DEF CallReader, AwaitInitOrRun, RunWithOpen, AfterBody, EnsureOpen, Lifecycle
<1>6. ASSUME NEW o \in Operations, InitAwaited(o)
      PROVE  CloseInOrder'
  BY <1>6 DEF InitAwaited, RunWithOpen, AfterBody, EnsureOpen
<1>7. ASSUME NEW w \in Writers, WriterEnds(w)
      PROVE  CloseInOrder'
  BY <1>7 DEF WriterEnds, EndOperation
<1>8. ASSUME NEW w \in Writers, WriterReleases(w)
      PROVE  CloseInOrder'
  BY <1>8 DEF WriterReleases, Mutex!HandOff, Mutex!Free
<1>9. ASSUME NEW k \in Closers, CloseReturns(k)
      PROVE  CloseInOrder'
  BY <1>9 DEF CloseReturns
<1>10. ASSUME NEW k \in Closers, CloseJoins(k)
      PROVE  CloseInOrder'
  BY <1>10 DEF CloseJoins
<1>11. ASSUME NEW k \in Closers, CloseStarts(k)
      PROVE  CloseInOrder'
  <2>1. closeStep = "none" /\ ~drainPending
    BY <1>11 DEF CloseStarts
  <2>2. /\ closing' /\ closeInFlight'
        /\ closed' = closed /\ ~closed
        /\ active' = active
    BY <1>11 DEF CloseStarts
  <2>3. closeStep' \in {"init", "drain"}
    BY <1>11 DEF CloseStarts, AwaitDrain
  <2>4. drainPending' <=> closeStep' = "drain" /\ active # 0
    <3>1. CASE CloseAwaitsInit
      BY <1>11, <2>1, <3>1 DEF CloseStarts
    <3>2. CASE ~CloseAwaitsInit
      <4>1. AwaitDrain
        BY <1>11, <3>2 DEF CloseStarts
      <4> QED
        BY <4>1, Zenon DEF AwaitDrain
    <3> QED
      BY <3>1, <3>2
  <2> QED
    BY <2>2, <2>3, <2>4
<1>12. CASE CloseInitAwaited
  BY <1>12 DEF CloseInitAwaited, AwaitDrain
<1>13. CASE CloseDrained
  BY <1>13 DEF CloseDrained
<1>14. CASE CloseFinishes
  BY <1>14 DEF CloseFinishes, InitErrorDropped
<1>15. CASE CloseSettles
  BY <1>15 DEF CloseSettles
<1> QED
  BY <1>1, <1>2, <1>3, <1>4, <1>5, <1>6, <1>7, <1>8,
     <1>9, <1>10, <1>11, <1>12, <1>13, <1>14, <1>15
  DEF Next, InitSteps, WriterSteps, CloseSteps
-----------------------------------------------------------------------------
(***************************************************************************)
(* The controller is closed after the initialisation has settled.          *)
(***************************************************************************)
LEMMA ControllerStep ==
  ASSUME IInv, Next
  PROVE  ControllerInOrder'
<1> USE CallersAssumption DEF IInv, TypeOK, CloseInOrder, ControllerInOrder
<1>1. CASE InitSettles
  BY <1>1 DEF InitSettles
<1>2. CASE InitClears
  BY <1>2 DEF InitClears
<1>3. ASSUME NEW w \in Writers, CallWriter(w)
      PROVE  ControllerInOrder'
  BY <1>3 DEF CallWriter, Mutex!Grab, Mutex!Enqueue, Mutex!Uninvolved, Lifecycle
<1>4. ASSUME NEW w \in Writers, WriterResumes(w)
      PROVE  ControllerInOrder'
  BY <1>4 DEF WriterResumes, AwaitInitOrRun, RunWithOpen, AfterBody, EnsureOpen
<1>5. ASSUME NEW r \in Readers, CallReader(r)
      PROVE  ControllerInOrder'
  BY <1>5 DEF CallReader, AwaitInitOrRun, RunWithOpen, AfterBody, EnsureOpen, Lifecycle
<1>6. ASSUME NEW o \in Operations, InitAwaited(o)
      PROVE  ControllerInOrder'
  BY <1>6 DEF InitAwaited, RunWithOpen, AfterBody, EnsureOpen
<1>7. ASSUME NEW w \in Writers, WriterEnds(w)
      PROVE  ControllerInOrder'
  BY <1>7 DEF WriterEnds, EndOperation
<1>8. ASSUME NEW w \in Writers, WriterReleases(w)
      PROVE  ControllerInOrder'
  BY <1>8 DEF WriterReleases, Mutex!HandOff, Mutex!Free
<1>9. ASSUME NEW k \in Closers, CloseReturns(k)
      PROVE  ControllerInOrder'
  BY <1>9 DEF CloseReturns
<1>10. ASSUME NEW k \in Closers, CloseJoins(k)
      PROVE  ControllerInOrder'
  BY <1>10 DEF CloseJoins
<1>11. ASSUME NEW k \in Closers, CloseStarts(k)
      PROVE  ControllerInOrder'
  BY <1>11 DEF CloseStarts, AwaitDrain, CloseAwaitsInit
<1>12. CASE CloseInitAwaited
  BY <1>12 DEF CloseInitAwaited, AwaitDrain
<1>13. CASE CloseDrained
  BY <1>13 DEF CloseDrained
<1>14. CASE CloseFinishes
  BY <1>14 DEF CloseFinishes, InitErrorDropped
<1>15. CASE CloseSettles
  BY <1>15 DEF CloseSettles
<1> QED
  BY <1>1, <1>2, <1>3, <1>4, <1>5, <1>6, <1>7, <1>8,
     <1>9, <1>10, <1>11, <1>12, <1>13, <1>14, <1>15
  DEF Next, InitSteps, WriterSteps, CloseSteps
-----------------------------------------------------------------------------
(***************************************************************************)
(* close() is never taken back.                                            *)
(***************************************************************************)
LEMMA LateStep ==
  ASSUME IInv, Next
  PROVE  LateCallsWait'
<1> USE CallersAssumption DEF IInv, TypeOK, CloseInOrder, LateCallsWait, ReadersHoldNothing, MutexFollowsCalls,
            Mutex!TypeOK, Holding
<1>1. CASE InitSettles
  BY <1>1 DEF InitSettles
<1>2. CASE InitClears
  BY <1>2 DEF InitClears
<1>3. ASSUME NEW w \in Writers, CallWriter(w)
      PROVE  LateCallsWait'
  BY <1>3 DEF CallWriter, Mutex!Grab, Mutex!Enqueue, Mutex!Uninvolved, Lifecycle
<1>4. ASSUME NEW w \in Writers, WriterResumes(w)
      PROVE  LateCallsWait'
  BY <1>4 DEF WriterResumes, AwaitInitOrRun, RunWithOpen, AfterBody, EnsureOpen
<1>5. ASSUME NEW r \in Readers, CallReader(r)
      PROVE  LateCallsWait'
  BY <1>5 DEF CallReader, AwaitInitOrRun, RunWithOpen, AfterBody, EnsureOpen, Lifecycle
<1>6. ASSUME NEW o \in Operations, InitAwaited(o)
      PROVE  LateCallsWait'
  BY <1>6 DEF InitAwaited, RunWithOpen, AfterBody, EnsureOpen
<1>7. ASSUME NEW w \in Writers, WriterEnds(w)
      PROVE  LateCallsWait'
  BY <1>7 DEF WriterEnds, EndOperation
<1>8. ASSUME NEW w \in Writers, WriterReleases(w)
      PROVE  LateCallsWait'
  BY <1>8 DEF WriterReleases, Mutex!HandOff, Mutex!Free
<1>9. ASSUME NEW k \in Closers, CloseReturns(k)
      PROVE  LateCallsWait'
  BY <1>9 DEF CloseReturns
<1>10. ASSUME NEW k \in Closers, CloseJoins(k)
      PROVE  LateCallsWait'
  BY <1>10 DEF CloseJoins
<1>11. ASSUME NEW k \in Closers, CloseStarts(k)
      PROVE  LateCallsWait'
  BY <1>11 DEF CloseStarts, AwaitDrain, CloseAwaitsInit
<1>12. CASE CloseInitAwaited
  BY <1>12 DEF CloseInitAwaited, AwaitDrain
<1>13. CASE CloseDrained
  BY <1>13 DEF CloseDrained
<1>14. CASE CloseFinishes
  BY <1>14 DEF CloseFinishes, InitErrorDropped
<1>15. CASE CloseSettles
  BY <1>15 DEF CloseSettles
<1> QED
  BY <1>1, <1>2, <1>3, <1>4, <1>5, <1>6, <1>7, <1>8,
     <1>9, <1>10, <1>11, <1>12, <1>13, <1>14, <1>15
  DEF Next, InitSteps, WriterSteps, CloseSteps
-----------------------------------------------------------------------------
(***************************************************************************)
(* A late call is refused when its turn comes.                             *)
(***************************************************************************)
LEMMA RefusesStep ==
  ASSUME IInv, Next
  PROVE  ClosedRefusesOperations'
<1> USE CallersAssumption DEF IInv, TypeOK, CloseInOrder, ControllerInOrder, LateCallsWait, ReadersHoldNothing,
            ClosedRefusesOperations
<1>1. CASE InitSettles
  BY <1>1 DEF InitSettles
<1>2. CASE InitClears
  BY <1>2 DEF InitClears
<1>3. ASSUME NEW w \in Writers, CallWriter(w)
      PROVE  ClosedRefusesOperations'
  BY <1>3 DEF CallWriter, Mutex!Grab, Mutex!Enqueue, Mutex!Uninvolved, Lifecycle
<1>4. ASSUME NEW w \in Writers, WriterResumes(w)
      PROVE  ClosedRefusesOperations'
  BY <1>4 DEF WriterResumes, AwaitInitOrRun, RunWithOpen, AfterBody, EnsureOpen
<1>5. ASSUME NEW r \in Readers, CallReader(r)
      PROVE  ClosedRefusesOperations'
  BY <1>5 DEF CallReader, AwaitInitOrRun, RunWithOpen, AfterBody, EnsureOpen, Lifecycle
<1>6. ASSUME NEW o \in Operations, InitAwaited(o)
      PROVE  ClosedRefusesOperations'
  BY <1>6 DEF InitAwaited, RunWithOpen, AfterBody, EnsureOpen
<1>7. ASSUME NEW w \in Writers, WriterEnds(w)
      PROVE  ClosedRefusesOperations'
  BY <1>7 DEF WriterEnds, EndOperation
<1>8. ASSUME NEW w \in Writers, WriterReleases(w)
      PROVE  ClosedRefusesOperations'
  BY <1>8 DEF WriterReleases, Mutex!HandOff, Mutex!Free
<1>9. ASSUME NEW k \in Closers, CloseReturns(k)
      PROVE  ClosedRefusesOperations'
  BY <1>9 DEF CloseReturns
<1>10. ASSUME NEW k \in Closers, CloseJoins(k)
      PROVE  ClosedRefusesOperations'
  BY <1>10 DEF CloseJoins
<1>11. ASSUME NEW k \in Closers, CloseStarts(k)
      PROVE  ClosedRefusesOperations'
  BY <1>11 DEF CloseStarts, AwaitDrain, CloseAwaitsInit
<1>12. CASE CloseInitAwaited
  BY <1>12 DEF CloseInitAwaited, AwaitDrain
<1>13. CASE CloseDrained
  BY <1>13 DEF CloseDrained
<1>14. CASE CloseFinishes
  BY <1>14 DEF CloseFinishes, InitErrorDropped
<1>15. CASE CloseSettles
  BY <1>15 DEF CloseSettles
<1> QED
  BY <1>1, <1>2, <1>3, <1>4, <1>5, <1>6, <1>7, <1>8,
     <1>9, <1>10, <1>11, <1>12, <1>13, <1>14, <1>15
  DEF Next, InitSteps, WriterSteps, CloseSteps
-----------------------------------------------------------------------------
(***************************************************************************)
(* The inductive invariant holds in every reachable state.                 *)
(***************************************************************************)
THEOREM Invariant == Spec => []IInv
<1>1. Init => IInv
  <2> SUFFICES ASSUME Init PROVE IInv
    OBVIOUS
  <2> USE CallersAssumption DEF Init, Mutex!Init
  <2>1. TypeOK
    <3>1. Mutex!TypeOK /\ active \in Nat /\ controllerCloses \in Nat
      BY DEF Mutex!TypeOK
    <3>2. controller \in {"null", "open"} /\ pendingInit \in {"running", "applied", "null"}
      OBVIOUS
    <3> QED
      BY <3>1, <3>2 DEF TypeOK
  <2>2. MutexFollowsCalls
    BY DEF MutexFollowsCalls, Holding
  <2>3. ReadersHoldNothing /\ ActiveIsCounted
    BY DEF ReadersHoldNothing, ActiveIsCounted
  <2>4. CloseInOrder /\ ControllerInOrder
    BY DEF CloseInOrder, ControllerInOrder
  <2>5. LateCallsWait /\ ClosedRefusesOperations
    BY DEF LateCallsWait, ClosedRefusesOperations
  <2> QED
    BY <2>1, <2>2, <2>3, <2>4, <2>5 DEF IInv
<1>2. IInv /\ [Next]_vars => IInv'
  <2> SUFFICES ASSUME IInv, [Next]_vars PROVE IInv'
    OBVIOUS
  <2>1. CASE Next
    BY <2>1, TypeStep, MutexStep, ReadersStep, ActiveStep, CloseStep, ControllerStep,
       LateStep, RefusesStep DEF IInv
  <2>2. CASE UNCHANGED vars
    BY <2>2 DEF vars, IInv, TypeOK, Mutex!TypeOK, MutexFollowsCalls, ReadersHoldNothing,
       ActiveIsCounted, CloseInOrder, ControllerInOrder, LateCallsWait,
       ClosedRefusesOperations
  <2> QED
    BY <2>1, <2>2
<1> QED
  BY <1>1, <1>2, PTL DEF Spec

(***************************************************************************)
(* The guards, the counter, the mutex and the calls keep their types       *)
(* (DatastoreLifecycle and the fields of Datastore).                       *)
(***************************************************************************)
THEOREM TypeCorrect == Spec => []TypeOK
<1>1. IInv => TypeOK
  BY DEF IInv
<1> QED
  BY <1>1, Invariant, PTL

(***************************************************************************)
(* One writer at a time runs between beginOperation and endOperation, and  *)
(* the counter that close() drains on counts it exactly.                   *)
(***************************************************************************)
THEOREM OneWriter == Spec => []OneActiveWriter
<1>1. IInv => OneActiveWriter
  <2> SUFFICES ASSUME IInv PROVE OneActiveWriter
    OBVIOUS
  <2> USE DEF IInv, ActiveIsCounted, Running
  <2>1. CASE active = 0
    <3>1. Running = {}
      BY <2>1
    <3> QED
      BY <2>1, <3>1, FS_EmptySet DEF OneActiveWriter
  <2>2. CASE active = 1
    <3>1. PICK w \in Writers : pc[w] = "running"
      BY <2>2
    <3>2. \A v \in Writers : pc[v] = "running" => v = w
      BY <3>1 DEF MutexFollowsCalls, Holding
    <3>3. Running = {w}
      BY <3>1, <3>2
    <3>4. Cardinality({w}) = 1
      BY FS_Singleton
    <3> QED
      BY <2>2, <3>3, <3>4 DEF OneActiveWriter
  <2> QED
    BY <2>1, <2>2
<1> QED
  BY <1>1, Invariant, PTL

(***************************************************************************)
(* performClose tells the controller to close, and drops the records, only *)
(* when no operation is under way, and none begins after.                  *)
(***************************************************************************)
THEOREM TeardownIsQuiet == Spec => []NoOperationDuringTeardown
<1>1. IInv => NoOperationDuringTeardown
  BY DEF IInv, ActiveIsCounted, CloseInOrder, NoOperationDuringTeardown, Running
<1> QED
  BY <1>1, Invariant, PTL

(***************************************************************************)
(* However many close() calls overlap, controller.close() is called at     *)
(* most once, and no controller is left open behind a closed datastore,    *)
(* not even one that a late initialisation has brought.                    *)
(***************************************************************************)
THEOREM ClosedOnce == Spec => []ControllerClosedOnce
<1>1. IInv => ControllerClosedOnce
  BY DEF IInv, CloseInOrder, ControllerInOrder, ControllerClosedOnce
<1> QED
  BY <1>1, Invariant, PTL

(***************************************************************************)
(* An operation called when the datastore is closed, or closing, never     *)
(* runs, whatever it still has to wait for.                                *)
(***************************************************************************)
THEOREM LateCallsRefused == Spec => []ClosedRefusesOperations
<1>1. IInv => ClosedRefusesOperations
  BY DEF IInv
<1> QED
  BY <1>1, Invariant, PTL
=============================================================================
