------------------------- MODULE DatastoreLifecycle -------------------------
(***************************************************************************)
(* How operations, backend initialisation and close() of one datastore     *)
(* interleave (datastore/datastoreLifecycle.ts, datastoreRuntime.ts,       *)
(* datastoreClose.ts, datastoreInit.ts).                                   *)
(*                                                                         *)
(* A writer acquires the write mutex first, then waits for the pending     *)
(* initialisation, and only then begins: it counts as an active operation  *)
(* while it runs, and releases the mutex at the end, whatever happened.    *)
(* A reader does the same without the mutex, and its body is synchronous.  *)
(* close() sets the closing guard at once, waits for the initialisation    *)
(* and for the active operations, closes the controller and drops the      *)
(* records.  An action is the code between two awaits.                     *)
(*                                                                         *)
(* The mutex is taken as FifoLock, which AsyncMutex implements.            *)
(***************************************************************************)
EXTENDS Integers, Sequences, FiniteSets

CONSTANTS
  Writers,    \* calls of put, delete, clear, commit, ...
  Readers,    \* calls of get, count, ...
  Closers,    \* calls of close()
  NoWriter    \* the mutex is free

ASSUME CallersAssumption ==
  /\ Writers \intersect Readers = {}
  /\ NoWriter \notin Writers

Operations == Writers \union Readers

VARIABLES
  \* DatastoreLifecycle
  closed,
  closing,
  closeInFlight,    \* closeInFlight is not null
  active,           \* activeOperationCount
  drainPending,     \* resolveActiveOperationsDrained is not null
  \* the datastore
  pendingInit,      \* "running", then "applied" until the finally callback
                    \* has run, then "null"
  initError,        \* pendingInitError is not null
  controller,       \* backendController: "null" or "open"
  cleared,          \* clearInMemoryState has run
  owner, waiting,   \* the write mutex
  \* the calls
  pc,
  result,           \* per operation: "none" until its promise settles
  born,             \* per operation: the lifecycle when it was called
  closeStep,        \* performClose: "none", "init", "drain", "controller",
                    \* "finished" (its finally has not run), "done"
  closeFailed,      \* performClose throws
  closer,           \* per close() call: "idle", "waiting", "ok", "error"
  controllerCloses  \* times controller.close() has been called

lifecycle == <<closed, closing, closeInFlight, active, drainPending>>
init      == <<pendingInit, initError, controller>>
mutex     == <<owner, waiting>>
calls     == <<pc, result, born>>
closings  == <<closeStep, closeFailed, closer, controllerCloses>>
vars == <<lifecycle, init, cleared, mutex, calls, closings>>

Mutex == INSTANCE FifoLock WITH Clients <- Writers, None <- NoWriter

Init ==
  /\ closed = FALSE
  /\ closing = FALSE
  /\ closeInFlight = FALSE
  /\ active = 0
  /\ drainPending = FALSE
  \* no driver, one that initialises in its constructor, or an asynchronous one
  /\ \/ pendingInit = "null" /\ controller \in {"null", "open"}
     \/ pendingInit = "running" /\ controller = "null"
  /\ initError = FALSE
  /\ cleared = FALSE
  /\ Mutex!Init
  /\ pc = [o \in Operations |-> "idle"]
  /\ result = [o \in Operations |-> "none"]
  /\ born = [o \in Operations |-> "unborn"]
  /\ closeStep = "none"
  /\ closeFailed = FALSE
  /\ closer = [k \in Closers |-> "idle"]
  /\ controllerCloses = 0

-----------------------------------------------------------------------------
(* Initialisation of the backend. *)

\* initBackend: the driver's promise settles; its result is applied, or the
\* error is kept.
InitSettles ==
  /\ pendingInit = "running"
  /\ pendingInit' = "applied"
  /\ \/ controller' = "open" /\ UNCHANGED initError
     \/ initError' = TRUE /\ UNCHANGED controller
  /\ UNCHANGED <<lifecycle, cleared, mutex, calls, closings>>

\* its finally callback; calls that wait for it run after this
InitClears ==
  /\ pendingInit = "applied"
  /\ pendingInit' = "null"
  /\ UNCHANGED <<lifecycle, initError, controller, cleared, mutex, calls, closings>>

-----------------------------------------------------------------------------
(* Operations. *)

Lifecycle == IF closed THEN "closed" ELSE IF closing THEN "closing" ELSE "open"

Called(o) == born' = [born EXCEPT ![o] = Lifecycle]

EnsureOpen_ClosedOnly == ~closed  \* (faulty: forgets the closing guard)

EnsureOpen == ~closed /\ ~closing

Settle(o, outcome) == result' = [result EXCEPT ![o] = outcome]

Goto(o, place) == pc' = [pc EXCEPT ![o] = place]

\* A writer's promise settles when the mutex is released; a reader has none.
AfterBody(o) == IF o \in Writers THEN "releasing" ELSE "settled"

\* endOperation: the last active operation resolves the drain.
\* (faulty: called in two finally blocks; does not resolve the drain)
EndOperation_Twice ==
  /\ active' = active - 2
  /\ drainPending' = (drainPending /\ active' # 0)
EndOperation_Silent ==
  /\ active' = active - 1
  /\ UNCHANGED drainPending

EndOperation ==
  /\ active' = active - 1
  /\ drainPending' = (drainPending /\ active' # 0)

(***************************************************************************)
(* runWithOpen past the initialisation: the operation is refused, or it    *)
(* begins.  A reader's body runs, and ends, in the same step.              *)
(***************************************************************************)
RunWithOpen(o) ==
  \/ /\ initError
     /\ Settle(o, "initError")
     /\ Goto(o, AfterBody(o))
     /\ UNCHANGED lifecycle
  \/ /\ ~initError /\ ~EnsureOpen
     /\ Settle(o, "closedError")
     /\ Goto(o, AfterBody(o))
     /\ UNCHANGED lifecycle
  \/ /\ ~initError /\ EnsureOpen
     /\ o \in Writers
     /\ active' = active + 1
     /\ Goto(o, "running")
     /\ UNCHANGED <<closed, closing, closeInFlight, drainPending, result>>
  \/ /\ ~initError /\ EnsureOpen
     /\ o \in Readers
     /\ Settle(o, "ok")
     /\ Goto(o, "settled")
     /\ UNCHANGED lifecycle

AwaitInitOrRun(o) ==
  \/ /\ pendingInit # "null"
     /\ Goto(o, "initwait")
     /\ UNCHANGED <<lifecycle, result>>
  \/ /\ pendingInit = "null"
     /\ RunWithOpen(o)

\* A call of a writing method: mutex.acquire().
\* (faulty: the method uses runWithOpen)
CallWriter_NoMutex(w) ==
  /\ pc[w] = "idle"
  /\ Called(w)
  /\ Goto(w, "resuming")
  /\ UNCHANGED <<lifecycle, init, cleared, mutex, result, closings>>

CallWriter(w) ==
  /\ pc[w] = "idle"
  /\ Called(w)
  /\ \/ Mutex!Grab(w) /\ Goto(w, "resuming")
     \/ Mutex!Enqueue(w) /\ Goto(w, "queued")
  /\ UNCHANGED <<lifecycle, init, cleared, result, closings>>

\* The acquire() promise has resolved.
WriterResumes(w) ==
  /\ pc[w] = "resuming"
  /\ AwaitInitOrRun(w)
  /\ UNCHANGED <<init, cleared, mutex, born, closings>>

CallReader(r) ==
  /\ pc[r] = "idle"
  /\ Called(r)
  /\ AwaitInitOrRun(r)
  /\ UNCHANGED <<init, cleared, mutex, closings>>

InitAwaited(o) ==
  /\ pc[o] = "initwait"
  /\ pendingInit = "null"
  /\ RunWithOpen(o)
  /\ UNCHANGED <<init, cleared, mutex, born, closings>>

\* The body of a writer settles, either way.
WriterEnds(w) ==
  /\ pc[w] = "running"
  /\ \E outcome \in {"ok", "failed"} : Settle(w, outcome)
  /\ EndOperation
  /\ Goto(w, "releasing")
  /\ UNCHANGED <<closed, closing, closeInFlight, init, cleared, mutex, born, closings>>

\* The finally block of runWithOpenExclusive: the next writer may resume.
WriterReleases(w) ==
  /\ pc[w] = "releasing"
  /\ \/ /\ Mutex!HandOff(w)
        /\ pc' = [pc EXCEPT ![w] = "settled", ![owner'] = "resuming"]
     \/ /\ Mutex!Free(w)
        /\ Goto(w, "settled")
  /\ UNCHANGED <<lifecycle, init, cleared, result, born, closings>>

-----------------------------------------------------------------------------
(* close(). *)

\* performClose from waitForActiveOperationsToDrain on
AwaitDrain ==
  /\ closeStep' = "drain"
  /\ drainPending' = (active # 0)

\* A call of close(): it returns at once, joins the close in flight, or
\* starts one.
CloseReturns(k) ==
  /\ closer[k] = "idle"
  /\ closed
  /\ closer' = [closer EXCEPT ![k] = "ok"]
  /\ UNCHANGED <<lifecycle, init, cleared, mutex, calls,
                 closeStep, closeFailed, controllerCloses>>

CloseJoins(k) ==
  /\ closer[k] = "idle"
  /\ ~closed /\ closeInFlight
  /\ closer' = [closer EXCEPT ![k] = "waiting"]
  /\ UNCHANGED <<lifecycle, init, cleared, mutex, calls,
                 closeStep, closeFailed, controllerCloses>>

CloseAwaitsInit_Never == FALSE  \* (faulty: closes under the initialisation)

CloseAwaitsInit == pendingInit # "null"

CloseStarts(k) ==
  /\ closer[k] = "idle"
  /\ ~closed /\ ~closeInFlight
  /\ closing' = TRUE
  /\ closeInFlight' = TRUE
  /\ closer' = [closer EXCEPT ![k] = "waiting"]
  /\ \/ /\ CloseAwaitsInit
        /\ closeStep' = "init"
        /\ UNCHANGED drainPending
     \/ /\ ~CloseAwaitsInit
        /\ AwaitDrain
  /\ UNCHANGED <<closed, active, init, cleared, mutex, calls,
                 closeFailed, controllerCloses>>

CloseInitAwaited ==
  /\ closeStep = "init"
  /\ pendingInit = "null"
  /\ AwaitDrain
  /\ UNCHANGED <<closed, closing, closeInFlight, active, init, cleared, mutex,
                 calls, closeFailed, closer, controllerCloses>>

\* The active operations have ended; the controller is told to close.
CloseDrained ==
  /\ closeStep = "drain"
  /\ ~drainPending
  /\ closeStep' = "controller"
  /\ closeFailed' = initError
  /\ controllerCloses' = controllerCloses + (IF controller = "open" THEN 1 ELSE 0)
  /\ UNCHANGED <<lifecycle, init, cleared, mutex, calls, closer>>

InitErrorDropped_Kept == UNCHANGED initError  \* (faulty)

InitErrorDropped == initError' = FALSE

\* The controller's close() settles, or there was none.
CloseFinishes ==
  /\ closeStep = "controller"
  /\ closeStep' = "finished"
  /\ closeFailed' \in {closeFailed, closeFailed \/ controller = "open"}
  /\ controller' = "null"
  /\ InitErrorDropped
  /\ closed' = TRUE
  /\ closing' = FALSE
  /\ cleared' = TRUE
  /\ UNCHANGED <<closeInFlight, active, drainPending, pendingInit, mutex, calls,
                 closer, controllerCloses>>

\* The finally callback of closeDatastore; every waiting call settles.
CloseSettles ==
  /\ closeStep = "finished"
  /\ closeStep' = "done"
  /\ closeInFlight' = FALSE
  /\ closer' = [k \in Closers |->
       IF closer[k] # "waiting" THEN closer[k]
       ELSE IF closeFailed THEN "error" ELSE "ok"]
  /\ UNCHANGED <<closed, closing, active, drainPending, init, cleared, mutex,
                 calls, closeFailed, controllerCloses>>

InitSteps == InitSettles \/ InitClears

WriterSteps(w) ==
  WriterResumes(w) \/ InitAwaited(w) \/ WriterEnds(w) \/ WriterReleases(w)

CloseSteps == CloseInitAwaited \/ CloseDrained \/ CloseFinishes \/ CloseSettles

Next ==
  \/ InitSteps
  \/ \E w \in Writers : CallWriter(w) \/ WriterSteps(w)
  \/ \E r \in Readers : CallReader(r) \/ InitAwaited(r)
  \/ \E k \in Closers : CloseReturns(k) \/ CloseJoins(k) \/ CloseStarts(k)
  \/ CloseSteps

Spec == Init /\ [][Next]_vars

(***************************************************************************)
(* Continuations run, and the promises of the driver and of the operations *)
(* settle.  Nobody has to call anything.                                   *)
(***************************************************************************)
FairSpec ==
  /\ Spec
  /\ WF_vars(InitSteps)
  /\ \A w \in Writers : WF_vars(WriterSteps(w))
  /\ \A r \in Readers : WF_vars(InitAwaited(r))
  /\ WF_vars(CloseSteps)
-----------------------------------------------------------------------------
Running == {w \in Writers : pc[w] = "running"}

TypeOK ==
  /\ closed \in BOOLEAN
  /\ closing \in BOOLEAN
  /\ closeInFlight \in BOOLEAN
  /\ active \in Nat
  /\ drainPending \in BOOLEAN
  /\ pendingInit \in {"running", "applied", "null"}
  /\ initError \in BOOLEAN
  /\ controller \in {"null", "open"}
  /\ cleared \in BOOLEAN
  /\ Mutex!TypeOK
  /\ pc \in [Operations -> {"idle", "queued", "resuming", "initwait", "running",
                            "releasing", "settled"}]
  /\ result \in [Operations -> {"none", "ok", "failed", "initError", "closedError"}]
  /\ born \in [Operations -> {"unborn", "open", "closing", "closed"}]
  /\ closeStep \in {"none", "init", "drain", "controller", "finished", "done"}
  /\ closeFailed \in BOOLEAN
  /\ closer \in [Closers -> {"idle", "waiting", "ok", "error"}]
  /\ controllerCloses \in Nat

(***************************************************************************)
(* Two writers never run at once, and the counter that close() drains on   *)
(* is the number of operations that have begun and not ended.              *)
(***************************************************************************)
OneActiveWriter == active = Cardinality(Running) /\ active <= 1

(***************************************************************************)
(* From the moment the controller is told to close, no operation is under  *)
(* way: none commits through a closing controller, none finds the records  *)
(* gone.                                                                   *)
(***************************************************************************)
NoOperationDuringTeardown ==
  closeStep \in {"controller", "finished", "done"} => Running = {}

(***************************************************************************)
(* However many close() calls overlap, the controller is closed once, and  *)
(* a datastore that is closed has not left one open behind -- not even one *)
(* that arrived with a late initialisation.                                *)
(***************************************************************************)
ControllerClosedOnce ==
  /\ controllerCloses <= 1
  /\ closed => controller = "null" /\ pendingInit = "null"

(***************************************************************************)
(* An operation called once the datastore is closed fails with             *)
(* ClosedDatastoreError, also after a failed initialisation; one called    *)
(* while it is closing never runs.                                         *)
(***************************************************************************)
ClosedRefusesOperations ==
  \A o \in Operations :
    /\ born[o] = "closed" => result[o] \in {"none", "closedError"}
    /\ born[o] = "closing" => result[o] \in {"none", "closedError", "initError"}

(***************************************************************************)
(* Nothing deadlocks: every operation that was called settles, with        *)
(* writers queued on the mutex while the datastore closes, and every       *)
(* close() does.                                                           *)
(***************************************************************************)
EveryCallSettles ==
  /\ \A o \in Operations : (pc[o] # "idle") ~> (pc[o] = "settled")
  /\ \A k \in Closers : (closer[k] = "waiting") ~> (closer[k] \in {"ok", "error"})
=============================================================================
