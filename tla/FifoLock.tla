------------------------------ MODULE FifoLock ------------------------------
(***************************************************************************)
(* What the datastore expects of its write mutex: an exclusive lock whose  *)
(* waiters are served strictly in the order of their requests.  The lock   *)
(* is handed from its owner to the first waiter in one step, so it is      *)
(* never free, and can never be taken by a newcomer, while somebody waits. *)
(***************************************************************************)
EXTENDS Naturals, Sequences

CONSTANTS
  Clients,  \* the callers of acquire()
  None      \* no owner; not a client

VARIABLES
  owner,    \* the client that holds the lock, or None
  waiting   \* the clients whose acquire() is still pending, oldest first

lockVars == <<owner, waiting>>

TypeOK ==
  /\ owner \in Clients \union {None}
  /\ waiting \in Seq(Clients)

Init ==
  /\ owner = None
  /\ waiting = <<>>

Uninvolved(c) == owner # c /\ \A i \in 1..Len(waiting) : waiting[i] # c

\* acquire() of a free lock
Grab(c) ==
  /\ owner = None
  /\ owner' = c
  /\ UNCHANGED waiting

\* acquire() of a lock somebody holds
Enqueue(c) ==
  /\ owner # None
  /\ Uninvolved(c)
  /\ waiting' = Append(waiting, c)
  /\ UNCHANGED owner

\* release() with somebody waiting: the oldest waiter is the next owner
HandOff(c) ==
  /\ owner = c
  /\ waiting # <<>>
  /\ owner' = Head(waiting)
  /\ waiting' = Tail(waiting)

\* release() with nobody waiting
Free(c) ==
  /\ owner = c
  /\ waiting = <<>>
  /\ owner' = None
  /\ UNCHANGED waiting

Acquire(c) == Grab(c) \/ Enqueue(c)
Release(c) == HandOff(c) \/ Free(c)

Next == \E c \in Clients : Acquire(c) \/ Release(c)

Spec == Init /\ [][Next]_lockVars

=============================================================================
