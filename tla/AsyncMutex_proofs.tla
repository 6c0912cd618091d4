-------------------------- MODULE AsyncMutex_proofs --------------------------
(***************************************************************************)
(* Proofs about the write mutex, for any set of callers and any compaction *)
(* threshold.                                                              *)
(***************************************************************************)
EXTENDS AsyncMutex, SequenceTheorems, TLAPS

LEMMA CompactionKeepsBacklog ==
  ASSUME NEW S, NEW q \in Seq(S), NEW h \in Nat, h <= Len(q)
  PROVE  LET r == Compacted(h, q)
             k == CompactedHead(h, q)
         IN  /\ r \in Seq(S)
             /\ k \in Nat
             /\ Len(r) - k = Len(q) - h
             /\ \A i \in 1..Len(q) - h : r[k + i] = q[h + i]
<1>1. CASE MustCompact(h, q)
  <2>1. Len(q) \in Nat
    OBVIOUS
  <2>2. SubSeq(q, h + 1, Len(q)) \in Seq(S)
    BY <2>1
  <2>3. Len(SubSeq(q, h + 1, Len(q))) = Len(q) - h
    BY <2>1
  <2>4. \A i \in 1..Len(q) - h : SubSeq(q, h + 1, Len(q))[i] = q[h + i]
    BY <2>1
  <2> QED
    BY <1>1, <2>1, <2>2, <2>3, <2>4 DEF Compacted, CompactedHead
<1>2. CASE ~MustCompact(h, q)
  BY <1>2 DEF Compacted, CompactedHead
<1> QED
  BY <1>1, <1>2

(***************************************************************************)
(* Types.                                                                  *)
(***************************************************************************)
LEMMA PassOnQueue ==
  ASSUME TypeOK, NEW c \in Clients, PassOn(c)
  PROVE  /\ queue' \in Seq(Clients \union {Dead})
         /\ head' \in Nat
         /\ Len(queue') - head' = Len(queue) - (head + 1)
         /\ \A i \in 1..Len(queue) - (head + 1) : queue'[head' + i] = queue[head + 1 + i]
<1> DEFINE q == [queue EXCEPT ![head + 1] = Dead]
<1>1. /\ q \in Seq(Clients \union {Dead})
      /\ Len(q) = Len(queue)
      /\ \A i \in 1..Len(queue) - (head + 1) : q[head + 1 + i] = queue[head + 1 + i]
  BY DEF TypeOK, PassOn, NextSlot
<1>2. head + 1 \in Nat /\ head + 1 <= Len(q)
  BY <1>1 DEF TypeOK, PassOn
<1>3. queue' = Compacted(head + 1, q) /\ head' = CompactedHead(head + 1, q)
  BY DEF PassOn, NextSlot
<1> HIDE DEF q
<1> QED
  BY <1>1, <1>2, <1>3, CompactionKeepsBacklog

LEMMA TypeStep == TypeOK /\ [Next]_vars => TypeOK'
<1> SUFFICES ASSUME TypeOK, [Next]_vars PROVE TypeOK'
  OBVIOUS
<1>1. UNCHANGED vars => TypeOK'
  BY DEF TypeOK, vars
<1>2. ASSUME NEW c \in Clients, AcquireFree(c) PROVE TypeOK'
  BY <1>2 DEF TypeOK, AcquireFree, ClosureState
<1>3. ASSUME NEW c \in Clients, AcquireBusy(c) PROVE TypeOK'
  BY <1>3 DEF TypeOK, AcquireBusy, ClosureState
<1>4. ASSUME NEW c \in Clients, PassOn(c) PROVE TypeOK'
  <2>1. head' <= Len(queue')
    <3>1. head < Len(queue)
      BY <1>4 DEF PassOn
    <3>2. /\ Len(queue') \in Nat
          /\ head' \in Nat
          /\ Len(queue') - head' = Len(queue) - (head + 1)
      BY <1>4, PassOnQueue
    <3> QED
      BY <3>1, <3>2 DEF TypeOK
  <2>2. closure' \in [Clients -> ClosureState]
    BY <1>4 DEF TypeOK, PassOn, ClosureState
  <2>3. locked' \in BOOLEAN
    BY <1>4 DEF TypeOK, PassOn
  <2>4. queue' \in Seq(Clients \union {Dead}) /\ head' \in Nat
    BY <1>4, PassOnQueue
  <2> QED
    BY <2>1, <2>2, <2>3, <2>4 DEF TypeOK
<1>5. ASSUME NEW c \in Clients, Unlock(c) PROVE TypeOK'
  <2>1. queue' \in Seq(Clients \union {Dead}) /\ Len(queue') = 0
    BY <1>5 DEF Unlock
  <2>2. head' \in Nat /\ head' <= Len(queue')
    BY <1>5, <2>1 DEF Unlock
  <2>3. closure' \in [Clients -> ClosureState]
    BY <1>5 DEF TypeOK, Unlock, ClosureState
  <2> QED
    BY <1>5, <2>1, <2>2, <2>3 DEF Unlock, TypeOK
<1> QED
  BY <1>1, <1>2, <1>3, <1>4, <1>5 DEF Next, Release, ReleaseAgain

LEMMA InitTypes == Init => TypeOK
<1> SUFFICES ASSUME Init PROVE TypeOK
  OBVIOUS
<1>1. queue \in Seq(Clients \union {Dead}) /\ Len(queue) = 0
  BY DEF Init
<1>2. head \in Nat /\ head <= Len(queue)
  BY <1>1 DEF Init
<1>3. closure \in [Clients -> ClosureState]
  BY DEF Init, ClosureState
<1> QED
  BY <1>1, <1>2, <1>3 DEF Init, TypeOK

(***************************************************************************)
(* The fields of the mutex and the closures keep their types.              *)
(***************************************************************************)
THEOREM TypeCorrect == Spec => []TypeOK
BY InitTypes, TypeStep, PTL DEF Spec

(***************************************************************************)
(* However the compaction is done, the dead prefix stays below the         *)
(* threshold or below half of the array.                                   *)
(***************************************************************************)
THEOREM DeadPrefixStaysBounded == Spec => []DeadPrefixBounded
<1>1. Init => DeadPrefixBounded
  BY ThresholdAssumption DEF Init, DeadPrefixBounded
<1>2. TypeOK /\ DeadPrefixBounded /\ [Next]_vars => DeadPrefixBounded'
  <2> SUFFICES ASSUME TypeOK, DeadPrefixBounded, [Next]_vars PROVE DeadPrefixBounded'
    OBVIOUS
  <2>1. UNCHANGED vars => DeadPrefixBounded'
    BY DEF DeadPrefixBounded, vars
  <2>2. ASSUME NEW c \in Clients, AcquireFree(c) PROVE DeadPrefixBounded'
    BY <2>2 DEF DeadPrefixBounded, AcquireFree
  <2>3. ASSUME NEW c \in Clients, AcquireBusy(c) PROVE DeadPrefixBounded'
    <3>1. Len(queue') = Len(queue) + 1 /\ head' = head
      BY <2>3 DEF TypeOK, AcquireBusy
    <3> QED
      BY <3>1, ThresholdAssumption DEF TypeOK, DeadPrefixBounded
  <2>4. ASSUME NEW c \in Clients, PassOn(c) PROVE DeadPrefixBounded'
    <3> DEFINE q == [queue EXCEPT ![NextSlot] = Dead]
    <3>1. /\ head + 1 \in Nat
          /\ queue' = Compacted(head + 1, q)
          /\ head' = CompactedHead(head + 1, q)
      BY <2>4 DEF TypeOK, PassOn
    <3> HIDE DEF q
    <3>2. CASE MustCompact(head + 1, q)
      BY <3>1, <3>2, ThresholdAssumption DEF CompactedHead, DeadPrefixBounded
    <3>3. CASE ~MustCompact(head + 1, q)
      <4>1. queue' = q /\ head' = head + 1
        BY <3>1, <3>3 DEF Compacted, CompactedHead
      <4>2. Len(q) \in Nat
        BY DEF TypeOK, q
      <4> QED
        BY <3>3, <4>1, <4>2, ThresholdAssumption DEF TypeOK, MustCompact, DeadPrefixBounded
    <3> QED
      BY <3>2, <3>3
  <2>5. ASSUME NEW c \in Clients, Unlock(c) PROVE DeadPrefixBounded'
    BY <2>5, ThresholdAssumption DEF DeadPrefixBounded, Unlock
  <2> QED
    BY <2>1, <2>2, <2>3, <2>4, <2>5 DEF Next, Release, ReleaseAgain
<1> QED
  BY <1>1, <1>2, TypeCorrect, PTL DEF Spec

(***************************************************************************)
(* The inductive invariant: exclusion holds because the closure handed on  *)
(* goes to a waiter, and the waiters are exactly what the backlog holds.   *)
(***************************************************************************)
IInv == TypeOK /\ MutualExclusion /\ NoLostWaiter /\ LockedIffHeld

\* What release() does for the waiter it serves.
LEMMA PassOnClosure ==
  ASSUME IInv, NEW c \in Clients, closure[c] = "live", PassOn(c)
  PROVE  /\ queue[head + 1] \in Waiters
         /\ queue[head + 1] # c
         /\ Waiters' = Waiters \ {queue[head + 1]}
         /\ Holders' = {queue[head + 1]}
<1>1. queue[head + 1] \in Waiters
  BY DEF IInv, TypeOK, NoLostWaiter, PassOn
<1>2. queue[head + 1] # c /\ queue[head + 1] \in Clients /\ c \in Holders
  BY <1>1 DEF Waiters, Holders
<1>3. closure' = [closure EXCEPT ![c] = "released", ![queue[head + 1]] = "live"]
  BY DEF PassOn, NextSlot
<1>4. Waiters' = Waiters \ {queue[head + 1]}
  BY <1>2, <1>3 DEF IInv, TypeOK, Waiters
<1>5. Holders' = {queue[head + 1]}
  BY <1>2, <1>3 DEF IInv, TypeOK, MutualExclusion, Holders
<1> QED
  BY <1>1, <1>2, <1>4, <1>5

LEMMA Excluded == IInv /\ [Next]_vars => MutualExclusion'
<1> SUFFICES ASSUME IInv, [Next]_vars PROVE MutualExclusion'
  OBVIOUS
<1>1. UNCHANGED vars => MutualExclusion'
  BY DEF IInv, MutualExclusion, Holders, vars
<1>2. ASSUME NEW c \in Clients, AcquireFree(c) PROVE MutualExclusion'
  BY <1>2 DEF IInv, TypeOK, LockedIffHeld, MutualExclusion, Holders, AcquireFree
<1>3. ASSUME NEW c \in Clients, AcquireBusy(c) PROVE MutualExclusion'
  BY <1>3 DEF IInv, TypeOK, MutualExclusion, Holders, AcquireBusy
<1>4. ASSUME NEW c \in Clients, closure[c] = "live", PassOn(c) PROVE MutualExclusion'
  BY <1>4, PassOnClosure DEF MutualExclusion
<1>5. ASSUME NEW c \in Clients, Unlock(c) PROVE MutualExclusion'
  BY <1>5 DEF IInv, TypeOK, MutualExclusion, Holders, Unlock
<1> QED
  BY <1>1, <1>2, <1>3, <1>4, <1>5 DEF Next, Release, ReleaseAgain

LEMMA FlagExact == IInv /\ [Next]_vars => LockedIffHeld'
<1> SUFFICES ASSUME IInv, [Next]_vars PROVE LockedIffHeld'
  OBVIOUS
<1>1. UNCHANGED vars => LockedIffHeld'
  BY DEF IInv, LockedIffHeld, Holders, Waiters, vars
<1>2. ASSUME NEW c \in Clients, AcquireFree(c) PROVE LockedIffHeld'
  <2>1. c \in Holders' /\ locked' = TRUE
    BY <1>2 DEF IInv, TypeOK, Holders, AcquireFree
  <2> QED
    BY <2>1 DEF LockedIffHeld
<1>3. ASSUME NEW c \in Clients, AcquireBusy(c) PROVE LockedIffHeld'
  <2>1. Holders' = Holders /\ locked /\ locked' = locked
    BY <1>3 DEF IInv, TypeOK, Holders, AcquireBusy, MayAcquire
  <2> QED
    BY <2>1 DEF IInv, LockedIffHeld
<1>4. ASSUME NEW c \in Clients, closure[c] = "live", PassOn(c) PROVE LockedIffHeld'
  <2>1. locked
    BY <1>4 DEF IInv, LockedIffHeld, Holders
  <2>2. locked' = locked
    BY <1>4 DEF PassOn
  <2> QED
    BY <1>4, <2>1, <2>2, PassOnClosure DEF LockedIffHeld
<1>5. ASSUME NEW c \in Clients, closure[c] = "live", Unlock(c) PROVE LockedIffHeld'
  <2>1. Waiters = {}
    BY <1>5 DEF IInv, TypeOK, NoLostWaiter, Unlock
  <2>2. Waiters' = {}
    BY <1>5, <2>1 DEF IInv, TypeOK, Waiters, Unlock
  <2>3. Holders' = {}
    BY <1>5 DEF IInv, TypeOK, MutualExclusion, Holders, Unlock
  <2>4. locked' = FALSE
    BY <1>5 DEF Unlock
  <2> QED
    BY <2>2, <2>3, <2>4 DEF LockedIffHeld
<1> QED
  BY <1>1, <1>2, <1>3, <1>4, <1>5 DEF Next, Release, ReleaseAgain

(***************************************************************************)
(* NoLostWaiter as a relation of a queue, a head and a set of waiters, and *)
(* what appending a waiter and serving the first one do to it.             *)
(***************************************************************************)
Queued(q, h, W) ==
  /\ \A c \in W : \E i \in h + 1 .. Len(q) : q[i] = c
  /\ \A i \in h + 1 .. Len(q) : q[i] \in W
  /\ \A i, j \in h + 1 .. Len(q) : q[i] = q[j] => i = j

LEMMA AppendQueues ==
  ASSUME NEW S, NEW q \in Seq(S), NEW h \in Nat, h <= Len(q),
         NEW W, NEW c \in S, c \notin W, Queued(q, h, W)
  PROVE  Queued(Append(q, c), h, W \union {c})
<1> DEFINE r == Append(q, c)
<1>1. /\ Len(q) \in Nat
      /\ Len(r) = Len(q) + 1
      /\ r[Len(q) + 1] = c
      /\ \A i \in 1..Len(q) : r[i] = q[i]
  OBVIOUS
<1> HIDE DEF r
<1>2. \A i \in h + 1 .. Len(r) : i = Len(q) + 1 \/ i \in h + 1 .. Len(q)
  BY <1>1
<1>3. \A i \in h + 1 .. Len(q) : i \in h + 1 .. Len(r) /\ r[i] = q[i] /\ r[i] \in W
  BY <1>1 DEF Queued
<1>4. Len(q) + 1 \in h + 1 .. Len(r)
  BY <1>1
<1>5. \A d \in W \union {c} : \E i \in h + 1 .. Len(r) : r[i] = d
  BY <1>1, <1>3, <1>4 DEF Queued
<1>6. \A i \in h + 1 .. Len(r) : r[i] \in W \union {c}
  BY <1>1, <1>2, <1>3
<1>7. \A i, j \in h + 1 .. Len(r) : r[i] = r[j] => i = j
  BY <1>1, <1>2, <1>3 DEF Queued
<1> QED
  BY <1>5, <1>6, <1>7 DEF Queued, r

LEMMA ServingQueues ==
  ASSUME NEW S, NEW q \in Seq(S), NEW h \in Nat, h < Len(q),
         NEW W, Queued(q, h, W),
         NEW r \in Seq(S), NEW k \in Nat,
         Len(r) - k = Len(q) - (h + 1),
         \A i \in 1..Len(q) - (h + 1) : r[k + i] = q[h + 1 + i]
  PROVE  Queued(r, k, W \ {q[h + 1]})
<1> DEFINE n == Len(q) - (h + 1)
<1>1. n \in Nat /\ Len(q) = h + 1 + n /\ Len(r) = k + n
  OBVIOUS
<1>2. \A i \in 1..n : r[k + i] = q[h + 1 + i]
  OBVIOUS
<1> HIDE DEF n
<1>3. ASSUME NEW i \in k + 1 .. Len(r)
      PROVE  /\ h + 1 + (i - k) \in h + 1 .. Len(q)
             /\ h + 1 + (i - k) # h + 1
             /\ r[i] = q[h + 1 + (i - k)]
  <2>1. i - k \in 1..n /\ k + (i - k) = i
    BY <1>1
  <2>2. r[k + (i - k)] = q[h + 1 + (i - k)]
    BY <1>2, <2>1
  <2> QED
    BY <1>1, <2>1, <2>2
<1>4. h + 1 \in h + 1 .. Len(q)
  BY <1>1
<1>5. \A i \in k + 1 .. Len(r) : r[i] \in W \ {q[h + 1]}
  BY <1>3, <1>4 DEF Queued
<1>6. ASSUME NEW i \in k + 1 .. Len(r), NEW j \in k + 1 .. Len(r), r[i] = r[j]
      PROVE  i = j
  <2> DEFINE a == h + 1 + (i - k)
             b == h + 1 + (j - k)
  <2>1. a \in h + 1 .. Len(q) /\ r[i] = q[a]
    BY <1>3
  <2>2. b \in h + 1 .. Len(q) /\ r[j] = q[b]
    BY <1>3
  <2>3. a = b => i = j
    OBVIOUS
  <2> HIDE DEF a, b
  <2>4. a = b
    BY <1>6, <2>1, <2>2 DEF Queued
  <2> QED
    BY <2>3, <2>4
<1>7. ASSUME NEW c \in W \ {q[h + 1]}
      PROVE  \E i \in k + 1 .. Len(r) : r[i] = c
  <2>1. PICK i \in h + 1 .. Len(q) : q[i] = c
    BY DEF Queued
  <2> DEFINE m == i - (h + 1)
  <2>2. i # h + 1
    BY <1>7, <2>1
  <2>3. m \in 1..n /\ h + 1 + m = i
    BY <1>1, <2>1, <2>2
  <2> HIDE DEF m
  <2>4. k + m \in k + 1 .. Len(r)
    BY <1>1, <2>3
  <2>5. r[k + m] = q[h + 1 + m]
    BY <1>2, <2>3
  <2>6. r[k + m] = c
    BY <2>1, <2>3, <2>5
  <2> QED
    BY <2>4, <2>6
<1> QED
  BY <1>5, <1>6, <1>7 DEF Queued

LEMMA WaitersKept == IInv /\ [Next]_vars => NoLostWaiter'
<1> SUFFICES ASSUME IInv, [Next]_vars PROVE NoLostWaiter'
  OBVIOUS
<1>1. UNCHANGED vars => NoLostWaiter'
  BY DEF IInv, NoLostWaiter, Waiters, vars
<1>2. ASSUME NEW c \in Clients, AcquireFree(c) PROVE NoLostWaiter'
  <2>1. Waiters' = Waiters
    BY <1>2 DEF IInv, TypeOK, AcquireFree, MayAcquire, Waiters
  <2> QED
    BY <1>2, <2>1 DEF IInv, NoLostWaiter, AcquireFree
<1>3. ASSUME NEW c \in Clients, AcquireBusy(c) PROVE NoLostWaiter'
  <2>1. Waiters' = Waiters \union {c} /\ c \notin Waiters
    BY <1>3 DEF IInv, TypeOK, AcquireBusy, MayAcquire, Waiters
  <2>2. Queued(queue, head, Waiters)
    BY DEF IInv, NoLostWaiter, Queued
  <2>3. queue \in Seq(Clients \union {Dead}) /\ head \in Nat /\ head <= Len(queue)
    BY DEF IInv, TypeOK
  <2>4. Queued(Append(queue, c), head, Waiters \union {c})
    BY <2>1, <2>2, <2>3, AppendQueues
  <2>5. queue' = Append(queue, c) /\ head' = head
    BY <1>3 DEF AcquireBusy
  <2> QED
    BY <2>1, <2>4, <2>5 DEF NoLostWaiter, Queued
<1>4. ASSUME NEW c \in Clients, closure[c] = "live", PassOn(c) PROVE NoLostWaiter'
  <2>1. Waiters' = Waiters \ {queue[head + 1]}
    BY <1>4, PassOnClosure
  <2>2. Queued(queue, head, Waiters)
    BY DEF IInv, NoLostWaiter, Queued
  <2>3. queue \in Seq(Clients \union {Dead}) /\ head \in Nat /\ head < Len(queue)
    BY <1>4 DEF IInv, TypeOK, PassOn
  <2>4. /\ queue' \in Seq(Clients \union {Dead})
        /\ head' \in Nat
        /\ Len(queue') - head' = Len(queue) - (head + 1)
        /\ \A i \in 1..Len(queue) - (head + 1) : queue'[head' + i] = queue[head + 1 + i]
    BY <1>4, PassOnQueue DEF IInv
  <2>5. Queued(queue', head', Waiters \ {queue[head + 1]})
    BY <2>2, <2>3, <2>4, ServingQueues
  <2> QED
    BY <2>1, <2>5 DEF NoLostWaiter, Queued
<1>5. ASSUME NEW c \in Clients, closure[c] = "live", Unlock(c) PROVE NoLostWaiter'
  <2>1. Waiters = {}
    BY <1>5 DEF IInv, TypeOK, NoLostWaiter, Unlock
  <2>2. Waiters' = {}
    BY <1>5, <2>1 DEF IInv, TypeOK, Waiters, Unlock
  <2>3. Queued(<<>>, 0, {})
    BY DEF Queued
  <2>4. head' = 0 /\ queue' = <<>>
    BY <1>5 DEF Unlock
  <2> QED
    BY <2>2, <2>3, <2>4 DEF NoLostWaiter, Queued
<1> QED
  BY <1>1, <1>2, <1>3, <1>4, <1>5 DEF Next, Release, ReleaseAgain

LEMMA Invariant == Spec => []IInv
<1>1. Init => IInv
  <2> SUFFICES ASSUME Init PROVE IInv
    OBVIOUS
  <2>1. Holders = {} /\ Waiters = {}
    BY DEF Init, Holders, Waiters
  <2>2. Len(queue) = 0 /\ head = 0 /\ locked = FALSE
    BY DEF Init
  <2>3. TypeOK
    BY InitTypes
  <2> QED
    BY <2>1, <2>2, <2>3 DEF IInv, MutualExclusion, NoLostWaiter, LockedIffHeld
<1>2. IInv /\ [Next]_vars => IInv'
  BY TypeStep, Excluded, FlagExact, WaitersKept DEF IInv
<1> QED
  BY <1>1, <1>2, PTL DEF Spec

(***************************************************************************)
(* At most one release closure is live, for any number of callers.         *)
(***************************************************************************)
THEOREM Exclusion == Spec => []MutualExclusion
BY Invariant, PTL DEF IInv

(***************************************************************************)
(* No waiter is dropped, repeated or served twice.                         *)
(***************************************************************************)
THEOREM WaitersAreQueued == Spec => []NoLostWaiter
BY Invariant, PTL DEF IInv

(***************************************************************************)
(* The flag is true exactly while somebody holds the mutex, so a waiter is *)
(* always behind a holder.                                                 *)
(***************************************************************************)
THEOREM LockedExactlyWhileHeld == Spec => []LockedIffHeld
BY Invariant, PTL DEF IInv

(***************************************************************************)
(* The refinement of FifoLock.  First what an append and a hand-over mean  *)
(* for the unserved part of a queue.                                       *)
(***************************************************************************)
LEMMA UnservedPart ==
  ASSUME NEW S, NEW q \in Seq(S), NEW h \in Nat, h <= Len(q)
  PROVE  LET b == SubSeq(q, h + 1, Len(q))
         IN  /\ b \in Seq(S)
             /\ Len(b) = Len(q) - h
             /\ \A i \in 1..Len(q) - h : b[i] = q[h + i]
<1> DEFINE b == SubSeq(q, h + 1, Len(q))
<1>1. Len(q) \in Nat /\ h + 1 \in Int /\ Len(q) \in Int
  OBVIOUS
<1>2. \A i \in h + 1 .. Len(q) : q[i] \in S
  OBVIOUS
<1>3. /\ b \in Seq(S)
      /\ Len(b) = IF h + 1 <= Len(q) THEN Len(q) - (h + 1) + 1 ELSE 0
      /\ \A i \in 1 .. Len(q) - (h + 1) + 1 : b[i] = q[h + 1 + i - 1]
  BY <1>1, <1>2, SubSeqProperties
<1> HIDE DEF b
<1>4. Len(b) = Len(q) - h
  BY <1>1, <1>3
<1>5. \A i \in 1..Len(q) - h : b[i] = q[h + i]
  <2> TAKE i \in 1..Len(q) - h
  <2>1. i \in 1 .. Len(q) - (h + 1) + 1 /\ h + 1 + i - 1 = h + i
    BY <1>1
  <2> QED
    BY <1>3, <2>1
<1> QED
  BY <1>3, <1>4, <1>5 DEF b

LEMMA AppendBacklog ==
  ASSUME NEW S, NEW q \in Seq(S), NEW h \in Nat, h <= Len(q), NEW c \in S
  PROVE  SubSeq(Append(q, c), h + 1, Len(Append(q, c)))
           = Append(SubSeq(q, h + 1, Len(q)), c)
<1> DEFINE r == Append(q, c)
           b == SubSeq(q, h + 1, Len(q))
           d == SubSeq(r, h + 1, Len(r))
           e == Append(b, c)
<1>1. /\ r \in Seq(S)
      /\ Len(r) = Len(q) + 1
      /\ \A i \in 1..Len(q) : r[i] = q[i]
      /\ r[Len(q) + 1] = c
  OBVIOUS
<1>2. b \in Seq(S) /\ Len(b) = Len(q) - h /\ \A i \in 1..Len(q) - h : b[i] = q[h + i]
  BY UnservedPart
<1>3. Len(q) \in Nat /\ h <= Len(r)
  BY <1>1
<1> HIDE DEF r
<1>4. d \in Seq(S) /\ Len(d) = Len(r) - h /\ \A i \in 1..Len(r) - h : d[i] = r[h + i]
  BY <1>1, <1>3, UnservedPart
<1> HIDE DEF b, d
<1>5. /\ e \in Seq(S)
      /\ Len(e) = Len(b) + 1
      /\ \A i \in 1..Len(b) : e[i] = b[i]
      /\ e[Len(b) + 1] = c
  BY <1>2
<1> HIDE DEF e
<1>6. Len(d) = Len(e)
  BY <1>1, <1>2, <1>3, <1>4, <1>5
<1>7. ASSUME NEW i \in 1..Len(d) PROVE d[i] = e[i]
  <2>1. CASE i = Len(b) + 1
    <3>1. h + i = Len(q) + 1 /\ i \in 1..Len(r) - h
      BY <1>1, <1>2, <1>3, <2>1
    <3> QED
      BY <1>1, <1>4, <1>5, <2>1, <3>1
  <2>2. CASE i # Len(b) + 1
    <3>0. Len(d) = Len(q) + 1 - h /\ Len(b) = Len(q) - h /\ Len(r) = Len(q) + 1
      BY <1>1, <1>2, <1>4
    <3>1. i \in 1..Len(b) /\ i \in 1..Len(q) - h /\ h + i \in 1..Len(q) /\ i \in 1..Len(r) - h
      BY <1>3, <3>0, <2>2
    <3>2. d[i] = r[h + i] /\ r[h + i] = q[h + i]
      BY <1>1, <1>4, <3>1
    <3>3. e[i] = b[i] /\ b[i] = q[h + i]
      BY <1>2, <1>5, <3>1
    <3> QED
      BY <3>2, <3>3
  <2> QED
    BY <2>1, <2>2
<1>8. d = e
  BY <1>4, <1>5, <1>6, <1>7, SeqEqual
<1> QED
  BY <1>8 DEF d, e, b, r

LEMMA ServeBacklog ==
  ASSUME NEW S, NEW q \in Seq(S), NEW h \in Nat, h < Len(q),
         NEW r \in Seq(S), NEW k \in Nat,
         Len(r) - k = Len(q) - (h + 1),
         \A i \in 1..Len(q) - (h + 1) : r[k + i] = q[h + 1 + i]
  PROVE  LET b == SubSeq(q, h + 1, Len(q))
         IN  /\ b # <<>>
             /\ Head(b) = q[h + 1]
             /\ SubSeq(r, k + 1, Len(r)) = Tail(b)
<1> DEFINE b == SubSeq(q, h + 1, Len(q))
           d == SubSeq(r, k + 1, Len(r))
<1>1. b \in Seq(S) /\ Len(b) = Len(q) - h /\ \A i \in 1..Len(q) - h : b[i] = q[h + i]
  BY UnservedPart
<1>2. Len(q) \in Nat /\ Len(r) \in Nat
  OBVIOUS
<1>3. k <= Len(r)
  BY <1>2
<1>4. d \in Seq(S) /\ Len(d) = Len(r) - k /\ \A i \in 1..Len(r) - k : d[i] = r[k + i]
  BY <1>3, UnservedPart
<1> HIDE DEF b, d
<1>5. b # <<>> /\ Len(b) > 0
  BY <1>1, <1>2
<1>6. Head(b) = q[h + 1]
  <2>1. Head(b) = b[1]
    BY <1>5
  <2>2. 1 \in 1..Len(q) - h
    BY <1>2
  <2> QED
    BY <1>1, <2>1, <2>2
<1>7. /\ Tail(b) \in Seq(S)
      /\ Len(Tail(b)) = Len(b) - 1
      /\ \A i \in 1..Len(Tail(b)) : Tail(b)[i] = b[i + 1]
  BY <1>1, <1>5, HeadTailProperties
<1> DEFINE t == Tail(b)
<1>8. t \in Seq(S) /\ Len(t) = Len(b) - 1 /\ \A i \in 1..Len(t) : t[i] = b[i + 1]
  BY <1>7
<1> HIDE DEF t
<1>9. Len(d) = Len(t)
  BY <1>1, <1>2, <1>4, <1>8
<1>10. ASSUME NEW i \in 1..Len(d) PROVE d[i] = t[i]
  <2>1. /\ i \in 1..Len(r) - k
        /\ i \in 1..Len(q) - (h + 1)
        /\ i \in 1..Len(t)
        /\ i + 1 \in 1..Len(q) - h
        /\ h + (i + 1) = h + 1 + i
    BY <1>1, <1>2, <1>4, <1>9
  <2>2. d[i] = r[k + i] /\ r[k + i] = q[h + 1 + i]
    BY <1>4, <2>1
  <2>3. t[i] = b[i + 1] /\ b[i + 1] = q[h + (i + 1)]
    BY <1>1, <1>8, <2>1
  <2> QED
    BY <2>1, <2>2, <2>3
<1>11. d = t
  BY <1>4, <1>8, <1>9, <1>10, SeqEqual
<1> QED
  BY <1>5, <1>6, <1>11 DEF b, d, t

LEMMA OwnerIs ==
  ASSUME NEW f, NEW c \in Clients, {d \in Clients : f[d] = "live"} = {c}
  PROVE  (IF {d \in Clients : f[d] = "live"} = {} THEN Dead
          ELSE CHOOSE d \in Clients : f[d] = "live") = c
<1>1. \A d \in Clients : f[d] = "live" <=> d = c
  OBVIOUS
<1>2. (CHOOSE d \in Clients : f[d] = "live") = c
  BY <1>1
<1> QED
  BY <1>2

\* The step simulation: every step of the mutex is a step of the FIFO lock,
\* or leaves the owner and the waiters alone.
LEMMA FifoStep == IInv /\ [Next]_vars => [Fifo!Next]_<<Owner, Backlog>>
<1> SUFFICES ASSUME IInv, [Next]_vars
             PROVE  Fifo!Next \/ (Owner' = Owner /\ Backlog' = Backlog)
  OBVIOUS
<1> USE DeadAssumption
<1> DEFINE Slots == Clients \union {Dead}
<1>t. /\ queue \in Seq(Slots) /\ head \in Nat /\ head <= Len(queue)
      /\ closure \in [Clients -> ClosureState]
  BY DEF IInv, TypeOK
<1>b. /\ Backlog \in Seq(Slots)
      /\ Len(Backlog) = Len(queue) - head
      /\ \A i \in 1..Len(queue) - head : Backlog[i] = queue[head + i]
  BY <1>t, UnservedPart DEF Backlog
<1>u. ASSUME NEW c \in Clients, Holders = {c} PROVE Owner = c
  BY <1>u, OwnerIs DEF Owner, Holders
<1>v. ASSUME NEW c \in Clients, Holders' = {c} PROVE Owner' = c
  BY <1>v, OwnerIs DEF Owner, Holders
<1>1. UNCHANGED vars => Owner' = Owner /\ Backlog' = Backlog
  BY DEF Owner, Backlog, Holders, vars
<1>2. ASSUME NEW c \in Clients, AcquireFree(c) PROVE Fifo!Grab(c)
  <2>1. Holders = {}
    BY <1>2 DEF IInv, LockedIffHeld, AcquireFree
  <2>2. Holders' = {c}
    BY <1>2, <1>t, <2>1 DEF AcquireFree, Holders
  <2>3. Owner = Dead
    BY <2>1 DEF Owner
  <2>4. Backlog' = Backlog
    BY <1>2 DEF AcquireFree, Backlog
  <2> QED
    BY <1>v, <2>2, <2>3, <2>4 DEF Fifo!Grab
<1>3. ASSUME NEW c \in Clients, AcquireBusy(c) PROVE Fifo!Enqueue(c)
  <2>1. PICK d \in Clients : closure[d] = "live"
    BY <1>3 DEF IInv, LockedIffHeld, AcquireBusy, Holders
  <2>2. Holders = {d}
    BY <2>1 DEF IInv, MutualExclusion, Holders
  <2>3. Owner = d /\ d # c
    BY <1>3, <1>u, <2>1, <2>2 DEF AcquireBusy, MayAcquire
  <2>4. ASSUME NEW i \in 1..Len(Backlog) PROVE Backlog[i] # c
    <3>1. i \in 1..Len(queue) - head /\ head + i \in head + 1 .. Len(queue)
      BY <1>t, <1>b
    <3>2. Backlog[i] = queue[head + i] /\ queue[head + i] \in Waiters
      BY <1>b, <3>1 DEF IInv, NoLostWaiter
    <3> QED
      BY <1>3, <3>2 DEF Waiters, AcquireBusy, MayAcquire
  <2>0. c \in Slots
    OBVIOUS
  <2>5. SubSeq(Append(queue, c), head + 1, Len(Append(queue, c)))
          = Append(SubSeq(queue, head + 1, Len(queue)), c)
    <3>1. queue \in Seq(Slots) /\ head \in Nat /\ head <= Len(queue)
      BY <1>t
    <3> HIDE DEF Slots
    <3> QED
      BY <2>0, <3>1, AppendBacklog
  <2>6. Backlog' = Append(Backlog, c)
    BY <1>3, <2>5 DEF AcquireBusy, Backlog
  <2>7. Owner' = Owner
    <3>1. Holders' = Holders
      BY <1>3, <1>t DEF AcquireBusy, MayAcquire, Holders, ClosureState
    <3> QED
      BY <1>v, <2>2, <2>3, <3>1
  <2> QED
    BY <2>3, <2>4, <2>6, <2>7 DEF Fifo!Enqueue, Fifo!Uninvolved
<1>4. ASSUME NEW c \in Clients, closure[c] = "live", PassOn(c) PROVE Fifo!HandOff(c)
  <2>1. Holders = {c}
    BY <1>4 DEF IInv, MutualExclusion, Holders
  <2>2. Owner = c
    BY <1>u, <2>1
  <2>3. /\ queue[head + 1] \in Clients
        /\ Holders' = {queue[head + 1]}
    BY <1>4, PassOnClosure DEF Waiters
  <2>4. Owner' = queue[head + 1]
    BY <1>v, <2>3
  <2>5. /\ queue' \in Seq(Slots)
        /\ head' \in Nat
        /\ Len(queue') - head' = Len(queue) - (head + 1)
        /\ \A i \in 1..Len(queue) - (head + 1) : queue'[head' + i] = queue[head + 1 + i]
    BY <1>4, PassOnQueue DEF IInv
  <2>6. head < Len(queue)
    BY <1>4 DEF PassOn
  <2>7. LET b == SubSeq(queue, head + 1, Len(queue))
        IN  /\ b # <<>>
            /\ Head(b) = queue[head + 1]
            /\ SubSeq(queue', head' + 1, Len(queue')) = Tail(b)
    <3>1. queue \in Seq(Slots) /\ head \in Nat /\ head < Len(queue)
      BY <1>t, <2>6
    <3> HIDE DEF Slots
    <3> QED
      BY <2>5, <3>1, ServeBacklog
  <2> QED
    BY <2>2, <2>4, <2>7 DEF Fifo!HandOff, Backlog
<1>5. ASSUME NEW c \in Clients, closure[c] = "live", Unlock(c) PROVE Fifo!Free(c)
  <2>1. Holders = {c}
    BY <1>5 DEF IInv, MutualExclusion, Holders
  <2>2. Owner = c
    BY <1>u, <2>1
  <2>3. Holders' = {}
    BY <1>5, <1>t, <2>1 DEF Unlock, Holders
  <2>4. Owner' = Dead
    BY <2>3 DEF Owner
  <2>5. Backlog = <<>>
    <3>1. Len(Backlog) = 0
      BY <1>5, <1>t, <1>b DEF Unlock
    <3> QED
      BY <1>b, <3>1
  <2>6. SubSeq(<<>>, 0 + 1, Len(<<>>)) = <<>>
    BY SubSeqEmpty
  <2>7. Backlog' = <<>>
    BY <1>5, <2>6 DEF Unlock, Backlog
  <2> QED
    BY <2>2, <2>4, <2>5, <2>7 DEF Fifo!Free
<1> QED
  BY <1>1, <1>2, <1>3, <1>4, <1>5
  DEF Next, Release, ReleaseAgain, Fifo!Next, Fifo!Acquire, Fifo!Release

(***************************************************************************)
(* The mutex is a FIFO lock: whatever the compaction does to the array,    *)
(* the callers get the lock one at a time and in the order of their calls. *)
(***************************************************************************)
THEOREM MutexIsFifoLock == Spec => ImplementsFifoLock
<1>1. Init => Fifo!Init
  <2> SUFFICES ASSUME Init PROVE Fifo!Init
    OBVIOUS
  <2>1. Owner = Dead
    BY DEF Init, Owner, Holders
  <2>2. SubSeq(<<>>, 0 + 1, Len(<<>>)) = <<>>
    BY SubSeqEmpty
  <2>3. Backlog = <<>>
    BY <2>2 DEF Init, Backlog
  <2> QED
    BY <2>1, <2>3 DEF Fifo!Init
<1>2. IInv /\ [Next]_vars => [Fifo!Next]_<<Owner, Backlog>>
  BY FifoStep
<1> QED
  BY <1>1, <1>2, Invariant, PTL DEF Spec, ImplementsFifoLock, Fifo!Spec, Fifo!lockVars
=============================================================================
