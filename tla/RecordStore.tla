----------------------------- MODULE RecordStore -----------------------------
(***************************************************************************)
(* The mutations of a datastore with a capacity, and its size accounting   *)
(* (datastore/datastorePut.ts, datastorePutStrict.ts, datastoreDelete.ts,  *)
(* datastoreIdOps.ts, mutationById.ts, backend/capacity.ts).               *)
(*                                                                         *)
(* Mutations hold the write mutex from end to end, so each is one action;  *)
(* what can go wrong inside one is that it throws after it has changed the *)
(* index, or that the commit it awaits fails: then the size it computed is *)
(* never assigned to Datastore.currentSizeBytes.  The history variables    *)
(* uncounted and overcounted keep account of that.                         *)
(*                                                                         *)
(* A record is its key and its size: nothing here depends on the payload.  *)
(* putMany under turnover and deleteMany are left-to-right sequences of    *)
(* Put and Delete.                                                         *)
(***************************************************************************)
EXTENDS Integers, Sequences, SequencesExt

CONSTANTS
  Keys,           \* integers, in comparator order
  Sizes,          \* sizeBytes of a record
  MaxSize,        \* capacityState.maxSizeBytes
  CommitMayFail,  \* there is a backend, and its commits can fail
  Reopens,        \* there is a backend, and the datastore is reopened
  LoadOverhead,   \* bytes of a stored snapshot that are no record's
  MaxRecords,     \* bound: records in the index
  MaxBatch,       \* bound: records in a batch
  MaxDrift        \* bound: bytes gone uncounted, or counted too many

ASSUME KeysAssumption == Keys \subseteq Int
ASSUME SizesAssumption == Sizes \subseteq Nat \ {0}
ASSUME CapacityAssumption == MaxSize \in Nat \ {0}
ASSUME BackendAssumption ==
  /\ CommitMayFail \in BOOLEAN
  /\ Reopens \in BOOLEAN
  /\ LoadOverhead \in Nat
ASSUME BoundAssumption == {MaxRecords, MaxBatch, MaxDrift} \subseteq Nat

VARIABLES
  policy,            \* capacityState.policy
  duplicateKeys,     \* config.duplicateKeys
  entries,           \* keyIndex, in key order, equal keys by insertion
  currentSizeBytes,
  last,              \* the last put: what was asked and how it ended
  \* history: what the size may be off by, since the store was last cleared
  uncounted,         \* bytes that came into the index when a commit failed
  overcounted        \* bytes that left it when a commit failed or a put
                     \* overflowed, or that a reopening counted too many

config == <<policy, duplicateKeys>>
drift == <<uncounted, overcounted>>
vars == <<config, entries, currentSizeBytes, last, drift>>

Record == [key : Keys, size : Sizes]
NoPut == [asked |-> <<>>, before |-> <<>>, outcome |-> "none", off |-> 0]

Init ==
  /\ policy \in {"strict", "turnover"}
  /\ duplicateKeys \in {"allow", "replace", "reject"}
  /\ entries = <<>>
  /\ currentSizeBytes = 0
  /\ last = NoPut
  /\ uncounted = 0
  /\ overcounted = 0

-----------------------------------------------------------------------------
(* The B+tree index, an external package, by what its adapter returns. *)

Rec(k, s) == [key |-> k, size |-> s]

\* findFirst: the position of the first record with key k, or 0
FindFirst(es, k) == SelectInSeq(es, LAMBDA e : e.key = k)

HasKey(es, k) == FindFirst(es, k) # 0

\* In key order, behind those with a key not above its own
Behind(es, e) ==
  LET before == SelectLastInSeq(es, LAMBDA r : r.key <= e.key)
  IN  InsertAt(es, before + 1, e)

\* put: under 'replace' the value of an existing key is overwritten;
\* otherwise the record goes behind those of its key.
\* (faulty: goes behind everything)
IndexPut_Last(es, k, s) ==
  IF duplicateKeys = "replace" /\ HasKey(es, k)
  THEN [es EXCEPT ![FindFirst(es, k)].size = s]
  ELSE Append(es, Rec(k, s))

IndexPut(es, k, s) ==
  IF duplicateKeys = "replace" /\ HasKey(es, k)
  THEN [es EXCEPT ![FindFirst(es, k)].size = s]
  ELSE Behind(es, Rec(k, s))

InsertInTurn(es, batch) ==
  FoldLeft(LAMBDA acc, e : IndexPut(acc, e.key, e.size), es, batch)

\* removeById, deleteRange: the index without the records at these positions
Without(es, positions) ==
  FoldLeft(LAMBDA kept, i : IF i \in positions THEN kept ELSE Append(kept, es[i]),
           <<>>, [i \in DOMAIN es |-> i])

Positions(es, k) == {i \in DOMAIN es : es[i].key = k}

SumSizes(es) == FoldLeft(LAMBDA sum, e : sum + e.size, 0, es)

-----------------------------------------------------------------------------
(* Size accounting. *)

Minus(size, freed) == IF size > freed THEN size - freed ELSE 0  \* Math.max(0, -)

\* The index has changed and the mutation rejects: the size is not assigned.
SizeNotAssigned ==
  LET grown == SumSizes(entries') - SumSizes(entries)
  IN  /\ UNCHANGED currentSizeBytes
      /\ uncounted' = uncounted + Minus(grown, 0)
      /\ overcounted' = overcounted + Minus(0, grown)
      /\ uncounted' <= MaxDrift
      /\ overcounted' <= MaxDrift

\* The commit the mutation awaits succeeds, or fails.
AssignSize(newSize) ==
  \/ currentSizeBytes' = newSize /\ UNCHANGED drift
  \/ CommitMayFail /\ SizeNotAssigned

Outcome(batch, how) ==
  last' = [asked |-> batch, before |-> entries, outcome |-> how, off |-> overcounted]

-----------------------------------------------------------------------------
(***************************************************************************)
(* put.  Under 'replace' the old record leaves the index, and the size,    *)
(* before the capacity is enforced on what remains.                        *)
(***************************************************************************)
Remaining(k) ==
  LET i == FindFirst(entries, k)
  IN  IF duplicateKeys = "replace" /\ i # 0
      THEN [es |-> RemoveAt(entries, i),
            size |-> Minus(currentSizeBytes, entries[i].size)]
      ELSE [es |-> entries, size |-> currentSizeBytes]

\* enforceCapacityPolicy: the numbers of records whose eviction makes room
\* (faulty: never evicts the last record; a full store does not fit)
FitsAfter_KeepsOne(rest, s) ==
  {n \in 0..(IF policy = "turnover" THEN Len(rest.es) - 1 ELSE 0) :
     rest.size - SumSizes(SubSeq(rest.es, 1, n)) + s <= MaxSize}
FitsAfter_Exclusive(rest, s) ==
  {n \in 0..(IF policy = "turnover" THEN Len(rest.es) ELSE 0) :
     rest.size - SumSizes(SubSeq(rest.es, 1, n)) + s < MaxSize}

FitsAfter(rest, s) ==
  {n \in 0..(IF policy = "turnover" THEN Len(rest.es) ELSE 0) :
     rest.size - SumSizes(SubSeq(rest.es, 1, n)) + s <= MaxSize}

Fewest(ns) == CHOOSE n \in ns : \A m \in ns : n <= m

DuplicateRejected(k) == duplicateKeys = "reject" /\ HasKey(entries, k)

PutRefused(k, s) ==
  /\ DuplicateRejected(k) \/ s > MaxSize
  /\ Outcome(<<Rec(k, s)>>, IF DuplicateRejected(k) THEN "duplicate" ELSE "quota")
  /\ UNCHANGED <<entries, currentSizeBytes, drift>>

\* No room: the method throws.  The index keeps what was removed from it --
\* the record to replace and, under turnover, everything.
PutOverflows(k, s) ==
  LET rest == Remaining(k)
  IN  /\ ~DuplicateRejected(k)
      /\ s <= MaxSize
      /\ FitsAfter(rest, s) = {}
      /\ entries' = IF policy = "turnover" THEN <<>> ELSE rest.es
      /\ Outcome(<<Rec(k, s)>>, "quota")
      /\ SizeNotAssigned

PutInserts(k, s) ==
  LET rest == Remaining(k)
      fits == FitsAfter(rest, s)
      n    == Fewest(fits)
      kept == SubSeq(rest.es, n + 1, Len(rest.es))
      size == Minus(rest.size, SumSizes(SubSeq(rest.es, 1, n)))
  IN  /\ ~DuplicateRejected(k)
      /\ s <= MaxSize
      /\ fits # {}
      /\ Len(kept) < MaxRecords
      /\ entries' = IndexPut(kept, k, s)
      /\ AssignSize(size + s)
      /\ Outcome(<<Rec(k, s)>>, "inserted")

Put(k, s) ==
  /\ PutRefused(k, s) \/ PutOverflows(k, s) \/ PutInserts(k, s)
  /\ UNCHANGED config

-----------------------------------------------------------------------------
(***************************************************************************)
(* putMany under strict: the batch is sorted by key, equal keys in the     *)
(* order given; a first pass validates it and sums up its size delta, a    *)
(* second inserts it.                                                      *)
(***************************************************************************)
SortBatch(batch) == FoldLeft(Behind, <<>>, batch)

NoBatch == [prepared |-> <<>>, delta |-> 0, bad |-> FALSE]

\* What the entry displaces from the index
ReplacedInIndex_None(k) == 0  \* (faulty: counts as a new record)

ReplacedInIndex(k) ==
  LET i == FindFirst(entries, k)
  IN  IF duplicateKeys = "replace" /\ i # 0 THEN entries[i].size ELSE 0

\* One turn of buildStrictBatchEntries.  An earlier entry of the batch with
\* the same key is the last one prepared; under 'replace' it is taken back.
PrepareEntry(acc, e) ==
  LET inBatch  == acc.prepared # <<>> /\ Last(acc.prepared).key = e.key
      takeBack == duplicateKeys = "replace" /\ inBatch
      kept     == IF takeBack THEN Front(acc.prepared) ELSE acc.prepared
      undone   == IF takeBack
                  THEN Last(acc.prepared).size - Last(acc.prepared).replaced
                  ELSE 0
      replaced == IF takeBack THEN Last(acc.prepared).replaced
                  ELSE ReplacedInIndex(e.key)
      refused  == duplicateKeys = "reject" /\ (inBatch \/ HasKey(entries, e.key))
  IN  [prepared |-> Append(kept, [key |-> e.key, size |-> e.size, replaced |-> replaced]),
       delta    |-> acc.delta - undone + e.size - replaced,
       bad      |-> acc.bad \/ refused \/ e.size > MaxSize]

BuildStrictBatch(batch) == FoldLeft(PrepareEntry, NoBatch, SortBatch(batch))

\* One turn of applyStrictBatchInserts.  It counts the bytes replaced only if
\* the key is still there.
ApplyEntry(acc, e) ==
  [es    |-> IndexPut(acc.es, e.key, e.size),
   delta |-> acc.delta + e.size - (IF HasKey(acc.es, e.key) THEN e.replaced ELSE 0)]

\* (faulty: from the end of the batch)
ApplyStrictBatch_Reversed(prepared) ==
  FoldRight(LAMBDA e, acc : ApplyEntry(acc, e), prepared, [es |-> entries, delta |-> 0])

ApplyStrictBatch(prepared) == FoldLeft(ApplyEntry, [es |-> entries, delta |-> 0], prepared)

StrictBatchFits(built) == ~built.bad /\ currentSizeBytes + built.delta <= MaxSize

PutManyStrict(batch) ==
  LET built   == BuildStrictBatch(batch)
      applied == ApplyStrictBatch(built.prepared)
  IN  /\ policy = "strict"
      /\ UNCHANGED config
      /\ \/ /\ StrictBatchFits(built)
            /\ Len(entries) + Len(built.prepared) <= MaxRecords
            /\ entries' = applied.es
            /\ AssignSize(Minus(currentSizeBytes + applied.delta, 0))
            /\ Outcome(batch, "inserted")
         \/ /\ ~StrictBatchFits(built)
            /\ Outcome(batch, IF built.bad THEN "refused" ELSE "quota")
            /\ UNCHANGED <<entries, currentSizeBytes, drift>>

-----------------------------------------------------------------------------
\* The sizes removed are subtracted together or each in its turn, never
\* below zero: that comes to the same.
RemoveRecords(positions) ==
  LET kept == Without(entries, positions)
  IN  /\ positions # {}
      /\ entries' = kept
      /\ AssignSize(Minus(currentSizeBytes, SumSizes(entries) - SumSizes(kept)))
      /\ last' = NoPut
      /\ UNCHANGED config

\* delete(key): every record of the key
Delete(k) == RemoveRecords(Positions(entries, k))

\* deleteById and deleteByIds: the records that have the ids
DeleteByIds(positions) == RemoveRecords(positions)

\* updateById and replaceById of the i-th record to size s: capacity is
\* enforced, without turnover, when the record grows.
Grow(i, s) == s - entries[i].size

ChangeById(i, s) ==
  /\ i \in DOMAIN entries
  /\ ~(Grow(i, s) > 0 /\ currentSizeBytes + Grow(i, s) > MaxSize)
  /\ entries' = [entries EXCEPT ![i].size = s]
  /\ AssignSize(Minus(currentSizeBytes + s, entries[i].size))
  /\ last' = NoPut
  /\ UNCHANGED config

\* clear(): the size is assigned before the commit is awaited.
Clear ==
  /\ entries' = <<>>
  /\ currentSizeBytes' = 0
  /\ last' = NoPut
  /\ uncounted' = 0
  /\ overcounted' = 0
  /\ UNCHANGED config

\* close() and a new datastore on the same storage: the size is now that of
\* the stored snapshot.
Reopen ==
  /\ Reopens
  /\ currentSizeBytes' = SumSizes(entries) + LoadOverhead
  /\ last' = NoPut
  /\ overcounted' = LoadOverhead
  /\ UNCHANGED <<config, entries, uncounted>>

Batches == UNION {[1..n -> Record] : n \in 2..MaxBatch}

Next ==
  \/ \E k \in Keys, s \in Sizes : Put(k, s)
  \/ \E batch \in Batches : PutManyStrict(batch)
  \/ \E k \in Keys : Delete(k)
  \/ \E i \in DOMAIN entries, s \in Sizes : ChangeById(i, s)
  \/ \E positions \in SUBSET DOMAIN entries : DeleteByIds(positions)
  \/ Clear
  \/ Reopen

Spec == Init /\ [][Next]_vars
-----------------------------------------------------------------------------
Total == SumSizes(entries)

TypeOK ==
  /\ policy \in {"strict", "turnover"}
  /\ duplicateKeys \in {"allow", "replace", "reject"}
  /\ entries \in Seq(Record)
  /\ \A i, j \in DOMAIN entries :
       i < j => IF duplicateKeys = "allow" THEN entries[i].key <= entries[j].key
                                           ELSE entries[i].key < entries[j].key
  /\ currentSizeBytes \in Nat
  /\ last.outcome \in {"none", "inserted", "duplicate", "refused", "quota"}
  /\ uncounted \in Nat
  /\ overcounted \in Nat

(***************************************************************************)
(* The size the capacity is checked against differs from that of the       *)
(* records by no more than what rejected mutations have brought in or      *)
(* taken out, and by the overhead of the snapshot last loaded; and the     *)
(* records exceed the capacity by no more than what was brought in.  While *)
(* nothing is rejected that means an exact size and a capacity kept, after *)
(* any mixture of batches, replacements, evictions and deletions.          *)
(***************************************************************************)
SizeAccountedFor ==
  /\ Total - uncounted <= currentSizeBytes
  /\ currentSizeBytes <= Total + overcounted
  /\ Total <= MaxSize + uncounted

(***************************************************************************)
(* A strict batch is all or nothing, and inserting it has the effect of    *)
(* putting its records one after the other in the order given.             *)
(***************************************************************************)
BatchIsAtomic ==
  Len(last.asked) > 1 =>
    entries = IF last.outcome = "inserted"
              THEN InsertInTurn(last.before, last.asked)
              ELSE last.before

(***************************************************************************)
(* Turnover evicts from the front and no more than the new record needs:   *)
(* the survivors are the end of what was there, and with the last victim   *)
(* the records, and what is counted too many, would not have fitted.       *)
(***************************************************************************)
EvictsOnlyWhatIsNeeded ==
  policy = "turnover" /\ last.outcome = "inserted" =>
    LET e       == last.asked[1]
        others  == IF duplicateKeys = "replace"
                   THEN Without(last.before, Positions(last.before, e.key))
                   ELSE last.before
        evicted == Len(others) + 1 - Len(entries)
    IN  /\ evicted >= 0
        /\ entries = IndexPut(SubSeq(others, evicted + 1, Len(others)), e.key, e.size)
        /\ evicted > 0 =>
             SumSizes(SubSeq(others, evicted, Len(others))) + e.size + last.off > MaxSize

(***************************************************************************)
(* Under turnover a record finds room, in the empty store if it must: it   *)
(* is refused only if it is larger than the capacity, or so close to it    *)
(* that the bytes counted too many -- after a reopening, the overhead of   *)
(* the snapshot -- take its room.                                          *)
(***************************************************************************)
TurnoverMakesRoom ==
  policy = "turnover" /\ last.outcome = "quota" =>
    last.asked[1].size + last.off > MaxSize

(***************************************************************************)
(* What a test is named after: a put is refused for quota only if the      *)
(* records, with the old one of its key replaced, would not fit.           *)
(***************************************************************************)
ValidReplaceNotRejected ==
  last.outcome = "quota" /\ Len(last.asked) = 1 =>
    SumSizes(IndexPut(last.before, last.asked[1].key, last.asked[1].size)) > MaxSize
=============================================================================
