----------------------------- MODULE BrowserTabs -----------------------------
(***************************************************************************)
(* The OPFS and IndexedDB drivers (drivers/opfs/, drivers/IndexedDB/): no  *)
(* lock keeps a second tab from opening the same database.                 *)
(*                                                                         *)
(* OPFS has two data files and meta.json, which names the active one; a    *)
(* commit writes the other and then meta.json.  getFileHandle creates a    *)
(* file empty; what is written into it appears as a whole when the         *)
(* writable is closed.  IndexedDB keeps counter and records in one record  *)
(* (here data["a"] and meta) and replaces it in one transaction.           *)
(*                                                                         *)
(* A step is what happens between two awaits; a call that fails has        *)
(* changed nothing.  A state of the records is a version.                  *)
(***************************************************************************)
EXTENDS Integers

CONSTANTS
  Tabs,
  MaxSchema,    \* bound: values of the option `version` of IndexedDB
  MaxCommitId,  \* Number.MAX_SAFE_INTEGER in the code
  MaxVersion    \* bound: mutations in a behaviour

ASSUME BoundsAssumption ==
  /\ MaxSchema \in Nat \ {0}
  /\ MaxCommitId \in Nat
  /\ MaxVersion \in Nat

VARIABLES
  driver,       \* "opfs" or "indexedDB"
  exclusive,    \* the application opens the database in one tab at a time
  \* the storage of the origin
  data,         \* the version in each data file, or Absent or Empty
  meta,         \* its content: "none", "empty" or "whole"; and its fields
  schema,       \* the version of the IndexedDB database, 0 if there is none
  connections,  \* tabs with an open connection to it
  \* each tab
  step,         \* where it is: see TypeOK
  wanted,       \* the schema version it opens
  active,       \* activeData
  commitId,
  records,      \* the version in memory
  snapshot,     \* the one a commit has taken
  \* history
  latest,       \* the last version there has been
  acked,        \* the version of the last commit that succeeded, in any tab
  created,      \* a commit has been stored
  contended,    \* tabs whose commit has overlapped another's
  settled       \* since the last success nothing else has been stored

config  == <<driver, exclusive>>
storage == <<data, meta, schema, connections>>
memory  == <<active, commitId, records>>
history == <<latest, acked, created, contended, settled>>
vars == <<config, storage, step, wanted, memory, snapshot, history>>

Absent == -2
Empty  == -1

Files == {"a", "b"}
Other(file) == IF file = "a" THEN "b" ELSE "a"

Opening    == {"opening", "loading"}
Committing == {"createData", "storeData", "createMeta", "storeMeta",
               "transaction", "aborted", "done"}

Init ==
  /\ driver \in {"opfs", "indexedDB"}
  /\ exclusive \in BOOLEAN
  /\ data = [f \in Files |-> Absent]
  /\ meta = [content |-> "none", active |-> "a", commitId |-> 0]
  /\ schema = 0
  /\ connections = {}
  /\ step = [t \in Tabs |-> "closed"]
  /\ wanted = [t \in Tabs |-> 1]
  /\ active = [t \in Tabs |-> "a"]
  /\ commitId = [t \in Tabs |-> 0]
  /\ records = [t \in Tabs |-> 0]
  /\ snapshot = [t \in Tabs |-> 0]
  /\ latest = 0
  /\ acked = 0
  /\ created = FALSE
  /\ contended = {}
  /\ settled = TRUE

\* What loadOpfsSnapshot and loadIndexedDBSnapshot find, read at one time
Loads ==
  IF meta.content = "whole" THEN data[meta.active]
  ELSE IF meta.content = "empty" THEN Empty ELSE 0

Go(t, place) == step' = [step EXCEPT ![t] = place]

\* The datastore of tab t holds version v
Holds(t, file, id, v) ==
  /\ active' = [active EXCEPT ![t] = file]
  /\ commitId' = [commitId EXCEPT ![t] = id]
  /\ records' = [records EXCEPT ![t] = v]

\* What is in memory is gone.
Closes(t) ==
  /\ Go(t, "closed")
  /\ wanted' = [wanted EXCEPT ![t] = 1]
  /\ Holds(t, "a", 0, 0)
  /\ snapshot' = [snapshot EXCEPT ![t] = 0]

-----------------------------------------------------------------------------
(* Opening. *)

OpenBegins(t) ==
  /\ step[t] = "closed"
  /\ exclusive => \A u \in Tabs : step[u] = "closed"
  /\ Go(t, "opening")
  /\ \E v \in 1..MaxSchema :
       /\ driver = "opfs" => v = 1
       /\ wanted' = [wanted EXCEPT ![t] = v]
  /\ UNCHANGED <<config, storage, memory, snapshot, history>>

\* loadOpfsSnapshot: no meta.json is a new database, an empty one an error.
ReadMeta(t) ==
  /\ driver = "opfs"
  /\ step[t] = "opening"
  /\ \/ /\ meta.content = "none"
        /\ Go(t, "ready")
        /\ Holds(t, "a", 0, 0)
        /\ UNCHANGED <<wanted, snapshot>>
     \/ /\ meta.content = "empty"
        /\ Closes(t)
     \/ /\ meta.content = "whole"
        /\ Go(t, "loading")
        /\ Holds(t, meta.active, meta.commitId, 0)
        /\ UNCHANGED <<wanted, snapshot>>
  /\ UNCHANGED <<config, storage, history>>

ReadData(t) ==
  /\ driver = "opfs"
  /\ step[t] = "loading"
  /\ LET found == data[active[t]]
     IN  \/ /\ found >= 0
            /\ Go(t, "ready")
            /\ Holds(t, active[t], commitId[t], found)
            /\ UNCHANGED <<wanted, snapshot>>
         \/ /\ found \in {Absent, Empty}
            /\ Closes(t)
  /\ UNCHANGED <<config, storage, history>>

\* indexedDB.open: a new version waits until no connection is left, and
\* nothing makes one give way; an old one is an error.
Connect(t) ==
  /\ driver = "indexedDB"
  /\ step[t] = "opening"
  /\ wanted[t] = schema \/ (wanted[t] > schema /\ connections = {})
  /\ schema' = wanted[t]
  /\ connections' = connections \union {t}
  /\ Go(t, "loading")
  /\ UNCHANGED <<config, data, meta, wanted, memory, snapshot, history>>

VersionError(t) ==
  /\ driver = "indexedDB"
  /\ step[t] = "opening"
  /\ wanted[t] < schema
  /\ Closes(t)
  /\ UNCHANGED <<config, storage, history>>

ReadRecord(t) ==
  /\ driver = "indexedDB"
  /\ step[t] = "loading"
  /\ Go(t, "ready")
  /\ Holds(t, meta.active, meta.commitId, Loads)
  /\ UNCHANGED <<config, storage, wanted, snapshot, history>>

AfterFailure_Kept(t) == connections  \* (faulty: the connection is not closed)

AfterFailure(t) == connections \ {t}

OpenFails_AsNew(t) ==  \* (faulty: unreadable metadata is a new database)
  /\ step[t] = "opening"
  /\ driver = "opfs"
  /\ Go(t, "ready")
  /\ Holds(t, "a", 0, 0)
  /\ UNCHANGED <<config, storage, wanted, snapshot, history>>

\* A request fails; only NotFoundError means that there is no meta.json.
OpenFails(t) ==
  /\ step[t] \in Opening
  /\ Closes(t)
  /\ connections' = AfterFailure(t)
  /\ UNCHANGED <<config, data, meta, schema, history>>

-----------------------------------------------------------------------------
(* The open datastore. *)

Mutate(t) ==
  /\ step[t] \in {"ready"} \union Committing
  /\ latest < MaxVersion
  /\ latest' = latest + 1
  /\ records' = [records EXCEPT ![t] = latest']
  /\ UNCHANGED <<config, storage, step, wanted, active, commitId, snapshot,
                 acked, created, contended, settled>>

Rivals(t) == {u \in Tabs \ {t} : step[u] \in Committing}

CommitIdsLeft_OneMore(t) == commitId[t] <= MaxCommitId  \* (faulty)

CommitIdsLeft(t) == commitId[t] < MaxCommitId

\* A counter at its limit: the commit throws and changes nothing.
CommitBegins(t) ==
  /\ step[t] = "ready"
  /\ CommitIdsLeft(t)
  /\ Go(t, IF driver = "opfs" THEN "createData" ELSE "transaction")
  /\ snapshot' = [snapshot EXCEPT ![t] = records[t]]
  /\ contended' = IF Rivals(t) = {} THEN contended \ {t}
                                    ELSE contended \union Rivals(t) \union {t}
  /\ UNCHANGED <<config, storage, wanted, memory, latest, acked, created, settled>>

Target_Active(t) == active[t]  \* (faulty: the active file is overwritten)

Target(t) == IF driver = "opfs" THEN Other(active[t]) ELSE "a"

CreateData(t) ==
  /\ step[t] = "createData"
  /\ data' = [data EXCEPT ![Target(t)] = IF @ = Absent THEN Empty ELSE @]
  /\ Go(t, "storeData")
  /\ UNCHANGED <<config, meta, schema, connections, wanted, memory, snapshot, history>>

\* A tab that does not know the active file writes over it.
StoreData(t) ==
  /\ step[t] = "storeData"
  /\ data' = [data EXCEPT ![Target(t)] = snapshot[t]]
  /\ settled' = (settled /\ active[t] = meta.active)
  /\ Go(t, "createMeta")
  /\ UNCHANGED <<config, meta, schema, connections, wanted, memory, snapshot,
                 latest, acked, created, contended>>

CreatedMeta_Truncated == [meta EXCEPT !.content = "empty"]  \* (faulty)

CreatedMeta == IF meta.content = "none" THEN [meta EXCEPT !.content = "empty"] ELSE meta

CreateMeta(t) ==
  /\ step[t] = "createMeta"
  /\ meta' = CreatedMeta
  /\ Go(t, "storeMeta")
  /\ UNCHANGED <<config, data, schema, connections, wanted, memory, snapshot, history>>

Stored(t) ==
  /\ meta' = [content |-> "whole", active |-> Target(t), commitId |-> commitId[t] + 1]
  /\ created' = TRUE
  /\ settled' = FALSE
  /\ Go(t, "done")

StoreMeta(t) ==
  /\ step[t] = "storeMeta"
  /\ Stored(t)
  /\ UNCHANGED <<config, data, schema, connections, wanted, memory, snapshot,
                 latest, acked, contended>>

CompleteTransaction(t) ==
  /\ step[t] = "transaction"
  /\ data' = [data EXCEPT !["a"] = snapshot[t]]
  /\ Stored(t)
  /\ UNCHANGED <<config, schema, connections, wanted, memory, snapshot,
                 latest, acked, contended>>

CommitReturns(t) ==
  /\ step[t] = "done"
  /\ Go(t, "ready")
  /\ active' = [active EXCEPT ![t] = Target(t)]
  /\ commitId' = [commitId EXCEPT ![t] = @ + 1]
  /\ acked' = snapshot[t]
  /\ settled' = (t \notin contended)
  /\ UNCHANGED <<config, storage, wanted, records, snapshot, latest, created, contended>>

\* A call rejects, or the transaction has an error event.
CommitFails(t) ==
  /\ step[t] \in Committing \ {"done", "aborted"}
  /\ Go(t, "ready")
  /\ UNCHANGED <<config, storage, wanted, memory, snapshot, history>>

\* The transaction aborts with an abort event only, which idbTransaction does
\* not listen for: its promise never settles.
AbortUnheard(t) ==
  /\ step[t] = "transaction"
  /\ Go(t, "aborted")
  /\ UNCHANGED <<config, storage, wanted, memory, snapshot, history>>

-----------------------------------------------------------------------------
\* close(), from "ready"; or the end of the tab
Ends(t) ==
  /\ step[t] # "closed"
  /\ Closes(t)
  /\ connections' = connections \ {t}
  /\ UNCHANGED <<config, data, meta, schema, history>>

OpenSteps(t) ==
  ReadMeta(t) \/ ReadData(t) \/ Connect(t) \/ VersionError(t) \/ ReadRecord(t)

CommitSteps(t) ==
  \/ CreateData(t) \/ StoreData(t) \/ CreateMeta(t) \/ StoreMeta(t)
  \/ CompleteTransaction(t) \/ CommitReturns(t)

Next ==
  \E t \in Tabs :
    \/ OpenBegins(t) \/ OpenSteps(t) \/ OpenFails(t)
    \/ Mutate(t)
    \/ CommitBegins(t) \/ CommitSteps(t) \/ CommitFails(t) \/ AbortUnheard(t)
    \/ Ends(t)

Spec == Init /\ [][Next]_vars

\* The storage answers a call, if it does not fail.
Fairness == \A t \in Tabs : WF_vars(OpenSteps(t)) /\ WF_vars(CommitSteps(t))

FairSpec == Spec /\ Fairness
-----------------------------------------------------------------------------
TypeOK ==
  /\ driver \in {"opfs", "indexedDB"}
  /\ exclusive \in BOOLEAN
  /\ data \in [Files -> {Absent, Empty} \union 0..latest]
  /\ meta \in [content : {"none", "empty", "whole"}, active : Files,
               commitId : 0..MaxCommitId]
  /\ schema \in 0..MaxSchema
  /\ connections \subseteq Tabs
  /\ step \in [Tabs -> {"closed", "ready"} \union Opening \union Committing]
  /\ wanted \in [Tabs -> 1..MaxSchema]
  /\ active \in [Tabs -> Files]
  /\ commitId \in [Tabs -> 0..MaxCommitId]
  /\ records \in [Tabs -> 0..latest]
  /\ snapshot \in [Tabs -> 0..latest]
  /\ latest \in 0..MaxVersion
  /\ acked \in 0..latest
  /\ created \in BOOLEAN
  /\ contended \subseteq Tabs
  /\ settled \in BOOLEAN

(***************************************************************************)
(* Once a commit has been stored, the database opens with a whole          *)
(* snapshot, however many tabs commit, are cut off, or come to load while  *)
(* others commit.  (Before, the end of a tab can leave an empty meta.json  *)
(* that nothing opens.)                                                    *)
(***************************************************************************)
OpensOnceCommitted ==
  /\ created => Loads >= 0
  /\ driver = "opfs" => \A t \in Tabs : step[t] = "loading" => data[active[t]] >= 0

(***************************************************************************)
(* After a commit that did not overlap another's, however stale its tab, a *)
(* reopening finds what it stored -- through commits that fail or are cut  *)
(* off, until an up-to-date tab has stored its metadata or a stale one its *)
(* data.                                                                   *)
(***************************************************************************)
LastWriterWins == created /\ settled => Loads = acked

(***************************************************************************)
(* Used from one tab at a time, both drivers implement the durable store,  *)
(* from the first commit that was stored.                                  *)
(***************************************************************************)
Store == INSTANCE DurableStore
           WITH Versions <- 0..MaxVersion,
                outcomes <- IF exclusive /\ created THEN {Loads} ELSE {0},
                acked    <- IF exclusive THEN acked ELSE 0

ImplementsDurableStore == Store!Spec

(***************************************************************************)
(* Every commit settles unless its transaction was aborted unheard, and    *)
(* every opening does unless another tab has the database open: a failed   *)
(* opening blocks nobody.                                                  *)
(***************************************************************************)
CallsSettle ==
  \A t \in Tabs :
    /\ (step[t] \in Committing) ~> (step[t] \notin Committing \/ step[t] = "aborted")
    /\ (step[t] \in Opening) ~>
         \/ step[t] \notin Opening
         \/ \E u \in Tabs \ {t} : step[u] \notin {"closed", "opening"}
=============================================================================
