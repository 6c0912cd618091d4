-------------------------- MODULE BrowserTabs_proofs --------------------------
(***************************************************************************)
(* Proofs about BrowserTabs.                                               *)
(*                                                                         *)
(* What a reopening finds depends on meta.json and on the file it names,   *)
(* which are written at different times and, by stale tabs, in any order.  *)
(* The invariant says that a file once whole stays whole, and, of a commit *)
(* that no other overlaps, what it has put where.  When the database is    *)
(* opened in one tab at a time, the open tab knows the active file, and    *)
(* what it holds and commits is no older than what was acknowledged.       *)
(***************************************************************************)
EXTENDS BrowserTabs, TLAPS

\* Which steps belong to which driver
StepsOfDriver ==
  /\ driver = "opfs" =>
       \A t \in Tabs : step[t] \notin {"transaction", "aborted"}
  /\ driver = "indexedDB" =>
       /\ meta.active = "a"
       /\ meta.content # "empty"
       /\ \A t \in Tabs :
            /\ step[t] \notin {"createData", "storeData", "createMeta", "storeMeta"}
            /\ active[t] = "a"

\* A commit has a counter left to store.
CounterInReach ==
  \A t \in Tabs : step[t] \in Committing => commitId[t] < MaxCommitId

\* What metadata names can be read, and metadata once whole stays whole.
NamedFileIsWhole ==
  /\ created <=> meta.content = "whole"
  /\ created => data[meta.active] >= 0
  /\ \A t \in Tabs :
       /\ step[t] \in {"createMeta", "storeMeta"} => data[Target(t)] >= 0
       /\ step[t] = "loading" /\ driver = "opfs" => data[active[t]] >= 0
       /\ step[t] = "storeMeta" => meta.content # "none"
       /\ step[t] = "done" => created

\* Commits that run at the same time know of each other.
OverlapIsKnown ==
  \A t, u \in Tabs :
    t # u /\ step[t] \in Committing /\ step[u] \in Committing => t \in contended

\* A commit that runs alone finds what it has stored.
AloneUndisturbed ==
  \A t \in Tabs : t \notin contended =>
    /\ step[t] \in {"createMeta", "storeMeta"} => data[Target(t)] = snapshot[t]
    /\ step[t] = "done" => Loads = snapshot[t]

\* Used from one tab at a time
OneTab ==
  exclusive =>
    /\ contended = {}
    /\ \A t, u \in Tabs : step[t] # "closed" /\ step[u] # "closed" => t = u
    /\ \A t \in Tabs :
         /\ created /\ step[t] \notin {"closed", "opening", "done"} => active[t] = meta.active
         /\ step[t] \in {"ready"} \union Committing => records[t] >= acked
         /\ step[t] \in Committing => snapshot[t] >= acked /\ records[t] >= snapshot[t]
         /\ step[t] = "done" => meta.active = Target(t)
    /\ created => Loads >= acked
    /\ ~created => acked = 0

IInv ==
  /\ TypeOK
  /\ StepsOfDriver
  /\ CounterInReach
  /\ NamedFileIsWhole
  /\ OverlapIsKnown
  /\ AloneUndisturbed
  /\ LastWriterWins
  /\ OneTab

Actions(t) ==
  \/ OpenBegins(t) \/ ReadMeta(t) \/ ReadData(t) \/ Connect(t) \/ VersionError(t)
  \/ ReadRecord(t) \/ OpenFails(t) \/ Mutate(t) \/ CommitBegins(t) \/ CreateData(t)
  \/ StoreData(t) \/ CreateMeta(t) \/ StoreMeta(t) \/ CompleteTransaction(t)
  \/ CommitReturns(t) \/ CommitFails(t) \/ AbortUnheard(t) \/ Ends(t)

USE DEF config, storage, memory, history, Go, Holds, Closes, Files, Other, Opening,
        Committing, Absent, Empty
-----------------------------------------------------------------------------
(***************************************************************************)
(* Types.                                                                  *)
(***************************************************************************)
LEMMA TypeStep ==
  ASSUME IInv, NEW t \in Tabs, Actions(t)
  PROVE  TypeOK'
<1> USE BoundsAssumption DEF IInv, TypeOK, StepsOfDriver, CounterInReach, NamedFileIsWhole, Loads
<1>1. CASE OpenBegins(t)
  BY <1>1 DEF OpenBegins
<1>2. CASE ReadMeta(t)
  BY <1>2 DEF ReadMeta
<1>3. CASE ReadData(t)
  BY <1>3 DEF ReadData
<1>4. CASE Connect(t)
  BY <1>4 DEF Connect
<1>5. CASE VersionError(t)
  BY <1>5 DEF VersionError
<1>6. CASE ReadRecord(t)
  BY <1>6 DEF ReadRecord
<1>7. CASE OpenFails(t)
  BY <1>7 DEF OpenFails, AfterFailure
<1>8. CASE Mutate(t)
  BY <1>8 DEF Mutate
<1>9. CASE CommitBegins(t)
  BY <1>9 DEF CommitBegins, CommitIdsLeft, Rivals
<1>10. CASE CreateData(t)
  BY <1>10 DEF CreateData, Target
<1>11. CASE StoreData(t)
  BY <1>11 DEF StoreData, Target
<1>12. CASE CreateMeta(t)
  BY <1>12 DEF CreateMeta, CreatedMeta
<1>13. CASE StoreMeta(t)
  <2>1. commitId[t] + 1 \in 0..MaxCommitId /\ Target(t) \in Files
    BY <1>13 DEF StoreMeta, Target
  <2>2. meta' \in [content : {"none", "empty", "whole"}, active : Files,
                  commitId : 0..MaxCommitId]
    BY <1>13, <2>1 DEF StoreMeta, Stored
  <2> QED
    BY <1>13, <2>2 DEF StoreMeta, Stored
<1>14. CASE CompleteTransaction(t)
  <2>1. commitId[t] + 1 \in 0..MaxCommitId /\ Target(t) \in Files
    BY <1>14 DEF CompleteTransaction, Target
  <2>2. meta' \in [content : {"none", "empty", "whole"}, active : Files,
                  commitId : 0..MaxCommitId]
    BY <1>14, <2>1 DEF CompleteTransaction, Stored
  <2> QED
    BY <1>14, <2>2 DEF CompleteTransaction, Stored
<1>15. CASE CommitReturns(t)
  BY <1>15 DEF CommitReturns, Target
<1>16. CASE CommitFails(t)
  BY <1>16 DEF CommitFails
<1>17. CASE AbortUnheard(t)
  BY <1>17 DEF AbortUnheard
<1>18. CASE Ends(t)
  BY <1>18 DEF Ends
<1> QED
  BY <1>1, <1>2, <1>3, <1>4, <1>5, <1>6, <1>7, <1>8, <1>9,
     <1>10, <1>11, <1>12, <1>13, <1>14, <1>15, <1>16, <1>17, <1>18
  DEF Actions

(***************************************************************************)
(* Each driver goes through its own steps.                                 *)
(***************************************************************************)
LEMMA StepsOfDriverStep ==
  ASSUME IInv, NEW t \in Tabs, Actions(t)
  PROVE  StepsOfDriver'
<1> USE BoundsAssumption DEF IInv, TypeOK, StepsOfDriver
<1>1. CASE OpenBegins(t)
  BY <1>1 DEF OpenBegins
<1>2. CASE ReadMeta(t)
  BY <1>2 DEF ReadMeta
<1>3. CASE ReadData(t)
  BY <1>3 DEF ReadData
<1>4. CASE Connect(t)
  BY <1>4 DEF Connect
<1>5. CASE VersionError(t)
  BY <1>5 DEF VersionError
<1>6. CASE ReadRecord(t)
  BY <1>6 DEF ReadRecord
<1>7. CASE OpenFails(t)
  BY <1>7 DEF OpenFails, AfterFailure
<1>8. CASE Mutate(t)
  BY <1>8 DEF Mutate
<1>9. CASE CommitBegins(t)
  BY <1>9 DEF CommitBegins, CommitIdsLeft, Rivals
<1>10. CASE CreateData(t)
  BY <1>10 DEF CreateData, Target
<1>11. CASE StoreData(t)
  BY <1>11 DEF StoreData, Target
<1>12. CASE CreateMeta(t)
  BY <1>12 DEF CreateMeta, CreatedMeta
<1>13. CASE StoreMeta(t)
  BY <1>13 DEF StoreMeta, Stored, Target
<1>14. CASE CompleteTransaction(t)
  BY <1>14 DEF CompleteTransaction, Stored, Target
<1>15. CASE CommitReturns(t)
  BY <1>15 DEF CommitReturns, Target
<1>16. CASE CommitFails(t)
  BY <1>16 DEF CommitFails
<1>17. CASE AbortUnheard(t)
  BY <1>17 DEF AbortUnheard
<1>18. CASE Ends(t)
  BY <1>18 DEF Ends
<1> QED
  BY <1>1, <1>2, <1>3, <1>4, <1>5, <1>6, <1>7, <1>8, <1>9,
     <1>10, <1>11, <1>12, <1>13, <1>14, <1>15, <1>16, <1>17, <1>18
  DEF Actions

(***************************************************************************)
(* The counter grows when the commit has returned.                         *)
(***************************************************************************)
LEMMA CounterStep ==
  ASSUME IInv, NEW t \in Tabs, Actions(t)
  PROVE  CounterInReach'
<1> USE BoundsAssumption DEF IInv, TypeOK, CounterInReach
<1>1. CASE OpenBegins(t)
  BY <1>1 DEF OpenBegins
<1>2. CASE ReadMeta(t)
  BY <1>2 DEF ReadMeta
<1>3. CASE ReadData(t)
  BY <1>3 DEF ReadData
<1>4. CASE Connect(t)
  BY <1>4 DEF Connect
<1>5. CASE VersionError(t)
  BY <1>5 DEF VersionError
<1>6. CASE ReadRecord(t)
  BY <1>6 DEF ReadRecord
<1>7. CASE OpenFails(t)
  BY <1>7 DEF OpenFails, AfterFailure
<1>8. CASE Mutate(t)
  BY <1>8 DEF Mutate
<1>9. CASE CommitBegins(t)
  BY <1>9 DEF CommitBegins, CommitIdsLeft, Rivals
<1>10. CASE CreateData(t)
  BY <1>10 DEF CreateData, Target
<1>11. CASE StoreData(t)
  BY <1>11 DEF StoreData, Target
<1>12. CASE CreateMeta(t)
  BY <1>12 DEF CreateMeta, CreatedMeta
<1>13. CASE StoreMeta(t)
  BY <1>13 DEF StoreMeta, Stored, Target
<1>14. CASE CompleteTransaction(t)
  BY <1>14 DEF CompleteTransaction, Stored, Target
<1>15. CASE CommitReturns(t)
  BY <1>15 DEF CommitReturns, Target
<1>16. CASE CommitFails(t)
  BY <1>16 DEF CommitFails
<1>17. CASE AbortUnheard(t)
  BY <1>17 DEF AbortUnheard
<1>18. CASE Ends(t)
  BY <1>18 DEF Ends
<1> QED
  BY <1>1, <1>2, <1>3, <1>4, <1>5, <1>6, <1>7, <1>8, <1>9,
     <1>10, <1>11, <1>12, <1>13, <1>14, <1>15, <1>16, <1>17, <1>18
  DEF Actions

(***************************************************************************)
(* No step empties a file that was whole.                                  *)
(***************************************************************************)
LEMMA NamedFileStep ==
  ASSUME IInv, NEW t \in Tabs, Actions(t)
  PROVE  NamedFileIsWhole'
<1> USE BoundsAssumption DEF IInv, TypeOK, StepsOfDriver, NamedFileIsWhole, Target
<1>1. CASE OpenBegins(t)
  BY <1>1 DEF OpenBegins
<1>2. CASE ReadMeta(t)
  BY <1>2 DEF ReadMeta
<1>3. CASE ReadData(t)
  BY <1>3 DEF ReadData
<1>4. CASE Connect(t)
  BY <1>4 DEF Connect
<1>5. CASE VersionError(t)
  BY <1>5 DEF VersionError
<1>6. CASE ReadRecord(t)
  BY <1>6 DEF ReadRecord
<1>7. CASE OpenFails(t)
  BY <1>7 DEF OpenFails, AfterFailure
<1>8. CASE Mutate(t)
  BY <1>8 DEF Mutate
<1>9. CASE CommitBegins(t)
  BY <1>9 DEF CommitBegins, CommitIdsLeft, Rivals
<1>10. CASE CreateData(t)
  BY <1>10 DEF CreateData
<1>11. CASE StoreData(t)
  BY <1>11 DEF StoreData
<1>12. CASE CreateMeta(t)
  BY <1>12 DEF CreateMeta, CreatedMeta
<1>13. CASE StoreMeta(t)
  BY <1>13 DEF StoreMeta, Stored
<1>14. CASE CompleteTransaction(t)
  BY <1>14 DEF CompleteTransaction, Stored
<1>15. CASE CommitReturns(t)
  BY <1>15 DEF CommitReturns
<1>16. CASE CommitFails(t)
  BY <1>16 DEF CommitFails
<1>17. CASE AbortUnheard(t)
  BY <1>17 DEF AbortUnheard
<1>18. CASE Ends(t)
  BY <1>18 DEF Ends
<1> QED
  BY <1>1, <1>2, <1>3, <1>4, <1>5, <1>6, <1>7, <1>8, <1>9,
     <1>10, <1>11, <1>12, <1>13, <1>14, <1>15, <1>16, <1>17, <1>18
  DEF Actions

(***************************************************************************)
(* A commit that begins next to others marks itself and them.              *)
(***************************************************************************)
LEMMA OverlapStep ==
  ASSUME IInv, NEW t \in Tabs, Actions(t)
  PROVE  OverlapIsKnown'
<1> USE BoundsAssumption DEF IInv, TypeOK, OverlapIsKnown, Rivals
<1>1. CASE OpenBegins(t)
  BY <1>1 DEF OpenBegins
<1>2. CASE ReadMeta(t)
  BY <1>2 DEF ReadMeta
<1>3. CASE ReadData(t)
  BY <1>3 DEF ReadData
<1>4. CASE Connect(t)
  BY <1>4 DEF Connect
<1>5. CASE VersionError(t)
  BY <1>5 DEF VersionError
<1>6. CASE ReadRecord(t)
  BY <1>6 DEF ReadRecord
<1>7. CASE OpenFails(t)
  BY <1>7 DEF OpenFails, AfterFailure
<1>8. CASE Mutate(t)
  BY <1>8 DEF Mutate
<1>9. CASE CommitBegins(t)
  BY <1>9 DEF CommitBegins, CommitIdsLeft
<1>10. CASE CreateData(t)
  BY <1>10 DEF CreateData, Target
<1>11. CASE StoreData(t)
  BY <1>11 DEF StoreData, Target
<1>12. CASE CreateMeta(t)
  BY <1>12 DEF CreateMeta, CreatedMeta
<1>13. CASE StoreMeta(t)
  BY <1>13 DEF StoreMeta, Stored, Target
<1>14. CASE CompleteTransaction(t)
  BY <1>14 DEF CompleteTransaction, Stored, Target
<1>15. CASE CommitReturns(t)
  BY <1>15 DEF CommitReturns, Target
<1>16. CASE CommitFails(t)
  BY <1>16 DEF CommitFails
<1>17. CASE AbortUnheard(t)
  BY <1>17 DEF AbortUnheard
<1>18. CASE Ends(t)
  BY <1>18 DEF Ends
<1> QED
  BY <1>1, <1>2, <1>3, <1>4, <1>5, <1>6, <1>7, <1>8, <1>9,
     <1>10, <1>11, <1>12, <1>13, <1>14, <1>15, <1>16, <1>17, <1>18
  DEF Actions

(***************************************************************************)
(* Only a committing tab could disturb another's commit, and then the two  *)
(* overlap.                                                                *)
(***************************************************************************)
LEMMA AloneStep ==
  ASSUME IInv, NEW t \in Tabs, Actions(t)
  PROVE  AloneUndisturbed'
<1> USE BoundsAssumption DEF IInv, TypeOK, StepsOfDriver, NamedFileIsWhole, OverlapIsKnown,
            AloneUndisturbed, Loads, Target
<1>1. CASE OpenBegins(t)
  BY <1>1 DEF OpenBegins
<1>2. CASE ReadMeta(t)
  BY <1>2 DEF ReadMeta
<1>3. CASE ReadData(t)
  BY <1>3 DEF ReadData
<1>4. CASE Connect(t)
  BY <1>4 DEF Connect
<1>5. CASE VersionError(t)
  BY <1>5 DEF VersionError
<1>6. CASE ReadRecord(t)
  BY <1>6 DEF ReadRecord
<1>7. CASE OpenFails(t)
  BY <1>7 DEF OpenFails, AfterFailure
<1>8. CASE Mutate(t)
  BY <1>8 DEF Mutate
<1>9. CASE CommitBegins(t)
  BY <1>9 DEF CommitBegins, CommitIdsLeft, Rivals
<1>10. CASE CreateData(t)
  BY <1>10 DEF CreateData
<1>11. CASE StoreData(t)
  BY <1>11 DEF StoreData
<1>12. CASE CreateMeta(t)
  BY <1>12 DEF CreateMeta, CreatedMeta
<1>13. CASE StoreMeta(t)
  BY <1>13 DEF StoreMeta, Stored
<1>14. CASE CompleteTransaction(t)
  BY <1>14 DEF CompleteTransaction, Stored
<1>15. CASE CommitReturns(t)
  BY <1>15 DEF CommitReturns
<1>16. CASE CommitFails(t)
  BY <1>16 DEF CommitFails
<1>17. CASE AbortUnheard(t)
  BY <1>17 DEF AbortUnheard
<1>18. CASE Ends(t)
  BY <1>18 DEF Ends
<1> QED
  BY <1>1, <1>2, <1>3, <1>4, <1>5, <1>6, <1>7, <1>8, <1>9,
     <1>10, <1>11, <1>12, <1>13, <1>14, <1>15, <1>16, <1>17, <1>18
  DEF Actions

(***************************************************************************)
(* While settled, what a reopening finds changes only to what a commit that *)
(* ran alone has stored.                                                   *)
(***************************************************************************)
LEMMA LastWriterStep ==
  ASSUME IInv, NEW t \in Tabs, Actions(t)
  PROVE  LastWriterWins'
<1> USE BoundsAssumption DEF IInv, TypeOK, StepsOfDriver, NamedFileIsWhole, AloneUndisturbed,
            LastWriterWins, Loads, Target
<1>1. CASE OpenBegins(t)
  BY <1>1 DEF OpenBegins
<1>2. CASE ReadMeta(t)
  BY <1>2 DEF ReadMeta
<1>3. CASE ReadData(t)
  BY <1>3 DEF ReadData
<1>4. CASE Connect(t)
  BY <1>4 DEF Connect
<1>5. CASE VersionError(t)
  BY <1>5 DEF VersionError
<1>6. CASE ReadRecord(t)
  BY <1>6 DEF ReadRecord
<1>7. CASE OpenFails(t)
  BY <1>7 DEF OpenFails, AfterFailure
<1>8. CASE Mutate(t)
  BY <1>8 DEF Mutate
<1>9. CASE CommitBegins(t)
  BY <1>9 DEF CommitBegins, CommitIdsLeft, Rivals
<1>10. CASE CreateData(t)
  BY <1>10 DEF CreateData
<1>11. CASE StoreData(t)
  BY <1>11 DEF StoreData
<1>12. CASE CreateMeta(t)
  BY <1>12 DEF CreateMeta, CreatedMeta
<1>13. CASE StoreMeta(t)
  BY <1>13 DEF StoreMeta, Stored
<1>14. CASE CompleteTransaction(t)
  BY <1>14 DEF CompleteTransaction, Stored
<1>15. CASE CommitReturns(t)
  BY <1>15 DEF CommitReturns
<1>16. CASE CommitFails(t)
  BY <1>16 DEF CommitFails
<1>17. CASE AbortUnheard(t)
  BY <1>17 DEF AbortUnheard
<1>18. CASE Ends(t)
  BY <1>18 DEF Ends
<1> QED
  BY <1>1, <1>2, <1>3, <1>4, <1>5, <1>6, <1>7, <1>8, <1>9,
     <1>10, <1>11, <1>12, <1>13, <1>14, <1>15, <1>16, <1>17, <1>18
  DEF Actions

(***************************************************************************)
(* The only open tab is up to date.                                        *)
(***************************************************************************)
LEMMA OneTabStep ==
  ASSUME IInv, NEW t \in Tabs, Actions(t)
  PROVE  OneTab'
<1> USE BoundsAssumption DEF IInv, TypeOK, StepsOfDriver, NamedFileIsWhole, AloneUndisturbed,
            OneTab, Loads, Target
<1>1. CASE OpenBegins(t)
  BY <1>1 DEF OpenBegins
<1>2. CASE ReadMeta(t)
  BY <1>2 DEF ReadMeta
<1>3. CASE ReadData(t)
  BY <1>3 DEF ReadData
<1>4. CASE Connect(t)
  BY <1>4 DEF Connect
<1>5. CASE VersionError(t)
  BY <1>5 DEF VersionError
<1>6. CASE ReadRecord(t)
  BY <1>6 DEF ReadRecord
<1>7. CASE OpenFails(t)
  BY <1>7 DEF OpenFails, AfterFailure
<1>8. CASE Mutate(t)
  BY <1>8 DEF Mutate
<1>9. CASE CommitBegins(t)
  BY <1>9 DEF CommitBegins, CommitIdsLeft, Rivals
<1>10. CASE CreateData(t)
  BY <1>10 DEF CreateData
<1>11. CASE StoreData(t)
  BY <1>11 DEF StoreData
<1>12. CASE CreateMeta(t)
  BY <1>12 DEF CreateMeta, CreatedMeta
<1>13. CASE StoreMeta(t)
  BY <1>13 DEF StoreMeta, Stored
<1>14. CASE CompleteTransaction(t)
  BY <1>14 DEF CompleteTransaction, Stored
<1>15. CASE CommitReturns(t)
  BY <1>15 DEF CommitReturns
<1>16. CASE CommitFails(t)
  BY <1>16 DEF CommitFails
<1>17. CASE AbortUnheard(t)
  BY <1>17 DEF AbortUnheard
<1>18. CASE Ends(t)
  BY <1>18 DEF Ends
<1> QED
  BY <1>1, <1>2, <1>3, <1>4, <1>5, <1>6, <1>7, <1>8, <1>9,
     <1>10, <1>11, <1>12, <1>13, <1>14, <1>15, <1>16, <1>17, <1>18
  DEF Actions
-----------------------------------------------------------------------------
LEMMA Initial == Init => IInv
<1> SUFFICES ASSUME Init PROVE IInv
  OBVIOUS
<1> USE BoundsAssumption DEF Init, Loads, Target
<1>1. TypeOK
  <2>1. meta \in [content : {"none", "empty", "whole"}, active : Files, commitId : 0..MaxCommitId]
    OBVIOUS
  <2>2. created \in BOOLEAN /\ settled \in BOOLEAN /\ exclusive \in BOOLEAN
    BY Zenon
  <2> QED
    BY <2>1, <2>2 DEF TypeOK
<1>2. StepsOfDriver /\ CounterInReach /\ NamedFileIsWhole /\ OverlapIsKnown
  BY DEF StepsOfDriver, CounterInReach, NamedFileIsWhole, OverlapIsKnown
<1>3. AloneUndisturbed /\ LastWriterWins /\ OneTab
  BY DEF AloneUndisturbed, LastWriterWins, OneTab
<1> QED
  BY <1>1, <1>2, <1>3 DEF IInv

LEMMA Stutter == IInv /\ UNCHANGED vars => IInv'
BY DEF vars, IInv, TypeOK, StepsOfDriver, CounterInReach, NamedFileIsWhole, OverlapIsKnown,
       AloneUndisturbed, LastWriterWins, OneTab, Loads, Target

LEMMA SomeTabSteps == Next => \E t \in Tabs : Actions(t)
BY DEF Next, OpenSteps, CommitSteps, Actions

LEMMA Inductive == IInv /\ [Next]_vars => IInv'
<1>1. ASSUME IInv, NEW t \in Tabs, Actions(t) PROVE IInv'
  BY <1>1, TypeStep, StepsOfDriverStep, CounterStep, NamedFileStep, OverlapStep, AloneStep,
     LastWriterStep, OneTabStep
  DEF IInv
<1> QED
  BY <1>1, SomeTabSteps, Stutter

THEOREM Invariant == Spec => []IInv
BY Initial, Inductive, PTL DEF Spec

(***************************************************************************)
(* The variables keep their types; the counters stay within their limits.  *)
(***************************************************************************)
THEOREM TypeCorrect == Spec => []TypeOK
<1>1. IInv => TypeOK
  BY DEF IInv
<1> QED
  BY <1>1, Invariant, PTL

(***************************************************************************)
(* Once a commit has been stored the database opens with a whole snapshot, *)
(* whatever any number of tabs do to it.                                   *)
(***************************************************************************)
THEOREM AlwaysOpens == Spec => []OpensOnceCommitted
<1>1. IInv => OpensOnceCommitted
  BY DEF IInv, NamedFileIsWhole, OpensOnceCommitted, Loads
<1> QED
  BY <1>1, Invariant, PTL

(***************************************************************************)
(* After a commit that overlapped no other, a reopening finds what it has  *)
(* stored, until something else is stored.                                 *)
(***************************************************************************)
THEOREM LastWriterIsFound == Spec => []LastWriterWins
<1>1. IInv => LastWriterWins
  BY DEF IInv
<1> QED
  BY <1>1, Invariant, PTL
-----------------------------------------------------------------------------
(***************************************************************************)
(* What a reopening finds, as the durable store sees it, changes when a    *)
(* commit stores its metadata, and is acknowledged when the commit         *)
(* returns.                                                                *)
(***************************************************************************)
Outcomes == IF exclusive /\ created THEN {Loads} ELSE {0}
Promised == IF exclusive THEN acked ELSE 0

LEMMA StoringAttempts ==
  ASSUME IInv, NEW t \in Tabs, StoreMeta(t) \/ CompleteTransaction(t)
  PROVE  /\ UNCHANGED Promised
         /\ Outcomes' = Outcomes \/ (exclusive /\ Outcomes' = {snapshot[t]})
         /\ exclusive => snapshot[t] >= Promised
<1> USE DEF IInv, TypeOK, Outcomes, Promised, Loads, OneTab, StepsOfDriver, AloneUndisturbed, Target
<1>1. CASE StoreMeta(t)
  BY <1>1 DEF StoreMeta, Stored
<1>2. CASE CompleteTransaction(t)
  BY <1>2 DEF CompleteTransaction, Stored
<1> QED
  BY <1>1, <1>2

LEMMA ReturningAcknowledges ==
  ASSUME IInv, NEW t \in Tabs, CommitReturns(t)
  PROVE  \/ UNCHANGED <<Outcomes, Promised>>
         \/ Outcomes' = {snapshot[t]} /\ Promised' = snapshot[t] /\ snapshot[t] >= Promised
BY DEF IInv, TypeOK, Outcomes, Promised, Loads, OneTab, AloneUndisturbed, NamedFileIsWhole,
       CommitReturns, Target

LEMMA OthersChangeNothing ==
  ASSUME IInv, NEW t \in Tabs, Actions(t),
         ~StoreMeta(t), ~CompleteTransaction(t), ~CommitReturns(t)
  PROVE  UNCHANGED <<Outcomes, Promised>>
<1> USE DEF IInv, TypeOK, Outcomes, Promised, Loads, OneTab, StepsOfDriver, NamedFileIsWhole, Target
<1>1. CASE OpenBegins(t)
  BY <1>1 DEF OpenBegins
<1>2. CASE ReadMeta(t)
  BY <1>2 DEF ReadMeta
<1>3. CASE ReadData(t)
  BY <1>3 DEF ReadData
<1>4. CASE Connect(t)
  BY <1>4 DEF Connect
<1>5. CASE VersionError(t)
  BY <1>5 DEF VersionError
<1>6. CASE ReadRecord(t)
  BY <1>6 DEF ReadRecord
<1>7. CASE OpenFails(t)
  BY <1>7 DEF OpenFails, AfterFailure
<1>8. CASE Mutate(t)
  BY <1>8 DEF Mutate
<1>9. CASE CommitBegins(t)
  BY <1>9 DEF CommitBegins
<1>10. CASE CreateData(t)
  BY <1>10 DEF CreateData
<1>11. CASE StoreData(t)
  BY <1>11 DEF StoreData
<1>12. CASE CreateMeta(t)
  BY <1>12 DEF CreateMeta, CreatedMeta
<1>13. CASE CommitFails(t)
  BY <1>13 DEF CommitFails
<1>14. CASE AbortUnheard(t)
  BY <1>14 DEF AbortUnheard
<1>15. CASE Ends(t)
  BY <1>15 DEF Ends
<1> QED
  BY <1>1, <1>2, <1>3, <1>4, <1>5, <1>6, <1>7, <1>8, <1>9, <1>10, <1>11, <1>12, <1>13,
     <1>14, <1>15
  DEF Actions

(***************************************************************************)
(* Used from one tab at a time, OPFS and IndexedDB implement the durable   *)
(* store.                                                                  *)
(***************************************************************************)
THEOREM TabsAreDurableStore == Spec => ImplementsDurableStore
<1>1. Init => Store!Init
  BY DEF Init, Store!Init, Loads
<1>2. IInv /\ [Next]_vars => [Store!Next]_(Store!storeVars)
  <2> SUFFICES ASSUME IInv, [Next]_vars
               PROVE  \/ UNCHANGED <<Outcomes, Promised>>
                      \/ \E v \in 0..MaxVersion :
                           \/ /\ v >= Promised
                              /\ Outcomes' # {}
                              /\ Outcomes' \subseteq Outcomes \union {v}
                              /\ UNCHANGED Promised
                           \/ /\ v >= Promised
                              /\ Outcomes' = {v}
                              /\ Promised' = v
    BY DEF Store!Next, Store!Attempt, Store!Acknowledge, Store!storeVars, Outcomes, Promised
  <2>1. CASE UNCHANGED vars
    BY <2>1 DEF vars, Outcomes, Promised, Loads
  <2>2. ASSUME NEW t \in Tabs, Actions(t)
        PROVE  \/ UNCHANGED <<Outcomes, Promised>>
               \/ \E v \in 0..MaxVersion :
                    \/ /\ v >= Promised
                       /\ Outcomes' # {}
                       /\ Outcomes' \subseteq Outcomes \union {v}
                       /\ UNCHANGED Promised
                    \/ /\ v >= Promised
                       /\ Outcomes' = {v}
                       /\ Promised' = v
    <3>1. snapshot[t] \in 0..MaxVersion
      BY BoundsAssumption DEF IInv, TypeOK
    <3>2. CASE StoreMeta(t) \/ CompleteTransaction(t)
      BY <3>1, <3>2, StoringAttempts
    <3>3. CASE CommitReturns(t)
      BY <3>1, <3>3, ReturningAcknowledges
    <3>4. CASE ~StoreMeta(t) /\ ~CompleteTransaction(t) /\ ~CommitReturns(t)
      BY <2>2, <3>4, OthersChangeNothing
    <3> QED
      BY <3>2, <3>3, <3>4
  <2> QED
    BY <2>1, <2>2, SomeTabSteps
<1> QED
  BY <1>1, <1>2, Invariant, PTL DEF Spec, ImplementsDurableStore, Store!Spec

(***************************************************************************)
(* Used from one tab at a time, a reopening at any step of a commit finds  *)
(* a whole snapshot, none older than the acknowledged one: the durable     *)
(* store promises it, and the drivers implement the durable store.         *)
(***************************************************************************)
THEOREM AcknowledgedStays == Spec => []Store!AcknowledgedSurvives
<1>1. Store!Init => Store!AcknowledgedSurvives
  BY DEF Store!Init, Store!AcknowledgedSurvives
<1>2. ASSUME Store!AcknowledgedSurvives, [Store!Next]_(Store!storeVars)
      PROVE  Store!AcknowledgedSurvives'
  <2>1. CASE UNCHANGED Store!storeVars
    BY <1>2, <2>1 DEF Store!storeVars, Store!AcknowledgedSurvives
  <2>2. ASSUME NEW v \in 0..MaxVersion, Store!Attempt(v)
        PROVE  Store!AcknowledgedSurvives'
    BY <1>2, <2>2 DEF Store!Attempt, Store!AcknowledgedSurvives
  <2>3. ASSUME NEW v \in 0..MaxVersion, Store!Acknowledge(v)
        PROVE  Store!AcknowledgedSurvives'
    BY <2>3, BoundsAssumption DEF Store!Acknowledge, Store!AcknowledgedSurvives
  <2> QED
    BY <1>2, <2>1, <2>2, <2>3 DEF Store!Next
<1> QED
  BY <1>1, <1>2, TabsAreDurableStore, PTL DEF ImplementsDurableStore, Store!Spec
=============================================================================
