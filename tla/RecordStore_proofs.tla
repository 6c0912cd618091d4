-------------------------- MODULE RecordStore_proofs --------------------------
(***************************************************************************)
(* Proofs about RecordStore: the type invariant, the size accounted for,   *)
(* atomic batches, and the two properties of turnover.                     *)
(*                                                                         *)
(* What the model computes by folds over sequences is reached by ordinary  *)
(* induction, with the induction rule stated about sets of numbers and of  *)
(* sequences: a predicate is the set of the values that satisfy it.        *)
(***************************************************************************)
EXTENDS RecordStore, SequenceTheorems, WellFoundedInduction, TLAPS

-----------------------------------------------------------------------------
(* Induction. *)

\* A nonempty set of numbers has a least element.
LEMMA LeastElement ==
  ASSUME NEW T \in SUBSET Nat, T # {}
  PROVE  \E x \in T : \A y \in T : x <= y
<1> DEFINE less == {ss \in Nat \X Nat : ss[1] < ss[2]}
<1>1. IsWellFoundedOn(less, Nat)  BY NatLessThanWellFounded DEF OpToRel
<1>2. PICK x \in T : \A y \in T : <<y, x>> \notin less
  <2> HIDE DEF less
  <2> QED  BY <1>1, WFMin
<1>3. \A y \in T : ~(y < x)  BY <1>2
<1> QED  BY <1>3

\* Induction over the numbers: the predicate is membership in S.
LEMMA NatSetInduction ==
  ASSUME NEW S, 0 \in S, \A n \in Nat : n \in S => n + 1 \in S
  PROVE  Nat \subseteq S
<1> DEFINE T == Nat \ S
<1>1. SUFFICES ASSUME T # {} PROVE FALSE  OBVIOUS
<1>2. PICK x \in T : \A y \in T : x <= y
  <2>1. T \in SUBSET Nat  OBVIOUS
  <2> HIDE DEF T
  <2> QED  BY <1>1, <2>1, LeastElement
<1>3. x # 0 /\ x - 1 \in Nat  OBVIOUS
<1>4. x - 1 \in S  BY <1>2, <1>3
<1> QED  BY <1>3, <1>4

\* The same up to a bound.
LEMMA BoundedInduction ==
  ASSUME NEW m \in Nat, NEW S, 0 \in S,
         \A n \in 0..(m - 1) : n \in S => n + 1 \in S
  PROVE  0..m \subseteq S
<1> DEFINE T == {n \in Nat : n <= m => n \in S}
<1>1. 0 \in T  OBVIOUS
<1>2. \A n \in Nat : n \in T => n + 1 \in T  OBVIOUS
<1>3. Nat \subseteq T
  <2> HIDE DEF T
  <2> QED  BY <1>1, <1>2, NatSetInduction
<1> QED  BY <1>3

\* Induction over the finite sequences of elements of A, by appending.
LEMMA SequenceInduction ==
  ASSUME NEW A, NEW S, <<>> \in S,
         \A t \in Seq(A), a \in A : t \in S => Append(t, a) \in S
  PROVE  Seq(A) \subseteq S
<1> DEFINE T == {n \in Nat : \A t \in Seq(A) : Len(t) = n => t \in S}
<1>1. 0 \in T
  <2>1. \A t \in Seq(A) : Len(t) = 0 => t = <<>>  OBVIOUS
  <2> QED  BY <2>1
<1>2. \A n \in Nat : n \in T => n + 1 \in T
  <2> SUFFICES ASSUME NEW n \in T, NEW t \in Seq(A), Len(t) = n + 1
               PROVE  t \in S
    OBVIOUS
  <2> DEFINE f == SubSeq(t, 1, n)
  <2>1. f \in Seq(A) /\ Len(f) = n  OBVIOUS
  <2>2. t[n + 1] \in A  OBVIOUS
  <2>3. t = Append(f, t[n + 1])  OBVIOUS
  <2>4. f \in S  BY <2>1
  <2> HIDE DEF f
  <2> QED  BY <2>1, <2>2, <2>3, <2>4
<1>3. Nat \subseteq T
  <2> HIDE DEF T
  <2> QED  BY <1>1, <1>2, NatSetInduction
<1> QED  BY <1>3

-----------------------------------------------------------------------------
(* Folds. *)

\* Max and Min of a nonempty set of positions
LEMMA MaxOfPositions ==
  ASSUME NEW m \in Nat, NEW s \in SUBSET (1..m), s # {}
  PROVE  Max(s) \in s /\ \A y \in s : y <= Max(s)
<1> DEFINE T == {x \in Nat : m - x \in s}
<1>1. T # {}
  <2>1. PICK y \in s : TRUE  OBVIOUS
  <2>2. m - y \in Nat /\ m - (m - y) = y  BY <2>1
  <2> QED  BY <2>1, <2>2
<1>2. PICK x \in T : \A y \in T : x <= y
  <2>1. T \in SUBSET Nat  OBVIOUS
  <2> HIDE DEF T
  <2> QED  BY <1>1, <2>1, LeastElement
<1>3. \A y \in s : y <= m - x
  <2> SUFFICES ASSUME NEW y \in s PROVE y <= m - x  OBVIOUS
  <2>1. m - y \in Nat /\ m - (m - y) = y  OBVIOUS
  <2>2. m - y \in T  BY <2>1
  <2> QED  BY <1>2, <2>2
<1>4. m - x \in s  BY <1>2
<1>5. \E z \in s : \A y \in s : z >= y  BY <1>3, <1>4
<1>6. Max(s) \in s /\ \A y \in s : Max(s) >= y  BY <1>5 DEF Max
<1> QED  BY <1>6

LEMMA MinOfPositions ==
  ASSUME NEW m \in Nat, NEW s \in SUBSET (1..m), s # {}
  PROVE  Min(s) \in s /\ \A y \in s : Min(s) <= y
<1>1. s \in SUBSET Nat  OBVIOUS
<1>2. \E z \in s : \A y \in s : z <= y  BY <1>1, LeastElement
<1> QED  BY <1>2 DEF Min

LEMMA MaxIs ==
  ASSUME NEW m \in Nat, NEW s \in SUBSET (1..m), NEW x \in s, \A y \in s : y <= x
  PROVE  Max(s) = x
<1>1. Max(s) \in s /\ \A y \in s : y <= Max(s)  BY MaxOfPositions
<1>2. x <= Max(s) /\ Max(s) <= x  BY <1>1
<1>3. \A y \in s : y \in Int  OBVIOUS
<1>4. x \in Int /\ Max(s) \in Int
  <2> HIDE DEF Max
  <2> QED  BY <1>1, <1>3
<1> QED  BY <1>2, <1>4

\* The recursion a left fold is defined by, its steps given as functions
Solves(g, m, A, base, st) ==
  /\ g \in [SUBSET (1..m) -> A]
  /\ \A s \in SUBSET (1..m) :
       g[s] = IF s = {} THEN base ELSE st[Max(s)][g[s \ {Max(s)}]]

\* It has a solution, whatever the steps.
LEMMA RecursionHasSolution ==
  ASSUME NEW m \in Nat, NEW A, NEW base \in A, NEW st \in [1..m -> [A -> A]]
  PROVE  \E g : Solves(g, m, A, base, st)
<1> DEFINE S == {n \in Nat : \E g : Solves(g, n, A, base, st)}
<1>1. 0 \in S
  <2> DEFINE g == [s \in SUBSET (1..0) |-> base]
  <2>1. \A s \in SUBSET (1..0) : s = {}  OBVIOUS
  <2>2. Solves(g, 0, A, base, st)  BY <2>1 DEF Solves
  <2> HIDE DEF g
  <2> QED  BY <2>2
<1>2. ASSUME NEW n \in 0..(m - 1), n \in S  PROVE n + 1 \in S
  <2>1. PICK g : Solves(g, n, A, base, st)  BY <1>2
  <2> DEFINE q == [s \in SUBSET (1..(n + 1)) |->
                     IF n + 1 \in s THEN st[n + 1][g[s \ {n + 1}]] ELSE g[s]]
  <2>2. \A s \in SUBSET (1..(n + 1)) :
          /\ s \ {n + 1} \in SUBSET (1..n)
          /\ n + 1 \notin s => s \in SUBSET (1..n)
    OBVIOUS
  <2>3. q \in [SUBSET (1..(n + 1)) -> A]
    <3> SUFFICES ASSUME NEW s \in SUBSET (1..(n + 1))
                 PROVE  (IF n + 1 \in s THEN st[n + 1][g[s \ {n + 1}]] ELSE g[s]) \in A
      OBVIOUS
    <3>1. CASE n + 1 \in s  BY <2>1, <2>2, <3>1 DEF Solves
    <3>2. CASE n + 1 \notin s  BY <2>1, <2>2, <3>2 DEF Solves
    <3> QED  BY <3>1, <3>2
  <2>4. ASSUME NEW s \in SUBSET (1..(n + 1))
        PROVE  q[s] = IF s = {} THEN base ELSE st[Max(s)][q[s \ {Max(s)}]]
    <3>1. CASE s = {}
      <4>1. s \in SUBSET (1..n)  BY <3>1
      <4> HIDE DEF Max
      <4> QED  BY <2>1, <3>1, <4>1 DEF Solves
    <3>2. CASE n + 1 \in s
      <4>1. Max(s) = n + 1
        <5>1. n + 1 \in Nat /\ \A y \in s : y <= n + 1  OBVIOUS
        <5> HIDE DEF Max
        <5> QED  BY <3>2, <5>1, MaxIs
      <4>2. q[s \ {n + 1}] = g[s \ {n + 1}]  BY <2>2
      <4> HIDE DEF Max
      <4> QED  BY <3>2, <4>1, <4>2
    <3>3. CASE n + 1 \notin s /\ s # {}
      <4>1. s \in SUBSET (1..n)  BY <2>2, <3>3
      <4>2. n \in Nat  OBVIOUS
      <4>5. Max(s) \in s  BY <4>1, <4>2, <3>3, MaxOfPositions
      <4>3. s \ {Max(s)} \in SUBSET (1..n)  BY <4>1
      <4>4. q[s] = g[s] /\ q[s \ {Max(s)}] = g[s \ {Max(s)}]
        <5>1. n + 1 \notin s \ {Max(s)}  BY <3>3
        <5>2. s \ {Max(s)} \in SUBSET (1..(n + 1))  OBVIOUS
        <5> HIDE DEF Max
        <5> QED  BY <3>3, <5>1, <5>2
      <4> HIDE DEF Max, q
      <4> QED  BY <2>1, <3>3, <4>1, <4>4 DEF Solves
    <3> QED  BY <3>1, <3>2, <3>3
  <2>5. Solves(q, n + 1, A, base, st)
    <3> HIDE DEF q, Max
    <3> QED  BY <2>3, <2>4 DEF Solves
  <2> HIDE DEF q
  <2> QED  BY <2>5
<1>3. 0..m \subseteq S
  <2> HIDE DEF S
  <2> QED  BY <1>1, <1>2, BoundedInduction
<1>4. m \in S
  <2> HIDE DEF S
  <2> QED  BY <1>3
<1> QED  BY <1>4

\* What a solution computes for the first i positions
LEMMA SolutionOfPrefix ==
  ASSUME NEW m \in Nat, NEW i \in 1..m
  PROVE  /\ Max(1..i) = i
         /\ (1..i) \ {Max(1..i)} = 1..(i - 1)
         /\ 1..i # {} /\ 1..i \in SUBSET (1..m)
<1>1. i \in 1..i /\ \A y \in 1..i : y <= i  OBVIOUS
<1>2. Max(1..i) = i
  <2> HIDE DEF Max
  <2> QED  BY <1>1, MaxIs
<1>3. (1..i) \ {i} = 1..(i - 1)  OBVIOUS
<1> HIDE DEF Max
<1> QED  BY <1>1, <1>2, <1>3

\* Two chains that take the same steps end in the same value.
LEMMA ChainUnique ==
  ASSUME NEW m \in Nat, NEW r, NEW q, r[0] = q[0],
         \A i \in 1..m : r[i - 1] = q[i - 1] => r[i] = q[i]
  PROVE  r[m] = q[m]
<1> DEFINE S == {i \in Nat : r[i] = q[i]}
<1>1. \A n \in 0..(m - 1) : n \in S => n + 1 \in S
  <2> SUFFICES ASSUME NEW n \in 0..(m - 1), r[n] = q[n]  PROVE r[n + 1] = q[n + 1]
    OBVIOUS
  <2>1. n + 1 \in 1..m /\ (n + 1) - 1 = n  OBVIOUS
  <2> QED  BY <2>1
<1>2. 0 \in S  OBVIOUS
<1>3. 0..m \subseteq S
  <2> HIDE DEF S
  <2> QED  BY <1>1, <1>2, BoundedInduction
<1>4. m \in S
  <2> HIDE DEF S
  <2> QED  BY <1>3
<1> QED  BY <1>4

-----------------------------------------------------------------------------
(* The operations of the index. *)

LEMMA RecordSize ==
  ASSUME NEW e \in Record
  PROVE  /\ e.size \in Sizes /\ e.size \in Nat /\ e.size > 0
         /\ e.key \in Keys /\ e.key \in Int
<1>1. e.size \in Sizes /\ e.key \in Keys  BY DEF Record
<1>2. e.size \in Nat \ {0}  BY <1>1, SizesAssumption
<1>3. e.key \in Int  BY <1>1, KeysAssumption
<1> QED  BY <1>1, <1>2, <1>3

LEMMA FindFirstIs ==
  ASSUME NEW es \in Seq(Record), NEW k
  PROVE  /\ FindFirst(es, k) \in 0..Len(es)
         /\ HasKey(es, k) => es[FindFirst(es, k)].key = k
         /\ ~HasKey(es, k) => \A i \in 1..Len(es) : es[i].key # k
<1> DEFINE I == {i \in 1..Len(es) : es[i].key = k}
<1>1. FindFirst(es, k) = IF I # {} THEN Min(I) ELSE 0
  BY DEF FindFirst, SelectInSeq
<1>2. I \in SUBSET (1..Len(es)) /\ Len(es) \in Nat  OBVIOUS
<1>3. I # {} => Min(I) \in I
  <2> HIDE DEF I, Min
  <2> QED  BY <1>2, MinOfPositions
<1> HIDE DEF Min
<1>4. CASE I # {}
  <2>1. FindFirst(es, k) \in I  BY <1>1, <1>3, <1>4
  <2> QED  BY <2>1 DEF HasKey
<1>5. CASE I = {}
  <2>1. FindFirst(es, k) = 0  BY <1>1, <1>5
  <2> QED  BY <1>5, <2>1 DEF HasKey
<1> QED  BY <1>4, <1>5

\* Where a record goes, and what it does to the sequence
GoesAt(es, e, p) ==
  /\ p \in 0..Len(es)
  /\ p > 0 => es[p].key <= e.key
  /\ \A i \in 1..Len(es) : i > p => es[i].key > e.key

LEMMA BehindIs ==
  ASSUME NEW es \in Seq(Record), NEW e \in Record
  PROVE  \E p : /\ GoesAt(es, e, p)
                /\ Behind(es, e) = SubSeq(es, 1, p) \o <<e>> \o SubSeq(es, p + 1, Len(es))
<1> DEFINE I == {i \in 1..Len(es) : es[i].key <= e.key}
           p == IF I # {} THEN Max(I) ELSE 0
<1>1. Behind(es, e) = SubSeq(es, 1, (p + 1) - 1) \o <<e>> \o SubSeq(es, p + 1, Len(es))
  BY DEF Behind, SelectLastInSeq, InsertAt
<1>2. I \in SUBSET (1..Len(es)) /\ Len(es) \in Nat  OBVIOUS
<1>3. I # {} => Max(I) \in I /\ \A y \in I : y <= Max(I)
  <2> HIDE DEF I, Max
  <2> QED  BY <1>2, MaxOfPositions
<1>4. \A i \in 1..Len(es) : es[i].key \in Int
  <2> SUFFICES ASSUME NEW i \in 1..Len(es)  PROVE es[i].key \in Int  OBVIOUS
  <2>1. es[i] \in Record  OBVIOUS
  <2> QED  BY <2>1, RecordSize
<1>5. e.key \in Int  BY RecordSize
<1>6. GoesAt(es, e, p)
  <2> HIDE DEF Max
  <2>1. CASE I # {}
    <3>1. p \in I /\ \A y \in I : y <= p  BY <1>3, <2>1
    <3> HIDE DEF p
    <3>2. \A i \in 1..Len(es) : i > p => ~(es[i].key <= e.key)  BY <3>1
    <3> QED  BY <1>4, <1>5, <3>1, <3>2 DEF GoesAt
  <2>2. CASE I = {}
    <3>1. p = 0 /\ \A i \in 1..Len(es) : ~(es[i].key <= e.key)  BY <2>2
    <3> HIDE DEF p
    <3> QED  BY <1>2, <1>4, <1>5, <3>1 DEF GoesAt
  <2> QED  BY <2>1, <2>2
<1>7. (p + 1) - 1 = p
  <2> HIDE DEF p
  <2> QED  BY <1>6 DEF GoesAt
<1> HIDE DEF p
<1> QED  BY <1>1, <1>6, <1>7

\* The position is the only one.
LEMMA GoesAtUnique ==
  ASSUME NEW es \in Seq(Record), NEW e \in Record, NEW p, NEW q,
         GoesAt(es, e, p), GoesAt(es, e, q)
  PROVE  p = q
<1>1. \A i \in 1..Len(es) : es[i].key \in Int
  <2> SUFFICES ASSUME NEW i \in 1..Len(es)  PROVE es[i].key \in Int  OBVIOUS
  <2>1. es[i] \in Record  OBVIOUS
  <2> QED  BY <2>1, RecordSize
<1>2. e.key \in Int  BY RecordSize
<1>3. p \in 0..Len(es) /\ q \in 0..Len(es)  BY DEF GoesAt
<1>4. ~(p < q)
  <2> SUFFICES ASSUME p < q PROVE FALSE  OBVIOUS
  <2>1. q \in 1..Len(es)  BY <1>3
  <2>2. es[q].key <= e.key /\ es[q].key > e.key  BY <2>1, <1>3 DEF GoesAt
  <2> QED  BY <1>1, <1>2, <2>1, <2>2
<1>5. ~(q < p)
  <2> SUFFICES ASSUME q < p PROVE FALSE  OBVIOUS
  <2>1. p \in 1..Len(es)  BY <1>3
  <2>2. es[p].key <= e.key /\ es[p].key > e.key  BY <2>1, <1>3 DEF GoesAt
  <2> QED  BY <1>1, <1>2, <2>1, <2>2
<1> QED  BY <1>3, <1>4, <1>5

\* A part of a sequence, from position m to position n
LEMMA PartOf ==
  ASSUME NEW R, NEW es \in Seq(R), NEW m \in 1..(Len(es) + 1), NEW n \in (m - 1)..Len(es)
  PROVE  /\ SubSeq(es, m, n) \in Seq(R)
         /\ Len(SubSeq(es, m, n)) = n - m + 1
         /\ \A i \in 1..(n - m + 1) : SubSeq(es, m, n)[i] = es[m + i - 1]
<1>1. m \in Int /\ n \in Int /\ \A i \in m..n : es[i] \in R  OBVIOUS
<1>2. /\ SubSeq(es, m, n) \in Seq(R)
      /\ Len(SubSeq(es, m, n)) = IF m <= n THEN n - m + 1 ELSE 0
      /\ \A i \in 1..(n - m + 1) : SubSeq(es, m, n)[i] = es[m + i - 1]
  BY <1>1, SubSeqProperties
<1>3. (IF m <= n THEN n - m + 1 ELSE 0) = n - m + 1  OBVIOUS
<1> QED  BY <1>2, <1>3

\* t is es with e inserted behind its first p elements
IsInserted(t, es, e, p) ==
  /\ Len(t) = Len(es) + 1
  /\ \A i \in 1..(Len(es) + 1) :
       t[i] = IF i <= p THEN es[i] ELSE IF i = p + 1 THEN e ELSE es[i - 1]

LEMMA InsertedAt ==
  ASSUME NEW R, NEW es \in Seq(R), NEW e \in R, NEW p \in 0..Len(es)
  PROVE  /\ SubSeq(es, 1, p) \o <<e>> \o SubSeq(es, p + 1, Len(es)) \in Seq(R)
         /\ IsInserted(SubSeq(es, 1, p) \o <<e>> \o SubSeq(es, p + 1, Len(es)), es, e, p)
<1> DEFINE a == SubSeq(es, 1, p)
           b == SubSeq(es, p + 1, Len(es))
<1>1. a \in Seq(R) /\ Len(a) = p /\ \A i \in 1..p : a[i] = es[i]
  <2>1. 1 \in 1..(Len(es) + 1) /\ p \in (1 - 1)..Len(es)  OBVIOUS
  <2>2. p - 1 + 1 = p /\ \A i \in 1..p : 1 + i - 1 = i  OBVIOUS
  <2> QED  BY <2>1, <2>2, PartOf
<1>2. /\ b \in Seq(R) /\ Len(b) = Len(es) - p
      /\ \A i \in 1..(Len(es) - p) : b[i] = es[p + i]
  <2>1. p + 1 \in 1..(Len(es) + 1) /\ Len(es) \in ((p + 1) - 1)..Len(es)  OBVIOUS
  <2>2. Len(es) - (p + 1) + 1 = Len(es) - p /\ \A i \in 1..(Len(es) - p) : (p + 1) + i - 1 = p + i
    OBVIOUS
  <2>3. /\ b \in Seq(R) /\ Len(b) = Len(es) - (p + 1) + 1
        /\ \A i \in 1..(Len(es) - (p + 1) + 1) : b[i] = es[(p + 1) + i - 1]
    BY <2>1, PartOf
  <2> HIDE DEF b
  <2> QED  BY <2>2, <2>3
<1> HIDE DEF a, b
<1> DEFINE c == a \o <<e>>
<1>3. /\ c \in Seq(R) /\ Len(c) = p + 1
      /\ \A i \in 1..(p + 1) : c[i] = IF i <= p THEN es[i] ELSE e
  <2>1. <<e>> \in Seq(R) /\ Len(<<e>>) = 1 /\ <<e>>[1] = e  OBVIOUS
  <2> QED  BY <1>1, <2>1
<1> HIDE DEF c
<1>4. /\ c \o b \in Seq(R)
      /\ Len(c \o b) = Len(c) + Len(b)
      /\ \A i \in 1..(Len(c) + Len(b)) :
           (c \o b)[i] = IF i <= Len(c) THEN c[i] ELSE b[i - Len(c)]
  BY <1>2, <1>3, ConcatProperties
<1>5. Len(c) + Len(b) = Len(es) + 1  BY <1>2, <1>3
<1>6. ASSUME NEW i \in 1..(Len(es) + 1)
      PROVE  (c \o b)[i] = IF i <= p THEN es[i] ELSE IF i = p + 1 THEN e ELSE es[i - 1]
  <2>1. CASE i <= p + 1
    <3>1. (c \o b)[i] = c[i]  BY <1>3, <1>4, <1>5, <2>1
    <3> QED  BY <1>3, <2>1, <3>1
  <2>2. CASE i > p + 1
    <3>1. (c \o b)[i] = b[i - (p + 1)]  BY <1>3, <1>4, <1>5, <2>2
    <3>2. i - (p + 1) \in 1..(Len(es) - p) /\ p + (i - (p + 1)) = i - 1  BY <2>2
    <3>3. b[i - (p + 1)] = es[i - 1]  BY <1>2, <3>2
    <3>4. ~(i <= p) /\ i # p + 1  BY <2>2
    <3> QED  BY <3>1, <3>3, <3>4
  <2>3. i <= p + 1 \/ i > p + 1  OBVIOUS
  <2> HIDE DEF c
  <2> QED  BY <2>1, <2>2, <2>3
<1>7. c \o b \in Seq(R) /\ IsInserted(c \o b, es, e, p)  BY <1>4, <1>5, <1>6 DEF IsInserted
<1> QED  BY <1>7 DEF a, b, c

LEMMA BehindInserts ==
  ASSUME NEW es \in Seq(Record), NEW e \in Record
  PROVE  /\ Behind(es, e) \in Seq(Record)
         /\ \E p : GoesAt(es, e, p) /\ IsInserted(Behind(es, e), es, e, p)
<1>1. PICK p : /\ GoesAt(es, e, p)
               /\ Behind(es, e) = SubSeq(es, 1, p) \o <<e>> \o SubSeq(es, p + 1, Len(es))
  BY BehindIs
<1>2. p \in 0..Len(es)  BY <1>1 DEF GoesAt
<1>3. /\ Behind(es, e) \in Seq(Record)
      /\ IsInserted(Behind(es, e), es, e, p)
  <2> HIDE DEF Record
  <2> QED  BY <1>1, <1>2, InsertedAt
<1> QED  BY <1>1, <1>3

\* es with another size at position i
Overwrite(es, i, size) == [es EXCEPT ![i].size = size]

LEMMA Overwritten ==
  ASSUME NEW es \in Seq(Record), NEW i \in 1..Len(es), NEW s \in Sizes
  PROVE  /\ Overwrite(es, i, s) \in Seq(Record) /\ Len(Overwrite(es, i, s)) = Len(es)
         /\ \A j \in 1..Len(es) :
              Overwrite(es, i, s)[j] = IF j = i THEN Rec(es[i].key, s) ELSE es[j]
<1>1. es[i] \in Record  OBVIOUS
<1>2. [es[i] EXCEPT !.size = s] = Rec(es[i].key, s)  BY <1>1 DEF Record, Rec
<1>3. Rec(es[i].key, s) \in Record  BY <1>1 DEF Record, Rec
<1>4. Overwrite(es, i, s) = [es EXCEPT ![i] = Rec(es[i].key, s)]
  <2>1. Overwrite(es, i, s) = [es EXCEPT ![i] = [es[i] EXCEPT !.size = s]]  BY DEF Overwrite
  <2> QED  BY <1>2, <2>1
<1> QED  BY <1>3, <1>4, ExceptSeq

LEMMA RecIsRecord ==
  ASSUME NEW k \in Keys, NEW s \in Sizes
  PROVE  Rec(k, s) \in Record /\ Rec(k, s).key = k /\ Rec(k, s).size = s
BY DEF Rec, Record

LEMMA HasKeyIff ==
  ASSUME NEW es \in Seq(Record), NEW k
  PROVE  HasKey(es, k) <=> \E i \in 1..Len(es) : es[i].key = k
<1>1. FindFirst(es, k) \in 0..Len(es)  BY FindFirstIs
<1>2. HasKey(es, k) => FindFirst(es, k) \in 1..Len(es)  BY <1>1 DEF HasKey
<1> QED  BY <1>2, FindFirstIs

Overwrites(es, k) == duplicateKeys = "replace" /\ HasKey(es, k)

LEMMA IndexPutIs ==
  ASSUME NEW es \in Seq(Record), NEW k \in Keys, NEW s \in Sizes
  PROVE  /\ IndexPut(es, k, s) \in Seq(Record)
         /\ Overwrites(es, k) => /\ FindFirst(es, k) \in 1..Len(es)
                                 /\ es[FindFirst(es, k)].key = k
                                 /\ IndexPut(es, k, s) = Overwrite(es, FindFirst(es, k), s)
         /\ ~Overwrites(es, k) => IndexPut(es, k, s) = Behind(es, Rec(k, s))
<1>1. Rec(k, s) \in Record  BY RecIsRecord
<1>2. Behind(es, Rec(k, s)) \in Seq(Record)  BY <1>1, BehindInserts
<1>3. CASE Overwrites(es, k)
  <2>1. FindFirst(es, k) \in 1..Len(es) /\ es[FindFirst(es, k)].key = k
    BY <1>3, FindFirstIs DEF Overwrites, HasKey
  <2>2. IndexPut(es, k, s) = Overwrite(es, FindFirst(es, k), s)
    BY <1>3 DEF IndexPut, Overwrites, Overwrite
  <2> QED  BY <1>3, <2>1, <2>2, Overwritten
<1>4. CASE ~Overwrites(es, k)
  <2>1. IndexPut(es, k, s) = Behind(es, Rec(k, s))  BY <1>4 DEF IndexPut, Overwrites
  <2> QED  BY <1>2, <1>4, <2>1
<1> QED  BY <1>3, <1>4

-----------------------------------------------------------------------------
(* Key order. *)

Sorted(es) == \A i, j \in 1..Len(es) : i < j => es[i].key <= es[j].key
Distinct(es) == \A i, j \in 1..Len(es) : es[i].key = es[j].key => i = j
InOrder(es) == Sorted(es) /\ (duplicateKeys # "allow" => Distinct(es))

LEMMA KeysAreNumbers ==
  ASSUME NEW es \in Seq(Record)
  PROVE  \A i \in 1..Len(es) : es[i] \in Record /\ es[i].key \in Int /\ es[i].key \in Keys
<1> SUFFICES ASSUME NEW i \in 1..Len(es)
             PROVE  es[i] \in Record /\ es[i].key \in Int /\ es[i].key \in Keys
  OBVIOUS
<1>1. es[i] \in Record  OBVIOUS
<1> QED  BY <1>1, RecordSize

\* Inserted where it goes, a record leaves the keys sorted ...
LEMMA InsertedSorted ==
  ASSUME NEW es \in Seq(Record), NEW e \in Record, NEW p, NEW t,
         Sorted(es), GoesAt(es, e, p), IsInserted(t, es, e, p)
  PROVE  Sorted(t)
<1>1. p \in 0..Len(es) /\ Len(es) \in Nat /\ e.key \in Int  BY RecordSize DEF GoesAt
<1>2. \A i \in 1..Len(es) : es[i].key \in Int  BY KeysAreNumbers
<1>3. ASSUME NEW i \in 1..Len(es), i <= p  PROVE es[i].key <= e.key
  <2>1. p \in 1..Len(es) /\ es[p].key <= e.key  BY <1>1, <1>3 DEF GoesAt
  <2>2. CASE i = p  BY <2>1, <2>2
  <2>3. CASE i < p
    <3>1. es[i].key <= es[p].key  BY <2>1, <2>3 DEF Sorted
    <3> QED  BY <1>1, <1>2, <2>1, <3>1
  <2> QED  BY <1>1, <1>3, <2>2, <2>3
<1>4. \A i \in 1..Len(es) : i > p => e.key <= es[i].key  BY <1>1, <1>2 DEF GoesAt
<1>5. SUFFICES ASSUME NEW i \in 1..Len(t), NEW j \in 1..Len(t), i < j
               PROVE  t[i].key <= t[j].key
  BY DEF Sorted
<1>6. i \in 1..(Len(es) + 1) /\ j \in 1..(Len(es) + 1)  BY DEF IsInserted
<1>7. CASE j <= p
  <2>1. t[i] = es[i] /\ t[j] = es[j]  BY <1>1, <1>5, <1>6, <1>7 DEF IsInserted
  <2>2. i \in 1..Len(es) /\ j \in 1..Len(es)  BY <1>1, <1>5, <1>6, <1>7
  <2> QED  BY <1>5, <2>1, <2>2 DEF Sorted
<1>8. CASE j = p + 1
  <2>1. t[i] = es[i] /\ t[j] = e  BY <1>1, <1>5, <1>6, <1>8 DEF IsInserted
  <2>2. i \in 1..Len(es) /\ i <= p  BY <1>1, <1>5, <1>6, <1>8
  <2> QED  BY <1>3, <2>1, <2>2
<1>9. CASE j > p + 1
  <2>1. t[j] = es[j - 1] /\ j - 1 \in 1..Len(es) /\ j - 1 > p
    BY <1>1, <1>6, <1>9 DEF IsInserted
  <2>2. CASE i <= p
    <3>1. t[i] = es[i] /\ i \in 1..Len(es) /\ i < j - 1
      BY <1>1, <1>6, <1>9, <2>2 DEF IsInserted
    <3> QED  BY <2>1, <3>1 DEF Sorted
  <2>3. CASE i = p + 1
    <3>1. t[i] = e  BY <1>1, <1>6, <2>3 DEF IsInserted
    <3> QED  BY <1>4, <2>1, <3>1
  <2>4. CASE i > p + 1
    <3>1. t[i] = es[i - 1] /\ i - 1 \in 1..Len(es) /\ i - 1 < j - 1
      BY <1>1, <1>5, <1>6, <2>4 DEF IsInserted
    <3> QED  BY <2>1, <3>1 DEF Sorted
  <2> QED  BY <1>1, <1>6, <2>2, <2>3, <2>4
<1> QED  BY <1>1, <1>6, <1>7, <1>8, <1>9

\* ... with the keys that were there and its own ...
LEMMA InsertedKeys ==
  ASSUME NEW es \in Seq(Record), NEW e \in Record, NEW p \in 0..Len(es),
         NEW t \in Seq(Record), IsInserted(t, es, e, p), NEW k
  PROVE  HasKey(t, k) <=> HasKey(es, k) \/ e.key = k
<1>1. /\ HasKey(es, k) <=> \E i \in 1..Len(es) : es[i].key = k
      /\ HasKey(t, k) <=> \E i \in 1..Len(t) : t[i].key = k
  BY HasKeyIff
<1>2. Len(t) = Len(es) + 1 /\ Len(es) \in Nat  BY DEF IsInserted
<1>3. ASSUME NEW i \in 1..Len(es), es[i].key = k  PROVE \E j \in 1..Len(t) : t[j].key = k
  <2>1. CASE i <= p
    <3>1. i \in 1..Len(t) /\ t[i] = es[i]  BY <1>2, <2>1 DEF IsInserted
    <3> QED  BY <1>3, <3>1
  <2>2. CASE i > p
    <3>1. i + 1 \in 1..Len(t) /\ (i + 1) - 1 = i /\ ~(i + 1 <= p) /\ i + 1 # p + 1
      BY <1>2, <2>2
    <3>2. t[i + 1] = es[i]  BY <1>2, <3>1 DEF IsInserted
    <3> QED  BY <1>3, <3>1, <3>2
  <2> QED  BY <2>1, <2>2
<1>4. ASSUME e.key = k  PROVE \E j \in 1..Len(t) : t[j].key = k
  <2>1. p + 1 \in 1..Len(t) /\ t[p + 1] = e  BY <1>2 DEF IsInserted
  <2> QED  BY <1>4, <2>1
<1>5. ASSUME NEW j \in 1..Len(t), t[j].key = k
      PROVE  (\E i \in 1..Len(es) : es[i].key = k) \/ e.key = k
  <2>1. CASE j <= p
    <3>1. j \in 1..Len(es) /\ t[j] = es[j]  BY <1>2, <2>1 DEF IsInserted
    <3> QED  BY <1>5, <3>1
  <2>2. CASE j = p + 1
    <3>1. t[j] = e  BY <1>2, <2>2 DEF IsInserted
    <3> QED  BY <1>5, <3>1
  <2>3. CASE j > p + 1
    <3>1. j - 1 \in 1..Len(es) /\ t[j] = es[j - 1]  BY <1>2, <2>3 DEF IsInserted
    <3> QED  BY <1>5, <3>1
  <2> QED  BY <1>2, <2>1, <2>2, <2>3
<1> QED  BY <1>1, <1>3, <1>4, <1>5

\* ... which stay distinct when its own is new.
LEMMA InsertedDistinct ==
  ASSUME NEW es \in Seq(Record), NEW e \in Record, NEW p \in 0..Len(es), NEW t,
         Distinct(es), IsInserted(t, es, e, p), ~HasKey(es, e.key)
  PROVE  Distinct(t)
<1>1. \A i \in 1..Len(es) : es[i].key # e.key  BY HasKeyIff
<1>2. Len(t) = Len(es) + 1 /\ Len(es) \in Nat  BY DEF IsInserted
<1> DEFINE From(i) == IF i <= p THEN i ELSE i - 1
<1>3. \A i \in 1..Len(t) : i # p + 1 => From(i) \in 1..Len(es) /\ t[i] = es[From(i)]
  BY <1>2 DEF IsInserted
<1>4. p + 1 \in 1..Len(t) /\ t[p + 1] = e  BY <1>2 DEF IsInserted
<1>5. \A i, j \in 1..Len(t) : i # p + 1 /\ j # p + 1 /\ From(i) = From(j) => i = j
  BY <1>2
<1> HIDE DEF From
<1>6. SUFFICES ASSUME NEW i \in 1..Len(t), NEW j \in 1..Len(t), t[i].key = t[j].key
               PROVE  i = j
  BY DEF Distinct
<1>7. CASE i = p + 1 \/ j = p + 1  BY <1>1, <1>3, <1>4, <1>6, <1>7
<1>8. CASE i # p + 1 /\ j # p + 1
  <2>1. From(i) = From(j)  BY <1>3, <1>6, <1>8 DEF Distinct
  <2> QED  BY <1>5, <1>8, <2>1
<1> QED  BY <1>7, <1>8

\* t is es with the value at position i replaced
SameKeys(t, es) == Len(t) = Len(es) /\ \A j \in 1..Len(es) : t[j].key = es[j].key

LEMMA SameKeysOrder ==
  ASSUME NEW es \in Seq(Record), NEW t \in Seq(Record), SameKeys(t, es)
  PROVE  /\ Sorted(es) => Sorted(t)
         /\ Distinct(es) => Distinct(t)
         /\ \A k : HasKey(t, k) <=> HasKey(es, k)
         /\ \A e, p : GoesAt(es, e, p) => GoesAt(t, e, p)
<1>1. Sorted(es) => Sorted(t)  BY DEF Sorted, SameKeys
<1>2. Distinct(es) => Distinct(t)  BY DEF Distinct, SameKeys
<1>3. ASSUME NEW k  PROVE HasKey(t, k) <=> HasKey(es, k)
  <2>1. /\ HasKey(es, k) <=> \E i \in 1..Len(es) : es[i].key = k
        /\ HasKey(t, k) <=> \E i \in 1..Len(t) : t[i].key = k
    BY HasKeyIff
  <2> QED  BY <2>1 DEF SameKeys
<1>4. ASSUME NEW e, NEW p, GoesAt(es, e, p)  PROVE GoesAt(t, e, p)
  <2>1. p \in 0..Len(t) /\ Len(es) \in Nat  BY <1>4 DEF GoesAt, SameKeys
  <2>2. p > 0 => p \in 1..Len(es)  BY <2>1 DEF SameKeys
  <2> QED  BY <1>4, <2>1, <2>2 DEF GoesAt, SameKeys
<1> QED  BY <1>1, <1>2, <1>3, <1>4

LEMMA OverwrittenKeys ==
  ASSUME NEW es \in Seq(Record), NEW i \in 1..Len(es), NEW s \in Sizes
  PROVE  SameKeys(Overwrite(es, i, s), es)
<1> DEFINE t == Overwrite(es, i, s)
<1>1. /\ Len(t) = Len(es)
      /\ \A j \in 1..Len(es) : t[j] = IF j = i THEN Rec(es[i].key, s) ELSE es[j]
  BY Overwritten
<1>2. Rec(es[i].key, s).key = es[i].key  BY DEF Rec
<1> HIDE DEF t
<1>3. SameKeys(t, es)  BY <1>1, <1>2 DEF SameKeys
<1> QED  BY <1>3 DEF t

LEMMA IndexPutOrder ==
  ASSUME NEW es \in Seq(Record), NEW k \in Keys, NEW s \in Sizes, Sorted(es)
  PROVE  /\ Sorted(IndexPut(es, k, s))
         /\ Distinct(es) /\ (duplicateKeys = "replace" \/ ~HasKey(es, k))
              => Distinct(IndexPut(es, k, s))
         /\ \A x : HasKey(IndexPut(es, k, s), x) <=> HasKey(es, x) \/ k = x
<1> DEFINE e == Rec(k, s)
           t == IndexPut(es, k, s)
           i == FindFirst(es, k)
<1>1. e \in Record /\ e.key = k  BY RecIsRecord
<1>2. t \in Seq(Record)  BY IndexPutIs
<1>3. CASE Overwrites(es, k)
  <2>1. /\ i \in 1..Len(es)
        /\ t = Overwrite(es, i, s)
    BY <1>3, IndexPutIs
  <2> HIDE DEF i
  <2>2. SameKeys(t, es)  BY <2>1, OverwrittenKeys
  <2> HIDE DEF t
  <2>3. /\ Sorted(es) => Sorted(t)
        /\ Distinct(es) => Distinct(t)
        /\ \A x : HasKey(t, x) <=> HasKey(es, x)
    BY <1>2, <2>2, SameKeysOrder
  <2>4. HasKey(es, k)  BY <1>3 DEF Overwrites
  <2> QED  BY <2>3, <2>4 DEF t
<1>4. CASE ~Overwrites(es, k)
  <2>1. t = Behind(es, e)  BY <1>4, IndexPutIs
  <2> HIDE DEF t, e
  <2>2. PICK p : GoesAt(es, e, p) /\ IsInserted(t, es, e, p)  BY <1>1, <2>1, BehindInserts
  <2>3. p \in 0..Len(es)  BY <2>2 DEF GoesAt
  <2>4. Sorted(t)  BY <1>1, <2>2, InsertedSorted
  <2>5. \A x : HasKey(t, x) <=> HasKey(es, x) \/ e.key = x
    BY <1>1, <1>2, <2>2, <2>3, InsertedKeys
  <2>6. Distinct(es) /\ (duplicateKeys = "replace" \/ ~HasKey(es, k)) => Distinct(t)
    <3> SUFFICES ASSUME Distinct(es), duplicateKeys = "replace" \/ ~HasKey(es, k)
                 PROVE  Distinct(t)
      OBVIOUS
    <3>1. ~HasKey(es, e.key)  BY <1>1, <1>4 DEF Overwrites
    <3> QED  BY <1>1, <2>2, <2>3, <3>1, InsertedDistinct
  <2> QED  BY <1>1, <2>4, <2>5, <2>6 DEF t
<1> QED  BY <1>3, <1>4

\* Records of different keys can be put in either order.
LEMMA BehindCommutesUp ==
  ASSUME NEW es \in Seq(Record), NEW e \in Record, NEW f \in Record,
         Sorted(es), e.key < f.key
  PROVE  Behind(Behind(es, e), f) = Behind(Behind(es, f), e)
<1> DEFINE x == Behind(es, e)
           y == Behind(es, f)
<1>1. PICK p : GoesAt(es, e, p) /\ IsInserted(x, es, e, p)  BY BehindInserts
<1>2. PICK q : GoesAt(es, f, q) /\ IsInserted(y, es, f, q)  BY BehindInserts
<1>3. x \in Seq(Record) /\ y \in Seq(Record)  BY BehindInserts
<1>4. PICK pp : GoesAt(y, e, pp) /\ IsInserted(Behind(y, e), y, e, pp)  BY <1>3, BehindInserts
<1>5. PICK qq : GoesAt(x, f, qq) /\ IsInserted(Behind(x, f), x, f, qq)  BY <1>3, BehindInserts
<1>6. Behind(y, e) \in Seq(Record) /\ Behind(x, f) \in Seq(Record)  BY <1>3, BehindInserts
<1> HIDE DEF x, y
<1>7. p \in 0..Len(es) /\ q \in 0..Len(es) /\ Len(es) \in Nat  BY <1>1, <1>2 DEF GoesAt
<1>8. e.key \in Int /\ f.key \in Int  BY RecordSize
<1>9. \A i \in 1..Len(es) : es[i].key \in Int  BY KeysAreNumbers
<1>10. p <= q
  <2> SUFFICES ASSUME q < p PROVE FALSE  BY <1>7
  <2>1. p \in 1..Len(es)  BY <1>7
  <2>2. es[p].key <= e.key /\ es[p].key > f.key  BY <1>1, <1>2, <2>1 DEF GoesAt
  <2> QED  BY <1>8, <1>9, <2>1, <2>2
<1>11. GoesAt(y, e, p)
  <2>1. Len(y) = Len(es) + 1 /\ p \in 0..Len(y)  BY <1>2, <1>7 DEF IsInserted
  <2>2. p > 0 => y[p].key <= e.key
    <3> SUFFICES ASSUME p > 0 PROVE y[p].key <= e.key  OBVIOUS
    <3>1. y[p] = es[p]  BY <1>2, <1>7, <1>10 DEF IsInserted
    <3> QED  BY <1>1, <3>1 DEF GoesAt
  <2>3. ASSUME NEW i \in 1..Len(y), i > p  PROVE y[i].key > e.key
    <3>1. CASE i <= q
      <4>1. y[i] = es[i] /\ i \in 1..Len(es)  BY <1>2, <1>7, <2>1, <2>3, <3>1 DEF IsInserted
      <4> QED  BY <1>1, <2>3, <4>1 DEF GoesAt
    <3>2. CASE i = q + 1
      <4>1. y[i] = f  BY <1>2, <1>7, <2>1, <3>2 DEF IsInserted
      <4> QED  BY <1>8, <4>1
    <3>3. CASE i > q + 1
      <4>1. y[i] = es[i - 1] /\ i - 1 \in 1..Len(es) /\ i - 1 > p
        BY <1>2, <1>7, <1>10, <2>1, <2>3, <3>3 DEF IsInserted
      <4> QED  BY <1>1, <4>1 DEF GoesAt
    <3> QED  BY <1>7, <3>1, <3>2, <3>3
  <2> QED  BY <2>1, <2>2, <2>3 DEF GoesAt
<1>12. GoesAt(x, f, q + 1)
  <2>1. Len(x) = Len(es) + 1 /\ q + 1 \in 0..Len(x)  BY <1>1, <1>7 DEF IsInserted
  <2>2. x[q + 1].key <= f.key
    <3>1. CASE p = q
      <4>1. x[q + 1] = e  BY <1>1, <1>7, <3>1 DEF IsInserted
      <4> QED  BY <1>8, <4>1
    <3>2. CASE p < q
      <4>1. x[q + 1] = es[q]  BY <1>1, <1>7, <3>2 DEF IsInserted
      <4> QED  BY <1>2, <1>7, <3>2, <4>1 DEF GoesAt
    <3> QED  BY <1>7, <1>10, <3>1, <3>2
  <2>3. ASSUME NEW i \in 1..Len(x), i > q + 1  PROVE x[i].key > f.key
    <3>1. x[i] = es[i - 1] /\ i - 1 \in 1..Len(es) /\ i - 1 > q
      BY <1>1, <1>7, <1>10, <2>1, <2>3 DEF IsInserted
    <3> QED  BY <1>2, <3>1 DEF GoesAt
  <2> QED  BY <2>1, <2>2, <2>3 DEF GoesAt
<1>13. pp = p  BY <1>3, <1>4, <1>11, GoesAtUnique
<1>14. qq = q + 1  BY <1>3, <1>5, <1>12, GoesAtUnique
<1> DEFINE u == Behind(y, e)
           v == Behind(x, f)
<1>15. IsInserted(u, y, e, p) /\ IsInserted(v, x, f, q + 1)  BY <1>4, <1>5, <1>13, <1>14
<1>16. u \in Seq(Record) /\ v \in Seq(Record)  BY <1>6
<1> HIDE DEF u, v
<1>17. Len(y) = Len(es) + 1 /\ Len(x) = Len(es) + 1 /\ Len(u) = Len(es) + 2 /\ Len(v) = Len(es) + 2
  BY <1>1, <1>2, <1>7, <1>15 DEF IsInserted
<1>18. ASSUME NEW i \in 1..Len(u)  PROVE u[i] = v[i]
  <2>1. CASE i <= p
    <3>1. u[i] = y[i] /\ y[i] = es[i]  BY <1>2, <1>7, <1>10, <1>15, <1>17, <2>1 DEF IsInserted
    <3>2. v[i] = x[i] /\ x[i] = es[i]  BY <1>1, <1>7, <1>10, <1>15, <1>17, <2>1 DEF IsInserted
    <3> QED  BY <3>1, <3>2
  <2>2. CASE i = p + 1
    <3>1. u[i] = e  BY <1>7, <1>15, <1>17, <2>2 DEF IsInserted
    <3>2. v[i] = x[i] /\ x[i] = e  BY <1>1, <1>7, <1>10, <1>15, <1>17, <2>2 DEF IsInserted
    <3> QED  BY <3>1, <3>2
  <2>3. CASE i > p + 1 /\ i <= q + 1
    <3>1. u[i] = y[i - 1] /\ y[i - 1] = es[i - 1]
      BY <1>2, <1>7, <1>10, <1>15, <1>17, <2>3 DEF IsInserted
    <3>2. v[i] = x[i] /\ x[i] = es[i - 1]
      BY <1>1, <1>7, <1>10, <1>15, <1>17, <2>3 DEF IsInserted
    <3> QED  BY <3>1, <3>2
  <2>4. CASE i = q + 2
    <3>1. u[i] = y[i - 1] /\ y[i - 1] = f
      BY <1>2, <1>7, <1>10, <1>15, <1>17, <2>4 DEF IsInserted
    <3>2. v[i] = f  BY <1>7, <1>15, <1>17, <2>4 DEF IsInserted
    <3> QED  BY <3>1, <3>2
  <2>5. CASE i > q + 2
    <3>1. u[i] = y[i - 1] /\ y[i - 1] = es[(i - 1) - 1]
      BY <1>2, <1>7, <1>10, <1>15, <1>17, <2>5 DEF IsInserted
    <3>2. v[i] = x[i - 1] /\ x[i - 1] = es[(i - 1) - 1]
      BY <1>1, <1>7, <1>10, <1>15, <1>17, <2>5 DEF IsInserted
    <3> QED  BY <3>1, <3>2
  <2>6. i \in Int  OBVIOUS
  <2> QED  BY <1>7, <1>10, <2>1, <2>2, <2>3, <2>4, <2>5, <2>6
<1>19. u = v
  <2> HIDE DEF Record
  <2> QED  BY <1>16, <1>17, <1>18, SeqEqual
<1> QED  BY <1>19 DEF u, v, x, y

LEMMA BehindCommutes ==
  ASSUME NEW es \in Seq(Record), NEW e \in Record, NEW f \in Record,
         Sorted(es), e.key # f.key
  PROVE  Behind(Behind(es, e), f) = Behind(Behind(es, f), e)
<1>1. e.key \in Int /\ f.key \in Int  BY RecordSize
<1>2. e.key < f.key \/ f.key < e.key  BY <1>1
<1> QED  BY <1>2, BehindCommutesUp

LEMMA FindFirstUnique ==
  ASSUME NEW es \in Seq(Record), Distinct(es), NEW j \in 1..Len(es)
  PROVE  HasKey(es, es[j].key) /\ FindFirst(es, es[j].key) = j
<1> DEFINE k == es[j].key
<1>1. HasKey(es, k)  BY HasKeyIff
<1>2. FindFirst(es, k) \in 0..Len(es) /\ es[FindFirst(es, k)].key = k  BY <1>1, FindFirstIs
<1>3. FindFirst(es, k) # 0  BY <1>1 DEF HasKey
<1> QED  BY <1>1, <1>2, <1>3 DEF Distinct

\* Overwriting one record and inserting another commute.
LEMMA OverwriteBehind ==
  ASSUME NEW es \in Seq(Record), NEW i \in 1..Len(es), NEW s \in Sizes,
         NEW f \in Record, Distinct(es), ~HasKey(es, f.key)
  PROVE  LET y == Behind(es, f)
         IN  Behind(Overwrite(es, i, s), f)
               = Overwrite(y, FindFirst(y, es[i].key), s)
<1> DEFINE x == Overwrite(es, i, s)
           y == Behind(es, f)
           u == Behind(x, f)
           at == FindFirst(y, es[i].key)
           v == Overwrite(y, at, s)
<1>1. /\ x \in Seq(Record) /\ Len(x) = Len(es)
      /\ \A j \in 1..Len(es) : x[j] = IF j = i THEN Rec(es[i].key, s) ELSE es[j]
  BY Overwritten
<1>2. SameKeys(x, es)  BY OverwrittenKeys
<1> HIDE DEF x
<1>3. PICK q : GoesAt(es, f, q) /\ IsInserted(y, es, f, q)  BY BehindInserts
<1>4. y \in Seq(Record)  BY BehindInserts
<1>5. PICK qq : GoesAt(x, f, qq) /\ IsInserted(u, x, f, qq)  BY <1>1, BehindInserts
<1>6. u \in Seq(Record)  BY <1>1, BehindInserts
<1> HIDE DEF y, u
<1>7. GoesAt(x, f, q)  BY <1>1, <1>2, <1>3, SameKeysOrder
<1>8. qq = q  BY <1>1, <1>5, <1>7, GoesAtUnique
<1>9. q \in 0..Len(es) /\ Len(es) \in Nat  BY <1>3 DEF GoesAt
<1>10. Distinct(y)  BY <1>3, <1>9, InsertedDistinct
<1>11. Len(y) = Len(es) + 1 /\ Len(u) = Len(es) + 1  BY <1>1, <1>3, <1>5 DEF IsInserted
<1> DEFINE j == IF i <= q THEN i ELSE i + 1
<1>12. j \in 1..Len(y) /\ y[j] = es[i]  BY <1>3, <1>9, <1>11 DEF IsInserted
<1>13. at = j
  <2> HIDE DEF j
  <2> QED  BY <1>4, <1>10, <1>12, FindFirstUnique
<1> HIDE DEF at
<1>14. /\ v \in Seq(Record) /\ Len(v) = Len(y)
       /\ \A n \in 1..Len(y) : v[n] = IF n = at THEN Rec(y[at].key, s) ELSE y[n]
  <2> HIDE DEF j
  <2>1. at \in 1..Len(y)  BY <1>12, <1>13
  <2> QED  BY <1>4, <2>1, Overwritten
<1> HIDE DEF v
<1>15. ASSUME NEW n \in 1..Len(u)  PROVE u[n] = v[n]
  <2>1. n \in 1..Len(y) /\ n \in 1..(Len(es) + 1)  BY <1>11
  <2>2. v[n] = IF n = j THEN Rec(es[i].key, s) ELSE y[n]  BY <1>12, <1>13, <1>14, <2>1
  <2>3. u[n] = IF n <= q THEN x[n] ELSE IF n = q + 1 THEN f ELSE x[n - 1]
    BY <1>1, <1>5, <1>8, <2>1 DEF IsInserted
  <2>4. y[n] = IF n <= q THEN es[n] ELSE IF n = q + 1 THEN f ELSE es[n - 1]
    BY <1>3, <2>1 DEF IsInserted
  <2>5. CASE n <= q  BY <1>1, <1>9, <2>1, <2>2, <2>3, <2>4, <2>5
  <2>6. CASE n = q + 1  BY <1>9, <2>2, <2>3, <2>4, <2>6
  <2>7. CASE n > q + 1
    <3>1. n - 1 \in 1..Len(es) /\ ~(n <= q) /\ n # q + 1  BY <1>9, <2>1, <2>7
    <3>2. u[n] = x[n - 1] /\ y[n] = es[n - 1]  BY <2>3, <2>4, <3>1
    <3>3. x[n - 1] = IF n - 1 = i THEN Rec(es[i].key, s) ELSE es[n - 1]  BY <1>1, <3>1
    <3>4. n = j <=> n - 1 = i  BY <1>9, <2>7
    <3> QED  BY <2>2, <3>2, <3>3, <3>4
  <2> QED  BY <1>9, <2>1, <2>5, <2>6, <2>7
<1>16. u = v
  <2> HIDE DEF Record
  <2> QED  BY <1>6, <1>11, <1>14, <1>15, SeqEqual
<1> QED  BY <1>16 DEF u, v, x, y, at

\* The same, as two puts
LEMMA OverwriteThenInsert ==
  ASSUME NEW es \in Seq(Record), Sorted(es), Distinct(es), duplicateKeys = "replace",
         NEW k \in Keys, NEW s \in Sizes, NEW l \in Keys, NEW z \in Sizes,
         HasKey(es, k), ~HasKey(es, l)
  PROVE  IndexPut(IndexPut(es, k, s), l, z) = IndexPut(IndexPut(es, l, z), k, s)
<1> DEFINE i == FindFirst(es, k)
           x == IndexPut(es, k, s)
           y == IndexPut(es, l, z)
<1>1. x \in Seq(Record) /\ y \in Seq(Record)  BY IndexPutIs
<1>2. Overwrites(es, k) /\ ~Overwrites(es, l)  BY DEF Overwrites
<1>3. /\ i \in 1..Len(es) /\ es[i].key = k
      /\ x = Overwrite(es, i, s)
  BY <1>2, IndexPutIs
<1>4. y = Behind(es, Rec(l, z))  BY <1>2, IndexPutIs
<1>5. ~HasKey(x, l) /\ HasKey(y, k)  BY IndexPutOrder
<1> HIDE DEF x, y, i
<1>6. IndexPut(x, l, z) = Behind(x, Rec(l, z))  BY <1>1, <1>5, IndexPutIs DEF Overwrites
<1>7. IndexPut(y, k, s) = Overwrite(y, FindFirst(y, k), s)
  BY <1>1, <1>5, IndexPutIs DEF Overwrites
<1>8. Rec(l, z) \in Record /\ Rec(l, z).key = l  BY RecIsRecord
<1>9. Behind(x, Rec(l, z)) = Overwrite(y, FindFirst(y, k), s)
  BY <1>3, <1>4, <1>8, OverwriteBehind
<1> QED  BY <1>6, <1>7, <1>9 DEF x, y

LEMMA IndexPutCommutes ==
  ASSUME NEW es \in Seq(Record), Sorted(es), duplicateKeys = "replace" => Distinct(es),
         NEW k \in Keys, NEW s \in Sizes, NEW l \in Keys, NEW z \in Sizes, k # l
  PROVE  IndexPut(IndexPut(es, k, s), l, z) = IndexPut(IndexPut(es, l, z), k, s)
<1> DEFINE x == IndexPut(es, k, s)
           y == IndexPut(es, l, z)
<1>1. x \in Seq(Record) /\ y \in Seq(Record)  BY IndexPutIs
<1>2. (HasKey(x, l) <=> HasKey(es, l)) /\ (HasKey(y, k) <=> HasKey(es, k))  BY IndexPutOrder
<1>3. CASE ~Overwrites(es, k) /\ ~Overwrites(es, l)
  <2>1. x = Behind(es, Rec(k, s)) /\ y = Behind(es, Rec(l, z))  BY <1>3, IndexPutIs
  <2>2. ~Overwrites(x, l) /\ ~Overwrites(y, k)  BY <1>2, <1>3 DEF Overwrites
  <2> HIDE DEF x, y
  <2>3. /\ IndexPut(x, l, z) = Behind(x, Rec(l, z))
        /\ IndexPut(y, k, s) = Behind(y, Rec(k, s))
    BY <1>1, <2>2, IndexPutIs
  <2>4. /\ Rec(k, s) \in Record /\ Rec(k, s).key = k
        /\ Rec(l, z) \in Record /\ Rec(l, z).key = l
    BY RecIsRecord
  <2>5. Behind(x, Rec(l, z)) = Behind(y, Rec(k, s))  BY <2>1, <2>4, BehindCommutes
  <2> QED  BY <2>3, <2>5 DEF x, y
<1>4. CASE Overwrites(es, k) /\ ~Overwrites(es, l)
  BY <1>4, OverwriteThenInsert DEF Overwrites
<1>5. CASE ~Overwrites(es, k) /\ Overwrites(es, l)
  BY <1>5, OverwriteThenInsert DEF Overwrites
<1>6. CASE Overwrites(es, k) /\ Overwrites(es, l)
  <2> DEFINE i == FindFirst(es, k)
             j == FindFirst(es, l)
  <2>1. /\ i \in 1..Len(es) /\ es[i].key = k /\ x = Overwrite(es, i, s)
        /\ j \in 1..Len(es) /\ es[j].key = l /\ y = Overwrite(es, j, z)
    BY <1>6, IndexPutIs
  <2>2. Overwrites(x, l) /\ Overwrites(y, k) /\ Distinct(es)  BY <1>2, <1>6 DEF Overwrites
  <2>3. SameKeys(x, es) /\ SameKeys(y, es)
    <3> HIDE DEF i, j, x, y
    <3> QED  BY <2>1, OverwrittenKeys
  <2> HIDE DEF i, j, x, y
  <2>4. Distinct(x) /\ Distinct(y)  BY <1>1, <2>2, <2>3, SameKeysOrder
  <2>5. x[j].key = l /\ y[i].key = k /\ Len(x) = Len(es) /\ Len(y) = Len(es)
    BY <2>1, <2>3 DEF SameKeys
  <2>6. FindFirst(x, l) = j /\ FindFirst(y, k) = i  BY <1>1, <2>1, <2>4, <2>5, FindFirstUnique
  <2>7. /\ IndexPut(x, l, z) = Overwrite(x, j, z)
        /\ IndexPut(y, k, s) = Overwrite(y, i, s)
    BY <1>1, <2>2, <2>6, IndexPutIs
  <2>8. i # j  BY <2>1
  <2>9. Overwrite(x, j, z) = Overwrite(y, i, s)
    <3> DEFINE u == Overwrite(x, j, z)
               v == Overwrite(y, i, s)
    <3>1. /\ \A n \in 1..Len(es) : x[n] = IF n = i THEN Rec(es[i].key, s) ELSE es[n]
          /\ \A n \in 1..Len(es) : y[n] = IF n = j THEN Rec(es[j].key, z) ELSE es[n]
      BY <2>1, Overwritten
    <3>6. j \in 1..Len(x) /\ i \in 1..Len(y)  BY <2>1, <2>5
    <3>2. /\ u \in Seq(Record) /\ Len(u) = Len(x)
          /\ \A n \in 1..Len(x) : u[n] = IF n = j THEN Rec(x[j].key, z) ELSE x[n]
      BY <1>1, <3>6, Overwritten
    <3>3. /\ v \in Seq(Record) /\ Len(v) = Len(y)
          /\ \A n \in 1..Len(y) : v[n] = IF n = i THEN Rec(y[i].key, s) ELSE y[n]
      BY <1>1, <2>1, <2>5, Overwritten
    <3> HIDE DEF u, v
    <3>4. \A n \in 1..Len(u) : u[n] = v[n]
      BY <2>1, <2>5, <2>8, <3>1, <3>2, <3>3
    <3>5. u = v
      <4> HIDE DEF Record
      <4> QED  BY <2>5, <3>2, <3>3, <3>4, SeqEqual
    <3> QED  BY <3>5 DEF u, v
  <2> QED  BY <2>7, <2>9 DEF x, y
<1> QED  BY <1>3, <1>4, <1>5, <1>6

\* Under 'replace' a put undoes the one of its key before it.
LEMMA IndexPutTwice ==
  ASSUME NEW es \in Seq(Record), Sorted(es), Distinct(es), duplicateKeys = "replace",
         NEW k \in Keys, NEW s \in Sizes, NEW z \in Sizes
  PROVE  /\ IndexPut(IndexPut(es, k, s), k, z) = IndexPut(es, k, z)
         /\ LET x == IndexPut(es, k, s) IN x[FindFirst(x, k)].size = s
<1> DEFINE x == IndexPut(es, k, s)
           at == FindFirst(x, k)
           u == IndexPut(x, k, z)
           w == IndexPut(es, k, z)
<1>1. x \in Seq(Record) /\ w \in Seq(Record)  BY IndexPutIs
<1>2. HasKey(x, k) /\ Distinct(x)  BY IndexPutOrder
<1> HIDE DEF x
<1>3. Overwrites(x, k)  BY <1>2 DEF Overwrites
<1>4. at \in 1..Len(x) /\ x[at].key = k /\ u = Overwrite(x, at, z)
  BY <1>1, <1>3, IndexPutIs
<1> HIDE DEF at, u
<1>5. /\ u \in Seq(Record) /\ Len(u) = Len(x)
      /\ \A n \in 1..Len(x) : u[n] = IF n = at THEN Rec(k, z) ELSE x[n]
  BY <1>1, <1>4, Overwritten
<1>6. Rec(k, s).key = k /\ Rec(k, s).size = s  BY DEF Rec
<1>7. CASE HasKey(es, k)
  <2> DEFINE i == FindFirst(es, k)
  <2>1. /\ i \in 1..Len(es) /\ es[i].key = k
        /\ x = Overwrite(es, i, s) /\ w = Overwrite(es, i, z)
    BY <1>7, IndexPutIs DEF Overwrites, x
  <2> HIDE DEF i, w
  <2>2. /\ Len(x) = Len(es)
        /\ \A n \in 1..Len(es) : x[n] = IF n = i THEN Rec(k, s) ELSE es[n]
    BY <2>1, Overwritten
  <2>3. /\ Len(w) = Len(es)
        /\ \A n \in 1..Len(es) : w[n] = IF n = i THEN Rec(k, z) ELSE es[n]
    BY <2>1, Overwritten
  <2>4. x[i].key = k /\ i \in 1..Len(x)  BY <1>6, <2>1, <2>2
  <2>5. at = i  BY <1>2, <1>4, <2>4 DEF Distinct
  <2>6. \A n \in 1..Len(u) : u[n] = w[n]  BY <1>5, <2>2, <2>3, <2>5
  <2>7. u = w
    <3> HIDE DEF Record
    <3> QED  BY <1>1, <1>5, <2>2, <2>3, <2>6, SeqEqual
  <2>8. x[at].size = s  BY <1>6, <2>1, <2>2, <2>5
  <2> QED  BY <2>7, <2>8 DEF u, w, x, at
<1>8. CASE ~HasKey(es, k)
  <2>1. x = Behind(es, Rec(k, s)) /\ w = Behind(es, Rec(k, z))
    BY <1>8, IndexPutIs DEF Overwrites, x
  <2>2. /\ Rec(k, s) \in Record /\ Rec(k, z) \in Record /\ Rec(k, z).key = k
    BY RecIsRecord
  <2> HIDE DEF w
  <2>3. PICK p : GoesAt(es, Rec(k, s), p) /\ IsInserted(x, es, Rec(k, s), p)
    BY <2>1, <2>2, BehindInserts
  <2>4. PICK q : GoesAt(es, Rec(k, z), q) /\ IsInserted(w, es, Rec(k, z), q)
    BY <2>1, <2>2, BehindInserts
  <2>5. GoesAt(es, Rec(k, z), p)  BY <1>6, <2>2, <2>3 DEF GoesAt
  <2>6. q = p  BY <2>2, <2>4, <2>5, GoesAtUnique
  <2>7. p \in 0..Len(es) /\ Len(es) \in Nat /\ Len(x) = Len(es) + 1 /\ Len(w) = Len(es) + 1
    BY <2>3, <2>4 DEF GoesAt, IsInserted
  <2>8. p + 1 \in 1..Len(x) /\ x[p + 1] = Rec(k, s)  BY <2>3, <2>7 DEF IsInserted
  <2>9. at = p + 1  BY <1>2, <1>4, <1>6, <2>8 DEF Distinct
  <2>10. \A n \in 1..Len(u) : u[n] = w[n]
    <3> SUFFICES ASSUME NEW n \in 1..Len(u)  PROVE u[n] = w[n]  OBVIOUS
    <3>1. n \in 1..(Len(es) + 1) /\ n \in 1..Len(x)  BY <1>5, <2>7
    <3>2. x[n] = IF n <= p THEN es[n] ELSE IF n = p + 1 THEN Rec(k, s) ELSE es[n - 1]
      BY <2>3, <3>1 DEF IsInserted
    <3>3. w[n] = IF n <= p THEN es[n] ELSE IF n = p + 1 THEN Rec(k, z) ELSE es[n - 1]
      BY <2>4, <2>6, <3>1 DEF IsInserted
    <3>4. u[n] = IF n = p + 1 THEN Rec(k, z) ELSE x[n]  BY <1>5, <2>9, <3>1
    <3> QED  BY <2>7, <3>1, <3>2, <3>3, <3>4
  <2>11. u = w
    <3> HIDE DEF Record
    <3> QED  BY <1>1, <1>5, <2>7, <2>10, SeqEqual
  <2>12. x[at].size = s  BY <1>6, <2>8, <2>9
  <2> QED  BY <2>11, <2>12 DEF u, w, x, at
<1> QED  BY <1>7, <1>8

-----------------------------------------------------------------------------
(* SumSizes. *)

\* SumSizes, step by step
LEMMA SumSizesChain ==
  ASSUME NEW es \in Seq(Record)
  PROVE  \E r : /\ r[0] = 0
                /\ \A i \in 1..Len(es) : r[i] = r[i - 1] + es[i].size
                /\ SumSizes(es) = r[Len(es)]
<1> DEFINE n == Len(es)
           A == Int
           st == [i \in 1..n |-> [x \in A |-> x + es[i].size]]
<1>1. n \in Nat /\ DOMAIN es = 1..n  OBVIOUS
<1>2. \A i \in 1..n : es[i].size \in Int  BY RecordSize
<1>3. st \in [1..n -> [A -> A]]  BY <1>2
<1>4. PICK g : Solves(g, n, A, 0, st)
  <2>1. 0 \in A  OBVIOUS
  <2> HIDE DEF st, n, A
  <2> QED  BY <1>1, <1>3, <2>1, RecursionHasSolution
<1>5. \A s \in SUBSET (1..n) : s # {} =>
        st[Max(s)][g[s \ {Max(s)}]] = g[s \ {Max(s)}] + es[Max(s)].size
  <2> SUFFICES ASSUME NEW s \in SUBSET (1..n), s # {}
               PROVE  st[Max(s)][g[s \ {Max(s)}]] = g[s \ {Max(s)}] + es[Max(s)].size
    OBVIOUS
  <2>1. Max(s) \in 1..n
    <3> HIDE DEF n, Max
    <3> QED  BY <1>1, MaxOfPositions
  <2>2. g[s \ {Max(s)}] \in A  BY <1>4 DEF Solves
  <2> HIDE DEF Max, n, A
  <2> QED  BY <2>1, <2>2
<1>6. g = [s \in SUBSET DOMAIN es |->
             IF s = {} THEN 0 ELSE g[s \ {Max(s)}] + es[Max(s)].size]
  <2> HIDE DEF st, n, Max, A
  <2> QED  BY <1>1, <1>4, <1>5 DEF Solves
<1> DEFINE h == CHOOSE x : x = [s \in SUBSET DOMAIN es |->
                  IF s = {} THEN 0 ELSE x[s \ {Max(s)}] + es[Max(s)].size]
<1>7. h = [s \in SUBSET DOMAIN es |->
             IF s = {} THEN 0 ELSE h[s \ {Max(s)}] + es[Max(s)].size]
  <2> HIDE DEF Max
  <2> QED  BY <1>6
<1>8. SumSizes(es) = h[DOMAIN es]  BY DEF SumSizes, FoldLeft, MapThenFoldSet
<1> HIDE DEF h
<1> DEFINE r == [i \in 0..n |-> h[1..i]]
<1>9. r[0] = 0
  <2>1. 1..0 = {} /\ {} \in SUBSET DOMAIN es  OBVIOUS
  <2> HIDE DEF Max
  <2> QED  BY <1>1, <1>7, <2>1
<1>10. \A i \in 1..n : r[i] = r[i - 1] + es[i].size
  <2> SUFFICES ASSUME NEW i \in 1..n  PROVE h[1..i] = h[1..(i - 1)] + es[i].size
    OBVIOUS
  <2>1. /\ Max(1..i) = i
        /\ (1..i) \ {Max(1..i)} = 1..(i - 1)
        /\ 1..i # {} /\ 1..i \in SUBSET (1..n)
    <3> HIDE DEF Max, n
    <3> QED  BY <1>1, SolutionOfPrefix
  <2> HIDE DEF Max, n
  <2> QED  BY <1>1, <1>7, <2>1
<1>11. SumSizes(es) = r[Len(es)]  BY <1>1, <1>8
<1> HIDE DEF r
<1> QED  BY <1>9, <1>10, <1>11

LEMMA SumEmpty == SumSizes(<<>>) = 0
<1>1. <<>> \in Seq(Record) /\ Len(<<>>) = 0  OBVIOUS
<1> QED  BY <1>1, SumSizesChain

LEMMA SumAppend ==
  ASSUME NEW es \in Seq(Record), NEW e \in Record
  PROVE  SumSizes(Append(es, e)) = SumSizes(es) + e.size
<1> DEFINE n == Len(es)
           t == Append(es, e)
<1>1. /\ n \in Nat /\ t \in Seq(Record) /\ Len(t) = n + 1 /\ t[n + 1] = e
      /\ \A i \in 1..n : t[i] = es[i]
  OBVIOUS
<1> HIDE DEF t
<1>2. PICK r : /\ r[0] = 0
               /\ \A i \in 1..Len(es) : r[i] = r[i - 1] + es[i].size
               /\ SumSizes(es) = r[Len(es)]
  BY SumSizesChain
<1>3. PICK q : /\ q[0] = 0
               /\ \A i \in 1..Len(t) : q[i] = q[i - 1] + t[i].size
               /\ SumSizes(t) = q[Len(t)]
  BY <1>1, SumSizesChain
<1>4. \A i \in 1..n : r[i - 1] = q[i - 1] => r[i] = q[i]
  <2> SUFFICES ASSUME NEW i \in 1..n, r[i - 1] = q[i - 1]  PROVE r[i] = q[i]
    OBVIOUS
  <2>1. i \in 1..Len(t)  BY <1>1
  <2> QED  BY <1>1, <1>2, <1>3, <2>1
<1>5. r[n] = q[n]
  <2> HIDE DEF n
  <2> QED  BY <1>1, <1>2, <1>3, <1>4, ChainUnique
<1>6. n + 1 \in 1..Len(t) /\ (n + 1) - 1 = n  BY <1>1
<1>7. q[n + 1] = q[n] + e.size  BY <1>1, <1>3, <1>6
<1> QED  BY <1>1, <1>2, <1>3, <1>5, <1>7 DEF t

LEMMA SumType ==
  ASSUME NEW es \in Seq(Record)
  PROVE  SumSizes(es) \in Nat
<1> DEFINE S == {s \in Seq(Record) : SumSizes(s) \in Nat}
<1>1. <<>> \in S  BY SumEmpty
<1>2. \A s \in Seq(Record), e \in Record : s \in S => Append(s, e) \in S
  <2> SUFFICES ASSUME NEW s \in S, NEW e \in Record  PROVE Append(s, e) \in S
    OBVIOUS
  <2>1. SumSizes(Append(s, e)) = SumSizes(s) + e.size  BY SumAppend
  <2>2. e.size \in Nat  BY RecordSize
  <2>3. Append(s, e) \in Seq(Record)  OBVIOUS
  <2> QED  BY <2>1, <2>2, <2>3
<1>3. Seq(Record) \subseteq S
  <2> HIDE DEF S, Record
  <2> QED  BY <1>1, <1>2, SequenceInduction
<1> QED  BY <1>3

LEMMA SumConcat ==
  ASSUME NEW es \in Seq(Record), NEW fs \in Seq(Record)
  PROVE  SumSizes(es \o fs) = SumSizes(es) + SumSizes(fs)
<1> DEFINE S == {s \in Seq(Record) : SumSizes(es \o s) = SumSizes(es) + SumSizes(s)}
<1>1. <<>> \in S
  <2>1. es \o <<>> = es  BY ConcatEmptySeq
  <2>2. <<>> \in Seq(Record) /\ SumSizes(es) \in Nat  BY SumType
  <2> QED  BY <2>1, <2>2, SumEmpty
<1>2. \A s \in Seq(Record), e \in Record : s \in S => Append(s, e) \in S
  <2> SUFFICES ASSUME NEW s \in S, NEW e \in Record  PROVE Append(s, e) \in S
    OBVIOUS
  <2>1. es \o Append(s, e) = Append(es \o s, e)  OBVIOUS
  <2>2. es \o s \in Seq(Record) /\ Append(s, e) \in Seq(Record)  OBVIOUS
  <2>3. SumSizes(Append(es \o s, e)) = SumSizes(es \o s) + e.size  BY <2>2, SumAppend
  <2>4. SumSizes(Append(s, e)) = SumSizes(s) + e.size  BY SumAppend
  <2>5. SumSizes(es) \in Nat /\ SumSizes(s) \in Nat /\ e.size \in Nat  BY SumType, RecordSize
  <2>6. SumSizes(es \o s) = SumSizes(es) + SumSizes(s)  OBVIOUS
  <2>7. SumSizes(es \o Append(s, e)) = SumSizes(es) + SumSizes(Append(s, e))
    BY <2>1, <2>3, <2>4, <2>5, <2>6
  <2> QED  BY <2>2, <2>7
<1>3. Seq(Record) \subseteq S
  <2> HIDE DEF S, Record
  <2> QED  BY <1>1, <1>2, SequenceInduction
<1> QED  BY <1>3

LEMMA SumSingle ==
  ASSUME NEW e \in Record
  PROVE  SumSizes(<<e>>) = e.size /\ <<e>> \in Seq(Record)
<1>1. <<e>> = Append(<<>>, e) /\ <<>> \in Seq(Record) /\ <<e>> \in Seq(Record)  OBVIOUS
<1>2. SumSizes(Append(<<>>, e)) = SumSizes(<<>>) + e.size  BY <1>1, SumAppend
<1>3. e.size \in Nat  BY RecordSize
<1> QED  BY <1>1, <1>2, <1>3, SumEmpty

\* A sequence cut in two
LEMMA SumSplit ==
  ASSUME NEW es \in Seq(Record), NEW n \in 0..Len(es)
  PROVE  /\ SubSeq(es, 1, n) \in Seq(Record)
         /\ SubSeq(es, n + 1, Len(es)) \in Seq(Record)
         /\ SumSizes(es) = SumSizes(SubSeq(es, 1, n)) + SumSizes(SubSeq(es, n + 1, Len(es)))
<1> HIDE DEF Record
<1>1. 1 \in 1..(Len(es) + 1) /\ n \in (1 - 1)..Len(es) /\ Len(es) \in n..Len(es)  OBVIOUS
<1>2. n + 1 \in 1..(Len(es) + 1) /\ Len(es) \in ((n + 1) - 1)..Len(es)  OBVIOUS
<1>3. SubSeq(es, 1, n) \in Seq(Record)  BY <1>1, PartOf
<1>4. SubSeq(es, n + 1, Len(es)) \in Seq(Record)  BY <1>2, PartOf
<1>5. SubSeq(es, 1, n) \o SubSeq(es, n + 1, Len(es)) = SubSeq(es, 1, Len(es))
  BY <1>1, ConcatAdjacentSubSeq
<1>6. SubSeq(es, 1, Len(es)) = es  BY SubSeqFull
<1> QED  BY <1>3, <1>4, <1>5, <1>6, SumConcat

\* A sequence without the element at position i
LEMMA SumCut ==
  ASSUME NEW es \in Seq(Record), NEW i \in 1..Len(es)
  PROVE  /\ SubSeq(es, 1, i - 1) \in Seq(Record)
         /\ SubSeq(es, i + 1, Len(es)) \in Seq(Record)
         /\ es[i] \in Record
         /\ SumSizes(es) = SumSizes(SubSeq(es, 1, i - 1)) + es[i].size
                             + SumSizes(SubSeq(es, i + 1, Len(es)))
<1> DEFINE a == SubSeq(es, 1, i - 1)
           b == SubSeq(es, i + 1, Len(es))
<1>1. es[i] \in Record  OBVIOUS
<1>2. i - 1 \in 0..Len(es) /\ (i - 1) + 1 = i /\ Len(es) \in i..Len(es)  OBVIOUS
<1>3. /\ a \in Seq(Record) /\ SubSeq(es, i, Len(es)) \in Seq(Record)
      /\ SumSizes(es) = SumSizes(a) + SumSizes(SubSeq(es, i, Len(es)))
  BY <1>2, SumSplit
<1>4. SubSeq(es, i, Len(es)) = <<es[i]>> \o b
  <2> HIDE DEF Record
  <2> QED  BY <1>2, SubSeqRecursiveFirst
<1>5. b \in Seq(Record)
  <2>1. i \in 0..Len(es)  OBVIOUS
  <2> QED  BY <2>1, SumSplit
<1> HIDE DEF a, b
<1>6. SumSizes(<<es[i]>>) = es[i].size /\ <<es[i]>> \in Seq(Record)  BY <1>1, SumSingle
<1>7. SumSizes(<<es[i]>> \o b) = es[i].size + SumSizes(b)  BY <1>5, <1>6, SumConcat
<1>8. SumSizes(a) \in Nat /\ SumSizes(b) \in Nat /\ es[i].size \in Nat
  BY <1>1, <1>3, <1>5, SumType, RecordSize
<1>9. SumSizes(es) = SumSizes(a) + es[i].size + SumSizes(b)  BY <1>3, <1>4, <1>7, <1>8
<1> QED  BY <1>1, <1>3, <1>5, <1>9 DEF a, b

LEMMA SumRemoveAt ==
  ASSUME NEW es \in Seq(Record), NEW i \in 1..Len(es)
  PROVE  /\ RemoveAt(es, i) \in Seq(Record)
         /\ SumSizes(RemoveAt(es, i)) = SumSizes(es) - es[i].size
<1> DEFINE a == SubSeq(es, 1, i - 1)
           b == SubSeq(es, i + 1, Len(es))
<1>1. /\ a \in Seq(Record) /\ b \in Seq(Record) /\ es[i] \in Record
      /\ SumSizes(es) = SumSizes(a) + es[i].size + SumSizes(b)
  BY SumCut
<1>2. RemoveAt(es, i) = a \o b  BY DEF RemoveAt
<1> HIDE DEF a, b
<1>3. a \o b \in Seq(Record) /\ SumSizes(a \o b) = SumSizes(a) + SumSizes(b)
  BY <1>1, SumConcat
<1>4. SumSizes(a) \in Nat /\ SumSizes(b) \in Nat /\ es[i].size \in Nat
  BY <1>1, SumType, RecordSize
<1> QED  BY <1>1, <1>2, <1>3, <1>4

LEMMA SumOverwrite ==
  ASSUME NEW es \in Seq(Record), NEW i \in 1..Len(es), NEW s \in Sizes
  PROVE  SumSizes(Overwrite(es, i, s)) = SumSizes(es) - es[i].size + s
<1> DEFINE t == Overwrite(es, i, s)
<1>1. /\ t \in Seq(Record) /\ Len(t) = Len(es)
      /\ \A j \in 1..Len(es) : t[j] = IF j = i THEN Rec(es[i].key, s) ELSE es[j]
  BY Overwritten
<1> HIDE DEF t
<1>2. t[i].size = s  BY <1>1 DEF Rec
<1>3. i - 1 \in (1 - 1)..Len(es) /\ 1 \in 1..(Len(es) + 1)
      /\ i + 1 \in 1..(Len(es) + 1) /\ Len(es) \in ((i + 1) - 1)..Len(es) /\ Len(es) \in Nat
  OBVIOUS
<1>4. SubSeq(t, 1, i - 1) = SubSeq(es, 1, i - 1)
  <2> DEFINE a == SubSeq(es, 1, i - 1)
             b == SubSeq(t, 1, i - 1)
  <2> HIDE DEF Record
  <2>1. /\ a \in Seq(Record) /\ Len(a) = (i - 1) - 1 + 1
        /\ \A j \in 1..((i - 1) - 1 + 1) : a[j] = es[1 + j - 1]
    BY <1>3, PartOf
  <2>2. /\ b \in Seq(Record) /\ Len(b) = (i - 1) - 1 + 1
        /\ \A j \in 1..((i - 1) - 1 + 1) : b[j] = t[1 + j - 1]
    BY <1>1, <1>3, PartOf
  <2> HIDE DEF a, b
  <2>3. ASSUME NEW j \in 1..Len(a)  PROVE a[j] = b[j]
    <3>1. j \in 1..((i - 1) - 1 + 1) /\ 1 + j - 1 \in 1..Len(es) /\ 1 + j - 1 # i  BY <2>1
    <3> QED  BY <1>1, <2>1, <2>2, <3>1
  <2>4. a = b  BY <2>1, <2>2, <2>3, SeqEqual
  <2> QED  BY <2>4 DEF a, b
<1>5. SubSeq(t, i + 1, Len(t)) = SubSeq(es, i + 1, Len(es))
  <2> DEFINE a == SubSeq(es, i + 1, Len(es))
             b == SubSeq(t, i + 1, Len(es))
  <2> HIDE DEF Record
  <2>1. /\ a \in Seq(Record) /\ Len(a) = Len(es) - (i + 1) + 1
        /\ \A j \in 1..(Len(es) - (i + 1) + 1) : a[j] = es[(i + 1) + j - 1]
    BY <1>3, PartOf
  <2>2. /\ b \in Seq(Record) /\ Len(b) = Len(es) - (i + 1) + 1
        /\ \A j \in 1..(Len(es) - (i + 1) + 1) : b[j] = t[(i + 1) + j - 1]
    BY <1>1, <1>3, PartOf
  <2> HIDE DEF a, b
  <2>3. ASSUME NEW j \in 1..Len(a)  PROVE a[j] = b[j]
    <3>1. /\ j \in 1..(Len(es) - (i + 1) + 1)
          /\ (i + 1) + j - 1 \in 1..Len(es) /\ (i + 1) + j - 1 # i
      BY <1>3, <2>1
    <3> QED  BY <1>1, <2>1, <2>2, <3>1
  <2>4. a = b  BY <2>1, <2>2, <2>3, SeqEqual
  <2> QED  BY <1>1, <2>4 DEF a, b
<1>6. /\ es[i] \in Record
      /\ SubSeq(es, 1, i - 1) \in Seq(Record) /\ SubSeq(es, i + 1, Len(es)) \in Seq(Record)
      /\ SumSizes(es) = SumSizes(SubSeq(es, 1, i - 1)) + es[i].size
                          + SumSizes(SubSeq(es, i + 1, Len(es)))
  BY SumCut
<1>7. SumSizes(t) = SumSizes(SubSeq(t, 1, i - 1)) + t[i].size
                      + SumSizes(SubSeq(t, i + 1, Len(t)))
  <2>1. i \in 1..Len(t)  BY <1>1
  <2> QED  BY <1>1, <2>1, SumCut
<1>8. /\ SumSizes(SubSeq(es, 1, i - 1)) \in Nat
      /\ SumSizes(SubSeq(es, i + 1, Len(es))) \in Nat
      /\ es[i].size \in Nat /\ s \in Nat
  BY <1>6, SumType, RecordSize, SizesAssumption
<1> DEFINE a == SubSeq(es, 1, i - 1)
           b == SubSeq(es, i + 1, Len(es))
<1>10. SumSizes(t) = SumSizes(a) + s + SumSizes(b)  BY <1>2, <1>4, <1>5, <1>7
<1>11. /\ SumSizes(es) = SumSizes(a) + es[i].size + SumSizes(b)
       /\ SumSizes(a) \in Nat /\ SumSizes(b) \in Nat /\ es[i].size \in Nat /\ s \in Nat
  BY <1>6, <1>8
<1> HIDE DEF a, b
<1>9. SumSizes(t) = SumSizes(es) - es[i].size + s  BY <1>10, <1>11
<1> QED  BY <1>9 DEF t

LEMMA SumBehind ==
  ASSUME NEW es \in Seq(Record), NEW e \in Record
  PROVE  SumSizes(Behind(es, e)) = SumSizes(es) + e.size
<1>1. PICK p : /\ GoesAt(es, e, p)
               /\ Behind(es, e) = SubSeq(es, 1, p) \o <<e>> \o SubSeq(es, p + 1, Len(es))
  BY BehindIs
<1>2. p \in 0..Len(es)  BY <1>1 DEF GoesAt
<1> DEFINE a == SubSeq(es, 1, p)
           b == SubSeq(es, p + 1, Len(es))
<1>3. /\ a \in Seq(Record) /\ b \in Seq(Record)
      /\ SumSizes(es) = SumSizes(a) + SumSizes(b)
  BY <1>2, SumSplit
<1>4. Behind(es, e) = (a \o <<e>>) \o b  BY <1>1
<1> HIDE DEF a, b
<1>5. SumSizes(<<e>>) = e.size /\ <<e>> \in Seq(Record)  BY SumSingle
<1>6. a \o <<e>> \in Seq(Record)  BY <1>3, <1>5
<1>7. SumSizes(a \o <<e>>) = SumSizes(a) + e.size  BY <1>3, <1>5, SumConcat
<1>8. SumSizes((a \o <<e>>) \o b) = SumSizes(a) + e.size + SumSizes(b)
  BY <1>3, <1>6, <1>7, SumConcat
<1>9. SumSizes(a) \in Nat /\ SumSizes(b) \in Nat /\ e.size \in Nat
  BY <1>3, SumType, RecordSize
<1> QED  BY <1>3, <1>4, <1>8, <1>9

\* What a put of key k displaces
Displaced(es, k) == IF Overwrites(es, k) THEN es[FindFirst(es, k)].size ELSE 0

LEMMA SumIndexPut ==
  ASSUME NEW es \in Seq(Record), NEW k \in Keys, NEW s \in Sizes
  PROVE  /\ SumSizes(IndexPut(es, k, s)) = SumSizes(es) + s - Displaced(es, k)
         /\ Displaced(es, k) \in Nat
<1>1. SumSizes(es) \in Nat /\ s \in Nat  BY SumType, SizesAssumption
<1>2. CASE Overwrites(es, k)
  <2> DEFINE i == FindFirst(es, k)
  <2>1. i \in 1..Len(es) /\ IndexPut(es, k, s) = Overwrite(es, i, s)  BY <1>2, IndexPutIs
  <2>2. Displaced(es, k) = es[i].size  BY <1>2 DEF Displaced
  <2> HIDE DEF i
  <2>3. SumSizes(Overwrite(es, i, s)) = SumSizes(es) - es[i].size + s  BY <2>1, SumOverwrite
  <2>4. es[i].size \in Nat
    <3>1. es[i] \in Record  BY <2>1
    <3> QED  BY <3>1, RecordSize
  <2> QED  BY <1>1, <2>1, <2>2, <2>3, <2>4
<1>3. CASE ~Overwrites(es, k)
  <2>1. Rec(k, s) \in Record /\ Rec(k, s).size = s  BY RecIsRecord
  <2>2. IndexPut(es, k, s) = Behind(es, Rec(k, s))  BY <1>3, IndexPutIs
  <2>3. SumSizes(Behind(es, Rec(k, s))) = SumSizes(es) + s  BY <2>1, SumBehind
  <2>4. Displaced(es, k) = 0  BY <1>3 DEF Displaced
  <2> QED  BY <1>1, <2>2, <2>3, <2>4
<1> QED  BY <1>2, <1>3

\* A put of another key displaces what it displaced before ...
LEMMA DisplacedOther ==
  ASSUME NEW es \in Seq(Record), Sorted(es), duplicateKeys = "replace" => Distinct(es),
         NEW k \in Keys, NEW s \in Sizes, NEW l, l # k
  PROVE  Displaced(IndexPut(es, k, s), l) = Displaced(es, l)
<1> DEFINE t == IndexPut(es, k, s)
           j == FindFirst(es, l)
<1>1. t \in Seq(Record)  BY IndexPutIs
<1>2. Overwrites(t, l) <=> Overwrites(es, l)  BY IndexPutOrder DEF Overwrites
<1>3. CASE ~Overwrites(es, l)  BY <1>2, <1>3 DEF Displaced
<1>4. CASE Overwrites(es, l)
  <2>1. duplicateKeys = "replace" /\ HasKey(es, l)  BY <1>4 DEF Overwrites
  <2>2. Distinct(t)  BY <2>1, IndexPutOrder
  <2>3. j \in 1..Len(es) /\ es[j].key = l
    <3>1. j \in 0..Len(es) /\ es[j].key = l  BY <2>1, FindFirstIs
    <3> QED  BY <2>1, <3>1 DEF HasKey
  <2>4. \E n \in 1..Len(t) : t[n] = es[j]
    <3>1. CASE Overwrites(es, k)
      <4> DEFINE i == FindFirst(es, k)
      <4>1. i \in 1..Len(es) /\ es[i].key = k /\ t = Overwrite(es, i, s)
        BY <3>1, IndexPutIs
      <4> HIDE DEF i, j, t
      <4>2. /\ Len(t) = Len(es)
            /\ \A n \in 1..Len(es) : t[n] = IF n = i THEN Rec(es[i].key, s) ELSE es[n]
        BY <4>1, Overwritten
      <4>3. j # i  BY <2>3, <4>1
      <4> QED  BY <2>3, <4>2, <4>3
    <3>2. CASE ~Overwrites(es, k)
      <4>1. Rec(k, s) \in Record /\ t = Behind(es, Rec(k, s))  BY <3>2, IndexPutIs, RecIsRecord
      <4>2. PICK p : GoesAt(es, Rec(k, s), p) /\ IsInserted(t, es, Rec(k, s), p)
        BY <4>1, BehindInserts
      <4> HIDE DEF j, t
      <4>3. p \in 0..Len(es) /\ Len(es) \in Nat /\ Len(t) = Len(es) + 1
        BY <4>2 DEF GoesAt, IsInserted
      <4>4. CASE j <= p
        <5>1. j \in 1..Len(t) /\ t[j] = es[j]  BY <2>3, <4>2, <4>3, <4>4 DEF IsInserted
        <5> QED  BY <5>1
      <4>5. CASE j > p
        <5>1. j + 1 \in 1..Len(t) /\ (j + 1) - 1 = j  BY <2>3, <4>3
        <5>2. t[j + 1] = es[j]  BY <2>3, <4>2, <4>3, <4>5, <5>1 DEF IsInserted
        <5> QED  BY <5>1, <5>2
      <4> QED  BY <2>3, <4>3, <4>4, <4>5
    <3> QED  BY <3>1, <3>2
  <2>5. PICK n \in 1..Len(t) : t[n] = es[j]  BY <2>4
  <2>6. FindFirst(t, l) = n
    <3> HIDE DEF t, j
    <3> QED  BY <1>1, <2>2, <2>3, <2>5, FindFirstUnique
  <2>7. Displaced(t, l) = t[n].size  BY <1>2, <1>4, <2>6 DEF Displaced
  <2>8. Displaced(es, l) = es[j].size  BY <1>4 DEF Displaced
  <2> QED  BY <2>5, <2>7, <2>8
<1> QED  BY <1>3, <1>4

\* ... and under 'replace' one of the same key, what has just been put.
LEMMA DisplacedSame ==
  ASSUME NEW es \in Seq(Record), Sorted(es), Distinct(es), duplicateKeys = "replace",
         NEW k \in Keys, NEW s \in Sizes
  PROVE  Displaced(IndexPut(es, k, s), k) = s
<1>1. Overwrites(IndexPut(es, k, s), k)  BY IndexPutOrder DEF Overwrites
<1> QED  BY <1>1, IndexPutTwice DEF Displaced

-----------------------------------------------------------------------------
(* The folds over a batch. *)

\* What can be put: anything with a key and a size
Puttable(R) == \A e \in R : e.key \in Keys /\ e.size \in Sizes

LEMMA RecordPuttable == Puttable(Record)
BY RecordSize DEF Puttable

\* InsertInTurn, step by step
LEMMA InsertInTurnChain ==
  ASSUME NEW es \in Seq(Record), NEW R, Puttable(R), NEW batch \in Seq(R)
  PROVE  \E r : /\ r[0] = es
                /\ \A i \in 1..Len(batch) : r[i] = IndexPut(r[i - 1], batch[i].key, batch[i].size)
                /\ InsertInTurn(es, batch) = r[Len(batch)]
<1> DEFINE n == Len(batch)
           A == Seq(Record)
           st == [i \in 1..n |-> [x \in A |-> IndexPut(x, batch[i].key, batch[i].size)]]
<1>1. n \in Nat /\ DOMAIN batch = 1..n  OBVIOUS
<1>2. \A i \in 1..n, x \in A : IndexPut(x, batch[i].key, batch[i].size) \in A
  <2> SUFFICES ASSUME NEW i \in 1..n, NEW x \in A
               PROVE  IndexPut(x, batch[i].key, batch[i].size) \in A
    OBVIOUS
  <2>1. batch[i] \in R  OBVIOUS
  <2>2. batch[i].key \in Keys /\ batch[i].size \in Sizes  BY <2>1 DEF Puttable
  <2> QED  BY <2>2, IndexPutIs
<1>3. st \in [1..n -> [A -> A]]  BY <1>2
<1>4. PICK g : Solves(g, n, A, es, st)
  <2>1. es \in A  OBVIOUS
  <2> HIDE DEF st, n, A
  <2> QED  BY <1>1, <1>3, <2>1, RecursionHasSolution
<1>5. \A s \in SUBSET (1..n) : s # {} =>
        st[Max(s)][g[s \ {Max(s)}]] = IndexPut(g[s \ {Max(s)}], batch[Max(s)].key, batch[Max(s)].size)
  <2> SUFFICES ASSUME NEW s \in SUBSET (1..n), s # {}
               PROVE  st[Max(s)][g[s \ {Max(s)}]] = IndexPut(g[s \ {Max(s)}], batch[Max(s)].key, batch[Max(s)].size)
    OBVIOUS
  <2>1. Max(s) \in 1..n
    <3> HIDE DEF n, Max
    <3> QED  BY <1>1, MaxOfPositions
  <2>2. g[s \ {Max(s)}] \in A  BY <1>4 DEF Solves
  <2> HIDE DEF Max, n, A
  <2> QED  BY <2>1, <2>2
<1>6. g = [s \in SUBSET DOMAIN batch |->
             IF s = {} THEN es ELSE IndexPut(g[s \ {Max(s)}], batch[Max(s)].key, batch[Max(s)].size)]
  <2> HIDE DEF st, n, Max, A
  <2> QED  BY <1>1, <1>4, <1>5 DEF Solves
<1> DEFINE h == CHOOSE x : x = [s \in SUBSET DOMAIN batch |->
                  IF s = {} THEN es ELSE IndexPut(x[s \ {Max(s)}], batch[Max(s)].key, batch[Max(s)].size)]
<1>7. h = [s \in SUBSET DOMAIN batch |->
             IF s = {} THEN es ELSE IndexPut(h[s \ {Max(s)}], batch[Max(s)].key, batch[Max(s)].size)]
  <2> HIDE DEF Max
  <2> QED  BY <1>6
<1>8. InsertInTurn(es, batch) = h[DOMAIN batch]  BY DEF InsertInTurn, FoldLeft, MapThenFoldSet
<1> HIDE DEF h
<1> DEFINE r == [i \in 0..n |-> h[1..i]]
<1>9. r[0] = es
  <2>1. 1..0 = {} /\ {} \in SUBSET DOMAIN batch  OBVIOUS
  <2> HIDE DEF Max
  <2> QED  BY <1>1, <1>7, <2>1
<1>10. \A i \in 1..n : r[i] = IndexPut(r[i - 1], batch[i].key, batch[i].size)
  <2> SUFFICES ASSUME NEW i \in 1..n  PROVE h[1..i] = IndexPut(h[1..(i - 1)], batch[i].key, batch[i].size)
    OBVIOUS
  <2>1. /\ Max(1..i) = i
        /\ (1..i) \ {Max(1..i)} = 1..(i - 1)
        /\ 1..i # {} /\ 1..i \in SUBSET (1..n)
    <3> HIDE DEF Max, n
    <3> QED  BY <1>1, SolutionOfPrefix
  <2> HIDE DEF Max, n
  <2> QED  BY <1>1, <1>7, <2>1
<1>11. InsertInTurn(es, batch) = r[Len(batch)]  BY <1>1, <1>8
<1> HIDE DEF r
<1> QED  BY <1>9, <1>10, <1>11

LEMMA InsertInTurnEmpty ==
  ASSUME NEW es \in Seq(Record)
  PROVE  InsertInTurn(es, <<>>) = es
<1>1. <<>> \in Seq(Record) /\ Len(<<>>) = 0  OBVIOUS
<1> QED  BY <1>1, RecordPuttable, InsertInTurnChain

LEMMA InsertInTurnAppend ==
  ASSUME NEW es \in Seq(Record), NEW R, Puttable(R), NEW batch \in Seq(R), NEW e \in R
  PROVE  InsertInTurn(es, Append(batch, e)) = IndexPut(InsertInTurn(es, batch), e.key, e.size)
<1> DEFINE n == Len(batch)
           t == Append(batch, e)
<1>1. /\ n \in Nat /\ t \in Seq(R) /\ Len(t) = n + 1 /\ t[n + 1] = e
      /\ \A i \in 1..n : t[i] = batch[i]
  OBVIOUS
<1> HIDE DEF t
<1>2. PICK r : /\ r[0] = es
               /\ \A i \in 1..Len(batch) : r[i] = IndexPut(r[i - 1], batch[i].key, batch[i].size)
               /\ InsertInTurn(es, batch) = r[Len(batch)]
  BY InsertInTurnChain
<1>3. PICK q : /\ q[0] = es
               /\ \A i \in 1..Len(t) : q[i] = IndexPut(q[i - 1], t[i].key, t[i].size)
               /\ InsertInTurn(es, t) = q[Len(t)]
  BY <1>1, InsertInTurnChain
<1>4. \A i \in 1..n : r[i - 1] = q[i - 1] => r[i] = q[i]
  <2> SUFFICES ASSUME NEW i \in 1..n, r[i - 1] = q[i - 1]  PROVE r[i] = q[i]
    OBVIOUS
  <2>1. i \in 1..Len(t)  BY <1>1
  <2> QED  BY <1>1, <1>2, <1>3, <2>1
<1>5. r[n] = q[n]
  <2> HIDE DEF n
  <2> QED  BY <1>1, <1>2, <1>3, <1>4, ChainUnique
<1>6. n + 1 \in 1..Len(t) /\ (n + 1) - 1 = n  BY <1>1
<1>7. q[n + 1] = IndexPut(q[n], e.key, e.size)  BY <1>1, <1>3, <1>6
<1> QED  BY <1>1, <1>2, <1>3, <1>5, <1>7 DEF t

\* SortBatch, step by step
LEMMA SortBatchChain ==
  ASSUME NEW batch \in Seq(Record)
  PROVE  \E r : /\ r[0] = <<>>
                /\ \A i \in 1..Len(batch) : r[i] = Behind(r[i - 1], batch[i])
                /\ SortBatch(batch) = r[Len(batch)]
<1> DEFINE n == Len(batch)
           A == Seq(Record)
           st == [i \in 1..n |-> [x \in A |-> Behind(x, batch[i])]]
<1>1. n \in Nat /\ DOMAIN batch = 1..n  OBVIOUS
<1>2. \A i \in 1..n, x \in A : Behind(x, batch[i]) \in A
  <2> SUFFICES ASSUME NEW i \in 1..n, NEW x \in A  PROVE Behind(x, batch[i]) \in A
    OBVIOUS
  <2>1. batch[i] \in Record  OBVIOUS
  <2> QED  BY <2>1, BehindInserts
<1>3. st \in [1..n -> [A -> A]]  BY <1>2
<1>4. PICK g : Solves(g, n, A, <<>>, st)
  <2>1. <<>> \in A  OBVIOUS
  <2> HIDE DEF st, n, A
  <2> QED  BY <1>1, <1>3, <2>1, RecursionHasSolution
<1>5. \A s \in SUBSET (1..n) : s # {} =>
        st[Max(s)][g[s \ {Max(s)}]] = Behind(g[s \ {Max(s)}], batch[Max(s)])
  <2> SUFFICES ASSUME NEW s \in SUBSET (1..n), s # {}
               PROVE  st[Max(s)][g[s \ {Max(s)}]] = Behind(g[s \ {Max(s)}], batch[Max(s)])
    OBVIOUS
  <2>1. Max(s) \in 1..n
    <3> HIDE DEF n, Max
    <3> QED  BY <1>1, MaxOfPositions
  <2>2. g[s \ {Max(s)}] \in A  BY <1>4 DEF Solves
  <2> HIDE DEF Max, n, A
  <2> QED  BY <2>1, <2>2
<1>6. g = [s \in SUBSET DOMAIN batch |->
             IF s = {} THEN <<>> ELSE Behind(g[s \ {Max(s)}], batch[Max(s)])]
  <2> HIDE DEF st, n, Max, A
  <2> QED  BY <1>1, <1>4, <1>5 DEF Solves
<1> DEFINE h == CHOOSE x : x = [s \in SUBSET DOMAIN batch |->
                  IF s = {} THEN <<>> ELSE Behind(x[s \ {Max(s)}], batch[Max(s)])]
<1>7. h = [s \in SUBSET DOMAIN batch |->
             IF s = {} THEN <<>> ELSE Behind(h[s \ {Max(s)}], batch[Max(s)])]
  <2> HIDE DEF Max
  <2> QED  BY <1>6
<1>8. SortBatch(batch) = h[DOMAIN batch]  BY DEF SortBatch, FoldLeft, MapThenFoldSet
<1> HIDE DEF h
<1> DEFINE r == [i \in 0..n |-> h[1..i]]
<1>9. r[0] = <<>>
  <2>1. 1..0 = {} /\ {} \in SUBSET DOMAIN batch  OBVIOUS
  <2> HIDE DEF Max
  <2> QED  BY <1>1, <1>7, <2>1
<1>10. \A i \in 1..n : r[i] = Behind(r[i - 1], batch[i])
  <2> SUFFICES ASSUME NEW i \in 1..n  PROVE h[1..i] = Behind(h[1..(i - 1)], batch[i])
    OBVIOUS
  <2>1. /\ Max(1..i) = i
        /\ (1..i) \ {Max(1..i)} = 1..(i - 1)
        /\ 1..i # {} /\ 1..i \in SUBSET (1..n)
    <3> HIDE DEF Max, n
    <3> QED  BY <1>1, SolutionOfPrefix
  <2> HIDE DEF Max, n
  <2> QED  BY <1>1, <1>7, <2>1
<1>11. SortBatch(batch) = r[Len(batch)]  BY <1>1, <1>8
<1> HIDE DEF r
<1> QED  BY <1>9, <1>10, <1>11

LEMMA SortBatchEmpty == SortBatch(<<>>) = <<>>
<1>1. <<>> \in Seq(Record) /\ Len(<<>>) = 0  OBVIOUS
<1> QED  BY <1>1, SortBatchChain

LEMMA SortBatchAppend ==
  ASSUME NEW batch \in Seq(Record), NEW e \in Record
  PROVE  SortBatch(Append(batch, e)) = Behind(SortBatch(batch), e)
<1> DEFINE n == Len(batch)
           t == Append(batch, e)
<1>1. /\ n \in Nat /\ t \in Seq(Record) /\ Len(t) = n + 1 /\ t[n + 1] = e
      /\ \A i \in 1..n : t[i] = batch[i]
  OBVIOUS
<1> HIDE DEF t
<1>2. PICK r : /\ r[0] = <<>>
               /\ \A i \in 1..Len(batch) : r[i] = Behind(r[i - 1], batch[i])
               /\ SortBatch(batch) = r[Len(batch)]
  BY SortBatchChain
<1>3. PICK q : /\ q[0] = <<>>
               /\ \A i \in 1..Len(t) : q[i] = Behind(q[i - 1], t[i])
               /\ SortBatch(t) = q[Len(t)]
  BY <1>1, SortBatchChain
<1>4. \A i \in 1..n : r[i - 1] = q[i - 1] => r[i] = q[i]
  <2> SUFFICES ASSUME NEW i \in 1..n, r[i - 1] = q[i - 1]  PROVE r[i] = q[i]
    OBVIOUS
  <2>1. i \in 1..Len(t)  BY <1>1
  <2> QED  BY <1>1, <1>2, <1>3, <2>1
<1>5. r[n] = q[n]
  <2> HIDE DEF n
  <2> QED  BY <1>1, <1>2, <1>3, <1>4, ChainUnique
<1>6. n + 1 \in 1..Len(t) /\ (n + 1) - 1 = n  BY <1>1
<1>7. q[n + 1] = Behind(q[n], e)  BY <1>1, <1>3, <1>6
<1> QED  BY <1>1, <1>2, <1>3, <1>5, <1>7 DEF t

\* The sorted batch is sorted.
LEMMA SortBatchSorted ==
  ASSUME NEW batch \in Seq(Record)
  PROVE  SortBatch(batch) \in Seq(Record) /\ Sorted(SortBatch(batch))
<1> DEFINE S == {b \in Seq(Record) : SortBatch(b) \in Seq(Record) /\ Sorted(SortBatch(b))}
<1>1. <<>> \in S
  <2>1. <<>> \in Seq(Record) /\ Sorted(<<>>)  BY DEF Sorted
  <2> QED  BY <2>1, SortBatchEmpty
<1>2. \A b \in Seq(Record), e \in Record : b \in S => Append(b, e) \in S
  <2> SUFFICES ASSUME NEW b \in S, NEW e \in Record  PROVE Append(b, e) \in S
    OBVIOUS
  <2> DEFINE x == SortBatch(b)
  <2>1. x \in Seq(Record) /\ Sorted(x)  OBVIOUS
  <2>2. SortBatch(Append(b, e)) = Behind(x, e)  BY SortBatchAppend
  <2> HIDE DEF x
  <2>3. PICK p : GoesAt(x, e, p) /\ IsInserted(Behind(x, e), x, e, p)  BY <2>1, BehindInserts
  <2>4. Behind(x, e) \in Seq(Record)  BY <2>1, BehindInserts
  <2>5. Sorted(Behind(x, e))  BY <2>1, <2>3, InsertedSorted
  <2>6. Append(b, e) \in Seq(Record)  OBVIOUS
  <2> QED  BY <2>2, <2>4, <2>5, <2>6
<1>3. Seq(Record) \subseteq S
  <2> HIDE DEF S, Record
  <2> QED  BY <1>1, <1>2, SequenceInduction
<1> QED  BY <1>3

\* What putting needs of the index: sorted keys, under 'replace' distinct ones
Arranged(es) == Sorted(es) /\ (duplicateKeys = "replace" => Distinct(es))

LEMMA InsertInTurnArranged ==
  ASSUME NEW es \in Seq(Record), Arranged(es), NEW R, Puttable(R), NEW batch \in Seq(R)
  PROVE  InsertInTurn(es, batch) \in Seq(Record) /\ Arranged(InsertInTurn(es, batch))
<1> DEFINE S == {b \in Seq(R) : /\ InsertInTurn(es, b) \in Seq(Record)
                                /\ Arranged(InsertInTurn(es, b))}
<1>1. <<>> \in S
  <2>1. <<>> \in Seq(R)  OBVIOUS
  <2> QED  BY <2>1, InsertInTurnEmpty
<1>2. \A b \in Seq(R), e \in R : b \in S => Append(b, e) \in S
  <2> SUFFICES ASSUME NEW b \in S, NEW e \in R  PROVE Append(b, e) \in S
    OBVIOUS
  <2> DEFINE x == InsertInTurn(es, b)
  <2>1. x \in Seq(Record) /\ Arranged(x)  OBVIOUS
  <2>2. InsertInTurn(es, Append(b, e)) = IndexPut(x, e.key, e.size)  BY InsertInTurnAppend
  <2>3. e.key \in Keys /\ e.size \in Sizes  BY DEF Puttable
  <2> HIDE DEF x
  <2>4. IndexPut(x, e.key, e.size) \in Seq(Record)  BY <2>1, <2>3, IndexPutIs
  <2>5. Arranged(IndexPut(x, e.key, e.size))  BY <2>1, <2>3, IndexPutOrder DEF Arranged
  <2>6. Append(b, e) \in Seq(R)  OBVIOUS
  <2> QED  BY <2>2, <2>4, <2>5, <2>6
<1>3. Seq(R) \subseteq S
  <2> HIDE DEF S
  <2> QED  BY <1>1, <1>2, SequenceInduction
<1> QED  BY <1>3

\* Where a record goes in a sequence with one more element at its end
LEMMA BehindAppend ==
  ASSUME NEW t \in Seq(Record), NEW f \in Record, NEW e \in Record
  PROVE  /\ f.key <= e.key => Behind(Append(t, f), e) = Append(Append(t, f), e)
         /\ f.key > e.key => Behind(Append(t, f), e) = Append(Behind(t, e), f)
<1> DEFINE x == Append(t, f)
           n == Len(t)
<1>1. /\ n \in Nat /\ x \in Seq(Record) /\ Len(x) = n + 1 /\ x[n + 1] = f
      /\ \A i \in 1..n : x[i] = t[i]
  OBVIOUS
<1> HIDE DEF x
<1>2. PICK p : GoesAt(x, e, p) /\ IsInserted(Behind(x, e), x, e, p)  BY <1>1, BehindInserts
<1>3. Behind(x, e) \in Seq(Record)  BY <1>1, BehindInserts
<1>4. ASSUME f.key <= e.key  PROVE Behind(x, e) = Append(x, e)
  <2>1. GoesAt(x, e, n + 1)  BY <1>1, <1>4 DEF GoesAt
  <2>2. p = n + 1  BY <1>1, <1>2, <2>1, GoesAtUnique
  <2> DEFINE v == Append(x, e)
             u == Behind(x, e)
  <2>3. /\ v \in Seq(Record) /\ Len(v) = n + 2 /\ v[n + 2] = e
        /\ \A i \in 1..(n + 1) : v[i] = x[i]
    <3> HIDE DEF n
    <3>1. v[Len(x) + 1] = e /\ v \in Seq(Record) /\ Len(v) = Len(x) + 1
          /\ \A i \in 1..Len(x) : v[i] = x[i]
      BY <1>1, AppendProperties
    <3> QED  BY <1>1, <3>1
  <2> HIDE DEF u, v
  <2>4. Len(u) = n + 2 /\ u[n + 2] = e /\ \A i \in 1..(n + 1) : u[i] = x[i]
    BY <1>1, <1>2, <2>2 DEF IsInserted, u
  <2>5. \A i \in 1..Len(u) : u[i] = v[i]
    <3> SUFFICES ASSUME NEW i \in 1..Len(u)  PROVE u[i] = v[i]  OBVIOUS
    <3>1. i = n + 2 \/ i \in 1..(n + 1)  BY <1>1, <2>4
    <3> QED  BY <2>3, <2>4, <3>1
  <2>6. u = v
    <3> HIDE DEF Record
    <3> QED  BY <1>3, <2>3, <2>4, <2>5, SeqEqual DEF u
  <2> QED  BY <2>6 DEF u, v
<1>5. ASSUME f.key > e.key  PROVE Behind(x, e) = Append(Behind(t, e), f)
  <2> DEFINE w == Behind(t, e)
  <2>1. PICK q : GoesAt(t, e, q) /\ IsInserted(w, t, e, q)  BY BehindInserts
  <2>2. w \in Seq(Record)  BY BehindInserts
  <2> HIDE DEF w
  <2>3. q \in 0..n /\ Len(w) = n + 1  BY <1>1, <2>1 DEF GoesAt, IsInserted
  <2>4. GoesAt(x, e, q)
    <3>1. q \in 0..Len(x)  BY <1>1, <2>3
    <3>2. q > 0 => x[q].key <= e.key  BY <1>1, <2>1, <2>3 DEF GoesAt
    <3>3. ASSUME NEW i \in 1..Len(x), i > q  PROVE x[i].key > e.key
      <4>1. CASE i = n + 1  BY <1>1, <1>5, <4>1
      <4>2. CASE i \in 1..n  BY <1>1, <2>1, <3>3, <4>2 DEF GoesAt
      <4> QED  BY <1>1, <4>1, <4>2
    <3> QED  BY <3>1, <3>2, <3>3 DEF GoesAt
  <2>5. p = q  BY <1>1, <1>2, <2>4, GoesAtUnique
  <2> DEFINE v == Append(w, f)
             u == Behind(x, e)
  <2>6. /\ v \in Seq(Record) /\ Len(v) = n + 2 /\ v[n + 2] = f
        /\ \A i \in 1..(n + 1) : v[i] = w[i]
    <3> HIDE DEF n
    <3>1. v[Len(w) + 1] = f /\ v \in Seq(Record) /\ Len(v) = Len(w) + 1
          /\ \A i \in 1..Len(w) : v[i] = w[i]
      BY <2>2, AppendProperties
    <3> QED  BY <1>1, <2>3, <3>1
  <2> HIDE DEF v
  <2>7. /\ Len(u) = n + 2
        /\ \A i \in 1..(n + 2) :
             u[i] = IF i <= q THEN x[i] ELSE IF i = q + 1 THEN e ELSE x[i - 1]
    BY <1>1, <1>2, <2>5 DEF IsInserted
  <2> HIDE DEF u
  <2>8. \A i \in 1..Len(u) : u[i] = v[i]
    <3> SUFFICES ASSUME NEW i \in 1..Len(u)  PROVE u[i] = v[i]  OBVIOUS
    <3>1. u[i] = IF i <= q THEN x[i] ELSE IF i = q + 1 THEN e ELSE x[i - 1]  BY <2>7
    <3>2. CASE i = n + 2
      <4>1. ~(i <= q) /\ i # q + 1 /\ i - 1 = n + 1  BY <1>1, <2>3, <3>2
      <4> QED  BY <1>1, <2>6, <3>1, <3>2, <4>1
    <3>3. CASE i \in 1..(n + 1)
      <4>1. v[i] = IF i <= q THEN t[i] ELSE IF i = q + 1 THEN e ELSE t[i - 1]
        BY <1>1, <2>1, <2>6, <3>3 DEF IsInserted
      <4>2. CASE i <= q
        <5>1. x[i] = t[i]  BY <1>1, <2>3, <3>3, <4>2
        <5> QED  BY <3>1, <4>1, <4>2, <5>1
      <4>3. CASE i = q + 1
        <5>1. ~(i <= q)  BY <2>3, <4>3
        <5> QED  BY <3>1, <4>1, <4>3, <5>1
      <4>4. CASE i > q + 1
        <5>1. ~(i <= q) /\ i # q + 1 /\ i - 1 \in 1..n  BY <1>1, <2>3, <3>3, <4>4
        <5>2. x[i - 1] = t[i - 1]  BY <1>1, <5>1
        <5> QED  BY <3>1, <4>1, <5>1, <5>2
      <4> QED  BY <2>3, <3>3, <4>2, <4>3, <4>4
    <3> QED  BY <1>1, <2>7, <3>2, <3>3
  <2>9. u = v
    <3> HIDE DEF Record
    <3> QED  BY <1>3, <2>6, <2>7, <2>8, SeqEqual DEF u
  <2> QED  BY <2>9 DEF u, v, w
<1> QED  BY <1>4, <1>5 DEF x

\* Inserting a record into the batch is putting it last.
LEMMA InsertPast ==
  ASSUME NEW es \in Seq(Record), Arranged(es), NEW sb \in Seq(Record), NEW e \in Record
  PROVE  InsertInTurn(es, Behind(sb, e)) = IndexPut(InsertInTurn(es, sb), e.key, e.size)
<1> DEFINE S == {b \in Seq(Record) :
                   InsertInTurn(es, Behind(b, e)) = IndexPut(InsertInTurn(es, b), e.key, e.size)}
<1>1. <<>> \in S
  <2>1. <<>> \in Seq(Record) /\ Len(<<>>) = 0  OBVIOUS
  <2>2. PICK p : GoesAt(<<>>, e, p) /\ IsInserted(Behind(<<>>, e), <<>>, e, p)
    BY <2>1, BehindInserts
  <2>3. Behind(<<>>, e) \in Seq(Record)  BY <2>1, BehindInserts
  <2>4. p = 0  BY <2>1, <2>2 DEF GoesAt
  <2> DEFINE u == Behind(<<>>, e)
  <2>5. Len(u) = 1 /\ u[1] = e  BY <2>1, <2>2, <2>4 DEF IsInserted
  <2> HIDE DEF u
  <2>6. u = Append(<<>>, e)
    <3>1. u \in Seq(Record)  BY <2>3 DEF u
    <3>2. Append(<<>>, e) \in Seq(Record) /\ Len(Append(<<>>, e)) = 1 /\ Append(<<>>, e)[1] = e
      OBVIOUS
    <3>3. \A i \in 1..Len(u) : u[i] = Append(<<>>, e)[i]  BY <2>5, <3>2
    <3> HIDE DEF Record
    <3> QED  BY <2>5, <3>1, <3>2, <3>3, SeqEqual
  <2>7. InsertInTurn(es, u) = IndexPut(InsertInTurn(es, <<>>), e.key, e.size)
    <3> DEFINE z == <<>>
    <3>1. z \in Seq(Record) /\ u = Append(z, e)  BY <2>6
    <3> HIDE DEF z
    <3>2. InsertInTurn(es, u) = IndexPut(InsertInTurn(es, z), e.key, e.size)
      BY <3>1, RecordPuttable, InsertInTurnAppend
    <3> QED  BY <3>2 DEF z
  <2> QED  BY <2>1, <2>7 DEF u
<1>2. \A t \in Seq(Record), f \in Record : t \in S => Append(t, f) \in S
  <2> SUFFICES ASSUME NEW t \in S, NEW f \in Record  PROVE Append(t, f) \in S
    OBVIOUS
  <2> DEFINE x == InsertInTurn(es, t)
  <2>1. t \in Seq(Record) /\ Append(t, f) \in Seq(Record)  OBVIOUS
  <2>2. InsertInTurn(es, Append(t, f)) = IndexPut(x, f.key, f.size)
    BY <2>1, RecordPuttable, InsertInTurnAppend
  <2>3. InsertInTurn(es, Behind(t, e)) = IndexPut(x, e.key, e.size)  OBVIOUS
  <2>4. /\ e.key \in Keys /\ e.size \in Sizes /\ e.key \in Int
        /\ f.key \in Keys /\ f.size \in Sizes /\ f.key \in Int
    BY RecordSize
  <2>5. x \in Seq(Record) /\ Arranged(x)  BY <2>1, RecordPuttable, InsertInTurnArranged
  <2> HIDE DEF x
  <2>6. InsertInTurn(es, Behind(Append(t, f), e)) = IndexPut(IndexPut(x, f.key, f.size), e.key, e.size)
    <3>1. CASE f.key <= e.key
      <4>1. Behind(Append(t, f), e) = Append(Append(t, f), e)  BY <2>1, <3>1, BehindAppend
      <4>2. InsertInTurn(es, Append(Append(t, f), e))
              = IndexPut(InsertInTurn(es, Append(t, f)), e.key, e.size)
        BY <2>1, RecordPuttable, InsertInTurnAppend
      <4> QED  BY <2>2, <4>1, <4>2
    <3>2. CASE f.key > e.key
      <4>1. Behind(Append(t, f), e) = Append(Behind(t, e), f)  BY <2>1, <3>2, BehindAppend
      <4>2. Behind(t, e) \in Seq(Record)  BY <2>1, BehindInserts
      <4>3. InsertInTurn(es, Append(Behind(t, e), f))
              = IndexPut(InsertInTurn(es, Behind(t, e)), f.key, f.size)
        BY <4>2, RecordPuttable, InsertInTurnAppend
      <4>4. e.key # f.key  BY <2>4, <3>2
      <4>5. IndexPut(IndexPut(x, e.key, e.size), f.key, f.size)
              = IndexPut(IndexPut(x, f.key, f.size), e.key, e.size)
        BY <2>4, <2>5, <4>4, IndexPutCommutes DEF Arranged
      <4> QED  BY <2>3, <4>1, <4>3, <4>5
    <3> QED  BY <2>4, <3>1, <3>2
  <2> QED  BY <2>1, <2>2, <2>6
<1>3. Seq(Record) \subseteq S
  <2> HIDE DEF S, Record
  <2> QED  BY <1>1, <1>2, SequenceInduction
<1> QED  BY <1>3

\* putMany under strict sorts its batch, equal keys in the order given: inserting
\* the sorted batch leaves the index as inserting it in the order given does.
THEOREM SortedBatchSameEffect ==
  ASSUME NEW es \in Seq(Record), Arranged(es), NEW batch \in Seq(Record)
  PROVE  InsertInTurn(es, SortBatch(batch)) = InsertInTurn(es, batch)
<1> DEFINE S == {b \in Seq(Record) : InsertInTurn(es, SortBatch(b)) = InsertInTurn(es, b)}
<1>1. <<>> \in S
  <2>1. <<>> \in Seq(Record)  OBVIOUS
  <2> QED  BY <2>1, SortBatchEmpty
<1>2. \A b \in Seq(Record), e \in Record : b \in S => Append(b, e) \in S
  <2> SUFFICES ASSUME NEW b \in S, NEW e \in Record  PROVE Append(b, e) \in S
    OBVIOUS
  <2>1. b \in Seq(Record) /\ Append(b, e) \in Seq(Record)  OBVIOUS
  <2>2. SortBatch(Append(b, e)) = Behind(SortBatch(b), e)  BY <2>1, SortBatchAppend
  <2>3. SortBatch(b) \in Seq(Record)  BY <2>1, SortBatchSorted
  <2>4. InsertInTurn(es, Behind(SortBatch(b), e))
          = IndexPut(InsertInTurn(es, SortBatch(b)), e.key, e.size)
    BY <2>3, InsertPast
  <2>5. InsertInTurn(es, Append(b, e)) = IndexPut(InsertInTurn(es, b), e.key, e.size)
    BY <2>1, RecordPuttable, InsertInTurnAppend
  <2>6. InsertInTurn(es, SortBatch(b)) = InsertInTurn(es, b)  OBVIOUS
  <2> QED  BY <2>1, <2>2, <2>4, <2>5, <2>6
<1>3. Seq(Record) \subseteq S
  <2> HIDE DEF S, Record
  <2> QED  BY <1>1, <1>2, SequenceInduction
<1> QED  BY <1>3

-----------------------------------------------------------------------------
(* The first pass of putMany under strict. *)

Prepared == [key : Keys, size : Sizes, replaced : Nat]
Accumulated == [prepared : Seq(Prepared), delta : Int, bad : BOOLEAN]

LEMMA PreparedPuttable == Puttable(Prepared)
BY DEF Puttable, Prepared

LEMMA FrontLast ==
  ASSUME NEW R, NEW s \in Seq(R), s # <<>>
  PROVE  /\ Front(s) \in Seq(R) /\ Last(s) \in R
         /\ s = Append(Front(s), Last(s))
<1>1. Len(s) \in Nat /\ Len(s) # 0  OBVIOUS
<1>2. Last(s) \in R  BY <1>1 DEF Last
<1>3. 1 \in 1..(Len(s) + 1) /\ Len(s) - 1 \in (1 - 1)..Len(s)  BY <1>1
<1> DEFINE f == SubSeq(s, 1, Len(s) - 1)
<1>4. /\ f \in Seq(R) /\ Len(f) = (Len(s) - 1) - 1 + 1
      /\ \A i \in 1..((Len(s) - 1) - 1 + 1) : f[i] = s[1 + i - 1]
  BY <1>3, PartOf
<1> HIDE DEF f
<1> DEFINE t == Append(f, s[Len(s)])
<1>5. /\ t \in Seq(R) /\ Len(t) = Len(f) + 1
      /\ \A i \in 1..Len(f) : t[i] = f[i]
      /\ t[Len(f) + 1] = s[Len(s)]
  BY <1>1, <1>2, <1>4, AppendProperties DEF Last
<1> HIDE DEF t
<1>6. Len(t) = Len(s)  BY <1>1, <1>4, <1>5
<1>7. ASSUME NEW i \in 1..Len(s)  PROVE s[i] = t[i]
  <2>1. CASE i = Len(s)  BY <1>1, <1>4, <1>5, <2>1
  <2>2. CASE i < Len(s)
    <3>1. i \in 1..((Len(s) - 1) - 1 + 1) /\ 1 + i - 1 = i /\ i \in 1..Len(f)
      BY <1>1, <1>4, <2>2
    <3> QED  BY <1>4, <1>5, <3>1
  <2> QED  BY <1>1, <2>1, <2>2
<1>8. s = t  BY <1>5, <1>6, <1>7, SeqEqual
<1> QED  BY <1>2, <1>4, <1>8 DEF f, t, Front, Last

LEMMA ReplacedIsDisplaced ==
  ASSUME entries \in Seq(Record), NEW k
  PROVE  ReplacedInIndex(k) = Displaced(entries, k) /\ ReplacedInIndex(k) \in Nat
<1>1. ReplacedInIndex(k) = Displaced(entries, k)
  BY DEF ReplacedInIndex, Displaced, Overwrites, HasKey
<1>2. CASE Overwrites(entries, k)
  <2>1. FindFirst(entries, k) \in 1..Len(entries)
    <3>1. FindFirst(entries, k) \in 0..Len(entries)  BY FindFirstIs
    <3> QED  BY <1>2, <3>1 DEF Overwrites, HasKey
  <2>2. entries[FindFirst(entries, k)] \in Record  BY <2>1
  <2>3. entries[FindFirst(entries, k)].size \in Nat  BY <2>2, RecordSize
  <2> QED  BY <1>1, <1>2, <2>3 DEF Displaced
<1>3. CASE ~Overwrites(entries, k)  BY <1>1, <1>3 DEF Displaced
<1> QED  BY <1>1, <1>2, <1>3

\* An earlier entry of the batch has the same key.
InBatch(acc, e) == acc.prepared # <<>> /\ Last(acc.prepared).key = e.key
TakesBack(acc, e) == duplicateKeys = "replace" /\ InBatch(acc, e)
Entry(e, replaced) == [key |-> e.key, size |-> e.size, replaced |-> replaced]

LEMMA EntryIsPrepared ==
  ASSUME NEW e \in Record, NEW replaced \in Nat
  PROVE  /\ Entry(e, replaced) \in Prepared
         /\ Entry(e, replaced).key = e.key /\ Entry(e, replaced).size = e.size
<1>1. e.key \in Keys /\ e.size \in Sizes  BY RecordSize
<1> QED  BY <1>1 DEF Entry, Prepared

\* The entry joins those prepared before it ...
LEMMA PrepareJoins ==
  ASSUME entries \in Seq(Record), NEW acc \in Accumulated, NEW e \in Record,
         ~TakesBack(acc, e)
  PROVE  /\ PrepareEntry(acc, e) \in Accumulated
         /\ PrepareEntry(acc, e).prepared
              = Append(acc.prepared, Entry(e, Displaced(entries, e.key)))
         /\ PrepareEntry(acc, e).delta = acc.delta + e.size - Displaced(entries, e.key)
<1> DEFINE d == Displaced(entries, e.key)
           bad == \/ acc.bad
                  \/ duplicateKeys = "reject" /\ (InBatch(acc, e) \/ HasKey(entries, e.key))
                  \/ e.size > MaxSize
<1>1. d = ReplacedInIndex(e.key) /\ d \in Nat  BY ReplacedIsDisplaced
<1>2. PrepareEntry(acc, e) =
        [prepared |-> Append(acc.prepared, Entry(e, d)),
         delta |-> acc.delta - 0 + e.size - d,
         bad |-> acc.bad \/ (duplicateKeys = "reject" /\ (InBatch(acc, e) \/ HasKey(entries, e.key)))
                  \/ e.size > MaxSize]
  BY <1>1 DEF PrepareEntry, TakesBack, InBatch, Entry
<1> HIDE DEF d
<1>3. acc.prepared \in Seq(Prepared) /\ acc.delta \in Int /\ e.size \in Nat
  BY RecordSize DEF Accumulated
<1>4. Append(acc.prepared, Entry(e, d)) \in Seq(Prepared)
  <2>1. Entry(e, d) \in Prepared  BY <1>1, EntryIsPrepared
  <2> HIDE DEF Prepared
  <2> QED  BY <1>3, <2>1
<1>5. acc.delta - 0 + e.size - d = acc.delta + e.size - d /\ acc.delta + e.size - d \in Int
  BY <1>1, <1>3
<1> QED  BY <1>2, <1>4, <1>5 DEF Accumulated, d

\* ... or takes the place of the last one.
LEMMA PrepareTakesBack ==
  ASSUME entries \in Seq(Record), NEW acc \in Accumulated, NEW e \in Record,
         TakesBack(acc, e)
  PROVE  /\ PrepareEntry(acc, e) \in Accumulated
         /\ PrepareEntry(acc, e).prepared
              = Append(Front(acc.prepared), Entry(e, Last(acc.prepared).replaced))
         /\ PrepareEntry(acc, e).delta = acc.delta - Last(acc.prepared).size + e.size
<1> DEFINE l == Last(acc.prepared)
           f == Front(acc.prepared)
<1>1. acc.prepared \in Seq(Prepared) /\ acc.delta \in Int /\ e.size \in Nat
  BY RecordSize DEF Accumulated
<1>2. f \in Seq(Prepared) /\ l \in Prepared
  <2> HIDE DEF Prepared
  <2> QED  BY <1>1, FrontLast DEF TakesBack, InBatch
<1>3. PrepareEntry(acc, e) =
        [prepared |-> Append(f, Entry(e, l.replaced)),
         delta |-> acc.delta - (l.size - l.replaced) + e.size - l.replaced,
         bad |-> acc.bad \/ (duplicateKeys = "reject" /\ (InBatch(acc, e) \/ HasKey(entries, e.key)))
                  \/ e.size > MaxSize]
  BY DEF PrepareEntry, TakesBack, InBatch, Entry
<1> HIDE DEF l, f
<1>4. l.size \in Nat /\ l.replaced \in Nat  BY <1>2, SizesAssumption DEF Prepared
<1>5. Append(f, Entry(e, l.replaced)) \in Seq(Prepared)
  <2>1. Entry(e, l.replaced) \in Prepared  BY <1>4, EntryIsPrepared
  <2> HIDE DEF Prepared
  <2> QED  BY <1>2, <2>1
<1>6. /\ acc.delta - (l.size - l.replaced) + e.size - l.replaced = acc.delta - l.size + e.size
      /\ acc.delta - l.size + e.size \in Int
  BY <1>1, <1>4
<1> QED  BY <1>3, <1>5, <1>6 DEF Accumulated, l, f

\* What makes the batch bad
LEMMA PrepareBad ==
  ASSUME NEW acc \in Accumulated, NEW e \in Record, ~PrepareEntry(acc, e).bad
  PROVE  /\ ~acc.bad
         /\ duplicateKeys = "reject" => ~InBatch(acc, e) /\ ~HasKey(entries, e.key)
<1>1. PrepareEntry(acc, e).bad =
        (acc.bad \/ (duplicateKeys = "reject" /\ (InBatch(acc, e) \/ HasKey(entries, e.key)))
          \/ e.size > MaxSize)
  BY DEF PrepareEntry, InBatch
<1> QED  BY <1>1

LEMMA PrepareType ==
  ASSUME entries \in Seq(Record), NEW acc \in Accumulated, NEW e \in Record
  PROVE  PrepareEntry(acc, e) \in Accumulated
BY PrepareJoins, PrepareTakesBack

\* BuildStrictBatch, step by step
LEMMA BuildStrictBatchChain ==
  ASSUME entries \in Seq(Record), NEW batch \in Seq(Record), NEW sb, sb = SortBatch(batch)
  PROVE  \E r : /\ r[0] = NoBatch
                /\ \A i \in 1..Len(sb) : r[i] = PrepareEntry(r[i - 1], sb[i])
                /\ BuildStrictBatch(batch) = r[Len(sb)]
<1> DEFINE n == Len(sb)
           A == Accumulated
           st == [i \in 1..n |-> [x \in A |-> PrepareEntry(x, sb[i])]]
<1>1. n \in Nat /\ DOMAIN sb = 1..n /\ sb \in Seq(Record)
  <2>1. sb \in Seq(Record)  BY SortBatchSorted
  <2> QED  BY <2>1
<1>2. \A i \in 1..n, x \in A : PrepareEntry(x, sb[i]) \in A
  <2> SUFFICES ASSUME NEW i \in 1..n, NEW x \in A  PROVE PrepareEntry(x, sb[i]) \in A
    OBVIOUS
  <2>1. sb[i] \in Record  BY <1>1
  <2> QED  BY <2>1, PrepareType
<1>3. st \in [1..n -> [A -> A]]  BY <1>2
<1>4. PICK g : Solves(g, n, A, NoBatch, st)
  <2>1. NoBatch \in A  BY DEF NoBatch, Accumulated
  <2> HIDE DEF st, n, A
  <2> QED  BY <1>1, <1>3, <2>1, RecursionHasSolution
<1>5. \A s \in SUBSET (1..n) : s # {} =>
        st[Max(s)][g[s \ {Max(s)}]] = PrepareEntry(g[s \ {Max(s)}], sb[Max(s)])
  <2> SUFFICES ASSUME NEW s \in SUBSET (1..n), s # {}
               PROVE  st[Max(s)][g[s \ {Max(s)}]] = PrepareEntry(g[s \ {Max(s)}], sb[Max(s)])
    OBVIOUS
  <2>1. Max(s) \in 1..n
    <3> HIDE DEF n, Max
    <3> QED  BY <1>1, MaxOfPositions
  <2>2. g[s \ {Max(s)}] \in A  BY <1>4 DEF Solves
  <2> HIDE DEF Max, n, A
  <2> QED  BY <2>1, <2>2
<1>6. g = [s \in SUBSET DOMAIN sb |->
             IF s = {} THEN NoBatch ELSE PrepareEntry(g[s \ {Max(s)}], sb[Max(s)])]
  <2> HIDE DEF st, n, Max, A
  <2> QED  BY <1>1, <1>4, <1>5 DEF Solves
<1> DEFINE h == CHOOSE x : x = [s \in SUBSET DOMAIN sb |->
                  IF s = {} THEN NoBatch ELSE PrepareEntry(x[s \ {Max(s)}], sb[Max(s)])]
<1>7. h = [s \in SUBSET DOMAIN sb |->
             IF s = {} THEN NoBatch ELSE PrepareEntry(h[s \ {Max(s)}], sb[Max(s)])]
  <2> HIDE DEF Max
  <2> QED  BY <1>6
<1>8. BuildStrictBatch(batch) = h[DOMAIN sb]  BY DEF BuildStrictBatch, FoldLeft, MapThenFoldSet
<1> HIDE DEF h
<1> DEFINE r == [i \in 0..n |-> h[1..i]]
<1>9. r[0] = NoBatch
  <2>1. 1..0 = {} /\ {} \in SUBSET DOMAIN sb  OBVIOUS
  <2> HIDE DEF Max
  <2> QED  BY <1>1, <1>7, <2>1
<1>10. \A i \in 1..n : r[i] = PrepareEntry(r[i - 1], sb[i])
  <2> SUFFICES ASSUME NEW i \in 1..n  PROVE h[1..i] = PrepareEntry(h[1..(i - 1)], sb[i])
    OBVIOUS
  <2>1. /\ Max(1..i) = i
        /\ (1..i) \ {Max(1..i)} = 1..(i - 1)
        /\ 1..i # {} /\ 1..i \in SUBSET (1..n)
    <3> HIDE DEF Max, n
    <3> QED  BY <1>1, SolutionOfPrefix
  <2> HIDE DEF Max, n
  <2> QED  BY <1>1, <1>7, <2>1
<1>11. BuildStrictBatch(batch) = r[Len(sb)]  BY <1>1, <1>8
<1> HIDE DEF r
<1> QED  BY <1>9, <1>10, <1>11

-----------------------------------------------------------------------------
(* The second pass. *)

Applied == [es : Seq(Record), delta : Int]
NoneApplied == [es |-> entries, delta |-> 0]

LEMMA ApplyEntryType ==
  ASSUME NEW acc \in Applied, NEW e \in Prepared
  PROVE  /\ ApplyEntry(acc, e) \in Applied
         /\ ApplyEntry(acc, e).es = IndexPut(acc.es, e.key, e.size)
         /\ ApplyEntry(acc, e).delta
              = acc.delta + e.size - (IF HasKey(acc.es, e.key) THEN e.replaced ELSE 0)
<1>1. e.key \in Keys /\ e.size \in Sizes /\ e.size \in Nat /\ e.replaced \in Nat
  BY SizesAssumption DEF Prepared
<1>2. acc.es \in Seq(Record) /\ acc.delta \in Int  BY DEF Applied
<1>3. IndexPut(acc.es, e.key, e.size) \in Seq(Record)  BY <1>1, <1>2, IndexPutIs
<1> DEFINE r == IF HasKey(acc.es, e.key) THEN e.replaced ELSE 0
           t == IndexPut(acc.es, e.key, e.size)
<1>4. r \in Nat  BY <1>1
<1>5. ApplyEntry(acc, e) = [es |-> t, delta |-> acc.delta + e.size - r]  BY DEF ApplyEntry
<1> HIDE DEF r, t
<1>6. acc.delta + e.size - r \in Int  BY <1>1, <1>2, <1>4
<1> QED  BY <1>3, <1>5, <1>6 DEF Applied, r, t

\* ApplyStrictBatch, step by step
LEMMA ApplyStrictBatchChain ==
  ASSUME entries \in Seq(Record), NEW prepared \in Seq(Prepared)
  PROVE  \E r : /\ r[0] = NoneApplied
                /\ \A i \in 1..Len(prepared) : r[i] = ApplyEntry(r[i - 1], prepared[i])
                /\ ApplyStrictBatch(prepared) = r[Len(prepared)]
<1> DEFINE n == Len(prepared)
           A == Applied
           st == [i \in 1..n |-> [x \in A |-> ApplyEntry(x, prepared[i])]]
<1>1. n \in Nat /\ DOMAIN prepared = 1..n
  <2> HIDE DEF Prepared
  <2> QED  OBVIOUS
<1>2. \A i \in 1..n, x \in A : ApplyEntry(x, prepared[i]) \in A
  <2> SUFFICES ASSUME NEW i \in 1..n, NEW x \in A  PROVE ApplyEntry(x, prepared[i]) \in A
    OBVIOUS
  <2>1. prepared[i] \in Prepared
    <3> HIDE DEF Prepared
    <3> QED  BY <1>1
  <2> QED  BY <2>1, ApplyEntryType
<1>3. st \in [1..n -> [A -> A]]  BY <1>2
<1>4. PICK g : Solves(g, n, A, NoneApplied, st)
  <2>1. NoneApplied \in A  BY DEF NoneApplied, Applied
  <2> HIDE DEF st, n, A
  <2> QED  BY <1>1, <1>3, <2>1, RecursionHasSolution
<1>5. \A s \in SUBSET (1..n) : s # {} =>
        st[Max(s)][g[s \ {Max(s)}]] = ApplyEntry(g[s \ {Max(s)}], prepared[Max(s)])
  <2> SUFFICES ASSUME NEW s \in SUBSET (1..n), s # {}
               PROVE  st[Max(s)][g[s \ {Max(s)}]] = ApplyEntry(g[s \ {Max(s)}], prepared[Max(s)])
    OBVIOUS
  <2>1. Max(s) \in 1..n
    <3> HIDE DEF n, Max
    <3> QED  BY <1>1, MaxOfPositions
  <2>2. g[s \ {Max(s)}] \in A  BY <1>4 DEF Solves
  <2> HIDE DEF Max, n, A
  <2> QED  BY <2>1, <2>2
<1>6. g = [s \in SUBSET DOMAIN prepared |->
             IF s = {} THEN NoneApplied ELSE ApplyEntry(g[s \ {Max(s)}], prepared[Max(s)])]
  <2> HIDE DEF st, n, Max, A
  <2> QED  BY <1>1, <1>4, <1>5 DEF Solves
<1> DEFINE h == CHOOSE x : x = [s \in SUBSET DOMAIN prepared |->
                  IF s = {} THEN NoneApplied ELSE ApplyEntry(x[s \ {Max(s)}], prepared[Max(s)])]
<1>7. h = [s \in SUBSET DOMAIN prepared |->
             IF s = {} THEN NoneApplied ELSE ApplyEntry(h[s \ {Max(s)}], prepared[Max(s)])]
  <2> HIDE DEF Max
  <2> QED  BY <1>6
<1>8. ApplyStrictBatch(prepared) = h[DOMAIN prepared]  BY DEF ApplyStrictBatch, NoneApplied, FoldLeft, MapThenFoldSet
<1> HIDE DEF h
<1> DEFINE r == [i \in 0..n |-> h[1..i]]
<1>9. r[0] = NoneApplied
  <2>1. 1..0 = {} /\ {} \in SUBSET DOMAIN prepared  OBVIOUS
  <2> HIDE DEF Max
  <2> QED  BY <1>1, <1>7, <2>1
<1>10. \A i \in 1..n : r[i] = ApplyEntry(r[i - 1], prepared[i])
  <2> SUFFICES ASSUME NEW i \in 1..n  PROVE h[1..i] = ApplyEntry(h[1..(i - 1)], prepared[i])
    OBVIOUS
  <2>1. /\ Max(1..i) = i
        /\ (1..i) \ {Max(1..i)} = 1..(i - 1)
        /\ 1..i # {} /\ 1..i \in SUBSET (1..n)
    <3> HIDE DEF Max, n
    <3> QED  BY <1>1, SolutionOfPrefix
  <2> HIDE DEF Max, n
  <2> QED  BY <1>1, <1>7, <2>1
<1>11. ApplyStrictBatch(prepared) = r[Len(prepared)]  BY <1>1, <1>8
<1> HIDE DEF r
<1> QED  BY <1>9, <1>10, <1>11


LEMMA ApplyStrictBatchEmpty ==
  ASSUME entries \in Seq(Record)
  PROVE  ApplyStrictBatch(<<>>) = NoneApplied
<1>1. <<>> \in Seq(Prepared) /\ Len(<<>>) = 0  OBVIOUS
<1> QED  BY <1>1, ApplyStrictBatchChain

LEMMA ApplyStrictBatchAppend ==
  ASSUME entries \in Seq(Record), NEW prepared \in Seq(Prepared), NEW e \in Prepared
  PROVE  ApplyStrictBatch(Append(prepared, e)) = ApplyEntry(ApplyStrictBatch(prepared), e)
<1> DEFINE n == Len(prepared)
           t == Append(prepared, e)
<1>1. /\ n \in Nat /\ t \in Seq(Prepared) /\ Len(t) = n + 1 /\ t[n + 1] = e
      /\ \A i \in 1..n : t[i] = prepared[i]
  <2> HIDE DEF Prepared
  <2> QED  OBVIOUS
<1> HIDE DEF t
<1>2. PICK r : /\ r[0] = NoneApplied
               /\ \A i \in 1..n : r[i] = ApplyEntry(r[i - 1], prepared[i])
               /\ ApplyStrictBatch(prepared) = r[n]
  BY ApplyStrictBatchChain
<1>3. PICK q : /\ q[0] = NoneApplied
               /\ \A i \in 1..Len(t) : q[i] = ApplyEntry(q[i - 1], t[i])
               /\ ApplyStrictBatch(t) = q[Len(t)]
  BY <1>1, ApplyStrictBatchChain
<1> HIDE DEF n
<1>4. \A i \in 1..n : r[i - 1] = q[i - 1] => r[i] = q[i]
  <2> SUFFICES ASSUME NEW i \in 1..n, r[i - 1] = q[i - 1]  PROVE r[i] = q[i]
    OBVIOUS
  <2>1. i \in 1..Len(t) /\ t[i] = prepared[i]  BY <1>1
  <2> QED  BY <1>2, <1>3, <2>1
<1>5. r[n] = q[n]  BY <1>1, <1>2, <1>3, <1>4, ChainUnique
<1>6. n + 1 \in 1..Len(t) /\ (n + 1) - 1 = n  BY <1>1
<1>7. q[n + 1] = ApplyEntry(q[n], e)  BY <1>1, <1>3, <1>6
<1> QED  BY <1>1, <1>2, <1>3, <1>5, <1>7 DEF t

\* The second pass inserts in turn.
LEMMA ApplyInserts ==
  ASSUME entries \in Seq(Record), NEW prepared \in Seq(Prepared)
  PROVE  /\ ApplyStrictBatch(prepared) \in Applied
         /\ ApplyStrictBatch(prepared).es = InsertInTurn(entries, prepared)
<1> DEFINE S == {p \in Seq(Prepared) : /\ ApplyStrictBatch(p) \in Applied
                                       /\ ApplyStrictBatch(p).es = InsertInTurn(entries, p)}
<1>1. <<>> \in S
  <2>1. <<>> \in Seq(Prepared)  OBVIOUS
  <2>2. ApplyStrictBatch(<<>>) = NoneApplied  BY ApplyStrictBatchEmpty
  <2>3. NoneApplied \in Applied /\ NoneApplied.es = entries  BY DEF NoneApplied, Applied
  <2> QED  BY <2>1, <2>2, <2>3, InsertInTurnEmpty
<1>2. \A p \in Seq(Prepared), e \in Prepared : p \in S => Append(p, e) \in S
  <2> SUFFICES ASSUME NEW p \in S, NEW e \in Prepared  PROVE Append(p, e) \in S
    OBVIOUS
  <2>1. ApplyStrictBatch(Append(p, e)) = ApplyEntry(ApplyStrictBatch(p), e)
    BY ApplyStrictBatchAppend
  <2> DEFINE a == ApplyStrictBatch(p)
  <2>2. a \in Applied /\ a.es = InsertInTurn(entries, p)  OBVIOUS
  <2> HIDE DEF a
  <2>3. ApplyEntry(a, e) \in Applied /\ ApplyEntry(a, e).es = IndexPut(a.es, e.key, e.size)
    BY <2>2, ApplyEntryType
  <2>4. InsertInTurn(entries, Append(p, e))
          = IndexPut(InsertInTurn(entries, p), e.key, e.size)
    <3> HIDE DEF Prepared
    <3> QED  BY PreparedPuttable, InsertInTurnAppend
  <2>5. Append(p, e) \in Seq(Prepared)
    <3> HIDE DEF Prepared
    <3> QED  OBVIOUS
  <2> QED  BY <2>1, <2>2, <2>3, <2>4, <2>5 DEF a
<1>3. Seq(Prepared) \subseteq S
  <2> HIDE DEF S, Prepared
  <2> QED  BY <1>1, <1>2, SequenceInduction
<1> QED  BY <1>3

\* The delta the second pass counts for one more entry
LEMMA ApplyDelta ==
  ASSUME entries \in Seq(Record), NEW prepared \in Seq(Prepared), NEW e \in Prepared
  PROVE  /\ ApplyStrictBatch(Append(prepared, e)).delta
              = ApplyStrictBatch(prepared).delta + e.size
                  - (IF HasKey(InsertInTurn(entries, prepared), e.key) THEN e.replaced ELSE 0)
         /\ ApplyStrictBatch(prepared).delta \in Int
<1> DEFINE a == ApplyStrictBatch(prepared)
<1>1. a \in Applied /\ a.es = InsertInTurn(entries, prepared)  BY ApplyInserts
<1>2. ApplyStrictBatch(Append(prepared, e)) = ApplyEntry(a, e)  BY ApplyStrictBatchAppend
<1> HIDE DEF a
<1>3. ApplyEntry(a, e).delta
        = a.delta + e.size - (IF HasKey(a.es, e.key) THEN e.replaced ELSE 0)
  BY <1>1, ApplyEntryType
<1>4. a.delta \in Int  BY <1>1 DEF Applied
<1> QED  BY <1>1, <1>2, <1>3, <1>4 DEF a

\* What the first pass has found out, acc, against the index t that holds the
\* entries it has seen: the second pass makes that index, of that size, and
\* comes to the same delta.
Foresees(acc, t) ==
  /\ acc \in Accumulated /\ t \in Seq(Record) /\ Arranged(t)
  /\ InsertInTurn(entries, acc.prepared) = t
  /\ ApplyStrictBatch(acc.prepared).delta = acc.delta
  /\ SumSizes(t) = SumSizes(entries) + acc.delta
  /\ duplicateKeys = "reject" /\ ~acc.bad => Distinct(t)

\* The keys above those seen are as they were.
BelowAll(acc, k) == acc.prepared # <<>> => Last(acc.prepared).key < k
UntouchedAbove(acc, t) ==
  \A k \in Keys : BelowAll(acc, k) =>
    /\ Displaced(t, k) = Displaced(entries, k)
    /\ HasKey(t, k) <=> HasKey(entries, k)

LEMMA ArrangedPut ==
  ASSUME NEW t \in Seq(Record), Arranged(t), NEW e \in Record
  PROVE  /\ IndexPut(t, e.key, e.size) \in Seq(Record)
         /\ Arranged(IndexPut(t, e.key, e.size))
<1>1. e.key \in Keys /\ e.size \in Sizes  BY RecordSize
<1> QED  BY <1>1, IndexPutIs, IndexPutOrder DEF Arranged

\* The keys above stay as they were ...
LEMMA PrepareUntouched ==
  ASSUME NEW acc, NEW t \in Seq(Record), Arranged(t), NEW e \in Record,
         UntouchedAbove(acc, t), acc.prepared # <<>> => Last(acc.prepared).key \in Int,
         acc.prepared # <<>> => Last(acc.prepared).key <= e.key,
         NEW b, b.prepared # <<>>, Last(b.prepared).key = e.key
  PROVE  UntouchedAbove(b, IndexPut(t, e.key, e.size))
<1>1. e.key \in Keys /\ e.size \in Sizes /\ e.key \in Int  BY RecordSize
<1> SUFFICES ASSUME NEW k \in Keys, e.key < k
             PROVE  /\ Displaced(IndexPut(t, e.key, e.size), k) = Displaced(entries, k)
                    /\ HasKey(IndexPut(t, e.key, e.size), k) <=> HasKey(entries, k)
  BY DEF UntouchedAbove, BelowAll
<1>2. k \in Int /\ k # e.key  BY <1>1, KeysAssumption
<1>3. BelowAll(acc, k)  BY <1>1, <1>2 DEF BelowAll
<1>4. Displaced(t, k) = Displaced(entries, k) /\ (HasKey(t, k) <=> HasKey(entries, k))
  BY <1>3 DEF UntouchedAbove
<1>5. Displaced(IndexPut(t, e.key, e.size), k) = Displaced(t, k)
  BY <1>1, <1>2, DisplacedOther DEF Arranged
<1>6. HasKey(IndexPut(t, e.key, e.size), k) <=> HasKey(t, k) \/ e.key = k
  BY <1>1, IndexPutOrder DEF Arranged
<1> QED  BY <1>2, <1>4, <1>5, <1>6

\* ... and the next entry is foreseen, whether it joins those before it ...
LEMMA JoinForeseen ==
  ASSUME entries \in Seq(Record), NEW acc, NEW t, Foresees(acc, t), UntouchedAbove(acc, t),
         NEW e \in Record, acc.prepared # <<>> => Last(acc.prepared).key <= e.key,
         ~TakesBack(acc, e)
  PROVE  Foresees(PrepareEntry(acc, e), IndexPut(t, e.key, e.size))
<1> DEFINE b == PrepareEntry(acc, e)
           u == IndexPut(t, e.key, e.size)
           d == Displaced(entries, e.key)
<1>1. /\ acc \in Accumulated /\ t \in Seq(Record) /\ Arranged(t)
      /\ InsertInTurn(entries, acc.prepared) = t
      /\ SumSizes(t) = SumSizes(entries) + acc.delta
      /\ duplicateKeys = "reject" /\ ~acc.bad => Distinct(t)
  BY DEF Foresees
<1>2. e.key \in Keys /\ e.size \in Sizes /\ e.key \in Int /\ e.size \in Nat  BY RecordSize
<1>3. acc.prepared \in Seq(Prepared) /\ acc.delta \in Int  BY <1>1 DEF Accumulated
<1>4. /\ b \in Accumulated
      /\ b.prepared = Append(acc.prepared, Entry(e, d))
      /\ b.delta = acc.delta + e.size - d
  BY <1>1, PrepareJoins
<1>5. d \in Nat  BY ReplacedIsDisplaced
<1>6. acc.prepared # <<>> => Last(acc.prepared).key \in Int
  <2> SUFFICES ASSUME acc.prepared # <<>>  PROVE Last(acc.prepared).key \in Int
    OBVIOUS
  <2>1. Last(acc.prepared) \in Prepared
    <3> HIDE DEF Prepared
    <3> QED  BY <1>3, FrontLast
  <2> QED  BY <2>1, KeysAssumption DEF Prepared
<1>7. ~InBatch(acc, e) => BelowAll(acc, e.key)
  BY <1>2, <1>6 DEF InBatch, BelowAll
<1>8. Displaced(t, e.key) = d
  <2>1. CASE InBatch(acc, e)
    <3>1. duplicateKeys # "replace"  BY <2>1 DEF TakesBack
    <3> QED  BY <3>1 DEF Displaced, Overwrites
  <2>2. CASE ~InBatch(acc, e)
    BY <1>2, <1>7, <2>2 DEF UntouchedAbove
  <2> QED  BY <2>1, <2>2
<1>9. u \in Seq(Record) /\ Arranged(u)  BY <1>1, ArrangedPut
<1>10. InsertInTurn(entries, b.prepared) = u
  <2> DEFINE p == Entry(e, d)
  <2>1. p \in Prepared /\ p.key = e.key /\ p.size = e.size  BY <1>5, EntryIsPrepared
  <2> HIDE DEF p, Prepared
  <2>2. InsertInTurn(entries, Append(acc.prepared, p))
          = IndexPut(InsertInTurn(entries, acc.prepared), p.key, p.size)
    BY <1>3, <2>1, PreparedPuttable, InsertInTurnAppend
  <2> QED  BY <1>1, <1>4, <2>1, <2>2 DEF p
<1>11. SumSizes(u) = SumSizes(entries) + b.delta
  <2>1. SumSizes(u) = SumSizes(t) + e.size - Displaced(t, e.key)  BY <1>1, <1>2, SumIndexPut
  <2>2. SumSizes(entries) \in Nat  BY SumType
  <2> HIDE DEF u, b, d
  <2> DEFINE s == SumSizes(entries)
  <2>3. SumSizes(u) = s + acc.delta + e.size - d  BY <1>1, <1>8, <2>1
  <2>4. s \in Nat  BY <2>2
  <2> HIDE DEF s
  <2>5. SumSizes(u) = s + (acc.delta + e.size - d)  BY <1>2, <1>3, <1>5, <2>3, <2>4
  <2> QED  BY <1>4, <2>5 DEF s
<1>12. duplicateKeys = "reject" /\ ~b.bad => Distinct(u)
  <2> SUFFICES ASSUME duplicateKeys = "reject", ~b.bad  PROVE Distinct(u)
    OBVIOUS
  <2>1. ~acc.bad /\ ~InBatch(acc, e) /\ ~HasKey(entries, e.key)  BY <1>1, PrepareBad
  <2>2. ~HasKey(t, e.key)  BY <1>2, <1>7, <2>1 DEF UntouchedAbove
  <2>3. Distinct(t)  BY <1>1, <2>1
  <2> QED  BY <1>1, <1>2, <2>2, <2>3, IndexPutOrder DEF Arranged
<1>13. ApplyStrictBatch(b.prepared).delta = b.delta
  <2> DEFINE p == Entry(e, d)
             h == ApplyStrictBatch(acc.prepared).delta
             r == IF HasKey(t, e.key) THEN d ELSE 0
  <2>1. p \in Prepared /\ p.key = e.key /\ p.size = e.size /\ p.replaced = d
    BY <1>5, EntryIsPrepared DEF Entry
  <2> HIDE DEF p
  <2>2. ApplyStrictBatch(Append(acc.prepared, p)).delta = h + e.size - r
    BY <1>1, <1>3, <2>1, ApplyDelta
  <2>3. h = acc.delta  BY DEF Foresees
  <2>4. r = d  BY <1>8 DEF Displaced, Overwrites
  <2> HIDE DEF r, h, d, b
  <2>5. ApplyStrictBatch(Append(acc.prepared, p)).delta = acc.delta + e.size - d
    BY <2>2, <2>3, <2>4
  <2> QED  BY <1>4, <2>5 DEF p
<1> QED  BY <1>4, <1>9, <1>10, <1>11, <1>12, <1>13 DEF Foresees

\* ... or takes the place of the last.
LEMMA TakeBackForeseen ==
  ASSUME entries \in Seq(Record), Arranged(entries), NEW acc, NEW t, Foresees(acc, t),
         NEW e \in Record, TakesBack(acc, e)
  PROVE  Foresees(PrepareEntry(acc, e), IndexPut(t, e.key, e.size))
<1> DEFINE b == PrepareEntry(acc, e)
           u == IndexPut(t, e.key, e.size)
           f == Front(acc.prepared)
           l == Last(acc.prepared)
           x == InsertInTurn(entries, f)
<1>1. /\ acc \in Accumulated /\ t \in Seq(Record) /\ Arranged(t)
      /\ InsertInTurn(entries, acc.prepared) = t
      /\ SumSizes(t) = SumSizes(entries) + acc.delta
  BY DEF Foresees
<1>2. e.key \in Keys /\ e.size \in Sizes /\ e.size \in Nat  BY RecordSize
<1>3. acc.prepared \in Seq(Prepared) /\ acc.delta \in Int  BY <1>1 DEF Accumulated
<1>4. duplicateKeys = "replace" /\ acc.prepared # <<>> /\ l.key = e.key
  BY DEF TakesBack, InBatch
<1>5. f \in Seq(Prepared) /\ l \in Prepared /\ acc.prepared = Append(f, l)
  <2> HIDE DEF Prepared
  <2> QED  BY <1>3, <1>4, FrontLast
<1>6. l.size \in Sizes /\ l.size \in Nat /\ l.replaced \in Nat  BY <1>5, SizesAssumption DEF Prepared
<1>7. /\ b \in Accumulated
      /\ b.prepared = Append(f, Entry(e, l.replaced))
      /\ b.delta = acc.delta - l.size + e.size
  BY <1>1, PrepareTakesBack
<1> HIDE DEF f, l
<1>8. x \in Seq(Record) /\ Arranged(x)
  <2> HIDE DEF Prepared
  <2> QED  BY <1>5, PreparedPuttable, InsertInTurnArranged
<1>9. t = IndexPut(x, e.key, l.size)
  <2> HIDE DEF Prepared
  <2>1. InsertInTurn(entries, Append(f, l)) = IndexPut(x, l.key, l.size)
    BY <1>5, PreparedPuttable, InsertInTurnAppend
  <2> QED  BY <1>1, <1>4, <1>5, <2>1
<1>10. InsertInTurn(entries, b.prepared) = IndexPut(x, e.key, e.size)
  <2> DEFINE p == Entry(e, l.replaced)
  <2>1. p \in Prepared /\ p.key = e.key /\ p.size = e.size  BY <1>6, EntryIsPrepared
  <2> HIDE DEF p, Prepared
  <2>2. InsertInTurn(entries, Append(f, p)) = IndexPut(x, p.key, p.size)
    BY <1>5, <2>1, PreparedPuttable, InsertInTurnAppend
  <2> QED  BY <1>7, <2>1, <2>2 DEF p
<1> HIDE DEF x, b
<1>11. Sorted(x) /\ Distinct(x)  BY <1>4, <1>8 DEF Arranged
<1>12. u = IndexPut(x, e.key, e.size)
  BY <1>2, <1>4, <1>6, <1>8, <1>9, <1>11, IndexPutTwice
<1>13. u \in Seq(Record) /\ Arranged(u)  BY <1>1, ArrangedPut
<1>14. SumSizes(u) = SumSizes(entries) + b.delta
  <2>1. SumSizes(u) = SumSizes(t) + e.size - Displaced(t, e.key)  BY <1>1, <1>2, SumIndexPut
  <2>2. Displaced(t, e.key) = l.size
    BY <1>2, <1>4, <1>6, <1>8, <1>9, <1>11, DisplacedSame
  <2> DEFINE s == SumSizes(entries)
  <2>3. s \in Nat  BY SumType
  <2>4. SumSizes(u) = s + acc.delta + e.size - l.size  BY <1>1, <2>1, <2>2
  <2> HIDE DEF s, u
  <2>5. SumSizes(u) = s + (acc.delta - l.size + e.size)  BY <1>2, <1>3, <1>6, <2>3, <2>4
  <2> QED  BY <1>7, <2>5 DEF s
<1>15. duplicateKeys # "reject"  BY <1>4
<1>16. ApplyStrictBatch(b.prepared).delta = b.delta
  <2> DEFINE p == Entry(e, l.replaced)
             h == ApplyStrictBatch(f).delta
             r == IF HasKey(x, e.key) THEN l.replaced ELSE 0
  <2>1. p \in Prepared /\ p.key = e.key /\ p.size = e.size /\ p.replaced = l.replaced
    BY <1>6, EntryIsPrepared DEF Entry
  <2> HIDE DEF p
  <2>2. ApplyStrictBatch(Append(f, p)).delta = h + e.size - r /\ h \in Int
    BY <1>5, <2>1, ApplyDelta DEF x
  <2>3. ApplyStrictBatch(Append(f, l)).delta = h + l.size - r
    BY <1>4, <1>5, ApplyDelta DEF x
  <2>4. r \in Nat  BY <1>6
  <2>5. acc.delta = h + l.size - r  BY <1>5, <2>3 DEF Foresees
  <2> HIDE DEF r, h
  <2>6. h + e.size - r = acc.delta - l.size + e.size  BY <1>2, <1>6, <2>2, <2>4, <2>5
  <2>7. ApplyStrictBatch(b.prepared).delta = h + e.size - r  BY <1>7, <2>2 DEF p
  <2> QED  BY <1>7, <2>6, <2>7
<1> QED  BY <1>7, <1>10, <1>12, <1>13, <1>14, <1>15, <1>16 DEF Foresees, b

LEMMA LastOfAppend ==
  ASSUME NEW R, NEW s \in Seq(R), NEW x \in R
  PROVE  Append(s, x) # <<>> /\ Last(Append(s, x)) = x
<1>1. Append(s, x) \in Seq(R) /\ Len(Append(s, x)) = Len(s) + 1  OBVIOUS
<1>2. Append(s, x)[Len(s) + 1] = x  OBVIOUS
<1> QED  BY <1>1, <1>2 DEF Last

\* The entry is the last one prepared.
LEMMA PreparedLast ==
  ASSUME entries \in Seq(Record), NEW acc \in Accumulated, NEW e \in Record
  PROVE  /\ PrepareEntry(acc, e).prepared # <<>>
         /\ Last(PrepareEntry(acc, e).prepared).key = e.key
<1>1. acc.prepared \in Seq(Prepared)  BY DEF Accumulated
<1>2. CASE TakesBack(acc, e)
  <2> DEFINE p == Entry(e, Last(acc.prepared).replaced)
             f == Front(acc.prepared)
  <2>1. PrepareEntry(acc, e).prepared = Append(f, p)  BY <1>2, PrepareTakesBack
  <2>2. acc.prepared # <<>>  BY <1>2 DEF TakesBack, InBatch
  <2>3. f \in Seq(Prepared) /\ Last(acc.prepared) \in Prepared
    <3> HIDE DEF Prepared
    <3> QED  BY <1>1, <2>2, FrontLast
  <2>4. p \in Prepared /\ p.key = e.key
    <3>1. Last(acc.prepared).replaced \in Nat  BY <2>3 DEF Prepared
    <3> QED  BY <3>1, EntryIsPrepared
  <2> HIDE DEF p, f, Prepared
  <2> QED  BY <2>1, <2>3, <2>4, LastOfAppend
<1>3. CASE ~TakesBack(acc, e)
  <2> DEFINE p == Entry(e, Displaced(entries, e.key))
  <2>1. PrepareEntry(acc, e).prepared = Append(acc.prepared, p)  BY <1>3, PrepareJoins
  <2>2. p \in Prepared /\ p.key = e.key
    <3>1. Displaced(entries, e.key) \in Nat  BY ReplacedIsDisplaced
    <3> QED  BY <3>1, EntryIsPrepared
  <2> HIDE DEF p, Prepared
  <2> QED  BY <1>1, <2>1, <2>2, LastOfAppend
<1> QED  BY <1>2, <1>3

\* The first pass foresees the whole batch, in its sorted order ...
LEMMA SortedBatchForeseen ==
  ASSUME entries \in Seq(Record), Arranged(entries),
         duplicateKeys = "reject" => Distinct(entries), NEW batch \in Seq(Record)
  PROVE  Foresees(BuildStrictBatch(batch), InsertInTurn(entries, SortBatch(batch)))
<1> DEFINE sb == SortBatch(batch)
           n == Len(sb)
<1>1. sb \in Seq(Record) /\ Sorted(sb)  BY SortBatchSorted
<1>2. PICK r : /\ r[0] = NoBatch
               /\ \A i \in 1..n : r[i] = PrepareEntry(r[i - 1], sb[i])
               /\ BuildStrictBatch(batch) = r[n]
  BY BuildStrictBatchChain
<1> HIDE DEF sb
<1>3. PICK q : /\ q[0] = entries
               /\ \A i \in 1..n : q[i] = IndexPut(q[i - 1], sb[i].key, sb[i].size)
               /\ InsertInTurn(entries, sb) = q[n]
  <2> HIDE DEF Record
  <2> QED  BY <1>1, RecordPuttable, InsertInTurnChain
<1>4. n \in Nat  BY <1>1
<1> DEFINE G(i) == /\ Foresees(r[i], q[i])
                   /\ UntouchedAbove(r[i], q[i])
                   /\ i > 0 => r[i].prepared # <<>> /\ Last(r[i].prepared).key = sb[i].key
                   /\ i = 0 => r[i].prepared = <<>>
           S == {i \in 0..n : G(i)}
<1> HIDE DEF n
<1>5. 0 \in S
  <2>1. Foresees(NoBatch, entries)
    <3>1. NoBatch \in Accumulated  BY DEF NoBatch, Accumulated
    <3>2. InsertInTurn(entries, <<>>) = entries  BY InsertInTurnEmpty
    <3>3. SumSizes(entries) \in Nat  BY SumType
    <3>4. SumSizes(entries) = SumSizes(entries) + 0  BY <3>3
    <3>5. NoBatch.prepared = <<>> /\ NoBatch.delta = 0  BY DEF NoBatch
    <3>6. ApplyStrictBatch(<<>>).delta = 0  BY ApplyStrictBatchEmpty DEF NoneApplied
    <3> QED  BY <3>1, <3>2, <3>4, <3>5, <3>6 DEF Foresees
  <2>2. UntouchedAbove(NoBatch, entries)  BY DEF UntouchedAbove
  <2>3. NoBatch.prepared = <<>>  BY DEF NoBatch
  <2>4. G(0)  BY <1>2, <1>3, <2>1, <2>2, <2>3
  <2> QED  BY <1>4, <2>4
<1>6. \A i \in 0..(n - 1) : i \in S => i + 1 \in S
  <2> SUFFICES ASSUME NEW i \in 0..(n - 1), G(i)  PROVE G(i + 1)
    BY <1>4
  <2> DEFINE j == i + 1
             e == sb[j]
             acc == r[i]
             t == q[i]
  <2>1. j \in 1..n /\ j - 1 = i /\ j > 0  BY <1>4
  <2>2. e \in Record  BY <1>1, <2>1 DEF n
  <2>3. r[j] = PrepareEntry(acc, e) /\ q[j] = IndexPut(t, e.key, e.size)
    BY <1>2, <1>3, <2>1
  <2>4. acc \in Accumulated /\ t \in Seq(Record) /\ Arranged(t)  BY DEF Foresees
  <2>5. acc.prepared # <<>> => Last(acc.prepared).key <= e.key /\ Last(acc.prepared).key \in Int
    <3> SUFFICES ASSUME acc.prepared # <<>>
                 PROVE  Last(acc.prepared).key <= e.key /\ Last(acc.prepared).key \in Int
      OBVIOUS
    <3>1. i > 0 /\ i \in 1..n  BY <1>4
    <3>2. Last(acc.prepared).key = sb[i].key  BY <3>1
    <3>3. i < j  OBVIOUS
    <3>4. sb[i].key <= sb[j].key  BY <1>1, <2>1, <3>1, <3>3 DEF Sorted, n
    <3>5. sb[i].key \in Int  BY <1>1, <3>1, KeysAreNumbers DEF n
    <3> QED  BY <3>2, <3>4, <3>5
  <2> HIDE DEF j, e, acc, t
  <2>6. Foresees(acc, t) /\ UntouchedAbove(acc, t)  BY DEF acc, t
  <2> DEFINE b == PrepareEntry(acc, e)
             u == IndexPut(t, e.key, e.size)
  <2>7. b.prepared # <<>> /\ Last(b.prepared).key = e.key  BY <2>2, <2>4, PreparedLast
  <2>8. Foresees(b, u)
    BY <2>2, <2>5, <2>6, JoinForeseen, TakeBackForeseen
  <2> HIDE DEF b
  <2>9. UntouchedAbove(b, u)  BY <2>2, <2>4, <2>5, <2>6, <2>7, PrepareUntouched
  <2>10. j # 0  BY <2>1
  <2>11. G(j)  BY <2>1, <2>3, <2>7, <2>8, <2>9, <2>10 DEF b, e
  <2> QED  BY <2>11 DEF j
<1>7. 0..n \subseteq S
  <2> HIDE DEF S
  <2> QED  BY <1>4, <1>5, <1>6, BoundedInduction
<1>8. G(n)  BY <1>4, <1>7
<1> QED  BY <1>2, <1>3, <1>8 DEF sb

\* The two passes of putMany under strict agree, for every batch: the index the
\* second one leaves is that of the records put in the order given, and its
\* size has grown by the delta that the first one checked against the capacity
\* and that the second one counts again.  If the first refused nothing, the
\* keys are in order, and distinct where they must be.
THEOREM StrictBatch ==
  ASSUME entries \in Seq(Record), InOrder(entries), NEW batch \in Seq(Record)
  PROVE  LET built == BuildStrictBatch(batch)
             t     == InsertInTurn(entries, batch)
         IN  /\ built.bad \in BOOLEAN /\ built.delta \in Int
             /\ ApplyStrictBatch(built.prepared).es = t
             /\ ApplyStrictBatch(built.prepared).delta = built.delta
             /\ t \in Seq(Record)
             /\ SumSizes(t) = SumSizes(entries) + built.delta
             /\ duplicateKeys \in {"allow", "replace", "reject"} /\ ~built.bad => InOrder(t)
<1> DEFINE built == BuildStrictBatch(batch)
           t == InsertInTurn(entries, batch)
<1>1. Arranged(entries) /\ (duplicateKeys = "reject" => Distinct(entries))
  BY DEF Arranged, InOrder
<1>2. InsertInTurn(entries, SortBatch(batch)) = t  BY <1>1, SortedBatchSameEffect
<1>3. Foresees(built, t)  BY <1>1, <1>2, SortedBatchForeseen
<1> HIDE DEF built, t
<1>4. built.bad \in BOOLEAN /\ built.delta \in Int  BY <1>3 DEF Foresees, Accumulated
<1>5. /\ ApplyStrictBatch(built.prepared).es = t
      /\ ApplyStrictBatch(built.prepared).delta = built.delta
  <2>1. built.prepared \in Seq(Prepared)  BY <1>3 DEF Foresees, Accumulated
  <2> QED  BY <1>3, <2>1, ApplyInserts DEF Foresees
<1>6. t \in Seq(Record) /\ SumSizes(t) = SumSizes(entries) + built.delta
  BY <1>3 DEF Foresees
<1>7. duplicateKeys \in {"allow", "replace", "reject"} /\ ~built.bad => InOrder(t)
  BY <1>3 DEF Foresees, Arranged, InOrder
<1> QED  BY <1>4, <1>5, <1>6, <1>7 DEF built, t

-----------------------------------------------------------------------------
(* Records removed. *)

\* RemoveAt, by what is at each position
LEMMA RemovedAt ==
  ASSUME NEW es \in Seq(Record), NEW p \in 1..Len(es)
  PROVE  /\ RemoveAt(es, p) \in Seq(Record) /\ Len(RemoveAt(es, p)) = Len(es) - 1
         /\ \A i \in 1..(Len(es) - 1) :
              RemoveAt(es, p)[i] = IF i < p THEN es[i] ELSE es[i + 1]
<1> DEFINE n == Len(es)
           a == SubSeq(es, 1, p - 1)
           b == SubSeq(es, p + 1, n)
<1>1. n \in Nat /\ p \in 1..n  OBVIOUS
<1>2. 1 \in 1..(n + 1) /\ p - 1 \in (1 - 1)..n  BY <1>1
<1>3. p + 1 \in 1..(n + 1) /\ n \in ((p + 1) - 1)..n  BY <1>1
<1>4. /\ a \in Seq(Record) /\ Len(a) = (p - 1) - 1 + 1
      /\ \A i \in 1..((p - 1) - 1 + 1) : a[i] = es[1 + i - 1]
  <2> HIDE DEF Record
  <2> QED  BY <1>2, PartOf
<1>5. /\ b \in Seq(Record) /\ Len(b) = n - (p + 1) + 1
      /\ \A i \in 1..(n - (p + 1) + 1) : b[i] = es[(p + 1) + i - 1]
  <2> HIDE DEF Record
  <2> QED  BY <1>3, PartOf
<1> HIDE DEF a, b, n
<1>6. RemoveAt(es, p) = a \o b  BY DEF RemoveAt, a, b, n
<1>7. /\ a \o b \in Seq(Record) /\ Len(a \o b) = Len(a) + Len(b)
      /\ \A i \in 1..(Len(a) + Len(b)) :
           (a \o b)[i] = IF i <= Len(a) THEN a[i] ELSE b[i - Len(a)]
  <2> HIDE DEF Record
  <2> QED  BY <1>4, <1>5, ConcatProperties
<1>8. Len(a) = p - 1 /\ Len(b) = n - p  BY <1>1, <1>4, <1>5
<1>9. Len(a) + Len(b) = n - 1  BY <1>1, <1>8
<1>10. ASSUME NEW i \in 1..(n - 1)
       PROVE  (a \o b)[i] = IF i < p THEN es[i] ELSE es[i + 1]
  <2>1. CASE i < p
    <3>1. i \in 1..((p - 1) - 1 + 1) /\ 1 + i - 1 = i /\ i <= Len(a)
      BY <1>1, <1>8, <2>1
    <3> QED  BY <1>4, <1>7, <1>9, <2>1, <3>1
  <2>2. CASE i >= p
    <3> DEFINE j == i - (p - 1)
    <3>1. j \in 1..(n - (p + 1) + 1) /\ (p + 1) + j - 1 = i + 1 /\ ~(i <= Len(a)) /\ ~(i < p)
      BY <1>1, <1>8, <2>2
    <3>2. b[j] = es[i + 1]  BY <1>5, <3>1
    <3>3. (a \o b)[i] = b[j]  BY <1>7, <1>8, <1>9, <3>1
    <3> QED  BY <3>1, <3>2, <3>3
  <2>3. i < p \/ i >= p  BY <1>1
  <2> QED  BY <2>1, <2>2, <2>3
<1> QED  BY <1>6, <1>7, <1>9, <1>10 DEF n

\* t is a part of es: its elements are some of es, in their order.
\* f maps a position of t to the one it comes from.
IsPart(t, es, f) ==
  /\ \A i \in 1..Len(t) : f[i] \in 1..Len(es) /\ t[i] = es[f[i]]
  /\ \A i, j \in 1..Len(t) : i < j => f[i] < f[j]

LEMMA PartOrder ==
  ASSUME NEW es \in Seq(Record), NEW t \in Seq(Record), NEW f, IsPart(t, es, f)
  PROVE  /\ Sorted(es) => Sorted(t)
         /\ Distinct(es) => Distinct(t)
         /\ \A k : HasKey(t, k) => HasKey(es, k)
<1>1. Sorted(es) => Sorted(t)  BY DEF IsPart, Sorted
<1>2. ASSUME Distinct(es)  PROVE Distinct(t)
  <2> SUFFICES ASSUME NEW i \in 1..Len(t), NEW j \in 1..Len(t), t[i].key = t[j].key, i # j
               PROVE  FALSE
    BY DEF Distinct
  <2>1. f[i] = f[j]  BY <1>2 DEF IsPart, Distinct
  <2>2. f[i] \in Int /\ f[j] \in Int  BY DEF IsPart
  <2>3. i < j \/ j < i  OBVIOUS
  <2> QED  BY <2>1, <2>2, <2>3 DEF IsPart
<1>3. ASSUME NEW k, HasKey(t, k)  PROVE HasKey(es, k)
  <2>1. PICK i \in 1..Len(t) : t[i].key = k  BY <1>3, HasKeyIff
  <2>2. f[i] \in 1..Len(es) /\ es[f[i]].key = k  BY <2>1 DEF IsPart
  <2> QED  BY <2>2, HasKeyIff
<1> QED  BY <1>1, <1>2, <1>3

\* Without a record, the others stay in order, and of its key none is left.
LEMMA RemovedAtOrder ==
  ASSUME NEW es \in Seq(Record), NEW p \in 1..Len(es)
  PROVE  /\ Sorted(es) => Sorted(RemoveAt(es, p))
         /\ Distinct(es) => Distinct(RemoveAt(es, p))
         /\ Distinct(es) => ~HasKey(RemoveAt(es, p), es[p].key)
<1> DEFINE t == RemoveAt(es, p)
           n == Len(es)
           f == [i \in 1..Len(t) |-> IF i < p THEN i ELSE i + 1]
<1>1. /\ n \in Nat /\ p \in 1..n /\ t \in Seq(Record) /\ Len(t) = n - 1
      /\ \A i \in 1..(n - 1) : t[i] = IF i < p THEN es[i] ELSE es[i + 1]
  BY RemovedAt
<1> HIDE DEF t, n
<1>2. \A i \in 1..Len(t) : f[i] \in 1..n /\ f[i] # p /\ t[i] = es[f[i]]  BY <1>1
<1>3. \A i, j \in 1..Len(t) : i < j => f[i] < f[j]  BY <1>1
<1> HIDE DEF f
<1>4. IsPart(t, es, f)  BY <1>2, <1>3 DEF IsPart, n
<1>5. ASSUME Distinct(es)  PROVE ~HasKey(t, es[p].key)
  <2> SUFFICES ASSUME HasKey(t, es[p].key)  PROVE FALSE
    OBVIOUS
  <2>1. PICK i \in 1..Len(t) : t[i].key = es[p].key  BY <1>1, HasKeyIff
  <2>2. f[i] \in 1..n /\ f[i] # p /\ es[f[i]].key = es[p].key  BY <1>2, <2>1
  <2> QED  BY <1>1, <1>5, <2>2 DEF Distinct, n
<1> QED  BY <1>1, <1>4, <1>5, PartOrder DEF t

\* The end of a sequence
LEMMA TailOrder ==
  ASSUME NEW es \in Seq(Record), NEW n \in 0..Len(es)
  PROVE  LET t == SubSeq(es, n + 1, Len(es))
         IN  /\ t \in Seq(Record) /\ Len(t) = Len(es) - n
             /\ Sorted(es) => Sorted(t)
             /\ Distinct(es) => Distinct(t)
             /\ \A k : HasKey(t, k) => HasKey(es, k)
<1> DEFINE m == Len(es)
           t == SubSeq(es, n + 1, m)
           f == [i \in 1..Len(t) |-> n + i]
<1>1. m \in Nat /\ n \in 0..m  OBVIOUS
<1>2. n + 1 \in 1..(m + 1) /\ m \in ((n + 1) - 1)..m  BY <1>1
<1>3. /\ t \in Seq(Record) /\ Len(t) = m - (n + 1) + 1
      /\ \A i \in 1..(m - (n + 1) + 1) : t[i] = es[(n + 1) + i - 1]
  <2> HIDE DEF Record
  <2> QED  BY <1>2, PartOf
<1> HIDE DEF t, m
<1>4. Len(t) = m - n  BY <1>1, <1>3
<1>5. ASSUME NEW i \in 1..Len(t)
      PROVE  f[i] \in 1..m /\ t[i] = es[f[i]]
  <2>1. i \in 1..(m - (n + 1) + 1) /\ (n + 1) + i - 1 = n + i /\ n + i \in 1..m
    BY <1>1, <1>4
  <2> QED  BY <1>3, <2>1
<1>6. \A i, j \in 1..Len(t) : i < j => f[i] < f[j]  BY <1>1, <1>4
<1> HIDE DEF f
<1>7. IsPart(t, es, f)  BY <1>5, <1>6 DEF IsPart, m
<1> QED  BY <1>3, <1>4, <1>7, PartOrder DEF t, m

\* One turn of Without
Keeping(es, positions, kept, i) == IF i \in positions THEN kept ELSE Append(kept, es[i])

\* Without, step by step
LEMMA WithoutFold ==
  ASSUME NEW es \in Seq(Record), NEW positions, NEW ps, ps = [i \in DOMAIN es |-> i]
  PROVE  \E r : /\ r[0] = <<>>
                /\ \A i \in 1..Len(ps) : r[i] = Keeping(es, positions, r[i - 1], ps[i])
                /\ Without(es, positions) = r[Len(ps)]
<1> DEFINE n == Len(ps)
           A == Seq(Record)
           st == [i \in 1..n |-> [x \in A |-> Keeping(es, positions, x, ps[i])]]
<1>1. n \in Nat /\ DOMAIN ps = 1..n /\ n = Len(es) /\ \A i \in 1..n : ps[i] = i
  <2>1. Len(es) \in Nat /\ DOMAIN es = 1..Len(es)  OBVIOUS
  <2>2. DOMAIN ps = 1..Len(es) /\ \A i \in 1..Len(es) : ps[i] = i  BY <2>1
  <2>3. ps \in Seq(Nat)  BY <2>1, <2>2
  <2>4. Len(ps) = Len(es)  BY <2>1, <2>2, <2>3
  <2> QED  BY <2>1, <2>2, <2>4
<1>2. \A i \in 1..n, x \in A : Keeping(es, positions, x, ps[i]) \in A
  <2> SUFFICES ASSUME NEW i \in 1..n, NEW x \in A
               PROVE  Keeping(es, positions, x, ps[i]) \in A
    OBVIOUS
  <2>1. ps[i] \in 1..Len(es)  BY <1>1
  <2>2. es[ps[i]] \in Record  BY <2>1
  <2> HIDE DEF Record
  <2> QED  BY <2>2 DEF Keeping
<1>3. st \in [1..n -> [A -> A]]  BY <1>2
<1>4. PICK g : Solves(g, n, A, <<>>, st)
  <2>1. <<>> \in A  OBVIOUS
  <2> HIDE DEF st, n, A
  <2> QED  BY <1>1, <1>3, <2>1, RecursionHasSolution
<1>5. \A s \in SUBSET (1..n) : s # {} =>
        st[Max(s)][g[s \ {Max(s)}]] = Keeping(es, positions, g[s \ {Max(s)}], ps[Max(s)])
  <2> SUFFICES ASSUME NEW s \in SUBSET (1..n), s # {}
               PROVE  st[Max(s)][g[s \ {Max(s)}]] = Keeping(es, positions, g[s \ {Max(s)}], ps[Max(s)])
    OBVIOUS
  <2>1. Max(s) \in 1..n
    <3> HIDE DEF n, Max
    <3> QED  BY <1>1, MaxOfPositions
  <2>2. g[s \ {Max(s)}] \in A  BY <1>4 DEF Solves
  <2> HIDE DEF Max, n, A
  <2> QED  BY <2>1, <2>2
<1>6. g = [s \in SUBSET DOMAIN ps |->
             IF s = {} THEN <<>> ELSE Keeping(es, positions, g[s \ {Max(s)}], ps[Max(s)])]
  <2> HIDE DEF st, n, Max, A
  <2> QED  BY <1>1, <1>4, <1>5 DEF Solves
<1> DEFINE h == CHOOSE x : x = [s \in SUBSET DOMAIN ps |->
                  IF s = {} THEN <<>> ELSE Keeping(es, positions, x[s \ {Max(s)}], ps[Max(s)])]
<1>7. h = [s \in SUBSET DOMAIN ps |->
             IF s = {} THEN <<>> ELSE Keeping(es, positions, h[s \ {Max(s)}], ps[Max(s)])]
  <2> HIDE DEF Max
  <2> QED  BY <1>6
<1>8. Without(es, positions) = h[DOMAIN ps]  BY DEF Without, Keeping, FoldLeft, MapThenFoldSet
<1> HIDE DEF h
<1> DEFINE r == [i \in 0..n |-> h[1..i]]
<1>9. r[0] = <<>>
  <2>1. 1..0 = {} /\ {} \in SUBSET DOMAIN ps  OBVIOUS
  <2> HIDE DEF Max
  <2> QED  BY <1>1, <1>7, <2>1
<1>10. \A i \in 1..n : r[i] = Keeping(es, positions, r[i - 1], ps[i])
  <2> SUFFICES ASSUME NEW i \in 1..n  PROVE h[1..i] = Keeping(es, positions, h[1..(i - 1)], ps[i])
    OBVIOUS
  <2>1. /\ Max(1..i) = i
        /\ (1..i) \ {Max(1..i)} = 1..(i - 1)
        /\ 1..i # {} /\ 1..i \in SUBSET (1..n)
    <3> HIDE DEF Max, n
    <3> QED  BY <1>1, SolutionOfPrefix
  <2> HIDE DEF Max, n
  <2> QED  BY <1>1, <1>7, <2>1
<1>11. Without(es, positions) = r[Len(ps)]  BY <1>1, <1>8
<1> HIDE DEF r
<1> QED  BY <1>9, <1>10, <1>11


LEMMA WithoutChain ==
  ASSUME NEW es \in Seq(Record), NEW positions
  PROVE  \E r : /\ r[0] = <<>>
                /\ \A i \in 1..Len(es) : r[i] = Keeping(es, positions, r[i - 1], i)
                /\ Without(es, positions) = r[Len(es)]
<1> DEFINE ps == [i \in DOMAIN es |-> i]
<1>1. Len(es) \in Nat /\ DOMAIN es = 1..Len(es)  OBVIOUS
<1>2. ps \in Seq(Nat)  BY <1>1
<1>3. Len(ps) = Len(es) /\ \A i \in 1..Len(es) : ps[i] = i  BY <1>1, <1>2
<1> DEFINE w == Without(es, positions)
<1>4. PICK r : /\ r[0] = <<>>
               /\ \A i \in 1..Len(ps) : r[i] = Keeping(es, positions, r[i - 1], ps[i])
               /\ w = r[Len(ps)]
  <2> HIDE DEF w, Record
  <2> QED  BY WithoutFold DEF w
<1> HIDE DEF ps
<1> QED  BY <1>3, <1>4

LEMMA WithoutEmpty ==
  ASSUME NEW positions
  PROVE  Without(<<>>, positions) = <<>>
<1>1. <<>> \in Seq(Record) /\ Len(<<>>) = 0  OBVIOUS
<1> QED  BY <1>1, WithoutChain

LEMMA WithoutAppend ==
  ASSUME NEW es \in Seq(Record), NEW e \in Record, NEW positions
  PROVE  Without(Append(es, e), positions)
           = IF Len(es) + 1 \in positions THEN Without(es, positions)
             ELSE Append(Without(es, positions), e)
<1> DEFINE n == Len(es)
           t == Append(es, e)
<1>1. /\ n \in Nat /\ t \in Seq(Record) /\ Len(t) = n + 1 /\ t[n + 1] = e
      /\ \A i \in 1..n : t[i] = es[i]
  OBVIOUS
<1> HIDE DEF t
<1>2. PICK r : /\ r[0] = <<>>
               /\ \A i \in 1..n : r[i] = Keeping(es, positions, r[i - 1], i)
               /\ Without(es, positions) = r[n]
  BY WithoutChain
<1>3. PICK q : /\ q[0] = <<>>
               /\ \A i \in 1..Len(t) : q[i] = Keeping(t, positions, q[i - 1], i)
               /\ Without(t, positions) = q[Len(t)]
  BY <1>1, WithoutChain
<1> HIDE DEF n
<1>4. \A i \in 1..n : r[i - 1] = q[i - 1] => r[i] = q[i]
  <2> SUFFICES ASSUME NEW i \in 1..n, r[i - 1] = q[i - 1]  PROVE r[i] = q[i]
    OBVIOUS
  <2>1. i \in 1..Len(t) /\ t[i] = es[i]  BY <1>1
  <2> QED  BY <1>2, <1>3, <2>1 DEF Keeping
<1>5. r[n] = q[n]  BY <1>1, <1>2, <1>3, <1>4, ChainUnique
<1>6. n + 1 \in 1..Len(t) /\ (n + 1) - 1 = n  BY <1>1
<1>7. q[n + 1] = Keeping(t, positions, q[n], n + 1)  BY <1>3, <1>6
<1> QED  BY <1>1, <1>2, <1>3, <1>5, <1>7 DEF Keeping, t, n

LEMMA AppendOrder ==
  ASSUME NEW es \in Seq(Record), NEW e \in Record
  PROVE  /\ Append(es, e) \in Seq(Record)
         /\ Sorted(Append(es, e)) <=> Sorted(es) /\ \A k : HasKey(es, k) => k <= e.key
         /\ Distinct(Append(es, e)) <=> Distinct(es) /\ ~HasKey(es, e.key)
         /\ \A k : HasKey(Append(es, e), k) <=> HasKey(es, k) \/ e.key = k
<1> DEFINE n == Len(es)
           t == Append(es, e)
<1>1. /\ n \in Nat /\ t \in Seq(Record) /\ Len(t) = n + 1 /\ t[n + 1] = e
      /\ \A i \in 1..n : t[i] = es[i]
  OBVIOUS
<1> HIDE DEF t
<1>2. \A k : HasKey(es, k) <=> \E i \in 1..n : es[i].key = k  BY HasKeyIff
<1>3. \A k : HasKey(t, k) <=> \E i \in 1..(n + 1) : t[i].key = k  BY <1>1, HasKeyIff
<1> HIDE DEF n
<1>4. 1..(n + 1) = (1..n) \cup {n + 1}  BY <1>1
<1>5. \A k : HasKey(t, k) <=> HasKey(es, k) \/ e.key = k  BY <1>1, <1>2, <1>3, <1>4
<1>6. Sorted(t) => Sorted(es) /\ \A k : HasKey(es, k) => k <= e.key
  <2> SUFFICES ASSUME Sorted(t)  PROVE Sorted(es) /\ \A k : HasKey(es, k) => k <= e.key
    OBVIOUS
  <2>1. \A i, j \in 1..(n + 1) : i < j => t[i].key <= t[j].key  BY <1>1 DEF Sorted
  <2>2. \A i \in 1..n : i < n + 1 /\ i \in 1..(n + 1) /\ n + 1 \in 1..(n + 1)  BY <1>1
  <2>3. \A i \in 1..n : es[i].key <= e.key  BY <1>1, <2>1, <2>2
  <2>4. Sorted(es)  BY <1>1, <2>1, <2>2 DEF Sorted, n
  <2> QED  BY <1>2, <2>3, <2>4
<1>7. Sorted(es) /\ (\A k : HasKey(es, k) => k <= e.key) => Sorted(t)
  <2> SUFFICES ASSUME Sorted(es), \A k : HasKey(es, k) => k <= e.key,
                      NEW i \in 1..(n + 1), NEW j \in 1..(n + 1), i < j
               PROVE  t[i].key <= t[j].key
    BY <1>1 DEF Sorted
  <2>1. i \in 1..n  BY <1>1
  <2>2. CASE j = n + 1
    <3>1. HasKey(es, es[i].key)  BY <1>2, <2>1
    <3>2. es[i].key <= e.key  BY <3>1
    <3> QED  BY <1>1, <2>1, <2>2, <3>2
  <2>3. CASE j \in 1..n  BY <1>1, <2>1, <2>3 DEF Sorted, n
  <2> QED  BY <1>4, <2>2, <2>3
<1>8. Distinct(t) => Distinct(es) /\ ~HasKey(es, e.key)
  <2> SUFFICES ASSUME Distinct(t)  PROVE Distinct(es) /\ ~HasKey(es, e.key)
    OBVIOUS
  <2>1. \A i, j \in 1..(n + 1) : t[i].key = t[j].key => i = j  BY <1>1 DEF Distinct
  <2>2. \A i \in 1..n : i # n + 1 /\ i \in 1..(n + 1) /\ n + 1 \in 1..(n + 1)  BY <1>1
  <2>3. Distinct(es)  BY <1>1, <2>1, <2>2 DEF Distinct, n
  <2>4. \A i \in 1..n : es[i].key # e.key  BY <1>1, <2>1, <2>2
  <2> QED  BY <1>2, <2>3, <2>4
<1>9. Distinct(es) /\ ~HasKey(es, e.key) => Distinct(t)
  <2> SUFFICES ASSUME Distinct(es), ~HasKey(es, e.key),
                      NEW i \in 1..(n + 1), NEW j \in 1..(n + 1), t[i].key = t[j].key
               PROVE  i = j
    BY <1>1 DEF Distinct
  <2>1. \A p \in 1..n : t[p].key # e.key  BY <1>1, <1>2
  <2>2. CASE i = n + 1  BY <1>1, <1>4, <2>1, <2>2
  <2>3. CASE j = n + 1  BY <1>1, <1>4, <2>1, <2>3
  <2>4. CASE i \in 1..n /\ j \in 1..n  BY <1>1, <2>4 DEF Distinct, n
  <2> QED  BY <1>4, <2>2, <2>3, <2>4
<1> QED  BY <1>1, <1>5, <1>6, <1>7, <1>8, <1>9 DEF t

\* What removing records keeps: the order of the others, and no more size
LEMMA WithoutKeeps ==
  ASSUME NEW es \in Seq(Record), NEW positions
  PROVE  LET w == Without(es, positions)
         IN  /\ w \in Seq(Record)
             /\ SumSizes(w) <= SumSizes(es)
             /\ Sorted(es) => Sorted(w)
             /\ Distinct(es) => Distinct(w)
             /\ \A k : HasKey(w, k) => HasKey(es, k)
<1> DEFINE W(s) == Without(s, positions)
           G(s) == /\ W(s) \in Seq(Record)
                   /\ SumSizes(W(s)) <= SumSizes(s)
                   /\ Sorted(s) => Sorted(W(s))
                   /\ Distinct(s) => Distinct(W(s))
                   /\ \A k : HasKey(W(s), k) => HasKey(s, k)
           S == {s \in Seq(Record) : G(s)}
<1>1. <<>> \in S
  <2>1. <<>> \in Seq(Record)  OBVIOUS
  <2>2. W(<<>>) = <<>>  BY WithoutEmpty
  <2>3. SumSizes(<<>>) = 0  BY SumEmpty
  <2> DEFINE z == <<>>
  <2>4. z \in Seq(Record) /\ W(z) = z  BY <2>1, <2>2
  <2>5. SumSizes(z) <= SumSizes(z)  BY <2>3
  <2> HIDE DEF z, W
  <2>6. G(z)  BY <2>4, <2>5
  <2> QED  BY <2>4, <2>6 DEF z
<1>2. \A s \in Seq(Record), e \in Record : s \in S => Append(s, e) \in S
  <2> SUFFICES ASSUME NEW s \in Seq(Record), NEW e \in Record, G(s)
               PROVE  Append(s, e) \in S
    OBVIOUS
  <2> DEFINE t == Append(s, e)
  <2>1. /\ t \in Seq(Record)
        /\ Sorted(t) <=> Sorted(s) /\ \A k : HasKey(s, k) => k <= e.key
        /\ Distinct(t) <=> Distinct(s) /\ ~HasKey(s, e.key)
        /\ \A k : HasKey(t, k) <=> HasKey(s, k) \/ e.key = k
    BY AppendOrder
  <2>2. SumSizes(t) = SumSizes(s) + e.size  BY SumAppend
  <2>3. e.size \in Nat  BY RecordSize
  <2>4. SumSizes(s) \in Nat /\ SumSizes(W(s)) \in Nat  BY SumType
  <2>5. CASE Len(s) + 1 \in positions
    <3>1. W(t) = W(s)  BY <2>5, WithoutAppend
    <3> HIDE DEF W, t
    <3>2. SumSizes(W(t)) <= SumSizes(t)  BY <2>2, <2>3, <2>4, <3>1
    <3> QED  BY <2>1, <3>1, <3>2 DEF t
  <2>6. CASE Len(s) + 1 \notin positions
    <3>1. W(t) = Append(W(s), e)  BY <2>6, WithoutAppend
    <3> DEFINE w == W(s)
    <3>2. w \in Seq(Record)  OBVIOUS
    <3> HIDE DEF w
    <3>3. /\ Append(w, e) \in Seq(Record)
          /\ Sorted(Append(w, e)) <=> Sorted(w) /\ \A k : HasKey(w, k) => k <= e.key
          /\ Distinct(Append(w, e)) <=> Distinct(w) /\ ~HasKey(w, e.key)
          /\ \A k : HasKey(Append(w, e), k) <=> HasKey(w, k) \/ e.key = k
      BY <3>2, AppendOrder
    <3>4. SumSizes(Append(w, e)) = SumSizes(w) + e.size  BY <3>2, SumAppend
    <3>5. /\ SumSizes(w) <= SumSizes(s) /\ SumSizes(w) \in Nat
          /\ Sorted(s) => Sorted(w)
          /\ Distinct(s) => Distinct(w)
          /\ \A k : HasKey(w, k) => HasKey(s, k)
      BY <2>4 DEF w
    <3>6. W(t) = Append(w, e)  BY <3>1 DEF w
    <3> HIDE DEF W, t
    <3>7. SumSizes(W(t)) <= SumSizes(t)  BY <2>2, <2>3, <2>4, <3>4, <3>5, <3>6
    <3>8. Sorted(t) => Sorted(W(t))  BY <2>1, <3>3, <3>5, <3>6
    <3>9. Distinct(t) => Distinct(W(t))  BY <2>1, <3>3, <3>5, <3>6
    <3>10. \A k : HasKey(W(t), k) => HasKey(t, k)  BY <2>1, <3>3, <3>5, <3>6
    <3> QED  BY <2>1, <3>3, <3>6, <3>7, <3>8, <3>9, <3>10 DEF t
  <2> QED  BY <2>5, <2>6
<1>3. Seq(Record) \subseteq S
  <2> HIDE DEF S, Record
  <2> QED  BY <1>1, <1>2, SequenceInduction
<1>4. G(es)  BY <1>3
<1> QED  BY <1>4

\* Nothing removed
LEMMA WithoutNone ==
  ASSUME NEW es \in Seq(Record), NEW positions, positions \cap (1..Len(es)) = {}
  PROVE  Without(es, positions) = es
<1> DEFINE S == {s \in Seq(Record) : positions \cap (1..Len(s)) = {} => Without(s, positions) = s}
<1>1. <<>> \in S
  <2>1. <<>> \in Seq(Record)  OBVIOUS
  <2>2. Without(<<>>, positions) = <<>>  BY WithoutEmpty
  <2> QED  BY <2>1, <2>2
<1>2. \A s \in Seq(Record), e \in Record : s \in S => Append(s, e) \in S
  <2> SUFFICES ASSUME NEW s \in S, NEW e \in Record,
                      positions \cap (1..Len(Append(s, e))) = {}
               PROVE  Without(Append(s, e), positions) = Append(s, e)
    BY AppendOrder
  <2>1. Len(Append(s, e)) = Len(s) + 1 /\ Len(s) \in Nat  OBVIOUS
  <2>2. Len(s) + 1 \notin positions /\ positions \cap (1..Len(s)) = {}  BY <2>1
  <2>3. Without(Append(s, e), positions) = Append(Without(s, positions), e)
    BY <2>2, WithoutAppend
  <2> QED  BY <2>2, <2>3
<1>3. Seq(Record) \subseteq S
  <2> HIDE DEF S, Record
  <2> QED  BY <1>1, <1>2, SequenceInduction
<1> QED  BY <1>3

\* One record removed
LEMMA RemoveAtAppend ==
  ASSUME NEW es \in Seq(Record), NEW e \in Record, NEW p \in 1..(Len(es) + 1)
  PROVE  RemoveAt(Append(es, e), p)
           = IF p = Len(es) + 1 THEN es ELSE Append(RemoveAt(es, p), e)
<1> DEFINE n == Len(es)
           t == Append(es, e)
           x == RemoveAt(t, p)
<1>1. /\ n \in Nat /\ p \in 1..(n + 1) /\ t \in Seq(Record) /\ Len(t) = n + 1
      /\ t[n + 1] = e
      /\ \A i \in 1..n : t[i] = es[i]
  OBVIOUS
<1> HIDE DEF t
<1>2. /\ x \in Seq(Record) /\ Len(x) = Len(t) - 1
      /\ \A i \in 1..(Len(t) - 1) : x[i] = IF i < p THEN t[i] ELSE t[i + 1]
  BY <1>1, RemovedAt
<1>3. Len(x) = n  BY <1>1, <1>2
<1> HIDE DEF x
<1>4. CASE p = n + 1
  <2>1. ASSUME NEW i \in 1..Len(x)  PROVE x[i] = es[i]
    <3>1. i \in 1..(Len(t) - 1) /\ i < p /\ i \in 1..n  BY <1>1, <1>3, <1>4
    <3> QED  BY <1>1, <1>2, <3>1
  <2>2. x = es
    <3> HIDE DEF Record
    <3> QED  BY <1>2, <1>3, <2>1, SeqEqual DEF n
  <2> QED  BY <1>4, <2>2 DEF x, t, n
<1>5. CASE p \in 1..n
  <2> DEFINE y == RemoveAt(es, p)
             z == Append(y, e)
  <2>1. /\ y \in Seq(Record) /\ Len(y) = n - 1
        /\ \A i \in 1..(n - 1) : y[i] = IF i < p THEN es[i] ELSE es[i + 1]
    BY <1>5, RemovedAt
  <2> HIDE DEF y
  <2>2. /\ z \in Seq(Record) /\ Len(z) = Len(y) + 1 /\ z[Len(y) + 1] = e
        /\ \A i \in 1..Len(y) : z[i] = y[i]
    BY <2>1
  <2> HIDE DEF z, n
  <2>3. Len(z) = n /\ z[n] = e  BY <1>1, <2>1, <2>2
  <2>4. ASSUME NEW i \in 1..Len(x)  PROVE x[i] = z[i]
    <3>1. i \in 1..(Len(t) - 1) /\ i \in 1..n  BY <1>1, <1>3
    <3>2. CASE i = n
      <4>1. ~(i < p) /\ t[i + 1] = e  BY <1>1, <1>5, <3>2
      <4> QED  BY <1>2, <2>3, <3>1, <3>2, <4>1
    <3>3. CASE i < n
      <4>1. i \in 1..(n - 1) /\ i + 1 \in 1..n /\ i \in 1..Len(y)  BY <1>1, <2>1, <3>1, <3>3
      <4>2. t[i] = es[i] /\ t[i + 1] = es[i + 1]  BY <1>1, <3>1, <4>1
      <4> QED  BY <1>2, <2>1, <2>2, <3>1, <4>1, <4>2
    <3> QED  BY <1>1, <3>1, <3>2, <3>3
  <2>5. x = z
    <3>1. Len(x) = Len(z)  BY <1>3, <2>3
    <3> HIDE DEF Record
    <3> QED  BY <1>2, <2>2, <2>4, <3>1, SeqEqual
  <2>6. p # n + 1  BY <1>1, <1>5
  <2> QED  BY <2>5, <2>6 DEF x, y, z, t, n
<1> QED  BY <1>1, <1>4, <1>5

LEMMA WithoutOne ==
  ASSUME NEW es \in Seq(Record), NEW p \in 1..Len(es)
  PROVE  Without(es, {p}) = RemoveAt(es, p)
<1> DEFINE S == {s \in Seq(Record) : p \in 1..Len(s) => Without(s, {p}) = RemoveAt(s, p)}
<1>1. <<>> \in S
  <2>1. <<>> \in Seq(Record) /\ Len(<<>>) = 0 /\ p \notin 1..0  OBVIOUS
  <2> QED  BY <2>1
<1>2. \A s \in Seq(Record), e \in Record : s \in S => Append(s, e) \in S
  <2> SUFFICES ASSUME NEW s \in S, NEW e \in Record, p \in 1..Len(Append(s, e))
               PROVE  Without(Append(s, e), {p}) = RemoveAt(Append(s, e), p)
    BY AppendOrder
  <2>1. Len(Append(s, e)) = Len(s) + 1 /\ Len(s) \in Nat /\ p \in 1..(Len(s) + 1)  OBVIOUS
  <2>2. CASE p = Len(s) + 1
    <3>1. {p} \cap (1..Len(s)) = {}  BY <2>1, <2>2
    <3>2. Without(s, {p}) = s  BY <3>1, WithoutNone
    <3>3. Without(Append(s, e), {p}) = s  BY <2>2, <3>2, WithoutAppend
    <3> QED  BY <2>1, <2>2, <3>3, RemoveAtAppend
  <2>3. CASE p \in 1..Len(s)
    <3>1. Len(s) + 1 \notin {p}  BY <2>1, <2>3
    <3>2. Without(Append(s, e), {p}) = Append(Without(s, {p}), e)  BY <3>1, WithoutAppend
    <3>3. Without(s, {p}) = RemoveAt(s, p)  BY <2>3
    <3>4. RemoveAt(Append(s, e), p) = Append(RemoveAt(s, p), e)
      BY <2>1, <3>1, RemoveAtAppend
    <3> QED  BY <3>2, <3>3, <3>4
  <2> QED  BY <2>1, <2>2, <2>3
<1>3. Seq(Record) \subseteq S
  <2> HIDE DEF S, Record
  <2> QED  BY <1>1, <1>2, SequenceInduction
<1> QED  BY <1>3

\* Without the records of a key, where keys are distinct
LEMMA WithoutKey ==
  ASSUME NEW es \in Seq(Record), Distinct(es), NEW k
  PROVE  Without(es, Positions(es, k))
           = IF HasKey(es, k) THEN RemoveAt(es, FindFirst(es, k)) ELSE es
<1>1. DOMAIN es = 1..Len(es)  OBVIOUS
<1>2. CASE HasKey(es, k)
  <2>1. PICK i \in 1..Len(es) : es[i].key = k  BY <1>2, HasKeyIff
  <2>2. FindFirst(es, k) = i  BY <2>1, FindFirstUnique
  <2>3. Positions(es, k) = {i}  BY <1>1, <2>1 DEF Positions, Distinct
  <2> QED  BY <1>2, <2>1, <2>2, <2>3, WithoutOne
<1>3. CASE ~HasKey(es, k)
  <2>1. Positions(es, k) \cap (1..Len(es)) = {}  BY <1>1, <1>3, HasKeyIff DEF Positions
  <2> QED  BY <1>3, <2>1, WithoutNone
<1> QED  BY <1>2, <1>3

-----------------------------------------------------------------------------
(* Single mutations. *)

Configured == policy \in {"strict", "turnover"} /\ duplicateKeys \in {"allow", "replace", "reject"}

LEMMA TypeOKOrder ==
  ASSUME TypeOK
  PROVE  /\ Configured /\ entries \in Seq(Record) /\ InOrder(entries)
         /\ currentSizeBytes \in Nat /\ uncounted \in Nat /\ overcounted \in Nat
<1>1. /\ Configured /\ entries \in Seq(Record)
      /\ currentSizeBytes \in Nat /\ uncounted \in Nat /\ overcounted \in Nat
  BY DEF TypeOK, Configured
<1>2. DOMAIN entries = 1..Len(entries)  BY <1>1
<1>3. \A i \in 1..Len(entries) : entries[i].key \in Int  BY <1>1, KeysAreNumbers
<1>4. \A i, j \in 1..Len(entries) :
        i < j => IF duplicateKeys = "allow" THEN entries[i].key <= entries[j].key
                                            ELSE entries[i].key < entries[j].key
  BY <1>2 DEF TypeOK
<1> DEFINE es == entries
           m == Len(entries)
<1>5. m \in Nat  BY <1>1
<1> HIDE DEF m
<1>6. Sorted(entries)
  BY <1>3, <1>4 DEF Sorted, m
<1>7. ASSUME duplicateKeys # "allow"  PROVE Distinct(entries)
  <2> SUFFICES ASSUME NEW i \in 1..m, NEW j \in 1..m, entries[i].key = entries[j].key, i # j
               PROVE  FALSE
    BY DEF Distinct, m
  <2>1. i < j \/ j < i  BY <1>5
  <2> QED  BY <1>3, <1>4, <1>7, <2>1 DEF m
<1> QED  BY <1>1, <1>6, <1>7 DEF InOrder

\* The state after a mutation that leaves es
LEMMA OrderKept ==
  ASSUME Configured, UNCHANGED config, NEW es \in Seq(Record), InOrder(es), entries' = es,
         currentSizeBytes' \in Nat, uncounted' \in Nat, overcounted' \in Nat,
         last'.outcome \in {"none", "inserted", "duplicate", "refused", "quota"}
  PROVE  TypeOK'
<1>1. DOMAIN es = 1..Len(es)  OBVIOUS
<1>2. policy' = policy /\ duplicateKeys' = duplicateKeys  BY DEF config
<1>3. \A i \in 1..Len(es) : es[i].key \in Int  BY KeysAreNumbers
<1>4. Sorted(es) /\ (duplicateKeys # "allow" => Distinct(es))  BY DEF InOrder
<1>5. ASSUME NEW i \in 1..Len(es), NEW j \in 1..Len(es), i < j
      PROVE  IF duplicateKeys = "allow" THEN es[i].key <= es[j].key
                                        ELSE es[i].key < es[j].key
  <2>1. es[i].key <= es[j].key  BY <1>4, <1>5 DEF Sorted
  <2>2. duplicateKeys # "allow" => es[i].key # es[j].key  BY <1>4, <1>5 DEF Distinct
  <2> QED  BY <1>3, <2>1, <2>2
<1>6. (\A i, j \in DOMAIN entries :
         i < j => IF duplicateKeys = "allow" THEN entries[i].key <= entries[j].key
                                             ELSE entries[i].key < entries[j].key)'
  BY <1>1, <1>2, <1>5
<1>7. (entries \in Seq(Record))'  BY DEF Record
<1>8. (policy \in {"strict", "turnover"} /\ duplicateKeys \in {"allow", "replace", "reject"})'
  BY <1>2 DEF Configured
<1> QED  BY <1>6, <1>7, <1>8 DEF TypeOK

LEMMA MinusType ==
  ASSUME NEW a \in Int, NEW b \in Int
  PROVE  Minus(a, b) \in Nat /\ (a >= b => Minus(a, b) = a - b)
BY DEF Minus

\* SizeAccountedFor of numbers: t the records, c the size, u and o what the size
\* may be short of and over.
Within(t, c, u, o) == t - u <= c /\ c <= t + o /\ t <= MaxSize + u

LEMMA AccountedForIs == SizeAccountedFor <=> Within(SumSizes(entries), currentSizeBytes, uncounted, overcounted)
BY DEF SizeAccountedFor, Within, Total

\* A change of both by d that passed the capacity check, the size cut off at zero
LEMMA ChangeWithin ==
  ASSUME NEW t \in Nat, NEW c \in Nat, NEW u \in Nat, NEW o \in Nat, NEW d \in Int,
         t + d \in Nat, Within(t, c, u, o), d > 0 => c + d <= MaxSize
  PROVE  Within(t + d, IF c + d > 0 THEN c + d ELSE 0, u, o)
BY CapacityAssumption DEF Within

\* Records of g bytes leave, and one of s bytes that now fits comes.
LEMMA InsertionWithin ==
  ASSUME NEW t \in Nat, NEW c \in Nat, NEW u \in Nat, NEW o \in Nat, NEW g \in Nat, NEW s \in Nat,
         g <= t, Within(t, c, u, o), c - g + s <= MaxSize, s <= MaxSize
  PROVE  Within(t - g + s, Minus(c, g) + s, u, o)
BY CapacityAssumption DEF Within, Minus

LEMMA RemovalWithin ==
  ASSUME NEW t \in Nat, NEW c \in Nat, NEW u \in Nat, NEW o \in Nat, NEW g \in Nat,
         g <= t, Within(t, c, u, o)
  PROVE  Within(t - g, Minus(c, g), u, o)
BY CapacityAssumption DEF Within, Minus

\* The size stays where it is, and the difference is put to account.
LEMMA DriftWithin ==
  ASSUME NEW t \in Nat, NEW c \in Nat, NEW u \in Nat, NEW o \in Nat, NEW d \in Int,
         t + d \in Nat, Within(t, c, u, o)
  PROVE  /\ Within(t + d, c, u + Minus(d, 0), o + Minus(0, d))
         /\ u + Minus(d, 0) \in Nat /\ o + Minus(0, d) \in Nat
BY CapacityAssumption DEF Within, Minus

LEMMA FewestIs ==
  ASSUME NEW m \in Nat, NEW ns \in SUBSET (0..m), ns # {}
  PROVE  Fewest(ns) \in ns /\ \A x \in ns : Fewest(ns) <= x
<1>1. ns \in SUBSET Nat  OBVIOUS
<1>2. \E x \in ns : \A y \in ns : x <= y  BY <1>1, LeastElement
<1> QED  BY <1>2 DEF Fewest

\* What remains when the record to replace has left
LEMMA RemainingIs ==
  ASSUME entries \in Seq(Record), InOrder(entries), currentSizeBytes \in Nat,
         uncounted \in Nat, overcounted \in Nat, NEW k
  PROVE  LET rest == Remaining(k)
         IN  /\ rest.es \in Seq(Record) /\ rest.size \in Nat
             /\ InOrder(rest.es)
             /\ duplicateKeys = "replace" => ~HasKey(rest.es, k)
             /\ rest.es = IF duplicateKeys = "replace"
                          THEN Without(entries, Positions(entries, k)) ELSE entries
             /\ SumSizes(rest.es) <= SumSizes(entries)
             /\ SizeAccountedFor => Within(SumSizes(rest.es), rest.size, uncounted, overcounted)
<1> DEFINE i == FindFirst(entries, k)
           rest == Remaining(k)
<1>1. SumSizes(entries) \in Nat  BY SumType
<1>2. CASE duplicateKeys = "replace" /\ HasKey(entries, k)
  <2>1. Distinct(entries)  BY <1>2 DEF InOrder
  <2>2. i \in 1..Len(entries) /\ entries[i].key = k
    <3>1. i \in 0..Len(entries) /\ entries[i].key = k  BY <1>2, FindFirstIs
    <3> QED  BY <1>2, <3>1 DEF HasKey
  <2>3. rest = [es |-> RemoveAt(entries, i), size |-> Minus(currentSizeBytes, entries[i].size)]
    BY <1>2 DEF Remaining, HasKey
  <2>4. Without(entries, Positions(entries, k)) = RemoveAt(entries, i)
    BY <1>2, <2>1, WithoutKey
  <2> HIDE DEF i, rest
  <2>5. entries[i] \in Record  BY <2>2
  <2>6. entries[i].size \in Nat  BY <2>5, RecordSize
  <2>7. /\ RemoveAt(entries, i) \in Seq(Record)
        /\ SumSizes(RemoveAt(entries, i)) = SumSizes(entries) - entries[i].size
        /\ SumSizes(RemoveAt(entries, i)) \in Nat
    BY <2>2, SumRemoveAt, SumType
  <2>8. /\ Sorted(entries) => Sorted(RemoveAt(entries, i))
        /\ Distinct(RemoveAt(entries, i)) /\ ~HasKey(RemoveAt(entries, i), k)
    BY <2>1, <2>2, RemovedAtOrder
  <2> DEFINE size == entries[i].size
             a == SumSizes(entries)
             b == SumSizes(RemoveAt(entries, i))
  <2>9. size \in Nat /\ a \in Nat /\ b \in Nat /\ b = a - size  BY <1>1, <2>6, <2>7
  <2> HIDE DEF size, a, b
  <2>10. b <= a /\ a >= size  BY <2>9
  <2>11. Minus(currentSizeBytes, size) \in Nat
    <3>1. currentSizeBytes \in Int /\ size \in Int  BY <2>9
    <3> QED  BY <3>1, MinusType
  <2>12. Within(a, currentSizeBytes, uncounted, overcounted) =>
           Within(b, Minus(currentSizeBytes, size), uncounted, overcounted)
    BY <2>9, <2>10, RemovalWithin
  <2>13. rest.es = RemoveAt(entries, i) /\ rest.size = Minus(currentSizeBytes, size)
    BY <2>3 DEF size
  <2>14. InOrder(rest.es)  BY <2>8, <2>13 DEF InOrder
  <2> QED  BY <1>2, <2>4, <2>7, <2>8, <2>10, <2>11, <2>12, <2>13, <2>14, AccountedForIs DEF rest, a, b
<1>3. CASE ~(duplicateKeys = "replace" /\ HasKey(entries, k))
  <2>1. rest = [es |-> entries, size |-> currentSizeBytes]  BY <1>3 DEF Remaining, HasKey
  <2>2. duplicateKeys = "replace" => Without(entries, Positions(entries, k)) = entries
    BY <1>3, WithoutKey DEF InOrder
  <2>3. SumSizes(entries) <= SumSizes(entries)  BY <1>1
  <2> QED  BY <1>3, <2>1, <2>2, <2>3, AccountedForIs
<1> QED  BY <1>2, <1>3

\* The eviction before an insertion: n records leave at the front.
LEMMA RoomMade ==
  ASSUME entries \in Seq(Record), InOrder(entries), currentSizeBytes \in Nat, Configured,
         uncounted \in Nat, overcounted \in Nat,
         NEW k \in Keys, NEW s \in Sizes, ~DuplicateRejected(k),
         FitsAfter(Remaining(k), s) # {}
  PROVE  LET rest == Remaining(k)
             n    == Fewest(FitsAfter(rest, s))
             kept == SubSeq(rest.es, n + 1, Len(rest.es))
             new  == IndexPut(kept, k, s)
         IN  /\ n \in 0..Len(rest.es)
             /\ new \in Seq(Record) /\ InOrder(new)
             /\ Len(new) = Len(rest.es) - n + 1
             /\ SumSizes(new) = SumSizes(kept) + s
             /\ SumSizes(rest.es) = SumSizes(SubSeq(rest.es, 1, n)) + SumSizes(kept)
             /\ rest.size - SumSizes(SubSeq(rest.es, 1, n)) + s <= MaxSize
             /\ n > 0 => rest.size - SumSizes(SubSeq(rest.es, 1, n - 1)) + s > MaxSize
<1> DEFINE rest == Remaining(k)
           m == Len(rest.es)
           fits == FitsAfter(rest, s)
           n == Fewest(fits)
           kept == SubSeq(rest.es, n + 1, m)
           new == IndexPut(kept, k, s)
<1>1. /\ rest.es \in Seq(Record) /\ rest.size \in Nat
      /\ InOrder(rest.es)
      /\ duplicateKeys = "replace" => ~HasKey(rest.es, k)
      /\ duplicateKeys # "replace" => rest.es = entries
  BY RemainingIs
<1> HIDE DEF rest
<1>2. m \in Nat  BY <1>1
<1> DEFINE Fits(i) == rest.size - SumSizes(SubSeq(rest.es, 1, i)) + s <= MaxSize
<1>3. fits = {i \in 0..(IF policy = "turnover" THEN m ELSE 0) : Fits(i)}  BY DEF FitsAfter
<1> HIDE DEF Fits
<1>4. fits \in SUBSET (0..m) /\ fits # {}  BY <1>2, <1>3 DEF rest
<1>5. n \in fits /\ \A x \in fits : n <= x
  <2> HIDE DEF fits, m
  <2> QED  BY <1>2, <1>4, FewestIs
<1>6. n \in 0..m /\ Fits(n)  BY <1>3, <1>4, <1>5
<1>7. ASSUME n > 0  PROVE ~Fits(n - 1)
  <2>1. n \in 0..(IF policy = "turnover" THEN m ELSE 0)  BY <1>3, <1>5
  <2>2. n - 1 \in 0..(IF policy = "turnover" THEN m ELSE 0)  BY <1>2, <1>6, <1>7, <2>1
  <2>3. n - 1 \notin fits  BY <1>5, <1>6
  <2> QED  BY <1>3, <2>2, <2>3
<1> HIDE DEF n, fits
<1>8. /\ kept \in Seq(Record) /\ Len(kept) = m - n
      /\ Sorted(rest.es) => Sorted(kept)
      /\ Distinct(rest.es) => Distinct(kept)
      /\ \A x : HasKey(kept, x) => HasKey(rest.es, x)
  BY <1>1, <1>6, TailOrder
<1>9. SumSizes(rest.es) = SumSizes(SubSeq(rest.es, 1, n)) + SumSizes(kept)
      /\ SubSeq(rest.es, 1, n) \in Seq(Record)
  BY <1>1, <1>6, SumSplit
<1> HIDE DEF kept, m
<1>10. ~Overwrites(kept, k)  BY <1>1, <1>8 DEF Overwrites
<1>11. new \in Seq(Record) /\ new = Behind(kept, Rec(k, s))  BY <1>8, <1>10, IndexPutIs
<1>12. Len(new) = Len(kept) + 1
  <2>1. Rec(k, s) \in Record  BY RecIsRecord
  <2> QED  BY <1>8, <1>11, <2>1, BehindInserts DEF IsInserted
<1>13. Len(new) = m - n + 1  BY <1>2, <1>6, <1>8, <1>12
<1>14. SumSizes(new) = SumSizes(kept) + s
  <2>1. SumSizes(new) = SumSizes(kept) + s - Displaced(kept, k)  BY <1>8, SumIndexPut
  <2>2. Displaced(kept, k) = 0  BY <1>10 DEF Displaced
  <2>3. SumSizes(kept) \in Nat /\ s \in Nat  BY <1>8, SumType, SizesAssumption
  <2> QED  BY <2>1, <2>2, <2>3
<1>15. InOrder(new)
  <2>1. Sorted(new)  BY <1>1, <1>8, IndexPutOrder DEF InOrder
  <2>2. ASSUME duplicateKeys # "allow"  PROVE Distinct(new)
    <3>1. duplicateKeys = "replace" \/ duplicateKeys = "reject"  BY <2>2 DEF Configured
    <3>2. duplicateKeys = "reject" => ~HasKey(kept, k)
      BY <1>1, <1>8 DEF DuplicateRejected
    <3>3. Sorted(kept) /\ Distinct(kept)  BY <1>1, <1>8, <2>2 DEF InOrder
    <3> QED  BY <1>8, <3>1, <3>2, <3>3, IndexPutOrder
  <2> QED  BY <2>1, <2>2 DEF InOrder
<1>16. n > 0 => rest.size - SumSizes(SubSeq(rest.es, 1, n - 1)) + s > MaxSize
  <2> SUFFICES ASSUME n > 0
               PROVE  rest.size - SumSizes(SubSeq(rest.es, 1, n - 1)) + s > MaxSize
    OBVIOUS
  <2>1. n - 1 \in 0..Len(rest.es)  BY <1>2, <1>6 DEF m
  <2>2. SubSeq(rest.es, 1, n - 1) \in Seq(Record)  BY <1>1, <2>1, SumSplit
  <2>3. SumSizes(SubSeq(rest.es, 1, n - 1)) \in Nat /\ s \in Nat /\ MaxSize \in Nat
    BY <2>2, SumType, SizesAssumption, CapacityAssumption
  <2> QED  BY <1>1, <1>7, <2>3 DEF Fits
<1> QED  BY <1>6, <1>9, <1>11, <1>13, <1>14, <1>15, <1>16 DEF Fits, rest, m, n, kept, fits

-----------------------------------------------------------------------------
(* The invariant, action by action. *)

\* The records are in order and the size is accounted for whatever came before,
\* which makes the two inductive; what the last put promised follows from them
\* at every step.
IInv == TypeOK /\ SizeAccountedFor
Promises == BatchIsAtomic /\ EvictsOnlyWhatIsNeeded /\ TurnoverMakesRoom

\* IndexPut, the configuration a parameter: it is the same before a step and after
PutUnder(d, es, k, s) ==
  IF d = "replace" /\ HasKey(es, k)
  THEN [es EXCEPT ![FindFirst(es, k)].size = s]
  ELSE Behind(es, Rec(k, s))

LEMMA NoPutPromises ==
  ASSUME last' = NoPut
  PROVE  Promises'
<1>1. last'.outcome = "none" /\ last'.asked = <<>>  BY DEF NoPut
<1>2. Len(<<>>) = 0  OBVIOUS
<1>3. BatchIsAtomic'  BY <1>1, <1>2 DEF BatchIsAtomic
<1>4. EvictsOnlyWhatIsNeeded'  BY <1>1 DEF EvictsOnlyWhatIsNeeded
<1>5. TurnoverMakesRoom'  BY <1>1 DEF TurnoverMakesRoom
<1> QED  BY <1>3, <1>4, <1>5 DEF Promises

\* A put that is no insertion, seen from what it promises
LEMMA OutcomePromises ==
  ASSUME NEW k \in Keys, NEW s \in Sizes, NEW how, Outcome(<<Rec(k, s)>>, how),
         how # "inserted",
         policy' = "turnover" /\ how = "quota" => s + overcounted > MaxSize
  PROVE  Promises'
<1>1. last'.asked = <<Rec(k, s)>> /\ last'.outcome = how /\ last'.off = overcounted
  BY DEF Outcome
<1>2. Len(last'.asked) = 1 /\ last'.asked[1] = Rec(k, s)  BY <1>1
<1>3. BatchIsAtomic'  BY <1>2 DEF BatchIsAtomic
<1>4. EvictsOnlyWhatIsNeeded'  BY <1>1 DEF EvictsOnlyWhatIsNeeded
<1>5. last'.asked[1].size = s  BY <1>2 DEF Rec
<1>6. TurnoverMakesRoom'  BY <1>1, <1>5 DEF TurnoverMakesRoom
<1> QED  BY <1>3, <1>4, <1>6 DEF Promises

\* Nothing changes but what is remembered of the put.
LEMMA NothingChanges ==
  ASSUME IInv, UNCHANGED <<config, entries, currentSizeBytes, drift>>,
         last'.outcome \in {"none", "inserted", "duplicate", "refused", "quota"}
  PROVE  IInv'
<1>1. /\ Configured /\ entries \in Seq(Record) /\ InOrder(entries)
      /\ currentSizeBytes \in Nat /\ uncounted \in Nat /\ overcounted \in Nat
  BY TypeOKOrder DEF IInv
<1>2. uncounted' = uncounted /\ overcounted' = overcounted  BY DEF drift
<1>3. TypeOK'  BY <1>1, <1>2, OrderKept
<1>4. SizeAccountedFor'  BY <1>2 DEF IInv, SizeAccountedFor, Total
<1> QED  BY <1>3, <1>4 DEF IInv

LEMMA PutRefusedKeeps ==
  ASSUME IInv, NEW k \in Keys, NEW s \in Sizes, PutRefused(k, s), UNCHANGED config
  PROVE  IInv' /\ Promises'
<1> DEFINE how == IF DuplicateRejected(k) THEN "duplicate" ELSE "quota"
<1>1. Outcome(<<Rec(k, s)>>, how) /\ (~DuplicateRejected(k) => s > MaxSize)
  BY DEF PutRefused
<1>2. last'.outcome = how  BY <1>1 DEF Outcome
<1>3. IInv'  BY <1>2, NothingChanges DEF PutRefused
<1>4. Promises'
  <2>1. how # "inserted" /\ (how = "quota" => s + overcounted > MaxSize)
    <3>1. overcounted \in Nat /\ s \in Nat  BY SizesAssumption DEF IInv, TypeOK
    <3> QED  BY <1>1, <3>1, CapacityAssumption
  <2> HIDE DEF how
  <2> QED  BY <1>1, <2>1, OutcomePromises
<1> QED  BY <1>3, <1>4

\* What is known of the size after a mutation
Settled ==
  currentSizeBytes \in Nat /\ uncounted \in Nat /\ overcounted \in Nat /\ SizeAccountedFor

LEMMA NotAssigned ==
  ASSUME IInv, SizeNotAssigned, NEW es \in Seq(Record), entries' = es
  PROVE  Settled'
<1> DEFINE t == SumSizes(entries)
           d == SumSizes(es) - SumSizes(entries)
<1>1. /\ entries \in Seq(Record) /\ currentSizeBytes \in Nat
      /\ uncounted \in Nat /\ overcounted \in Nat
      /\ Within(t, currentSizeBytes, uncounted, overcounted)
  BY AccountedForIs, TypeOKOrder DEF IInv
<1>2. t \in Nat /\ SumSizes(es) \in Nat  BY <1>1, SumType
<1>3. d \in Int /\ t + d = SumSizes(es)  BY <1>2
<1>4. /\ currentSizeBytes' = currentSizeBytes
      /\ uncounted' = uncounted + Minus(d, 0) /\ overcounted' = overcounted + Minus(0, d)
  BY DEF SizeNotAssigned
<1> HIDE DEF t, d
<1>5. t + d \in Nat  BY <1>2, <1>3
<1>6. /\ Within(t + d, currentSizeBytes, uncounted', overcounted')
      /\ uncounted' \in Nat /\ overcounted' \in Nat
  BY <1>1, <1>2, <1>3, <1>4, <1>5, DriftWithin
<1>7. SizeAccountedFor'  BY <1>3, <1>4, <1>6 DEF SizeAccountedFor, Within, Total
<1> QED  BY <1>1, <1>4, <1>6, <1>7 DEF Settled

LEMMA PutOverflowsKeeps ==
  ASSUME IInv, NEW k \in Keys, NEW s \in Sizes, PutOverflows(k, s), UNCHANGED config
  PROVE  IInv' /\ Promises'
<1> DEFINE rest == Remaining(k)
<1>1. /\ Configured /\ entries \in Seq(Record) /\ InOrder(entries)
      /\ currentSizeBytes \in Nat /\ uncounted \in Nat /\ overcounted \in Nat
  BY TypeOKOrder DEF IInv
<1>2. /\ rest.es \in Seq(Record) /\ rest.size \in Nat
      /\ InOrder(rest.es)
      /\ Within(SumSizes(rest.es), rest.size, uncounted, overcounted)
  BY <1>1, RemainingIs DEF IInv
<1> DEFINE es == IF policy = "turnover" THEN <<>> ELSE rest.es
<1>3. /\ s <= MaxSize /\ FitsAfter(rest, s) = {}
      /\ entries' = es
      /\ Outcome(<<Rec(k, s)>>, "quota")
      /\ SizeNotAssigned
  BY DEF PutOverflows
<1>4. last'.outcome = "quota"  BY <1>3 DEF Outcome
<1> HIDE DEF rest
<1>5. es \in Seq(Record)  BY <1>2
<1>6. InOrder(es)
  <2>1. CASE policy = "turnover"  BY <2>1 DEF InOrder, Sorted, Distinct
  <2>2. CASE policy # "turnover"  BY <1>2, <2>2
  <2> QED  BY <2>1, <2>2
<1> HIDE DEF es
<1>7. Settled'  BY <1>3, <1>5, NotAssigned
<1>8. TypeOK'  BY <1>1, <1>3, <1>4, <1>5, <1>6, <1>7, OrderKept DEF Settled
<1>9. policy' = "turnover" => s + overcounted > MaxSize
  <2> SUFFICES ASSUME policy' = "turnover", ~(s + overcounted > MaxSize)  PROVE FALSE
    OBVIOUS
  <2>1. policy = "turnover"  BY DEF config
  <2> DEFINE m == Len(rest.es)
             x == SumSizes(SubSeq(rest.es, 1, m))
             z == rest.size
  <2>2. m \in Nat /\ SubSeq(rest.es, 1, m) = rest.es
    <3> HIDE DEF Record
    <3> QED  BY <1>2
  <2>3. x \in Nat /\ s \in Nat /\ z \in Nat  BY <1>2, <2>2, SumType, SizesAssumption
  <2>4. z <= x + overcounted  BY <1>2, <2>2 DEF Within
  <2> HIDE DEF x, z
  <2>5. z - x + s <= MaxSize  BY <1>1, <2>3, <2>4, CapacityAssumption
  <2>6. m \in FitsAfter(rest, s)  BY <2>1, <2>2, <2>5 DEF FitsAfter, x, z
  <2> QED  BY <1>3, <2>6
<1>10. Promises'  BY <1>3, <1>9, OutcomePromises
<1> QED  BY <1>7, <1>8, <1>10 DEF IInv, Settled

\* The size a mutation computes is accounted for with what it leaves, es.
LEMMA AssignedSize ==
  ASSUME IInv, NEW v \in Nat, AssignSize(v), NEW es \in Seq(Record), entries' = es,
         Within(SumSizes(es), v, uncounted, overcounted)
  PROVE  Settled'
<1>1. CASE currentSizeBytes' = v /\ UNCHANGED drift
  <2>1. uncounted' = uncounted /\ overcounted' = overcounted  BY <1>1 DEF drift
  <2>2. SizeAccountedFor'  BY <1>1, <2>1 DEF SizeAccountedFor, Within, Total
  <2> QED  BY <1>1, <2>1, <2>2 DEF Settled, IInv, TypeOK
<1>2. CASE SizeNotAssigned  BY <1>2, NotAssigned
<1> QED  BY <1>1, <1>2 DEF AssignSize

LEMMA PutInsertsKeeps ==
  ASSUME IInv, NEW k \in Keys, NEW s \in Sizes, PutInserts(k, s), UNCHANGED config
  PROVE  IInv' /\ Promises'
<1> DEFINE rest == Remaining(k)
           m == Len(rest.es)
           n == Fewest(FitsAfter(rest, s))
           kept == SubSeq(rest.es, n + 1, m)
           new == IndexPut(kept, k, s)
           gone == SumSizes(SubSeq(rest.es, 1, n))
           v == Minus(rest.size, gone) + s
<1>1. /\ Configured /\ entries \in Seq(Record) /\ InOrder(entries)
      /\ currentSizeBytes \in Nat /\ uncounted \in Nat /\ overcounted \in Nat
  BY TypeOKOrder DEF IInv
<1>2. /\ ~DuplicateRejected(k) /\ s <= MaxSize /\ FitsAfter(rest, s) # {}
      /\ entries' = new
      /\ AssignSize(v)
      /\ Outcome(<<Rec(k, s)>>, "inserted")
  BY DEF PutInserts
<1>3. /\ rest.es \in Seq(Record) /\ rest.size \in Nat
      /\ duplicateKeys = "replace" => ~HasKey(rest.es, k)
      /\ rest.es = IF duplicateKeys = "replace"
                   THEN Without(entries, Positions(entries, k)) ELSE entries
      /\ Within(SumSizes(rest.es), rest.size, uncounted, overcounted)
  BY <1>1, RemainingIs DEF IInv
<1>4. /\ n \in 0..m
      /\ new \in Seq(Record) /\ InOrder(new)
      /\ Len(new) = m - n + 1
      /\ SumSizes(new) = SumSizes(kept) + s
      /\ SumSizes(rest.es) = gone + SumSizes(kept)
      /\ rest.size - gone + s <= MaxSize
      /\ n > 0 => rest.size - SumSizes(SubSeq(rest.es, 1, n - 1)) + s > MaxSize
  BY <1>1, <1>2, RoomMade
<1>5. m \in Nat  BY <1>3
<1>6. SubSeq(rest.es, 1, n) \in Seq(Record) /\ kept \in Seq(Record)
  BY <1>3, <1>4, SumSplit
<1>7. gone \in Nat /\ SumSizes(kept) \in Nat /\ s \in Nat
  BY <1>6, SumType, SizesAssumption
<1>8. rest.size <= SumSizes(rest.es) + overcounted  BY <1>3 DEF Within
<1> HIDE DEF rest, m, n, gone
<1> USE DEF v
<1>9. v \in Nat
  <2>1. rest.size \in Int /\ gone \in Int  BY <1>3, <1>7
  <2>2. Minus(rest.size, gone) \in Nat  BY <2>1, MinusType
  <2> QED  BY <1>7, <2>2
<1>10. Within(SumSizes(new), v, uncounted, overcounted)
  <2> DEFINE a == SumSizes(kept)
             t == SumSizes(rest.es)
             z == rest.size
  <2>1. /\ t = gone + a /\ SumSizes(new) = a + s /\ z - gone + s <= MaxSize
        /\ s <= MaxSize /\ Within(t, z, uncounted, overcounted)
        /\ a \in Nat /\ z \in Nat /\ gone \in Nat /\ s \in Nat
    BY <1>2, <1>3, <1>4, <1>7
  <2> HIDE DEF a, t, z
  <2>2. t \in Nat /\ gone <= t /\ t - gone + s = a + s  BY <2>1
  <2>3. Within(t - gone + s, Minus(z, gone) + s, uncounted, overcounted)
    BY <1>1, <2>1, <2>2, InsertionWithin
  <2> QED  BY <2>1, <2>2, <2>3 DEF z
<1> HIDE DEF v, new
<1>11. Settled'  BY <1>2, <1>4, <1>9, <1>10, AssignedSize
<1>12. /\ last'.outcome = "inserted" /\ last'.asked = <<Rec(k, s)>>
       /\ last'.before = entries /\ last'.off = overcounted
  BY <1>2 DEF Outcome
<1>13. TypeOK'  BY <1>1, <1>2, <1>4, <1>11, <1>12, OrderKept DEF Settled
<1>14. BatchIsAtomic'
  <2>1. Len(last'.asked) = 1  BY <1>12
  <2> QED  BY <2>1 DEF BatchIsAtomic
<1>15. TurnoverMakesRoom'  BY <1>12 DEF TurnoverMakesRoom
<1>16. EvictsOnlyWhatIsNeeded'
  <2> SUFFICES ASSUME policy' = "turnover"
               PROVE  EvictsOnlyWhatIsNeeded'
    BY <1>12 DEF EvictsOnlyWhatIsNeeded
  <2> DEFINE e == last'.asked[1]
             others == IF duplicateKeys' = "replace"
                       THEN Without(last'.before, Positions(last'.before, e.key))
                       ELSE last'.before
             evicted == Len(others) + 1 - Len(entries')
  <2>1. e.key = k /\ e.size = s  BY <1>12 DEF Rec
  <2>2. duplicateKeys' = duplicateKeys  BY DEF config
  <2>3. others = rest.es  BY <1>3, <1>12, <2>1, <2>2
  <2>4. Len(entries') = m - n + 1  BY <1>2, <1>4
  <2>5. evicted = n
    <3>1. Len(others) = m  BY <2>3 DEF m
    <3> HIDE DEF others
    <3> QED  BY <1>4, <1>5, <2>4, <3>1
  <2>6. evicted >= 0  BY <1>4, <1>5, <2>5
  <2>7. entries' = PutUnder(duplicateKeys', SubSeq(others, evicted + 1, Len(others)), e.key, e.size)
    <3>1. new = PutUnder(duplicateKeys, kept, k, s)  BY DEF new, IndexPut, PutUnder
    <3>2. SubSeq(others, evicted + 1, Len(others)) = kept  BY <2>3, <2>5 DEF kept, m
    <3> QED  BY <1>2, <2>1, <2>2, <3>1, <3>2
  <2>8. evicted > 0 =>
          SumSizes(SubSeq(others, evicted, Len(others))) + e.size + last'.off > MaxSize
    <3> SUFFICES ASSUME n > 0
                 PROVE  SumSizes(SubSeq(rest.es, n, m)) + s + overcounted > MaxSize
      BY <1>12, <2>1, <2>3, <2>5 DEF m
    <3> DEFINE p == n - 1
    <3>1. p \in 0..m /\ p + 1 = n  BY <1>4, <1>5
    <3>2. /\ SubSeq(rest.es, 1, p) \in Seq(Record)
          /\ SubSeq(rest.es, p + 1, m) \in Seq(Record)
          /\ SumSizes(rest.es) = SumSizes(SubSeq(rest.es, 1, p)) + SumSizes(SubSeq(rest.es, p + 1, m))
      <4> HIDE DEF p
      <4> QED  BY <1>3, <3>1, SumSplit DEF m
    <3> DEFINE a == SumSizes(SubSeq(rest.es, 1, p))
               b == SumSizes(SubSeq(rest.es, p + 1, m))
               z == rest.size
    <3>3. a \in Nat /\ b \in Nat  BY <3>2, SumType
    <3>4. z <= a + b + overcounted /\ z - a + s > MaxSize /\ z \in Nat
      BY <1>3, <1>4, <1>8, <3>2
    <3> HIDE DEF a, b, z
    <3>5. b + s + overcounted > MaxSize  BY <1>1, <1>7, <3>3, <3>4, CapacityAssumption
    <3> QED  BY <3>1, <3>5 DEF b
  <2> QED  BY <2>6, <2>7, <2>8 DEF EvictsOnlyWhatIsNeeded, IndexPut, PutUnder
<1> QED  BY <1>11, <1>13, <1>14, <1>15, <1>16 DEF IInv, Promises, Settled

\* The configuration is the same before a step and after: so is what it does.
LEMMA InsertInTurnNext ==
  ASSUME duplicateKeys' = duplicateKeys
  PROVE  InsertInTurn(last.before, last.asked)' = InsertInTurn(last.before', last.asked')
BY DEF InsertInTurn, IndexPut, FoldLeft, MapThenFoldSet

LEMMA PutManyStrictKeeps ==
  ASSUME IInv, NEW batch \in Seq(Record), PutManyStrict(batch)
  PROVE  IInv' /\ Promises'
<1> DEFINE built == BuildStrictBatch(batch)
           t == InsertInTurn(entries, batch)
<1>1. /\ Configured /\ entries \in Seq(Record) /\ InOrder(entries)
      /\ currentSizeBytes \in Nat /\ uncounted \in Nat /\ overcounted \in Nat
  BY TypeOKOrder DEF IInv
<1>2. /\ built.bad \in BOOLEAN /\ built.delta \in Int
      /\ ApplyStrictBatch(built.prepared).es = t
      /\ ApplyStrictBatch(built.prepared).delta = built.delta
      /\ t \in Seq(Record)
      /\ SumSizes(t) = SumSizes(entries) + built.delta
      /\ ~built.bad => InOrder(t)
  BY <1>1, StrictBatch DEF Configured
<1>3. /\ policy = "strict" /\ UNCHANGED config
      /\ policy' = policy /\ duplicateKeys' = duplicateKeys
  BY DEF PutManyStrict, config
<1>4. EvictsOnlyWhatIsNeeded' /\ TurnoverMakesRoom'
  BY <1>3 DEF EvictsOnlyWhatIsNeeded, TurnoverMakesRoom
<1>5. CASE /\ StrictBatchFits(built)
           /\ entries' = ApplyStrictBatch(built.prepared).es
           /\ AssignSize(Minus(currentSizeBytes + ApplyStrictBatch(built.prepared).delta, 0))
           /\ Outcome(batch, "inserted")
  <2>1. entries' = t /\ InOrder(t) /\ currentSizeBytes + built.delta <= MaxSize
    BY <1>2, <1>5 DEF StrictBatchFits
  <2> DEFINE d == built.delta
             v == Minus(currentSizeBytes + d, 0)
             c == currentSizeBytes
  <2>2. c + d \in Int  BY <1>1, <1>2
  <2>3. SumSizes(t) \in Nat  BY <1>2, SumType
  <2>4. v \in Nat /\ v = IF c + d > 0 THEN c + d ELSE 0
    <3> DEFINE z == c + d
    <3>1. z \in Int  BY <2>2
    <3> HIDE DEF z
    <3>2. Minus(z, 0) \in Nat /\ Minus(z, 0) = IF z > 0 THEN z ELSE 0  BY <3>1 DEF Minus
    <3> QED  BY <3>2 DEF z
  <2> HIDE DEF built, t
  <2>5. Within(SumSizes(t), v, uncounted, overcounted)
    <3> DEFINE a == SumSizes(entries)
    <3>1. a \in Nat /\ a + d = SumSizes(t) /\ Within(a, c, uncounted, overcounted)
      BY <1>1, <1>2, SumType, AccountedForIs DEF IInv
    <3> HIDE DEF a, d, v
    <3>2. a + d \in Nat /\ c + d <= MaxSize /\ d \in Int  BY <1>2, <2>1, <2>3, <3>1 DEF d
    <3>3. Within(a + d, IF c + d > 0 THEN c + d ELSE 0, uncounted, overcounted)
      BY <1>1, <3>1, <3>2, ChangeWithin
    <3> QED  BY <2>4, <3>1, <3>3
  <2>6. AssignSize(v)  BY <1>2, <1>5
  <2> HIDE DEF v
  <2>7. Settled'  BY <1>2, <2>1, <2>4, <2>5, <2>6, AssignedSize
  <2>8. last'.outcome = "inserted" /\ last'.asked = batch /\ last'.before = entries
    BY <1>5 DEF Outcome
  <2>9. TypeOK'  BY <1>1, <1>2, <1>3, <2>1, <2>7, <2>8, OrderKept DEF Settled
  <2>10. BatchIsAtomic'
    <3>1. InsertInTurn(last.before, last.asked)' = InsertInTurn(last.before', last.asked')
      BY <1>3, InsertInTurnNext
    <3>2. entries' = InsertInTurn(last.before', last.asked')  BY <2>1, <2>8 DEF t
    <3> QED  BY <2>8, <3>1, <3>2 DEF BatchIsAtomic
  <2> QED  BY <1>4, <2>7, <2>9, <2>10 DEF IInv, Promises, Settled
<1>6. CASE /\ Outcome(batch, IF built.bad THEN "refused" ELSE "quota")
           /\ UNCHANGED <<entries, currentSizeBytes, drift>>
  <2>1. last'.outcome \in {"refused", "quota"} /\ last'.before = entries
    BY <1>6 DEF Outcome
  <2>2. IInv'  BY <1>3, <1>6, <2>1, NothingChanges
  <2>3. BatchIsAtomic'  BY <1>6, <2>1 DEF BatchIsAtomic
  <2> QED  BY <1>4, <2>2, <2>3 DEF Promises
<1> QED  BY <1>5, <1>6 DEF PutManyStrict

LEMMA RemoveRecordsKeeps ==
  ASSUME IInv, NEW positions, RemoveRecords(positions)
  PROVE  IInv' /\ Promises'
<1> DEFINE w == Without(entries, positions)
           v == Minus(currentSizeBytes, SumSizes(entries) - SumSizes(w))
<1>1. /\ Configured /\ entries \in Seq(Record) /\ InOrder(entries)
      /\ currentSizeBytes \in Nat /\ uncounted \in Nat /\ overcounted \in Nat
  BY TypeOKOrder DEF IInv
<1>2. entries' = w /\ AssignSize(v) /\ last' = NoPut /\ UNCHANGED config
  BY DEF RemoveRecords
<1>3. /\ w \in Seq(Record) /\ SumSizes(w) <= SumSizes(entries)
      /\ Sorted(entries) => Sorted(w)
      /\ Distinct(entries) => Distinct(w)
  BY <1>1, WithoutKeeps
<1>4. InOrder(w)  BY <1>1, <1>3 DEF InOrder
<1>5. SumSizes(w) \in Nat /\ SumSizes(entries) \in Nat  BY <1>1, <1>3, SumType
<1> HIDE DEF w
<1>6. v \in Nat /\ Within(SumSizes(w), v, uncounted, overcounted)
  <2> DEFINE a == SumSizes(entries)
             b == SumSizes(w)
             c == currentSizeBytes
             f == a - b
  <2>1. a \in Nat /\ b \in Nat /\ b <= a /\ c \in Nat /\ Within(a, c, uncounted, overcounted)
    BY <1>1, <1>3, <1>5, AccountedForIs DEF IInv
  <2> HIDE DEF a, b, c
  <2>2. f \in Nat /\ f <= a /\ a - f = b  BY <2>1
  <2> HIDE DEF f
  <2>3. Within(a - f, Minus(c, f), uncounted, overcounted)  BY <1>1, <2>1, <2>2, RemovalWithin
  <2>4. Minus(c, f) \in Nat  BY <2>1, <2>2 DEF Minus
  <2> QED  BY <2>2, <2>3, <2>4 DEF a, b, c, f
<1> HIDE DEF v
<1>7. Settled'  BY <1>2, <1>3, <1>6, AssignedSize
<1>8. TypeOK'  BY <1>1, <1>2, <1>3, <1>4, <1>7, OrderKept DEF NoPut, Settled
<1>9. Promises'  BY <1>2, NoPutPromises
<1> QED  BY <1>7, <1>8, <1>9 DEF IInv, Settled

LEMMA ChangeByIdKeeps ==
  ASSUME IInv, NEW i \in DOMAIN entries, NEW s \in Sizes, ChangeById(i, s)
  PROVE  IInv' /\ Promises'
<1> DEFINE w == Overwrite(entries, i, s)
           old == entries[i].size
           v == Minus(currentSizeBytes + s, old)
<1>1. /\ Configured /\ entries \in Seq(Record) /\ InOrder(entries)
      /\ currentSizeBytes \in Nat /\ uncounted \in Nat /\ overcounted \in Nat
  BY TypeOKOrder DEF IInv
<1>2. i \in 1..Len(entries)  BY <1>1
<1>3. /\ entries' = w /\ AssignSize(v) /\ last' = NoPut /\ UNCHANGED config
      /\ ~(s - old > 0 /\ currentSizeBytes + (s - old) > MaxSize)
  BY DEF ChangeById, Grow, Overwrite
<1>4. w \in Seq(Record) /\ SameKeys(w, entries)  BY <1>1, <1>2, Overwritten, OverwrittenKeys
<1>5. SumSizes(w) = SumSizes(entries) - old + s  BY <1>1, <1>2, SumOverwrite
<1>6. entries[i] \in Record  BY <1>1, <1>2
<1>7. old \in Nat /\ s \in Nat  BY <1>6, RecordSize, SizesAssumption
<1>8. SumSizes(w) \in Nat /\ SumSizes(entries) \in Nat  BY <1>1, <1>4, SumType
<1>9. InOrder(w)  BY <1>1, <1>4, SameKeysOrder DEF InOrder
<1> HIDE DEF w, old
<1>10. v \in Nat /\ Within(SumSizes(w), v, uncounted, overcounted)
  <2> DEFINE a == SumSizes(entries)
             b == SumSizes(w)
             c == currentSizeBytes
             d == s - old
  <2>1. /\ a \in Nat /\ b \in Nat /\ c \in Nat /\ s \in Nat /\ old \in Nat /\ b = a - old + s
        /\ ~(s - old > 0 /\ c + (s - old) > MaxSize)
        /\ Within(a, c, uncounted, overcounted)
    BY <1>1, <1>3, <1>5, <1>7, <1>8, AccountedForIs DEF IInv
  <2> HIDE DEF a, b, c
  <2>2. d \in Int /\ a + d = b /\ (d > 0 => c + d <= MaxSize)  BY <2>1, CapacityAssumption
  <2>3. Minus(c + s, old) \in Nat /\ Minus(c + s, old) = IF c + d > 0 THEN c + d ELSE 0
    BY <2>1 DEF Minus
  <2> HIDE DEF d
  <2>4. Within(a + d, IF c + d > 0 THEN c + d ELSE 0, uncounted, overcounted)
    BY <1>1, <2>1, <2>2, ChangeWithin
  <2> QED  BY <2>2, <2>3, <2>4 DEF b, c
<1> HIDE DEF v
<1>11. Settled'  BY <1>3, <1>4, <1>10, AssignedSize
<1>12. TypeOK'  BY <1>1, <1>3, <1>4, <1>9, <1>11, OrderKept DEF NoPut, Settled
<1>13. Promises'  BY <1>3, NoPutPromises
<1> QED  BY <1>11, <1>12, <1>13 DEF IInv, Settled

LEMMA ClearKeeps ==
  ASSUME IInv, Clear
  PROVE  IInv' /\ Promises'
<1> DEFINE z == <<>>
<1>1. Configured  BY TypeOKOrder DEF IInv
<1>2. z \in Seq(Record) /\ InOrder(z) /\ SumSizes(z) = 0
  BY SumEmpty DEF InOrder, Sorted, Distinct
<1>3. entries' = z /\ currentSizeBytes' = 0 /\ last' = NoPut
      /\ uncounted' = 0 /\ overcounted' = 0 /\ UNCHANGED config
  BY DEF Clear
<1> HIDE DEF z
<1>4. TypeOK'  BY <1>1, <1>2, <1>3, OrderKept DEF NoPut
<1>5. SizeAccountedFor'  BY <1>2, <1>3, CapacityAssumption DEF SizeAccountedFor, Total
<1>6. Promises'  BY <1>3, NoPutPromises
<1> QED  BY <1>4, <1>5, <1>6 DEF IInv

LEMMA ReopenKeeps ==
  ASSUME IInv, Reopen
  PROVE  IInv' /\ Promises'
<1>1. /\ Configured /\ entries \in Seq(Record) /\ InOrder(entries) /\ uncounted \in Nat
  BY TypeOKOrder DEF IInv
<1>2. /\ currentSizeBytes' = SumSizes(entries) + LoadOverhead
      /\ last' = NoPut /\ overcounted' = LoadOverhead
      /\ UNCHANGED <<config, entries, uncounted>>
  BY DEF Reopen
<1>3. SumSizes(entries) \in Nat /\ LoadOverhead \in Nat  BY <1>1, SumType, BackendAssumption
<1>4. currentSizeBytes' \in Nat  BY <1>2, <1>3
<1>5. TypeOK'  BY <1>1, <1>2, <1>3, <1>4, OrderKept DEF NoPut
<1>6. SizeAccountedFor'
  <2>1. SumSizes(entries) <= MaxSize + uncounted  BY DEF IInv, SizeAccountedFor, Total
  <2> QED  BY <1>1, <1>2, <1>3, <2>1 DEF SizeAccountedFor, Total
<1>7. Promises'  BY <1>2, NoPutPromises
<1> QED  BY <1>5, <1>6, <1>7 DEF IInv

-----------------------------------------------------------------------------
(* The theorems. *)

LEMMA InitIInv == Init => IInv /\ Promises
<1> SUFFICES ASSUME Init  PROVE IInv /\ Promises
  OBVIOUS
<1> DEFINE z == <<>>
<1>1. /\ policy \in {"strict", "turnover"} /\ duplicateKeys \in {"allow", "replace", "reject"}
      /\ entries = z /\ currentSizeBytes = 0 /\ uncounted = 0 /\ overcounted = 0
      /\ last.outcome = "none" /\ last.asked = z
  BY DEF Init, NoPut
<1>2. z \in Seq(Record) /\ DOMAIN z = {} /\ Len(z) = 0 /\ SumSizes(z) = 0
  BY SumEmpty
<1> HIDE DEF z
<1>3. TypeOK  BY <1>1, <1>2 DEF TypeOK
<1>4. SizeAccountedFor  BY <1>1, <1>2, CapacityAssumption DEF SizeAccountedFor, Total
<1>5. BatchIsAtomic  BY <1>1, <1>2 DEF BatchIsAtomic
<1>6. EvictsOnlyWhatIsNeeded  BY <1>1 DEF EvictsOnlyWhatIsNeeded
<1>7. TurnoverMakesRoom  BY <1>1 DEF TurnoverMakesRoom
<1> QED  BY <1>3, <1>4, <1>5, <1>6, <1>7 DEF IInv, Promises

LEMMA StutterKeeps ==
  ASSUME IInv, Promises, UNCHANGED vars
  PROVE  IInv' /\ Promises'
<1>1. /\ policy' = policy /\ duplicateKeys' = duplicateKeys /\ entries' = entries
      /\ currentSizeBytes' = currentSizeBytes /\ last' = last
      /\ uncounted' = uncounted /\ overcounted' = overcounted
  BY DEF vars, config, drift
<1>2. IInv'
  <2>1. last'.outcome \in {"none", "inserted", "duplicate", "refused", "quota"}
    BY <1>1 DEF IInv, TypeOK
  <2> QED  BY <1>1, <2>1, NothingChanges DEF config, drift
<1>3. BatchIsAtomic'
  <2>1. InsertInTurn(last.before, last.asked)' = InsertInTurn(last.before', last.asked')
    BY <1>1, InsertInTurnNext
  <2>2. InsertInTurn(last.before, last.asked)' = InsertInTurn(last.before, last.asked)
    BY <1>1, <2>1
  <2> QED  BY <1>1, <2>2 DEF Promises, BatchIsAtomic
<1>4. EvictsOnlyWhatIsNeeded'
  BY <1>1 DEF Promises, EvictsOnlyWhatIsNeeded, IndexPut
<1>5. TurnoverMakesRoom'  BY <1>1 DEF Promises, TurnoverMakesRoom
<1> QED  BY <1>2, <1>3, <1>4, <1>5 DEF Promises

LEMMA BatchesAreSequences ==
  ASSUME NEW batch \in Batches
  PROVE  batch \in Seq(Record)
<1>1. PICK n \in 2..MaxBatch : batch \in [1..n -> Record]  BY DEF Batches
<1>2. n \in Nat  BY BoundAssumption
<1> QED  BY <1>1, <1>2

LEMMA NextKeeps ==
  ASSUME IInv, Promises, [Next]_vars
  PROVE  IInv' /\ Promises'
<1>1. ASSUME NEW k \in Keys, NEW s \in Sizes, Put(k, s)  PROVE IInv' /\ Promises'
  BY <1>1, PutRefusedKeeps, PutOverflowsKeeps, PutInsertsKeeps DEF Put
<1>2. ASSUME NEW batch \in Batches, PutManyStrict(batch)  PROVE IInv' /\ Promises'
  BY <1>2, BatchesAreSequences, PutManyStrictKeeps
<1>3. ASSUME NEW k \in Keys, Delete(k)  PROVE IInv' /\ Promises'
  BY <1>3, RemoveRecordsKeeps DEF Delete
<1>4. ASSUME NEW i \in DOMAIN entries, NEW s \in Sizes, ChangeById(i, s)
      PROVE  IInv' /\ Promises'
  BY <1>4, ChangeByIdKeeps
<1>5. ASSUME NEW positions, DeleteByIds(positions)  PROVE IInv' /\ Promises'
  BY <1>5, RemoveRecordsKeeps DEF DeleteByIds
<1>6. CASE Clear  BY <1>6, ClearKeeps
<1>7. CASE Reopen  BY <1>7, ReopenKeeps
<1>8. CASE UNCHANGED vars  BY <1>8, StutterKeeps
<1> QED  BY <1>1, <1>2, <1>3, <1>4, <1>5, <1>6, <1>7, <1>8 DEF Next

\* In every reachable state the records are in order, the size is accounted for,
\* and what the last put promised holds.
THEOREM Safety == Spec => [](IInv /\ Promises)
<1>1. Init => IInv /\ Promises  BY InitIInv
<1>2. (IInv /\ Promises) /\ [Next]_vars => (IInv /\ Promises)'  BY NextKeeps
<1> QED  BY <1>1, <1>2, PTL DEF Spec

\* The records stay records, in key order, with one of each key unless
\* duplicates are allowed, whatever is put, evicted, changed or removed
\* (the B+tree index as the mutations of the datastore use it).
THEOREM TypeCorrect == Spec => []TypeOK
BY Safety, PTL DEF IInv

\* Datastore.currentSizeBytes differs from the size of the records by no more
\* than what rejected mutations have moved and a reopening has counted too many,
\* and the records exceed the capacity by no more than what failed commits have
\* brought in: it is the exact size, within the capacity, while there is nothing
\* of the kind, and clear() makes it so again.
THEOREM SizeStaysAccountedFor == Spec => []SizeAccountedFor
BY Safety, PTL DEF IInv

\* putMany under strict inserts the whole batch, with the effect of its
\* records put one by one in the order given, or nothing of it, although it
\* sorts the batch and makes its decision from a sum over the sorted entries.
THEOREM BatchStaysAtomic == Spec => []BatchIsAtomic
BY Safety, PTL DEF Promises

\* Turnover evicts the front of the index and no more than the record, and what
\* is counted too many, needs.
THEOREM EvictionIsLeast == Spec => []EvictsOnlyWhatIsNeeded
BY Safety, PTL DEF Promises

\* Under turnover a record is refused for quota only if it is larger than the
\* capacity less what is counted too many.
THEOREM TurnoverAlwaysMakesRoom == Spec => []TurnoverMakesRoom
BY Safety, PTL DEF Promises
=============================================================================
