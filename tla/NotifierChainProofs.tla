------------------------ MODULE NotifierChainProofs ------------------------
(***************************************************************************)
(* The notifier chains, proved for any blocks, priorities, writers and     *)
(* callers.  The argument has two halves.                                  *)
(*                                                                         *)
(* The list: the pointers lead along some sequence of blocks, sorted and   *)
(* without repetitions (IsChain), and a writer inserts into it or deletes  *)
(* from it although it stores one pointer at a time.                       *)
(*                                                                         *)
(* The callers: a caller of an RCU chain may stand on a block that has     *)
(* left the list, and its pointer may lead to another that has left since. *)
(* So each call has a road: the blocks that were in the list at some time  *)
(* since it began and that no one may free yet, in one order.  The         *)
(* pointers of all of them, stale ones too, lead ahead along the road and  *)
(* over no block that stays.  A registration inserts into the road, an     *)
(* unregistration takes nothing away from it.                              *)
(***************************************************************************)
EXTENDS NotifierChain, FunctionTheorems, FiniteSetTheorems, SequenceTheorems,
        WellFoundedInduction, TLAPS

\* The block at a place, or NULL behind the last.
At(s, i) == IF i \in 1..Len(s) THEN s[i] ELSE NULL

Distinct(s) == \A i, j \in 1..Len(s) : s[i] = s[j] => i = j

Sorted(s) == \A i, j \in 1..Len(s) : i < j => Priority[s[i]] >= Priority[s[j]]

Elements(s) == {s[i] : i \in 1..Len(s)}

\* The pointers lead along ch.
IsChain(ch) ==
  /\ ch \in Seq(Block) /\ Distinct(ch) /\ Sorted(ch)
  /\ head = At(ch, 1)
  /\ \A i \in 1..Len(ch) : next[ch[i]] = At(ch, i + 1)

\* A set of numbers has a least one.
LEMMA LeastNat ==
  ASSUME NEW T, T \subseteq Nat, T # {}
  PROVE  \E x \in T : \A y \in T : x <= y
<1> DEFINE R == {ss \in Nat \X Nat : ss[1] < ss[2]}
<1>1. IsWellFoundedOn(R, Nat)
  BY NatLessThanWellFounded DEF OpToRel
<1>2. PICK x \in T : \A y \in T : ~(<<y, x>> \in R)
  <2> HIDE DEF R
  <2> QED
    BY <1>1, WFMin
<1>3. \A y \in T : ~(y < x)
  BY <1>2
<1> QED
  BY <1>3

\* What holds of 0, and of each number with the one before, holds of all.
LEMMA NatByNat ==
  ASSUME NEW T \in SUBSET Nat, 0 \in T, \A k \in Nat : k \in T => k + 1 \in T
  PROVE  T = Nat
<1> DEFINE R == Nat \ T
<1>1. SUFFICES ASSUME R # {} PROVE FALSE
  OBVIOUS
<1>2. R \subseteq Nat
  OBVIOUS
<1>3. PICK k \in R : \A j \in R : k <= j
  <2> HIDE DEF R
  <2> QED
    BY <1>1, <1>2, LeastNat
<1>4. k # 0 /\ k - 1 \in Nat /\ k - 1 \notin R
  BY <1>3
<1> QED
  BY <1>4

\* The numbers from 1 to k are k.
LEMMA UpTo ==
  ASSUME NEW k \in Nat
  PROVE  IsFiniteSet(1..k) /\ Cardinality(1..k) = k
BY FS_Interval

\* The elements of a sequence.
LEMMA Places ==
  ASSUME NEW S, NEW q \in Seq(S)
  PROVE  /\ Len(q) \in Nat /\ (q = <<>> <=> Len(q) = 0)
         /\ \A i \in 1..Len(q) : q[i] \in S
OBVIOUS

\* Without repetitions a sequence of blocks is no longer than there are blocks.
LEMMA ShortSeq ==
  ASSUME NEW q \in Seq(Block), Distinct(q)
  PROVE  Size \in Nat /\ Len(q) <= Size
<1>1. Len(q) \in Nat /\ q \in [1..Len(q) -> Block]
  OBVIOUS
<1>2. q \in Injection(1..Len(q), Block)
  BY <1>1, Fun_IsInj DEF Distinct
<1>3. Cardinality(1..Len(q)) <= Cardinality(Block)
  BY <1>2, FS_Injection, NotifierAssumption
<1>4. Cardinality(1..Len(q)) = Len(q)
  BY <1>1, FS_Interval
<1> QED
  BY <1>3, <1>4, NotifierAssumption, FS_CardinalityType DEF Size

\* The walk goes along the list and stays at NULL.
LEMMA WalkAlong ==
  ASSUME NEW ch, IsChain(ch)
  PROVE  Walk = [i \in Nat |-> At(ch, i + 1)]
<1> DEFINE W == [i \in Nat |-> At(ch, i + 1)]
           Turn(f) == [i \in Nat |-> IF i = 0 THEN head
                                     ELSE IF f[i - 1] = NULL THEN NULL ELSE next[f[i - 1]]]
           Step(f) == f = Turn(f)
<1>0. ch \in Seq(Block) /\ Len(ch) \in Nat /\ \A i \in 1..Len(ch) : ch[i] \in Block
  BY DEF IsChain
<1>1. Step(W)
  <2>1. ASSUME NEW k \in Nat PROVE W[k] = Turn(W)[k]
    <3>1. CASE k = 0
      BY <3>1 DEF IsChain
    <3>2. CASE k # 0
      <4>1. k - 1 \in Nat /\ W[k - 1] = At(ch, k) /\ W[k] = At(ch, k + 1)
        BY <3>2
      <4>2. CASE k \in 1..Len(ch)
        <5>1. At(ch, k) = ch[k] /\ ch[k] # NULL
          BY <1>0, <4>2, NotifierAssumption DEF At
        <5>2. next[ch[k]] = At(ch, k + 1)
          BY <4>2 DEF IsChain
        <5> QED
          BY <3>2, <4>1, <5>1, <5>2
      <4>3. CASE k \notin 1..Len(ch)
        <5>1. At(ch, k) = NULL /\ At(ch, k + 1) = NULL
          BY <1>0, <3>2, <4>3 DEF At
        <5> QED
          BY <3>2, <4>1, <5>1
      <4> QED
        BY <4>2, <4>3
    <3> QED
      BY <3>1, <3>2
  <2> QED
    BY <2>1
<1>2. \A f : Step(f) => f = W
  <2> SUFFICES ASSUME NEW f, Step(f) PROVE f = W
    OBVIOUS
  <2> DEFINE T == {k \in Nat : f[k] = W[k]}
  <2>1. f = [k \in Nat |-> f[k]] /\ W = [k \in Nat |-> W[k]]
    OBVIOUS
  <2>2. \A k \in Nat : f[k] = Turn(f)[k] /\ W[k] = Turn(W)[k]
    <3> HIDE DEF W, Turn
    <3> QED
      BY <1>1
  <2>3. 0 \in T
    BY <2>2
  <2>4. ASSUME NEW k \in Nat, k \in T PROVE k + 1 \in T
    <3>1. (k + 1) - 1 = k /\ k + 1 \in Nat /\ k + 1 # 0
      OBVIOUS
    <3>2. Turn(f)[k + 1] = IF f[k] = NULL THEN NULL ELSE next[f[k]]
      BY <3>1
    <3> HIDE DEF W
    <3>3. Turn(W)[k + 1] = IF W[k] = NULL THEN NULL ELSE next[W[k]]
      BY <3>1
    <3> QED
      BY <2>2, <2>4, <3>1, <3>2, <3>3
  <2>5. T = Nat
    <3>1. T \in SUBSET Nat
      OBVIOUS
    <3> HIDE DEF T
    <3> QED
      BY <2>3, <2>4, <3>1, NatByNat
  <2> QED
    BY <2>1, <2>5
<1>3. Walk = CHOOSE f : Step(f)
  BY DEF Walk
<1> HIDE DEF Step, W
<1>4. Walk = W
  BY <1>1, <1>2, <1>3
<1> QED
  BY <1>4 DEF W

\* Listed is the elements of the list.
LEMMA ListedAre ==
  ASSUME NEW ch, IsChain(ch)
  PROVE  Listed = Elements(ch) /\ Cardinality(Listed) = Len(ch)
<1>1. ch \in Seq(Block) /\ Distinct(ch) /\ Len(ch) \in Nat /\ \A i \in 1..Len(ch) : ch[i] \in Block
  BY DEF IsChain
<1>2. Size \in Nat /\ Len(ch) <= Size
  BY <1>1, ShortSeq
<1>3. \A i \in Nat : Walk[i] = At(ch, i + 1)
  BY WalkAlong
<1>4. Listed = Elements(ch)
  <2>1. ASSUME NEW n \in Listed PROVE n \in Elements(ch)
    <3>1. PICK i \in 0..Size : n = Walk[i] /\ n # NULL
      BY DEF Listed
    <3>2. n = At(ch, i + 1) /\ n # NULL
      BY <1>2, <1>3, <3>1
    <3> QED
      BY <3>2 DEF At, Elements
  <2>2. ASSUME NEW i \in 1..Len(ch) PROVE ch[i] \in Listed
    <3>1. i - 1 \in 0..Size /\ i - 1 \in Nat /\ (i - 1) + 1 = i
      BY <1>1, <1>2
    <3>2. Walk[i - 1] = ch[i]
      BY <1>3, <3>1 DEF At
    <3>3. ch[i] # NULL
      BY <1>1, NotifierAssumption
    <3> QED
      BY <3>1, <3>2, <3>3 DEF Listed
  <2> QED
    BY <2>1, <2>2 DEF Elements
<1>5. Cardinality(Elements(ch)) = Len(ch)
  <2>1. ch \in Bijection(1..Len(ch), Elements(ch))
    <3>1. ch \in [1..Len(ch) -> Elements(ch)]
      BY <1>1 DEF Elements
    <3>2. \A i, j \in 1..Len(ch) : ch[i] = ch[j] => i = j
      BY <1>1 DEF Distinct
    <3>3. \A e \in Elements(ch) : \E i \in 1..Len(ch) : ch[i] = e
      BY DEF Elements
    <3> QED
      BY <3>1, <3>2, <3>3, Fun_IsBij
  <2>2. IsFiniteSet(1..Len(ch))
    BY <1>1, FS_Interval
  <2>3. Cardinality(1..Len(ch)) = Len(ch)
    <3>1. Len(ch) \in Nat
      BY <1>1
    <3> QED
      BY <3>1, UpTo
  <2>4. ExistsBijection(1..Len(ch), Elements(ch))
    BY <2>1 DEF ExistsBijection
  <2>5. Cardinality(Elements(ch)) = Cardinality(1..Len(ch))
    BY <2>2, <2>4, FS_Bijection
  <2> QED
    BY <2>3, <2>5
<1> QED
  BY <1>4, <1>5

\* The place of a block: behind those of its priority or a higher one.
LEMMA PlaceOf ==
  ASSUME NEW ch, IsChain(ch), NEW n \in Block
  PROVE  /\ Place(n) \in 0..Len(ch)
         /\ \A i \in 1..Len(ch) : i <= Place(n) <=> Priority[ch[i]] >= Priority[n]
         /\ Walk[Place(n)] = At(ch, Place(n) + 1)
<1> DEFINE T == {i \in 0..Size : Walk[i] = NULL \/ Priority[n] > Priority[Walk[i]]}
<1>1. ch \in Seq(Block) /\ Distinct(ch) /\ Sorted(ch) /\ Len(ch) \in Nat /\ \A i \in 1..Len(ch) : ch[i] \in Block
  BY DEF IsChain
<1>2. Size \in Nat /\ Len(ch) <= Size
  BY <1>1, ShortSeq
<1>3. \A i \in Nat : Walk[i] = At(ch, i + 1)
  BY WalkAlong
<1>4. Len(ch) \in T
  BY <1>1, <1>2, <1>3 DEF At
<1>5. T \subseteq Nat
  BY <1>2
<1>6. Place(n) \in T /\ \A y \in T : Place(n) <= y
  <2>1. Place(n) = CHOOSE x \in T : \A y \in T : x <= y
    BY DEF Place, Min
  <2> HIDE DEF T
  <2>2. \E x \in T : \A y \in T : x <= y
    BY <1>4, <1>5, LeastNat
  <2> QED
    BY <2>1, <2>2
<1>7. Place(n) \in 0..Len(ch)
  BY <1>1, <1>4, <1>5, <1>6
<1> HIDE DEF T
<1>8. \A i \in Block : Priority[i] \in Int
  BY NotifierAssumption
<1>9. ASSUME NEW i \in 1..Len(ch), i <= Place(n) PROVE Priority[ch[i]] >= Priority[n]
  <2>1. i - 1 \in 0..Size /\ i - 1 \notin T
    BY <1>1, <1>2, <1>6, <1>7, <1>9
  <2>2. Walk[i - 1] = ch[i] /\ ch[i] # NULL /\ ch[i] \in Block
    BY <1>1, <1>3, <2>1, NotifierAssumption DEF At
  <2>3. ~(Priority[n] > Priority[ch[i]])
    BY <2>1, <2>2 DEF T
  <2> QED
    BY <1>8, <2>2, <2>3
<1>10. ASSUME NEW i \in 1..Len(ch), ~(i <= Place(n)) PROVE Priority[n] > Priority[ch[i]]
  <2> DEFINE k == Place(n) + 1
  <2>1. k \in 1..Len(ch) /\ k <= i /\ Walk[k - 1] = ch[k]
    BY <1>1, <1>3, <1>7, <1>10 DEF At
  <2>2. ch[k] \in Block /\ ch[i] \in Block /\ ch[k] # NULL
    BY <1>1, <2>1, NotifierAssumption
  <2>3. Priority[n] > Priority[ch[k]]
    BY <1>6, <1>7, <2>1, <2>2 DEF T
  <2>4. Priority[ch[k]] >= Priority[ch[i]]
    BY <1>1, <1>8, <2>1, <2>2 DEF Sorted
  <2> QED
    BY <1>8, <2>2, <2>3, <2>4
<1>11. ASSUME NEW i \in 1..Len(ch) PROVE i <= Place(n) <=> Priority[ch[i]] >= Priority[n]
  <2>1. ch[i] \in Block /\ Priority[ch[i]] \in Int /\ Priority[n] \in Int
    BY <1>1, <1>8
  <2>2. Priority[n] > Priority[ch[i]] => ~(Priority[ch[i]] >= Priority[n])
    BY <2>1
  <2>3. i <= Place(n) => Priority[ch[i]] >= Priority[n]
    BY <1>9
  <2>4. ~(i <= Place(n)) => ~(Priority[ch[i]] >= Priority[n])
    BY <1>10, <2>2
  <2> QED
    BY <2>3, <2>4, Zenon
<1>12. Walk[Place(n)] = At(ch, Place(n) + 1)
  <2>1. Place(n) \in Nat
    BY <1>5, <1>6
  <2> QED
    BY <1>3, <2>1
<1> QED
  BY <1>7, <1>11, <1>12, Zenon

-----------------------------------------------------------------------------
(* Blocks put into a sequence and taken out of it.                         *)

\* n behind the first q elements.
Ins(s, q, n) ==
  [i \in 1..Len(s) + 1 |-> IF i <= q THEN s[i] ELSE IF i = q + 1 THEN n ELSE s[i - 1]]

\* Where a place is after that.
Shift(q, i) == IF i <= q THEN i ELSE i + 1

\* All but the element at k.
Del(s, k) == [i \in 1..Len(s) - 1 |-> IF i < k THEN s[i] ELSE s[i + 1]]

\* The first q elements, and they only, have the priority of n or a higher one.
Splits(s, q, n) ==
  /\ q \in 0..Len(s)
  /\ \A i \in 1..Len(s) : i <= q <=> Priority[s[i]] >= Priority[n]

\* A sorted sequence has such a place.
LEMMA PlaceIn ==
  ASSUME NEW s \in Seq(Block), Sorted(s), NEW n \in Block
  PROVE  \E q \in 0..Len(s) : Splits(s, q, n)
<1> DEFINE T == {i \in 0..Len(s) : i = Len(s) \/ Priority[n] > Priority[s[i + 1]]}
<1>1. Len(s) \in Nat /\ \A i \in 1..Len(s) : s[i] \in Block
  OBVIOUS
<1>2. T \subseteq Nat /\ Len(s) \in T
  BY <1>1
<1>3. PICK q \in T : \A y \in T : q <= y
  <2> HIDE DEF T
  <2> QED
    BY <1>2, LeastNat
<1>4. q \in 0..Len(s)
  BY <1>3
<1>5. \A i \in Block : Priority[i] \in Int
  BY NotifierAssumption
<1>6. ASSUME NEW i \in 1..Len(s), i <= q PROVE Priority[s[i]] >= Priority[n]
  <2>1. i - 1 \in 0..Len(s) /\ i - 1 # Len(s) /\ i - 1 < q /\ (i - 1) + 1 = i
    BY <1>1, <1>4, <1>6
  <2>2. i - 1 \notin T
    <3> HIDE DEF T
    <3> QED
      BY <1>3, <1>4, <2>1
  <2>3. ~(Priority[n] > Priority[s[i]])
    BY <2>1, <2>2
  <2> QED
    BY <1>1, <1>5, <2>3
<1>7. ASSUME NEW i \in 1..Len(s), ~(i <= q) PROVE Priority[n] > Priority[s[i]]
  <2>1. q # Len(s) /\ q + 1 \in 1..Len(s) /\ q + 1 <= i
    BY <1>1, <1>4, <1>7
  <2>2. Priority[n] > Priority[s[q + 1]]
    BY <1>3, <2>1
  <2>3. Priority[s[q + 1]] >= Priority[s[i]]
    BY <1>1, <1>5, <2>1 DEF Sorted
  <2> QED
    BY <1>1, <1>5, <2>1, <2>2, <2>3
<1>8. ASSUME NEW i \in 1..Len(s) PROVE i <= q <=> Priority[s[i]] >= Priority[n]
  <2>1. Priority[s[i]] \in Int /\ Priority[n] \in Int
    BY <1>1, <1>5
  <2>2. Priority[n] > Priority[s[i]] => ~(Priority[s[i]] >= Priority[n])
    BY <2>1
  <2>3. i <= q => Priority[s[i]] >= Priority[n]
    BY <1>6
  <2>4. ~(i <= q) => ~(Priority[s[i]] >= Priority[n])
    BY <1>7, <2>2
  <2> QED
    BY <2>3, <2>4, Zenon
<1> HIDE DEF T
<1> QED
  BY <1>4, <1>8, Zenon DEF Splits

\* A new element keeps the others in their order.
LEMMA InsIs ==
  ASSUME NEW s \in Seq(Block), NEW n \in Block, NEW q \in 0..Len(s)
  PROVE  LET t == Ins(s, q, n)
         IN  /\ t \in Seq(Block) /\ Len(t) = Len(s) + 1
             /\ t[q + 1] = n /\ q + 1 \in 1..Len(t)
             /\ \A i \in 1..Len(s) : Shift(q, i) \in 1..Len(t) /\ t[Shift(q, i)] = s[i]
             /\ \A k \in 1..Len(t) : k # q + 1 => \E i \in 1..Len(s) : k = Shift(q, i)
             /\ \A i \in 1..Len(s) + 1 : At(t, Shift(q, i)) = At(s, i)
<1> DEFINE t == Ins(s, q, n)
<1>1. Len(s) \in Nat /\ \A i \in 1..Len(s) : s[i] \in Block
  OBVIOUS
<1>2. \A i \in 1..Len(s) + 1 : t[i] = IF i <= q THEN s[i] ELSE IF i = q + 1 THEN n ELSE s[i - 1]
  BY DEF Ins
<1>3. ASSUME NEW i \in 1..Len(s) + 1 PROVE t[i] \in Block
  <2>1. i <= q => i \in 1..Len(s)
    BY <1>1
  <2>2. i > q /\ i # q + 1 => i - 1 \in 1..Len(s)
    BY <1>1
  <2> QED
    BY <1>1, <1>2, <2>1, <2>2
<1>4. t \in Seq(Block) /\ Len(t) = Len(s) + 1
  <2>1. t \in [1..Len(s) + 1 -> Block]
    BY <1>3 DEF Ins
  <2>2. Len(s) + 1 \in Nat
    BY <1>1
  <2> HIDE DEF t
  <2> QED
    BY <2>1, <2>2
<1>5. q + 1 \in 1..Len(s) + 1 /\ t[q + 1] = n
  <2>1. q + 1 \in 1..Len(s) + 1 /\ ~(q + 1 <= q)
    BY <1>1
  <2> QED
    BY <1>2, <2>1
<1>6. ASSUME NEW i \in 1..Len(s) PROVE Shift(q, i) \in 1..Len(s) + 1 /\ t[Shift(q, i)] = s[i]
  <2>1. CASE i <= q
    <3>1. Shift(q, i) = i /\ i \in 1..Len(s) + 1
      BY <1>1, <2>1 DEF Shift
    <3> QED
      BY <1>2, <2>1, <3>1
  <2>2. CASE ~(i <= q)
    <3>1. Shift(q, i) = i + 1 /\ i + 1 \in 1..Len(s) + 1 /\ ~(i + 1 <= q) /\ i + 1 # q + 1 /\ (i + 1) - 1 = i
      BY <1>1, <2>2 DEF Shift
    <3> QED
      BY <1>2, <3>1
  <2> QED
    BY <2>1, <2>2
<1>7. ASSUME NEW k \in 1..Len(s) + 1, k # q + 1 PROVE \E i \in 1..Len(s) : k = Shift(q, i)
  <2>1. CASE k <= q
    <3>1. k \in 1..Len(s) /\ Shift(q, k) = k
      BY <1>1, <2>1 DEF Shift
    <3> QED
      BY <3>1
  <2>2. CASE ~(k <= q)
    <3>1. k - 1 \in 1..Len(s) /\ ~(k - 1 <= q)
      BY <1>1, <1>7, <2>2
    <3>2. Shift(q, k - 1) = k
      BY <1>1, <3>1 DEF Shift
    <3> QED
      BY <3>1, <3>2
  <2> QED
    BY <2>1, <2>2
<1>8. ASSUME NEW i \in 1..Len(s) + 1 PROVE At(t, Shift(q, i)) = At(s, i)
  <2>1. CASE i \in 1..Len(s)
    BY <1>4, <1>6, <2>1 DEF At
  <2>2. CASE i \notin 1..Len(s)
    <3>1. i = Len(s) + 1
      BY <1>1, <2>2
    <3>2. Shift(q, i) = Len(s) + 2 /\ Len(s) + 2 \notin 1..Len(s) + 1
      BY <1>1, <3>1 DEF Shift
    <3> QED
      BY <1>4, <2>2, <3>2 DEF At
  <2> QED
    BY <2>1, <2>2
<1> HIDE DEF t
<1>9. \A i \in 1..Len(s) : Shift(q, i) \in 1..Len(t) /\ t[Shift(q, i)] = s[i]
  BY <1>4, <1>6
<1>10. \A k \in 1..Len(t) : k # q + 1 => \E i \in 1..Len(s) : k = Shift(q, i)
  BY <1>4, <1>7
<1>11. q + 1 \in 1..Len(t)
  BY <1>4, <1>5
<1> QED
  BY <1>4, <1>5, <1>8, <1>9, <1>10, <1>11 DEF t

\* Behind those of its priority a new element keeps the order.
LEMMA InsSorted ==
  ASSUME NEW s \in Seq(Block), NEW n \in Block \ Elements(s), NEW q,
         Distinct(s), Sorted(s), Splits(s, q, n)
  PROVE  LET t == Ins(s, q, n)
         IN  Distinct(t) /\ Sorted(t) /\ Elements(t) = Elements(s) \cup {n}
<1> DEFINE t == Ins(s, q, n)
<1>1. q \in 0..Len(s) /\ Len(s) \in Nat /\ \A i \in 1..Len(s) : s[i] \in Block
  BY DEF Splits
<1>2. /\ t \in Seq(Block) /\ Len(t) = Len(s) + 1
      /\ t[q + 1] = n /\ q + 1 \in 1..Len(t)
  BY <1>1, InsIs
<1>3. \A i \in 1..Len(s) : Shift(q, i) \in 1..Len(t) /\ t[Shift(q, i)] = s[i]
  BY <1>1, InsIs
<1>4. \A k \in 1..Len(t) : k # q + 1 => \E i \in 1..Len(s) : k = Shift(q, i)
  BY <1>1, InsIs
<1> HIDE DEF t
<1>5. \A i \in 1..Len(s) : s[i] # n
  BY DEF Elements
<1>6. \A i, j \in 1..Len(s) : Shift(q, i) < Shift(q, j) => i < j
  BY <1>1 DEF Shift
<1>7. Distinct(t)
  <2> SUFFICES ASSUME NEW k \in 1..Len(t), NEW l \in 1..Len(t), t[k] = t[l] PROVE k = l
    BY DEF Distinct
  <2>1. CASE k = q + 1 \/ l = q + 1
    BY <1>2, <1>3, <1>4, <1>5, <2>1
  <2>2. CASE k # q + 1 /\ l # q + 1
    <3>1. PICK i \in 1..Len(s) : k = Shift(q, i)
      BY <1>4, <2>2
    <3>2. PICK j \in 1..Len(s) : l = Shift(q, j)
      BY <1>4, <2>2
    <3>3. s[i] = s[j]
      BY <1>3, <3>1, <3>2
    <3> QED
      BY <3>1, <3>2, <3>3 DEF Distinct
  <2> QED
    BY <2>1, <2>2
<1>8. \A i \in Block : Priority[i] \in Int
  BY NotifierAssumption
<1>9. Sorted(t)
  <2> SUFFICES ASSUME NEW k \in 1..Len(t), NEW l \in 1..Len(t), k < l
               PROVE  Priority[t[k]] >= Priority[t[l]]
    BY DEF Sorted
  <2>1. CASE k = q + 1
    <3>1. PICK j \in 1..Len(s) : l = Shift(q, j)
      BY <1>1, <1>4, <2>1
    <3>2. ~(j <= q)
      BY <1>1, <2>1, <3>1 DEF Shift
    <3>3. ~(Priority[s[j]] >= Priority[n])
      BY <3>2 DEF Splits
    <3>4. t[k] = n /\ t[l] = s[j]
      BY <1>2, <1>3, <2>1, <3>1
    <3> QED
      BY <1>1, <1>8, <3>3, <3>4
  <2>2. CASE l = q + 1
    <3>1. PICK i \in 1..Len(s) : k = Shift(q, i)
      BY <1>1, <1>4, <2>2
    <3>2. i <= q
      BY <1>1, <2>2, <3>1 DEF Shift
    <3>3. Priority[s[i]] >= Priority[n]
      BY <3>2 DEF Splits
    <3>4. t[l] = n /\ t[k] = s[i]
      BY <1>2, <1>3, <2>2, <3>1
    <3> QED
      BY <3>3, <3>4
  <2>3. CASE k # q + 1 /\ l # q + 1
    <3>1. PICK i \in 1..Len(s) : k = Shift(q, i)
      BY <1>4, <2>3
    <3>2. PICK j \in 1..Len(s) : l = Shift(q, j)
      BY <1>4, <2>3
    <3>3. i < j
      BY <1>6, <3>1, <3>2
    <3>4. t[k] = s[i] /\ t[l] = s[j]
      BY <1>3, <3>1, <3>2
    <3> QED
      BY <3>3, <3>4 DEF Sorted
  <2> QED
    BY <2>1, <2>2, <2>3
<1>10. Elements(t) = Elements(s) \cup {n}
  <2>1. ASSUME NEW k \in 1..Len(t) PROVE t[k] \in Elements(s) \cup {n}
    BY <1>2, <1>3, <1>4 DEF Elements
  <2>2. ASSUME NEW i \in 1..Len(s) PROVE s[i] \in Elements(t)
    BY <1>3 DEF Elements
  <2>3. n \in Elements(t)
    BY <1>2 DEF Elements
  <2> QED
    BY <2>1, <2>2, <2>3 DEF Elements
<1> QED
  BY <1>7, <1>9, <1>10 DEF t

\* An element less keeps the order.
LEMMA DelIs ==
  ASSUME NEW s \in Seq(Block), NEW k \in 1..Len(s), Distinct(s), Sorted(s)
  PROVE  LET t == Del(s, k)
         IN  /\ t \in Seq(Block) /\ Len(t) = Len(s) - 1 /\ Distinct(t) /\ Sorted(t)
             /\ \A i \in 1..Len(t) : t[i] = IF i < k THEN s[i] ELSE s[i + 1]
             /\ Elements(t) = Elements(s) \ {s[k]}
<1> DEFINE t == Del(s, k)
<1>1. Len(s) \in Nat /\ Len(s) - 1 \in Nat /\ \A i \in 1..Len(s) : s[i] \in Block
  OBVIOUS
<1>2. \A i \in 1..Len(s) - 1 : t[i] = IF i < k THEN s[i] ELSE s[i + 1]
  BY DEF Del
<1>3. \A i \in 1..Len(s) - 1 : i \in 1..Len(s) /\ i + 1 \in 1..Len(s)
  BY <1>1
<1>4. t \in Seq(Block) /\ Len(t) = Len(s) - 1
  <2>1. t \in [1..Len(s) - 1 -> Block]
    BY <1>1, <1>2, <1>3 DEF Del
  <2> HIDE DEF t
  <2> QED
    BY <1>1, <2>1
<1>5. \A i \in 1..Len(t) : t[i] = IF i < k THEN s[i] ELSE s[i + 1]
  BY <1>2, <1>4
<1> HIDE DEF t
<1>6. \A i \in 1..Len(t) : i \in 1..Len(s) /\ i + 1 \in 1..Len(s)
  BY <1>3, <1>4
<1>7. Distinct(t)
  BY <1>5, <1>6 DEF Distinct
<1>8. Sorted(t)
  BY <1>5, <1>6 DEF Sorted
<1>9. Elements(t) = Elements(s) \ {s[k]}
  <2>1. ASSUME NEW i \in 1..Len(t) PROVE t[i] \in Elements(s) /\ t[i] # s[k]
    BY <1>5, <1>6 DEF Elements, Distinct
  <2>2. ASSUME NEW i \in 1..Len(s), i # k PROVE s[i] \in Elements(t)
    <3>1. CASE i < k
      <4>1. i \in 1..Len(t) /\ t[i] = s[i]
        BY <1>1, <1>4, <1>5, <3>1
      <4> QED
        BY <4>1 DEF Elements
    <3>2. CASE ~(i < k)
      <4>1. i - 1 \in 1..Len(t) /\ ~(i - 1 < k) /\ (i - 1) + 1 = i
        BY <1>1, <1>4, <2>2, <3>2
      <4>2. t[i - 1] = s[i]
        BY <1>5, <4>1
      <4> QED
        BY <4>1, <4>2 DEF Elements
    <3> QED
      BY <3>1, <3>2
  <2> QED
    BY <2>1, <2>2 DEF Elements
<1> QED
  BY <1>4, <1>5, <1>7, <1>8, <1>9 DEF t

-----------------------------------------------------------------------------
(* The steps of the list.                                                  *)

\* *nl = b at a place of the list, pointer by pointer.
LEMMA AssignIs ==
  ASSUME NEW ch, IsChain(ch), NEW p \in 0..Len(ch), NEW b \in Block \cup {NULL},
         NEW nexts \in [Block -> Block \cup {NULL}], Assign(p, b, nexts)
  PROVE  /\ head' = IF p = 0 THEN b ELSE head
         /\ next' \in [Block -> Block \cup {NULL}]
         /\ \A m \in Block : next'[m] = IF p # 0 /\ m = ch[p] THEN b ELSE nexts[m]
<1>1. ch \in Seq(Block) /\ Len(ch) \in Nat /\ \A i \in 1..Len(ch) : ch[i] \in Block
  BY DEF IsChain
<1>2. CASE p = 0
  BY <1>2 DEF Assign
<1>3. CASE p # 0
  <2>1. p \in 1..Len(ch) /\ p - 1 \in Nat /\ (p - 1) + 1 = p
    BY <1>1, <1>3
  <2>2. Walk[p - 1] = ch[p]
    BY <2>1, WalkAlong DEF At
  <2>3. head' = head /\ next' = [nexts EXCEPT ![ch[p]] = b]
    BY <1>3, <2>2 DEF Assign
  <2>4. ch[p] \in Block
    BY <1>1, <2>1
  <2> QED
    BY <1>3, <2>3, <2>4
<1> QED
  BY <1>2, <1>3

\* A block that is not in the list gets there behind those of its priority.
LEMMA LinkIn ==
  ASSUME NEW ch, IsChain(ch), NEW n \in Block \ Elements(ch), NEW p, Splits(ch, p, n),
         head' = IF p = 0 THEN n ELSE head,
         next'[n] = At(ch, p + 1),
         \A m \in Block \ {n} : next'[m] = IF p # 0 /\ m = ch[p] THEN n ELSE next[m]
  PROVE  IsChain(Ins(ch, p, n))'
<1> DEFINE t == Ins(ch, p, n)
<1>1. /\ ch \in Seq(Block) /\ Distinct(ch) /\ Sorted(ch) /\ Len(ch) \in Nat
      /\ \A i \in 1..Len(ch) : ch[i] \in Block
      /\ p \in 0..Len(ch)
  BY DEF IsChain, Splits
<1>2. /\ t \in Seq(Block) /\ Len(t) = Len(ch) + 1
      /\ t[p + 1] = n /\ p + 1 \in 1..Len(t)
  BY <1>1, InsIs
<1>3. \A i \in 1..Len(ch) : Shift(p, i) \in 1..Len(t) /\ t[Shift(p, i)] = ch[i]
  BY <1>1, InsIs
<1>4. \A k \in 1..Len(t) : k # p + 1 => \E i \in 1..Len(ch) : k = Shift(p, i)
  BY <1>1, InsIs
<1>5. \A i \in 1..Len(ch) + 1 : At(t, Shift(p, i)) = At(ch, i)
  BY <1>1, InsIs
<1>6. Distinct(t) /\ Sorted(t)
  BY <1>1, InsSorted
<1> HIDE DEF t
<1>7. At(t, p + 1) = n
  BY <1>2 DEF At
<1>8. \A i \in 1..Len(ch) : ch[i] # n
  BY DEF Elements
<1>9. head' = At(t, 1)
  <2>1. CASE p = 0
    BY <1>7, <2>1
  <2>2. CASE p # 0
    <3>1. 1 \in 1..Len(ch) + 1 /\ Shift(p, 1) = 1
      BY <1>1, <2>2 DEF Shift
    <3>2. At(t, 1) = At(ch, 1)
      BY <1>5, <3>1
    <3> QED
      BY <2>2, <3>2 DEF IsChain
  <2> QED
    BY <2>1, <2>2
<1>10. ASSUME NEW k \in 1..Len(t) PROVE next'[t[k]] = At(t, k + 1)
  <2>1. CASE k = p + 1
    <3>1. p + 1 \in 1..Len(ch) + 1 /\ Shift(p, p + 1) = p + 2
      BY <1>1 DEF Shift
    <3>2. At(t, p + 2) = At(ch, p + 1)
      BY <1>5, <3>1
    <3>3. k + 1 = p + 2
      BY <1>1, <2>1
    <3> QED
      BY <1>2, <2>1, <3>2, <3>3
  <2>2. CASE k # p + 1
    <3>1. PICK i \in 1..Len(ch) : k = Shift(p, i)
      BY <1>4, <2>2
    <3>2. t[k] = ch[i] /\ ch[i] \in Block \ {n}
      BY <1>1, <1>3, <1>8, <3>1
    <3>3. CASE i = p
      <4>1. k + 1 = p + 1 /\ p # 0
        BY <1>1, <3>1, <3>3 DEF Shift
      <4> QED
        BY <1>7, <3>2, <3>3, <4>1
    <3>4. CASE i # p
      <4>1. p # 0 => ch[i] # ch[p]
        <5>1. p # 0 => p \in 1..Len(ch)
          BY <1>1
        <5> QED
          BY <1>1, <3>4, <5>1 DEF Distinct
      <4>2. next'[t[k]] = next[ch[i]]
        BY <3>2, <4>1
      <4>3. next[ch[i]] = At(ch, i + 1)
        BY DEF IsChain
      <4>4. i + 1 \in 1..Len(ch) + 1 /\ Shift(p, i + 1) = k + 1
        BY <1>1, <3>1, <3>4 DEF Shift
      <4>5. At(t, k + 1) = At(ch, i + 1)
        BY <1>5, <4>4
      <4> QED
        BY <4>2, <4>3, <4>5
    <3> QED
      BY <3>3, <3>4
  <2> QED
    BY <2>1, <2>2
<1>11. IsChain(t)'
  BY <1>2, <1>6, <1>9, <1>10 DEF IsChain
<1> QED
  BY <1>11 DEF t

\* A block leaves the list, the others stay.
LEMMA LinkOut ==
  ASSUME NEW ch, IsChain(ch), NEW k \in 1..Len(ch),
         head' = IF k = 1 THEN next[ch[k]] ELSE head,
         \A m \in Block : next'[m] = IF k # 1 /\ m = ch[k - 1] THEN next[ch[k]] ELSE next[m]
  PROVE  IsChain(Del(ch, k))'
<1> DEFINE t == Del(ch, k)
<1>1. /\ ch \in Seq(Block) /\ Distinct(ch) /\ Sorted(ch) /\ Len(ch) \in Nat
      /\ \A i \in 1..Len(ch) : ch[i] \in Block
  BY DEF IsChain
<1>2. /\ t \in Seq(Block) /\ Len(t) = Len(ch) - 1 /\ Distinct(t) /\ Sorted(t)
      /\ \A i \in 1..Len(t) : t[i] = IF i < k THEN ch[i] ELSE ch[i + 1]
  BY <1>1, DelIs
<1> HIDE DEF t
<1>3. ASSUME NEW i \in Nat, i < k PROVE At(t, i) = IF i = 0 THEN NULL ELSE ch[i]
  BY <1>1, <1>2, <1>3 DEF At
<1>4. ASSUME NEW i \in Nat, i >= k PROVE At(t, i) = At(ch, i + 1)
  BY <1>1, <1>2, <1>4 DEF At
<1>5. next[ch[k]] = At(ch, k + 1)
  BY DEF IsChain
<1>6. head' = At(t, 1)
  <2>1. CASE k = 1
    BY <1>4, <1>5, <2>1
  <2>2. CASE k # 1
    <3>1. At(t, 1) = ch[1] /\ At(ch, 1) = ch[1]
      BY <1>1, <1>3, <2>2 DEF At
    <3> QED
      BY <2>2, <3>1 DEF IsChain
  <2> QED
    BY <2>1, <2>2
<1>7. ASSUME NEW i \in 1..Len(t) PROVE next'[t[i]] = At(t, i + 1)
  <2>1. CASE i < k - 1
    <3>1. i \in 1..Len(ch) /\ i + 1 \in 1..Len(ch) /\ i + 1 \in Nat /\ i + 1 < k /\ i + 1 # 0 /\ i < k
      BY <1>1, <1>2, <2>1
    <3>2. t[i] = ch[i] /\ At(t, i + 1) = ch[i + 1]
      BY <1>2, <1>3, <3>1
    <3>3. k # 1 => k - 1 \in 1..Len(ch) /\ ch[i] # ch[k - 1]
      BY <1>1, <2>1, <3>1 DEF Distinct
    <3>4. next'[t[i]] = next[ch[i]]
      BY <1>1, <3>1, <3>2, <3>3
    <3>5. next[ch[i]] = ch[i + 1]
      BY <3>1 DEF IsChain, At
    <3> QED
      BY <3>2, <3>4, <3>5
  <2>2. CASE i = k - 1
    <3>1. i \in 1..Len(ch) /\ i < k /\ k # 1 /\ k \in Nat /\ i + 1 = k /\ k >= k
      BY <1>1, <1>2, <2>2
    <3>2. t[i] = ch[i] /\ At(t, i + 1) = At(ch, k + 1)
      BY <1>2, <1>4, <3>1
    <3>3. next'[ch[i]] = next[ch[k]]
      BY <1>1, <2>2, <3>1
    <3> QED
      BY <1>5, <3>2, <3>3
  <2>3. CASE i > k - 1
    <3>1. i + 1 \in 1..Len(ch) /\ ~(i < k) /\ i + 1 \in Nat /\ i + 1 >= k
      BY <1>1, <1>2, <2>3
    <3>2. t[i] = ch[i + 1] /\ At(t, i + 1) = At(ch, (i + 1) + 1)
      BY <1>2, <1>4, <3>1
    <3>3. k # 1 => k - 1 \in 1..Len(ch) /\ ch[i + 1] # ch[k - 1]
      BY <1>1, <2>3, <3>1 DEF Distinct
    <3>4. next'[t[i]] = next[ch[i + 1]]
      BY <1>1, <3>1, <3>2, <3>3
    <3>5. next[ch[i + 1]] = At(ch, (i + 1) + 1)
      BY <3>1 DEF IsChain
    <3> QED
      BY <3>2, <3>4, <3>5
  <2> QED
    BY <1>1, <1>2, <2>1, <2>2, <2>3
<1>8. IsChain(t)'
  BY <1>2, <1>6, <1>7 DEF IsChain
<1> QED
  BY <1>8 DEF t

\* What the list says of all that is read from it.
Says(ch) ==
  /\ Walk = [i \in Nat |-> At(ch, i + 1)]
  /\ Listed = Elements(ch) /\ Cardinality(Listed) = Len(ch)
  /\ \A n \in Block : Splits(ch, Place(n), n) /\ Walk[Place(n)] = At(ch, Place(n) + 1)

\* So it does of every list.
LEMMA OfChain == \A ch : IsChain(ch) => Says(ch)
<1> SUFFICES ASSUME NEW ch, IsChain(ch) PROVE Says(ch)
  OBVIOUS
<1> QED
  BY WalkAlong, ListedAre, PlaceOf DEF Splits, Says

\* And in the next state.
LEMMA NowListed ==
  ASSUME NEW s, IsChain(s)'
  PROVE  Listed' = Elements(s)
<1>1. (\A ch : IsChain(ch) => Says(ch))'
  BY OfChain, PTL
<1> QED
  BY <1>1 DEF Says

\* While the list is the same, so is all that is read from it.
LEMMA SameChain ==
  ASSUME NEW s, IsChain(s), IsChain(s)'
  PROVE  /\ Walk' = Walk /\ Listed' = Listed
         /\ \A n \in Block : Place(n)' = Place(n)
<1>1. (\A ch : IsChain(ch) => Says(ch))'
  BY OfChain, PTL
<1>2. Walk' = [i \in Nat |-> At(s, i + 1)] /\ Listed' = Elements(s)
  BY <1>1 DEF Says
<1>3. Walk' = Walk /\ Listed' = Listed
  BY <1>2, OfChain DEF Says
<1>4. ASSUME NEW n \in Block PROVE Place(n)' = Place(n)
  BY <1>3 DEF Place
<1> QED
  BY <1>3, <1>4

-----------------------------------------------------------------------------
(* The road of a caller.                                                   *)

\* b is what follows place i, or a later element with none of st between.
Leads(s, i, b, st) ==
  \E j \in i + 1..Len(s) + 1 : b = At(s, j) /\ \A k \in i + 1..j - 1 : s[k] \notin st

\* The pointer behind place i; the head is before the first.
Pointer(s, i) == IF i = 0 THEN head ELSE next[s[i]]

\* A block that no one may free while the caller is there.
Safe(c, n) ==
  n \in Listed \/ \E w \in Writer : wpc[w] = "sync" /\ block[w] = n /\ c \in grace[w]

\* The blocks that were in the list at some time since the call began, in one
\* order.  Their pointers, also those of blocks that have left the list, lead
\* ahead, and over no block that stays.
Road(c, H) ==
  /\ H \in Seq(Block) /\ Distinct(H) /\ Sorted(H)
  /\ Listed \subseteq Elements(H)
  /\ \A i \in 1..Len(H) : Safe(c, H[i])
  /\ \A i \in 0..Len(H) : Leads(H, i, Pointer(H, i), stay[c])

\* The caller stands at pos of its road; the blocks it has called lie behind it,
\* and those that stay and lie behind it have been called.
Where(c, H, pos) ==
  /\ pos \in 1..Len(H) + 1 /\ nb[c] = At(H, pos)
  /\ \A k \in 1..pos - 1 : H[k] \in stay[c] => H[k] \in Elements(called[c])
  /\ \A i \in 1..Len(called[c]) : \E k \in 1..pos - 1 : called[c][i] = H[k]
  /\ cpc[c] = "loop" => next_nb[c] \in {NULL, nb[c]}
  /\ cpc[c] = "call" => pos \in 1..Len(H) /\ Leads(H, pos, next_nb[c], stay[c])

\* The step leaves the caller where it is.
Own(c) ==
  /\ cpc'[c] = cpc[c] /\ nb'[c] = nb[c] /\ next_nb'[c] = next_nb[c]
  /\ called'[c] = called[c] /\ stay'[c] = stay[c]

\* A road along which no pointer changes and no block is freed stays a road.
LEMMA RoadStays ==
  ASSUME NEW c \in Caller, NEW H, NEW pos, Road(c, H), Where(c, H, pos), Own(c),
         Listed' = Listed, head' = head,
         \A i \in 1..Len(H) : next'[H[i]] = next[H[i]],
         \A i \in 1..Len(H) : Safe(c, H[i])'
  PROVE  Road(c, H)' /\ Where(c, H, pos)'
<1>1. Len(H) \in Nat
  BY DEF Road
<1>2. ASSUME NEW i \in 0..Len(H) PROVE Pointer(H, i)' = Pointer(H, i)
  BY <1>1 DEF Pointer
<1>3. Road(c, H)'
  <2>1. ASSUME NEW i \in 0..Len(H) PROVE Leads(H, i, Pointer(H, i), stay[c])'
    BY <1>2 DEF Road, Own, Leads
  <2> QED
    BY <2>1 DEF Road
<1>4. Where(c, H, pos)'
  BY DEF Where, Own, Leads
<1> QED
  BY <1>3, <1>4

\* A road with one more block leads to where it led.
LEMMA LeadsShift ==
  ASSUME NEW H \in Seq(Block), NEW n \in Block, NEW q \in 0..Len(H),
         NEW i \in 0..Len(H), NEW b, NEW st, n \notin st, Leads(H, i, b, st)
  PROVE  Leads(Ins(H, q, n), Shift(q, i), b, st)
<1> DEFINE t == Ins(H, q, n)
<1>1. Len(H) \in Nat
  OBVIOUS
<1>2. t \in Seq(Block) /\ Len(t) = Len(H) + 1 /\ t[q + 1] = n
  BY InsIs
<1>3. \A k \in 1..Len(H) : Shift(q, k) \in 1..Len(t) /\ t[Shift(q, k)] = H[k]
  BY InsIs
<1>4. \A k \in 1..Len(t) : k # q + 1 => \E l \in 1..Len(H) : k = Shift(q, l)
  BY InsIs
<1>5. \A k \in 1..Len(H) + 1 : At(t, Shift(q, k)) = At(H, k)
  BY InsIs
<1> HIDE DEF t
<1>6. PICK j \in i + 1..Len(H) + 1 : b = At(H, j) /\ \A k \in i + 1..j - 1 : H[k] \notin st
  BY DEF Leads
<1>7. Shift(q, j) \in Shift(q, i) + 1..Len(t) + 1 /\ b = At(t, Shift(q, j))
  <2>1. j \in 1..Len(H) + 1
    BY <1>1, <1>6
  <2>2. b = At(t, Shift(q, j))
    BY <1>5, <1>6, <2>1
  <2>3. Shift(q, j) \in Shift(q, i) + 1..Len(t) + 1
    BY <1>1, <1>2, <1>6 DEF Shift
  <2> QED
    BY <2>2, <2>3
<1>8. ASSUME NEW k \in Shift(q, i) + 1..Shift(q, j) - 1 PROVE t[k] \notin st
  <2>1. k \in 1..Len(t)
    BY <1>1, <1>2, <1>6 DEF Shift
  <2>2. CASE k = q + 1
    BY <1>2, <2>2
  <2>3. CASE k # q + 1
    <3>1. PICK l \in 1..Len(H) : k = Shift(q, l)
      BY <1>4, <2>1, <2>3
    <3>2. l \in i + 1..j - 1
      BY <1>1, <1>6, <3>1 DEF Shift
    <3> QED
      BY <1>3, <1>6, <3>1, <3>2
  <2> QED
    BY <2>2, <2>3
<1>9. Leads(t, Shift(q, i), b, st)
  BY <1>7, <1>8 DEF Leads
<1> QED
  BY <1>9 DEF t

\* The new block lies between the two that it is put between.
LEMMA LeadsToNew ==
  ASSUME NEW H \in Seq(Block), NEW n \in Block, NEW q, Splits(H, q, n),
         NEW i \in 0..q, NEW b, NEW st, Leads(H, i, b, st),
         b \in Block => ~(Priority[b] >= Priority[n])
  PROVE  Leads(Ins(H, q, n), i, n, st) /\ Leads(Ins(H, q, n), q + 1, b, st)
<1> DEFINE t == Ins(H, q, n)
<1>1. Len(H) \in Nat /\ q \in 0..Len(H) /\ \A k \in 1..Len(H) : H[k] \in Block
  BY DEF Splits
<1>2. t \in Seq(Block) /\ Len(t) = Len(H) + 1 /\ t[q + 1] = n
  BY <1>1, InsIs
<1>3. \A k \in 1..Len(H) + 1 : At(t, Shift(q, k)) = At(H, k)
  BY <1>1, InsIs
<1>4. \A k \in 1..Len(H) : t[Shift(q, k)] = H[k]
  BY <1>1, InsIs
<1> HIDE DEF t
<1>5. PICK j \in i + 1..Len(H) + 1 : b = At(H, j) /\ \A k \in i + 1..j - 1 : H[k] \notin st
  BY DEF Leads
<1>6. q < j
  <2>1. CASE j \in 1..Len(H)
    <3>1. b = H[j] /\ b \in Block
      BY <1>1, <1>5, <2>1 DEF At
    <3>2. ~(j <= q)
      BY <2>1, <3>1 DEF Splits
    <3> QED
      BY <1>1, <1>5, <3>2
  <2>2. CASE j \notin 1..Len(H)
    BY <1>1, <1>5, <2>2
  <2> QED
    BY <2>1, <2>2
<1>7. Leads(t, i, n, st)
  <2>1. q + 1 \in i + 1..Len(t) + 1 /\ n = At(t, q + 1)
    BY <1>1, <1>2 DEF At
  <2>2. ASSUME NEW k \in i + 1..(q + 1) - 1 PROVE t[k] \notin st
    <3>1. k \in 1..Len(H) /\ Shift(q, k) = k /\ k \in i + 1..j - 1
      BY <1>1, <1>5, <1>6 DEF Shift
    <3> QED
      BY <1>4, <1>5, <3>1
  <2> QED
    BY <2>1, <2>2 DEF Leads
<1>8. Leads(t, q + 1, b, st)
  <2>1. j \in 1..Len(H) + 1 /\ Shift(q, j) = j + 1
    BY <1>1, <1>5, <1>6 DEF Shift
  <2>2. b = At(t, j + 1)
    BY <1>3, <1>5, <2>1
  <2>3. j + 1 \in (q + 1) + 1..Len(t) + 1
    BY <1>1, <1>2, <1>5, <1>6
  <2>4. ASSUME NEW k \in (q + 1) + 1..(j + 1) - 1 PROVE t[k] \notin st
    <3>1. k - 1 \in 1..Len(H) /\ Shift(q, k - 1) = k /\ k - 1 \in i + 1..j - 1
      BY <1>1, <1>5, <1>6 DEF Shift
    <3> QED
      BY <1>4, <1>5, <3>1
  <2> QED
    BY <2>2, <2>3, <2>4 DEF Leads
<1> QED
  BY <1>7, <1>8 DEF t

\* A block is published: it lies on the roads of all who are there.
LEMMA RoadGrows ==
  ASSUME NEW ch, IsChain(ch), NEW c \in Caller, NEW H, NEW pos,
         Road(c, H), Where(c, H, pos), Own(c), stay[c] \subseteq Listed,
         NEW n \in Block \ Elements(H), NEW p, Splits(ch, p, n),
         head' = IF p = 0 THEN n ELSE head,
         next'[n] = At(ch, p + 1),
         \A m \in Block \ {n} : next'[m] = IF p # 0 /\ m = ch[p] THEN n ELSE next[m],
         Listed' = Listed \cup {n},
         \A i \in 1..Len(H) : Safe(c, H[i])'
  PROVE  \E G, r : Road(c, G)' /\ Where(c, G, r)'
<1>1. /\ H \in Seq(Block) /\ Distinct(H) /\ Sorted(H) /\ Len(H) \in Nat
      /\ \A i \in 1..Len(H) : H[i] \in Block
      /\ Listed \subseteq Elements(H)
  BY DEF Road
<1>2. /\ ch \in Seq(Block) /\ Len(ch) \in Nat /\ \A i \in 1..Len(ch) : ch[i] \in Block
      /\ Listed = Elements(ch) /\ p \in 0..Len(ch)
  <2>1. Listed = Elements(ch)
    BY OfChain DEF Says
  <2> QED
    BY <2>1 DEF IsChain, Splits
<1>3. PICK q \in 0..Len(H) : Splits(H, q, n)
  BY <1>1, PlaceIn
<1> DEFINE t == Ins(H, q, n)
<1>4. t \in Seq(Block) /\ Len(t) = Len(H) + 1 /\ t[q + 1] = n /\ q + 1 \in 1..Len(t)
  BY <1>1, InsIs
<1>5. \A i \in 1..Len(H) : Shift(q, i) \in 1..Len(t) /\ t[Shift(q, i)] = H[i]
  BY <1>1, InsIs
<1>6. \A k \in 1..Len(t) : k # q + 1 => \E i \in 1..Len(H) : k = Shift(q, i)
  BY <1>1, InsIs
<1>7. \A i \in 1..Len(H) + 1 : At(t, Shift(q, i)) = At(H, i)
  BY <1>1, InsIs
<1>8. Distinct(t) /\ Sorted(t) /\ Elements(t) = Elements(H) \cup {n}
  BY <1>1, <1>3, InsSorted
<1>9. n \notin stay[c] /\ stay'[c] = stay[c] /\ n \notin Listed
  BY <1>1 DEF Own
<1>10. \A i \in 0..Len(H) : \A b : Leads(H, i, b, stay[c]) => Leads(t, Shift(q, i), b, stay[c])
  BY <1>1, <1>9, LeadsShift
<1> DEFINE b == At(ch, p + 1)
<1>11. PICK i0 \in 0..q : Pointer(H, i0) = b /\ (IF p = 0 THEN i0 = 0 ELSE i0 # 0 /\ H[i0] = ch[p])
  <2>1. CASE p = 0
    <3>1. Pointer(H, 0) = b
      BY <2>1 DEF IsChain, Pointer
    <3>2. 0 \in 0..q
      BY <1>3
    <3> QED
      BY <2>1, <3>1, <3>2
  <2>2. CASE p # 0
    <3>1. p \in 1..Len(ch) /\ ch[p] \in Listed
      BY <1>2, <2>2 DEF Elements
    <3>2. PICK i \in 1..Len(H) : H[i] = ch[p]
      BY <1>1, <3>1 DEF Elements
    <3>3. Priority[ch[p]] >= Priority[n]
      BY <1>2, <3>1 DEF Splits
    <3>4. i <= q
      BY <1>3, <3>2, <3>3 DEF Splits
    <3>5. i \in 0..q /\ i # 0
      BY <1>1, <1>3, <3>4
    <3>6. Pointer(H, i) = b
      BY <3>1, <3>2, <3>5 DEF IsChain, Pointer
    <3> QED
      BY <2>2, <3>2, <3>5, <3>6
  <2> QED
    BY <2>1, <2>2
<1>12. i0 \in 0..Len(H) /\ Leads(H, i0, b, stay[c])
  <2>1. i0 \in 0..Len(H)
    BY <1>1, <1>3
  <2> QED
    BY <1>11, <2>1 DEF Road
<1>13. b \in Block => ~(Priority[b] >= Priority[n])
  <2>1. CASE p + 1 \in 1..Len(ch)
    <3>1. b = ch[p + 1] /\ ~(p + 1 <= p)
      BY <1>2, <2>1 DEF At
    <3> QED
      BY <2>1, <3>1 DEF Splits
  <2>2. CASE p + 1 \notin 1..Len(ch)
    BY <2>2, NotifierAssumption DEF At
  <2> QED
    BY <2>1, <2>2
<1>14. Leads(t, i0, n, stay[c]) /\ Leads(t, q + 1, b, stay[c])
  <2> HIDE DEF b
  <2> QED
    BY <1>1, <1>3, <1>12, <1>13, LeadsToNew
<1>15. \A i \in 1..Len(H) : H[i] # n
  BY DEF Elements
<1>16. \A i \in 0..Len(H) : i # i0 =>
         IF i = 0 THEN head' = Pointer(H, i) ELSE next'[H[i]] = Pointer(H, i)
  <2> SUFFICES ASSUME NEW i \in 0..Len(H), i # i0
               PROVE IF i = 0 THEN head' = Pointer(H, i) ELSE next'[H[i]] = Pointer(H, i)
    OBVIOUS
  <2>1. CASE i = 0
    BY <1>11, <2>1 DEF Pointer
  <2>2. CASE i # 0
    <3>1. i \in 1..Len(H)
      BY <1>1, <2>2
    <3>2. p # 0 => H[i] # ch[p]
      BY <1>1, <1>11, <1>12, <3>1 DEF Distinct
    <3> QED
      BY <1>1, <1>15, <2>2, <3>1, <3>2 DEF Pointer
  <2> QED
    BY <2>1, <2>2
<1>17. IF i0 = 0 THEN head' = n ELSE next'[H[i0]] = n
  BY <1>1, <1>11, <1>12, <1>15
<1> HIDE DEF t, b
<1>18. ASSUME NEW k \in 0..Len(t) PROVE Leads(t, k, Pointer(t, k), stay[c])'
  <2> SUFFICES Leads(t, k, IF k = 0 THEN head' ELSE next'[t[k]], stay[c])
    BY <1>9 DEF Pointer, Leads
  <2>1. CASE k = q + 1
    <3>1. k # 0
      BY <1>3, <2>1
    <3> QED
      BY <1>4, <1>14, <2>1, <3>1 DEF b
  <2>2. CASE k # q + 1
    <3>1. PICK i \in 0..Len(H) : k = Shift(q, i) /\ (k = 0 <=> i = 0) /\ (k # 0 => t[k] = H[i])
      <4>1. CASE k = 0
        <5>1. 0 \in 0..Len(H) /\ Shift(q, 0) = 0
          BY <1>1, <1>3 DEF Shift
        <5> QED
          BY <4>1, <5>1
      <4>2. CASE k # 0
        <5>1. k \in 1..Len(t)
          BY <1>4, <1>1, <4>2
        <5>2. PICK i \in 1..Len(H) : k = Shift(q, i)
          BY <1>6, <2>2, <5>1
        <5>3. i \in 0..Len(H) /\ i # 0
          BY <1>1
        <5> QED
          BY <1>5, <4>2, <5>2, <5>3
      <4> QED
        BY <4>1, <4>2
    <3>2. CASE i = i0
      <4>1. k = i0
        BY <1>3, <3>1, <3>2 DEF Shift
      <4>2. n = IF k = 0 THEN head' ELSE next'[t[k]]
        BY <1>17, <3>1, <3>2
      <4> QED
        BY <1>14, <4>1, <4>2
    <3>3. CASE i # i0
      <4>1. Leads(H, i, Pointer(H, i), stay[c])
        BY DEF Road
      <4>2. Leads(t, k, Pointer(H, i), stay[c])
        BY <1>10, <3>1, <4>1
      <4>3. Pointer(H, i) = IF k = 0 THEN head' ELSE next'[t[k]]
        BY <1>16, <3>1, <3>3
      <4> QED
        BY <4>2, <4>3
    <3> QED
      BY <3>2, <3>3
  <2> QED
    BY <2>1, <2>2
<1>19. ASSUME NEW k \in 1..Len(t) PROVE Safe(c, t[k])'
  <2>1. CASE k = q + 1
    BY <1>4, <2>1 DEF Safe
  <2>2. CASE k # q + 1
    <3>1. PICK i \in 1..Len(H) : k = Shift(q, i)
      BY <1>6, <2>2
    <3>2. t[k] = H[i]
      BY <1>5, <3>1
    <3>3. Safe(c, H[i])'
      OBVIOUS
    <3> QED
      BY <3>2, <3>3 DEF Safe
  <2> QED
    BY <2>1, <2>2
<1>20. Road(c, t)'
  <2>1. Listed' \subseteq Elements(t)
    BY <1>1, <1>8
  <2> QED
    BY <1>4, <1>8, <1>18, <1>19, <2>1 DEF Road
<1> DEFINE r == Shift(q, pos)
<1>21. pos \in 1..Len(H) + 1 /\ r \in 1..Len(t) + 1 /\ nb[c] = At(t, r)
  <2>1. pos \in 1..Len(H) + 1 /\ nb[c] = At(H, pos)
    BY DEF Where
  <2>2. At(t, Shift(q, pos)) = At(H, pos)
    BY <1>7, <2>1
  <2>3. Shift(q, pos) \in 1..Len(t) + 1
    BY <1>1, <1>3, <1>4, <2>1 DEF Shift
  <2> QED
    BY <2>1, <2>2, <2>3
<1>22. ASSUME NEW k \in 1..r - 1, t[k] \in stay[c] PROVE t[k] \in Elements(called[c])
  <2>1. k \in 1..Len(t) /\ k # q + 1
    BY <1>1, <1>3, <1>4, <1>9, <1>21, <1>22
  <2>2. PICK i \in 1..Len(H) : k = Shift(q, i)
    BY <1>6, <2>1
  <2>3. i \in 1..pos - 1
    BY <1>1, <1>3, <1>21, <2>2 DEF Shift
  <2>4. t[k] = H[i]
    BY <1>5, <2>2
  <2> QED
    BY <1>22, <2>3, <2>4 DEF Where
<1>23. ASSUME NEW i \in 1..Len(called[c]) PROVE \E k \in 1..r - 1 : called[c][i] = t[k]
  <2>1. PICK k \in 1..pos - 1 : called[c][i] = H[k]
    BY DEF Where
  <2>2. k \in 1..Len(H)
    BY <1>1, <1>21
  <2>3. Shift(q, k) \in 1..r - 1
    BY <1>1, <1>3, <1>21, <2>2 DEF Shift
  <2> QED
    BY <1>5, <2>1, <2>2, <2>3
<1>24. ASSUME cpc[c] = "call" PROVE r \in 1..Len(t) /\ Leads(t, r, next_nb[c], stay[c])
  <2>1. pos \in 1..Len(H) /\ Leads(H, pos, next_nb[c], stay[c])
    BY <1>24 DEF Where
  <2>2. pos \in 0..Len(H)
    BY <1>1, <2>1
  <2> QED
    BY <1>5, <1>10, <2>1, <2>2
<1> HIDE DEF r
<1>25. cpc[c] = "loop" => next_nb[c] \in {NULL, nb[c]}
  BY DEF Where
<1>26. Where(c, t, r)'
  BY <1>21, <1>22, <1>23, <1>24, <1>25 DEF Where, Own, Leads
<1> QED
  BY <1>20, <1>26

\* A block is unlinked: nobody has to call it any more, and it stays on the roads.
LEMMA RoadUnlinked ==
  ASSUME NEW ch, IsChain(ch), NEW k \in 1..Len(ch), NEW c \in Caller, NEW H, NEW pos,
         Road(c, H), Where(c, H, pos),
         cpc'[c] = cpc[c], nb'[c] = nb[c], next_nb'[c] = next_nb[c], called'[c] = called[c],
         stay'[c] = stay[c] \ {ch[k]},
         head' = IF k = 1 THEN next[ch[k]] ELSE head,
         \A m \in Block : next'[m] = IF k # 1 /\ m = ch[k - 1] THEN next[ch[k]] ELSE next[m],
         Listed' \subseteq Listed,
         \A i \in 1..Len(H) : Safe(c, H[i])'
  PROVE  Road(c, H)' /\ Where(c, H, pos)'
<1> DEFINE n == ch[k]
           st == stay[c] \ {n}
<1>1. /\ H \in Seq(Block) /\ Distinct(H) /\ Sorted(H) /\ Len(H) \in Nat
      /\ \A i \in 1..Len(H) : H[i] \in Block
      /\ Listed \subseteq Elements(H)
  BY DEF Road
<1>2. /\ ch \in Seq(Block) /\ Len(ch) \in Nat /\ \A i \in 1..Len(ch) : ch[i] \in Block
      /\ Listed = Elements(ch)
  <2>1. Listed = Elements(ch)
    BY OfChain DEF Says
  <2> QED
    BY <2>1 DEF IsChain
<1>3. \A i \in 0..Len(H) : \A b : Leads(H, i, b, stay[c]) => Leads(H, i, b, st)
  BY DEF Leads
<1>4. PICK j \in 1..Len(H) : H[j] = n
  <2>1. n \in Elements(ch)
    BY DEF Elements
  <2>2. n \in Elements(H)
    BY <1>1, <1>2, <2>1
  <2> QED
    BY <2>2 DEF Elements
<1>5. Leads(H, j, next[n], stay[c])
  <2>1. j \in 0..Len(H) /\ j # 0
    BY <1>1
  <2>2. Pointer(H, j) = next[n]
    BY <1>4, <2>1 DEF Pointer
  <2> QED
    BY <2>1, <2>2 DEF Road
<1>6. ASSUME NEW i \in 0..Len(H), Leads(H, i, n, stay[c]) PROVE Leads(H, i, next[n], st)
  <2>1. PICK i1 \in i + 1..Len(H) + 1 : n = At(H, i1) /\ \A l \in i + 1..i1 - 1 : H[l] \notin stay[c]
    BY <1>6 DEF Leads
  <2>2. i1 = j
    <3>1. n \in Block
      BY <1>2
    <3>2. i1 \in 1..Len(H) /\ n = H[i1]
      BY <2>1, <3>1, NotifierAssumption DEF At
    <3> QED
      BY <1>1, <1>4, <3>2 DEF Distinct
  <2>3. PICK i2 \in j + 1..Len(H) + 1 : next[n] = At(H, i2) /\ \A l \in j + 1..i2 - 1 : H[l] \notin stay[c]
    BY <1>5 DEF Leads
  <2>4. i2 \in i + 1..Len(H) + 1
    BY <1>1, <2>1, <2>2, <2>3
  <2>5. ASSUME NEW l \in i + 1..i2 - 1 PROVE H[l] \notin st
    <3>1. l \in i + 1..i1 - 1 \/ l = j \/ l \in j + 1..i2 - 1
      BY <1>1, <2>1, <2>2, <2>3
    <3> QED
      BY <1>4, <2>1, <2>3, <3>1
  <2> HIDE DEF n, st
  <2> QED
    BY <2>3, <2>4, <2>5 DEF Leads
<1>7. \/ k = 1 /\ head = n
      \/ k # 1 /\ k - 1 \in 1..Len(ch) /\ next[ch[k - 1]] = n
  <2>1. CASE k = 1
    BY <2>1 DEF IsChain, At
  <2>2. CASE k # 1
    <3>1. k - 1 \in 1..Len(ch) /\ (k - 1) + 1 = k
      BY <1>2, <2>2
    <3> QED
      BY <2>2, <3>1 DEF IsChain, At
  <2> QED
    BY <2>1, <2>2
<1>8. ASSUME NEW i \in 0..Len(H) PROVE Leads(H, i, Pointer(H, i), stay[c])'
  <2> SUFFICES Leads(H, i, IF i = 0 THEN head' ELSE next'[H[i]], st)
    BY DEF Pointer, Leads
  <2>1. Leads(H, i, Pointer(H, i), stay[c])
    BY DEF Road
  <2> HIDE DEF st
  <2>2. CASE Pointer(H, i) = IF i = 0 THEN head' ELSE next'[H[i]]
    BY <1>3, <2>1, <2>2
  <2>3. CASE Pointer(H, i) # IF i = 0 THEN head' ELSE next'[H[i]]
    <3>1. Pointer(H, i) = n
      <4>1. CASE i = 0
        BY <1>7, <2>3, <4>1 DEF Pointer
      <4>2. CASE i # 0
        <5>1. H[i] \in Block
          BY <1>1, <4>2
        <5> QED
          BY <1>7, <2>3, <4>2, <5>1 DEF Pointer
      <4> QED
        BY <4>1, <4>2
    <3>2. (IF i = 0 THEN head' ELSE next'[H[i]]) = next[n]
      <4>1. CASE i = 0
        BY <2>3, <4>1 DEF Pointer
      <4>2. CASE i # 0
        <5>1. H[i] \in Block
          BY <1>1, <4>2
        <5> QED
          BY <2>3, <4>2, <5>1 DEF Pointer
      <4> QED
        BY <4>1, <4>2
    <3>3. Leads(H, i, next[n], st)
      BY <1>6, <2>1, <3>1
    <3> QED
      BY <3>2, <3>3
  <2> QED
    BY <2>2, <2>3
<1>9. Road(c, H)'
  <2>1. Listed' \subseteq Elements(H)
    BY <1>1
  <2>2. \A i \in 1..Len(H) : Safe(c, H[i])'
    OBVIOUS
  <2>3. H \in Seq(Block) /\ Distinct(H) /\ Sorted(H)
    BY DEF Road
  <2>4. \A i \in 0..Len(H) : Leads(H, i, Pointer(H, i), stay[c])'
    BY <1>8
  <2> HIDE DEF n, st
  <2> QED
    BY <2>1, <2>2, <2>3, <2>4 DEF Road
<1>10. Leads(H, pos, next_nb[c], stay[c]) => Leads(H, pos, next_nb[c], st)
  <2> SUFFICES ASSUME Leads(H, pos, next_nb[c], stay[c]) PROVE Leads(H, pos, next_nb[c], st)
    OBVIOUS
  <2>1. PICK j1 \in pos + 1..Len(H) + 1 :
          next_nb[c] = At(H, j1) /\ \A l \in pos + 1..j1 - 1 : H[l] \notin stay[c]
    BY DEF Leads
  <2>2. \A l \in pos + 1..j1 - 1 : H[l] \notin st
    BY <2>1
  <2> HIDE DEF n, st
  <2> QED
    BY <2>1, <2>2 DEF Leads
<1>11. Where(c, H, pos)'
  <2>1. pos \in 1..Len(H) + 1 /\ nb[c] = At(H, pos)
    BY DEF Where
  <2>2. \A l \in 1..pos - 1 : H[l] \in st => H[l] \in Elements(called[c])
    BY DEF Where
  <2>3. \A i \in 1..Len(called[c]) : \E l \in 1..pos - 1 : called[c][i] = H[l]
    BY DEF Where
  <2>4. cpc[c] = "loop" => next_nb[c] \in {NULL, nb[c]}
    BY DEF Where
  <2>5. cpc[c] = "call" => pos \in 1..Len(H) /\ Leads(H, pos, next_nb[c], st)
    <3> HIDE DEF st
    <3> QED
      BY <1>10 DEF Where
  <2> QED
    BY <2>1, <2>2, <2>3, <2>4, <2>5 DEF Where, Leads
<1> QED
  BY <1>9, <1>11

-----------------------------------------------------------------------------
(* The inductive invariant.                                                *)

Types ==
  /\ kind \in Kind /\ system_state \in {"BOOTING", "RUNNING"}
  /\ head \in Block \cup {NULL} /\ next \in [Block -> Block \cup {NULL}]
  /\ wpc \in [Writer -> {"idle", "publish", "sync"}]
  /\ block \in [Writer -> Block \cup {NULL}]
  /\ grace \in [Writer -> SUBSET Caller]
  /\ cpc \in [Caller -> {"idle", "down_read", "loop", "call"}]
  /\ nb \in [Caller -> Block \cup {NULL}]
  /\ next_nb \in [Caller -> Block \cup {NULL}]
  /\ nr_to_call \in [Caller -> Int]
  /\ called \in [Caller -> Seq(Block)]
  /\ stay \in [Caller -> SUBSET Block]

\* A block has one writer, and the chain one that is about to publish; the place
\* it found is still the place.
WriterInv ==
  /\ \A w \in Writer : wpc[w] # "idle" => block[w] \in Block
  /\ \A w, v \in Writer :
       wpc[w] # "idle" /\ wpc[v] # "idle" /\ block[w] = block[v] => w = v
  /\ \A w, v \in Writer : wpc[w] = "publish" /\ wpc[v] = "publish" => w = v
  /\ \A w \in Writer : wpc[w] = "publish" =>
       block[w] \notin Listed /\ next[block[w]] = Walk[Place(block[w])]
  /\ \A w \in Writer : grace[w] \subseteq Reading
  /\ system_state = "BOOTING" =>
       /\ \A w \in Writer : wpc[w] = "idle"
       /\ \A c \in Caller : cpc[c] = "idle"

CallerInv(c) ==
  /\ cpc[c] \in {"idle", "down_read"} =>
       nb[c] = NULL /\ next_nb[c] = NULL /\ called[c] = <<>> /\ stay[c] = {}
  /\ nr_to_call[c] \in Nat \/ nr_to_call[c] = -1 - Len(called[c])
  /\ cpc[c] = "call" => nr_to_call[c] # 0
  /\ Distinct(called[c]) /\ Sorted(called[c])
  /\ stay[c] \subseteq Listed

OnRoad(c) == \E H, pos : Road(c, H) /\ Where(c, H, pos)

IInv ==
  /\ Types /\ (\E ch : IsChain(ch)) /\ WriterInv
  /\ \A c \in Caller : CallerInv(c) /\ (cpc[c] \in {"loop", "call"} => OnRoad(c))

\* The empty chain.
LEMMA InitIInv == Init => IInv
<1> SUFFICES ASSUME Init PROVE IInv
  OBVIOUS
<1>1. IsChain(<<>>)
  BY DEF Init, IsChain, Distinct, Sorted, At
<1>2. Listed = {}
  <2>1. Elements(<<>>) = {}
    BY DEF Elements
  <2>2. Says(<<>>)
    BY <1>1, OfChain
  <2> QED
    BY <2>1, <2>2 DEF Says
<1>3. Types
  BY DEF Init, Types
<1>4. WriterInv
  BY DEF Init, WriterInv
<1>5. ASSUME NEW c \in Caller PROVE CallerInv(c) /\ (cpc[c] \in {"loop", "call"} => OnRoad(c))
  BY DEF Init, CallerInv, Distinct, Sorted
<1> QED
  BY <1>1, <1>3, <1>4, <1>5 DEF IInv

\* A caller that does not move, while no pointer of its road changes.
LEMMA CallerWaits ==
  ASSUME NEW c \in Caller, CallerInv(c), cpc[c] \in {"loop", "call"} => OnRoad(c),
         Own(c), nr_to_call'[c] = nr_to_call[c],
         Listed' = Listed, head' = head,
         \A n \in Block : Safe(c, n) => next'[n] = next[n] /\ Safe(c, n)'
  PROVE  CallerInv(c)' /\ (cpc[c] \in {"loop", "call"} => OnRoad(c))'
<1>1. CallerInv(c)'
  BY DEF CallerInv, Own
<1>2. ASSUME cpc[c] \in {"loop", "call"} PROVE OnRoad(c)'
  <2>1. PICK H, pos : Road(c, H) /\ Where(c, H, pos)
    BY <1>2 DEF OnRoad
  <2>2. ASSUME NEW i \in 1..Len(H) PROVE next'[H[i]] = next[H[i]] /\ Safe(c, H[i])'
    <3>1. H[i] \in Block /\ Safe(c, H[i])
      BY <2>1 DEF Road
    <3> QED
      BY <3>1
  <2>3. Road(c, H)' /\ Where(c, H, pos)'
    BY <2>1, <2>2, RoadStays
  <2> QED
    BY <2>3 DEF OnRoad
<1>3. cpc'[c] = cpc[c]
  BY DEF Own
<1> QED
  BY <1>1, <1>2, <1>3

\* No pointer changes.
LEMMA ChainWaits ==
  ASSUME NEW ch, IsChain(ch), head' = head, next' = next
  PROVE  /\ IsChain(ch)' /\ Walk' = Walk /\ Listed' = Listed
         /\ \A n \in Block : Place(n)' = Place(n)
<1>1. IsChain(ch)'
  BY DEF IsChain
<1> QED
  BY <1>1, SameChain

\* No writer moves.
LEMMA WritersWait ==
  ASSUME IInv, UNCHANGED <<system_state, head, next, wpc, block>>,
         \A w \in Writer : grace'[w] \subseteq Reading',
         system_state = "RUNNING" \/ UNCHANGED cpc
  PROVE  WriterInv'
<1>1. PICK ch : IsChain(ch)
  BY DEF IInv
<1>2. Walk' = Walk /\ Listed' = Listed /\ \A n \in Block : Place(n)' = Place(n)
  BY <1>1, ChainWaits
<1>3. ASSUME NEW w \in Writer, wpc'[w] = "publish"
      PROVE  block'[w] \notin Listed' /\ next'[block'[w]] = Walk'[Place(block[w])']
  <2>1. block[w] \in Block /\ block[w] \notin Listed /\ next[block[w]] = Walk[Place(block[w])]
    BY <1>3 DEF IInv, WriterInv
  <2>2. Place(block[w])' = Place(block[w])
    BY <1>2 DEF Place
  <2> QED
    BY <1>2, <2>1, <2>2
<1> QED
  BY <1>3 DEF IInv, WriterInv, Types

-----------------------------------------------------------------------------
(* The steps of writers.                                                   *)

\* Nobody moves.
LEMMA QuietKeeps ==
  ASSUME IInv, UNCHANGED <<kind, list, writers, callers>>,
         system_state' = system_state \/ EndBoot
  PROVE  IInv'
<1> USE DEF list, writers, callers
<1>1. PICK ch : IsChain(ch)
  BY DEF IInv
<1>2. IsChain(ch)' /\ Listed' = Listed /\ Walk' = Walk /\ \A n \in Block : Place(n)' = Place(n)
  BY <1>1, ChainWaits
<1>3. Types'
  BY DEF IInv, Types, EndBoot
<1>4. WriterInv'
  <2>1. system_state' = "BOOTING" => system_state = "BOOTING"
    BY DEF EndBoot
  <2>2. ASSUME NEW w \in Writer PROVE Place(block[w])' = Place(block[w])
    BY <1>2 DEF Place
  <2>3. Reading' = Reading
    BY DEF Reading
  <2> QED
    BY <1>2, <2>1, <2>2, <2>3 DEF IInv, WriterInv
<1>5. ASSUME NEW c \in Caller PROVE CallerInv(c)' /\ (cpc[c] \in {"loop", "call"} => OnRoad(c))'
  <2>1. \A n \in Block : Safe(c, n) => Safe(c, n)'
    BY <1>2 DEF Safe
  <2>2. Own(c)
    BY DEF Own
  <2>3. CallerInv(c) /\ (cpc[c] \in {"loop", "call"} => OnRoad(c))
    BY DEF IInv
  <2> QED
    BY <1>2, <2>1, <2>2, <2>3, CallerWaits
<1> QED
  BY <1>2, <1>3, <1>4, <1>5 DEF IInv

\* The two stores of a registration.
LEMMA LinkIs ==
  ASSUME NEW ch, IsChain(ch), Types, NEW n \in Block \ Listed,
         NEW nexts \in [Block -> Block \cup {NULL}], nexts[n] = Walk[Place(n)],
         \A m \in Block \ {n} : nexts[m] = next[m],
         Assign(Place(n), n, nexts)
  PROVE  \E p \in 0..Len(ch) :
           /\ p = Place(n) /\ Splits(ch, p, n) /\ IsChain(Ins(ch, p, n))'
           /\ head' = (IF p = 0 THEN n ELSE head)
           /\ head' \in Block \cup {NULL} /\ next' \in [Block -> Block \cup {NULL}]
           /\ next'[n] = At(ch, p + 1)
           /\ \A m \in Block \ {n} : next'[m] = IF p # 0 /\ m = ch[p] THEN n ELSE next[m]
           /\ n \notin Elements(ch) /\ Listed' = Listed \cup {n}
<1>1. Listed = Elements(ch) /\ Splits(ch, Place(n), n) /\ Walk[Place(n)] = At(ch, Place(n) + 1)
  BY OfChain DEF Says
<1>2. PICK p \in 0..Len(ch) : p = Place(n)
  BY <1>1 DEF Splits
<1>3. Listed = Elements(ch) /\ Splits(ch, p, n) /\ Walk[p] = At(ch, p + 1)
  BY <1>1, <1>2
<1>4. n \notin Elements(ch) /\ n \in Block \cup {NULL} /\ ch \in Seq(Block) /\ Len(ch) \in Nat
  BY <1>3 DEF IsChain
<1>5. Assign(p, n, nexts)
  BY <1>2
<1>6. nexts[n] = At(ch, p + 1)
  BY <1>3, <1>2
<1>7. /\ head' = (IF p = 0 THEN n ELSE head)
      /\ next' \in [Block -> Block \cup {NULL}]
      /\ \A m \in Block : next'[m] = IF p # 0 /\ m = ch[p] THEN n ELSE nexts[m]
  BY <1>2, <1>4, <1>5, AssignIs
<1>8. next'[n] = At(ch, p + 1)
  <2>1. p # 0 => n # ch[p]
    BY <1>2, <1>4 DEF Elements
  <2> QED
    BY <1>6, <1>7, <2>1
<1>9. \A m \in Block \ {n} : next'[m] = IF p # 0 /\ m = ch[p] THEN n ELSE next[m]
  BY <1>7
<1>10. IsChain(Ins(ch, p, n))'
  BY <1>3, <1>4, <1>7, <1>8, <1>9, LinkIn
<1>11. Listed' = Listed \cup {n}
  <2>2. Listed' = Elements(Ins(ch, p, n))
    BY <1>10, NowListed
  <2>3. Elements(Ins(ch, p, n)) = Elements(ch) \cup {n}
    BY <1>3, <1>4, InsSorted DEF IsChain
  <2> QED
    BY <1>3, <2>2, <2>3
<1>12. head' \in Block \cup {NULL}
  BY <1>7 DEF Types
<1> QED
  BY <1>3, <1>2, <1>4, <1>7, <1>8, <1>9, <1>10, <1>11, <1>12

\* The store of an unregistration.
LEMMA UnlinkIs ==
  ASSUME NEW ch, IsChain(ch), Types, NEW n \in Block, Unlink(n)
  PROVE  \E k \in 1..Len(ch) :
           /\ n = ch[k] /\ IsChain(Del(ch, k))'
           /\ head' = IF k = 1 THEN next[ch[k]] ELSE head
           /\ head' \in Block \cup {NULL} /\ next' \in [Block -> Block \cup {NULL}]
           /\ \A m \in Block : next'[m] = IF k # 1 /\ m = ch[k - 1] THEN next[ch[k]] ELSE next[m]
           /\ Listed' = Listed \ {n}
<1>1. PICK i \in 0..Size : Walk[i] = n /\ Assign(i, next[n], next)
  BY DEF Unlink
<1>2. /\ ch \in Seq(Block) /\ Distinct(ch) /\ Sorted(ch) /\ Len(ch) \in Nat
      /\ \A j \in 1..Len(ch) : ch[j] \in Block
  BY DEF IsChain
<1>3. Size \in Nat
  BY <1>2, ShortSeq
<1>4. n = At(ch, i + 1)
  BY <1>1, <1>3, WalkAlong
<1> DEFINE k == i + 1
<1>5. k \in 1..Len(ch) /\ n = ch[k] /\ i = k - 1 /\ i \in 0..Len(ch) /\ (i = 0 <=> k = 1)
  <2>1. k \in 1..Len(ch) /\ n = ch[k]
    BY <1>4, NotifierAssumption DEF At
  <2> QED
    BY <1>2, <1>3, <2>1
<1>6. next \in [Block -> Block \cup {NULL}] /\ next[n] \in Block \cup {NULL} /\ head \in Block \cup {NULL}
  BY DEF Types
<1>7. /\ head' = (IF i = 0 THEN next[n] ELSE head)
      /\ next' \in [Block -> Block \cup {NULL}]
      /\ \A m \in Block : next'[m] = IF i # 0 /\ m = ch[i] THEN next[n] ELSE next[m]
  <2>1. i \in 0..Len(ch)
    BY <1>5
  <2>2. PICK b \in Block \cup {NULL} : b = next[n]
    BY <1>6
  <2>3. PICK nx \in [Block -> Block \cup {NULL}] : nx = next
    BY <1>6
  <2>4. Assign(i, b, nx)
    BY <1>1, <2>2, <2>3
  <2> HIDE DEF k
  <2>5. /\ head' = (IF i = 0 THEN b ELSE head)
        /\ next' \in [Block -> Block \cup {NULL}]
        /\ \A m \in Block : next'[m] = IF i # 0 /\ m = ch[i] THEN b ELSE nx[m]
    BY <2>1, <2>4, AssignIs
  <2> QED
    BY <2>2, <2>3, <2>5
<1> HIDE DEF k
<1>8. /\ head' = IF k = 1 THEN next[ch[k]] ELSE head
      /\ \A m \in Block : next'[m] = IF k # 1 /\ m = ch[k - 1] THEN next[ch[k]] ELSE next[m]
  BY <1>5, <1>7
<1>9. IsChain(Del(ch, k))'
  BY <1>5, <1>8, LinkOut
<1>10. Listed' = Listed \ {n}
  <2>2. Listed' = Elements(Del(ch, k))
    BY <1>9, NowListed
  <2>3. Elements(Del(ch, k)) = Elements(ch) \ {ch[k]}
    BY <1>2, <1>5, DelIs
  <2>4. Listed = Elements(ch)
    BY OfChain DEF Says
  <2> QED
    BY <1>5, <2>2, <2>3, <2>4
<1>11. head' \in Block \cup {NULL}
  BY <1>6, <1>7
<1> QED
  BY <1>5, <1>7, <1>8, <1>9, <1>10, <1>11

\* What a new block gets as its successor.
LEMMA Successor ==
  ASSUME NEW ch, IsChain(ch), NEW n \in Block
  PROVE  Walk[Place(n)] \in Block \cup {NULL}
<1>1. Walk[Place(n)] = At(ch, Place(n) + 1)
  BY OfChain DEF Says
<1>2. \A i \in 1..Len(ch) : ch[i] \in Block
  BY DEF IsChain
<1> QED
  BY <1>1, <1>2 DEF At

\* There is no caller yet.
LEMMA BootRegisterKeeps ==
  ASSUME IInv, NEW n \in Block, BootRegister(n)
  PROVE  IInv'
<1> USE DEF writers, callers
<1>1. PICK ch : IsChain(ch)
  BY DEF IInv
<1> DEFINE nexts == [next EXCEPT ![n] = Walk[Place(n)]]
<1>2. Types /\ n \in Block \ Listed /\ Assign(Place(n), n, nexts)
  BY DEF IInv, BootRegister, Unused
<1>3. nexts \in [Block -> Block \cup {NULL}] /\ nexts[n] = Walk[Place(n)]
  <2>1. Walk[Place(n)] \in Block \cup {NULL}
    BY <1>1, Successor
  <2> QED
    BY <1>2, <2>1 DEF Types
<1>4. \A m \in Block \ {n} : nexts[m] = next[m]
  BY <1>2 DEF Types
<1> HIDE DEF nexts
<1>5. PICK p \in 0..Len(ch) :
        /\ IsChain(Ins(ch, p, n))'
        /\ head' \in Block \cup {NULL} /\ next' \in [Block -> Block \cup {NULL}]
  BY <1>1, <1>2, <1>3, <1>4, LinkIs
<1>6. Types'
  BY <1>2, <1>5 DEF Types, BootRegister
<1>7. (\A w \in Writer : wpc[w] = "idle") /\ (\A c \in Caller : cpc[c] = "idle")
  BY DEF IInv, WriterInv, BootRegister, Booting
<1>8. WriterInv'
  <2>1. Reading' = Reading
    BY DEF BootRegister, Reading
  <2> QED
    BY <1>7, <2>1 DEF IInv, WriterInv, BootRegister
<1>9. ASSUME NEW c \in Caller PROVE CallerInv(c)' /\ (cpc[c] \in {"loop", "call"} => OnRoad(c))'
  BY <1>7 DEF IInv, CallerInv, BootRegister
<1> QED
  BY <1>5, <1>6, <1>8, <1>9 DEF IInv

\* There is no caller yet.
LEMMA BootUnregisterKeeps ==
  ASSUME IInv, NEW n \in Block, BootUnregister(n)
  PROVE  IInv'
<1> USE DEF writers, callers
<1>1. PICK ch : IsChain(ch)
  BY DEF IInv
<1>2. Types /\ Unlink(n)
  BY DEF IInv, BootUnregister
<1>3. PICK k \in 1..Len(ch) :
        /\ IsChain(Del(ch, k))'
        /\ head' \in Block \cup {NULL} /\ next' \in [Block -> Block \cup {NULL}]
  BY <1>1, <1>2, UnlinkIs
<1>4. Types'
  BY <1>2, <1>3 DEF Types, BootUnregister
<1>5. (\A w \in Writer : wpc[w] = "idle") /\ (\A c \in Caller : cpc[c] = "idle")
  BY DEF IInv, WriterInv, BootUnregister, Booting
<1>6. WriterInv'
  <2>1. Reading' = Reading
    BY DEF BootUnregister, Reading
  <2> QED
    BY <1>5, <2>1 DEF IInv, WriterInv, BootUnregister
<1>7. ASSUME NEW c \in Caller PROVE CallerInv(c)' /\ (cpc[c] \in {"loop", "call"} => OnRoad(c))'
  BY <1>5 DEF IInv, CallerInv, BootUnregister
<1> QED
  BY <1>3, <1>4, <1>6, <1>7 DEF IInv

\* A block that nobody has in hand is on nobody's road.
LEMMA RegisterKeeps ==
  ASSUME IInv, NEW w \in Writer, NEW n \in Block, Register(w, n)
  PROVE  IInv'
<1> USE DEF callers
<1>1. PICK ch : IsChain(ch)
  BY DEF IInv
<1>2. Types /\ n \notin Listed /\ ~Busy(n) /\ NoWriter /\ wpc[w] = "idle" /\ system_state = "RUNNING"
  BY DEF IInv, Register, Unused, MayWrite
<1>3. /\ Walk[Place(n)] \in Block \cup {NULL} /\ head' = head
      /\ next' = [next EXCEPT ![n] = Walk[Place(n)]]
  <2>1. Walk[Place(n)] \in Block \cup {NULL}
    BY <1>1, Successor
  <2> QED
    BY <2>1 DEF Register
<1>4. next' \in [Block -> Block \cup {NULL}] /\ next'[n] = Walk[Place(n)]
  BY <1>2, <1>3 DEF Types
<1>5. \A m \in Block \ {n} : next'[m] = next[m]
  BY <1>2, <1>3 DEF Types
<1>6. IsChain(ch)'
  <2>1. Listed = Elements(ch)
    BY <1>1, OfChain DEF Says
  <2>2. \A i \in 1..Len(ch) : ch[i] \in Block \ {n}
    BY <1>1, <1>2, <2>1 DEF Elements, IsChain
  <2> QED
    BY <1>1, <1>3, <1>5, <2>2 DEF IsChain
<1>7. Walk' = Walk /\ Listed' = Listed /\ \A m \in Block : Place(m)' = Place(m)
  BY <1>1, <1>6, SameChain
<1>8. /\ wpc' = [wpc EXCEPT ![w] = "publish"] /\ block' = [block EXCEPT ![w] = n]
      /\ UNCHANGED <<kind, system_state, grace, cpc, nb, next_nb, nr_to_call, called, stay>>
  BY DEF Register
<1>9. /\ wpc'[w] = "publish" /\ block'[w] = n
      /\ \A v \in Writer \ {w} : wpc'[v] = wpc[v] /\ block'[v] = block[v]
  BY <1>2, <1>8 DEF Types
<1>10. Types'
  BY <1>2, <1>3, <1>4, <1>8 DEF Types
<1>11. WriterInv'
  <2>1. \A v \in Writer : wpc'[v] # "idle" => block'[v] \in Block
    BY <1>9 DEF IInv, WriterInv
  <2>2. \A u, v \in Writer : wpc'[u] # "idle" /\ wpc'[v] # "idle" /\ block'[u] = block'[v] => u = v
    BY <1>2, <1>9 DEF IInv, WriterInv, Busy
  <2>3. \A v \in Writer : wpc'[v] = "publish" => v = w
    BY <1>2, <1>9 DEF NoWriter
  <2>4. ASSUME NEW v \in Writer, wpc'[v] = "publish"
        PROVE  block'[v] \notin Listed' /\ next'[block'[v]] = Walk'[Place(block[v])']
    <3>1. block'[v] = n
      BY <1>9, <2>3, <2>4
    <3>2. Place(block[v])' = Place(n)
      BY <1>7, <3>1 DEF Place
    <3> QED
      BY <1>2, <1>4, <1>7, <3>1, <3>2
  <2>5. \A v \in Writer : grace'[v] \subseteq Reading'
    BY <1>8 DEF IInv, WriterInv, Reading
  <2> QED
    BY <1>2, <1>8, <2>1, <2>2, <2>3, <2>4, <2>5 DEF WriterInv
<1>12. ASSUME NEW c \in Caller PROVE CallerInv(c)' /\ (cpc[c] \in {"loop", "call"} => OnRoad(c))'
  <2>1. ASSUME NEW m \in Block, Safe(c, m) PROVE next'[m] = next[m] /\ Safe(c, m)'
    <3>1. m # n
      BY <1>2, <2>1 DEF Safe, Busy
    <3>2. Safe(c, m)'
      BY <1>2, <1>7, <1>8, <1>9, <2>1 DEF Safe
    <3> QED
      BY <1>5, <3>1, <3>2
  <2>2. Own(c) /\ nr_to_call'[c] = nr_to_call[c]
    BY <1>8 DEF Own
  <2>3. CallerInv(c) /\ (cpc[c] \in {"loop", "call"} => OnRoad(c))
    BY DEF IInv
  <2> QED
    BY <1>3, <1>7, <2>1, <2>2, <2>3, CallerWaits
<1> QED
  BY <1>6, <1>10, <1>11, <1>12 DEF IInv

\* The block joins every road.
LEMMA PublishKeeps ==
  ASSUME IInv, NEW w \in Writer, Publish(w)
  PROVE  IInv'
<1> USE DEF callers
<1>1. PICK ch : IsChain(ch)
  BY DEF IInv
<1>2. Types /\ wpc[w] = "publish" /\ Assign(Place(block[w]), block[w], next)
  BY DEF IInv, Publish
<1>3. PICK n \in Block \ Listed : n = block[w] /\ next[n] = Walk[Place(n)]
  BY <1>2 DEF IInv, WriterInv
<1>4. PICK nexts \in [Block -> Block \cup {NULL}] : nexts = next
  BY <1>2 DEF Types
<1>5. PICK p \in 0..Len(ch) :
        /\ Splits(ch, p, n) /\ IsChain(Ins(ch, p, n))'
        /\ head' = (IF p = 0 THEN n ELSE head)
        /\ head' \in Block \cup {NULL} /\ next' \in [Block -> Block \cup {NULL}]
        /\ next'[n] = At(ch, p + 1)
        /\ \A m \in Block \ {n} : next'[m] = IF p # 0 /\ m = ch[p] THEN n ELSE next[m]
        /\ Listed' = Listed \cup {n}
  <2>1. Assign(Place(n), n, nexts)
    BY <1>2, <1>3, <1>4
  <2>2. nexts[n] = Walk[Place(n)] /\ \A m \in Block \ {n} : nexts[m] = next[m]
    BY <1>3, <1>4
  <2> QED
    BY <1>1, <1>2, <2>1, <2>2, LinkIs
<1>6. /\ wpc' = [wpc EXCEPT ![w] = "idle"] /\ block' = [block EXCEPT ![w] = NULL]
      /\ UNCHANGED <<kind, system_state, grace, cpc, nb, next_nb, nr_to_call, called, stay>>
  BY DEF Publish
<1>7. /\ wpc'[w] = "idle"
      /\ \A v \in Writer \ {w} : wpc'[v] = wpc[v] /\ block'[v] = block[v]
  BY <1>2, <1>6 DEF Types
<1>8. Types'
  BY <1>2, <1>5, <1>6 DEF Types
<1>9. WriterInv'
  <2>1. \A v \in Writer : wpc'[v] # "idle" => block'[v] \in Block
    BY <1>7 DEF IInv, WriterInv
  <2>2. \A u, v \in Writer : wpc'[u] # "idle" /\ wpc'[v] # "idle" /\ block'[u] = block'[v] => u = v
    BY <1>7 DEF IInv, WriterInv
  <2>3. \A v \in Writer : wpc'[v] # "publish"
    BY <1>2, <1>7 DEF IInv, WriterInv
  <2>4. \A v \in Writer : grace'[v] \subseteq Reading'
    BY <1>6 DEF IInv, WriterInv, Reading
  <2>5. system_state = "RUNNING"
    BY <1>2 DEF IInv, WriterInv, Types
  <2> QED
    BY <1>6, <2>1, <2>2, <2>3, <2>4, <2>5 DEF WriterInv
<1>10. ASSUME NEW c \in Caller PROVE CallerInv(c)' /\ (cpc[c] \in {"loop", "call"} => OnRoad(c))'
  <2>1. CallerInv(c) /\ (cpc[c] \in {"loop", "call"} => OnRoad(c))
    BY DEF IInv
  <2>2. Own(c) /\ nr_to_call'[c] = nr_to_call[c]
    BY <1>6 DEF Own
  <2>3. CallerInv(c)'
    BY <1>5, <2>1, <2>2 DEF CallerInv, Own
  <2>4. ASSUME cpc[c] \in {"loop", "call"} PROVE OnRoad(c)'
    <3>1. PICK H, pos : Road(c, H) /\ Where(c, H, pos)
      BY <2>1, <2>4 DEF OnRoad
    <3>2. n \in Block \ Elements(H)
      <4>1. ~Safe(c, n)
        BY <1>2, <1>3 DEF Safe, IInv, WriterInv
      <4> QED
        BY <3>1, <4>1 DEF Road, Elements
    <3>3. \A i \in 1..Len(H) : Safe(c, H[i])'
      <4> SUFFICES ASSUME NEW i \in 1..Len(H) PROVE Safe(c, H[i])'
        OBVIOUS
      <4>1. Safe(c, H[i])
        BY <3>1 DEF Road
      <4>2. CASE H[i] \in Listed
        BY <1>5, <4>2 DEF Safe
      <4>3. CASE \E v \in Writer : wpc[v] = "sync" /\ block[v] = H[i] /\ c \in grace[v]
        BY <1>2, <1>6, <1>7, <4>3 DEF Safe
      <4> QED
        BY <4>1, <4>2, <4>3 DEF Safe
    <3>4. stay[c] \subseteq Listed
      BY <2>1 DEF CallerInv
    <3>5. \E G, r : Road(c, G)' /\ Where(c, G, r)'
      BY <1>1, <1>5, <2>2, <3>1, <3>2, <3>3, <3>4, RoadGrows
    <3> QED
      BY <3>5 DEF OnRoad
  <2> QED
    BY <2>2, <2>3, <2>4 DEF Own
<1> QED
  BY <1>5, <1>8, <1>9, <1>10 DEF IInv

\* Nobody waited for stands on the block.
LEMMA ReturnKeeps ==
  ASSUME IInv, NEW w \in Writer, Return(w)
  PROVE  IInv'
<1> USE DEF callers, list
<1>1. PICK ch : IsChain(ch)
  BY DEF IInv
<1>2. Types /\ wpc[w] = "sync" /\ grace[w] = {}
  BY DEF IInv, Return
<1>3. /\ wpc' = [wpc EXCEPT ![w] = "idle"] /\ block' = [block EXCEPT ![w] = NULL]
      /\ UNCHANGED <<kind, system_state, head, next, grace, cpc, nb, next_nb, nr_to_call, called, stay>>
  BY DEF Return
<1>4. /\ wpc'[w] = "idle"
      /\ \A v \in Writer \ {w} : wpc'[v] = wpc[v] /\ block'[v] = block[v]
  BY <1>2, <1>3 DEF Types
<1>5. IsChain(ch)' /\ Walk' = Walk /\ Listed' = Listed /\ \A n \in Block : Place(n)' = Place(n)
  BY <1>1, <1>3, ChainWaits
<1>6. Types'
  BY <1>2, <1>3 DEF Types
<1>7. WriterInv'
  <2>1. \A v \in Writer : wpc'[v] # "idle" => block'[v] \in Block
    BY <1>4 DEF IInv, WriterInv
  <2>2. \A u, v \in Writer : wpc'[u] # "idle" /\ wpc'[v] # "idle" /\ block'[u] = block'[v] => u = v
    BY <1>4 DEF IInv, WriterInv
  <2>3. \A u, v \in Writer : wpc'[u] = "publish" /\ wpc'[v] = "publish" => u = v
    BY <1>4 DEF IInv, WriterInv
  <2>4. ASSUME NEW v \in Writer, wpc'[v] = "publish"
        PROVE  block'[v] \notin Listed' /\ next'[block'[v]] = Walk'[Place(block[v])']
    <3>1. wpc[v] = "publish" /\ block'[v] = block[v]
      BY <1>4, <2>4
    <3>2. block[v] \in Block /\ block[v] \notin Listed /\ next[block[v]] = Walk[Place(block[v])]
      BY <3>1 DEF IInv, WriterInv
    <3>3. Place(block[v])' = Place(block[v])
      BY <1>5, <3>1 DEF Place
    <3> QED
      BY <1>3, <1>5, <3>1, <3>2, <3>3
  <2>5. \A v \in Writer : grace'[v] \subseteq Reading'
    BY <1>3 DEF IInv, WriterInv, Reading
  <2>6. system_state = "RUNNING"
    BY <1>2 DEF IInv, WriterInv, Types
  <2> QED
    BY <1>3, <2>1, <2>2, <2>3, <2>4, <2>5, <2>6 DEF WriterInv
<1>8. ASSUME NEW c \in Caller PROVE CallerInv(c)' /\ (cpc[c] \in {"loop", "call"} => OnRoad(c))'
  <2>1. CallerInv(c) /\ (cpc[c] \in {"loop", "call"} => OnRoad(c))
    BY DEF IInv
  <2>2. Own(c) /\ nr_to_call'[c] = nr_to_call[c]
    BY <1>3 DEF Own
  <2>3. ASSUME NEW m \in Block, Safe(c, m) PROVE next'[m] = next[m] /\ Safe(c, m)'
    BY <1>2, <1>3, <1>4, <1>5, <2>3 DEF Safe
  <2> QED
    BY <1>3, <1>5, <2>1, <2>2, <2>3, CallerWaits
<1> QED
  BY <1>5, <1>6, <1>7, <1>8 DEF IInv

\* Who is there now is waited for.
LEMMA UnregisterKeeps ==
  ASSUME IInv, NEW w \in Writer, NEW n \in Block, Unregister(w, n)
  PROVE  IInv'
<1> USE DEF writers, list
<1>1. PICK ch : IsChain(ch)
  BY DEF IInv
<1>2. /\ Types /\ ~Busy(n) /\ NoWriter /\ wpc[w] = "idle" /\ system_state = "RUNNING"
      /\ kind = "blocking" => Reading = {}
  BY DEF IInv, Unregister, MayWrite
<1>3. /\ UNCHANGED <<kind, system_state, cpc, nb, next_nb, nr_to_call, called>>
      /\ stay' = [c \in Caller |-> stay[c] \ {n}]
  BY DEF Unregister
<1>4. /\ \A v \in Writer \ {w} : wpc'[v] = wpc[v] /\ block'[v] = block[v] /\ grace'[v] = grace[v]
      /\ \/ kind = "blocking" /\ wpc'[w] = "idle" /\ grace'[w] = grace[w]
         \/ kind # "blocking" /\ wpc'[w] = "sync" /\ block'[w] = n /\ grace'[w] = Reading
      /\ wpc' \in [Writer -> {"idle", "publish", "sync"}]
      /\ block' \in [Writer -> Block \cup {NULL}]
      /\ grace' \in [Writer -> SUBSET Caller]
  <2>1. CASE kind = "blocking"
    BY <1>2, <2>1 DEF Unregister, Types
  <2>2. CASE kind # "blocking"
    <3>1. /\ wpc' = [wpc EXCEPT ![w] = "sync"] /\ block' = [block EXCEPT ![w] = n]
          /\ grace' = [grace EXCEPT ![w] = Reading]
      BY <2>2 DEF Unregister, WasThere
    <3>2. Reading \in SUBSET Caller
      BY DEF Reading
    <3> QED
      BY <1>2, <2>2, <3>1, <3>2 DEF Types
  <2> QED
    BY <2>1, <2>2
<1>5. CASE n \notin Listed
  <2>1. head' = head /\ next' = next
    BY <1>5 DEF Unregister
  <2>2. IsChain(ch)' /\ Listed' = Listed
    BY <1>1, <2>1, ChainWaits
  <2>3. Types'
    BY <1>2, <1>3, <1>4, <2>1 DEF Types
  <2>4. WriterInv'
    BY <1>2, <1>3, <1>4 DEF IInv, WriterInv, Busy, NoWriter, Reading
  <2>5. ASSUME NEW c \in Caller PROVE CallerInv(c)' /\ (cpc[c] \in {"loop", "call"} => OnRoad(c))'
    <3>1. CallerInv(c) /\ (cpc[c] \in {"loop", "call"} => OnRoad(c))
      BY DEF IInv
    <3>2. stay'[c] = stay[c]
      BY <1>3, <1>5, <3>1 DEF CallerInv
    <3>3. Own(c) /\ nr_to_call'[c] = nr_to_call[c]
      BY <1>3, <3>2 DEF Own
    <3>4. ASSUME NEW m \in Block, Safe(c, m) PROVE next'[m] = next[m] /\ Safe(c, m)'
      <4>1. Safe(c, m)'
        BY <1>2, <1>4, <2>2, <3>4 DEF Safe
      <4> QED
        BY <2>1, <4>1
    <3> QED
      BY <2>1, <2>2, <3>1, <3>3, <3>4, CallerWaits
  <2> QED
    BY <2>2, <2>3, <2>4, <2>5 DEF IInv
<1>6. CASE n \in Listed
  <2>1. Unlink(n)
    BY <1>6 DEF Unregister
  <2>2. PICK k \in 1..Len(ch) :
          /\ n = ch[k] /\ IsChain(Del(ch, k))'
          /\ head' = IF k = 1 THEN next[ch[k]] ELSE head
          /\ head' \in Block \cup {NULL} /\ next' \in [Block -> Block \cup {NULL}]
          /\ \A m \in Block : next'[m] = IF k # 1 /\ m = ch[k - 1] THEN next[ch[k]] ELSE next[m]
          /\ Listed' = Listed \ {n}
    BY <1>1, <1>2, <2>1, UnlinkIs
  <2>3. Types'
    BY <1>2, <1>3, <1>4, <2>2 DEF Types
  <2>4. WriterInv'
    BY <1>2, <1>3, <1>4 DEF IInv, WriterInv, Busy, NoWriter, Reading
  <2>5. ASSUME NEW c \in Caller PROVE CallerInv(c)' /\ (cpc[c] \in {"loop", "call"} => OnRoad(c))'
    <3>1. CallerInv(c) /\ (cpc[c] \in {"loop", "call"} => OnRoad(c))
      BY DEF IInv
    <3>2. stay'[c] = stay[c] \ {n}
      BY <1>3
    <3>3. CallerInv(c)'
      BY <1>3, <2>2, <3>1, <3>2 DEF CallerInv
    <3>4. ASSUME cpc[c] \in {"loop", "call"} PROVE OnRoad(c)'
      <4>1. PICK H, pos : Road(c, H) /\ Where(c, H, pos)
        BY <3>1, <3>4 DEF OnRoad
      <4>2. c \in grace'[w] /\ wpc'[w] = "sync" /\ block'[w] = n
        BY <1>2, <1>4, <3>4 DEF Reading
      <4>3. ASSUME NEW i \in 1..Len(H) PROVE Safe(c, H[i])'
        <5>1. Safe(c, H[i])
          BY <4>1 DEF Road
        <5>2. CASE H[i] \in Listed
          BY <2>2, <4>2, <5>2 DEF Safe
        <5>3. CASE \E v \in Writer : wpc[v] = "sync" /\ block[v] = H[i] /\ c \in grace[v]
          BY <1>2, <1>4, <5>3 DEF Safe
        <5> QED
          BY <5>1, <5>2, <5>3 DEF Safe
      <4>4. stay'[c] = stay[c] \ {ch[k]} /\ Listed' \subseteq Listed
        BY <2>2, <3>2
      <4>5. cpc'[c] = cpc[c] /\ nb'[c] = nb[c] /\ next_nb'[c] = next_nb[c] /\ called'[c] = called[c]
        BY <1>3
      <4>6. Road(c, H)' /\ Where(c, H, pos)'
        BY <1>1, <2>2, <4>1, <4>3, <4>4, <4>5, RoadUnlinked
      <4> QED
        BY <4>6 DEF OnRoad
    <3> QED
      BY <1>3, <3>3, <3>4
  <2> QED
    BY <2>2, <2>3, <2>4, <2>5 DEF IInv
<1> QED
  BY <1>5, <1>6

-----------------------------------------------------------------------------
(* The steps of callers.                                                   *)

\* The other callers stay where they are.
LEMMA OthersWait ==
  ASSUME IInv, NEW c \in Caller, UNCHANGED <<head, next, wpc, block>>,
         \A d \in Caller \ {c} : Own(d) /\ nr_to_call'[d] = nr_to_call[d],
         \A w \in Writer : grace[w] \ {c} \subseteq grace'[w]
  PROVE  \A d \in Caller \ {c} : CallerInv(d)' /\ (cpc[d] \in {"loop", "call"} => OnRoad(d))'
<1> SUFFICES ASSUME NEW d \in Caller \ {c}
             PROVE  CallerInv(d)' /\ (cpc[d] \in {"loop", "call"} => OnRoad(d))'
  OBVIOUS
<1>1. PICK ch : IsChain(ch)
  BY DEF IInv
<1>2. Listed' = Listed
  BY <1>1, ChainWaits
<1>3. ASSUME NEW m \in Block, Safe(d, m) PROVE next'[m] = next[m] /\ Safe(d, m)'
  BY <1>2, <1>3 DEF Safe
<1>4. CallerInv(d) /\ (cpc[d] \in {"loop", "call"} => OnRoad(d))
  BY DEF IInv
<1> QED
  BY <1>2, <1>3, <1>4, CallerWaits

\* A road begins as the list.
LEMMA EnterKeeps ==
  ASSUME IInv, NEW c \in Caller, NEW limit \in Nat \cup {-1},
         cpc[c] \in {"idle", "down_read"}, system_state = "RUNNING", Enter(c, limit)
  PROVE  IInv'
<1> USE DEF writers, list
<1>1. PICK ch : IsChain(ch)
  BY DEF IInv
<1>2. IsChain(ch)' /\ Listed' = Listed
  BY <1>1, ChainWaits DEF Enter
<1>3. Types
  BY DEF IInv
<1>4. Listed = Elements(ch)
  BY <1>1, OfChain DEF Says
<1>5. Elements(ch) \subseteq Block
  BY <1>1 DEF IsChain, Elements
<1>6. /\ cpc'[c] = "loop" /\ nb'[c] = head /\ nr_to_call'[c] = limit /\ stay'[c] = Listed
      /\ UNCHANGED <<kind, system_state, head, next, wpc, block, grace, next_nb, called>>
      /\ \A d \in Caller \ {c} : Own(d) /\ nr_to_call'[d] = nr_to_call[d]
      /\ \A d \in Caller \ {c} : cpc'[d] = cpc[d]
  BY <1>3 DEF Types, Enter, Own
<1>7. Types'
  <2>1. Listed \in SUBSET Block /\ limit \in Int /\ head \in Block \cup {NULL}
    BY <1>3, <1>4, <1>5 DEF Types
  <2>2. /\ cpc' = [cpc EXCEPT ![c] = "loop"] /\ nb' = [nb EXCEPT ![c] = head]
        /\ nr_to_call' = [nr_to_call EXCEPT ![c] = limit]
        /\ stay' = [stay EXCEPT ![c] = Listed]
    BY DEF Enter
  <2> QED
    BY <1>3, <1>6, <2>1, <2>2 DEF Types
<1>8. WriterInv'
  <2>1. \A w \in Writer : grace'[w] \subseteq Reading'
    BY <1>6 DEF IInv, WriterInv, Reading
  <2> QED
    BY <1>6, <2>1, WritersWait
<1>9. called[c] = <<>> /\ next_nb[c] = NULL
  BY DEF IInv, CallerInv
<1>10. CallerInv(c)'
  <2>1. Distinct(<<>>) /\ Sorted(<<>>) /\ Len(<<>>) = 0
    BY DEF Distinct, Sorted
  <2> QED
    BY <1>2, <1>6, <1>9, <2>1 DEF CallerInv
<1>11. OnRoad(c)'
  <2>1. ch \in Seq(Block) /\ Distinct(ch) /\ Sorted(ch) /\ Len(ch) \in Nat /\ head = At(ch, 1)
    BY <1>1 DEF IsChain
  <2>2. ASSUME NEW i \in 0..Len(ch) PROVE Leads(ch, i, Pointer(ch, i), stay[c])'
    <3>1. Pointer(ch, i)' = At(ch, i + 1)
      BY <1>1, <1>6, <2>1 DEF IsChain, Pointer
    <3>2. i + 1 \in i + 1..Len(ch) + 1 /\ \A k \in i + 1..(i + 1) - 1 : FALSE
      BY <2>1
    <3> QED
      BY <3>1, <3>2 DEF Leads
  <2>3. \A i \in 1..Len(ch) : Safe(c, ch[i])'
    BY <1>2, <1>4 DEF Safe, Elements
  <2>4. Road(c, ch)'
    BY <1>2, <1>4, <2>1, <2>2, <2>3 DEF Road
  <2>5. Where(c, ch, 1)'
    <3>1. 1 \in 1..Len(ch) + 1 /\ \A k \in 1..1 - 1 : FALSE
      BY <2>1
    <3>2. Len(called'[c]) = 0
      BY <1>6, <1>9
    <3> QED
      BY <1>6, <1>9, <2>1, <3>1, <3>2 DEF Where
  <2> QED
    BY <2>4, <2>5 DEF OnRoad
<1>12. \A d \in Caller \ {c} : CallerInv(d)' /\ (cpc[d] \in {"loop", "call"} => OnRoad(d))'
  BY <1>6, OthersWait
<1> QED
  BY <1>2, <1>7, <1>8, <1>10, <1>11, <1>12 DEF IInv

\* Nothing is read but whether the list is empty.
LEMMA CheckHeadKeeps ==
  ASSUME IInv, NEW c \in Caller, NEW limit \in Nat \cup {-1}, CheckHead(c, limit)
  PROVE  IInv'
<1> USE DEF writers, list
<1>1. PICK ch : IsChain(ch)
  BY DEF IInv
<1>2. IsChain(ch)' /\ Listed' = Listed
  BY <1>1, ChainWaits DEF CheckHead
<1>3. Types /\ cpc[c] = "idle" /\ system_state = "RUNNING"
  BY DEF IInv, CheckHead
<1>4. /\ cpc'[c] = "down_read" /\ nr_to_call'[c] = limit
      /\ UNCHANGED <<kind, system_state, head, next, wpc, block, grace, nb, next_nb, called, stay>>
      /\ \A d \in Caller \ {c} : Own(d) /\ nr_to_call'[d] = nr_to_call[d]
      /\ \A d \in Caller \ {c} : cpc'[d] = cpc[d]
  BY <1>3 DEF Types, CheckHead, Own
<1>5. Types'
  BY <1>3, <1>4 DEF Types, CheckHead
<1>6. WriterInv'
  <2>1. \A w \in Writer : grace'[w] \subseteq Reading'
    BY <1>3, <1>4 DEF IInv, WriterInv, Reading
  <2> QED
    BY <1>3, <1>4, <2>1, WritersWait
<1>7. CallerInv(c)' /\ (cpc[c] \in {"loop", "call"} => OnRoad(c))'
  <2>1. nb[c] = NULL /\ next_nb[c] = NULL /\ called[c] = <<>> /\ stay[c] = {}
    BY <1>3 DEF IInv, CallerInv
  <2>2. Distinct(<<>>) /\ Sorted(<<>>) /\ Len(<<>>) = 0
    BY DEF Distinct, Sorted
  <2> QED
    BY <1>2, <1>4, <2>1, <2>2 DEF CallerInv
<1>8. \A d \in Caller \ {c} : CallerInv(d)' /\ (cpc[d] \in {"loop", "call"} => OnRoad(d))'
  BY <1>4, OthersWait
<1> QED
  BY <1>2, <1>5, <1>6, <1>7, <1>8 DEF IInv

\* The road of the call ends, for the writers too that waited for it.
LEMMA EndKeeps ==
  ASSUME IInv, NEW c \in Caller, cpc[c] \in {"loop", "call"}, End(c)
  PROVE  IInv'
<1> USE DEF list
<1>1. PICK ch : IsChain(ch)
  BY DEF IInv
<1>2. IsChain(ch)' /\ Listed' = Listed
  BY <1>1, ChainWaits DEF End
<1>3. Types
  BY DEF IInv
<1>4. /\ cpc'[c] = "idle" /\ nb'[c] = NULL /\ next_nb'[c] = NULL /\ nr_to_call'[c] = 0
      /\ called'[c] = <<>> /\ stay'[c] = {}
      /\ UNCHANGED <<kind, system_state, head, next, wpc, block>>
      /\ \A w \in Writer : grace'[w] = grace[w] \ {c}
      /\ \A d \in Caller \ {c} : Own(d) /\ nr_to_call'[d] = nr_to_call[d]
      /\ \A d \in Caller \ {c} : cpc'[d] = cpc[d]
  BY <1>3 DEF Types, End, Own
<1>5. Types'
  <2>1. <<>> \in Seq(Block) /\ {} \in SUBSET Block /\ 0 \in Int
    OBVIOUS
  <2>2. grace' \in [Writer -> SUBSET Caller]
    BY <1>3 DEF Types, End
  <2> QED
    BY <1>3, <1>4, <2>1, <2>2 DEF Types, End
<1>6. WriterInv'
  <2>1. \A w \in Writer : grace'[w] \subseteq Reading'
    BY <1>4 DEF IInv, WriterInv, Reading
  <2>2. system_state = "RUNNING"
    BY <1>3 DEF IInv, WriterInv, Types
  <2> QED
    BY <1>4, <2>1, <2>2, WritersWait
<1>7. CallerInv(c)' /\ (cpc[c] \in {"loop", "call"} => OnRoad(c))'
  <2>1. Distinct(<<>>) /\ Sorted(<<>>) /\ Len(<<>>) = 0
    BY DEF Distinct, Sorted
  <2> QED
    BY <1>4, <2>1 DEF CallerInv
<1>8. \A d \in Caller \ {c} : CallerInv(d)' /\ (cpc[d] \in {"loop", "call"} => OnRoad(d))'
  BY <1>4, OthersWait
<1> QED
  BY <1>2, <1>5, <1>6, <1>7, <1>8 DEF IInv

\* The pointer that is read leads ahead on the road.
LEMMA DereferenceKeeps ==
  ASSUME IInv, NEW c \in Caller, Dereference(c)
  PROVE  IInv'
<1> USE DEF writers, list
<1>1. PICK ch : IsChain(ch)
  BY DEF IInv
<1>2. IsChain(ch)' /\ Listed' = Listed
  BY <1>1, ChainWaits DEF Dereference
<1>3. Types /\ cpc[c] = "loop" /\ nb[c] # NULL /\ nr_to_call[c] # 0
  BY DEF IInv, Dereference
<1>4. nb[c] \in Block
  BY <1>3 DEF Types
<1>5. /\ cpc'[c] = "call" /\ next_nb'[c] = next[nb[c]]
      /\ UNCHANGED <<kind, system_state, head, next, wpc, block, grace, nb, nr_to_call, called, stay>>
      /\ \A d \in Caller \ {c} : Own(d) /\ nr_to_call'[d] = nr_to_call[d]
      /\ \A d \in Caller \ {c} : cpc'[d] = cpc[d]
  BY <1>3 DEF Types, Dereference, Own
<1>6. Types'
  BY <1>3, <1>4, <1>5 DEF Types, Dereference
<1>7. system_state = "RUNNING"
  BY <1>3 DEF IInv, WriterInv, Types
<1>8. WriterInv'
  <2>1. \A w \in Writer : grace'[w] \subseteq Reading'
    BY <1>3, <1>5 DEF IInv, WriterInv, Reading
  <2> QED
    BY <1>5, <1>7, <2>1, WritersWait
<1>9. CallerInv(c)'
  BY <1>2, <1>3, <1>5 DEF IInv, CallerInv
<1>10. OnRoad(c)'
  <2>1. PICK H, pos : Road(c, H) /\ Where(c, H, pos)
    BY <1>3 DEF IInv, OnRoad
  <2>2. pos \in 1..Len(H) /\ pos \in 0..Len(H) /\ pos # 0 /\ nb[c] = H[pos]
    BY <1>3, <2>1 DEF Where, At, Road
  <2>3. Leads(H, pos, next[nb[c]], stay[c])
    <3>1. Pointer(H, pos) = next[nb[c]]
      BY <2>2 DEF Pointer
    <3> QED
      BY <2>1, <2>2, <3>1 DEF Road
  <2>4. Where(c, H, pos)'
    <3>1. Leads(H, pos, next_nb[c], stay[c])'
      BY <1>5, <2>3 DEF Leads
    <3> QED
      BY <1>5, <2>1, <2>2, <3>1 DEF Where
  <2>5. Road(c, H)'
    <3>1. ASSUME NEW i \in 0..Len(H) PROVE Leads(H, i, Pointer(H, i), stay[c])'
      BY <1>5, <2>1 DEF Road, Leads, Pointer
    <3>2. \A i \in 1..Len(H) : Safe(c, H[i])'
      BY <1>2, <1>5, <2>1 DEF Road, Safe
    <3> QED
      BY <1>2, <2>1, <3>1, <3>2 DEF Road
  <2> QED
    BY <2>4, <2>5 DEF OnRoad
<1>11. \A d \in Caller \ {c} : CallerInv(d)' /\ (cpc[d] \in {"loop", "call"} => OnRoad(d))'
  BY <1>5, OthersWait
<1> QED
  BY <1>2, <1>6, <1>8, <1>9, <1>10, <1>11 DEF IInv

\* The caller gets on to the block that it read before the call.
LEMMA NotifyKeeps ==
  ASSUME IInv, NEW c \in Caller, Notify(c)
  PROVE  IInv'
<1> USE DEF writers, list
<1>1. PICK ch : IsChain(ch)
  BY DEF IInv
<1>2. IsChain(ch)' /\ Listed' = Listed
  BY <1>1, ChainWaits DEF Notify
<1>3. Types /\ cpc[c] = "call"
  BY DEF IInv, Notify
<1>4. PICK H, pos : Road(c, H) /\ Where(c, H, pos)
  BY <1>3 DEF IInv, OnRoad
<1>5. /\ H \in Seq(Block) /\ Len(H) \in Nat /\ Distinct(H) /\ Sorted(H)
      /\ \A i \in 1..Len(H) : H[i] \in Block
  BY <1>4 DEF Road
<1>6. pos \in 1..Len(H) /\ nb[c] = H[pos] /\ nb[c] \in Block
  BY <1>3, <1>4, <1>5 DEF Where, At
<1> DEFINE now == Append(called[c], nb[c])
<1>7. called[c] \in Seq(Block) /\ Len(called[c]) \in Nat
  BY <1>3 DEF Types
<1>8. /\ now \in Seq(Block) /\ Len(now) = Len(called[c]) + 1
      /\ now[Len(called[c]) + 1] = nb[c]
      /\ \A i \in 1..Len(called[c]) : now[i] = called[c][i]
  BY <1>6, <1>7
<1>9. /\ cpc'[c] = "loop" /\ nb'[c] = next_nb[c] /\ nr_to_call'[c] = nr_to_call[c] - 1
      /\ called'[c] = now
      /\ UNCHANGED <<kind, system_state, head, next, wpc, block, grace, next_nb, stay>>
      /\ \A d \in Caller \ {c} : Own(d) /\ nr_to_call'[d] = nr_to_call[d]
      /\ \A d \in Caller \ {c} : cpc'[d] = cpc[d]
  BY <1>3 DEF Types, Notify, Own
<1>10. Types'
  <2>1. nr_to_call[c] - 1 \in Int /\ next_nb[c] \in Block \cup {NULL}
    BY <1>3 DEF Types
  <2>2. /\ cpc' = [cpc EXCEPT ![c] = "loop"] /\ nb' = [nb EXCEPT ![c] = next_nb[c]]
        /\ nr_to_call' = [nr_to_call EXCEPT ![c] = nr_to_call[c] - 1]
        /\ called' = [called EXCEPT ![c] = now]
    BY DEF Notify
  <2> HIDE DEF now
  <2>3. called' \in [Caller -> Seq(Block)]
    BY <1>3, <1>8, <2>2 DEF Types
  <2> QED
    BY <1>3, <1>9, <2>1, <2>2, <2>3 DEF Types
<1> HIDE DEF now
<1>11. system_state = "RUNNING"
  BY <1>3 DEF IInv, WriterInv, Types
<1>12. WriterInv'
  <2>1. \A w \in Writer : grace'[w] \subseteq Reading'
    BY <1>3, <1>9 DEF IInv, WriterInv, Reading
  <2> QED
    BY <1>9, <1>11, <2>1, WritersWait
<1>13. ASSUME NEW i \in 1..Len(called[c])
       PROVE  \E k \in 1..pos - 1 : called[c][i] = H[k] /\ k \in 1..Len(H) /\ k < pos
  <2>1. PICK k \in 1..pos - 1 : called[c][i] = H[k]
    BY <1>4 DEF Where
  <2>2. k \in 1..Len(H) /\ k < pos
    BY <1>5, <1>6
  <2> QED
    BY <2>1, <2>2
<1>14. Distinct(now) /\ Sorted(now)
  <2>0. Distinct(called[c]) /\ Sorted(called[c])
    BY DEF IInv, CallerInv
  <2>1. \A i \in 1..Len(called[c]) : called[c][i] # nb[c] /\ Priority[called[c][i]] >= Priority[nb[c]]
    BY <1>5, <1>6, <1>13 DEF Distinct, Sorted
  <2>2. \A i \in 1..Len(now) : i \in 1..Len(called[c]) \/ i = Len(called[c]) + 1
    BY <1>7, <1>8
  <2>3. Distinct(now)
    <3> SUFFICES ASSUME NEW i \in 1..Len(now), NEW j \in 1..Len(now), now[i] = now[j] PROVE i = j
      BY DEF Distinct
    <3> QED
      BY <1>8, <2>0, <2>1, <2>2 DEF Distinct
  <2>4. Sorted(now)
    <3> SUFFICES ASSUME NEW i \in 1..Len(now), NEW j \in 1..Len(now), i < j
                 PROVE  Priority[now[i]] >= Priority[now[j]]
      BY DEF Sorted
    <3>1. i \in 1..Len(called[c])
      BY <1>7, <1>8
    <3>2. CASE j \in 1..Len(called[c])
      BY <1>8, <2>0, <3>1, <3>2 DEF Sorted
    <3>3. CASE j = Len(called[c]) + 1
      BY <1>8, <2>1, <3>1, <3>3
    <3> QED
      BY <2>2, <3>2, <3>3
  <2> QED
    BY <2>3, <2>4
<1>15. CallerInv(c)'
  <2>1. nr_to_call'[c] \in Nat \/ nr_to_call'[c] = -1 - Len(called'[c])
    <3>1. nr_to_call[c] # 0 /\ (nr_to_call[c] \in Nat \/ nr_to_call[c] = -1 - Len(called[c]))
      BY <1>3 DEF IInv, CallerInv
    <3> QED
      BY <1>7, <1>8, <1>9, <3>1
  <2>2. stay'[c] \subseteq Listed'
    BY <1>2, <1>9 DEF IInv, CallerInv
  <2> QED
    BY <1>9, <1>14, <2>1, <2>2 DEF CallerInv
<1>16. OnRoad(c)'
  <2>1. PICK j \in pos + 1..Len(H) + 1 :
          next_nb[c] = At(H, j) /\ \A k \in pos + 1..j - 1 : H[k] \notin stay[c]
    BY <1>3, <1>4 DEF Where, Leads
  <2>2. j \in 1..Len(H) + 1
    BY <1>5, <1>6, <2>1
  <2>3. Elements(now) = Elements(called[c]) \cup {nb[c]}
    <3>1. ASSUME NEW i \in 1..Len(now) PROVE now[i] \in Elements(called[c]) \cup {nb[c]}
      <4>1. i \in 1..Len(called[c]) \/ i = Len(called[c]) + 1
        BY <1>7, <1>8
      <4> QED
        BY <1>8, <4>1 DEF Elements
    <3>2. ASSUME NEW i \in 1..Len(called[c]) PROVE called[c][i] \in Elements(now)
      <4>1. i \in 1..Len(now)
        BY <1>7, <1>8
      <4> QED
        BY <1>8, <4>1 DEF Elements
    <3>3. nb[c] \in Elements(now)
      <4>1. Len(called[c]) + 1 \in 1..Len(now)
        BY <1>7, <1>8
      <4> QED
        BY <1>8, <4>1 DEF Elements
    <3> QED
      BY <3>1, <3>2, <3>3 DEF Elements
  <2>4. ASSUME NEW k \in 1..j - 1, H[k] \in stay[c] PROVE H[k] \in Elements(now)
    <3>1. k \in 1..pos - 1 \/ k = pos \/ k \in pos + 1..j - 1
      BY <1>5, <1>6, <2>1
    <3>2. CASE k \in 1..pos - 1
      BY <1>4, <2>3, <2>4, <3>2 DEF Where
    <3>3. CASE k = pos
      BY <1>6, <2>3, <3>3
    <3> QED
      BY <2>1, <2>4, <3>1, <3>2, <3>3
  <2>5. ASSUME NEW i \in 1..Len(now) PROVE \E k \in 1..j - 1 : now[i] = H[k]
    <3>1. CASE i \in 1..Len(called[c])
      <4>1. PICK k \in 1..pos - 1 : called[c][i] = H[k]
        BY <1>13, <3>1
      <4>2. k \in 1..j - 1
        BY <1>5, <1>6, <2>1
      <4> QED
        BY <1>8, <3>1, <4>1, <4>2
    <3>2. CASE i = Len(called[c]) + 1
      <4>1. pos \in 1..j - 1
        BY <1>5, <1>6, <2>1
      <4> QED
        BY <1>6, <1>8, <3>2, <4>1
    <3> QED
      BY <1>7, <1>8, <3>1, <3>2
  <2>6. Where(c, H, j)'
    BY <1>9, <2>1, <2>2, <2>4, <2>5 DEF Where
  <2>7. Road(c, H)'
    <3>1. ASSUME NEW i \in 0..Len(H) PROVE Leads(H, i, Pointer(H, i), stay[c])'
      BY <1>9, <1>4 DEF Road, Leads, Pointer
    <3>2. \A i \in 1..Len(H) : Safe(c, H[i])'
      BY <1>2, <1>9, <1>4 DEF Road, Safe
    <3> QED
      BY <1>2, <1>4, <3>1, <3>2 DEF Road
  <2> QED
    BY <2>6, <2>7 DEF OnRoad
<1>17. \A d \in Caller \ {c} : CallerInv(d)' /\ (cpc[d] \in {"loop", "call"} => OnRoad(d))'
  BY <1>9, OthersWait
<1> QED
  BY <1>2, <1>10, <1>12, <1>15, <1>16, <1>17 DEF IInv

-----------------------------------------------------------------------------
(* The theorems.                                                           *)

\* Every step keeps the invariant.
LEMMA NextKeeps ==
  ASSUME IInv, [Next]_vars
  PROVE  IInv'
<1>1. CASE EndBoot
  BY <1>1, QuietKeeps DEF EndBoot
<1>2. CASE \E n \in Block : BootRegister(n) \/ BootUnregister(n)
  BY <1>2, BootRegisterKeeps, BootUnregisterKeeps
<1>3. CASE \E w \in Writer, n \in Block : Register(w, n) \/ Unregister(w, n)
  BY <1>3, RegisterKeeps, UnregisterKeeps
<1>4. CASE \E w \in Writer : Publish(w) \/ Return(w)
  BY <1>4, PublishKeeps, ReturnKeeps
<1>5. CASE \E c \in Caller : \E limit \in Limit[c] : ReadLock(c, limit) \/ CheckHead(c, limit)
  <2>1. PICK c \in Caller, limit \in Nat \cup {-1} : ReadLock(c, limit) \/ CheckHead(c, limit)
    BY <1>5, NotifierAssumption
  <2> QED
    BY <2>1, EnterKeeps, CheckHeadKeeps DEF ReadLock
<1>6. CASE \E c \in Caller : Walker(c)
  <2>1. PICK c \in Caller : Walker(c)
    BY <1>6
  <2>2. CASE DownRead(c)
    <3>1. cpc[c] = "down_read" /\ Enter(c, nr_to_call[c])
      BY <2>2 DEF DownRead
    <3>2. nr_to_call[c] \in Nat \cup {-1}
      <4>1. called[c] = <<>> /\ (nr_to_call[c] \in Nat \/ nr_to_call[c] = -1 - Len(called[c]))
        BY <3>1 DEF IInv, CallerInv
      <4>2. Len(<<>>) = 0
        OBVIOUS
      <4> QED
        BY <4>1, <4>2
    <3>3. system_state = "RUNNING"
      BY <3>1 DEF IInv, WriterInv, Types
    <3>4. PICK limit \in Nat \cup {-1} : limit = nr_to_call[c]
      BY <3>2
    <3> QED
      BY <3>1, <3>3, <3>4, EnterKeeps
  <2>3. CASE Dereference(c)
    BY <2>3, DereferenceKeeps
  <2>4. CASE Notify(c)
    BY <2>4, NotifyKeeps
  <2>5. CASE NotifyStop(c) \/ Leave(c)
    BY <2>5, EndKeeps DEF NotifyStop, Leave
  <2> QED
    BY <2>1, <2>2, <2>3, <2>4, <2>5 DEF Walker
<1>7. CASE UNCHANGED vars
  BY <1>7, QuietKeeps DEF vars
<1> QED
  BY <1>1, <1>2, <1>3, <1>4, <1>5, <1>6, <1>7 DEF Next

\* It holds always.
LEMMA Invariance == Spec => []IInv
<1>1. IInv /\ [Next]_vars => IInv'
  BY NextKeeps
<1> QED
  BY InitIInv, <1>1, PTL DEF Spec

\* A call calls no block twice, so its count stays within the blocks.
LEMMA TypeOfIInv == IInv => TypeOK
<1> SUFFICES ASSUME IInv PROVE TypeOK
  OBVIOUS
<1>1. ASSUME NEW c \in Caller
      PROVE  /\ nr_to_call[c] \in -Size - 1..-1 \/ nr_to_call[c] \in Nat
             /\ called[c] \in Seq(Block) /\ Len(called[c]) <= Size
             /\ stay[c] \subseteq Block
  <2>1. called[c] \in Seq(Block) /\ stay[c] \subseteq Block
    BY DEF IInv, Types
  <2>2. Distinct(called[c]) /\ (nr_to_call[c] \in Nat \/ nr_to_call[c] = -1 - Len(called[c]))
    BY DEF IInv, CallerInv
  <2>3. Size \in Nat /\ Len(called[c]) <= Size /\ Len(called[c]) \in Nat
    BY <2>1, <2>2, ShortSeq
  <2>4. nr_to_call[c] \in -Size - 1..-1 \/ nr_to_call[c] \in Nat
    BY <2>2, <2>3
  <2> QED
    BY <2>1, <2>3, <2>4
<1> QED
  BY <1>1 DEF IInv, Types, TypeOK

\* The variables keep their types: a call comes to no more blocks than there are,
\* and the number it may still call falls below zero only if it had no limit.
THEOREM TypesHold == Spec => []TypeOK
BY Invariance, TypeOfIInv, PTL

\* However many tasks register, unregister and call, when unregister has returned,
\* no caller stands on the block or has it as the next: the block may be freed.
THEOREM FreedBlocksUnseen == Spec => []OldBlockUnseen
<1>1. IInv => OldBlockUnseen
  <2> SUFFICES ASSUME IInv, NEW c \in Reading, NEW n \in {nb[c], next_nb[c]} \ {NULL}
               PROVE  ~Unused(n)
    BY DEF OldBlockUnseen
  <2>1. c \in Caller /\ cpc[c] \in {"loop", "call"}
    BY DEF Reading
  <2>2. PICK H, pos : Road(c, H) /\ Where(c, H, pos)
    BY <2>1 DEF IInv, OnRoad
  <2>3. \E i \in 1..Len(H) : n = H[i]
    <3>1. ASSUME NEW j, n = At(H, j) PROVE \E i \in 1..Len(H) : n = H[i]
      BY <3>1 DEF At
    <3>2. CASE n = nb[c]
      BY <2>2, <3>1, <3>2 DEF Where
    <3>3. CASE n = next_nb[c] /\ cpc[c] = "loop"
      <4>1. n = nb[c]
        BY <2>2, <3>3 DEF Where
      <4> QED
        BY <3>2, <4>1
    <3>4. CASE n = next_nb[c] /\ cpc[c] = "call"
      <4>1. \E j \in pos + 1..Len(H) + 1 : n = At(H, j)
        BY <2>2, <3>4 DEF Where, Leads
      <4> QED
        BY <3>1, <4>1
    <3> QED
      BY <2>1, <3>2, <3>3, <3>4
  <2>4. Safe(c, n)
    BY <2>2, <2>3 DEF Road
  <2> QED
    BY <2>4 DEF Safe, Unused, Busy
<1> QED
  BY Invariance, <1>1, PTL

\* A call that comes to the end has called every block that was in the list all
\* the while, and the blocks it calls come in the order of their priorities.
THEOREM StayersAreCalled == Spec => []CallsThoseWhoStay
<1>1. IInv => CallsThoseWhoStay
  <2> SUFFICES ASSUME IInv, NEW c \in Reading
               PROVE  /\ nb[c] = NULL => stay[c] \subseteq Range(called[c])
                      /\ \A i, j \in DOMAIN called[c] :
                           i < j => /\ called[c][i] # called[c][j]
                                    /\ Priority[called[c][i]] >= Priority[called[c][j]]
    BY DEF CallsThoseWhoStay
  <2>1. c \in Caller /\ cpc[c] \in {"loop", "call"}
    BY DEF Reading
  <2>2. PICK H, pos : Road(c, H) /\ Where(c, H, pos)
    BY <2>1 DEF IInv, OnRoad
  <2>3. called[c] \in Seq(Block) /\ DOMAIN called[c] = 1..Len(called[c]) /\ Len(called[c]) \in Nat
    BY <2>1 DEF IInv, Types
  <2>4. ASSUME nb[c] = NULL, NEW n \in stay[c] PROVE n \in Range(called[c])
    <3>1. H \in Seq(Block) /\ Len(H) \in Nat /\ \A i \in 1..Len(H) : H[i] \in Block
      BY <2>2 DEF Road
    <3>2. pos = Len(H) + 1
      BY <2>2, <2>4, <3>1, NotifierAssumption DEF Where, At
    <3>3. n \in Listed
      BY <2>1 DEF IInv, CallerInv
    <3>4. PICK k \in 1..Len(H) : H[k] = n
      BY <2>2, <3>3 DEF Road, Elements
    <3>5. k \in 1..pos - 1
      BY <3>1, <3>2
    <3>6. n \in Elements(called[c])
      BY <2>2, <3>4, <3>5 DEF Where
    <3> QED
      BY <2>3, <3>6 DEF Elements, Range
  <2>5. ASSUME NEW i \in DOMAIN called[c], NEW j \in DOMAIN called[c], i < j
        PROVE  called[c][i] # called[c][j] /\ Priority[called[c][i]] >= Priority[called[c][j]]
    <3>1. Distinct(called[c]) /\ Sorted(called[c])
      BY <2>1 DEF IInv, CallerInv
    <3>2. i \in 1..Len(called[c]) /\ j \in 1..Len(called[c]) /\ i # j
      BY <2>3, <2>5
    <3> QED
      BY <2>5, <3>1, <3>2 DEF Distinct, Sorted
  <2> QED
    BY <2>4, <2>5
<1> QED
  BY Invariance, <1>1, PTL

\* The list as a caller that walks along it now would see it.
Seen == [i \in 1..Cardinality(Listed) |-> Walk[i - 1]]

\* It is the sequence that the pointers lead along.
LEMMA SeenIs == \A ch : IsChain(ch) => Seen = ch
<1> SUFFICES ASSUME NEW ch, IsChain(ch) PROVE Seen = ch
  OBVIOUS
<1>1. ch \in Seq(Block) /\ Len(ch) \in Nat
  BY DEF IsChain
<1>2. Cardinality(Listed) = Len(ch) /\ \A i \in Nat : Walk[i] = At(ch, i + 1)
  BY OfChain DEF Says
<1>3. \A i \in 1..Len(ch) : Walk[i - 1] = ch[i]
  <2> SUFFICES ASSUME NEW i \in 1..Len(ch) PROVE Walk[i - 1] = ch[i]
    OBVIOUS
  <2>1. i - 1 \in Nat /\ (i - 1) + 1 = i
    BY <1>1
  <2> QED
    BY <1>2, <2>1 DEF At
<1>4. Seen = [i \in 1..Len(ch) |-> ch[i]]
  BY <1>2, <1>3 DEF Seen
<1> QED
  BY <1>1, <1>4

\* And in the next state.
LEMMA NowSeen ==
  ASSUME NEW s, IsChain(s)'
  PROVE  Seen' = s
<1>1. (\A ch : IsChain(ch) => Seen = ch)'
  BY SeenIs, PTL
<1> QED
  BY <1>1

\* To insert is to add, in the abstract chain.
LEMMA InsAdds ==
  ASSUME NEW ch, IsChain(ch), NEW n \in Block \ Elements(ch), NEW p \in 0..Len(ch),
         Splits(ch, p, n), IsChain(Ins(ch, p, n))'
  PROVE  Chain!Next
<1>1. ch \in Seq(Block) /\ Len(ch) \in Nat
  BY DEF IsChain
<1>2. Seen = ch /\ Seen' = Ins(ch, p, n)
  BY SeenIs, NowSeen
<1>3. Ins(ch, p, n) = SubSeq(ch, 1, p) \o <<n>> \o SubSeq(ch, p + 1, Len(ch))
  <2> DEFINE a == SubSeq(ch, 1, p)
             z == SubSeq(ch, p + 1, Len(ch))
             ab == a \o <<n>>
  <2>1. a \in Seq(Block) /\ Len(a) = p /\ \A i \in 1..p : a[i] = ch[i]
    BY <1>1
  <2>2. z \in Seq(Block) /\ Len(z) = Len(ch) - p /\ \A i \in 1..Len(ch) - p : z[i] = ch[p + i]
    BY <1>1
  <2> HIDE DEF a, z
  <2>3. ab \in Seq(Block) /\ Len(ab) = p + 1 /\ ab[p + 1] = n /\ \A i \in 1..p : ab[i] = ch[i]
    BY <1>1, <2>1
  <2> HIDE DEF ab
  <2>4. /\ ab \o z \in Seq(Block) /\ Len(ab \o z) = Len(ch) + 1
        /\ \A i \in 1..Len(ch) + 1 : (ab \o z)[i] = IF i <= p + 1 THEN ab[i] ELSE z[i - (p + 1)]
    BY <1>1, <2>2, <2>3
  <2>5. Ins(ch, p, n) \in Seq(Block) /\ Len(Ins(ch, p, n)) = Len(ch) + 1
    BY <1>1, InsIs
  <2>6. ASSUME NEW i \in 1..Len(ch) + 1 PROVE Ins(ch, p, n)[i] = (ab \o z)[i]
    <3>1. Ins(ch, p, n)[i] = IF i <= p THEN ch[i] ELSE IF i = p + 1 THEN n ELSE ch[i - 1]
      BY DEF Ins
    <3>2. CASE i <= p
      BY <1>1, <2>3, <2>4, <3>1, <3>2
    <3>3. CASE i = p + 1
      BY <1>1, <2>3, <2>4, <3>1, <3>3
    <3>4. CASE i > p + 1
      <4>1. i - (p + 1) \in 1..Len(ch) - p /\ p + (i - (p + 1)) = i - 1
        BY <1>1, <3>4
      <4>2. z[i - (p + 1)] = ch[i - 1]
        BY <2>2, <4>1
      <4> QED
        BY <1>1, <2>4, <3>1, <3>4, <4>2
    <3>5. i <= p \/ i = p + 1 \/ i > p + 1
      BY <1>1
    <3> QED
      BY <3>2, <3>3, <3>4, <3>5
  <2>7. Ins(ch, p, n) = ab \o z
    BY <2>4, <2>5, <2>6, SeqEqual
  <2> QED
    BY <2>7 DEF a, z, ab
<1>4. \A i \in 1..Len(ch) : ch[i] # n
  BY DEF Elements
<1>5. Chain!Add(n)
  BY <1>2, <1>3, <1>4 DEF Chain!Add, Splits, Seen
<1> QED
  BY <1>5 DEF Chain!Next

\* To delete is to drop.
LEMMA DelDrops ==
  ASSUME NEW ch, IsChain(ch), NEW k \in 1..Len(ch), IsChain(Del(ch, k))'
  PROVE  Chain!Next
<1>1. ch \in Seq(Block) /\ Len(ch) \in Nat /\ Distinct(ch) /\ Sorted(ch) /\ ch[k] \in Block
  BY DEF IsChain
<1>2. Seen = ch /\ Seen' = Del(ch, k)
  BY SeenIs, NowSeen
<1>3. Del(ch, k) = SubSeq(ch, 1, k - 1) \o SubSeq(ch, k + 1, Len(ch))
  <2> DEFINE a == SubSeq(ch, 1, k - 1)
             z == SubSeq(ch, k + 1, Len(ch))
  <2>1. a \in Seq(Block) /\ Len(a) = k - 1 /\ \A i \in 1..k - 1 : a[i] = ch[i]
    BY <1>1
  <2>2. z \in Seq(Block) /\ Len(z) = Len(ch) - k /\ \A i \in 1..Len(ch) - k : z[i] = ch[k + i]
    BY <1>1
  <2> HIDE DEF a, z
  <2>3. /\ a \o z \in Seq(Block) /\ Len(a \o z) = Len(ch) - 1
        /\ \A i \in 1..Len(ch) - 1 : (a \o z)[i] = IF i <= k - 1 THEN a[i] ELSE z[i - (k - 1)]
    <3>1. Len(a) + Len(z) = Len(ch) - 1
      BY <1>1, <2>1, <2>2
    <3>2. /\ a \o z \in Seq(Block) /\ Len(a \o z) = Len(a) + Len(z)
          /\ \A i \in 1..Len(a) + Len(z) : (a \o z)[i] = IF i <= Len(a) THEN a[i] ELSE z[i - Len(a)]
      BY <2>1, <2>2, ConcatProperties
    <3> QED
      BY <2>1, <3>1, <3>2
  <2>4. Del(ch, k) \in Seq(Block) /\ Len(Del(ch, k)) = Len(ch) - 1
    BY <1>1, DelIs
  <2>5. ASSUME NEW i \in 1..Len(ch) - 1 PROVE Del(ch, k)[i] = (a \o z)[i]
    <3>1. Del(ch, k)[i] = IF i < k THEN ch[i] ELSE ch[i + 1]
      BY DEF Del
    <3>2. CASE i < k
      <4>1. i <= k - 1 /\ i \in 1..k - 1
        BY <1>1, <3>2
      <4> QED
        BY <2>1, <2>3, <3>1, <3>2, <4>1
    <3>3. CASE ~(i < k)
      <4>1. ~(i <= k - 1) /\ i - (k - 1) \in 1..Len(ch) - k /\ k + (i - (k - 1)) = i + 1
        BY <1>1, <3>3
      <4>2. z[i - (k - 1)] = ch[i + 1]
        BY <2>2, <4>1
      <4> QED
        BY <2>3, <3>1, <3>3, <4>1, <4>2
    <3> QED
      BY <3>2, <3>3
  <2>6. Del(ch, k) = a \o z
    BY <2>3, <2>4, <2>5, SeqEqual
  <2> QED
    BY <2>6 DEF a, z
<1>4. Chain!Drop(ch[k])
  BY <1>2, <1>3 DEF Chain!Drop, Seen
<1> QED
  BY <1>1, <1>4 DEF Chain!Next

\* The list keeps the order that PriorityChain promises, though a writer stores
\* the two pointers of a new block one after the other: every step adds a block
\* behind those of its priority, drops one, or leaves the list as it is.
THEOREM ChainInOrder == Spec => KeepsOrder
<1>1. Init => Chain!Init
  <2> SUFFICES ASSUME Init PROVE Seen = <<>>
    BY DEF Chain!Init, Seen
  <2>1. IsChain(<<>>)
    BY DEF Init, IsChain, Distinct, Sorted, At
  <2> QED
    BY <2>1, SeenIs
<1>2. ASSUME IInv, [Next]_vars PROVE Chain!Next \/ Seen' = Seen
  <2>1. PICK ch : IsChain(ch)
    BY <1>2 DEF IInv
  <2>2. Types
    BY <1>2 DEF IInv
  <2>3. ASSUME head' = head, next' = next PROVE Seen' = Seen
    <3>1. IsChain(ch)'
      BY <2>1, <2>3, ChainWaits
    <3> QED
      BY <2>1, <3>1, SeenIs, NowSeen
  <2>4. ASSUME NEW n \in Block, Unlink(n) PROVE Chain!Next
    <3>1. \E k \in 1..Len(ch) : IsChain(Del(ch, k))'
      BY <2>1, <2>2, <2>4, UnlinkIs
    <3> QED
      BY <2>1, <3>1, DelDrops
  <2>5. ASSUME NEW n \in Block \ Listed, NEW nexts \in [Block -> Block \cup {NULL}],
               nexts[n] = Walk[Place(n)], \A m \in Block \ {n} : nexts[m] = next[m],
               Assign(Place(n), n, nexts)
        PROVE  Chain!Next
    <3>1. \E p \in 0..Len(ch) : n \notin Elements(ch) /\ Splits(ch, p, n) /\ IsChain(Ins(ch, p, n))'
      BY <2>1, <2>2, <2>5, LinkIs
    <3> QED
      BY <2>1, <3>1, InsAdds
  <2>6. ASSUME NEW n \in Block, BootRegister(n) PROVE Chain!Next
    <3>1. PICK nexts \in [Block -> Block \cup {NULL}] : nexts = [next EXCEPT ![n] = Walk[Place(n)]]
      BY <2>1, <2>2, Successor DEF Types
    <3>2. n \in Block \ Listed /\ Assign(Place(n), n, nexts)
      BY <2>6, <3>1 DEF BootRegister, Unused
    <3>3. nexts[n] = Walk[Place(n)] /\ \A m \in Block \ {n} : nexts[m] = next[m]
      BY <2>2, <3>1 DEF Types
    <3> QED
      BY <2>5, <3>2, <3>3
  <2>7. ASSUME NEW w \in Writer, Publish(w) PROVE Chain!Next
    <3>1. PICK n \in Block \ Listed : n = block[w] /\ next[n] = Walk[Place(n)]
      BY <1>2, <2>7 DEF IInv, WriterInv, Publish
    <3>2. PICK nexts \in [Block -> Block \cup {NULL}] : nexts = next
      BY <2>2 DEF Types
    <3>3. Assign(Place(n), n, nexts)
      BY <2>7, <3>1, <3>2 DEF Publish
    <3> QED
      BY <2>5, <3>1, <3>2, <3>3
  <2>8. ASSUME NEW w \in Writer, NEW n \in Block, Register(w, n) PROVE Seen' = Seen
    <3>1. Walk' = Walk /\ Listed' = Listed
      <4>1. IsChain(ch)'
        <5>1. Listed = Elements(ch) /\ n \notin Listed
          BY <2>1, <2>8, OfChain DEF Says, Register, Unused
        <5>2. \A i \in 1..Len(ch) : ch[i] \in Block \ {n}
          BY <2>1, <5>1 DEF Elements, IsChain
        <5>3. head' = head /\ \A m \in Block \ {n} : next'[m] = next[m]
          BY <2>2, <2>8 DEF Register, Types
        <5> QED
          BY <2>1, <5>2, <5>3 DEF IsChain
      <4> QED
        BY <2>1, <4>1, SameChain
    <3> QED
      BY <3>1 DEF Seen
  <2>9. ASSUME NEW w \in Writer, NEW n \in Block, Unregister(w, n) PROVE Chain!Next \/ Seen' = Seen
    BY <2>3, <2>4, <2>9 DEF Unregister, list
  <2>10. ASSUME NEW c \in Caller, Walker(c) PROVE head' = head /\ next' = next
    BY <2>10 DEF Walker, DownRead, Enter, Dereference, Notify, NotifyStop, Leave, End, list
  <2>11. ASSUME NEW c \in Caller, NEW limit, ReadLock(c, limit) \/ CheckHead(c, limit)
         PROVE  head' = head /\ next' = next
    BY <2>11 DEF ReadLock, CheckHead, Enter, list
  <2>12. ASSUME NEW w \in Writer, Return(w) PROVE head' = head /\ next' = next
    BY <2>12 DEF Return, list
  <2>13. CASE EndBoot \/ UNCHANGED vars
    BY <2>3, <2>13 DEF EndBoot, vars, list
  <2>14. CASE \E n \in Block : BootRegister(n) \/ BootUnregister(n)
    BY <2>4, <2>6, <2>14 DEF BootUnregister
  <2>15. CASE \E w \in Writer, n \in Block : Register(w, n) \/ Unregister(w, n)
    BY <2>8, <2>9, <2>15
  <2>16. CASE \E w \in Writer : Publish(w) \/ Return(w)
    BY <2>3, <2>7, <2>12, <2>16
  <2>17. CASE \E c \in Caller : \E limit \in Limit[c] : ReadLock(c, limit) \/ CheckHead(c, limit)
    BY <2>3, <2>11, <2>17
  <2>18. CASE \E c \in Caller : Walker(c)
    BY <2>3, <2>10, <2>18
  <2> QED
    BY <1>2, <2>13, <2>14, <2>15, <2>16, <2>17, <2>18 DEF Next
<1>3. IInv /\ [Next]_vars => [Chain!Next]_Seen
  BY <1>2
<1>4. [][Chain!Next]_Seen /\ Chain!Init => KeepsOrder
  BY DEF KeepsOrder, Chain!Spec, Seen
<1> QED
  BY Invariance, <1>1, <1>3, <1>4, PTL DEF Spec

=============================================================================
