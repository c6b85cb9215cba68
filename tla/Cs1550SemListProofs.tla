------------------------ MODULE Cs1550SemListProofs ------------------------
(***************************************************************************)
(* Proofs about Cs1550SemList, for any number of nodes: the pointers hold  *)
(* a list for each semaphore, the lists hold the allocated nodes, and what *)
(* down() and up() do to the pointers is what Cs1550Sem does to its queue. *)
(*                                                                         *)
(* The invariant speaks of the lists as sequences of nodes, of which there *)
(* is one for the pointers; from there the walk along the pointers is      *)
(* found to be that sequence.                                              *)
(***************************************************************************)
EXTENDS Cs1550SemList, FunctionTheorems, FiniteSetTheorems, SequenceTheorems,
        WellFoundedInduction, TLAPS

\* What Cs1550SemProofs says of the queue.
SP == INSTANCE Cs1550SemProofs WITH
  queue <- [s \in Sem |-> [i \in 1..Len(Chain(s)) |-> proc_info[Chain(s)[i]]]]

First(q) == IF q = <<>> THEN NULL ELSE q[1]
Last(q) == IF q = <<>> THEN NULL ELSE q[Len(q)]
After(q, i) == IF i < Len(q) THEN q[i + 1] ELSE NULL

\* The pointers of s lead along q.
Linked(q, s) ==
  /\ head[s] = First(q) /\ tail[s] = Last(q)
  /\ \A i \in 1..Len(q) : next[q[i]] = After(q, i)

\* No node stands in two places.
Apart(lists) ==
  \A s, t \in Sem : \A i \in 1..Len(lists[s]), j \in 1..Len(lists[t]) :
    lists[s][i] = lists[t][j] => s = t /\ i = j

InLists(lists) == {n \in Node : \E s \in Sem : \E i \in 1..Len(lists[s]) : n = lists[s][i]}

\* The memory holds these lists and nothing else.
Holds(lists) ==
  /\ lists \in [Sem -> Seq(Node)]
  /\ \A s \in Sem : Linked(lists[s], s)
  /\ Apart(lists)
  /\ allocated = InLists(lists)
  /\ \A n \in allocated : proc_info[n] \in Proc

IInv == TypeOK /\ \E lists : Holds(lists)

-----------------------------------------------------------------------------
(* Sequences and numbers.                                                  *)

\* Among numbers there is a least.
LEMMA LeastNat ==
  ASSUME NEW T, T \subseteq Nat, T # {}
  PROVE  \E x \in T : \A y \in T : x <= y
<1> DEFINE R == {ss \in Nat \X Nat : ss[1] < ss[2]}
<1>1. IsWellFoundedOn(R, Nat)
  BY NatLessThanWellFounded DEF OpToRel
<1>2. PICK x \in T : \A y \in T : ~(<<y, x>> \in R)
  <2> HIDE DEF R
  <2> QED
    BY <1>1, WFMin
<1>3. \A y \in T : ~(y < x)
  BY <1>2
<1> QED
  BY <1>3

\* What holds of the first place, and goes from a place to the next, holds of all.
LEMMA PlaceByPlace ==
  ASSUME NEW n \in Nat, NEW T \in SUBSET (1..n),
         1 \in 1..n => 1 \in T,
         \A k \in 1..n : k - 1 \in T => k \in T
  PROVE  T = 1..n
<1> DEFINE R == (1..n) \ T
<1>1. SUFFICES ASSUME R # {} PROVE FALSE
  OBVIOUS
<1>2. R \subseteq Nat
  OBVIOUS
<1>3. PICK k \in R : \A j \in R : k <= j
  <2> HIDE DEF R
  <2> QED
    BY <1>1, <1>2, LeastNat
<1>4. k # 1 /\ k - 1 \in 1..n /\ k - 1 \notin R
  BY <1>3
<1> QED
  BY <1>4

LEMMA Interval == \A n \in Nat : Cardinality(1..n) = n
BY FS_Interval

LEMMA AppendPlaces ==
  ASSUME NEW S, NEW q \in Seq(S), NEW e \in S
  PROVE  /\ Append(q, e) \in Seq(S)
         /\ Len(Append(q, e)) = Len(q) + 1
         /\ \A i \in 1..Len(q) : Append(q, e)[i] = q[i]
         /\ Append(q, e)[Len(q) + 1] = e
OBVIOUS

LEMMA TailPlaces ==
  ASSUME NEW S, NEW q \in Seq(S), q # <<>>
  PROVE  /\ Len(q) \in Nat \ {0}
         /\ Head(q) = q[1] /\ Head(q) \in S
         /\ Tail(q) \in Seq(S)
         /\ Len(Tail(q)) = Len(q) - 1
         /\ \A i \in 1..Len(q) - 1 : Tail(q)[i] = q[i + 1]
OBVIOUS

LEMMA Places ==
  ASSUME NEW S, NEW q \in Seq(S)
  PROVE  /\ Len(q) \in Nat /\ (q = <<>> <=> Len(q) = 0)
         /\ \A i \in 1..Len(q) : q[i] \in S
OBVIOUS

-----------------------------------------------------------------------------
(* The walk.                                                               *)

\* No more nodes than there are stand in a list.
LEMMA ShortList ==
  ASSUME NEW q \in Seq(Node),
         \A i, j \in 1..Len(q) : q[i] = q[j] => i = j
  PROVE  Len(q) <= Cardinality(Node)
<1>1. Len(q) \in Nat /\ q \in [1..Len(q) -> Node]
  OBVIOUS
<1>2. q \in Injection(1..Len(q), Node)
  BY <1>1, Fun_IsInj
<1>3. Cardinality(1..Len(q)) <= Cardinality(Node)
  BY <1>2, FS_Injection, ListAssumption
<1> QED
  BY <1>1, <1>3, Interval

\* The walk along the pointers of a list is the list, and NULL after it.
LEMMA WalkAlong ==
  ASSUME NEW s \in Sem, NEW q \in Seq(Node), Linked(q, s), Len(q) <= Cardinality(Node),
         Cardinality(Node) \in Nat
  PROVE  Walk(s) = [k \in 1..Cardinality(Node) + 1 |-> IF k <= Len(q) THEN q[k] ELSE NULL]
<1> DEFINE D == 1..Cardinality(Node) + 1
           W == [k \in D |-> IF k <= Len(q) THEN q[k] ELSE NULL]
           Turn(f) == [k \in D |-> IF k = 1 THEN head[s]
                                   ELSE IF f[k - 1] \in Node THEN next[f[k - 1]] ELSE NULL]
           Step(f) == f = Turn(f)
<1>1. Step(W)
  <2>1. ASSUME NEW k \in D PROVE W[k] = Turn(W)[k]
    <3>1. CASE k = 1
      BY <3>1, Places DEF Linked, First
    <3>2. CASE k # 1 /\ k - 1 <= Len(q)
      <4>1. k - 1 \in 1..Len(q) /\ k - 1 \in D
        BY <3>2
      <4>2. W[k - 1] = q[k - 1] /\ W[k - 1] \in Node
        BY <4>1, Places
      <4>3. next[q[k - 1]] = After(q, k - 1)
        BY <4>1 DEF Linked
      <4> QED
        BY <3>2, <4>1, <4>2, <4>3 DEF After
    <3>3. CASE k # 1 /\ ~(k - 1 <= Len(q))
      <4>1. k - 1 \in D /\ ~(k <= Len(q))
        BY <3>3
      <4>2. W[k - 1] = NULL
        BY <3>3, <4>1
      <4> QED
        BY <3>3, <4>1, <4>2, ListAssumption
    <3> QED
      BY <3>1, <3>2, <3>3
  <2> QED
    BY <2>1
<1>2. \A f : Step(f) => f = W
  <2> SUFFICES ASSUME NEW f, Step(f) PROVE f = W
    OBVIOUS
  <2> DEFINE T == {k \in D : f[k] = W[k]}
  <2>1. f = [k \in D |-> f[k]] /\ W = [k \in D |-> W[k]]
    OBVIOUS
  <2>2. \A k \in D : f[k] = Turn(f)[k] /\ W[k] = Turn(W)[k]
    <3> HIDE DEF W, Turn
    <3> QED
      BY <1>1
  <2>3. 1 \in T
    BY <2>2
  <2>4. ASSUME NEW k \in D, k - 1 \in T PROVE k \in T
    <3>1. k # 1 /\ k - 1 \in D /\ f[k - 1] = W[k - 1]
      BY <2>4
    <3> HIDE DEF W
    <3>2. Turn(f)[k] = Turn(W)[k]
      BY <3>1
    <3> QED
      BY <2>2, <3>2
  <2>5. T = D
    <3>1. Cardinality(Node) + 1 \in Nat /\ T \in SUBSET D
      OBVIOUS
    <3> HIDE DEF T
    <3> QED
      BY <2>3, <2>4, <3>1, PlaceByPlace
  <2> QED
    BY <2>1, <2>5
<1>3. Walk(s) = CHOOSE f : Step(f)
  BY DEF Walk
<1> HIDE DEF Step, W
<1>4. Walk(s) = W
  BY <1>1, <1>2, <1>3
<1> QED
  BY <1>4 DEF W

LEMMA ChainIsList ==
  ASSUME NEW lists, Holds(lists), NEW s \in Sem
  PROVE  Chain(s) = lists[s]
<1> DEFINE q == lists[s]
           N == Cardinality(Node)
<1>1. q \in Seq(Node) /\ Linked(q, s)
  BY DEF Holds
<1>2. N \in Nat
  BY ListAssumption, FS_CardinalityType
<1>3. \A i, j \in 1..Len(q) : q[i] = q[j] => i = j
  BY DEF Holds, Apart
<1> HIDE DEF q
<1>4. Len(q) \in Nat /\ Len(q) <= N
  BY <1>1, <1>3, ShortList
<1>5. Walk(s) = [k \in 1..N + 1 |-> IF k <= Len(q) THEN q[k] ELSE NULL]
  BY <1>1, <1>2, <1>4, WalkAlong
<1>6. {i \in DOMAIN Walk(s) : Walk(s)[i] \in Node} = 1..Len(q)
  <2>1. DOMAIN Walk(s) = 1..N + 1
    BY <1>5
  <2>2. ASSUME NEW i \in 1..N + 1 PROVE Walk(s)[i] \in Node <=> i \in 1..Len(q)
    BY <1>1, <1>4, <1>5, Places, ListAssumption
  <2>3. 1..Len(q) \subseteq 1..N + 1
    BY <1>2, <1>4
  <2> QED
    BY <2>1, <2>2, <2>3
<1>7. Cardinality(1..Len(q)) = Len(q)
  BY <1>4, Interval
<1>8. Chain(s) = [k \in 1..Len(q) |-> Walk(s)[k]]
  BY <1>6, <1>7 DEF Chain
<1>9. \A k \in 1..Len(q) : Walk(s)[k] = q[k]
  BY <1>2, <1>4, <1>5
<1>10. q = [k \in 1..Len(q) |-> q[k]]
  BY <1>1
<1> QED
  BY <1>8, <1>9, <1>10 DEF q

-----------------------------------------------------------------------------
(* The steps.                                                              *)

\* Nothing is in a list in the beginning.
LEMMA InitInv == Init => IInv
<1> SUFFICES ASSUME Init PROVE IInv
  OBVIOUS
<1>1. TypeOK
  BY ListAssumption DEF Init, TypeOK
<1>2. Holds([s \in Sem |-> <<>>])
  BY DEF Init, Holds, Linked, First, Last, Apart, InLists
<1> QED
  BY <1>1, <1>2 DEF IInv

\* A node that is not allocated is in no list.
LEMMA NewNode ==
  ASSUME NEW lists, Holds(lists), NEW n \in Node \ allocated, NEW t \in Sem,
         NEW i \in 1..Len(lists[t])
  PROVE  lists[t][i] # n
BY DEF Holds, InLists

\* The node goes behind the last one, or is the first.
LEMMA LinkHolds ==
  ASSUME TypeOK, NEW lists, Holds(lists), NEW p \in Proc, NEW s \in Sem, NEW n \in Node,
         Kmalloc(n), Link(p, s, n)
  PROVE  Holds([lists EXCEPT ![s] = Append(@, n)])'
<1> DEFINE q == lists[s]
           r == Append(q, n)
           new == [lists EXCEPT ![s] = r]
<1>1. lists \in [Sem -> Seq(Node)] /\ q \in Seq(Node) /\ n \notin allocated
  BY DEF Holds, Kmalloc
<1>2. /\ Len(q) \in Nat /\ (q = <<>> <=> Len(q) = 0)
      /\ r \in Seq(Node) /\ Len(r) = Len(q) + 1
      /\ \A i \in 1..Len(q) : r[i] = q[i] /\ q[i] \in Node
      /\ r[Len(q) + 1] = n
  BY <1>1, AppendPlaces, Places
<1>3. new \in [Sem -> Seq(Node)] /\ new[s] = r /\ \A t \in Sem : t # s => new[t] = lists[t]
  BY <1>1, <1>2
<1>4. \A t \in Sem : lists[t] \in Seq(Node) /\ Len(lists[t]) \in Nat
  BY <1>1
<1>5. \A t \in Sem, i \in Nat : i \in 1..Len(lists[t]) => lists[t][i] \in Node /\ lists[t][i] # n
  <2> TAKE t \in Sem, i \in Nat
  <2>1. HAVE i \in 1..Len(lists[t])
  <2> QED
    BY <1>1, <1>4, <2>1, NewNode, Places
<1>6. /\ proc_info' = [proc_info EXCEPT ![n] = p]
      /\ tail' = [tail EXCEPT ![s] = n]
      /\ allocated' = allocated \cup {n}
      /\ head' = [head EXCEPT ![s] = First(r)]
      /\ \A m \in Node : next'[m] = IF m = n THEN NULL
                                    ELSE IF q # <<>> /\ m = Last(q) THEN n ELSE next[m]
  <2>1. head[s] = First(q) /\ tail[s] = Last(q)
    BY DEF Holds, Linked
  <2>2. CASE q = <<>>
    <3>1. head[s] = NULL /\ First(r) = n
      BY <1>2, <2>1, <2>2 DEF First
    <3>2. head' = [head EXCEPT ![s] = n] /\ next' = [next EXCEPT ![n] = NULL]
      BY <3>1 DEF Link
    <3> QED
      BY <2>2, <3>1, <3>2 DEF Kmalloc, Link, TypeOK
  <2>3. CASE q # <<>>
    <3>1. 1 \in 1..Len(q)
      BY <1>2, <2>3
    <3>2. head[s] = q[1] /\ q[1] \in Node /\ First(r) = q[1]
      BY <1>2, <2>1, <2>3, <3>1 DEF First
    <3>3. UNCHANGED head /\ next' = [next EXCEPT ![n] = NULL, ![Last(q)] = n]
      BY <2>1, <3>2, ListAssumption DEF Link
    <3>4. Last(q) # n
      <4>1. Len(q) \in 1..Len(q)
        BY <1>2, <2>3
      <4> QED
        BY <1>5, <2>3, <4>1 DEF Last
    <3> QED
      BY <2>3, <3>2, <3>3, <3>4, <2>1 DEF Kmalloc, Link, TypeOK
  <2> QED
    BY <2>2, <2>3
<1> HIDE DEF q, r, new
<1>7. ASSUME NEW t \in Sem PROVE Linked(new[t], t)'
  <2>1. CASE t # s
    <3>1. Linked(lists[t], t) /\ new[t] = lists[t]
      BY <1>3, <2>1 DEF Holds
    <3>2. head'[t] = head[t] /\ tail'[t] = tail[t]
      BY <1>6, <2>1 DEF TypeOK
    <3>3. ASSUME NEW i \in 1..Len(lists[t]) PROVE next'[lists[t][i]] = next[lists[t][i]]
      <4>1. lists[t][i] \in Node /\ lists[t][i] # n
        BY <1>4, <1>5
      <4>2. q # <<>> => lists[t][i] # Last(q)
        <5>1. q # <<>> => Len(q) \in 1..Len(q)
          BY <1>2
        <5> QED
          BY <2>1, <5>1 DEF Holds, Apart, Last, q
      <4> QED
        BY <1>6, <4>1, <4>2 DEF TypeOK
    <3> QED
      BY <3>1, <3>2, <3>3 DEF Linked
  <2>2. CASE t = s
    <3>1. Linked(q, s)
      BY DEF Holds, q
    <3>2. head'[s] = First(r) /\ tail'[s] = Last(r)
      BY <1>2, <1>6 DEF TypeOK, Last
    <3>3. ASSUME NEW i \in 1..Len(r) PROVE next'[r[i]] = After(r, i)
      <4>1. CASE i = Len(q) + 1
        BY <1>2, <1>6, <4>1 DEF After
      <4>2. CASE i = Len(q) /\ q # <<>>
        <5>1. i \in 1..Len(q) /\ r[i] = Last(q) /\ r[i] \in Node
          BY <1>2, <4>2 DEF Last
        <5>2. r[i] # n
          BY <1>2, <1>5, <5>1 DEF q
        <5> QED
          BY <1>2, <1>6, <4>2, <5>1, <5>2 DEF After
      <4>3. CASE i < Len(q)
        <5>1. i \in 1..Len(q) /\ i + 1 \in 1..Len(q) /\ Len(q) \in 1..Len(q)
          BY <1>2, <4>3
        <5>2. q[i] # q[Len(q)]
          BY <4>3, <5>1 DEF Holds, Apart, q
        <5>3. q[i] # n /\ q[i] \in Node
          BY <1>5, <5>1 DEF q
        <5>4. next'[q[i]] = next[q[i]]
          BY <1>6, <5>2, <5>3 DEF TypeOK, Last
        <5>5. next[q[i]] = q[i + 1]
          BY <3>1, <4>3, <5>1 DEF Linked, After
        <5> QED
          BY <1>2, <4>3, <5>1, <5>4, <5>5 DEF After
      <4> QED
        BY <1>2, <4>1, <4>2, <4>3
    <3> QED
      BY <1>3, <2>2, <3>2, <3>3 DEF Linked
  <2> QED
    BY <2>1, <2>2
<1>8. Apart(new)
  <2> SUFFICES ASSUME NEW t \in Sem, NEW u \in Sem,
                      NEW i \in 1..Len(new[t]), NEW j \in 1..Len(new[u]),
                      new[t][i] = new[u][j]
               PROVE  t = u /\ i = j
    BY DEF Apart
  <2> DEFINE old(v, k) == k \in 1..Len(lists[v]) /\ new[v][k] = lists[v][k]
             added(v, k) == v = s /\ k = Len(q) + 1 /\ new[v][k] = n
  <2>1. \A v \in Sem : \A k \in 1..Len(new[v]) : old(v, k) \/ added(v, k)
    <3> SUFFICES ASSUME NEW v \in Sem, NEW k \in 1..Len(new[v]) PROVE old(v, k) \/ added(v, k)
      OBVIOUS
    <3>1. CASE v # s
      BY <1>3, <3>1
    <3>2. CASE v = s
      BY <1>2, <1>3, <3>2 DEF q
    <3> QED
      BY <3>1, <3>2
  <2>2. \A v \in Sem : \A k \in 1..Len(new[v]) : old(v, k) => new[v][k] # n
    BY <1>5
  <2>3. CASE old(t, i) /\ old(u, j)
    <3>1. lists[t][i] = lists[u][j] /\ i \in 1..Len(lists[t]) /\ j \in 1..Len(lists[u])
      BY <2>3
    <3>2. Apart(lists)
      BY DEF Holds
    <3> QED
      BY <3>1, <3>2 DEF Apart
  <2>4. CASE added(t, i) /\ added(u, j)
    BY <2>4
  <2> HIDE DEF old
  <2> QED
    BY <2>1, <2>2, <2>3, <2>4
<1>9. allocated' = InLists(new)
  <2>1. \A m \in Node : m \in InLists(lists) => m \in InLists(new)
    <3> SUFFICES ASSUME NEW t \in Sem, NEW i \in 1..Len(lists[t])
                 PROVE  \E j \in 1..Len(new[t]) : lists[t][i] = new[t][j]
      BY DEF InLists
    <3>1. i \in 1..Len(new[t]) /\ lists[t][i] = new[t][i]
      BY <1>2, <1>3, <1>4 DEF q
    <3> QED
      BY <3>1
  <2>2. n \in InLists(new)
    <3>1. Len(q) + 1 \in 1..Len(new[s]) /\ n = new[s][Len(q) + 1]
      BY <1>2, <1>3
    <3> QED
      BY <3>1 DEF InLists
  <2>3. ASSUME NEW m \in InLists(new), m # n PROVE m \in InLists(lists)
    <3>1. PICK t \in Sem : \E i \in 1..Len(new[t]) : m = new[t][i]
      BY DEF InLists
    <3>2. PICK i \in 1..Len(new[t]) : m = new[t][i]
      BY <3>1
    <3>3. CASE t # s
      BY <1>3, <3>2, <3>3 DEF InLists
    <3>4. CASE t = s
      <4>1. i \in 1..Len(q) /\ m = q[i]
        BY <1>2, <1>3, <2>3, <3>2, <3>4
      <4> QED
        BY <1>2, <4>1 DEF InLists, q
    <3> QED
      BY <3>3, <3>4
  <2>4. allocated = InLists(lists) /\ InLists(new) \subseteq Node /\ allocated \subseteq Node
    BY DEF Holds, InLists
  <2> QED
    BY <1>6, <2>1, <2>2, <2>3, <2>4
<1>10. \A m \in allocated' : proc_info'[m] \in Proc
  BY <1>6 DEF Holds, TypeOK
<1> QED
  BY <1>3, <1>7, <1>8, <1>9, <1>10 DEF Holds, new, q, r

\* The first node leaves; the others move up by one place.
LEMMA UnlinkHolds ==
  ASSUME TypeOK, NEW lists, Holds(lists), NEW s \in Sem, head[s] # NULL,
         Unlink(s), Kfree(head[s])
  PROVE  Holds([lists EXCEPT ![s] = Tail(@)])'
<1> DEFINE q == lists[s]
           r == Tail(q)
           new == [lists EXCEPT ![s] = r]
<1>1. lists \in [Sem -> Seq(Node)] /\ q \in Seq(Node) /\ Linked(q, s)
  BY DEF Holds
<1>2. q # <<>> /\ head[s] = q[1]
  BY <1>1 DEF Linked, First
<1>3. /\ Len(q) \in Nat \ {0}
      /\ r \in Seq(Node) /\ Len(r) = Len(q) - 1 /\ (r = <<>> <=> Len(r) = 0)
      /\ \A i \in 1..Len(q) : q[i] \in Node
      /\ \A i \in 1..Len(r) : r[i] = q[i + 1]
  BY <1>1, <1>2, TailPlaces, Places
<1>4. new \in [Sem -> Seq(Node)] /\ new[s] = r /\ \A t \in Sem : t # s => new[t] = lists[t]
  BY <1>1, <1>3
<1>5. Apart(lists) /\ allocated = InLists(lists) /\ \A m \in allocated : proc_info[m] \in Proc
  BY DEF Holds
<1>6. \A t \in Sem : lists[t] \in Seq(Node) /\ Len(lists[t]) \in Nat
  BY <1>1
<1> HIDE DEF q, r, new
<1> DEFINE n == q[1]
<1>7. /\ n \in Node /\ allocated' = allocated \ {n}
      /\ next' = [next EXCEPT ![n] = JUNK] /\ proc_info' = [proc_info EXCEPT ![n] = JUNK]
  BY <1>2, <1>3 DEF Kfree
<1>8. head'[s] = First(r) /\ tail'[s] = Last(r) /\ \A t \in Sem : t # s => head'[t] = head[t] /\ tail'[t] = tail[t]
  <2>1. 1 \in 1..Len(q) /\ Len(q) \in 1..Len(q) /\ tail[s] = q[Len(q)]
    BY <1>1, <1>2, <1>3 DEF Linked, Last
  <2>2. \A i, j \in 1..Len(q) : q[i] = q[j] => i = j
    BY <1>5 DEF Apart, q
  <2>3. CASE head[s] = tail[s]
    <3>1. Len(q) = 1
      BY <1>2, <2>1, <2>2, <2>3
    <3>2. First(r) = NULL /\ Last(r) = NULL
      BY <1>3, <3>1 DEF First, Last
    <3> QED
      BY <2>3, <3>2 DEF Unlink, TypeOK
  <2>4. CASE head[s] # tail[s]
    <3>1. Len(q) # 1 /\ 1 \in 1..Len(r)
      BY <1>2, <1>3, <2>1, <2>4
    <3>2. next[q[1]] = q[2] /\ r[1] = q[2]
      BY <1>1, <1>3, <2>1, <3>1 DEF Linked, After
    <3>3. r[Len(r)] = q[Len(q)]
      BY <1>3, <3>1
    <3> QED
      BY <1>2, <1>3, <2>1, <2>4, <3>1, <3>2, <3>3 DEF Unlink, TypeOK, First, Last
  <2> QED
    BY <2>3, <2>4
<1>9. \A t \in Sem : \A i \in 1..Len(lists[t]) : lists[t][i] = n => t = s /\ i = 1
  <2>1. 1 \in 1..Len(lists[s])
    BY <1>3 DEF q
  <2> QED
    BY <1>5, <2>1 DEF Apart, q
<1> HIDE DEF n
<1>10. \A t \in Sem : \A i \in 1..Len(new[t]) :
         \E j \in 1..Len(lists[t]) : /\ new[t][i] = lists[t][j] /\ lists[t][j] # n
                                     /\ lists[t][j] \in Node
                                     /\ j = IF t = s THEN i + 1 ELSE i
  <2> SUFFICES ASSUME NEW t \in Sem, NEW i \in 1..Len(new[t])
               PROVE  \E j \in 1..Len(lists[t]) : /\ new[t][i] = lists[t][j] /\ lists[t][j] # n
                                                  /\ lists[t][j] \in Node
                                                  /\ j = IF t = s THEN i + 1 ELSE i
    OBVIOUS
  <2>1. CASE t # s
    <3>1. i \in 1..Len(lists[t]) /\ new[t][i] = lists[t][i]
      BY <1>4, <2>1
    <3>2. lists[t][i] # n /\ lists[t][i] \in Node
      BY <1>6, <1>9, <2>1, <3>1
    <3> QED
      BY <2>1, <3>1, <3>2
  <2>2. CASE t = s
    <3>1. i + 1 \in 1..Len(q) /\ new[s][i] = q[i + 1] /\ i + 1 # 1
      BY <1>3, <1>4, <2>2
    <3>2. q[i + 1] # n /\ q[i + 1] \in Node
      BY <1>3, <1>9, <3>1 DEF q
    <3> QED
      BY <2>2, <3>1, <3>2 DEF q
  <2> QED
    BY <2>1, <2>2
<1>11. ASSUME NEW t \in Sem PROVE Linked(new[t], t)'
  <2>1. CASE t # s
    <3>1. Linked(lists[t], t) /\ new[t] = lists[t]
      BY <1>4, <2>1 DEF Holds
    <3>2. ASSUME NEW i \in 1..Len(lists[t]) PROVE next'[lists[t][i]] = next[lists[t][i]]
      <4>1. lists[t][i] \in Node /\ lists[t][i] # n
        BY <1>6, <1>9, <2>1
      <4> QED
        BY <1>7, <4>1 DEF TypeOK
    <3> QED
      BY <1>8, <2>1, <3>1, <3>2 DEF Linked
  <2>2. CASE t = s
    <3>1. ASSUME NEW i \in 1..Len(r) PROVE next'[r[i]] = After(r, i)
      <4>1. i + 1 \in 1..Len(q) /\ r[i] = q[i + 1]
        BY <1>3
      <4>2. q[i + 1] # n /\ q[i + 1] \in Node
        <5>1. i + 1 # 1
          BY <1>3
        <5> QED
          BY <1>3, <1>9, <4>1, <5>1 DEF q
      <4>3. next'[r[i]] = After(q, i + 1)
        BY <1>1, <1>7, <4>1, <4>2 DEF TypeOK, Linked
      <4>4. CASE i < Len(r)
        <5>1. i + 1 \in 1..Len(r) /\ i + 1 < Len(q)
          BY <1>3, <4>4
        <5> QED
          BY <1>3, <4>3, <4>4, <5>1 DEF After
      <4>5. CASE ~(i < Len(r))
        BY <1>3, <4>3, <4>5 DEF After
      <4> QED
        BY <4>4, <4>5
    <3> QED
      BY <1>4, <1>8, <2>2, <3>1 DEF Linked
  <2> QED
    BY <2>1, <2>2
<1>12. Apart(new)
  <2> SUFFICES ASSUME NEW t \in Sem, NEW u \in Sem,
                      NEW i \in 1..Len(new[t]), NEW j \in 1..Len(new[u]),
                      new[t][i] = new[u][j]
               PROVE  t = u /\ i = j
    BY DEF Apart
  <2>1. PICK k \in 1..Len(lists[t]) : new[t][i] = lists[t][k] /\ k = IF t = s THEN i + 1 ELSE i
    BY <1>10
  <2>2. PICK l \in 1..Len(lists[u]) : new[u][j] = lists[u][l] /\ l = IF u = s THEN j + 1 ELSE j
    BY <1>10
  <2>3. t = u /\ k = l
    <3>1. lists[t][k] = lists[u][l]
      BY <2>1, <2>2
    <3> QED
      BY <1>5, <3>1 DEF Apart
  <2>4. Len(new[t]) \in Nat /\ Len(new[u]) \in Nat
    BY <1>4
  <2> QED
    BY <2>1, <2>2, <2>3, <2>4
<1>13. allocated' = InLists(new)
  <2>1. ASSUME NEW m \in InLists(new) PROVE m \in InLists(lists) \ {n}
    <3>1. PICK t \in Sem : \E i \in 1..Len(new[t]) : m = new[t][i]
      BY DEF InLists
    <3>2. PICK j \in 1..Len(lists[t]) : m = lists[t][j] /\ lists[t][j] # n /\ lists[t][j] \in Node
      BY <1>10, <3>1
    <3> QED
      BY <3>2 DEF InLists
  <2>2. ASSUME NEW m \in InLists(lists), m # n PROVE m \in InLists(new)
    <3>1. PICK t \in Sem : \E j \in 1..Len(lists[t]) : m = lists[t][j]
      BY DEF InLists
    <3>2. PICK j \in 1..Len(lists[t]) : m = lists[t][j]
      BY <3>1
    <3>3. m \in Node
      BY DEF InLists
    <3>4. CASE t # s
      BY <1>4, <3>2, <3>3, <3>4 DEF InLists
    <3>5. CASE t = s
      <4>1. j # 1 /\ j - 1 \in 1..Len(r) /\ r[j - 1] = q[j]
        BY <1>3, <2>2, <3>2, <3>5 DEF n, q
      <4> QED
        BY <1>4, <3>2, <3>3, <3>5, <4>1 DEF InLists, q
    <3> QED
      BY <3>4, <3>5
  <2> QED
    BY <1>5, <1>7, <2>1, <2>2
<1>14. \A m \in allocated' : proc_info'[m] \in Proc
  BY <1>5, <1>7 DEF TypeOK
<1> QED
  BY <1>4, <1>11, <1>12, <1>13, <1>14 DEF Holds, new, q, r

-----------------------------------------------------------------------------
(* The processes of the lists are the queue.                               *)

Queue == [s \in Sem |-> [i \in 1..Len(Chain(s)) |-> proc_info[Chain(s)[i]]]]

Processes(lists) == [s \in Sem |-> [i \in 1..Len(lists[s]) |-> proc_info[lists[s][i]]]]

LEMMA QueueOfLists == \A lists : Holds(lists) => Queue = Processes(lists)
BY ChainIsList DEF Queue, Processes

LEMMA QueuePlaces ==
  ASSUME NEW lists, Holds(lists), NEW s \in Sem
  PROVE  /\ Queue[s] \in Seq(Proc) /\ Len(Queue[s]) = Len(lists[s]) /\ Len(lists[s]) \in Nat
         /\ \A i \in 1..Len(lists[s]) : Queue[s][i] = proc_info[lists[s][i]]
         /\ Queue[s] = <<>> <=> head[s] = NULL
         /\ \A i \in 1..Len(lists[s]) : lists[s][i] \in allocated
<1>1. lists[s] \in Seq(Node) /\ Linked(lists[s], s) /\ allocated = InLists(lists)
      /\ \A n \in allocated : proc_info[n] \in Proc
  BY DEF Holds
<1>2. Len(lists[s]) \in Nat /\ \A i \in 1..Len(lists[s]) : lists[s][i] \in Node
  BY <1>1, Places
<1>3. \A i \in 1..Len(lists[s]) : lists[s][i] \in allocated
  BY <1>1, <1>2 DEF InLists
<1>4. Queue[s] = [i \in 1..Len(lists[s]) |-> proc_info[lists[s][i]]]
  BY QueueOfLists DEF Processes
<1>5. Queue[s] \in Seq(Proc) /\ Len(Queue[s]) = Len(lists[s])
  <2> DEFINE L == Len(lists[s])
             e(i) == proc_info[lists[s][i]]
  <2>1. L \in Nat /\ \A i \in 1..L : e(i) \in Proc
    BY <1>1, <1>2, <1>3
  <2>2. Queue[s] = [i \in 1..L |-> e(i)]
    BY <1>4
  <2> HIDE DEF L, e
  <2>3. [i \in 1..L |-> e(i)] \in Seq(Proc) /\ Len([i \in 1..L |-> e(i)]) = L
    BY <2>1
  <2> QED
    BY <2>2, <2>3 DEF L
<1>6. Queue[s] = <<>> <=> Len(Queue[s]) = 0
  BY <1>5, Places
<1>7. lists[s] = <<>> <=> Len(lists[s]) = 0
  BY <1>1, Places
<1>8. head[s] = NULL <=> lists[s] = <<>>
  <2>1. lists[s] # <<>> => 1 \in 1..Len(lists[s])
    BY <1>2, <1>7
  <2> QED
    BY <1>1, <1>2, <2>1, ListAssumption DEF Linked, First
<1> QED
  BY <1>2, <1>3, <1>4, <1>5, <1>6, <1>7, <1>8

\* The same after a step.
SamePlaces(lists, s) ==
  /\ Queue[s] \in Seq(Proc) /\ Len(Queue[s]) = Len(lists[s]) /\ Len(lists[s]) \in Nat
  /\ \A i \in 1..Len(lists[s]) : Queue[s][i] = proc_info[lists[s][i]]

LEMMA QueuePlacesEver == \A lists : \A s \in Sem : Holds(lists) => SamePlaces(lists, s)
BY QueuePlaces DEF SamePlaces

LEMMA QueuePlacesNext ==
  ASSUME NEW new, Holds(new)', NEW t \in Sem
  PROVE  SamePlaces(new, t)'
<1>1. (\A lists : \A s \in Sem : Holds(lists) => SamePlaces(lists, s))'
  BY QueuePlacesEver, PTL
<1> QED
  BY <1>1

\* A queue after a step, where it is as another function says.
LEMMA QueueEqual ==
  ASSUME NEW lists, Holds(lists)', NEW f \in [Sem -> Seq(Proc)],
         \A s \in Sem : /\ Len(f[s]) = Len(lists[s])
                        /\ \A i \in 1..Len(lists[s]) : f[s][i] = proc_info'[lists[s][i]]
  PROVE  Queue' = f
<1>1. \A s \in Sem : Queue'[s] = f[s]
  <2> SUFFICES ASSUME NEW s \in Sem PROVE Queue'[s] = f[s]
    OBVIOUS
  <2>1. /\ Queue'[s] \in Seq(Proc) /\ Len(Queue'[s]) = Len(lists[s])
        /\ \A i \in 1..Len(lists[s]) : Queue'[s][i] = proc_info'[lists[s][i]]
    BY QueuePlacesNext DEF SamePlaces
  <2>2. f[s] \in Seq(Proc)
    OBVIOUS
  <2> QED
    BY <2>1, <2>2, SeqEqual
<1>2. Queue' = [s \in Sem |-> Queue'[s]]
  BY DEF Queue
<1> QED
  BY <1>1, <1>2

LEMMA QueueTyped ==
  ASSUME NEW lists, Holds(lists)
  PROVE  Queue \in [Sem -> Seq(Proc)]
<1>1. \A s \in Sem : Queue[s] \in Seq(Proc)
  BY QueuePlaces
<1>2. Queue = [s \in Sem |-> Queue[s]]
  BY DEF Queue
<1> QED
  BY <1>1, <1>2

\* down() that waits: its node and the end of the queue.
LEMMA DownWaits ==
  ASSUME IInv, NEW p \in Proc, NEW s \in Sem, Down(p, s), value[s] - 1 < 0
  PROVE  IInv' /\ Queue' = [Queue EXCEPT ![s] = Append(@, p)]
<1>1. TypeOK /\ \E lists : Holds(lists)
  BY DEF IInv
<1>2. PICK lists : Holds(lists)
  BY <1>1
<1>3. PICK n \in Node : Kmalloc(n) /\ Link(p, s, n)
  BY <1>1 DEF Down, TypeOK
<1> DEFINE new == [lists EXCEPT ![s] = Append(@, n)]
<1>4. Holds(new)'
  BY <1>1, <1>2, <1>3, LinkHolds
<1>5. lists \in [Sem -> Seq(Node)] /\ lists[s] \in Seq(Node)
  BY <1>2 DEF Holds
<1>6. /\ proc_info' = [proc_info EXCEPT ![n] = p] /\ n \notin allocated
      /\ proc_info'[n] = p
  BY <1>1, <1>3 DEF Link, Kmalloc, TypeOK
<1>7. TypeOK'
  <2>1. /\ value' = [value EXCEPT ![s] = @ - 1]
        /\ state' = [state EXCEPT ![p] = "INTERRUPTIBLE"]
        /\ kpc' = [kpc EXCEPT ![p] = "schedule"]
    BY <1>1 DEF Down, TypeOK
  <2>5. /\ value' \in [Sem -> Int]
        /\ state' \in [Proc -> {"RUNNING", "INTERRUPTIBLE"}]
        /\ kpc' \in [Proc -> {"user", "schedule", "off"}]
    BY <1>1, <2>1 DEF TypeOK
  <2>2. head' \in [Sem -> Node \cup {NULL}] /\ tail' \in [Sem -> Node \cup {NULL}]
    BY <1>1, <1>3 DEF Link, TypeOK
  <2>3. next' \in [Node -> Node \cup {NULL, JUNK}]
    BY <1>1, <1>3 DEF Link, TypeOK
  <2>4. proc_info' \in [Node -> Proc \cup {JUNK}] /\ allocated' \in SUBSET Node
    BY <1>1, <1>3, <1>6 DEF Kmalloc, TypeOK
  <2> QED
    BY <2>2, <2>3, <2>4, <2>5 DEF TypeOK
<1> DEFINE f == [Queue EXCEPT ![s] = Append(@, p)]
<1>8. Queue \in [Sem -> Seq(Proc)]
  BY <1>2, QueueTyped
<1>9. ASSUME NEW t \in Sem
      PROVE  /\ Len(f[t]) = Len(new[t])
             /\ \A i \in 1..Len(new[t]) : f[t][i] = proc_info'[new[t][i]]
  <2>1. /\ Len(Queue[t]) = Len(lists[t]) /\ Len(lists[t]) \in Nat
        /\ \A i \in 1..Len(lists[t]) : Queue[t][i] = proc_info[lists[t][i]]
        /\ \A i \in 1..Len(lists[t]) : lists[t][i] \in allocated
    BY <1>2, QueuePlaces
  <2>2. \A i \in 1..Len(lists[t]) : Queue[t][i] = proc_info'[lists[t][i]]
    BY <1>1, <1>6, <2>1 DEF TypeOK
  <2>3. CASE t # s
    <3>1. f[t] = Queue[t] /\ new[t] = lists[t]
      BY <1>5, <1>8, <2>3
    <3> QED
      BY <2>1, <2>2, <3>1
  <2>4. CASE t = s
    <3>1. f[s] = Append(Queue[s], p) /\ new[s] = Append(lists[s], n)
      BY <1>5, <1>8
    <3>2. /\ Len(Append(Queue[s], p)) = Len(Queue[s]) + 1
          /\ \A i \in 1..Len(Queue[s]) : Append(Queue[s], p)[i] = Queue[s][i]
          /\ Append(Queue[s], p)[Len(Queue[s]) + 1] = p
      BY <1>8, AppendPlaces
    <3>3. /\ Len(Append(lists[s], n)) = Len(lists[s]) + 1
          /\ \A i \in 1..Len(lists[s]) : Append(lists[s], n)[i] = lists[s][i]
          /\ Append(lists[s], n)[Len(lists[s]) + 1] = n
      BY <1>5, AppendPlaces
    <3> HIDE DEF f, new
    <3>4. ASSUME NEW i \in 1..Len(lists[s]) + 1 PROVE f[s][i] = proc_info'[new[s][i]]
      <4>1. CASE i = Len(lists[s]) + 1
        BY <1>6, <2>1, <2>4, <3>1, <3>2, <3>3, <4>1
      <4>2. CASE i \in 1..Len(lists[s])
        BY <2>1, <2>2, <2>4, <3>1, <3>2, <3>3, <4>2
      <4> QED
        BY <2>1, <2>4, <4>1, <4>2
    <3> QED
      BY <2>1, <2>4, <3>1, <3>2, <3>3, <3>4
  <2> QED
    BY <2>3, <2>4
<1>10. f \in [Sem -> Seq(Proc)]
  BY <1>8, AppendPlaces
<1>11. Queue' = f
  <2> HIDE DEF f, new
  <2> QED
    BY <1>4, <1>9, <1>10, QueueEqual
<1> QED
  BY <1>4, <1>7, <1>11 DEF IInv

\* up() that wakes: the first node and the first of the queue.
LEMMA UpWakes ==
  ASSUME IInv, NEW p \in Proc, NEW s \in Sem, Up(p, s), value[s] + 1 <= 0, head[s] # NULL
  PROVE  /\ IInv'
         /\ Queue' = [Queue EXCEPT ![s] = Tail(@)] /\ Queue[s] # <<>>
         /\ state' = [state EXCEPT ![Head(Queue[s])] = "RUNNING"]
<1>1. TypeOK /\ \E lists : Holds(lists)
  BY DEF IInv
<1>2. PICK lists : Holds(lists)
  BY <1>1
<1>3. /\ Unlink(s) /\ Kfree(head[s])
      /\ value' = [value EXCEPT ![s] = @ + 1] /\ kpc' = kpc
      /\ state' = [state EXCEPT ![proc_info[head[s]]] = "RUNNING"]
  BY DEF Up
<1> DEFINE new == [lists EXCEPT ![s] = Tail(@)]
           f == [Queue EXCEPT ![s] = Tail(@)]
<1>4. Holds(new)'
  BY <1>1, <1>2, <1>3, UnlinkHolds
<1>5. lists \in [Sem -> Seq(Node)] /\ lists[s] \in Seq(Node) /\ lists[s] # <<>> /\ head[s] = lists[s][1]
  BY <1>2 DEF Holds, Linked, First
<1>6. Queue \in [Sem -> Seq(Proc)] /\ Queue[s] # <<>> /\ Queue[s] \in Seq(Proc)
  BY <1>2, QueueTyped, QueuePlaces
<1>7. Head(Queue[s]) = proc_info[head[s]]
  <2>1. Len(lists[s]) \in Nat \ {0}
    BY <1>5, Places
  <2>2. 1 \in 1..Len(lists[s])
    BY <2>1
  <2>3. Queue[s][1] = proc_info[lists[s][1]]
    BY <1>2, <2>2, QueuePlaces
  <2>4. Head(Queue[s]) = Queue[s][1]
    BY <1>6, TailPlaces
  <2> QED
    BY <1>5, <2>3, <2>4
<1>8. TypeOK'
  <2>1. head[s] \in Node
    BY <1>5, TailPlaces
  <2>2. proc_info[head[s]] \in Proc
    BY <1>6, <1>7, TailPlaces
  <2>3. head' \in [Sem -> Node \cup {NULL}] /\ tail' \in [Sem -> Node \cup {NULL}]
    <3>1. CASE head[s] = tail[s]
      BY <1>1, <1>3, <3>1 DEF Unlink, TypeOK
    <3>2. CASE head[s] # tail[s]
      <4>1. next[head[s]] \in Node \cup {NULL}
        <5>1. Linked(lists[s], s) /\ 1 \in 1..Len(lists[s])
          BY <1>2, <1>5, Places DEF Holds
        <5>2. next[head[s]] = After(lists[s], 1)
          BY <1>5, <5>1 DEF Linked
        <5> QED
          BY <1>5, <5>2, Places DEF After
      <4> QED
        BY <1>1, <1>3, <3>2, <4>1 DEF Unlink, TypeOK
    <3> QED
      BY <3>1, <3>2
  <2>4. /\ value' \in [Sem -> Int]
        /\ state' \in [Proc -> {"RUNNING", "INTERRUPTIBLE"}]
        /\ kpc' \in [Proc -> {"user", "schedule", "off"}]
    BY <1>1, <1>3, <2>2 DEF TypeOK
  <2>5. /\ next' \in [Node -> Node \cup {NULL, JUNK}]
        /\ proc_info' \in [Node -> Proc \cup {JUNK}]
        /\ allocated' \in SUBSET Node
    BY <1>1, <1>3, <2>1 DEF TypeOK, Kfree
  <2> QED
    BY <2>3, <2>4, <2>5 DEF TypeOK
<1>9. ASSUME NEW t \in Sem
      PROVE  /\ Len(f[t]) = Len(new[t])
             /\ \A i \in 1..Len(new[t]) : f[t][i] = proc_info'[new[t][i]]
  <2>1. /\ Len(Queue[t]) = Len(lists[t]) /\ Len(lists[t]) \in Nat
        /\ \A i \in 1..Len(lists[t]) : Queue[t][i] = proc_info[lists[t][i]]
        /\ \A i \in 1..Len(lists[t]) : lists[t][i] \in allocated
    BY <1>2, QueuePlaces
  <2>2. \A i \in 1..Len(lists[t]) : lists[t][i] = head[s] => t = s /\ i = 1
    <3>1. Apart(lists) /\ 1 \in 1..Len(lists[s])
      BY <1>2, <1>5, Places DEF Holds
    <3> QED
      BY <1>5, <3>1 DEF Apart
  <2>3. \A i \in 1..Len(lists[t]) : lists[t][i] # head[s] => Queue[t][i] = proc_info'[lists[t][i]]
    BY <1>1, <1>3, <2>1 DEF Kfree, TypeOK
  <2>4. CASE t # s
    <3>1. f[t] = Queue[t] /\ new[t] = lists[t]
      BY <1>5, <1>6, <2>4
    <3> QED
      BY <2>1, <2>2, <2>3, <2>4, <3>1
  <2>5. CASE t = s
    <3>1. f[s] = Tail(Queue[s]) /\ new[s] = Tail(lists[s])
      BY <1>5, <1>6
    <3>2. /\ Len(Tail(Queue[s])) = Len(Queue[s]) - 1
          /\ \A i \in 1..Len(Queue[s]) - 1 : Tail(Queue[s])[i] = Queue[s][i + 1]
      BY <1>6, TailPlaces
    <3>3. /\ Len(Tail(lists[s])) = Len(lists[s]) - 1
          /\ \A i \in 1..Len(lists[s]) - 1 : Tail(lists[s])[i] = lists[s][i + 1]
      BY <1>5, TailPlaces
    <3> HIDE DEF f, new
    <3>4. ASSUME NEW i \in 1..Len(lists[s]) - 1 PROVE f[s][i] = proc_info'[new[s][i]]
      <4>1. i + 1 \in 1..Len(lists[s]) /\ i + 1 # 1
        BY <2>1, <2>5
      <4>2. Queue[s][i + 1] = proc_info'[lists[s][i + 1]]
        BY <2>2, <2>3, <2>5, <4>1
      <4> QED
        BY <2>1, <2>5, <3>1, <3>2, <3>3, <4>2
    <3> QED
      BY <2>1, <2>5, <3>1, <3>2, <3>3, <3>4
  <2> QED
    BY <2>4, <2>5
<1>10. f \in [Sem -> Seq(Proc)]
  <2>1. Tail(Queue[s]) \in Seq(Proc)
    BY <1>6, TailPlaces
  <2> QED
    BY <1>6, <2>1
<1>11. Queue' = f
  <2> HIDE DEF f, new
  <2> QED
    BY <1>4, <1>9, <1>10, QueueEqual
<1> QED
  BY <1>3, <1>4, <1>6, <1>7, <1>8, <1>11 DEF IInv

\* The steps that leave the lists alone.
LEMMA ListsStay ==
  ASSUME IInv, UNCHANGED <<head, tail, next, proc_info, allocated>>
  PROVE  (\E lists : Holds(lists))' /\ Queue' = Queue
<1>1. PICK lists : Holds(lists)
  BY DEF IInv
<1>2. Holds(lists)'
  BY <1>1 DEF Holds, Linked
<1>3. Queue' = Queue
  BY DEF Queue, Chain, Walk
<1> QED
  BY <1>2, <1>3

\* down() on the pointers is down() on the queue.
LEMMA DownKeeps ==
  ASSUME IInv, NEW p \in Proc, NEW s \in Sem, Down(p, s)
  PROVE  IInv' /\ Sems!Down(p, s)
<1>1. TypeOK /\ value[s] \in Int
  BY DEF IInv, TypeOK
<1>2. kpc[p] = "user" /\ value' = [value EXCEPT ![s] = @ - 1]
  BY DEF Down
<1>3. CASE value[s] - 1 < 0
  <2>1. IInv' /\ Queue' = [Queue EXCEPT ![s] = Append(@, p)]
    BY <1>3, DownWaits
  <2>2. /\ state' = [state EXCEPT ![p] = "INTERRUPTIBLE"]
        /\ kpc' = [kpc EXCEPT ![p] = "schedule"]
    BY <1>1, <1>3 DEF Down
  <2> QED
    BY <1>2, <1>3, <2>1, <2>2 DEF Sems!Down, Sems!Block, Queue
<1>4. CASE ~(value[s] - 1 < 0)
  <2>1. UNCHANGED <<head, tail, next, proc_info, allocated, state, kpc>>
    BY <1>1, <1>4 DEF Down
  <2>2. (\E lists : Holds(lists))' /\ Queue' = Queue
    BY <2>1, ListsStay
  <2>3. TypeOK'
    BY <1>1, <1>2, <2>1 DEF TypeOK
  <2> QED
    BY <1>2, <1>4, <2>1, <2>2, <2>3 DEF IInv, Sems!Down, Queue
<1> QED
  BY <1>3, <1>4

\* up() on the pointers is up() on the queue.
LEMMA UpKeeps ==
  ASSUME IInv, NEW p \in Proc, NEW s \in Sem, Up(p, s)
  PROVE  IInv' /\ Sems!Up(p, s)
<1>1. TypeOK /\ value[s] \in Int
  BY DEF IInv, TypeOK
<1>2. kpc[p] = "user" /\ value' = [value EXCEPT ![s] = @ + 1] /\ UNCHANGED kpc
  BY DEF Up
<1>3. CASE value[s] + 1 <= 0 /\ head[s] # NULL
  <2>1. /\ IInv'
        /\ Queue' = [Queue EXCEPT ![s] = Tail(@)] /\ Queue[s] # <<>>
        /\ state' = [state EXCEPT ![Head(Queue[s])] = "RUNNING"]
    BY <1>3, UpWakes
  <2> QED
    BY <1>2, <1>3, <2>1 DEF Sems!Up, Sems!WakeFirst, Queue
<1>4. CASE ~(value[s] + 1 <= 0 /\ head[s] # NULL)
  <2>1. UNCHANGED <<head, tail, next, proc_info, allocated, state>>
    BY <1>4 DEF Up
  <2>2. (\E lists : Holds(lists))' /\ Queue' = Queue
    BY <2>1, ListsStay
  <2>3. TypeOK'
    BY <1>1, <1>2, <2>1 DEF TypeOK
  <2>4. Queue[s] = <<>> <=> head[s] = NULL
    BY QueuePlaces DEF IInv
  <2> QED
    BY <1>2, <1>4, <2>1, <2>2, <2>3, <2>4 DEF IInv, Sems!Up, Queue
<1> QED
  BY <1>3, <1>4

LEMMA NextKeeps == IInv /\ [Next]_vars => IInv' /\ [Sems!Next]_(Sems!vars)
<1> SUFFICES ASSUME IInv, [Next]_vars
             PROVE  IInv' /\ (Sems!Next \/ UNCHANGED Sems!vars)
  OBVIOUS
<1>1. CASE \E p \in Proc, s \in Sem : Down(p, s)
  BY <1>1, DownKeeps DEF Sems!Next
<1>2. CASE \E p \in Proc, s \in Sem : value[s] < MaxValue /\ Up(p, s)
  BY <1>2, UpKeeps DEF Sems!Next
<1>3. CASE \E p \in Proc : Kernel(p)
  <2>1. PICK p \in Proc : Schedule(p) \/ Resume(p)
    BY <1>3 DEF Kernel
  <2>2. UNCHANGED <<value, head, tail, next, proc_info, allocated, state>>
    BY <2>1 DEF Schedule, Resume
  <2>3. (\E lists : Holds(lists))' /\ Queue' = Queue
    BY <2>2, ListsStay
  <2>4. TypeOK'
    BY <2>1, <2>2 DEF IInv, TypeOK, Schedule, Resume
  <2>5. Sems!Kernel(p)
    BY <2>1, <2>3 DEF Schedule, Resume, Sems!Kernel, Sems!Schedule, Sems!Resume, Queue
  <2> QED
    BY <2>3, <2>4, <2>5 DEF IInv, Sems!Next
<1>4. CASE UNCHANGED vars
  <2>1. (\E lists : Holds(lists))' /\ Queue' = Queue
    BY <1>4, ListsStay DEF vars
  <2>2. TypeOK'
    BY <1>4 DEF vars, IInv, TypeOK
  <2> QED
    BY <1>4, <2>1, <2>2 DEF vars, IInv, Sems!vars, Queue
<1> QED
  BY <1>1, <1>2, <1>3, <1>4 DEF Next

LEMMA InitKeeps == Init => Sems!Init
<1> SUFFICES ASSUME Init PROVE Sems!Init
  OBVIOUS
<1>1. PICK lists : Holds(lists)
  BY InitInv DEF IInv
<1>2. \A s \in Sem : Queue[s] = <<>>
  BY <1>1, QueuePlaces DEF Init
<1>3. Queue = [s \in Sem |-> <<>>]
  BY <1>2 DEF Queue
<1> QED
  BY <1>3 DEF Init, Sems!Init, Queue

LEMMA Invariant == Spec => []IInv
BY InitInv, NextKeeps, PTL DEF Spec

-----------------------------------------------------------------------------
(* What follows.                                                           *)

\* Whatever the number of nodes, no pointer of the system calls dangles where it is
\* followed, and no field leaves its type.
THEOREM PointersTyped == Spec => []TypeOK
<1>1. IInv => TypeOK
  BY DEF IInv
<1> QED
  BY <1>1, Invariant, PTL

\* sys_cs1550_down and sys_cs1550_up neither leak a node nor use one after kfree():
\* the nodes of the lists are those that are allocated, and no list has a node of
\* another.
THEOREM NodesAccounted == Spec => []ListsOwnTheMemory
<1>1. ASSUME IInv PROVE ListsOwnTheMemory
  <2>1. PICK lists : Holds(lists)
    BY <1>1 DEF IInv
  <2>2. \A s \in Sem : NodesOf(s) = {lists[s][i] : i \in 1..Len(lists[s])}
    <3> SUFFICES ASSUME NEW s \in Sem
                 PROVE  NodesOf(s) = {lists[s][i] : i \in 1..Len(lists[s])}
      OBVIOUS
    <3>1. Chain(s) = lists[s] /\ lists[s] \in Seq(Node)
      BY <2>1, ChainIsList DEF Holds
    <3>2. DOMAIN Chain(s) = 1..Len(lists[s])
      BY <3>1
    <3> QED
      BY <3>1, <3>2 DEF NodesOf
  <2>3. UNION {NodesOf(s) : s \in Sem} = allocated
    <3>1. \A s \in Sem : NodesOf(s) \subseteq allocated
      BY <2>1, <2>2, QueuePlaces
    <3>2. \A n \in allocated : \E s \in Sem : n \in NodesOf(s)
      BY <2>1, <2>2 DEF Holds, InLists
    <3> QED
      BY <3>1, <3>2
  <2>4. ASSUME NEW s \in Sem, NEW t \in Sem, s # t PROVE NodesOf(s) \cap NodesOf(t) = {}
    BY <2>1, <2>2, <2>4 DEF Holds, Apart
  <2> QED
    BY <2>3, <2>4 DEF ListsOwnTheMemory
<1>2. IInv => ListsOwnTheMemory
  BY <1>1
<1> QED
  BY <1>2, Invariant, PTL

\* The pointers implement the queue of Cs1550Sem: every step on the nodes is the step
\* of the same call on the queue, or none.  The safety part of ImplementsQueue.
THEOREM PointersAreQueue == Spec => Sems!Init /\ [][Sems!Next]_(Sems!vars)
BY InitKeeps, Invariant, NextKeeps, PTL DEF Spec

-----------------------------------------------------------------------------
(* What Cs1550SemProofs proves of the queue holds of the pointers.         *)

LEMMA SemAssumptionHolds == InitValue \in [Sem -> Nat] /\ MaxValue \in Nat
BY ListAssumption

LEMMA SameInit == Sems!Init => SP!Init
BY DEF Sems!Init, SP!Init

LEMMA SameNext == [Sems!Next]_(Sems!vars) => [SP!Next]_(SP!vars)
BY DEF Sems!Next, SP!Next, Sems!vars, SP!vars, Sems!Down, SP!Down, Sems!Block, SP!Block,
       Sems!Up, SP!Up, Sems!WakeFirst, SP!WakeFirst, Sems!Kernel, SP!Kernel,
       Sems!Schedule, SP!Schedule, Sems!Resume, SP!Resume

LEMMA SemInvariant == Spec => [](IInv /\ SP!IInv)
<1>1. Init => SP!IInv
  BY InitKeeps, SameInit, SemAssumptionHolds, SP!InitInv
<1>2. SP!IInv /\ [SP!Next]_(SP!vars) => SP!IInv'
  BY SemAssumptionHolds, SP!NextInv
<1>3. IInv /\ SP!IInv /\ [Next]_vars => SP!IInv'
  BY <1>2, NextKeeps, SameNext
<1> QED
  BY <1>1, <1>3, InitInv, NextKeeps, PTL DEF Spec

\* With nodes and pointers as with a queue: no wake-up is lost, a process waits in
\* one place, and the value tells up() that there is somebody to wake.
THEOREM PointersKeepSemInvariants ==
  Spec => [](SP!SleepsIffListed /\ SP!WaitsOnce /\ SP!ListMatchesValue /\ SP!UserRuns)
<1>1. SP!IInv => SP!SleepsIffListed /\ SP!WaitsOnce /\ SP!ListMatchesValue /\ SP!UserRuns
  BY DEF SP!IInv
<1> QED
  BY <1>1, SemInvariant, PTL

\* Down to the pointers, the system calls keep the promise of FifoSemaphore: a unit
\* goes to the process that has waited longest.
THEOREM PointersKeepPromise ==
  Spec => SP!Promise!Init /\ [][SP!Promise!Next]_(SP!Promise!vars)
<1>1. Init => SP!Promise!Init
  BY InitKeeps, SameInit, SemAssumptionHolds, SP!InitPromise
<1>2. SP!IInv /\ [SP!Next]_(SP!vars) => [SP!Promise!Next]_(SP!Promise!vars)
  BY SemAssumptionHolds, SP!NextPromise
<1>3. IInv /\ SP!IInv /\ [Next]_vars => [SP!Promise!Next]_(SP!Promise!vars)
  BY <1>2, NextKeeps, SameNext
<1> QED
  BY <1>1, <1>3, SemInvariant, PTL DEF Spec

=============================================================================
