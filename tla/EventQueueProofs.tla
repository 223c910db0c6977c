-------------------------- MODULE EventQueueProofs --------------------------
(***************************************************************************)
(* The event queue implements Agenda, for any set of events and any range  *)
(* of times: what Oracle.tla takes its queue to be.  The invariant is that *)
(* the array is a heap (every event is at or after its parent) and that    *)
(* index is its inverse, which ChangeTime relies on.  Up and Down keep the *)
(* second all the way; the first is broken in one place, which they move   *)
(* to where it is none: up to the root, or down to a leaf.                 *)
(***************************************************************************)
EXTENDS EventQueue, GraphProofs

\* The state of a queue of n events.
QueueState(n) ==
    [heap : [1..n -> Events], timestamp : [Events -> Nat], index : [Events -> Nat]]

\* index is the inverse of heap.
Indexed(s, n) == s \in QueueState(n) /\ \A i \in 1..n : s.index[s.heap[i]] = i

Key(s, i) == s.timestamp[s.heap[i]]

\* The event at k is at or after its parent; in a heap they all are.
AfterParent(s, k) == Key(s, k \div 2) <= Key(s, k)
Heap(s, n) == \A k \in 2..n : AfterParent(s, k)

\* They all are, but the event at j may be before its parent, which is at or
\* before the children of j.
ButAbove(s, n, j) == \A k \in 2..n :
    /\ k # j => AfterParent(s, k)
    /\ k \div 2 = j /\ j > 1 => Key(s, j \div 2) <= Key(s, k)

\* They all are, but the event at j may be before its parent and after its
\* children.
ButAround(s, n, j) == \A k \in 2..n :
    /\ k # j /\ k \div 2 # j => AfterParent(s, k)
    /\ k \div 2 = j /\ j > 1 => Key(s, j \div 2) <= Key(s, k)

Contents(s, n) == {s.heap[i] : i \in 1..n}

\* r has the events of s in another order, from the first place to place k.
Rearranged(s, r, n, k) ==
    /\ Indexed(r, n) /\ r.timestamp = s.timestamp
    /\ Contents(r, n) = Contents(s, n)
    /\ \A i \in 1..n : i > k => r.heap[i] = s.heap[i]

\* r has two of them in each other's place.
Swapped(s, r, n, i, j) ==
    /\ Indexed(r, n) /\ r.timestamp = s.timestamp
    /\ r.heap[i] = s.heap[j] /\ r.heap[j] = s.heap[i]
    /\ \A k \in 1..n : k # i /\ k # j => r.heap[k] = s.heap[k]
    /\ Contents(r, n) = Contents(s, n)

-----------------------------------------------------------------------------
\* The places of a tree: a place from 2 on has a parent before it, and j has
\* the children 2j and 2j + 1.
LEMMA Places ==
    ASSUME NEW n \in Nat
    PROVE  /\ \A k \in 2..n : k \div 2 \in 1..n /\ k \div 2 < k
           /\ \A k \in 2..n, j \in 1..n : k \div 2 = j <=> k = 2 * j \/ k = 2 * j + 1
OBVIOUS

\* Swap, of two places or of one with itself.
LEMMA SwapIs ==
    ASSUME NEW n \in Nat, NEW s, Indexed(s, n), NEW i \in 1..n, NEW j \in 1..n,
           NEW r, r = Swap(s, i, j)
    PROVE  Swapped(s, r, n, i, j)
<1> DEFINE H == [s.heap EXCEPT ![i] = s.heap[j], ![j] = s.heap[i]]
           X == [s.index EXCEPT ![s.heap[i]] = j, ![s.heap[j]] = i]
<1>1. /\ s.heap \in [1..n -> Events] /\ s.timestamp \in [Events -> Nat] /\ s.index \in [Events -> Nat]
      /\ \A k \in 1..n : s.index[s.heap[k]] = k
  BY DEF Indexed, QueueState
<1>2. s = [heap |-> s.heap, timestamp |-> s.timestamp, index |-> s.index]
  BY DEF Indexed, QueueState
<1>3. r.heap = H /\ r.timestamp = s.timestamp /\ r.index = X
      /\ r = [heap |-> r.heap, timestamp |-> r.timestamp, index |-> r.index]
  BY <1>2 DEF Swap
<1>4. /\ H \in [1..n -> Events] /\ H[i] = s.heap[j] /\ H[j] = s.heap[i]
      /\ \A k \in 1..n : k # i /\ k # j => H[k] = s.heap[k]
  BY <1>1
<1>5. X \in [Events -> Nat]
  BY <1>1
<1>6. ASSUME NEW k \in 1..n PROVE X[H[k]] = k
  <2>1. s.heap[i] \in Events /\ s.heap[j] \in Events /\ s.heap[k] \in Events
    BY <1>1
  <2>2. \A a, b \in 1..n : s.heap[a] = s.heap[b] => a = b
    BY <1>1
  <2> QED BY <1>1, <1>4, <2>1, <2>2
<1> HIDE DEF H, X
<1>7. Indexed(r, n)
  BY <1>3, <1>4, <1>5, <1>6, <1>1 DEF Indexed, QueueState
<1>8. Contents(r, n) = Contents(s, n)
  <2>1. \A k \in 1..n : \E l \in 1..n : H[k] = s.heap[l]
    BY <1>4
  <2>2. \A k \in 1..n : \E l \in 1..n : s.heap[k] = H[l]
    BY <1>4
  <2>3. r.heap = H
    BY <1>3
  <2>4. \A x \in Contents(r, n) : x \in Contents(s, n)
    BY <2>1, <2>3 DEF Contents
  <2>5. \A x \in Contents(s, n) : x \in Contents(r, n)
    BY <2>2, <2>3 DEF Contents
  <2> QED BY <2>4, <2>5
<1> QED BY <1>3, <1>4, <1>7, <1>8 DEF Swapped

\* The keys after it.
LEMMA SwapKeys ==
    ASSUME NEW n \in Nat, NEW s, Indexed(s, n), NEW i \in 1..n, NEW j \in 1..n,
           NEW r, r = Swap(s, i, j)
    PROVE  /\ Key(r, i) = Key(s, j) /\ Key(r, j) = Key(s, i)
           /\ \A k \in 1..n : k # i /\ k # j => Key(r, k) = Key(s, k)
<1>1. Swapped(s, r, n, i, j)
  BY SwapIs
<1> QED BY <1>1 DEF Swapped, Key

\* Keys are times.
LEMMA KeyType == ASSUME NEW n \in Nat, NEW s, Indexed(s, n), NEW i \in 1..n PROVE Key(s, i) \in Nat
<1> USE DEF Key
<1>1. s.heap \in [1..n -> Events] /\ s.timestamp \in [Events -> Nat]
  BY DEF Indexed, QueueState
<1>2. s.heap[i] \in Events
  BY <1>1
<1>3. s.timestamp[s.heap[i]] \in Nat
  BY <1>1, <1>2
<1> QED BY <1>3

\* Swapping two of the first k places.
LEMMA SwapRearranges ==
    ASSUME NEW n \in Nat, NEW k \in 0..n, NEW s, NEW r, Rearranged(s, r, n, k),
           NEW i \in 1..k, NEW j \in 1..k
    PROVE  Rearranged(s, Swap(r, i, j), n, k)
<1>1. i \in 1..n /\ j \in 1..n /\ Indexed(r, n)
  BY DEF Rearranged
<1> DEFINE q == Swap(r, i, j)
<1>2. Swapped(r, q, n, i, j)
  BY <1>1, SwapIs
<1>3. \A x \in 1..n : x > k => x # i /\ x # j
  OBVIOUS
<1> HIDE DEF q
<1>4. \A x \in 1..n : x > k => q.heap[x] = r.heap[x]
  BY <1>2, <1>3 DEF Swapped
<1>5. Rearranged(s, q, n, k)
  BY <1>2, <1>4 DEF Swapped, Rearranged
<1> QED BY <1>5 DEF q

-----------------------------------------------------------------------------
(***************************************************************************)
(* Up.                                                                     *)
(***************************************************************************)
\* One round moves the fault to the parent.
LEMMA RiseKeeps ==
    ASSUME NEW n \in Nat, NEW s, Indexed(s, n), NEW j \in 1..n, ButAbove(s, n, j),
           j > 1, Less(s, j, j \div 2)
    PROVE  ButAbove(Swap(s, j, j \div 2), n, j \div 2)
<1> DEFINE p == j \div 2
           r == Swap(s, j, p)
<1>1. p \in 1..n /\ p < j /\ j \in 2..n
  BY Places
<1>2. /\ Key(r, j) = Key(s, p) /\ Key(r, p) = Key(s, j)
      /\ \A k \in 1..n : k # j /\ k # p => Key(r, k) = Key(s, k)
  BY <1>1, SwapKeys
<1>3. \A k \in 1..n : Key(s, k) \in Nat
  BY KeyType
<1>4. Key(s, j) < Key(s, p)
  BY DEF Less, Key
<1>5. /\ \A k \in 2..n : k # j => Key(s, k \div 2) <= Key(s, k)
      /\ \A k \in 2..n : k \div 2 = j => Key(s, p) <= Key(s, k)
  BY <1>1 DEF ButAbove, AfterParent
<1>6. \A k \in 2..n : k \div 2 \in 1..n /\ k \div 2 < k
  BY Places
<1> HIDE DEF p, r
<1>7. ASSUME NEW k \in 2..n, k # p PROVE Key(r, k \div 2) <= Key(r, k)
  <2>1. CASE k = j
    BY <2>1, <1>1, <1>2, <1>3, <1>4 DEF p
  <2>2. CASE k # j /\ k \div 2 = p
    BY <2>2, <1>1, <1>2, <1>3, <1>4, <1>5, <1>7
  <2>3. CASE k # j /\ k \div 2 = j
    BY <2>3, <1>1, <1>2, <1>3, <1>4, <1>5, <1>7
  <2>4. CASE k # j /\ k \div 2 # p /\ k \div 2 # j
    BY <2>4, <1>1, <1>2, <1>5, <1>6, <1>7
  <2> QED BY <2>1, <2>2, <2>3, <2>4
<1>8. ASSUME NEW k \in 2..n, k \div 2 = p, p > 1 PROVE Key(r, p \div 2) <= Key(r, k)
  <2>1. p \in 2..n /\ p # j /\ p \div 2 \in 1..n /\ p \div 2 < p /\ p \div 2 # j
    BY <1>1, <1>6, <1>8
  <2>2. Key(r, p \div 2) = Key(s, p \div 2) /\ Key(s, p \div 2) <= Key(s, p)
    BY <1>2, <1>5, <2>1
  <2>3. CASE k = j
    BY <2>2, <2>3, <1>2
  <2>4. CASE k # j
    BY <2>1, <2>2, <2>4, <1>2, <1>3, <1>5, <1>6, <1>8
  <2> QED BY <2>3, <2>4
<1> QED BY <1>7, <1>8 DEF ButAbove, AfterParent, p, r

\* Where it does not move there is none.
LEMMA RiseEnds ==
    ASSUME NEW n \in Nat, NEW s, Indexed(s, n), NEW j \in 1..n, ButAbove(s, n, j),
           ~ (j > 1 /\ Less(s, j, j \div 2))
    PROVE  Heap(s, n)
<1> SUFFICES ASSUME NEW k \in 2..n PROVE AfterParent(s, k)
  BY DEF Heap
<1>1. CASE k # j
  BY <1>1 DEF ButAbove
<1>2. CASE k = j
  <2>1. ~ (Key(s, j) < Key(s, j \div 2)) /\ j \div 2 \in 1..n
    BY <1>2, Places DEF Less, Key
  <2> QED BY <1>2, <2>1, KeyType DEF AfterParent
<1> QED BY <1>1, <1>2

\* up(j) makes a heap.
LEMMA UpMakesHeap ==
    ASSUME NEW n \in Nat, NEW s, Indexed(s, n), NEW j \in 1..n, ButAbove(s, n, j)
    PROVE  Rearranged(s, Up(s, j), n, n) /\ Heap(Up(s, j), n)
<1> DEFINE V == {r \in [s : QueueState(n), j : 1..n] :
                    Rearranged(s, r.s, n, n) /\ ButAbove(r.s, n, r.j)}
           start == [s |-> s, j |-> j]
           Moves(r) == r.j > 1 /\ Less(r.s, r.j, r.j \div 2)
           Moved(r) == [s |-> Swap(r.s, r.j, r.j \div 2), j |-> r.j \div 2]
           step == [r \in V |-> IF Moves(r) THEN Moved(r) ELSE r]
           Rises(f) == f = [k \in Nat |-> IF k = 0 THEN start
                                          ELSE LET r == f[k - 1] IN
                                               IF r.j > 1 /\ Less(r.s, r.j, r.j \div 2)
                                               THEN [s |-> Swap(r.s, r.j, r.j \div 2), j |-> r.j \div 2]
                                               ELSE r]
           h == CHOOSE f : Rises(f)
<1>1. Up(s, j) = h[n].s
  <2>1. Len(s.heap) = n
    BY DEF Indexed, QueueState
  <2> QED BY <2>1 DEF Up
<1>2. start \in V
  <2>1. s \in QueueState(n) /\ Rearranged(s, s, n, n) /\ start.s = s /\ start.j = j
    BY DEF Rearranged, Indexed
  <2>2. start \in [s : QueueState(n), j : 1..n]
    BY <2>1
  <2> HIDE DEF start
  <2> QED BY <2>1, <2>2
<1>3. ASSUME NEW r \in V, Moves(r) PROVE Moved(r) \in V /\ Moved(r).j < r.j
  <2>1. /\ r.s \in QueueState(n) /\ r.j \in 1..n /\ Rearranged(s, r.s, n, n)
        /\ ButAbove(r.s, n, r.j) /\ Indexed(r.s, n)
    BY DEF Rearranged
  <2>2. r.j \div 2 \in 1..n /\ r.j \div 2 < r.j
    BY <2>1, <1>3, Places
  <2> DEFINE q == Swap(r.s, r.j, r.j \div 2)
  <2>3. ButAbove(q, n, r.j \div 2)
    BY <2>1, <1>3, RiseKeeps
  <2>4. Rearranged(s, q, n, n)
    BY <2>1, <2>2, SwapRearranges
  <2>5. q \in QueueState(n)
    BY <2>4 DEF Rearranged, Indexed
  <2>6. Moved(r).s = q /\ Moved(r).j = r.j \div 2 /\ Moved(r) = [s |-> q, j |-> r.j \div 2]
    OBVIOUS
  <2> HIDE DEF q
  <2>7. Moved(r) \in [s : QueueState(n), j : 1..n]
    BY <2>2, <2>5, <2>6
  <2> HIDE DEF Moved
  <2> QED BY <2>2, <2>3, <2>4, <2>6, <2>7
<1>4. Rises(h)
  <2>1. step \in [V -> V]
    <3> HIDE DEF V, Moved, Moves
    <3> QED BY <1>3
  <2>2. PICK f : Iterates(f, V, start, step)
    <3> HIDE DEF V, step, Rises, start
    <3> QED BY <1>2, <2>1, IterationExists
  <2>3. ASSUME NEW k \in Nat
        PROVE  f[k] = IF k = 0 THEN start
                      ELSE IF Moves(f[k - 1]) THEN Moved(f[k - 1]) ELSE f[k - 1]
    <3>1. CASE k = 0
      <4> HIDE DEF start, step, V
      <4> QED BY <2>2, <3>1 DEF Iterates
    <3>2. CASE k # 0
      <4>1. k - 1 \in Nat /\ k = k - 1 + 1
        BY <3>2
      <4>2. f[k] = step[f[k - 1]] /\ f[k - 1] \in V
        <5> HIDE DEF start, step, V
        <5> QED BY <2>2, <4>1 DEF Iterates
      <4> HIDE DEF V, Moves, Moved
      <4> QED BY <3>2, <4>2
    <3> QED BY <3>1, <3>2
  <2>4. Rises(f)
    <3> HIDE DEF V, step, start
    <3>1. f = [k \in Nat |-> f[k]]
      BY <2>2 DEF Iterates
    <3> QED BY <2>3, <3>1
  <2> HIDE DEF Rises
  <2> QED BY <2>4
<1>5. h[0] = start /\ \A k \in Nat : h[k + 1] = IF Moves(h[k]) THEN Moved(h[k]) ELSE h[k]
  <2> HIDE DEF h, start
  <2>1. \A k \in Nat : h[k] = IF k = 0 THEN start
                              ELSE IF Moves(h[k - 1]) THEN Moved(h[k - 1]) ELSE h[k - 1]
    BY <1>4
  <2> HIDE DEF Rises, Moves, Moved
  <2>2. \A k \in Nat : k + 1 \in Nat /\ k + 1 # 0 /\ k + 1 - 1 = k
    OBVIOUS
  <2> QED BY <2>1, <2>2
\* After k rounds it has stopped or moved k places.
<1> DEFINE P == {k \in Nat : h[k] \in V /\ (Moves(h[k]) => h[k].j + k <= n)}
<1>6. \A r \in V : r.j \in 1..n /\ Rearranged(s, r.s, n, n) /\ ButAbove(r.s, n, r.j)
  OBVIOUS
<1>7. start.j = j
  OBVIOUS
<1> HIDE DEF h, V, start, step, Rises, Moves, Moved
<1>8. 0 \in P
  BY <1>2, <1>5, <1>7
<1>9. ASSUME NEW k \in P PROVE k + 1 \in P
  <2>1. CASE Moves(h[k])
    <3>1. h[k + 1] = Moved(h[k]) /\ Moved(h[k]) \in V /\ Moved(h[k]).j < h[k].j /\ h[k].j + k <= n
      BY <1>3, <1>5, <2>1
    <3>2. h[k].j \in 1..n /\ h[k + 1].j \in 1..n
      BY <3>1, <1>6
    <3> QED BY <3>1, <3>2
  <2>2. CASE ~ Moves(h[k])
    BY <1>5, <2>2
  <2> QED BY <2>1, <2>2
<1>10. P = Nat
  <2>1. P \in SUBSET Nat
    OBVIOUS
  <2> HIDE DEF P
  <2> QED BY <2>1, <1>8, <1>9, NatSubset
<1>11. h[n] \in V /\ ~ Moves(h[n])
  <2>1. h[n] \in V /\ (Moves(h[n]) => h[n].j + n <= n)
    BY <1>10
  <2> QED BY <2>1, <1>6
<1> USE DEF Moves
<1> QED BY <1>1, <1>6, <1>11, RiseEnds DEF Rearranged

-----------------------------------------------------------------------------
(***************************************************************************)
(* Down, among the first n of m places.                                    *)
(***************************************************************************)
\* The child that an event is swapped with.
SmallerChild(s, i, n) ==
    IF 2 * i + 1 <= n /\ Less(s, 2 * i + 1, 2 * i) THEN 2 * i + 1 ELSE 2 * i

\* It is none later than the other.
LEMMA SmallerChildIs ==
    ASSUME NEW m \in Nat, NEW n \in 0..m, NEW s, Indexed(s, m), NEW i \in 1..m, 2 * i <= n,
           NEW c, c = SmallerChild(s, i, n)
    PROVE  /\ c \in 2..n /\ c \div 2 = i /\ c > i
           /\ \A k \in 2..n : k \div 2 = i => Key(s, c) <= Key(s, k)
<1>1. c = 2 * i \/ c = 2 * i + 1
  BY DEF SmallerChild
<1>2. c \in 2..n /\ c \div 2 = i /\ c > i
  BY <1>1 DEF SmallerChild
<1>3. ASSUME NEW k \in 2..n, k \div 2 = i PROVE Key(s, c) <= Key(s, k)
  <2>1. k = 2 * i \/ k = 2 * i + 1
    BY <1>3
  <2>2. Key(s, k) \in Nat /\ Key(s, c) \in Nat /\ Key(s, 2 * i) \in Nat
    BY <1>2, KeyType
  <2>3. CASE 2 * i + 1 <= n /\ Less(s, 2 * i + 1, 2 * i)
    <3>1. c = 2 * i + 1 /\ Key(s, 2 * i + 1) < Key(s, 2 * i)
      BY <2>3 DEF SmallerChild, Less, Key
    <3> QED BY <2>1, <2>2, <3>1
  <2>4. CASE ~ (2 * i + 1 <= n /\ Less(s, 2 * i + 1, 2 * i))
    <3>1. c = 2 * i
      BY <2>4 DEF SmallerChild
    <3>2. CASE k = 2 * i
      BY <2>2, <3>1, <3>2
    <3>3. CASE k = 2 * i + 1
      <4>1. ~ (Key(s, k) < Key(s, 2 * i))
        BY <2>4, <3>3 DEF Less, Key
      <4> QED BY <2>2, <3>1, <4>1
    <3> QED BY <2>1, <3>2, <3>3
  <2> QED BY <2>3, <2>4
<1> QED BY <1>2, <1>3

\* One round moves the fault to that child.
LEMMA SinkKeeps ==
    ASSUME NEW m \in Nat, NEW n \in 0..m, NEW s, Indexed(s, m), NEW i \in 1..m, 2 * i <= n,
           ButAround(s, n, i), NEW c, c = SmallerChild(s, i, n), Less(s, c, i),
           NEW r, r = Swap(s, i, c)
    PROVE  ButAround(r, n, c) /\ AfterParent(r, c)
<1>1. /\ c \in 2..n /\ c \div 2 = i /\ c > i /\ c \in 1..m
      /\ \A k \in 2..n : k \div 2 = i => Key(s, c) <= Key(s, k)
  BY SmallerChildIs
<1>2. /\ Key(r, i) = Key(s, c) /\ Key(r, c) = Key(s, i)
      /\ \A k \in 1..m : k # i /\ k # c => Key(r, k) = Key(s, k)
  BY <1>1, SwapKeys
<1>3. \A k \in 1..m : Key(s, k) \in Nat
  BY KeyType
<1>4. Key(s, c) < Key(s, i)
  BY DEF Less, Key
<1>5. /\ \A k \in 2..n : k # i /\ k \div 2 # i => Key(s, k \div 2) <= Key(s, k)
      /\ \A k \in 2..n : k \div 2 = i /\ i > 1 => Key(s, i \div 2) <= Key(s, k)
  BY DEF ButAround, AfterParent
<1>6. \A k \in 2..n : k \div 2 \in 1..m /\ k \div 2 < k /\ k \in 1..m
  OBVIOUS
<1>7. ASSUME NEW k \in 2..n, k # c, k \div 2 # c PROVE Key(r, k \div 2) <= Key(r, k)
  <2>1. CASE k = i
    <3>1. k \div 2 \in 1..m /\ k \div 2 < k /\ i > 1 /\ k \div 2 # i /\ k \div 2 # c
      BY <2>1, <1>1, <1>6, <1>7
    <3> QED BY <2>1, <3>1, <1>1, <1>2, <1>5
  <2>2. CASE k # i /\ k \div 2 = i
    BY <2>2, <1>1, <1>2, <1>6, <1>7
  <2>3. CASE k # i /\ k \div 2 # i
    BY <2>3, <1>2, <1>5, <1>6, <1>7
  <2> QED BY <2>1, <2>2, <2>3
<1>8. ASSUME NEW k \in 2..n, k \div 2 = c PROVE Key(r, c \div 2) <= Key(r, k)
  <2>1. k # i /\ k # c /\ c # i /\ k \in 1..m /\ k \div 2 # i
    BY <1>1, <1>6, <1>8
  <2> QED BY <2>1, <1>1, <1>2, <1>5, <1>8
<1>9. AfterParent(r, c)
  BY <1>1, <1>2, <1>3, <1>4 DEF AfterParent
<1> QED BY <1>7, <1>8, <1>9 DEF ButAround, AfterParent

\* Where it does not move, the event is before its children.
LEMMA SinkEnds ==
    ASSUME NEW m \in Nat, NEW n \in 0..m, NEW s, Indexed(s, m), NEW i \in 1..m, ButAround(s, n, i),
           ~ (2 * i <= n /\ Less(s, SmallerChild(s, i, n), i))
    PROVE  /\ ButAbove(s, n, i)
           /\ i \in 2..n /\ AfterParent(s, i) => Heap(s, n)
           /\ i = 1 => Heap(s, n)
<1>1. ASSUME NEW k \in 2..n, k \div 2 = i PROVE AfterParent(s, k)
  <2> DEFINE c == SmallerChild(s, i, n)
  <2>1. 2 * i <= n
    BY <1>1
  <2>2. c \in 2..n /\ Key(s, c) <= Key(s, k)
    BY <1>1, <2>1, SmallerChildIs
  <2>3. ~ (Key(s, c) < Key(s, i))
    BY <2>1 DEF Less, Key
  <2> HIDE DEF c
  <2>4. Key(s, c) \in Nat /\ Key(s, i) \in Nat /\ Key(s, k) \in Nat
    BY <2>2, KeyType
  <2> QED BY <1>1, <2>2, <2>3, <2>4 DEF AfterParent
<1>2. ASSUME NEW k \in 2..n, k # i PROVE AfterParent(s, k)
  BY <1>1, <1>2 DEF ButAround
<1>3. ButAbove(s, n, i)
  BY <1>2 DEF ButAbove, ButAround
<1> QED BY <1>2, <1>3 DEF Heap

\* down(i, n) makes a heap if it moves anything; else the event at i is
\* before its children.
LEMMA DownMakesHeap ==
    ASSUME NEW m \in Nat, NEW n \in 0..m, NEW s, Indexed(s, m), NEW i \in 1..m, ButAround(s, n, i),
           NEW d, d = Down(s, i, n)
    PROVE  /\ Rearranged(s, d.s, m, n) /\ d.i \in i..m
           /\ d.i > i => Heap(d.s, n)
           /\ d.i = i => d.s = s /\ ButAbove(s, n, i) /\ (i = 1 => Heap(s, n))
<1> DEFINE Good(r) == /\ Rearranged(s, r.s, m, n) /\ ButAround(r.s, n, r.i) /\ r.i >= i
                      /\ r.i = i => r.s = s
                      /\ r.i > i => r.i \in 2..n /\ AfterParent(r.s, r.i)
           V == {r \in [s : QueueState(m), i : 1..m] : Good(r)}
           start == [s |-> s, i |-> i]
           Child(r) == SmallerChild(r.s, r.i, n)
           Moves(r) == 2 * r.i <= n /\ Less(r.s, Child(r), r.i)
           Moved(r) == [s |-> Swap(r.s, r.i, Child(r)), i |-> Child(r)]
           step == [r \in V |-> IF Moves(r) THEN Moved(r) ELSE r]
           Smaller(r) == IF 2 * r.i + 1 <= n /\ Less(r.s, 2 * r.i + 1, 2 * r.i)
                         THEN 2 * r.i + 1 ELSE 2 * r.i
           Sinks(f) == f = [k \in Nat |-> IF k = 0 THEN start
                                          ELSE LET r == f[k - 1] IN
                                               IF 2 * r.i <= n /\ Less(r.s, Smaller(r), r.i)
                                               THEN [s |-> Swap(r.s, r.i, Smaller(r)), i |-> Smaller(r)]
                                               ELSE r]
           h == CHOOSE f : Sinks(f)
<1>1. d = h[n]
  BY DEF Down
<1>2. start \in V
  <2>1. s \in QueueState(m) /\ Rearranged(s, s, m, n) /\ start.s = s /\ start.i = i
    BY DEF Rearranged, Indexed
  <2>2. start \in [s : QueueState(m), i : 1..m]
    BY <2>1
  <2> HIDE DEF start
  <2> QED BY <2>1, <2>2
<1>3. ASSUME NEW r \in V, Moves(r) PROVE Moved(r) \in V /\ Moved(r).i > r.i
  <2>1. /\ r.s \in QueueState(m) /\ r.i \in 1..m /\ Rearranged(s, r.s, m, n)
        /\ ButAround(r.s, n, r.i) /\ Indexed(r.s, m) /\ r.i >= i /\ 2 * r.i <= n
    BY <1>3 DEF Rearranged
  <2> DEFINE c == Child(r)
             q == Swap(r.s, r.i, c)
  <2>2. c \in 2..n /\ c > r.i /\ c \in 1..m /\ r.i \in 1..n
    BY <2>1, SmallerChildIs
  <2>3. ButAround(q, n, c) /\ AfterParent(q, c)
    BY <2>1, <1>3, SinkKeeps
  <2>4. Rearranged(s, q, m, n)
    <3> HIDE DEF c
    <3> QED BY <2>1, <2>2, SwapRearranges
  <2>5. q \in QueueState(m)
    BY <2>4 DEF Rearranged, Indexed
  <2>6. Moved(r).s = q /\ Moved(r).i = c /\ Moved(r) = [s |-> q, i |-> c]
    OBVIOUS
  <2> HIDE DEF q, c, Moved
  <2>7. Moved(r) \in [s : QueueState(m), i : 1..m]
    BY <2>2, <2>5, <2>6
  <2> QED BY <2>1, <2>2, <2>3, <2>4, <2>6, <2>7
<1>4. Sinks(h)
  <2>1. step \in [V -> V]
    <3> HIDE DEF V, Moved, Moves
    <3> QED BY <1>3
  <2>2. PICK f : Iterates(f, V, start, step)
    <3> HIDE DEF V, step, Sinks, start
    <3> QED BY <1>2, <2>1, IterationExists
  <2>3. ASSUME NEW k \in Nat
        PROVE  f[k] = IF k = 0 THEN start
                      ELSE IF Moves(f[k - 1]) THEN Moved(f[k - 1]) ELSE f[k - 1]
    <3>1. CASE k = 0
      <4> HIDE DEF start, step, V
      <4> QED BY <2>2, <3>1 DEF Iterates
    <3>2. CASE k # 0
      <4>1. k - 1 \in Nat /\ k = k - 1 + 1
        BY <3>2
      <4>2. f[k] = step[f[k - 1]] /\ f[k - 1] \in V
        <5> HIDE DEF start, step, V
        <5> QED BY <2>2, <4>1 DEF Iterates
      <4> HIDE DEF V, Moves, Moved
      <4> QED BY <3>2, <4>2
    <3> QED BY <3>1, <3>2
  <2>4. Sinks(f)
    <3>1. f = [k \in Nat |-> f[k]]
      <4> HIDE DEF V, step, start
      <4> QED BY <2>2 DEF Iterates
    <3> HIDE DEF V, step, start
    <3>2. \A r : Child(r) = Smaller(r)
      BY DEF SmallerChild
    <3> HIDE DEF Smaller
    <3>3. \A k \in Nat : f[k] = IF k = 0 THEN start
                                ELSE LET r == f[k - 1] IN
                                     IF 2 * r.i <= n /\ Less(r.s, Smaller(r), r.i)
                                     THEN [s |-> Swap(r.s, r.i, Smaller(r)), i |-> Smaller(r)]
                                     ELSE r
      <4> HIDE DEF Child
      <4> QED BY <2>3, <3>2
    <3> QED BY <3>1, <3>3
  <2> HIDE DEF Sinks
  <2> QED BY <2>4
<1>5. h[0] = start /\ \A k \in Nat : h[k + 1] = IF Moves(h[k]) THEN Moved(h[k]) ELSE h[k]
  <2> HIDE DEF h, start
  <2>1. \A r : Child(r) = Smaller(r)
    BY DEF SmallerChild
  <2>2. \A k \in Nat : h[k] = IF k = 0 THEN start
                              ELSE IF Moves(h[k - 1]) THEN Moved(h[k - 1]) ELSE h[k - 1]
    <3> HIDE DEF Child, Smaller
    <3> QED BY <1>4, <2>1
  <2> HIDE DEF Sinks, Moves, Moved
  <2>3. \A k \in Nat : k + 1 \in Nat /\ k + 1 # 0 /\ k + 1 - 1 = k
    OBVIOUS
  <2> QED BY <2>2, <2>3
<1>6. start.i = i
  OBVIOUS
\* After k rounds it has stopped or moved down k places.
<1> DEFINE P == {k \in Nat : h[k] \in V /\ (Moves(h[k]) => h[k].i >= i + k)}
<1>7. \A r \in V : r.i \in 1..m /\ Indexed(r.s, m) /\ Good(r)
  BY DEF Rearranged
<1> HIDE DEF h, V, start, step, Sinks, Moves, Moved, Good
<1>8. 0 \in P
  BY <1>2, <1>5, <1>6
<1>9. ASSUME NEW k \in P PROVE k + 1 \in P
  <2>1. CASE Moves(h[k])
    <3>1. h[k + 1] = Moved(h[k]) /\ Moved(h[k]) \in V /\ Moved(h[k]).i > h[k].i /\ h[k].i >= i + k
      BY <1>3, <1>5, <2>1
    <3>2. h[k].i \in 1..m /\ h[k + 1].i \in 1..m
      BY <3>1, <1>7
    <3> QED BY <3>1, <3>2
  <2>2. CASE ~ Moves(h[k])
    BY <1>5, <2>2
  <2> QED BY <2>1, <2>2
<1>10. P = Nat
  <2>1. P \in SUBSET Nat
    OBVIOUS
  <2> HIDE DEF P
  <2> QED BY <2>1, <1>8, <1>9, NatSubset
<1>11. d \in V /\ ~ Moves(d)
  <2>1. n \in Nat
    OBVIOUS
  <2>2. h[n] \in V /\ (Moves(h[n]) => h[n].i >= i + n)
    BY <1>10, <2>1
  <2>3. Moves(h[n]) => 2 * h[n].i <= n
    BY DEF Moves
  <2>4. h[n].i \in 1..m
    BY <1>7, <2>2
  <2> QED BY <1>1, <2>2, <2>3, <2>4
<1>12. /\ Rearranged(s, d.s, m, n) /\ ButAround(d.s, n, d.i) /\ d.i >= i /\ d.i \in 1..m
       /\ d.i = i => d.s = s
       /\ d.i > i => d.i \in 2..n /\ AfterParent(d.s, d.i)
       /\ Indexed(d.s, m) /\ ~ (2 * d.i <= n /\ Less(d.s, SmallerChild(d.s, d.i, n), d.i))
  BY <1>7, <1>11 DEF Good, Moves
<1>13. /\ ButAbove(d.s, n, d.i)
       /\ d.i \in 2..n /\ AfterParent(d.s, d.i) => Heap(d.s, n)
       /\ d.i = 1 => Heap(d.s, n)
  BY <1>12, SinkEnds
<1> QED BY <1>12, <1>13

-----------------------------------------------------------------------------
(***************************************************************************)
(* The operations of container/heap on a queue of n events.                *)
(***************************************************************************)
\* The array is a sequence of events.
LEMMA ArrayIsSeq ==
    ASSUME NEW n \in Nat, NEW h \in [1..n -> Events]
    PROVE  h \in Seq(Events) /\ Len(h) = n
OBVIOUS

\* No event of a heap is before the first one.
LEMMA RootIsLeast ==
    ASSUME NEW n \in Nat, NEW s, Indexed(s, n), Heap(s, n), NEW i \in 1..n
    PROVE  Key(s, 1) <= Key(s, i)
<1> DEFINE P == {k \in Nat : \A j \in 1..n : j <= k => Key(s, 1) <= Key(s, j)}
<1>1. \A j \in 1..n : Key(s, j) \in Nat
  BY KeyType
<1>2. 0 \in P
  OBVIOUS
<1>3. ASSUME NEW k \in P PROVE k + 1 \in P
  <2>1. k \in Nat /\ \A j \in 1..n : j <= k => Key(s, 1) <= Key(s, j)
    OBVIOUS
  <2>2. ASSUME NEW j \in 1..n, j <= k + 1 PROVE Key(s, 1) <= Key(s, j)
    <3>1. CASE j = 1
      BY <1>1, <3>1
    <3>2. CASE j # 1
      <4>1. j \in 2..n /\ j \div 2 \in 1..n /\ j \div 2 <= k
        BY <2>1, <2>2, <3>2
      <4>2. Key(s, j \div 2) <= Key(s, j)
        BY <4>1 DEF Heap, AfterParent
      <4>3. Key(s, 1) <= Key(s, j \div 2)
        BY <2>1, <4>1
      <4>4. Key(s, 1) \in Nat /\ Key(s, j) \in Nat /\ Key(s, j \div 2) \in Nat
        BY <1>1, <4>1
      <4> QED BY <4>2, <4>3, <4>4
    <3> QED BY <3>1, <3>2
  <2> QED BY <2>1, <2>2
<1>4. P = Nat
  <2>1. P \in SUBSET Nat
    OBVIOUS
  <2> HIDE DEF P
  <2> QED BY <2>1, <1>2, <1>3, NatSubset
<1>5. n \in P /\ i <= n
  BY <1>4
<1> QED BY <1>5

\* The queue without its last place.
LEMMA Shortened ==
    ASSUME NEW n \in Nat \ {0}, NEW s, Indexed(s, n), Heap(s, n - 1),
           NEW r, r = [s EXCEPT !.heap = SubSeq(@, 1, n - 1)]
    PROVE  /\ Indexed(r, n - 1) /\ Heap(r, n - 1) /\ r.timestamp = s.timestamp
           /\ Contents(r, n - 1) = Contents(s, n) \ {s.heap[n]}
<1> DEFINE H == SubSeq(s.heap, 1, n - 1)
<1>1. /\ s.heap \in [1..n -> Events] /\ s.timestamp \in [Events -> Nat] /\ s.index \in [Events -> Nat]
      /\ \A k \in 1..n : s.index[s.heap[k]] = k
  BY DEF Indexed, QueueState
<1>2. s = [heap |-> s.heap, timestamp |-> s.timestamp, index |-> s.index]
  BY DEF Indexed, QueueState
<1>3. /\ r.heap = H /\ r.timestamp = s.timestamp /\ r.index = s.index
      /\ r = [heap |-> r.heap, timestamp |-> r.timestamp, index |-> r.index]
  BY <1>2
<1>4. H \in [1..(n - 1) -> Events] /\ \A k \in 1..(n - 1) : H[k] = s.heap[k]
  <2>1. s.heap \in Seq(Events) /\ Len(s.heap) = n
    BY <1>1, ArrayIsSeq
  <2>2. Len(H) = n - 1 /\ H \in Seq(Events) /\ \A k \in 1..(n - 1) : H[k] = s.heap[k]
    BY <2>1
  <2> HIDE DEF H
  <2> QED BY <2>2
<1> HIDE DEF H
<1>5. Indexed(r, n - 1)
  <2>1. r \in QueueState(n - 1)
    BY <1>1, <1>3, <1>4 DEF QueueState
  <2>2. \A k \in 1..(n - 1) : k \in 1..n /\ r.heap[k] = s.heap[k] /\ r.index = s.index
    BY <1>3, <1>4
  <2> QED BY <1>1, <2>1, <2>2 DEF Indexed
<1>6. \A k \in 1..(n - 1) : Key(r, k) = Key(s, k)
  BY <1>3, <1>4 DEF Key
<1>7. Heap(r, n - 1)
  <2>1. ASSUME NEW k \in 2..(n - 1) PROVE AfterParent(r, k)
    <3>1. k \div 2 \in 1..(n - 1) /\ k \in 1..(n - 1)
      OBVIOUS
    <3> QED BY <3>1, <1>6 DEF Heap, AfterParent
  <2> QED BY <2>1 DEF Heap
<1>8. Contents(r, n - 1) = Contents(s, n) \ {s.heap[n]}
  <2>1. \A k \in 1..n : k = n \/ k \in 1..(n - 1)
    OBVIOUS
  <2>2. n \in 1..n /\ \A k \in 1..(n - 1) : k \in 1..n /\ k # n
    OBVIOUS
  <2>3. \A k, l \in 1..n : s.heap[k] = s.heap[l] => k = l
    BY <1>1
  <2> QED BY <1>3, <1>4, <2>1, <2>2, <2>3 DEF Contents
<1> QED BY <1>3, <1>5, <1>7, <1>8

\* heap.Pop takes the first event.
LEMMA HeapPopIs ==
    ASSUME NEW n \in Nat \ {0}, NEW s, Indexed(s, n), Heap(s, n), NEW r, r = HeapPop(s)
    PROVE  /\ Indexed(r, n - 1) /\ Heap(r, n - 1) /\ r.timestamp = s.timestamp
           /\ Contents(r, n - 1) = Contents(s, n) \ {s.heap[1]}
<1> DEFINE w == Swap(s, 1, n)
           d == Down(w, 1, n - 1)
<1>1. Len(s.heap) = n /\ 1 \in 1..n /\ n \in 1..n /\ n - 1 \in 0..n
  BY DEF Indexed, QueueState
<1>2. r = [d.s EXCEPT !.heap = SubSeq(@, 1, n - 1)]
  BY <1>1 DEF HeapPop
<1>3. /\ Indexed(w, n) /\ w.timestamp = s.timestamp /\ Contents(w, n) = Contents(s, n)
      /\ w.heap[n] = s.heap[1]
  BY <1>1, SwapIs DEF Swapped
<1>4. \A k \in 1..n : k # 1 /\ k # n => Key(w, k) = Key(s, k)
  BY <1>1, SwapKeys
<1> HIDE DEF w, d
<1>5. ButAround(w, n - 1, 1)
  <2>1. ASSUME NEW k \in 2..(n - 1), k \div 2 # 1 PROVE AfterParent(w, k)
    <3>1. k \in 2..n /\ k \in 1..n /\ k # 1 /\ k # n /\ k \div 2 \in 1..n /\ k \div 2 # n
      OBVIOUS
    <3> QED BY <2>1, <3>1, <1>4 DEF Heap, AfterParent
  <2> QED BY <2>1 DEF ButAround
<1>6. Rearranged(w, d.s, n, n - 1) /\ Heap(d.s, n - 1)
  <2>1. /\ Rearranged(w, d.s, n, n - 1) /\ d.i \in 1..n /\ (d.i > 1 => Heap(d.s, n - 1))
        /\ (d.i = 1 => d.s = w /\ Heap(w, n - 1))
    BY <1>1, <1>3, <1>5, DownMakesHeap DEF d
  <2> QED BY <2>1
<1>7. /\ Indexed(d.s, n) /\ d.s.timestamp = s.timestamp /\ Contents(d.s, n) = Contents(s, n)
      /\ d.s.heap[n] = s.heap[1]
  BY <1>1, <1>3, <1>6 DEF Rearranged
<1> QED BY <1>2, <1>6, <1>7, Shortened

\* heap.Push adds an event.
LEMMA HeapPushIs ==
    ASSUME NEW n \in Nat, NEW s, Indexed(s, n), Heap(s, n),
           NEW e \in Events, e \notin Contents(s, n), NEW t \in Nat, NEW r, r = HeapPush(s, e, t)
    PROVE  /\ Indexed(r, n + 1) /\ Heap(r, n + 1)
           /\ r.timestamp = [s.timestamp EXCEPT ![e] = t]
           /\ Contents(r, n + 1) = Contents(s, n) \cup {e}
<1> DEFINE H == Append(s.heap, e)
           T == [s.timestamp EXCEPT ![e] = t]
           X == [s.index EXCEPT ![e] = n + 1]
           a == [heap |-> H, timestamp |-> T, index |-> X]
<1>1. /\ s.heap \in [1..n -> Events] /\ s.timestamp \in [Events -> Nat] /\ s.index \in [Events -> Nat]
      /\ \A k \in 1..n : s.index[s.heap[k]] = k
  BY DEF Indexed, QueueState
<1>2. s.heap \in Seq(Events) /\ Len(s.heap) = n
  BY <1>1, ArrayIsSeq
<1>3. r = Up(a, n + 1)
  BY <1>2 DEF HeapPush
<1>4. H \in [1..(n + 1) -> Events] /\ H[n + 1] = e /\ \A k \in 1..n : H[k] = s.heap[k]
  <2>1. /\ H \in Seq(Events) /\ Len(H) = n + 1 /\ H[n + 1] = e
        /\ \A k \in 1..n : H[k] = s.heap[k]
    BY <1>2
  <2> HIDE DEF H
  <2> QED BY <2>1
<1>5. T \in [Events -> Nat] /\ X \in [Events -> Nat]
  BY <1>1
<1>6. \A k \in 1..n : s.heap[k] # e /\ s.heap[k] \in Events
  BY <1>1 DEF Contents
<1>7. \A k \in 1..n : T[s.heap[k]] = s.timestamp[s.heap[k]] /\ X[s.heap[k]] = k
  BY <1>1, <1>6
<1>8. X[e] = n + 1
  BY <1>1
<1>9. a.heap = H /\ a.timestamp = T /\ a.index = X
  OBVIOUS
<1>10. \A k \in 1..(n + 1) : k = n + 1 \/ k \in 1..n
  OBVIOUS
<1> HIDE DEF H, X, T
<1>11. a \in QueueState(n + 1)
  BY <1>4, <1>5 DEF QueueState
<1> HIDE DEF a
<1>12. Indexed(a, n + 1)
  BY <1>4, <1>7, <1>8, <1>9, <1>10, <1>11 DEF Indexed
<1>13. \A k \in 1..n : Key(a, k) = Key(s, k)
  BY <1>4, <1>7, <1>9 DEF Key
<1>14. ButAbove(a, n + 1, n + 1)
  <2>1. ASSUME NEW k \in 2..(n + 1), k # n + 1 PROVE AfterParent(a, k)
    <3>1. k \in 2..n /\ k \in 1..n /\ k \div 2 \in 1..n
      BY <2>1
    <3> QED BY <3>1, <1>13 DEF Heap, AfterParent
  <2>2. \A k \in 2..(n + 1) : k \div 2 # n + 1
    OBVIOUS
  <2> QED BY <2>1, <2>2 DEF ButAbove
<1>15. Rearranged(a, r, n + 1, n + 1) /\ Heap(r, n + 1)
  <2>1. n + 1 \in Nat /\ n + 1 \in 1..(n + 1)
    OBVIOUS
  <2> QED BY <2>1, <1>3, <1>12, <1>14, UpMakesHeap
<1>16. Contents(a, n + 1) = Contents(s, n) \cup {e}
  <2>1. n + 1 \in 1..(n + 1) /\ \A k \in 1..n : k \in 1..(n + 1)
    OBVIOUS
  <2> QED BY <2>1, <1>4, <1>9, <1>10 DEF Contents
<1> QED BY <1>9, <1>15, <1>16 DEF Rearranged, T

\* heap.Fix mends a heap around a place.
LEMMA HeapFixIs ==
    ASSUME NEW n \in Nat, NEW s, Indexed(s, n), NEW i \in 1..n, ButAround(s, n, i),
           NEW r, r = HeapFix(s, i)
    PROVE  Rearranged(s, r, n, n) /\ Heap(r, n)
<1> DEFINE d == Down(s, i, n)
<1>1. Len(s.heap) = n /\ n \in 0..n
  BY DEF Indexed, QueueState
<1>2. r = IF d.i > i THEN d.s ELSE Up(d.s, i)
  BY <1>1 DEF HeapFix
<1>3. /\ Rearranged(s, d.s, n, n) /\ d.i \in i..n /\ (d.i > i => Heap(d.s, n))
      /\ (d.i = i => d.s = s /\ ButAbove(s, n, i))
  BY <1>1, DownMakesHeap
<1> HIDE DEF d
<1>4. CASE d.i > i
  BY <1>2, <1>3, <1>4
<1>5. CASE ~ (d.i > i)
  <2>1. d.i = i
    BY <1>3, <1>5
  <2>2. r = Up(s, i) /\ ButAbove(s, n, i)
    BY <1>2, <1>3, <1>5, <2>1
  <2> QED BY <2>2, UpMakesHeap
<1> QED BY <1>4, <1>5

-----------------------------------------------------------------------------
(***************************************************************************)
(* The queue.                                                              *)
(***************************************************************************)
\* The inductive invariant: heap is a heap, index its inverse, and the
\* events in it are those whose eq is set.
IInv ==
    /\ heap \in Seq(Events)
    /\ Indexed(State, Len(heap)) /\ Heap(State, Len(heap))
    /\ queued = Contents(State, Len(heap))

\* It holds after a step to an array of n events.
LEMMA InvariantFrom ==
    ASSUME NEW n \in Nat, NEW r, Indexed(r, n), Heap(r, n), Becomes(r), queued' = Contents(r, n)
    PROVE  IInv'
<1>1. r \in QueueState(n)
  BY DEF Indexed
<1>2. State' = r
  <2>1. r = [heap |-> r.heap, timestamp |-> r.timestamp, index |-> r.index]
    BY <1>1 DEF QueueState
  <2> QED BY <2>1 DEF State, Becomes
<1>3. heap' \in Seq(Events) /\ Len(heap') = n
  BY <1>1, ArrayIsSeq DEF Becomes, QueueState
<1>4. IInv' = (/\ heap' \in Seq(Events)
               /\ Indexed(State', Len(heap')) /\ Heap(State', Len(heap'))
               /\ queued' = Contents(State', Len(heap')))
  BY DEF IInv, Indexed, Heap, AfterParent, Key, Contents
<1> QED BY <1>2, <1>3, <1>4

\* The queue is empty.
LEMMA Initially == Init => IInv
<1> SUFFICES ASSUME Init PROVE IInv
  OBVIOUS
<1>1. heap = <<>> /\ Len(heap) = 0 /\ heap \in Seq(Events) /\ heap \in [1..0 -> Events]
  BY DEF Init
<1>2. timestamp \in [Events -> Nat] /\ index \in [Events -> Nat] /\ queued = {}
  BY DEF Init
<1>3. State \in QueueState(0)
  BY <1>1, <1>2 DEF State, QueueState
<1>4. Indexed(State, 0) /\ Heap(State, 0) /\ Contents(State, 0) = {}
  BY <1>3 DEF Indexed, Heap, Contents
<1> QED BY <1>1, <1>2, <1>4 DEF IInv

\* What the invariant says in a state, with n events.
LEMMA Unfold ==
    ASSUME IInv
    PROVE  /\ Len(heap) \in Nat /\ (heap # <<>> => Len(heap) \in Nat \ {0})
           /\ Indexed(State, Len(heap)) /\ Heap(State, Len(heap))
           /\ queued = Contents(State, Len(heap)) /\ queued \subseteq Events
           /\ State.heap = heap /\ State.timestamp = timestamp /\ State.index = index
           /\ timestamp \in [Events -> Nat]
<1>1. /\ heap \in Seq(Events) /\ Indexed(State, Len(heap)) /\ Heap(State, Len(heap))
      /\ queued = Contents(State, Len(heap))
  BY DEF IInv
<1>2. State.heap = heap /\ State.timestamp = timestamp /\ State.index = index
  BY DEF State
<1>3. heap \in [1..Len(heap) -> Events] /\ timestamp \in [Events -> Nat]
  BY <1>1, <1>2 DEF Indexed, QueueState
<1>4. queued \subseteq Events
  BY <1>1, <1>2, <1>3 DEF Contents
<1>5. Len(heap) \in Nat /\ (heap # <<>> => Len(heap) \in Nat \ {0})
  BY <1>1
<1> QED BY <1>1, <1>2, <1>3, <1>4, <1>5

\* Push.
LEMMA PushKeeps ==
    ASSUME NEW e \in Events, NEW t \in 0..MaxTime, IInv, Push(e, t)
    PROVE  IInv' /\ Abstract!Push(e, t)
<1> DEFINE n == Len(heap)
           r == HeapPush(State, e, t)
<1>1. e \notin queued /\ Becomes(r) /\ queued' = queued \cup {e}
  BY DEF Push
<1>2. t \in Nat /\ n \in Nat /\ n + 1 \in Nat
  BY Unfold, EventQueueAssumption
<1>3. /\ Indexed(r, n + 1) /\ Heap(r, n + 1) /\ r.timestamp = [timestamp EXCEPT ![e] = t]
      /\ Contents(r, n + 1) = queued \cup {e}
  <2>1. /\ Indexed(State, n) /\ Heap(State, n) /\ State.timestamp = timestamp
        /\ queued = Contents(State, n) /\ e \notin Contents(State, n)
    BY <1>1, Unfold
  <2> HIDE DEF n
  <2>2. /\ Indexed(r, n + 1) /\ Heap(r, n + 1) /\ r.timestamp = [State.timestamp EXCEPT ![e] = t]
        /\ Contents(r, n + 1) = Contents(State, n) \cup {e}
    BY <1>2, <2>1, HeapPushIs
  <2> QED BY <2>1, <2>2
<1> HIDE DEF r, n
<1>4. IInv'
  BY <1>1, <1>2, <1>3, InvariantFrom
<1>5. Abstract!Push(e, t)
  BY <1>1, <1>3 DEF Abstract!Push, Becomes
<1> QED BY <1>4, <1>5

\* Pop takes an event with the least timestamp.
LEMMA PopKeeps ==
    ASSUME IInv, Pop
    PROVE  IInv' /\ \E e \in Events : Abstract!Pop(e)
<1> DEFINE n == Len(heap)
           r == HeapPop(State)
           e == heap[1]
<1>1. heap # <<>> /\ Becomes(r) /\ queued' = queued \ {e}
  BY DEF Pop
<1>2. n \in Nat \ {0} /\ n - 1 \in Nat /\ 1 \in 1..n
  BY <1>1, Unfold
<1>3. /\ Indexed(r, n - 1) /\ Heap(r, n - 1) /\ r.timestamp = timestamp
      /\ Contents(r, n - 1) = queued \ {e}
  BY <1>1, <1>2, Unfold, HeapPopIs
<1>4. e \in queued /\ e \in Events
  BY <1>2, Unfold DEF Contents
<1>5. \A f \in queued : timestamp[e] <= timestamp[f]
  <2>1. \A i \in 1..n : Key(State, 1) <= Key(State, i)
    BY <1>2, Unfold, RootIsLeast
  <2>2. \A i \in 1..n : timestamp[heap[1]] <= timestamp[heap[i]]
    BY <2>1, Unfold DEF Key
  <2>3. \A f \in queued : \E i \in 1..n : f = heap[i]
    BY Unfold DEF Contents
  <2> QED BY <2>2, <2>3
<1> HIDE DEF r, n, e
<1>6. IInv'
  BY <1>1, <1>2, <1>3, InvariantFrom
<1>7. Abstract!Pop(e)
  BY <1>1, <1>3, <1>4, <1>5 DEF Abstract!Pop, Becomes
<1> QED BY <1>4, <1>6, <1>7

\* ChangeTime, of an event that is queued or not.
LEMMA ChangeTimeKeeps ==
    ASSUME NEW e \in Events, NEW t \in 0..MaxTime, IInv, ChangeTime(e, t)
    PROVE  IInv' /\ Abstract!ChangeTime(e, t)
<1> DEFINE n == Len(heap)
           s == [State EXCEPT !.timestamp[e] = t]
           r == Changed(e, t)
           i == index[e]
<1>1. Becomes(r) /\ queued' = queued /\ t \in Nat /\ n \in Nat
  BY Unfold, EventQueueAssumption DEF ChangeTime
<1>2. r = IF e \in queued THEN HeapFix(s, i) ELSE s
  BY DEF Changed
<1>3. /\ s.heap = heap /\ s.index = index /\ s.timestamp = [timestamp EXCEPT ![e] = t]
      /\ s = [heap |-> s.heap, timestamp |-> s.timestamp, index |-> s.index]
  BY DEF State
<1>4. /\ heap \in [1..n -> Events] /\ timestamp \in [Events -> Nat] /\ index \in [Events -> Nat]
      /\ \A k \in 1..n : index[heap[k]] = k
  BY Unfold DEF Indexed, QueueState
<1> HIDE DEF s, r
<1>5. s.timestamp \in [Events -> Nat]
  BY <1>1, <1>3, <1>4
<1>6. Indexed(s, n)
  BY <1>3, <1>4, <1>5 DEF Indexed, QueueState
<1>7. Contents(s, n) = queued
  BY <1>3, Unfold DEF Contents
<1>8. \A k \in 1..n : heap[k] # e => Key(s, k) = Key(State, k)
  BY <1>3, <1>4, Unfold DEF Key
<1>9. \A k \in 2..n : k \div 2 \in 1..n /\ k \in 1..n
  OBVIOUS
<1>10. Heap(State, n)
  BY Unfold
<1>11. Indexed(r, n) /\ Heap(r, n) /\ Contents(r, n) = queued /\ r.timestamp = s.timestamp
  <2>1. CASE e \in queued
    <3>1. i \in 1..n /\ heap[i] = e
      <4>1. PICK k \in 1..n : e = heap[k]
        BY <2>1, Unfold DEF Contents
      <4> QED BY <1>4, <4>1
    <3>2. \A k \in 1..n : k # i => heap[k] # e
      BY <1>4, <3>1
    <3> HIDE DEF i
    <3>3. ButAround(s, n, i)
      <4>1. ASSUME NEW k \in 2..n, k # i, k \div 2 # i PROVE AfterParent(s, k)
        BY <1>8, <1>9, <1>10, <3>2, <4>1 DEF Heap, AfterParent
      <4>2. ASSUME NEW k \in 2..n, k \div 2 = i, i > 1 PROVE Key(s, i \div 2) <= Key(s, k)
        <5>1. k # i /\ i \in 2..n /\ i \div 2 # i /\ i \div 2 \in 1..n /\ k \in 1..n
          BY <3>1, <4>2
        <5>2. Key(s, k) = Key(State, k) /\ Key(s, i \div 2) = Key(State, i \div 2)
          BY <1>8, <3>2, <5>1
        <5>3. Key(State, i \div 2) <= Key(State, i) /\ Key(State, i) <= Key(State, k)
          BY <1>10, <4>2, <5>1 DEF Heap, AfterParent
        <5>4. Key(State, i \div 2) \in Nat /\ Key(State, i) \in Nat /\ Key(State, k) \in Nat
          BY <1>1, <3>1, <5>1, Unfold, KeyType
        <5> QED BY <5>2, <5>3, <5>4
      <4> QED BY <4>1, <4>2 DEF ButAround
    <3>4. Rearranged(s, r, n, n) /\ Heap(r, n)
      <4>1. r = HeapFix(s, i)
        BY <1>2, <2>1
      <4> QED BY <1>1, <1>6, <3>1, <3>3, <4>1, HeapFixIs
    <3> QED BY <1>7, <3>4 DEF Rearranged
  <2>2. CASE e \notin queued
    <3>1. r = s
      BY <1>2, <2>2
    <3>2. \A k \in 1..n : heap[k] # e
      BY <2>2, Unfold DEF Contents
    <3>3. Heap(s, n)
      BY <1>8, <1>9, <1>10, <3>2 DEF Heap, AfterParent
    <3> QED BY <1>6, <1>7, <3>1, <3>3
  <2> QED BY <2>1, <2>2
<1> HIDE DEF n, i
<1>12. IInv'
  BY <1>1, <1>11, InvariantFrom
<1>13. Abstract!ChangeTime(e, t)
  BY <1>1, <1>3, <1>11 DEF Abstract!ChangeTime, Becomes
<1> QED BY <1>12, <1>13

\* The invariant is inductive, and each step is one of Agenda.
LEMMA StepKeeps == IInv /\ [Next]_vars => IInv' /\ [Abstract!Next]_<<queued, timestamp>>
<1> SUFFICES ASSUME IInv, [Next]_vars PROVE IInv' /\ [Abstract!Next]_<<queued, timestamp>>
  OBVIOUS
<1>1. ASSUME NEW e \in Events, NEW t \in 0..MaxTime, Push(e, t)
      PROVE  IInv' /\ Abstract!Next
  BY <1>1, PushKeeps DEF Abstract!Next
<1>2. ASSUME NEW e \in Events, NEW t \in 0..MaxTime, ChangeTime(e, t)
      PROVE  IInv' /\ Abstract!Next
  BY <1>2, ChangeTimeKeeps DEF Abstract!Next
<1>3. CASE Pop
  <2>1. IInv' /\ \E e \in Events : Abstract!Pop(e)
    BY <1>3, PopKeeps
  <2> QED BY <2>1 DEF Abstract!Next
<1>4. CASE UNCHANGED vars
  BY <1>4 DEF vars, IInv, State, Indexed, Heap, AfterParent, Key, Contents
<1> QED BY <1>1, <1>2, <1>3, <1>4 DEF Next

\* Whatever is pushed, popped and moved, in whatever order, the heap and the
\* indexes behave as the abstract queue: in particular the event popped has
\* the least of the timestamps, though ChangeTime sets them behind the back
\* of container/heap and finds the event by its index.
THEOREM QueueImplementsAgenda == Spec => ImplementsAgenda
<1>1. Init => IInv /\ Abstract!Init
  BY Initially DEF Init, Abstract!Init
<1>2. IInv /\ [Next]_vars => IInv' /\ [Abstract!Next]_<<queued, timestamp>>
  BY StepKeeps
<1> QED BY <1>1, <1>2, PTL DEF Spec, ImplementsAgenda, Abstract!Spec
=============================================================================
